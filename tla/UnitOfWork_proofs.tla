------------------------- MODULE UnitOfWork_proofs -------------------------
(***************************************************************************)
(* Proofs about UnitOfWork, for any requests, workload and pool.           *)
(***************************************************************************)
EXTENDS UnitOfWork, TLAPS

(* A workload gives a request only commands, and a registration carries    *)
(* the id of its own request.                                              *)
LEMMA WorkloadCommands ==
    ASSUME NEW r \in Requests, NEW c \in Workload[r]
    PROVE  c \in Command /\ (c.op = "register" => c.id = r)
  BY WorkloadAssumption

(* Leaving a handler keeps the variables in their domains.                 *)
LEMMA FinishTypeOK ==
    ASSUME TypeOK, NEW r \in Requests, NEW code \in Codes, NEW user \in User \cup {NoUser},
           Finish(r, code, user), pc[r] # "done",
           users' \in [Requests -> User \cup {NoUser}], outbox' \in Seq(OutboxRow)
    PROVE  TypeOK'
  <1>1. /\ pc' \in [Requests -> Phases]
        /\ aggregate' \in [Requests -> User \cup {NoUser}]
        /\ clock' \in Nat
        /\ cmd' \in [Requests -> Command] /\ \A q \in Requests : cmd'[q] \in Workload[q]
    BY DEF TypeOK, Finish, Phases
  <1>2. [code |-> code, user |-> user] \in Reply
    BY DEF Reply
  <1>3. reply' \in [Requests -> Reply \cup {NoReply}]
    BY <1>2 DEF TypeOK, Finish
  <1>4. <<>> \in Seq(OutboxRow) /\ Len(<<>>) = 0
    OBVIOUS
  <1>5. events' \in [Requests -> Seq(OutboxRow)]
    BY <1>4 DEF TypeOK, Finish
  <1>6. [code |-> code, user |-> user] # NoReply
    BY DEF NoReply, Codes
  <1>7. ASSUME NEW q \in Requests
        PROVE  /\ pc'[q] \in Written <=> aggregate'[q] # NoUser
               /\ pc'[q] \in Written \/ events'[q] = <<>>
               /\ Len(events'[q]) <= 1
               /\ pc'[q] = "done" <=> reply'[q] # NoReply
    <2>1. CASE q = r
      BY <2>1, <1>4, <1>6 DEF TypeOK, Finish, Written
    <2>2. CASE q # r
      BY <2>2 DEF TypeOK, Finish
    <2> QED BY <2>1, <2>2
  <1> QED
    BY <1>1, <1>3, <1>5, <1>7 DEF TypeOK

(* So does refusing a request.                                             *)
LEMMA RefuseTypeOK ==
    ASSUME TypeOK, NEW r \in Requests, NEW code \in Codes, Refuse(r, code), pc[r] # "done"
    PROVE  TypeOK'
  <1>1. users' \in [Requests -> User \cup {NoUser}] /\ outbox' \in Seq(OutboxRow)
    BY DEF TypeOK, Refuse
  <1> QED
    BY <1>1, FinishTypeOK DEF Refuse

(* And going on to another phase, if what the request has in memory then   *)
(* is what that phase may have.                                            *)
LEMMA GotoTypeOK ==
    ASSUME TypeOK, NEW r \in Requests, NEW phase \in Phases \ {"done"}, Goto(r, phase),
           pc[r] # "done",
           UNCHANGED <<users, outbox, cmd, reply>>, clock' \in Nat,
           aggregate' \in [Requests -> User \cup {NoUser}],
           events' \in [Requests -> Seq(OutboxRow)],
           \A q \in Requests \ {r} : aggregate'[q] = aggregate[q] /\ events'[q] = events[q],
           phase \in Written <=> aggregate'[r] # NoUser,
           phase \in Written \/ events'[r] = <<>>,
           Len(events'[r]) <= 1
    PROVE  TypeOK'
  <1>1. pc' \in [Requests -> Phases]
    BY DEF TypeOK, Goto
  <1>2. ASSUME NEW q \in Requests
        PROVE  /\ pc'[q] \in Written <=> aggregate'[q] # NoUser
               /\ pc'[q] \in Written \/ events'[q] = <<>>
               /\ Len(events'[q]) <= 1
               /\ pc'[q] = "done" <=> reply'[q] # NoReply
    <2>1. CASE q = r
      BY <2>1 DEF TypeOK, Goto
    <2>2. CASE q # r
      BY <2>2 DEF TypeOK, Goto
    <2> QED BY <2>1, <2>2
  <1> QED
    BY <1>1, <1>2 DEF TypeOK

(* An event raised in memory, and stamped, is an outbox row.               *)
LEMMA RaiseEvents ==
    ASSUME TypeOK, NEW r \in Requests, NEW type \in EventTypes, NEW name \in Names,
           pc[r] \notin Written, Raise(r, type, name)
    PROVE  /\ events' \in [Requests -> Seq(OutboxRow)]
           /\ \A q \in Requests \ {r} : events'[q] = events[q]
           /\ Len(events'[r]) <= 1
  <1> DEFINE row == [user |-> cmd[r].id, type |-> type, name |-> name, created_at |-> 0]
  <1>1. row \in OutboxRow
    BY DEF TypeOK, OutboxRow, Command
  <1>2. events[r] = <<>> /\ events[r] \in Seq(OutboxRow)
    BY DEF TypeOK
  <1>3. Append(events[r], row) \in Seq(OutboxRow) /\ Len(Append(events[r], row)) <= 1
    BY <1>1, <1>2
  <1>4. events' = [events EXCEPT ![r] = Append(events[r], row)]
    BY DEF Raise
  <1> HIDE DEF row
  <1> QED
    BY <1>3, <1>4 DEF TypeOK

LEMMA StampEvents ==
    ASSUME NEW s \in Seq(OutboxRow), NEW t \in Nat
    PROVE  LET stamped == [i \in DOMAIN s |-> [s[i] EXCEPT !.created_at = t]]
           IN  stamped \in Seq(OutboxRow) /\ Len(stamped) = Len(s)
  <1> DEFINE stamped == [i \in 1..Len(s) |-> [s[i] EXCEPT !.created_at = t]]
  <1>1. DOMAIN s = 1..Len(s) /\ Len(s) \in Nat
    OBVIOUS
  <1>2. ASSUME NEW i \in 1..Len(s)
        PROVE  [s[i] EXCEPT !.created_at = t] \in OutboxRow
    <2>1. s[i] \in OutboxRow
      OBVIOUS
    <2> QED BY <2>1 DEF OutboxRow
  <1>3. stamped \in [1..Len(s) -> OutboxRow]
    BY <1>2
  <1>4. stamped \in Seq(OutboxRow) /\ Len(stamped) = Len(s)
    BY <1>1, <1>3
  <1> QED
    BY <1>1, <1>4

(* Each action of a request keeps the variables in their domains.          *)
LEMMA BeginTypeOK ==
    ASSUME TypeOK, NEW r \in Requests, Begin(r) PROVE TypeOK'
  <1>1. CASE Refuse(r, "reserved")
    BY <1>1, RefuseTypeOK DEF Begin, Codes
  <1>2. CASE Goto(r, "pool") /\ UNCHANGED <<users, outbox, clock, cmd, aggregate, events, reply>>
    BY <1>2, GotoTypeOK DEF Begin, TypeOK, Phases, Written
  <1> QED BY <1>1, <1>2 DEF Begin

LEMMA CheckoutTypeOK ==
    ASSUME TypeOK, NEW r \in Requests, Checkout(r) PROVE TypeOK'
  BY GotoTypeOK DEF Checkout, TypeOK, Phases, Written

LEMMA RegisterTypeOK ==
    ASSUME TypeOK, NEW r \in Requests, RegisterUser(r) PROVE TypeOK'
  <1>1. CASE EmailTaken(cmd[r].email)
    BY <1>1, RefuseTypeOK DEF RegisterUser, Codes
  <1>2. CASE ~EmailTaken(cmd[r].email)
    <2> DEFINE user == NewUser(cmd[r])
    <2>1. user \in User /\ user # NoUser
      BY NoUserAssumption DEF TypeOK, Command, User, Status, NewUser
    <2>2. /\ aggregate' = [aggregate EXCEPT ![r] = user]
          /\ Raise(r, "UserRegistered", cmd[r].name)
          /\ Goto(r, "stage")
          /\ UNCHANGED <<users, outbox, clock, cmd, reply>>
          /\ pc[r] = "load"
      BY <1>2 DEF RegisterUser
    <2>3. /\ events' \in [Requests -> Seq(OutboxRow)]
          /\ \A q \in Requests \ {r} : events'[q] = events[q]
          /\ Len(events'[r]) <= 1
      BY <2>2, RaiseEvents DEF TypeOK, Command, EventTypes, Written
    <2> HIDE DEF user
    <2> QED BY <2>1, <2>2, <2>3, GotoTypeOK DEF TypeOK, Phases, Written
  <1> QED BY <1>1, <1>2

LEMMA MissingTypeOK ==
    ASSUME TypeOK, NEW r \in Requests, NEW op, UserMissing(r, op) PROVE TypeOK'
  BY RefuseTypeOK DEF UserMissing, LoadUser, Codes

LEMMA GetTypeOK ==
    ASSUME TypeOK, NEW r \in Requests, GetUser(r) PROVE TypeOK'
  <1>1. CASE UserMissing(r, "get")
    BY <1>1, MissingTypeOK
  <1>2. CASE LoadUser(r, "get") /\ Finish(r, "ok", Loaded(r)) /\ UNCHANGED <<users, outbox>>
    <2>1. Loaded(r) \in User \cup {NoUser}
      BY DEF TypeOK, Loaded, Command
    <2> QED BY <1>2, <2>1, FinishTypeOK DEF LoadUser, TypeOK, Codes
  <1> QED BY <1>1, <1>2 DEF GetUser

LEMMA RenameTypeOK ==
    ASSUME TypeOK, NEW r \in Requests, RenameUser(r) PROVE TypeOK'
  <1>1. CASE UserMissing(r, "rename")
    BY <1>1, MissingTypeOK
  <1>2. CASE LoadUser(r, "rename") /\ Refuse(r, "deactivated")
    BY <1>2, RefuseTypeOK DEF LoadUser, Codes
  <1>3. CASE /\ LoadUser(r, "rename")
             /\ Loaded(r) # NoUser
             /\ aggregate' = [aggregate EXCEPT ![r] = Renamed(r)]
             /\ IF SameName(r) THEN UNCHANGED events
                ELSE Raise(r, "UserRenamed", cmd[r].name)
             /\ Goto(r, "save")
             /\ UNCHANGED <<users, outbox, clock, cmd, reply>>
    <2> DEFINE user == Renamed(r)
    <2>1. Loaded(r) \in User /\ cmd[r].name \in Names
      BY <1>3 DEF TypeOK, Loaded, Command
    <2>2. user \in User /\ user # NoUser
      BY <2>1, NoUserAssumption DEF User, Renamed
    <2>3. /\ events' \in [Requests -> Seq(OutboxRow)]
          /\ \A q \in Requests \ {r} : events'[q] = events[q]
          /\ Len(events'[r]) <= 1
      <3>1. CASE SameName(r)
        BY <1>3, <3>1 DEF TypeOK
      <3>2. CASE ~SameName(r)
        <4>1. Raise(r, "UserRenamed", cmd[r].name) /\ pc[r] \notin Written
          BY <1>3, <3>2 DEF LoadUser, Written
        <4> QED BY <4>1, <2>1, RaiseEvents DEF EventTypes
      <3> QED BY <3>1, <3>2
    <2>4. /\ aggregate' = [aggregate EXCEPT ![r] = user]
          /\ Goto(r, "save") /\ pc[r] = "load"
          /\ UNCHANGED <<users, outbox, clock, cmd, reply>>
      BY <1>3 DEF LoadUser
    <2> HIDE DEF user
    <2> QED BY <2>2, <2>3, <2>4, GotoTypeOK DEF TypeOK, Phases, Written
  <1> QED BY <1>1, <1>2, <1>3 DEF RenameUser

LEMMA DeactivateTypeOK ==
    ASSUME TypeOK, NEW r \in Requests, DeactivateUser(r) PROVE TypeOK'
  <1>1. CASE UserMissing(r, "deactivate")
    BY <1>1, MissingTypeOK
  <1>2. CASE LoadUser(r, "deactivate") /\ Refuse(r, "deactivated")
    BY <1>2, RefuseTypeOK DEF LoadUser, Codes
  <1>3. CASE /\ LoadUser(r, "deactivate")
             /\ Loaded(r) # NoUser
             /\ aggregate' = [aggregate EXCEPT ![r] = Deactivated(r)]
             /\ Raise(r, "UserDeactivated", cmd[r].name)
             /\ Goto(r, "save")
             /\ UNCHANGED <<users, outbox, clock, cmd, reply>>
    <2> DEFINE user == Deactivated(r)
    <2>1. Loaded(r) \in User /\ cmd[r].name \in Names
      BY <1>3 DEF TypeOK, Loaded, Command
    <2>2. user \in User /\ user # NoUser
      BY <2>1, NoUserAssumption DEF User, Status, Deactivated
    <2>3. /\ events' \in [Requests -> Seq(OutboxRow)]
          /\ \A q \in Requests \ {r} : events'[q] = events[q]
          /\ Len(events'[r]) <= 1
      <3>1. Raise(r, "UserDeactivated", cmd[r].name) /\ pc[r] \notin Written
        BY <1>3 DEF LoadUser, Written
      <3> QED BY <3>1, <2>1, RaiseEvents DEF EventTypes
    <2>4. /\ aggregate' = [aggregate EXCEPT ![r] = user]
          /\ Goto(r, "save") /\ pc[r] = "load"
          /\ UNCHANGED <<users, outbox, clock, cmd, reply>>
      BY <1>3 DEF LoadUser
    <2> HIDE DEF user
    <2> QED BY <2>2, <2>3, <2>4, GotoTypeOK DEF TypeOK, Phases, Written
  <1> QED BY <1>1, <1>2, <1>3 DEF DeactivateUser

LEMMA SaveTypeOK ==
    ASSUME TypeOK, NEW r \in Requests, Save(r) PROVE TypeOK'
  <1>1. CASE Refuse(r, "conflict")
    BY <1>1, RefuseTypeOK DEF Save, Codes
  <1>2. CASE Saved(r)
    <2> DEFINE user == [aggregate[r] EXCEPT !.version = @ + 1]
    <2>1. aggregate[r] \in User
      BY DEF Save, TypeOK, Written
    <2>2. user \in User /\ user # NoUser
      BY <2>1, NoUserAssumption DEF User
    <2>3. /\ aggregate' = [aggregate EXCEPT ![r] = user]
          /\ Goto(r, "stage")
          /\ UNCHANGED <<users, outbox, clock, cmd, events, reply>>
      BY <1>2 DEF Saved
    <2>4. pc[r] = "save"
      BY DEF Save
    <2> HIDE DEF user
    <2> QED BY <2>2, <2>3, <2>4, GotoTypeOK DEF TypeOK, Phases, Written
  <1> QED BY <1>1, <1>2 DEF Save

LEMMA StageTypeOK ==
    ASSUME TypeOK, NEW r \in Requests, Stage(r) PROVE TypeOK'
  <1> DEFINE stamped == [i \in DOMAIN events[r] |->
                           [events[r][i] EXCEPT !.created_at = clock']]
  <1>1. /\ pc[r] = "stage" /\ clock' = clock + 1
        /\ events' = [events EXCEPT ![r] = stamped]
        /\ Goto(r, "flush")
        /\ UNCHANGED <<users, outbox, cmd, aggregate, reply>>
    BY DEF Stage
  <1>2. clock' \in Nat /\ events[r] \in Seq(OutboxRow)
    BY <1>1 DEF TypeOK
  <1>3. stamped \in Seq(OutboxRow) /\ Len(stamped) = Len(events[r])
    BY <1>2, StampEvents
  <1> HIDE DEF stamped
  <1> QED BY <1>1, <1>2, <1>3, GotoTypeOK DEF TypeOK, Phases, Written

LEMMA FlushTypeOK ==
    ASSUME TypeOK, NEW r \in Requests, Flush(r) PROVE TypeOK'
  <1>1. CASE Refuse(r, "failed")
    BY <1>1, RefuseTypeOK DEF Flush, Codes
  <1>2. CASE Goto(r, "commit") /\ UNCHANGED <<users, outbox, clock, cmd, aggregate, events, reply>>
    BY <1>2, GotoTypeOK DEF Flush, TypeOK, Phases, Written
  <1> QED BY <1>1, <1>2 DEF Flush

LEMMA PublishTypes ==
    ASSUME TypeOK, NEW r \in Requests, Publish(r)
    PROVE  /\ users' \in [Requests -> User \cup {NoUser}]
           /\ outbox' \in Seq(OutboxRow)
           /\ aggregate[r] \in User
  <1>1. aggregate[r] \in User
    BY DEF TypeOK, Publish, Written
  <1>2. users' \in [Requests -> User \cup {NoUser}]
    BY <1>1 DEF TypeOK, Publish
  <1>3. outbox' \in Seq(OutboxRow)
    BY DEF TypeOK, Publish
  <1> QED BY <1>1, <1>2, <1>3

LEMMA CommitTypeOK ==
    ASSUME TypeOK, NEW r \in Requests, Commit(r) \/ CommitUnacknowledged(r) PROVE TypeOK'
  <1>1. CASE Commit(r)
    BY <1>1, PublishTypes, FinishTypeOK DEF Commit, Publish, Codes
  <1>2. CASE CommitUnacknowledged(r)
    BY <1>2, PublishTypes, FinishTypeOK DEF CommitUnacknowledged, Publish, Codes
  <1> QED BY <1>1, <1>2

LEMMA FailTypeOK ==
    ASSUME TypeOK, NEW r \in Requests, Fail(r) PROVE TypeOK'
  BY RefuseTypeOK DEF Fail, Codes

LEMMA InitTypeOK == Init => TypeOK
  <1> SUFFICES ASSUME Init PROVE TypeOK
    OBVIOUS
  <1>1. <<>> \in Seq(OutboxRow) /\ Len(<<>>) = 0
    OBVIOUS
  <1>2. cmd \in [Requests -> Command]
    BY WorkloadCommands DEF Init
  <1> QED BY <1>1, <1>2 DEF Init, TypeOK, Phases, Written

LEMMA NextTypeOK == TypeOK /\ [Next]_vars => TypeOK'
  <1> SUFFICES ASSUME TypeOK, [Next]_vars PROVE TypeOK'
    OBVIOUS
  <1>1. ASSUME NEW r \in Requests, Advance(r) PROVE TypeOK'
    BY <1>1, BeginTypeOK, CheckoutTypeOK, RegisterTypeOK, GetTypeOK, RenameTypeOK,
       DeactivateTypeOK, SaveTypeOK, StageTypeOK, FlushTypeOK, CommitTypeOK DEF Advance
  <1>2. ASSUME NEW r \in Requests, CommitUnacknowledged(r) \/ Fail(r) PROVE TypeOK'
    BY <1>2, CommitTypeOK, FailTypeOK
  <1>3. CASE UNCHANGED vars
    BY <1>3 DEF vars, TypeOK
  <1> QED BY <1>1, <1>2, <1>3 DEF Next, Idle

(* In every reachable state the variables are in their domains, and what a *)
(* request has in memory fits the phase of its handler.                    *)
THEOREM TypeCorrect == Spec => []TypeOK
  <1> QED BY InitTypeOK, NextTypeOK, PTL DEF Spec
-----------------------------------------------------------------------------
(* The inductive invariant behind EmailsUnique and RowsEvolve.             *)
Registers(r) == cmd[r].op = "register"

Writing(r) == pc[r] \in Written

(* A registration's user is not there before it commits, and the email it  *)
(* is about to commit is free.                                             *)
RegisterInv(r) ==
    Registers(r) =>
        /\ pc[r] # "done" => users[r] = NoUser
        /\ Writing(r) => aggregate[r].email = cmd[r].email /\ pc[r] # "save"
        /\ pc[r] = "commit" => ~EmailTaken(cmd[r].email)

(* A change was computed from a version of its row that is not newer than  *)
(* the row, and once saved from the row as it is, which is active.         *)
VersionInv(r, row) ==
    /\ aggregate[r].email = row.email
    /\ pc[r] = "save" =>
         /\ aggregate[r].version <= row.version
         /\ aggregate[r].version = row.version => row.status = "active"
    /\ pc[r] # "save" =>
         /\ aggregate[r].version = row.version + 1
         /\ row.status = "active"

ChangeInv(r) ==
    ~Registers(r) /\ Writing(r) =>
        /\ cmd[r].op \in {"rename", "deactivate"}
        /\ users[cmd[r].id] # NoUser
        /\ VersionInv(r, users[cmd[r].id])

(* Row locks and uncommitted emails exclude each other.                    *)
RowsLocked ==
    \A q, r \in Requests : \A u \in Requests : HoldsRow(q, u) /\ HoldsRow(r, u) => q = r

EmailsLocked ==
    \A q, r \in Requests : \A e \in Emails : HoldsEmail(q, e) /\ HoldsEmail(r, e) => q = r

RequestsInv == \A r \in Requests : RegisterInv(r) /\ ChangeInv(r)

IInv == TypeOK /\ EmailsUnique /\ RequestsInv /\ RowsLocked /\ EmailsLocked

(* What a request is allowed to have is what it keeps, while it and the    *)
(* table stay as they are.                                                 *)
LEMMA OthersKeep ==
    ASSUME NEW q \in Requests, RegisterInv(q), ChangeInv(q),
           users' = users, cmd' = cmd, pc'[q] = pc[q], aggregate'[q] = aggregate[q]
    PROVE  RegisterInv(q)' /\ ChangeInv(q)'
  BY DEF RegisterInv, ChangeInv, VersionInv, Registers, Writing, EmailTaken

(* A request that finishes without a commit.                               *)
LEMMA LeaveInv ==
    ASSUME IInv, TypeOK', NEW r \in Requests, NEW code \in Codes,
           NEW user \in User \cup {NoUser}, Finish(r, code, user), users' = users
    PROVE  IInv'
  <1>1. /\ pc' = [pc EXCEPT ![r] = "done"]
        /\ aggregate' = [aggregate EXCEPT ![r] = NoUser]
        /\ cmd' = cmd
    BY DEF Finish
  <1>2. pc \in [Requests -> Phases] /\ aggregate \in [Requests -> User \cup {NoUser}]
    BY DEF IInv, TypeOK
  <1>3. pc'[r] = "done" /\ \A q \in Requests \ {r} : pc'[q] = pc[q] /\ aggregate'[q] = aggregate[q]
    BY <1>1, <1>2
  <1>4. EmailsUnique'
    BY DEF IInv, EmailsUnique
  <1>5. ASSUME NEW q \in Requests PROVE RegisterInv(q)' /\ ChangeInv(q)'
    <2>1. CASE q = r
      BY <2>1, <1>3 DEF RegisterInv, ChangeInv, Writing, Written
    <2>2. CASE q # r
      BY <2>2, <1>1, <1>3, OthersKeep DEF IInv, RequestsInv
    <2> QED BY <2>1, <2>2
  <1>6. RowsLocked'
    BY <1>1, <1>3 DEF IInv, RowsLocked, HoldsRow
  <1>7. EmailsLocked'
    BY <1>1, <1>3 DEF IInv, EmailsLocked, HoldsEmail
  <1> QED BY <1>4, <1>5, <1>6, <1>7 DEF IInv, RequestsInv

(* A request that goes on to a phase in which it may have what it has, and *)
(* in which it holds nothing that another request holds.                   *)
LEMMA GotoInv ==
    ASSUME IInv, TypeOK', NEW r \in Requests, NEW phase \in Phases, Goto(r, phase),
           users' = users, cmd' = cmd,
           \A q \in Requests \ {r} : aggregate'[q] = aggregate[q],
           RegisterInv(r)', ChangeInv(r)',
           \A u \in Requests : \A q \in Requests \ {r} : HoldsRow(r, u)' => ~HoldsRow(q, u),
           \A e \in Emails : \A q \in Requests \ {r} : HoldsEmail(r, e)' => ~HoldsEmail(q, e)
    PROVE  IInv'
  <1>1. pc \in [Requests -> Phases]
    BY DEF IInv, TypeOK
  <1>2. pc'[r] = phase /\ \A q \in Requests \ {r} : pc'[q] = pc[q]
    BY <1>1 DEF Goto
  <1>3. EmailsUnique'
    BY DEF IInv, EmailsUnique
  <1>4. ASSUME NEW q \in Requests PROVE RegisterInv(q)' /\ ChangeInv(q)'
    <2>1. CASE q = r
      BY <2>1
    <2>2. CASE q # r
      BY <2>2, <1>2, OthersKeep DEF IInv, RequestsInv
    <2> QED BY <2>1, <2>2
  <1>5. ASSUME NEW q \in Requests \ {r}
        PROVE  /\ \A u \in Requests : HoldsRow(q, u)' <=> HoldsRow(q, u)
               /\ \A e \in Emails : HoldsEmail(q, e)' <=> HoldsEmail(q, e)
    BY <1>2 DEF HoldsRow, HoldsEmail
  <1>6. RowsLocked'
    BY <1>5 DEF IInv, RowsLocked
  <1>7. EmailsLocked'
    BY <1>5 DEF IInv, EmailsLocked
  <1> QED BY <1>3, <1>4, <1>6, <1>7 DEF IInv, RequestsInv

LEMMA RefuseInv ==
    ASSUME IInv, TypeOK', NEW r \in Requests, NEW code \in Codes, Refuse(r, code)
    PROVE  IInv'
  BY LeaveInv DEF Refuse

(* Each action of a request keeps the invariant.                           *)
LEMMA BeginInv ==
    ASSUME IInv, TypeOK', NEW r \in Requests, Begin(r) PROVE IInv'
  <1>1. CASE Refuse(r, "reserved")
    BY <1>1, RefuseInv DEF Codes
  <1>2. CASE Goto(r, "pool") /\ UNCHANGED <<users, outbox, clock, cmd, aggregate, events, reply>>
    <2>1. pc'[r] = "pool" /\ pc[r] = "idle"
      BY <1>2 DEF Begin, Goto, IInv, TypeOK
    <2>2. RegisterInv(r)' /\ ChangeInv(r)'
      BY <1>2, <2>1 DEF IInv, RequestsInv, RegisterInv, ChangeInv, Registers, Writing, Written
    <2> QED BY <1>2, <2>1, <2>2, GotoInv DEF HoldsRow, HoldsEmail, Phases
  <1> QED BY <1>1, <1>2 DEF Begin

LEMMA CheckoutInv ==
    ASSUME IInv, TypeOK', NEW r \in Requests, Checkout(r) PROVE IInv'
  <1>1. pc'[r] = "load" /\ pc[r] = "pool"
    BY DEF Checkout, Goto, IInv, TypeOK
  <1>2. RegisterInv(r)' /\ ChangeInv(r)'
    BY <1>1 DEF Checkout, IInv, RequestsInv, RegisterInv, ChangeInv, Registers, Writing, Written
  <1> QED BY <1>1, <1>2, GotoInv DEF Checkout, HoldsRow, HoldsEmail, Phases

LEMMA RegisterUserInv ==
    ASSUME IInv, TypeOK', NEW r \in Requests, RegisterUser(r) PROVE IInv'
  <1>1. CASE EmailTaken(cmd[r].email)
    BY <1>1, RefuseInv DEF RegisterUser, Codes
  <1>2. CASE ~EmailTaken(cmd[r].email)
    <2>1. /\ pc[r] = "load" /\ cmd[r].op = "register" /\ Goto(r, "stage")
          /\ aggregate' = [aggregate EXCEPT ![r] = NewUser(cmd[r])]
          /\ UNCHANGED <<users, outbox, clock, cmd, reply>>
      BY <1>2 DEF RegisterUser
    <2>2. pc'[r] = "stage" /\ aggregate'[r].email = cmd[r].email
      BY <2>1 DEF Goto, IInv, TypeOK, NewUser
    <2>3. RegisterInv(r)' /\ ChangeInv(r)'
      BY <2>1, <2>2 DEF IInv, RequestsInv, RegisterInv, ChangeInv, Registers, Writing
    <2>4. \A q \in Requests \ {r} : aggregate'[q] = aggregate[q]
      BY <2>1 DEF IInv, TypeOK
    <2> QED BY <2>1, <2>2, <2>3, <2>4, GotoInv DEF HoldsRow, HoldsEmail, Phases
  <1> QED BY <1>1, <1>2

LEMMA MissingInv ==
    ASSUME IInv, TypeOK', NEW r \in Requests, NEW op, UserMissing(r, op) PROVE IInv'
  BY RefuseInv DEF UserMissing, Codes

LEMMA LoadedType ==
    ASSUME TypeOK, NEW r \in Requests
    PROVE  /\ Loaded(r) \in User \cup {NoUser}
           /\ cmd[r] \in Command
  BY DEF TypeOK, Loaded, Command

LEMMA GetUserInv ==
    ASSUME IInv, TypeOK', NEW r \in Requests, GetUser(r) PROVE IInv'
  <1>1. CASE UserMissing(r, "get")
    BY <1>1, MissingInv
  <1>2. CASE LoadUser(r, "get") /\ Finish(r, "ok", Loaded(r)) /\ UNCHANGED <<users, outbox>>
    BY <1>2, LoadedType, LeaveInv DEF IInv, Codes
  <1> QED BY <1>1, <1>2 DEF GetUser

(* A change goes from the row it loaded to its save with the row's email   *)
(* and version.                                                            *)
LEMMA ChangedInv ==
    ASSUME IInv, TypeOK', NEW r \in Requests, NEW user,
           pc[r] = "load", cmd[r].op \in {"rename", "deactivate"},
           Loaded(r) # NoUser, EnsureActive(r),
           user.email = Loaded(r).email, user.version = Loaded(r).version,
           aggregate' = [aggregate EXCEPT ![r] = user],
           Goto(r, "save"), users' = users, cmd' = cmd
    PROVE  IInv'
  <1>1. pc'[r] = "save" /\ aggregate'[r] = user
    BY DEF Goto, IInv, TypeOK
  <1>2. Loaded(r) = users[cmd[r].id] /\ Loaded(r).version \in Nat
    BY LoadedType DEF IInv, Loaded, User
  <1>3. RegisterInv(r)'
    BY DEF RegisterInv, Registers
  <1>4. ChangeInv(r)'
    BY <1>1, <1>2 DEF ChangeInv, VersionInv, EnsureActive
  <1>5. \A q \in Requests \ {r} : aggregate'[q] = aggregate[q]
    BY DEF IInv, TypeOK
  <1> QED BY <1>1, <1>3, <1>4, <1>5, GotoInv DEF HoldsRow, HoldsEmail, Phases

LEMMA RenameUserInv ==
    ASSUME IInv, TypeOK', NEW r \in Requests, RenameUser(r) PROVE IInv'
  <1>1. CASE UserMissing(r, "rename")
    BY <1>1, MissingInv
  <1>2. CASE LoadUser(r, "rename") /\ Refuse(r, "deactivated")
    BY <1>2, RefuseInv DEF Codes
  <1>3. CASE /\ LoadUser(r, "rename")
             /\ Loaded(r) # NoUser
             /\ EnsureActive(r)
             /\ aggregate' = [aggregate EXCEPT ![r] = Renamed(r)]
             /\ Goto(r, "save")
             /\ UNCHANGED <<users, outbox, clock, cmd, reply>>
    <2>1. Renamed(r).email = Loaded(r).email /\ Renamed(r).version = Loaded(r).version
      BY <1>3, LoadedType DEF IInv, Renamed, User
    <2> QED BY <1>3, <2>1, ChangedInv DEF LoadUser
  <1> QED BY <1>1, <1>2, <1>3 DEF RenameUser

LEMMA DeactivateUserInv ==
    ASSUME IInv, TypeOK', NEW r \in Requests, DeactivateUser(r) PROVE IInv'
  <1>1. CASE UserMissing(r, "deactivate")
    BY <1>1, MissingInv
  <1>2. CASE LoadUser(r, "deactivate") /\ Refuse(r, "deactivated")
    BY <1>2, RefuseInv DEF Codes
  <1>3. CASE /\ LoadUser(r, "deactivate")
             /\ Loaded(r) # NoUser
             /\ EnsureActive(r)
             /\ aggregate' = [aggregate EXCEPT ![r] = Deactivated(r)]
             /\ Goto(r, "save")
             /\ UNCHANGED <<users, outbox, clock, cmd, reply>>
    <2>1. Deactivated(r).email = Loaded(r).email /\ Deactivated(r).version = Loaded(r).version
      BY <1>3, LoadedType DEF IInv, Deactivated, User
    <2> QED BY <1>3, <2>1, ChangedInv DEF LoadUser
  <1> QED BY <1>1, <1>2, <1>3 DEF DeactivateUser

LEMMA SaveInv ==
    ASSUME IInv, TypeOK', NEW r \in Requests, Save(r) PROVE IInv'
  <1>1. CASE Refuse(r, "conflict")
    BY <1>1, RefuseInv DEF Codes
  <1>2. CASE Loaded(r).version = aggregate[r].version /\ Saved(r)
    <2> DEFINE row == users[cmd[r].id]
    <2>1. /\ pc[r] = "save"
          /\ \A q \in Requests : ~HoldsRow(q, cmd[r].id)
          /\ row.version = aggregate[r].version
          /\ Goto(r, "stage") /\ users' = users /\ cmd' = cmd
      BY <1>2 DEF Save, Saved, Loaded
    <2>2. ~Registers(r) /\ ChangeInv(r)
      BY <2>1 DEF IInv, RequestsInv, RegisterInv, Writing, Written
    <2>3. /\ cmd[r].op \in {"rename", "deactivate"} /\ row # NoUser
          /\ aggregate[r].email = row.email /\ row.status = "active"
      BY <2>1, <2>2 DEF ChangeInv, VersionInv, Writing, Written
    <2>4. aggregate[r] \in User
      BY <2>1 DEF IInv, TypeOK, Written
    <2>5. /\ aggregate'[r].version = aggregate[r].version + 1
          /\ aggregate'[r].email = aggregate[r].email
          /\ \A q \in Requests \ {r} : aggregate'[q] = aggregate[q]
      BY <1>2, <2>4 DEF IInv, TypeOK, Saved, User
    <2>6. pc'[r] = "stage"
      BY <2>1 DEF Goto, IInv, TypeOK
    <2>7. RegisterInv(r)' /\ ChangeInv(r)'
      BY <2>1, <2>2, <2>3, <2>5, <2>6 DEF RegisterInv, ChangeInv, VersionInv, Registers
    <2>8. \A u \in Requests : \A q \in Requests \ {r} : HoldsRow(r, u)' => ~HoldsRow(q, u)
      BY <2>1 DEF HoldsRow
    <2> QED BY <2>1, <2>5, <2>6, <2>7, <2>8, GotoInv DEF HoldsEmail, Phases
  <1> QED BY <1>1, <1>2 DEF Save

LEMMA StageInv ==
    ASSUME IInv, TypeOK', NEW r \in Requests, Stage(r) PROVE IInv'
  <1>1. /\ pc[r] = "stage" /\ Goto(r, "flush")
        /\ users' = users /\ cmd' = cmd /\ aggregate' = aggregate
    BY DEF Stage
  <1>2. pc'[r] = "flush"
    BY <1>1 DEF Goto, IInv, TypeOK
  <1>3. RegisterInv(r)' /\ ChangeInv(r)'
    BY <1>1, <1>2 DEF IInv, RequestsInv, RegisterInv, ChangeInv, VersionInv, Registers, Writing, Written
  <1>4. \A u \in Requests : \A q \in Requests \ {r} : HoldsRow(r, u)' => ~HoldsRow(q, u)
    BY <1>1 DEF IInv, RowsLocked, HoldsRow
  <1> QED BY <1>1, <1>2, <1>3, <1>4, GotoInv DEF HoldsEmail, Phases

LEMMA FlushInv ==
    ASSUME IInv, TypeOK', NEW r \in Requests, Flush(r) PROVE IInv'
  <1>1. CASE Refuse(r, "failed")
    BY <1>1, RefuseInv DEF Codes
  <1>2. CASE /\ ~(Registers(r) /\ EmailTaken(cmd[r].email))
             /\ Goto(r, "commit")
             /\ UNCHANGED <<users, outbox, clock, cmd, aggregate, events, reply>>
    <2>1. /\ pc[r] = "flush"
          /\ Registers(r) => \A q \in Requests : ~HoldsEmail(q, cmd[r].email)
      BY DEF Flush, Registers
    <2>2. pc'[r] = "commit"
      BY <1>2 DEF Goto, IInv, TypeOK
    <2>3. EmailTaken(cmd[r].email)' <=> EmailTaken(cmd[r].email)
      BY <1>2 DEF EmailTaken
    <2>4. RegisterInv(r)' /\ ChangeInv(r)'
      BY <1>2, <2>1, <2>2, <2>3
         DEF IInv, RequestsInv, RegisterInv, ChangeInv, VersionInv, Registers, Writing, Written
    <2>5. \A u \in Requests : \A q \in Requests \ {r} : HoldsRow(r, u)' => ~HoldsRow(q, u)
      BY <1>2, <2>1 DEF IInv, RowsLocked, HoldsRow
    <2>6. \A e \in Emails : \A q \in Requests \ {r} : HoldsEmail(r, e)' => ~HoldsEmail(q, e)
      BY <1>2, <2>1 DEF HoldsEmail, Registers
    <2> QED BY <1>2, <2>2, <2>4, <2>5, <2>6, GotoInv DEF Phases
  <1> QED BY <1>1, <1>2 DEF Flush, Registers

(* What a commit does to the table: a registration fills a free row with   *)
(* an email that is free, a change goes to the next version of an active   *)
(* row and leaves its email alone.                                         *)
LEMMA PublishRow ==
    ASSUME IInv, NEW r \in Requests, Publish(r)
    PROVE  /\ cmd[r].id \in Requests
           /\ users' = [users EXCEPT ![cmd[r].id] = aggregate[r]]
           /\ aggregate[r] \in User /\ aggregate[r] # NoUser
           /\ users'[cmd[r].id] = aggregate[r]
           /\ \A u \in Requests \ {cmd[r].id} : users'[u] = users[u]
           /\ Registers(r) =>
                /\ cmd[r].id = r /\ users[r] = NoUser
                /\ aggregate[r].email = cmd[r].email
                /\ ~EmailTaken(cmd[r].email)
           /\ ~Registers(r) =>
                /\ users[cmd[r].id] # NoUser /\ users[cmd[r].id] \in User
                /\ aggregate[r].email = users[cmd[r].id].email
                /\ aggregate[r].version = users[cmd[r].id].version + 1
                /\ users[cmd[r].id].status = "active"
                /\ HoldsRow(r, cmd[r].id)
  <1>1. pc[r] = "commit" /\ users' = [users EXCEPT ![cmd[r].id] = aggregate[r]]
    BY DEF Publish
  <1>2. cmd[r] \in Command /\ cmd[r] \in Workload[r]
    BY DEF IInv, TypeOK
  <1>3. cmd[r].id \in Requests
    BY <1>2 DEF Command
  <1>4. aggregate[r] \in User /\ aggregate[r] # NoUser
    BY <1>1 DEF IInv, TypeOK, Written
  <1>5. /\ users'[cmd[r].id] = aggregate[r]
        /\ \A u \in Requests \ {cmd[r].id} : users'[u] = users[u]
    BY <1>1, <1>3 DEF IInv, TypeOK
  <1>6. ASSUME Registers(r)
        PROVE  /\ cmd[r].id = r /\ users[r] = NoUser
               /\ aggregate[r].email = cmd[r].email
               /\ ~EmailTaken(cmd[r].email)
    <2>1. cmd[r].id = r
      BY <1>2, <1>6, WorkloadCommands DEF Registers
    <2> QED BY <1>1, <1>6, <2>1 DEF IInv, RequestsInv, RegisterInv, Writing, Written
  <1>7. ASSUME ~Registers(r)
        PROVE  /\ users[cmd[r].id] # NoUser /\ users[cmd[r].id] \in User
               /\ aggregate[r].email = users[cmd[r].id].email
               /\ aggregate[r].version = users[cmd[r].id].version + 1
               /\ users[cmd[r].id].status = "active"
               /\ HoldsRow(r, cmd[r].id)
    <2>1. ChangeInv(r) /\ Writing(r)
      BY <1>1 DEF IInv, RequestsInv, Writing, Written
    <2>2. users[cmd[r].id] # NoUser /\ VersionInv(r, users[cmd[r].id])
      BY <1>7, <2>1 DEF ChangeInv
    <2>3. users[cmd[r].id] \in User
      BY <1>3, <2>2 DEF IInv, TypeOK
    <2>4. HoldsRow(r, cmd[r].id)
      BY <1>1, <1>7, <2>1 DEF ChangeInv, HoldsRow
    <2> QED BY <1>1, <2>2, <2>3, <2>4 DEF VersionInv
  <1> QED BY <1>1, <1>3, <1>4, <1>5, <1>6, <1>7

LEMMA CommitInv ==
    ASSUME IInv, TypeOK', NEW r \in Requests, NEW code \in Codes,
           NEW user \in User \cup {NoUser}, Publish(r), Finish(r, code, user)
    PROVE  IInv'
  <1> DEFINE id == cmd[r].id
             row == users[id]
  <1>1. /\ pc' = [pc EXCEPT ![r] = "done"]
        /\ aggregate' = [aggregate EXCEPT ![r] = NoUser]
        /\ cmd' = cmd
    BY DEF Finish
  <1>2. pc'[r] = "done" /\ \A q \in Requests \ {r} : pc'[q] = pc[q] /\ aggregate'[q] = aggregate[q]
    BY <1>1 DEF IInv, TypeOK
  <1>3. pc[r] = "commit"
    BY DEF Publish
  <1>4. CASE Registers(r)
    <2>1. /\ id = r /\ users[r] = NoUser
          /\ users'[r].email = cmd[r].email /\ users'[r] # NoUser
          /\ ~EmailTaken(cmd[r].email)
          /\ \A u \in Requests \ {r} : users'[u] = users[u]
      BY <1>4, PublishRow
    <2>2. EmailsUnique'
      BY <2>1 DEF IInv, EmailsUnique, EmailTaken
    <2>3. ASSUME NEW q \in Requests PROVE RegisterInv(q)' /\ ChangeInv(q)'
      <3>1. CASE q = r
        BY <3>1, <1>2 DEF RegisterInv, ChangeInv, Writing, Written
      <3>2. CASE q # r
        <4>1. RegisterInv(q) /\ ChangeInv(q) /\ cmd[q].email \in Emails
          BY DEF IInv, RequestsInv, TypeOK, Command
        <4>2. ASSUME Registers(q), pc[q] = "commit"
              PROVE  ~EmailTaken(cmd[q].email)'
          <5>1. cmd[q].email # cmd[r].email
            BY <1>3, <1>4, <3>2, <4>1, <4>2 DEF IInv, EmailsLocked, HoldsEmail, Registers
          <5>2. ~EmailTaken(cmd[q].email)
            BY <4>1, <4>2 DEF RegisterInv
          <5> QED BY <1>1, <2>1, <5>1, <5>2 DEF EmailTaken
        <4>3. RegisterInv(q)'
          BY <1>1, <1>2, <2>1, <3>2, <4>1, <4>2 DEF RegisterInv, Registers, Writing
        <4>4. ChangeInv(q)'
          <5> SUFFICES ASSUME ~Registers(q), Writing(q) PROVE ChangeInv(q)'
            BY <1>1, <1>2, <3>2 DEF ChangeInv, Registers, Writing
          <5>1. users[cmd[q].id] # NoUser /\ cmd[q].id \in Requests
            BY <4>1 DEF ChangeInv, IInv, TypeOK, Command
          <5>2. users'[cmd[q].id] = users[cmd[q].id]
            BY <5>1, <2>1
          <5> QED BY <1>1, <1>2, <3>2, <4>1, <5>2 DEF ChangeInv, VersionInv
        <4> QED BY <4>3, <4>4
      <3> QED BY <3>1, <3>2
    <2> QED BY <1>1, <1>2, <2>2, <2>3
        DEF IInv, RequestsInv, RowsLocked, EmailsLocked, HoldsRow, HoldsEmail
  <1>5. CASE ~Registers(r)
    <2>1. /\ id \in Requests /\ row # NoUser /\ row \in User /\ HoldsRow(r, id)
          /\ users'[id] # NoUser
          /\ users'[id].email = row.email
          /\ users'[id].version = row.version + 1
          /\ \A u \in Requests \ {id} : users'[u] = users[u]
      BY <1>5, PublishRow
    <2>2. \A u \in Requests : /\ users'[u] = NoUser <=> users[u] = NoUser
                              /\ users'[u].email = users[u].email
      BY <2>1
    <2>3. EmailsUnique'
      BY <2>2 DEF IInv, EmailsUnique
    <2>4. ASSUME NEW q \in Requests PROVE RegisterInv(q)' /\ ChangeInv(q)'
      <3>1. CASE q = r
        BY <3>1, <1>2 DEF RegisterInv, ChangeInv, Writing, Written
      <3>2. CASE q # r
        <4>1. RegisterInv(q) /\ ChangeInv(q)
          BY DEF IInv, RequestsInv
        <4>2. RegisterInv(q)'
          BY <1>1, <1>2, <2>2, <3>2, <4>1 DEF RegisterInv, Registers, Writing, EmailTaken
        <4>3. ChangeInv(q)'
          <5> SUFFICES ASSUME ~Registers(q), Writing(q) PROVE ChangeInv(q)'
            BY <1>1, <1>2, <3>2 DEF ChangeInv, Registers, Writing
          <5>1. /\ cmd[q].op \in {"rename", "deactivate"}
                /\ users[cmd[q].id] # NoUser /\ cmd[q].id \in Requests
                /\ VersionInv(q, users[cmd[q].id])
            BY <4>1 DEF ChangeInv, IInv, TypeOK, Command
          <5>2. CASE cmd[q].id # id
            BY <1>1, <1>2, <2>1, <3>2, <5>1, <5>2 DEF ChangeInv, VersionInv
          <5>3. CASE cmd[q].id = id
            <6>1. ~HoldsRow(q, id)
              BY <2>1, <3>2 DEF IInv, RowsLocked
            <6>2. pc[q] = "save"
              BY <5>1, <5>3, <6>1 DEF HoldsRow, Writing, Written
            <6>3. aggregate[q].version \in Nat /\ row.version \in Nat
              <7>1. aggregate[q] \in User
                BY <6>2 DEF IInv, TypeOK, Written
              <7> QED BY <7>1, <2>1 DEF User
            <6>4. /\ aggregate[q].email = row.email
                  /\ aggregate[q].version <= row.version
              BY <5>1, <5>3, <6>2 DEF VersionInv
            <6> QED BY <1>1, <1>2, <2>1, <3>2, <5>1, <5>3, <6>2, <6>3, <6>4
                DEF ChangeInv, VersionInv
          <5> QED BY <5>2, <5>3
        <4> QED BY <4>2, <4>3
      <3> QED BY <3>1, <3>2
    <2> QED BY <1>1, <1>2, <2>3, <2>4
        DEF IInv, RequestsInv, RowsLocked, EmailsLocked, HoldsRow, HoldsEmail
  <1> QED BY <1>4, <1>5

LEMMA InitIInv == Init => IInv
  <1> SUFFICES ASSUME Init PROVE IInv
    OBVIOUS
  <1>1. TypeOK
    BY InitTypeOK
  <1>2. \A r \in Requests : pc[r] = "idle" /\ users[r] = NoUser
    BY DEF Init
  <1>3. EmailsUnique /\ RowsLocked /\ EmailsLocked
    BY <1>2 DEF EmailsUnique, RowsLocked, EmailsLocked, HoldsRow, HoldsEmail
  <1>4. RequestsInv
    BY <1>2 DEF RequestsInv, RegisterInv, ChangeInv, Writing, Written
  <1> QED BY <1>1, <1>3, <1>4 DEF IInv

LEMMA PublishedReply ==
    ASSUME IInv, NEW r \in Requests, Publish(r)
    PROVE  aggregate[r] \in User \cup {NoUser}
  BY PublishRow

LEMMA NextIInv == IInv /\ [Next]_vars => IInv'
  <1> SUFFICES ASSUME IInv, [Next]_vars PROVE IInv'
    OBVIOUS
  <1>1. TypeOK'
    BY NextTypeOK DEF IInv
  <1>2. ASSUME NEW r \in Requests, Commit(r) PROVE IInv'
    BY <1>1, <1>2, PublishedReply, CommitInv DEF Commit, Codes
  <1>3. ASSUME NEW r \in Requests, CommitUnacknowledged(r) PROVE IInv'
    BY <1>1, <1>3, CommitInv DEF CommitUnacknowledged, Codes
  <1>4. ASSUME NEW r \in Requests, Fail(r) PROVE IInv'
    BY <1>1, <1>4, RefuseInv DEF Fail, Codes
  <1>5. ASSUME NEW r \in Requests, Advance(r) PROVE IInv'
    BY <1>1, <1>2, <1>5, BeginInv, CheckoutInv, RegisterUserInv, GetUserInv, RenameUserInv,
       DeactivateUserInv, SaveInv, StageInv, FlushInv DEF Advance
  <1>6. CASE UNCHANGED vars
    <2>1. UNCHANGED <<users, pc, cmd, aggregate>>
      BY <1>6 DEF vars
    <2>2. EmailsUnique' /\ RowsLocked' /\ EmailsLocked'
      BY <2>1 DEF IInv, EmailsUnique, RowsLocked, EmailsLocked, HoldsRow, HoldsEmail
    <2>3. RequestsInv'
      BY <2>1, OthersKeep DEF IInv, RequestsInv
    <2> QED BY <1>1, <2>2, <2>3 DEF IInv
  <1> QED BY <1>3, <1>4, <1>5, <1>6 DEF Next, Idle

THEOREM Inductive == Spec => []IInv
  <1> QED BY InitIInv, NextIInv, PTL DEF Spec

(* No two users of the table share an email, whatever requests race for    *)
(* it between their get_by_email and their INSERT.                         *)
THEOREM UniqueEmails == Spec => []EmailsUnique
  <1>1. IInv => EmailsUnique
    BY DEF IInv
  <1> QED BY Inductive, <1>1, PTL

(* The table changes only where a request commits.                         *)
LEMMA OnlyCommitsWrite ==
    ASSUME [Next]_vars, users' # users
    PROVE  \E r \in Requests : Publish(r)
  BY DEF Next, Idle, vars, Advance, Begin, Checkout, RegisterUser, GetUser, RenameUser,
     DeactivateUser, UserMissing, Save, Saved, Stage, Flush, Commit, CommitUnacknowledged,
     Fail, Refuse

LEMMA StepEvolves == IInv /\ [Next]_vars => RowEvolves
  <1> SUFFICES ASSUME IInv, [Next]_vars,
                      NEW u \in Requests, users[u] # NoUser, users'[u] # users[u]
               PROVE  /\ users[u].status = "active"
                      /\ users'[u] # NoUser
                      /\ users'[u].email = users[u].email
                      /\ users'[u].version = users[u].version + 1
    BY DEF RowEvolves
  <1>1. PICK r \in Requests : Publish(r)
    BY OnlyCommitsWrite
  <1>2. cmd[r].id = u
    BY <1>1, PublishRow
  <1>3. ~Registers(r)
    BY <1>1, <1>2, PublishRow
  <1> QED BY <1>1, <1>2, <1>3, PublishRow

(* A committed row is never removed, never given another email, moves by   *)
(* one version at a time, and rests once its user is deactivated, although *)
(* every change was computed from a version read some awaits earlier.      *)
THEOREM RowsOnlyEvolve == Spec => RowsEvolve
  <1> QED BY Inductive, StepEvolves, PTL DEF Spec, RowsEvolve
=============================================================================
