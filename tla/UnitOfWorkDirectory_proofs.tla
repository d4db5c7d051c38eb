--------------------- MODULE UnitOfWorkDirectory_proofs ---------------------
(***************************************************************************)
(* Proofs about what UnitOfWork makes of the users table and the outbox    *)
(* together: that the outbox explains the table, in the order of its       *)
(* stamps; that no acknowledged write is lost; and that the unit of work   *)
(* implements UserDirectory.  They rest on UnitOfWork_proofs!IInv.         *)
(***************************************************************************)
EXTENDS UnitOfWork_proofs, SequenceTheorems

Unstamped(s) ==
    [i \in DOMAIN s |-> [user |-> s[i].user, type |-> s[i].type, name |-> s[i].name]]

(* What r is about to write is what the directory would make of its        *)
(* command now: the row, and the event that records it.                    *)
Drafts(r, row) ==
    /\ row = Directory!Result(cmd[r])
    /\ Unstamped(events[r]) = Directory!Recorded(cmd[r])

Bumped(user) == [user EXCEPT !.version = @ + 1]

(* Before the save only if nobody has written the row since it was loaded. *)
DraftInv(r) ==
    /\ pc[r] \in {"stage", "flush", "commit"} => Drafts(r, aggregate[r])
    /\ pc[r] = "save" /\ aggregate[r].version = users[cmd[r].id].version
            => Drafts(r, Bumped(aggregate[r]))

(* A stamped event is later than every committed one of its user.          *)
Stamped(r) == pc[r] \in {"flush", "commit"}

StampInv(r) ==
    Stamped(r) =>
        \A i \in DOMAIN events[r] :
            /\ events[r][i].created_at <= clock
            /\ \A j \in DOMAIN outbox : outbox[j].user = cmd[r].id
                   => outbox[j].created_at < events[r][i].created_at

StampsInv ==
    /\ \A j \in DOMAIN outbox : outbox[j].created_at <= clock
    /\ \A r \in Requests : StampInv(r)
    /\ CreatedInCommitOrder

(* What OutboxExplainsUsers says of one user.                              *)
Explained(u) ==
    /\ users[u] = NoUser <=> \A i \in DOMAIN outbox : outbox[i].user # u
    /\ users[u] # NoUser =>
         /\ \E i \in DOMAIN outbox : LastNaming(u, i) /\ outbox[i].name = users[u].name
         /\ users[u].status = "deactivated" <=>
               \E i \in DOMAIN outbox :
                   outbox[i].user = u /\ outbox[i].type = "UserDeactivated"

AcksInv == NoAcknowledgedWriteLost /\ \A r \in Acknowledged : reply[r].user \in User

DirectoryInv ==
    /\ IInv
    /\ \A r \in Requests : DraftInv(r)
    /\ StampsInv
    /\ \A u \in Requests : Explained(u)
    /\ AcksInv
-----------------------------------------------------------------------------
(* Rows with the same columns are the same.                                *)
LEMMA SameUser ==
    ASSUME NEW a \in User, NEW b \in User,
           a.email = b.email, a.name = b.name, a.status = b.status, a.version = b.version
    PROVE  a = b
  BY DEF User

(* Directory!Result and Directory!Recorded, command by command.            *)
LEMMA DirectoryRegister ==
    ASSUME NEW c, c.op = "register"
    PROVE  /\ Directory!Result(c) = NewUser(c)
           /\ Directory!Recorded(c) =
                <<[user |-> c.id, type |-> "UserRegistered", name |-> c.name]>>
  BY DEF Directory!Result, Directory!Recorded, Directory!EventType, NewUser

LEMMA DirectoryRename ==
    ASSUME NEW c, c.op = "rename"
    PROVE  /\ Directory!Result(c) = [users[c.id] EXCEPT !.name = c.name, !.version = @ + 1]
           /\ Directory!Recorded(c) =
                IF users[c.id].name = c.name THEN <<>>
                ELSE <<[user |-> c.id, type |-> "UserRenamed", name |-> c.name]>>
  BY DEF Directory!Result, Directory!Recorded, Directory!EventType

LEMMA DirectoryDeactivate ==
    ASSUME NEW c, c.op = "deactivate"
    PROVE  /\ Directory!Result(c) =
                [users[c.id] EXCEPT !.status = "deactivated", !.version = @ + 1]
           /\ Directory!Recorded(c) =
                <<[user |-> c.id, type |-> "UserDeactivated", name |-> c.name]>>
  BY DEF Directory!Result, Directory!Recorded, Directory!EventType

LEMMA DirectoryGet ==
    ASSUME NEW c, c.op = "get"
    PROVE  Directory!Result(c) = users[c.id] /\ Directory!Recorded(c) = <<>>
  BY DEF Directory!Result, Directory!Recorded

(* The stamp of a row is no part of what it records.                       *)
LEMMA UnstampedSeq ==
    ASSUME NEW s \in Seq(OutboxRow)
    PROVE  /\ Unstamped(s) \in Seq(Directory!Event)
           /\ Len(Unstamped(s)) = Len(s)
           /\ \A i \in DOMAIN s :
                 Unstamped(s)[i] = [user |-> s[i].user, type |-> s[i].type, name |-> s[i].name]
  <1>1. Len(s) \in Nat /\ DOMAIN s = 1..Len(s)
    OBVIOUS
  <1>2. ASSUME NEW i \in DOMAIN s
        PROVE  [user |-> s[i].user, type |-> s[i].type, name |-> s[i].name] \in Directory!Event
    <2>1. s[i] \in OutboxRow
      OBVIOUS
    <2> QED BY <2>1 DEF OutboxRow, EventTypes, Directory!Event, Directory!EventTypes
  <1>3. Unstamped(s) \in [1..Len(s) -> Directory!Event]
    BY <1>1, <1>2 DEF Unstamped
  <1>4. Unstamped(s) \in Seq(Directory!Event)
    BY <1>1, <1>3
  <1>5. Len(Unstamped(s)) = Len(s)
    BY <1>1, <1>3, <1>4
  <1> QED BY <1>4, <1>5 DEF Unstamped

LEMMA UnstampedConcat ==
    ASSUME NEW s \in Seq(OutboxRow), NEW t \in Seq(OutboxRow)
    PROVE  Unstamped(s \o t) = Unstamped(s) \o Unstamped(t)
  <1> DEFINE st == s \o t
             U == Unstamped(s)
             V == Unstamped(t)
             W == Unstamped(st)
             fields(row) == [user |-> row.user, type |-> row.type, name |-> row.name]
  <1>1. /\ st \in Seq(OutboxRow) /\ Len(st) = Len(s) + Len(t)
        /\ Len(s) \in Nat /\ Len(t) \in Nat
        /\ DOMAIN s = 1..Len(s) /\ DOMAIN t = 1..Len(t) /\ DOMAIN st = 1..Len(st)
        /\ \A i \in 1..Len(s) + Len(t) :
              st[i] = IF i <= Len(s) THEN s[i] ELSE t[i - Len(s)]
    BY ConcatProperties
  <1>2. /\ U \in Seq(Directory!Event) /\ Len(U) = Len(s)
        /\ \A i \in 1..Len(s) : U[i] = fields(s[i])
    BY <1>1, UnstampedSeq
  <1>3. /\ V \in Seq(Directory!Event) /\ Len(V) = Len(t)
        /\ \A i \in 1..Len(t) : V[i] = fields(t[i])
    BY <1>1, UnstampedSeq
  <1> HIDE DEF st
  <1>4. /\ W \in Seq(Directory!Event) /\ Len(W) = Len(st)
        /\ \A i \in 1..Len(st) : W[i] = fields(st[i])
    BY <1>1, UnstampedSeq
  <1> HIDE DEF U, V, W, fields
  <1> DEFINE UV == U \o V
  <1>5. /\ UV \in Seq(Directory!Event) /\ Len(UV) = Len(U) + Len(V)
        /\ \A i \in 1..Len(U) + Len(V) :
              UV[i] = IF i <= Len(U) THEN U[i] ELSE V[i - Len(U)]
    <2>1. U \in Seq(Directory!Event) /\ V \in Seq(Directory!Event)
      BY <1>2, <1>3
    <2> QED BY <2>1, ConcatProperties
  <1> HIDE DEF UV
  <1>6. Len(W) = Len(s) + Len(t) /\ Len(UV) = Len(s) + Len(t)
    BY <1>1, <1>2, <1>3, <1>4, <1>5
  <1>7. ASSUME NEW i \in 1..Len(W) PROVE W[i] = UV[i]
    <2>1. CASE i <= Len(s)
      <3>1. W[i] = fields(st[i]) /\ st[i] = s[i]
        BY <1>1, <1>4, <1>6, <2>1
      <3>2. UV[i] = U[i] /\ U[i] = fields(s[i])
        BY <1>1, <1>2, <1>3, <1>5, <1>6, <2>1
      <3> QED BY <3>1, <3>2
    <2>2. CASE ~(i <= Len(s))
      <3>1. W[i] = fields(st[i]) /\ st[i] = t[i - Len(s)]
        BY <1>1, <1>4, <1>6, <2>2
      <3>2. UV[i] = V[i - Len(s)] /\ i - Len(s) \in 1..Len(t)
        BY <1>1, <1>2, <1>3, <1>5, <1>6, <2>2
      <3> QED BY <1>3, <3>1, <3>2
    <2> QED BY <2>1, <2>2
  <1>8. W = UV
    BY <1>4, <1>5, <1>6, <1>7, SeqEqual
  <1> QED BY <1>8 DEF st, U, V, W, UV

LEMMA UnstampedEmpty ==
    ASSUME NEW s \in Seq(OutboxRow), Unstamped(s) = <<>>
    PROVE  s = <<>>
  BY UnstampedSeq

LEMMA UnstampedSingle ==
    ASSUME NEW s \in Seq(OutboxRow), NEW u, NEW t, NEW n,
           Unstamped(s) = <<[user |-> u, type |-> t, name |-> n]>>
    PROVE  /\ Len(s) = 1 /\ DOMAIN s = {1}
           /\ s[1].user = u /\ s[1].type = t /\ s[1].name = n
  <1>1. Len(s) = 1
    BY UnstampedSeq
  <1>2. DOMAIN s = {1}
    BY <1>1
  <1>3. Unstamped(s)[1] = [user |-> u, type |-> t, name |-> n]
    OBVIOUS
  <1>4. [user |-> s[1].user, type |-> s[1].type, name |-> s[1].name]
           = [user |-> u, type |-> t, name |-> n]
    BY <1>2, <1>3, UnstampedSeq
  <1> QED BY <1>1, <1>2, <1>4

LEMMA UnstampedRaised ==
    ASSUME NEW u, NEW t, NEW n, NEW at
    PROVE  Unstamped(<<[user |-> u, type |-> t, name |-> n, created_at |-> at]>>)
             = <<[user |-> u, type |-> t, name |-> n]>>
  BY DEF Unstamped
-----------------------------------------------------------------------------
(* A step is a request leaving with the tables as they are, a commit, or a *)
(* request going on with the tables as they are.                           *)
Leaves(r, code, user) ==
    /\ Finish(r, code, user)
    /\ UNCHANGED <<users, outbox>>
    /\ code = "ok" => cmd[r].op = "get"

Publishes(r, code, user) ==
    /\ Publish(r)
    /\ Finish(r, code, user)
    /\ \/ code = "ok" /\ user = aggregate[r]
       \/ code = "failed" /\ user = NoUser

Registered(r) == /\ pc[r] = "load" /\ cmd[r].op = "register"
                 /\ aggregate' = [aggregate EXCEPT ![r] = NewUser(cmd[r])]
                 /\ Raise(r, "UserRegistered", cmd[r].name)
                 /\ Goto(r, "stage")
                 /\ UNCHANGED <<users, outbox, clock, cmd, reply>>

Changed(r, user) == /\ pc[r] = "load" /\ Loaded(r) # NoUser
                    /\ aggregate' = [aggregate EXCEPT ![r] = user]
                    /\ Goto(r, "save")
                    /\ UNCHANGED <<users, outbox, clock, cmd, reply>>

RenamedBy(r) == /\ Changed(r, Renamed(r)) /\ cmd[r].op = "rename"
                /\ IF SameName(r) THEN UNCHANGED events
                   ELSE Raise(r, "UserRenamed", cmd[r].name)

DeactivatedBy(r) == /\ Changed(r, Deactivated(r)) /\ cmd[r].op = "deactivate"
                    /\ Raise(r, "UserDeactivated", cmd[r].name)

Waits(r) == /\ pc[r] \in {"idle", "pool"} /\ \E phase \in {"pool", "load"} : Goto(r, phase)
            /\ UNCHANGED <<users, outbox, clock, cmd, aggregate, events, reply>>

Flushed(r) == /\ pc[r] = "flush" /\ Goto(r, "commit")
              /\ UNCHANGED <<users, outbox, clock, cmd, aggregate, events, reply>>

SavedInTime(r) == pc[r] = "save" /\ Loaded(r).version = aggregate[r].version /\ Saved(r)

Moves(r) == \/ Waits(r) \/ Registered(r) \/ RenamedBy(r) \/ DeactivatedBy(r)
            \/ SavedInTime(r) \/ Stage(r) \/ Flushed(r)

LEMMA StepKinds ==
    ASSUME [Next]_vars
    PROVE  \/ \E r \in Requests : \E code \in Codes : \E user : Leaves(r, code, user)
           \/ \E r \in Requests : \E code \in Codes : \E user : Publishes(r, code, user)
           \/ \E r \in Requests : Moves(r)
           \/ UNCHANGED vars
  <1> DEFINE Kinds == \/ \E r \in Requests : \E code \in Codes : \E user : Leaves(r, code, user)
                      \/ \E r \in Requests : \E code \in Codes : \E user : Publishes(r, code, user)
                      \/ \E r \in Requests : Moves(r)
  <1>1. ASSUME NEW r \in Requests, NEW code \in Codes \ {"ok"}, Refuse(r, code) PROVE Kinds
    BY <1>1 DEF Refuse, Leaves
  <1>2. ASSUME NEW r \in Requests, Begin(r) \/ Checkout(r) PROVE Kinds
    <2>1. CASE Refuse(r, "reserved")
      BY <2>1, <1>1 DEF Codes
    <2>2. CASE Waits(r)
      BY <2>2 DEF Moves
    <2> QED BY <1>2, <2>1, <2>2 DEF Begin, Checkout, Waits
  <1>3. ASSUME NEW r \in Requests, NEW op, UserMissing(r, op) PROVE Kinds
    BY <1>1, <1>3 DEF UserMissing, Codes
  <1>4. ASSUME NEW r \in Requests, RegisterUser(r) PROVE Kinds
    <2>1. CASE Refuse(r, "email_taken")
      BY <2>1, <1>1 DEF Codes
    <2>2. CASE Registered(r)
      BY <2>2 DEF Moves
    <2> QED BY <1>4, <2>1, <2>2 DEF RegisterUser, Registered
  <1>5. ASSUME NEW r \in Requests, GetUser(r) PROVE Kinds
    <2>1. CASE LoadUser(r, "get") /\ Finish(r, "ok", Loaded(r)) /\ UNCHANGED <<users, outbox>>
      <3>1. Leaves(r, "ok", Loaded(r)) /\ "ok" \in Codes
        BY <2>1 DEF Leaves, LoadUser, Codes
      <3> QED BY <3>1
    <2> QED BY <1>3, <1>5, <2>1 DEF GetUser
  <1>6. ASSUME NEW r \in Requests, RenameUser(r) PROVE Kinds
    <2>1. CASE Refuse(r, "deactivated")
      BY <2>1, <1>1 DEF Codes
    <2>2. CASE RenamedBy(r)
      BY <2>2 DEF Moves
    <2> QED BY <1>3, <1>6, <2>1, <2>2 DEF RenameUser, RenamedBy, Changed, LoadUser
  <1>7. ASSUME NEW r \in Requests, DeactivateUser(r) PROVE Kinds
    <2>1. CASE Refuse(r, "deactivated")
      BY <2>1, <1>1 DEF Codes
    <2>2. CASE DeactivatedBy(r)
      BY <2>2 DEF Moves
    <2> QED BY <1>3, <1>7, <2>1, <2>2 DEF DeactivateUser, DeactivatedBy, Changed, LoadUser
  <1>8. ASSUME NEW r \in Requests, Save(r) \/ Stage(r) \/ Flush(r) PROVE Kinds
    <2>1. CASE Refuse(r, "conflict") \/ Refuse(r, "failed")
      BY <2>1, <1>1 DEF Codes
    <2>2. CASE Moves(r)
      BY <2>2
    <2> QED BY <1>8, <2>1, <2>2 DEF Save, SavedInTime, Flush, Flushed, Moves
  <1>9. ASSUME NEW r \in Requests, Commit(r) PROVE Kinds
    <2>1. Publishes(r, "ok", aggregate[r]) /\ "ok" \in Codes
      BY <1>9 DEF Commit, Publishes, Codes
    <2> QED BY <2>1
  <1>10. ASSUME NEW r \in Requests, CommitUnacknowledged(r) PROVE Kinds
    <2>1. Publishes(r, "failed", NoUser) /\ "failed" \in Codes
      BY <1>10 DEF CommitUnacknowledged, Publishes, Codes
    <2> QED BY <2>1
  <1>11. ASSUME NEW r \in Requests, Fail(r) PROVE Kinds
    BY <1>1, <1>11 DEF Fail, Codes
  <1> HIDE DEF Kinds
  <1>12. Kinds \/ UNCHANGED vars
    BY <1>2, <1>4, <1>5, <1>6, <1>7, <1>8, <1>9, <1>10, <1>11 DEF Next, Idle, Advance
  <1> QED BY <1>12 DEF Kinds

(* What a request's leaving changes, and what its going on leaves alone.   *)
LEMMA FinishFacts ==
    ASSUME IInv, NEW r \in Requests, NEW code \in Codes, NEW user, Finish(r, code, user)
    PROVE  /\ pc'[r] = "done" /\ aggregate'[r] = NoUser /\ events'[r] = <<>>
           /\ reply'[r] = [code |-> code, user |-> user]
           /\ cmd' = cmd /\ clock' = clock
           /\ \A q \in Requests \ {r} :
                 /\ pc'[q] = pc[q] /\ aggregate'[q] = aggregate[q]
                 /\ events'[q] = events[q] /\ reply'[q] = reply[q]
  BY DEF IInv, TypeOK, Finish

LEMMA MoveFacts ==
    ASSUME IInv, NEW r \in Requests, Moves(r)
    PROVE  /\ UNCHANGED <<users, outbox, cmd, reply>>
           /\ \A q \in Requests \ {r} :
                 pc'[q] = pc[q] /\ aggregate'[q] = aggregate[q] /\ events'[q] = events[q]
  <1>1. UNCHANGED <<users, outbox, cmd, reply>>
    BY DEF Moves, Waits, Registered, RenamedBy, DeactivatedBy, Changed, SavedInTime, Saved, Stage, Flushed
  <1>2. \A q \in Requests \ {r} : pc'[q] = pc[q]
    BY DEF IInv, TypeOK, Goto, Moves, Waits, Registered, RenamedBy, DeactivatedBy, Changed,
           SavedInTime, Saved, Stage, Flushed
  <1>3. \A q \in Requests \ {r} : aggregate'[q] = aggregate[q]
    BY DEF IInv, TypeOK, Moves, Waits, Registered, RenamedBy, DeactivatedBy, Changed,
           SavedInTime, Saved, Stage, Flushed
  <1>4. \A q \in Requests \ {r} : events'[q] = events[q]
    BY DEF IInv, TypeOK, Raise, Moves, Waits, Registered, RenamedBy, DeactivatedBy,
           SavedInTime, Saved, Stage, Flushed
  <1> QED BY <1>1, <1>2, <1>3, <1>4
-----------------------------------------------------------------------------
(* What the directory would make of a command depends on the row of its    *)
(* user only, and for a registration not even on that.                     *)
LEMMA DirectoryLocal ==
    ASSUME TypeOK, NEW q \in Requests, cmd' = cmd,
           users'[cmd[q].id] = users[cmd[q].id]
    PROVE  /\ Directory!Result(cmd[q])' = Directory!Result(cmd[q])
           /\ Directory!Recorded(cmd[q])' = Directory!Recorded(cmd[q])
  <1>1. cmd[q].op \in {"register", "rename", "deactivate", "get"}
    BY DEF TypeOK, Command, Ops
  <1>2. CASE cmd[q].op = "register"
    BY <1>2 DEF Directory!Result, Directory!Recorded, Directory!EventType
  <1>3. CASE cmd[q].op = "rename"
    BY <1>3 DEF Directory!Result, Directory!Recorded, Directory!EventType
  <1>4. CASE cmd[q].op = "deactivate"
    BY <1>4 DEF Directory!Result, Directory!Recorded, Directory!EventType
  <1>5. CASE cmd[q].op = "get"
    BY <1>5 DEF Directory!Result, Directory!Recorded, Directory!EventType
  <1> QED BY <1>1, <1>2, <1>3, <1>4, <1>5

(* A draft outlasts what leaves its request and its user alone.            *)
LEMMA DraftKept ==
    ASSUME TypeOK, NEW q \in Requests, DraftInv(q), cmd' = cmd,
           users'[cmd[q].id] = users[cmd[q].id],
           pc'[q] = pc[q], aggregate'[q] = aggregate[q], events'[q] = events[q]
    PROVE  DraftInv(q)'
  <1>1. /\ Directory!Result(cmd[q])' = Directory!Result(cmd[q])
        /\ Directory!Recorded(cmd[q])' = Directory!Recorded(cmd[q])
    BY DirectoryLocal
  <1>2. Unstamped(events[q])' = Unstamped(events[q])
    BY DEF Unstamped
  <1>3. /\ Drafts(q, aggregate[q])' <=> Drafts(q, aggregate[q])
        /\ Drafts(q, Bumped(aggregate[q]))' <=> Drafts(q, Bumped(aggregate[q]))
    BY <1>1, <1>2 DEF Drafts, Bumped
  <1> QED BY <1>3 DEF DraftInv

(* A request that writes the user another one commits has not saved yet,   *)
(* and will not in time: its version is older than the one committed.      *)
LEMMA CommitAlone ==
    ASSUME IInv, NEW r \in Requests, NEW q \in Requests \ {r}, Publish(r),
           Writing(q), cmd[q].id = cmd[r].id
    PROVE  pc[q] = "save" /\ aggregate[q].version # users'[cmd[q].id].version
  <1>1. /\ TypeOK /\ RegisterInv(q) /\ ChangeInv(q) /\ pc[r] = "commit"
        /\ cmd[q] \in Workload[q] /\ cmd[q].id \in Requests
    BY DEF IInv, RequestsInv, TypeOK, Command, Publish
  <1>2. ~Registers(q)
    <2> SUFFICES ASSUME Registers(q) PROVE FALSE
      OBVIOUS
    <2>1. cmd[q].id = q
      BY <1>1, WorkloadCommands DEF Registers
    <2>2. users[q] = NoUser
      BY <1>1 DEF RegisterInv, Writing, Written
    <2> QED BY <2>1, <2>2, PublishRow
  <1>3. /\ users[cmd[q].id] # NoUser /\ VersionInv(q, users[cmd[q].id])
        /\ cmd[q].op \in {"rename", "deactivate"}
    BY <1>1, <1>2 DEF ChangeInv
  <1>4. ~Registers(r)
    BY <1>3, PublishRow
  <1>5. pc[q] = "save"
    <2>1. ~HoldsRow(q, cmd[q].id)
      BY <1>1, <1>4, PublishRow DEF IInv, RowsLocked
    <2> QED BY <1>3, <2>1 DEF HoldsRow, Writing, Written
  <1>6. /\ aggregate[q].version <= users[cmd[q].id].version
        /\ users'[cmd[q].id].version = users[cmd[q].id].version + 1
    BY <1>3, <1>4, <1>5, PublishRow DEF VersionInv
  <1>7. aggregate[q] \in User /\ users[cmd[q].id] \in User
    BY <1>1, <1>3, <1>5 DEF TypeOK, Written
  <1> QED BY <1>5, <1>6, <1>7 DEF User

(* So a draft outlasts the commit of another request too.                  *)
LEMMA DraftAfterCommit ==
    ASSUME IInv, NEW r \in Requests, NEW q \in Requests \ {r}, DraftInv(q),
           Publish(r), cmd' = cmd,
           pc'[q] = pc[q], aggregate'[q] = aggregate[q], events'[q] = events[q]
    PROVE  DraftInv(q)'
  <1>1. CASE cmd[q].id # cmd[r].id
    <2>1. TypeOK /\ cmd[q].id \in Requests
      BY DEF IInv, TypeOK, Command
    <2> QED BY <1>1, <2>1, PublishRow, DraftKept
  <1>2. CASE cmd[q].id = cmd[r].id /\ Writing(q)
    BY <1>2, CommitAlone DEF DraftInv
  <1>3. CASE ~Writing(q)
    BY <1>3 DEF DraftInv, Writing, Written
  <1> QED BY <1>1, <1>2, <1>3

LEMMA FirstEvent ==
    ASSUME TypeOK, NEW r \in Requests, NEW type, NEW name,
           pc[r] \notin Written, Raise(r, type, name)
    PROVE  Unstamped(events'[r]) = <<[user |-> cmd[r].id, type |-> type, name |-> name]>>
  <1> DEFINE row == [user |-> cmd[r].id, type |-> type, name |-> name, created_at |-> 0]
  <1>1. events[r] = <<>> /\ events'[r] = Append(events[r], row)
    BY DEF TypeOK, Raise
  <1>2. events'[r] = <<row>>
    <2> HIDE DEF row
    <2> QED BY <1>1
  <1> QED BY <1>2, UnstampedRaised

(* The event a handler raises, and its row, are those of the directory.    *)
LEMMA RegisteredDraft ==
    ASSUME IInv, NEW r \in Requests, Registered(r) PROVE DraftInv(r)'
  <1> DEFINE c == cmd[r]
  <1>1. pc'[r] = "stage" /\ aggregate'[r] = NewUser(c) /\ cmd' = cmd /\ users' = users
    BY DEF Registered, Goto, IInv, TypeOK
  <1>2. Unstamped(events'[r]) =
           <<[user |-> c.id, type |-> "UserRegistered", name |-> c.name]>>
    BY FirstEvent DEF Registered, IInv, Written
  <1>3. Unstamped(events'[r]) = Directory!Recorded(c) /\ NewUser(c) = Directory!Result(c)
    BY <1>2, DirectoryRegister DEF Registered
  <1>4. /\ Directory!Result(cmd[r])' = Directory!Result(cmd[r])
        /\ Directory!Recorded(cmd[r])' = Directory!Recorded(cmd[r])
    BY <1>1, DirectoryLocal DEF IInv
  <1> QED BY <1>1, <1>3, <1>4 DEF DraftInv, Drafts, Unstamped

LEMMA RenamedDraft ==
    ASSUME IInv, NEW r \in Requests, RenamedBy(r) PROVE DraftInv(r)'
  <1> DEFINE c == cmd[r]
             row == users[c.id]
  <1>1. /\ pc'[r] = "save" /\ aggregate'[r] = Renamed(r) /\ cmd' = cmd /\ users' = users
        /\ c.op = "rename" /\ row = Loaded(r)
    BY DEF RenamedBy, Changed, Goto, Loaded, IInv, TypeOK
  <1>2. row \in User
    BY <1>1, LoadedType DEF RenamedBy, Changed, IInv
  <1>3. Bumped(Renamed(r)) = [row EXCEPT !.name = c.name, !.version = @ + 1]
    BY <1>1, <1>2 DEF Bumped, Renamed, User
  <1>4. events[r] = <<>>
    BY DEF RenamedBy, Changed, IInv, TypeOK, Written
  <1>5. Unstamped(events'[r]) = Directory!Recorded(c)
    <2>1. CASE SameName(r)
      <3>1. events'[r] = <<>> /\ Directory!Recorded(c) = <<>>
        BY <1>1, <1>4, <2>1, DirectoryRename DEF RenamedBy, SameName
      <3> QED BY <3>1 DEF Unstamped
    <2>2. CASE ~SameName(r)
      <3>1. Unstamped(events'[r]) =
               <<[user |-> c.id, type |-> "UserRenamed", name |-> c.name]>>
        BY <2>2, FirstEvent DEF RenamedBy, Changed, IInv, Written
      <3>2. Directory!Recorded(c) = <<[user |-> c.id, type |-> "UserRenamed", name |-> c.name]>>
        BY <1>1, <2>2, DirectoryRename DEF SameName
      <3> QED BY <3>1, <3>2
    <2> QED BY <2>1, <2>2
  <1>6. /\ Directory!Result(cmd[r])' = Directory!Result(cmd[r])
        /\ Directory!Recorded(cmd[r])' = Directory!Recorded(cmd[r])
    BY <1>1, DirectoryLocal DEF IInv
  <1>7. Bumped(Renamed(r)) = Directory!Result(c)
    BY <1>1, <1>3, DirectoryRename
  <1> QED BY <1>1, <1>5, <1>6, <1>7 DEF DraftInv, Drafts, Unstamped, Bumped

LEMMA DeactivatedDraft ==
    ASSUME IInv, NEW r \in Requests, DeactivatedBy(r) PROVE DraftInv(r)'
  <1> DEFINE c == cmd[r]
             row == users[c.id]
  <1>1. /\ pc'[r] = "save" /\ aggregate'[r] = Deactivated(r) /\ cmd' = cmd /\ users' = users
        /\ c.op = "deactivate" /\ row = Loaded(r)
    BY DEF DeactivatedBy, Changed, Goto, Loaded, IInv, TypeOK
  <1>2. row \in User
    BY <1>1, LoadedType DEF DeactivatedBy, Changed, IInv
  <1>3. Bumped(Deactivated(r)) = [row EXCEPT !.status = "deactivated", !.version = @ + 1]
    BY <1>1, <1>2 DEF Bumped, Deactivated, User
  <1>4. Unstamped(events'[r]) =
           <<[user |-> c.id, type |-> "UserDeactivated", name |-> c.name]>>
    BY FirstEvent DEF DeactivatedBy, Changed, IInv, Written
  <1>5. Unstamped(events'[r]) = Directory!Recorded(c)
    BY <1>1, <1>4, DirectoryDeactivate
  <1>6. /\ Directory!Result(cmd[r])' = Directory!Result(cmd[r])
        /\ Directory!Recorded(cmd[r])' = Directory!Recorded(cmd[r])
    BY <1>1, DirectoryLocal DEF IInv
  <1>7. Bumped(Deactivated(r)) = Directory!Result(c)
    BY <1>1, <1>3, DirectoryDeactivate
  <1> QED BY <1>1, <1>5, <1>6, <1>7 DEF DraftInv, Drafts, Unstamped, Bumped

LEMMA SavedDraft ==
    ASSUME IInv, NEW r \in Requests, SavedInTime(r), DraftInv(r) PROVE DraftInv(r)'
  <1>1. /\ pc'[r] = "stage" /\ cmd' = cmd /\ users' = users /\ events' = events
        /\ aggregate'[r] = Bumped(aggregate[r])
    BY DEF SavedInTime, Saved, Goto, Bumped, IInv, TypeOK
  <1>2. Drafts(r, Bumped(aggregate[r]))
    BY DEF SavedInTime, Loaded, DraftInv
  <1>3. /\ Directory!Result(cmd[r])' = Directory!Result(cmd[r])
        /\ Directory!Recorded(cmd[r])' = Directory!Recorded(cmd[r])
    BY <1>1, DirectoryLocal DEF IInv
  <1>4. Unstamped(events'[r]) = Unstamped(events[r])
    BY <1>1
  <1> QED BY <1>1, <1>2, <1>3, <1>4 DEF DraftInv, Drafts, Unstamped

LEMMA StagedDraft ==
    ASSUME IInv, NEW r \in Requests, Stage(r), DraftInv(r) PROVE DraftInv(r)'
  <1> DEFINE s == events[r]
             stamped == [i \in DOMAIN s |-> [s[i] EXCEPT !.created_at = clock']]
  <1>1. /\ pc[r] = "stage" /\ pc'[r] = "flush"
        /\ cmd' = cmd /\ users' = users /\ aggregate' = aggregate
        /\ events'[r] = stamped
    BY DEF Stage, Goto, IInv, TypeOK
  <1>2. \A i \in DOMAIN s : s[i] \in OutboxRow
    BY DEF IInv, TypeOK
  <1>3. DOMAIN stamped = DOMAIN s
    OBVIOUS
  <1>4. ASSUME NEW i \in DOMAIN s
        PROVE  /\ stamped[i].user = s[i].user /\ stamped[i].type = s[i].type
               /\ stamped[i].name = s[i].name
    BY <1>2 DEF OutboxRow
  <1> HIDE DEF stamped
  <1>5. Unstamped(stamped) = Unstamped(s)
    BY <1>3, <1>4 DEF Unstamped
  <1>6. /\ Directory!Result(cmd[r])' = Directory!Result(cmd[r])
        /\ Directory!Recorded(cmd[r])' = Directory!Recorded(cmd[r])
    BY <1>1, DirectoryLocal DEF IInv
  <1>7. Drafts(r, aggregate[r])
    BY <1>1 DEF DraftInv
  <1>8. Unstamped(events'[r]) = Unstamped(events[r])
    BY <1>1, <1>5
  <1> QED BY <1>1, <1>6, <1>7, <1>8 DEF DraftInv, Drafts, Unstamped

LEMMA FlushedDraft ==
    ASSUME IInv, NEW r \in Requests, Flushed(r), DraftInv(r) PROVE DraftInv(r)'
  <1>1. /\ pc[r] = "flush" /\ pc'[r] = "commit"
        /\ cmd' = cmd /\ users' = users /\ aggregate' = aggregate /\ events' = events
    BY DEF Flushed, Goto, IInv, TypeOK
  <1>2. /\ Directory!Result(cmd[r])' = Directory!Result(cmd[r])
        /\ Directory!Recorded(cmd[r])' = Directory!Recorded(cmd[r])
    BY <1>1, DirectoryLocal DEF IInv
  <1>3. Drafts(r, aggregate[r])
    BY <1>1 DEF DraftInv
  <1> QED BY <1>1, <1>2, <1>3 DEF DraftInv, Drafts, Unstamped

LEMMA DraftStep ==
    ASSUME IInv, \A r \in Requests : DraftInv(r), [Next]_vars
    PROVE  \A r \in Requests : DraftInv(r)'
  <1>1. ASSUME NEW r \in Requests, NEW code \in Codes, NEW user,
               Leaves(r, code, user) \/ Publishes(r, code, user)
        PROVE  \A q \in Requests : DraftInv(q)'
    <2>1. Finish(r, code, user)
      BY <1>1 DEF Leaves, Publishes
    <2>2. ASSUME NEW q \in Requests \ {r} PROVE DraftInv(q)'
      <3>1. /\ cmd' = cmd /\ pc'[q] = pc[q] /\ aggregate'[q] = aggregate[q]
            /\ events'[q] = events[q]
        BY <2>1, FinishFacts
      <3>2. CASE users' = users
        BY <3>1, <3>2, DraftKept DEF IInv
      <3>3. CASE Publish(r)
        BY <3>1, <3>3, DraftAfterCommit
      <3> QED BY <1>1, <3>2, <3>3 DEF Leaves, Publishes
    <2>3. pc'[r] = "done"
      BY <2>1, FinishFacts
    <2>4. DraftInv(r)'
      BY <2>3 DEF DraftInv
    <2> QED BY <2>2, <2>4
  <1>2. ASSUME NEW r \in Requests, Moves(r) PROVE \A q \in Requests : DraftInv(q)'
    <2>1. ASSUME NEW q \in Requests \ {r} PROVE DraftInv(q)'
      <3>1. /\ users' = users /\ cmd' = cmd
            /\ pc'[q] = pc[q] /\ aggregate'[q] = aggregate[q] /\ events'[q] = events[q]
        BY <1>2, MoveFacts
      <3> QED BY <3>1, DraftKept DEF IInv
    <2>2. DraftInv(r)'
      <3>1. CASE Waits(r)
        <4>1. pc'[r] \in {"pool", "load"}
          BY <3>1 DEF Waits, Goto, IInv, TypeOK
        <4> QED BY <4>1 DEF DraftInv
      <3> QED BY <1>2, <3>1, RegisteredDraft, RenamedDraft, DeactivatedDraft, SavedDraft,
                 StagedDraft, FlushedDraft DEF Moves
    <2> QED BY <2>1, <2>2
  <1>3. CASE UNCHANGED vars
    <2>1. /\ users' = users /\ cmd' = cmd /\ pc' = pc
          /\ aggregate' = aggregate /\ events' = events
      BY <1>3 DEF vars
    <2> QED BY <2>1, DraftKept DEF IInv
  <1> QED BY <1>1, <1>2, <1>3, StepKinds
-----------------------------------------------------------------------------
Appends(row) ==
    /\ DOMAIN outbox' = DOMAIN outbox \cup {Len(outbox) + 1}
    /\ outbox'[Len(outbox) + 1] = row
    /\ \A i \in DOMAIN outbox : outbox'[i] = outbox[i] /\ i < Len(outbox) + 1

(* What a commit puts into the outbox: at most one row, of its user, and   *)
(* that at the end.                                                        *)
LEMMA CommittedEvents ==
    ASSUME IInv, NEW r \in Requests, DraftInv(r), Publish(r)
    PROVE  /\ aggregate[r] = Directory!Result(cmd[r])
           /\ Unstamped(events[r]) = Directory!Recorded(cmd[r])
           /\ events[r] \in Seq(OutboxRow) /\ outbox' \in Seq(OutboxRow)
           /\ \/ events[r] = <<>> /\ outbox' = outbox
              \/ /\ Len(events[r]) = 1 /\ DOMAIN events[r] = {1}
                 /\ events[r][1].user = cmd[r].id
                 /\ Appends(events[r][1])
  <1>1. pc[r] = "commit" /\ outbox' = outbox \o events[r]
    BY DEF Publish
  <1>2. Drafts(r, aggregate[r])
    BY <1>1 DEF DraftInv
  <1>3. /\ events[r] \in Seq(OutboxRow) /\ outbox \in Seq(OutboxRow)
        /\ cmd[r].op \in {"register", "rename", "deactivate", "get"}
    BY DEF IInv, TypeOK, Command, Ops
  <1>4. outbox' \in Seq(OutboxRow)
    BY <1>1, <1>3
  <1>5. CASE Directory!Recorded(cmd[r]) = <<>>
    <2>1. events[r] = <<>>
      BY <1>2, <1>3, <1>5, UnstampedEmpty DEF Drafts
    <2>2. outbox' = outbox
      BY <1>1, <1>3, <2>1, ConcatEmptySeq
    <2> QED BY <1>2, <1>3, <1>4, <2>1, <2>2 DEF Drafts
  <1>6. ASSUME NEW t, NEW n,
               Directory!Recorded(cmd[r]) = <<[user |-> cmd[r].id, type |-> t, name |-> n]>>
        PROVE  /\ Len(events[r]) = 1 /\ DOMAIN events[r] = {1}
               /\ events[r][1].user = cmd[r].id
               /\ Appends(events[r][1])
    <2>1. Len(events[r]) = 1 /\ DOMAIN events[r] = {1} /\ events[r][1].user = cmd[r].id
      BY <1>2, <1>3, <1>6, UnstampedSingle DEF Drafts
    <2> QED BY <1>1, <1>3, <2>1 DEF Appends
  <1>7. \/ Directory!Recorded(cmd[r]) = <<>>
        \/ \E t, n : Directory!Recorded(cmd[r]) = <<[user |-> cmd[r].id, type |-> t, name |-> n]>>
    <2>1. CASE cmd[r].op = "register"
      BY <2>1, DirectoryRegister
    <2>2. CASE cmd[r].op = "rename"
      BY <2>2, DirectoryRename
    <2>3. CASE cmd[r].op = "deactivate"
      BY <2>3, DirectoryDeactivate
    <2>4. CASE cmd[r].op = "get"
      BY <2>4, DirectoryGet
    <2> QED BY <1>3, <2>1, <2>2, <2>3, <2>4
  <1> QED BY <1>2, <1>3, <1>4, <1>5, <1>6, <1>7 DEF Drafts

(* Nobody else has a stamped event of the user of a commit, and a stamp is *)
(* taken while everything committed is older than the clock.               *)
LEMMA StampStep ==
    ASSUME IInv, \A r \in Requests : DraftInv(r), StampsInv, [Next]_vars
    PROVE  StampsInv'
  <1>1. /\ clock \in Nat /\ outbox \in Seq(OutboxRow) /\ events \in [Requests -> Seq(OutboxRow)]
        /\ pc \in [Requests -> Phases] /\ cmd \in [Requests -> Command]
    BY DEF IInv, TypeOK
  <1>2. /\ \A j \in DOMAIN outbox : outbox[j].created_at \in Nat
        /\ \A r \in Requests : \A i \in DOMAIN events[r] : events[r][i].created_at \in Nat
    <2>1. \A j \in DOMAIN outbox : outbox[j] \in OutboxRow
      BY <1>1
    <2>2. \A r \in Requests : \A i \in DOMAIN events[r] : events[r][i] \in OutboxRow
      BY <1>1
    <2> QED BY <2>1, <2>2 DEF OutboxRow
  <1>3. ASSUME outbox' = outbox, cmd' = cmd, clock' \in {clock, clock + 1}
        PROVE  /\ \A j \in DOMAIN outbox' : outbox'[j].created_at <= clock'
               /\ CreatedInCommitOrder'
               /\ \A q \in Requests : pc'[q] = pc[q] /\ events'[q] = events[q]
                     => StampInv(q)'
    <2>1. \A j \in DOMAIN outbox' : outbox'[j].created_at <= clock'
      BY <1>1, <1>2, <1>3 DEF StampsInv
    <2>2. CreatedInCommitOrder'
      BY <1>3 DEF StampsInv, CreatedInCommitOrder
    <2>3. ASSUME NEW q \in Requests, pc'[q] = pc[q], events'[q] = events[q]
          PROVE  StampInv(q)'
      <3>1. StampInv(q)
        BY DEF StampsInv
      <3> QED BY <1>1, <1>2, <1>3, <2>3, <3>1 DEF StampInv, Stamped
    <2> QED BY <2>1, <2>2, <2>3
  <1>4. ASSUME NEW r \in Requests, NEW code \in Codes, NEW user, Leaves(r, code, user)
        PROVE  StampsInv'
    <2>1. Finish(r, code, user) /\ outbox' = outbox
      BY <1>4 DEF Leaves
    <2>2. /\ cmd' = cmd /\ clock' = clock /\ pc'[r] = "done"
          /\ \A q \in Requests \ {r} : pc'[q] = pc[q] /\ events'[q] = events[q]
      BY <2>1, FinishFacts
    <2>3. StampInv(r)'
      BY <2>2 DEF StampInv, Stamped
    <2> QED BY <1>3, <2>1, <2>2, <2>3 DEF StampsInv
  <1>5. ASSUME NEW r \in Requests, Moves(r)
        PROVE  StampsInv'
    <2>1. /\ outbox' = outbox /\ cmd' = cmd
          /\ \A q \in Requests \ {r} : pc'[q] = pc[q] /\ events'[q] = events[q]
      BY <1>5, MoveFacts
    <2>2. clock' \in {clock, clock + 1}
      BY <1>5 DEF Moves, Waits, Registered, RenamedBy, DeactivatedBy, Changed, SavedInTime,
                  Saved, Stage, Flushed
    <2>3. CASE pc'[r] \notin {"flush", "commit"}
      <3>1. StampInv(r)'
        BY <2>3 DEF StampInv, Stamped
      <3> QED BY <1>3, <2>1, <2>2, <3>1 DEF StampsInv
    <2>4. CASE Flushed(r)
      <3>1. /\ pc[r] = "flush" /\ pc'[r] = "commit" /\ events' = events /\ clock' = clock
        BY <1>1, <2>4 DEF Flushed, Goto
      <3>2. StampInv(r)'
        BY <2>1, <3>1 DEF StampsInv, StampInv, Stamped
      <3> QED BY <1>3, <2>1, <2>2, <3>2 DEF StampsInv
    <2>5. CASE Stage(r)
      <3>1. /\ clock' = clock + 1
            /\ events'[r] = [i \in DOMAIN events[r] |-> [events[r][i] EXCEPT !.created_at = clock']]
        BY <1>1, <2>5 DEF Stage
      <3>2. \A i \in DOMAIN events[r] : events[r][i] \in OutboxRow
        BY <1>1
      <3>3. DOMAIN events'[r] = DOMAIN events[r]
        BY <3>1
      <3>4. \A i \in DOMAIN events[r] : events'[r][i].created_at = clock + 1
        BY <3>1, <3>2 DEF OutboxRow
      <3>5. \A j \in DOMAIN outbox : outbox[j].created_at < clock + 1
        BY <1>1, <1>2 DEF StampsInv
      <3>6. StampInv(r)'
        BY <1>1, <2>1, <3>1, <3>3, <3>4, <3>5 DEF StampInv
      <3> QED BY <1>3, <2>1, <2>2, <3>6 DEF StampsInv
    <2> QED BY <1>1, <1>5, <2>3, <2>4, <2>5
        DEF Moves, Waits, Registered, RenamedBy, DeactivatedBy, Changed, SavedInTime, Saved, Goto
  <1>6. ASSUME NEW r \in Requests, NEW code \in Codes, NEW user, Publishes(r, code, user)
        PROVE  StampsInv'
    <2>1. Finish(r, code, user) /\ Publish(r) /\ pc[r] = "commit" /\ StampInv(r) /\ DraftInv(r)
      BY <1>6 DEF Publishes, Publish, StampsInv
    <2>2. /\ cmd' = cmd /\ clock' = clock /\ pc'[r] = "done"
          /\ \A q \in Requests \ {r} : pc'[q] = pc[q] /\ events'[q] = events[q]
      BY <2>1, FinishFacts
    <2>3. StampInv(r)'
      BY <2>2 DEF StampInv, Stamped
    <2>4. CASE outbox' = outbox
      BY <1>3, <2>2, <2>3, <2>4 DEF StampsInv
    <2>5. CASE /\ DOMAIN events[r] = {1}
               /\ events[r][1].user = cmd[r].id
               /\ Appends(events[r][1])
      <3> DEFINE new == Len(outbox) + 1
      <3>1. /\ outbox'[new].created_at <= clock /\ outbox'[new].created_at \in Nat
            /\ outbox'[new].user = cmd[r].id
            /\ \A j \in DOMAIN outbox : outbox[j].user = cmd[r].id
                  => outbox[j].created_at < outbox'[new].created_at
        BY <1>2, <2>1, <2>5 DEF StampInv, Stamped, Appends
      <3>2. /\ DOMAIN outbox' = DOMAIN outbox \cup {new}
            /\ \A i \in DOMAIN outbox : outbox'[i] = outbox[i] /\ i < new /\ i \in Nat
            /\ new \in Nat
        BY <1>1, <2>5 DEF Appends
      <3> HIDE DEF new
      <3>3. \A j \in DOMAIN outbox' : outbox'[j].created_at <= clock'
        BY <2>2, <3>1, <3>2 DEF StampsInv
      <3>4. ASSUME NEW i \in DOMAIN outbox', NEW j \in DOMAIN outbox', i < j,
                   outbox'[i].user = outbox'[j].user
            PROVE  outbox'[i].created_at < outbox'[j].created_at
        <4>1. CASE j = new
          <5>1. i \in DOMAIN outbox
            BY <3>2, <3>4, <4>1
          <5> QED BY <3>1, <3>2, <3>4, <4>1, <5>1
        <4>2. CASE j # new
          <5>1. i \in DOMAIN outbox /\ j \in DOMAIN outbox
            BY <3>2, <3>4, <4>2
          <5> QED BY <3>2, <3>4, <5>1 DEF StampsInv, CreatedInCommitOrder
        <4> QED BY <4>1, <4>2
      <3>5. ASSUME NEW q \in Requests \ {r} PROVE StampInv(q)'
        <4> SUFFICES ASSUME Stamped(q)',
                            NEW i \in DOMAIN events'[q]
                     PROVE  /\ events'[q][i].created_at <= clock'
                            /\ \A j \in DOMAIN outbox' : outbox'[j].user = cmd'[q].id
                                  => outbox'[j].created_at < events'[q][i].created_at
          BY DEF StampInv
        <4>1. Stamped(q) /\ StampInv(q) /\ events'[q] = events[q] /\ i \in DOMAIN events[q]
          BY <2>2 DEF Stamped, StampsInv
        <4>2. cmd[q].id # cmd[r].id
          BY <2>1, <4>1, CommitAlone DEF Stamped, Writing, Written
        <4> QED BY <2>2, <3>1, <3>2, <4>1, <4>2 DEF StampInv
      <3> QED BY <2>3, <3>3, <3>4, <3>5 DEF StampsInv, CreatedInCommitOrder
    <2> QED BY <2>1, <2>4, <2>5, CommittedEvents
  <1>7. CASE UNCHANGED vars
    BY <1>1, <1>3, <1>7 DEF vars, StampsInv
  <1> QED BY <1>4, <1>5, <1>6, <1>7, StepKinds
-----------------------------------------------------------------------------
(* A user's explanation survives the commits of others.                    *)
LEMMA ExplainedKept ==
    ASSUME NEW u \in Requests, Explained(u), outbox \in Seq(OutboxRow),
           users'[u].name = users[u].name, users'[u].status = users[u].status,
           users'[u] = NoUser <=> users[u] = NoUser,
           outbox' = outbox \/ \E row : Appends(row) /\ row.user # u
    PROVE  Explained(u)'
  <1>1. CASE outbox' = outbox
    BY <1>1 DEF Explained, LastNaming
  <1>2. ASSUME NEW row, Appends(row), row.user # u PROVE Explained(u)'
    <2> DEFINE new == Len(outbox) + 1
    <2>1. /\ DOMAIN outbox' = DOMAIN outbox \cup {new}
          /\ outbox'[new].user # u
          /\ \A i \in DOMAIN outbox : outbox'[i] = outbox[i]
      BY <1>2 DEF Appends
    <2> HIDE DEF new
    <2>2. (\A i \in DOMAIN outbox' : outbox'[i].user # u)
             <=> (\A i \in DOMAIN outbox : outbox[i].user # u)
      BY <2>1
    <2>3. (\E i \in DOMAIN outbox' : outbox'[i].user = u /\ outbox'[i].type = "UserDeactivated")
             <=> (\E i \in DOMAIN outbox : outbox[i].user = u /\ outbox[i].type = "UserDeactivated")
      BY <2>1
    <2>4. \A i \in DOMAIN outbox : LastNaming(u, i) => LastNaming(u, i)'
      BY <2>1 DEF LastNaming
    <2> QED BY <2>1, <2>2, <2>3, <2>4 DEF Explained
  <1> QED BY <1>1, <1>2

(* A row that names the user becomes the last that does.                   *)
LEMMA NewNaming ==
    ASSUME NEW u, NEW row, Appends(row), outbox \in Seq(OutboxRow),
           row.user = u, row.type \in Naming
    PROVE  \E i \in DOMAIN outbox' : LastNaming(u, i)' /\ outbox'[i].name = row.name
  <1> PICK new : new = Len(outbox) + 1
    OBVIOUS
  <1>1. /\ DOMAIN outbox' = DOMAIN outbox \cup {new} /\ new \in Nat
        /\ outbox'[new] = row /\ \A i \in DOMAIN outbox : i < new
    BY DEF Appends
  <1>2. \A j \in DOMAIN outbox' : j <= new
    <2>1. \A j \in DOMAIN outbox : j \in Nat
      OBVIOUS
    <2> QED BY <1>1, <2>1
  <1>3. LastNaming(u, new)'
    BY <1>1, <1>2 DEF LastNaming
  <1> QED BY <1>1, <1>3

(* The commit explains the row it writes.                                  *)
LEMMA ExplainedByCommit ==
    ASSUME IInv, NEW r \in Requests, DraftInv(r), Publish(r),
           NEW u \in Requests, u = cmd[r].id, Explained(u)
    PROVE  Explained(u)'
  <1> DEFINE c == cmd[r]
             row == users[u]
             event == events[r][1]
  <1> PICK new : new = Len(outbox) + 1
    OBVIOUS
  <1>1. /\ outbox \in Seq(OutboxRow) /\ users'[u] = aggregate[r]
        /\ users'[u] # NoUser
        /\ c.op \in {"register", "rename", "deactivate"}
    <2>1. pc[r] = "commit" /\ ChangeInv(r)
      BY DEF Publish, IInv, RequestsInv
    <2>2. c.op \in {"register", "rename", "deactivate"}
      BY <2>1 DEF ChangeInv, Registers, Writing, Written
    <2> QED BY <2>2, PublishRow DEF IInv, TypeOK
  <1>2. /\ aggregate[r] = Directory!Result(c)
        /\ Unstamped(events[r]) = Directory!Recorded(c)
        /\ events[r] \in Seq(OutboxRow)
        /\ events[r] = <<>> => outbox' = outbox
        /\ events[r] # <<>> => Appends(events[r][1])
    BY CommittedEvents
  <1>3. ASSUME NEW t, NEW n, Directory!Recorded(c) = <<[user |-> u, type |-> t, name |-> n]>>
        PROVE  /\ Appends(event) /\ event.user = u /\ event.type = t /\ event.name = n
               /\ DOMAIN outbox' = DOMAIN outbox \cup {new} /\ outbox'[new] = event
               /\ \A i \in DOMAIN outbox : outbox'[i] = outbox[i]
    <2>1. Len(events[r]) = 1 /\ event.user = u /\ event.type = t /\ event.name = n
      BY <1>2, <1>3, UnstampedSingle
    <2>2. Appends(event)
      BY <1>2, <2>1
    <2> QED BY <2>1, <2>2 DEF Appends
  <1> HIDE DEF event
  <1>4. CASE c.op = "register"
    <2>1. /\ row = NoUser /\ users'[u].name = c.name /\ users'[u].status = "active"
      BY <1>1, <1>2, <1>4, PublishRow, DirectoryRegister DEF Registers, NewUser
    <2>2. /\ Appends(event) /\ event.user = u /\ event.type = "UserRegistered"
          /\ event.name = c.name
          /\ DOMAIN outbox' = DOMAIN outbox \cup {new} /\ outbox'[new] = event
          /\ \A i \in DOMAIN outbox : outbox'[i] = outbox[i]
      BY <1>3, <1>4, DirectoryRegister
    <2>3. \A i \in DOMAIN outbox : outbox[i].user # u
      BY <2>1 DEF Explained
    <2>4. \E i \in DOMAIN outbox' : LastNaming(u, i)' /\ outbox'[i].name = users'[u].name
      BY <1>1, <2>1, <2>2, NewNaming DEF Naming
    <2>5. ~\E i \in DOMAIN outbox' : outbox'[i].user = u /\ outbox'[i].type = "UserDeactivated"
      BY <2>2, <2>3
    <2> QED BY <1>1, <2>1, <2>2, <2>4, <2>5 DEF Explained
  <1>5. ASSUME ~Registers(r)
        PROVE  row # NoUser /\ row \in User /\ row.status = "active"
    BY <1>5, PublishRow
  <1>6. CASE c.op = "rename"
    <2>1. row # NoUser /\ row \in User /\ row.status = "active"
      BY <1>5, <1>6 DEF Registers
    <2>2. users'[u].name = c.name /\ users'[u].status = "active"
      <3>1. Directory!Result(c) = [row EXCEPT !.name = c.name, !.version = @ + 1]
        BY <1>6, DirectoryRename
      <3> QED BY <1>1, <1>2, <2>1, <3>1 DEF User
    <2>3. CASE row.name = c.name
      <3>1. Directory!Recorded(c) = <<>>
        BY <1>6, <2>3, DirectoryRename
      <3>2. outbox' = outbox
        BY <1>2, <3>1, UnstampedEmpty
      <3> QED BY <1>1, <2>1, <2>2, <2>3, <3>2, ExplainedKept
    <2>4. CASE row.name # c.name
      <3>1. /\ Appends(event) /\ event.user = u /\ event.type = "UserRenamed"
            /\ event.name = c.name
            /\ DOMAIN outbox' = DOMAIN outbox \cup {new} /\ outbox'[new] = event
            /\ \A i \in DOMAIN outbox : outbox'[i] = outbox[i]
        <4>1. Directory!Recorded(c) = <<[user |-> u, type |-> "UserRenamed", name |-> c.name]>>
          BY <1>6, <2>4, DirectoryRename
        <4> QED BY <1>3, <4>1
      <3>2. \E i \in DOMAIN outbox' : LastNaming(u, i)' /\ outbox'[i].name = users'[u].name
        BY <1>1, <2>2, <3>1, NewNaming DEF Naming
      <3>3. ~\E i \in DOMAIN outbox : outbox[i].user = u /\ outbox[i].type = "UserDeactivated"
        BY <2>1 DEF Explained
      <3>4. ~\E i \in DOMAIN outbox' : outbox'[i].user = u /\ outbox'[i].type = "UserDeactivated"
        BY <3>1, <3>3
      <3> QED BY <1>1, <2>2, <3>1, <3>2, <3>4 DEF Explained
    <2> QED BY <2>3, <2>4
  <1>7. CASE c.op = "deactivate"
    <2>1. row # NoUser /\ row \in User
      BY <1>5, <1>7 DEF Registers
    <2>2. users'[u].name = row.name /\ users'[u].status = "deactivated"
      <3>1. Directory!Result(c) = [row EXCEPT !.status = "deactivated", !.version = @ + 1]
        BY <1>7, DirectoryDeactivate
      <3> QED BY <1>1, <1>2, <2>1, <3>1 DEF User
    <2>3. /\ Appends(event) /\ event.user = u /\ event.type = "UserDeactivated"
          /\ DOMAIN outbox' = DOMAIN outbox \cup {new} /\ outbox'[new] = event
          /\ \A i \in DOMAIN outbox : outbox'[i] = outbox[i]
      BY <1>3, <1>7, DirectoryDeactivate
    <2>4. PICK i \in DOMAIN outbox : LastNaming(u, i) /\ outbox[i].name = row.name
      BY <2>1 DEF Explained
    <2>5. LastNaming(u, i)' /\ outbox'[i].name = users'[u].name /\ i \in DOMAIN outbox'
      BY <2>2, <2>3, <2>4 DEF LastNaming, Naming
    <2> QED BY <1>1, <2>2, <2>3, <2>5 DEF Explained
  <1> QED BY <1>1, <1>4, <1>6, <1>7

LEMMA ExplainStep ==
    ASSUME IInv, \A r \in Requests : DraftInv(r), \A u \in Requests : Explained(u), [Next]_vars
    PROVE  \A u \in Requests : Explained(u)'
  <1>1. CASE UNCHANGED <<users, outbox>>
    BY <1>1 DEF Explained, LastNaming
  <1>2. ASSUME NEW r \in Requests, Publish(r)
        PROVE  \A u \in Requests : Explained(u)'
    <2>1. ASSUME NEW u \in Requests, u # cmd[r].id PROVE Explained(u)'
      <3>1. users'[u] = users[u]
        BY <1>2, <2>1, PublishRow
      <3>2. outbox' = outbox \/ \E row : Appends(row) /\ row.user # u
        BY <1>2, <2>1, CommittedEvents
      <3>3. outbox \in Seq(OutboxRow)
        BY DEF IInv, TypeOK
      <3> QED BY <3>1, <3>2, <3>3, ExplainedKept
    <2> QED BY <1>2, <2>1, ExplainedByCommit
  <1> QED BY <1>1, <1>2, StepKinds, MoveFacts DEF Leaves, Publishes, vars
-----------------------------------------------------------------------------
(* An acknowledged write is in its row or under a later one, and what a    *)
(* commit puts over it has a later version.                                *)
LEMMA AckStep ==
    ASSUME IInv, AcksInv, [Next]_vars
    PROVE  AcksInv'
  <1>1. ASSUME users' = users, cmd' = cmd,
               \A q \in Acknowledged' : q \in Acknowledged /\ reply'[q] = reply[q]
        PROVE  AcksInv'
    BY <1>1 DEF AcksInv, NoAcknowledgedWriteLost
  <1>2. ASSUME NEW r \in Requests, NEW code \in Codes, NEW user, Leaves(r, code, user)
        PROVE  AcksInv'
    <2>1. Finish(r, code, user) /\ users' = users /\ (code = "ok" => cmd[r].op = "get")
      BY <1>2 DEF Leaves
    <2>2. /\ cmd' = cmd /\ reply'[r] = [code |-> code, user |-> user]
          /\ \A q \in Requests \ {r} : reply'[q] = reply[q]
      BY <2>1, FinishFacts
    <2>3. \A q \in Acknowledged' : q \in Acknowledged /\ reply'[q] = reply[q]
      BY <2>1, <2>2 DEF Acknowledged
    <2> QED BY <1>1, <2>1, <2>2, <2>3
  <1>3. ASSUME NEW r \in Requests, Moves(r) PROVE AcksInv'
    BY <1>1, <1>3, MoveFacts DEF Acknowledged
  <1>4. CASE UNCHANGED vars
    BY <1>1, <1>4 DEF vars, Acknowledged
  <1>5. ASSUME NEW r \in Requests, NEW code \in Codes, NEW user, Publishes(r, code, user)
        PROVE  AcksInv'
    <2> DEFINE id == cmd[r].id
    <2>1. Finish(r, code, user) /\ Publish(r) /\ (code = "ok" => user = aggregate[r])
      BY <1>5 DEF Publishes
    <2>2. /\ cmd' = cmd /\ reply'[r] = [code |-> code, user |-> user]
          /\ \A q \in Requests \ {r} : reply'[q] = reply[q]
      BY <2>1, FinishFacts
    <2>3. /\ id \in Requests /\ aggregate[r] \in User /\ aggregate[r] # NoUser
          /\ users'[id] = aggregate[r]
          /\ \A u \in Requests \ {id} : users'[u] = users[u]
      BY <2>1, PublishRow
    <2>4. ASSUME NEW q \in Acknowledged
          PROVE  /\ q \in Requests /\ cmd[q].id \in Requests /\ reply[q].user \in User
                 /\ users'[cmd[q].id] # NoUser
                 /\ users'[cmd[q].id].version >= reply[q].user.version
                 /\ users'[cmd[q].id].version = reply[q].user.version
                       => users'[cmd[q].id] = reply[q].user
                 /\ cmd[q].id = id => reply[q].user.version < aggregate[r].version
      <3>1. /\ q \in Requests /\ cmd[q].id \in Requests /\ reply[q].user \in User
            /\ users[cmd[q].id] # NoUser
            /\ users[cmd[q].id].version >= reply[q].user.version
            /\ users[cmd[q].id].version = reply[q].user.version
                  => users[cmd[q].id] = reply[q].user
        BY DEF AcksInv, NoAcknowledgedWriteLost, Acknowledged, IInv, TypeOK, Command
      <3>2. CASE cmd[q].id # id
        BY <2>3, <3>1, <3>2
      <3>3. CASE cmd[q].id = id
        <4>1. ~Registers(r)
          BY <2>1, <3>1, <3>3, PublishRow
        <4>2. aggregate[r].version = users[id].version + 1 /\ users[id] \in User
          BY <2>1, <4>1, PublishRow
        <4>3. reply[q].user.version \in Nat /\ users[id].version \in Nat
          BY <3>1, <4>2 DEF User
        <4>4. reply[q].user.version < aggregate[r].version
          BY <3>1, <3>3, <4>2, <4>3
        <4> QED BY <2>3, <3>1, <3>3, <4>2, <4>3, <4>4
      <3> QED BY <3>2, <3>3
    <2>5. ASSUME NEW q \in Acknowledged', q # r
          PROVE  q \in Acknowledged /\ reply'[q] = reply[q]
      BY <2>2, <2>5 DEF Acknowledged
    <2>6. r \in Acknowledged' => reply'[r].user = aggregate[r]
      BY <2>1, <2>2 DEF Acknowledged
    <2>7. ASSUME NEW q \in Acknowledged'
          PROVE  /\ reply'[q].user \in User
                 /\ users'[cmd[q].id] # NoUser
                 /\ users'[cmd[q].id].version >= reply'[q].user.version
                 /\ users'[cmd[q].id].version = reply'[q].user.version
                       => users'[cmd[q].id] = reply'[q].user
      <3>1. CASE q = r
        <4>1. reply'[q].user = users'[id] /\ users'[id] \in User
          BY <2>3, <2>6, <3>1
        <4>2. users'[id].version \in Nat
          BY <4>1 DEF User
        <4> QED BY <2>3, <3>1, <4>1, <4>2
      <3>2. CASE q # r
        BY <2>4, <2>5, <3>2
      <3> QED BY <3>1, <3>2
    <2>8. ASSUME NEW p \in Acknowledged', NEW q \in Acknowledged', p # q, cmd[p].id = cmd[q].id
          PROVE  reply'[p].user.version # reply'[q].user.version
      <3>1. \A x \in Acknowledged : reply[x].user.version \in Nat
        BY DEF AcksInv, User
      <3>2. aggregate[r].version \in Nat
        BY <2>3 DEF User
      <3>3. CASE p # r /\ q # r
        BY <2>5, <2>8, <3>3 DEF AcksInv, NoAcknowledgedWriteLost
      <3>4. CASE p = r
        BY <2>4, <2>5, <2>6, <2>8, <3>1, <3>2, <3>4
      <3>5. CASE q = r
        BY <2>4, <2>5, <2>6, <2>8, <3>1, <3>2, <3>5
      <3> QED BY <3>3, <3>4, <3>5
    <2> QED BY <2>2, <2>7, <2>8 DEF AcksInv, NoAcknowledgedWriteLost
  <1> QED BY <1>2, <1>3, <1>4, <1>5, StepKinds
-----------------------------------------------------------------------------
LEMMA InitDirectoryInv == Init => DirectoryInv
  <1> SUFFICES ASSUME Init PROVE DirectoryInv
    OBVIOUS
  <1>1. /\ outbox = <<>> /\ DOMAIN outbox = {}
        /\ \A r \in Requests : pc[r] = "idle" /\ users[r] = NoUser /\ reply[r] = NoReply
    BY DEF Init
  <1>2. \A r \in Requests : DraftInv(r)
    BY <1>1 DEF DraftInv
  <1>3. StampsInv
    BY <1>1 DEF StampsInv, StampInv, Stamped, CreatedInCommitOrder
  <1>4. \A u \in Requests : Explained(u)
    BY <1>1 DEF Explained
  <1>5. Acknowledged = {}
    BY <1>1 DEF Acknowledged, NoReply
  <1>6. AcksInv
    BY <1>5 DEF AcksInv, NoAcknowledgedWriteLost
  <1> QED BY <1>2, <1>3, <1>4, <1>6, InitIInv DEF DirectoryInv

LEMMA NextDirectoryInv == DirectoryInv /\ [Next]_vars => DirectoryInv'
  <1> SUFFICES ASSUME DirectoryInv, [Next]_vars PROVE DirectoryInv'
    OBVIOUS
  <1>1. IInv'
    BY NextIInv DEF DirectoryInv
  <1>2. \A r \in Requests : DraftInv(r)'
    BY DraftStep DEF DirectoryInv
  <1>3. StampsInv'
    BY StampStep DEF DirectoryInv
  <1>4. \A u \in Requests : Explained(u)'
    BY ExplainStep DEF DirectoryInv
  <1>5. AcksInv'
    BY AckStep DEF DirectoryInv
  <1> QED BY <1>1, <1>2, <1>3, <1>4, <1>5 DEF DirectoryInv

THEOREM DirectoryInductive == Spec => []DirectoryInv
  <1> QED BY InitDirectoryInv, NextDirectoryInv, PTL DEF Spec
-----------------------------------------------------------------------------
(* A consumer that replays the outbox in commit order ends with the users  *)
(* table: a row and the event that explains it are never apart.            *)
THEOREM UsersExplained == Spec => []OutboxExplainsUsers
  <1>1. DirectoryInv => OutboxExplainsUsers
    BY DEF DirectoryInv, Explained, OutboxExplainsUsers
  <1> QED BY DirectoryInductive, <1>1, PTL

(* created_at, taken before the commit, orders the events of one user as   *)
(* their changes committed, so that the relay may read in its order.       *)
THEOREM StampsFollowCommits == Spec => []CreatedInCommitOrder
  <1>1. DirectoryInv => CreatedInCommitOrder
    BY DEF DirectoryInv, StampsInv
  <1> QED BY DirectoryInductive, <1>1, PTL

(* No acknowledged write is lost under a later one, whatever requests      *)
(* loaded the row before it committed and save after.                      *)
THEOREM AcknowledgedWritesStay == Spec => []NoAcknowledgedWriteLost
  <1>1. DirectoryInv => NoAcknowledgedWriteLost
    BY DEF DirectoryInv, AcksInv
  <1> QED BY DirectoryInductive, <1>1, PTL
-----------------------------------------------------------------------------
(* The steps of the unit of work as steps of the directory.                *)
LEMMA LogIs == Log = Unstamped(outbox)
  BY DEF Log, Unstamped

LEMMA InitImplements == Init => Directory!Init
  <1> SUFFICES ASSUME Init PROVE Directory!Init
    OBVIOUS
  <1>1. Log = <<>>
    BY DEF Init, Log
  <1> QED BY <1>1 DEF Init, Directory!Init, NoReply, Directory!NoReply

(* A request is answered once.                                             *)
LEMMA AnswerImplements ==
    ASSUME TypeOK, NEW r \in Requests, NEW code, NEW user, pc[r] # "done",
           Finish(r, code, user)
    PROVE  Directory!Answer(r, code, user)
  <1>1. reply[r] = NoReply
    BY DEF TypeOK
  <1> QED BY <1>1 DEF Finish, Directory!Answer, NoReply, Directory!NoReply

LEMMA RefuseImplements ==
    ASSUME TypeOK, NEW r \in Requests, NEW code, pc[r] # "done", Refuse(r, code),
           \/ code = "failed"
           \/ code = "reserved" /\ cmd[r].op \in {"register", "rename"}
           \/ code = "email_taken" /\ cmd[r].op = "register" /\ EmailTaken(cmd[r].email)
           \/ /\ code = "not_found" /\ cmd[r].op # "register"
              /\ users[cmd[r].id] = NoUser
           \/ /\ code \in {"deactivated", "conflict"} /\ cmd[r].op \in {"rename", "deactivate"}
              /\ users[cmd[r].id] # NoUser
              /\ code = "deactivated" => users[cmd[r].id].status # "active"
    PROVE  Directory!Next
  <1>1. cmd[r] \in Workload[r]
    BY DEF TypeOK
  <1>2. Directory!Answer(r, code, NoUser) /\ users' = users /\ Log' = Log
    BY AnswerImplements DEF Refuse, Log
  <1>3. Directory!Refuse(r, cmd[r], code)
    BY <1>2 DEF Directory!Refuse, Directory!EmailTaken, Directory!IsActive, EmailTaken
  <1>4. code \in {"failed"} \cup Directory!Refusals
    BY DEF Directory!Refusals
  <1> QED BY <1>1, <1>3, <1>4 DEF Directory!Next

(* A read takes effect when it answers.                                    *)
LEMMA GetImplements ==
    ASSUME IInv, NEW r \in Requests, LoadUser(r, "get"), Loaded(r) # NoUser,
           Finish(r, "ok", Loaded(r)), UNCHANGED <<users, outbox>>
    PROVE  Directory!Next
  <1> DEFINE c == cmd[r]
  <1>1. /\ c \in Workload[r] /\ c.op = "get" /\ pc[r] # "done" /\ users[c.id] # NoUser
        /\ c.id \in Requests
    BY DEF IInv, TypeOK, LoadUser, Loaded, Command
  <1>2. Directory!Result(c) = users[c.id] /\ Directory!Recorded(c) = <<>>
    BY <1>1, DirectoryGet
  <1>3. users' = [users EXCEPT ![c.id] = Directory!Result(c)]
    BY <1>1, <1>2 DEF IInv, TypeOK
  <1>4. Log' = Log \o Directory!Recorded(c)
    <2>1. Log \in Seq(Directory!Event)
      BY LogIs, UnstampedSeq DEF IInv, TypeOK
    <2>2. Log' = Log
      BY DEF Log
    <2> QED BY <1>2, <2>1, <2>2, ConcatEmptySeq
  <1>5. Directory!Allowed(c)
    BY <1>1 DEF Directory!Allowed
  <1>6. Directory!Answer(r, "ok", Directory!Result(c))
    BY <1>1, <1>2, AnswerImplements DEF IInv, Loaded
  <1>7. Directory!Serve(r, c)
    BY <1>3, <1>4, <1>5, <1>6 DEF Directory!Serve, Directory!CarryOut
  <1> QED BY <1>1, <1>7 DEF Directory!Next

(* A write takes effect when it commits, and not before.                   *)
LEMMA CommitImplements ==
    ASSUME IInv, NEW r \in Requests, DraftInv(r), NEW code, NEW user,
           Publishes(r, code, user)
    PROVE  Directory!Next
  <1> DEFINE c == cmd[r]
  <1>1. /\ Publish(r) /\ Finish(r, code, user) /\ pc[r] = "commit"
        /\ c \in Workload[r] /\ c.op \in {"register", "rename", "deactivate"}
        /\ outbox \in Seq(OutboxRow)
    <2>1. Publish(r) /\ Finish(r, code, user) /\ pc[r] = "commit" /\ ChangeInv(r)
      BY DEF Publishes, Publish, IInv, RequestsInv
    <2>2. c.op \in {"register", "rename", "deactivate"}
      BY <2>1 DEF ChangeInv, Registers, Writing, Written
    <2> QED BY <2>1, <2>2 DEF IInv, TypeOK
  <1>2. /\ aggregate[r] = Directory!Result(c)
        /\ Unstamped(events[r]) = Directory!Recorded(c)
        /\ events[r] \in Seq(OutboxRow)
    BY <1>1, CommittedEvents
  <1>3. Directory!Allowed(c)
    <2>1. CASE c.op = "register"
      BY <1>1, <2>1, PublishRow DEF Directory!Allowed, Directory!EmailTaken, EmailTaken, Registers
    <2>2. CASE c.op \in {"rename", "deactivate"}
      <3>1. users[c.id] # NoUser /\ users[c.id].status = "active"
        BY <1>1, <2>2, PublishRow DEF Registers
      <3> QED BY <2>2, <3>1 DEF Directory!Allowed, Directory!IsActive
    <2> QED BY <1>1, <2>1, <2>2
  <1>4. users' = [users EXCEPT ![c.id] = Directory!Result(c)]
    BY <1>1, <1>2 DEF Publish
  <1>5. Log' = Log \o Directory!Recorded(c)
    <2>1. Log' = Unstamped(outbox') /\ Log = Unstamped(outbox)
      BY DEF Log, Unstamped
    <2>2. outbox' = outbox \o events[r]
      BY <1>1 DEF Publish
    <2> QED BY <1>1, <1>2, <2>1, <2>2, UnstampedConcat
  <1>6. Directory!CarryOut(c)
    BY <1>3, <1>4, <1>5 DEF Directory!CarryOut
  <1>7. Directory!Answer(r, code, user)
    BY <1>1, AnswerImplements DEF IInv
  <1>8. CASE code = "ok" /\ user = aggregate[r]
    BY <1>1, <1>2, <1>6, <1>7, <1>8 DEF Directory!Serve, Directory!Next
  <1>9. CASE code = "failed" /\ user = NoUser
    BY <1>1, <1>6, <1>7, <1>9 DEF Directory!ServeUnacknowledged, Directory!Next
  <1> QED BY <1>8, <1>9 DEF Publishes

LEMMA NextImplements ==
    ASSUME DirectoryInv, [Next]_vars PROVE [Directory!Next]_(Directory!vars)
  <1>1. IInv /\ TypeOK /\ \A r \in Requests : DraftInv(r)
    BY DEF DirectoryInv, IInv
  <1>2. ASSUME NEW r \in Requests, Moves(r) PROVE UNCHANGED Directory!vars
    BY <1>1, <1>2, MoveFacts DEF Directory!vars, Log
  <1>3. ASSUME NEW r \in Requests, Begin(r) \/ Checkout(r)
        PROVE  Directory!Next \/ Moves(r)
    <2>1. CASE Refuse(r, "reserved") /\ Begin(r) /\ cmd[r].op \in {"register", "rename"}
      BY <1>1, <2>1, RefuseImplements DEF Begin
    <2>2. CASE Waits(r)
      BY <2>2 DEF Moves
    <2> QED BY <1>3, <2>1, <2>2 DEF Begin, Checkout, Waits
  <1>4. ASSUME NEW r \in Requests, NEW op \in Ops \ {"register"}, UserMissing(r, op)
        PROVE  Directory!Next
    BY <1>1, <1>4, RefuseImplements DEF UserMissing, LoadUser, Loaded
  <1>5. ASSUME NEW r \in Requests, RegisterUser(r) PROVE Directory!Next \/ Moves(r)
    <2>1. CASE EmailTaken(cmd[r].email)
      BY <1>1, <1>5, <2>1, RefuseImplements DEF RegisterUser
    <2>2. CASE ~EmailTaken(cmd[r].email)
      BY <1>5, <2>2 DEF RegisterUser, Registered, Moves
    <2> QED BY <2>1, <2>2
  <1>6. ASSUME NEW r \in Requests, GetUser(r) PROVE Directory!Next
    BY <1>1, <1>4, <1>6, GetImplements DEF GetUser, Ops
  <1>7. ASSUME NEW r \in Requests, RenameUser(r) PROVE Directory!Next \/ Moves(r)
    <2>1. CASE LoadUser(r, "rename") /\ Loaded(r) # NoUser /\ ~EnsureActive(r)
                 /\ Refuse(r, "deactivated")
      BY <1>1, <2>1, RefuseImplements DEF LoadUser, Loaded, EnsureActive
    <2>2. CASE RenamedBy(r)
      BY <2>2 DEF Moves
    <2>3. CASE UserMissing(r, "rename")
      BY <1>4, <2>3 DEF Ops
    <2> QED BY <1>7, <2>1, <2>2, <2>3 DEF RenameUser, RenamedBy, Changed, LoadUser
  <1>8. ASSUME NEW r \in Requests, DeactivateUser(r) PROVE Directory!Next \/ Moves(r)
    <2>1. CASE LoadUser(r, "deactivate") /\ Loaded(r) # NoUser /\ ~EnsureActive(r)
                 /\ Refuse(r, "deactivated")
      BY <1>1, <2>1, RefuseImplements DEF LoadUser, Loaded, EnsureActive
    <2>2. CASE DeactivatedBy(r)
      BY <2>2 DEF Moves
    <2>3. CASE UserMissing(r, "deactivate")
      BY <1>4, <2>3 DEF Ops
    <2> QED BY <1>8, <2>1, <2>2, <2>3 DEF DeactivateUser, DeactivatedBy, Changed, LoadUser
  <1>9. ASSUME NEW r \in Requests, Save(r) PROVE Directory!Next \/ Moves(r)
    <2>1. CASE SavedInTime(r)
      BY <2>1 DEF Moves
    <2>2. CASE Refuse(r, "conflict") /\ pc[r] = "save"
      <3>1. RegisterInv(r) /\ ChangeInv(r)
        BY <1>1 DEF IInv, RequestsInv
      <3>2. cmd[r].op \in {"rename", "deactivate"} /\ users[cmd[r].id] # NoUser
        BY <2>2, <3>1 DEF RegisterInv, ChangeInv, Writing, Written
      <3> QED BY <1>1, <2>2, <3>2, RefuseImplements
    <2> QED BY <1>9, <2>1, <2>2 DEF Save, SavedInTime
  <1>10. ASSUME NEW r \in Requests, Stage(r) \/ Flush(r) \/ Fail(r)
         PROVE  Directory!Next \/ Moves(r)
    <2>1. CASE Refuse(r, "failed") /\ pc[r] # "done"
      BY <1>1, <2>1, RefuseImplements
    <2>2. CASE Stage(r) \/ Flushed(r)
      BY <2>2 DEF Moves
    <2> QED BY <1>10, <2>1, <2>2 DEF Flush, Flushed, Fail
  <1>11. ASSUME NEW r \in Requests, Commit(r) \/ CommitUnacknowledged(r)
         PROVE  Directory!Next
    <2>1. Publishes(r, "ok", aggregate[r]) \/ Publishes(r, "failed", NoUser)
      BY <1>11 DEF Commit, CommitUnacknowledged, Publishes
    <2> QED BY <1>1, <2>1, CommitImplements
  <1>12. CASE UNCHANGED vars
    BY <1>12 DEF vars, Directory!vars, Log
  <1> QED BY <1>2, <1>3, <1>5, <1>6, <1>7, <1>8, <1>9, <1>10, <1>11, <1>12
          DEF Next, Advance, Idle

(* The unit of work implements the atomic directory: each answered request *)
(* read, checked, changed and recorded as if at one instant.               *)
THEOREM UnitOfWorkImplementsDirectory == Spec => ImplementsDirectory
  <1> QED BY DirectoryInductive, InitImplements, NextImplements, PTL
          DEF Spec, ImplementsDirectory, Directory!Spec
=============================================================================
