---------------------------- MODULE OutboxRelay ----------------------------
(***************************************************************************)
(* The outbox relay: cron ticks of the arq workers that select due rows of *)
(* outbox_messages FOR UPDATE SKIP LOCKED, publish them one after another  *)
(* to a Redis stream, and commit the outcome of the whole batch once.      *)
(*                                                                         *)
(* A relay is one execution of relay_once at a time.  What it has changed  *)
(* on its rows lives in its session (copy) until the commit; the rows it   *)
(* selected stay locked until then.  Time is abstracted to whether the     *)
(* backoff of a failed row has elapsed (due).                              *)
(*                                                                         *)
(* Unretried, Unlocked, Newest, ... stand before the definition they are   *)
(* faulty variants of; they only test that the properties notice them.     *)
(***************************************************************************)
EXTENDS Naturals, Sequences, FiniteSets

CONSTANTS
    Events,       \* outbox rows, numbered in the order of their created_at
    Owner,        \* Owner[e]: the aggregate that raised e
    Relays,       \* workers whose ticks may overlap
    BatchSize,    \* outbox_relay_batch_size
    MaxAttempts,  \* outbox_max_attempts
    MaxFaults,    \* bound: batches rolled back and publish replies lost
    NoRow         \* no row committed yet

ASSUME EventsAssumption == Events \subseteq Nat /\ IsFiniteSet(Events)

ASSUME LimitsAssumption == /\ BatchSize \in Nat \ {0}
                           /\ MaxAttempts \in Nat \ {0}
                           /\ MaxFaults \in Nat

(* OutboxStatus; due says that available_at <= now.                        *)
Status == {"pending", "processing", "published", "failed"}

Row == [status : Status, attempts : 0..MaxAttempts, due : BOOLEAN]

ASSUME NoRowAssumption == NoRow \notin Row

VARIABLES
    rows,    \* the committed outbox table
    held,    \* held[w]: the rows that relay w's transaction has locked
    todo,    \* todo[w]: those of them it has still to publish
    copy,    \* copy[w]: the rows as relay w's session has them
    stream,  \* the broker's stream: the row of each entry
    faults,  \* rolled back batches and lost replies so far
    calm     \* history: no publish has failed and no two batches overlapped

vars == <<rows, held, todo, copy, stream, faults, calm>>

Init == /\ rows = [e \in Events |-> NoRow]
        /\ held = [w \in Relays |-> {}]
        /\ todo = [w \in Relays |-> {}]
        /\ copy = [w \in Relays |-> [e \in Events |-> NoRow]]
        /\ stream = <<>>
        /\ faults = 0
        /\ calm = TRUE

(* A unit of work commits.  Transactions of different users may commit in  *)
(* another order than they were stamped; those of one user do not          *)
(* (UnitOfWork!CreatedInCommitOrder), though one may be rolled back.       *)
Insert(e) ==
    /\ rows[e] = NoRow
    /\ \A d \in Events : d > e /\ Owner[d] = Owner[e] => rows[d] = NoRow
    /\ rows' = [rows EXCEPT ![e] = [status |-> "pending", attempts |-> 0, due |-> TRUE]]
    /\ UNCHANGED <<held, todo, copy, stream, faults, calm>>

(* available_at passes.                                                    *)
Elapse(e) ==
    /\ rows[e] # NoRow
    /\ ~rows[e].due
    /\ rows' = [rows EXCEPT ![e].due = TRUE]
    /\ UNCHANGED <<held, todo, copy, stream, faults, calm>>
-----------------------------------------------------------------------------
Unretried == {e \in Events : /\ rows[e] # NoRow
                             /\ rows[e].status = "pending"
                             /\ rows[e].due
                             /\ rows[e].attempts < MaxAttempts}

Unfiltered == {e \in Events : /\ rows[e] # NoRow
                              /\ rows[e].due
                              /\ rows[e].attempts < MaxAttempts}

Unlimited == {e \in Events : /\ rows[e] # NoRow
                             /\ rows[e].status \in {"pending", "failed"}
                             /\ rows[e].due}

(* The WHERE clause of the relay's SELECT.                                 *)
Selectable == {e \in Events : /\ rows[e] # NoRow
                              /\ rows[e].status \in {"pending", "failed"}
                              /\ rows[e].due
                              /\ rows[e].attempts < MaxAttempts}

(* FOR UPDATE: the rows that some transaction keeps locked.                *)
Unlocked == {}
Locked == UNION {held[w] : w \in Relays}

(* ORDER BY created_at LIMIT batch_size, of what SKIP LOCKED leaves.       *)
Batch == LET free == Selectable \ Locked
         IN  {e \in free : Cardinality({d \in free : d < e}) < BatchSize}

Select(w) ==
    /\ held[w] = {}
    /\ Batch # {}
    /\ held' = [held EXCEPT ![w] = Batch]
    /\ todo' = [todo EXCEPT ![w] = Batch]
    /\ copy' = [copy EXCEPT ![w] = rows]
    /\ calm' = (calm /\ Locked = {})
    /\ UNCHANGED <<rows, stream, faults>>

Newest(w, e) == e \in todo[w] /\ \A d \in todo[w] : d <= e

(* relay_once goes through the selected rows in the order of created_at.   *)
Current(w, e) == e \in todo[w] /\ \A d \in todo[w] : e <= d

(* _process_row up to the await of publish.                                *)
Attempt(w, e) ==
    /\ Current(w, e)
    /\ copy[w][e].status # "processing"
    /\ copy' = [copy EXCEPT ![w][e].status = "processing", ![w][e].attempts = @ + 1]
    /\ UNCHANGED <<rows, held, todo, stream, faults, calm>>

(* The await of publish returns, or raises.                                *)
Outcome(w, e, status) ==
    /\ Current(w, e)
    /\ copy[w][e].status = "processing"
    /\ copy' = [copy EXCEPT ![w][e].status = status, ![w][e].due = (status # "failed")]
    /\ todo' = [todo EXCEPT ![w] = @ \ {e}]
    /\ calm' = (calm /\ status = "published")
    /\ UNCHANGED <<rows, held>>

Published(w, e) == /\ Outcome(w, e, "published")
                   /\ stream' = Append(stream, e)
                   /\ UNCHANGED faults

RefusedUnnoticed(w, e) ==
    /\ Outcome(w, e, "published")
    /\ UNCHANGED <<stream, faults>>

Refused(w, e) == /\ Outcome(w, e, "failed")
                 /\ UNCHANGED <<stream, faults>>

(* XADD is done and its reply lost: for the relay, a failure.              *)
ReplyLost(w, e) == /\ faults < MaxFaults
                   /\ faults' = faults + 1
                   /\ Outcome(w, e, "failed")
                   /\ stream' = Append(stream, e)

(* session.commit(), once for the batch; it unlocks the rows.              *)
Write(w) == rows' = [e \in Events |-> IF e \in held[w] THEN copy[w][e] ELSE rows[e]]

NoCopy == [e \in Events |-> NoRow]

Release(w) == /\ held' = [held EXCEPT ![w] = {}]
              /\ todo' = [todo EXCEPT ![w] = {}]
              /\ copy' = [copy EXCEPT ![w] = NoCopy]

CommitBatch(w) ==
    /\ held[w] # {}
    /\ todo[w] = {}
    /\ Write(w)
    /\ Release(w)
    /\ UNCHANGED <<stream, faults, calm>>

(* The worker dies, arq cancels the job, or the commit fails: every row of *)
(* the batch is as it was selected, whatever of it has been published.     *)
Rollback(w) ==
    /\ held[w] # {}
    /\ faults < MaxFaults
    /\ faults' = faults + 1
    /\ Release(w)
    /\ UNCHANGED <<rows, stream, calm>>

Advance(w) == \/ Select(w)
              \/ \E e \in Events : \/ Attempt(w, e) \/ Published(w, e) \/ Refused(w, e)
              \/ CommitBatch(w)

(* Nothing is left to relay.  That it comes to that is up to the process   *)
(* that runs the ticks: Worker!EverySettled.                               *)
Quiet == /\ Selectable = {}
         /\ {e \in Events : rows[e] # NoRow /\ ~rows[e].due} = {}
         /\ \A w \in Relays : held[w] = {}
         /\ UNCHANGED vars

Next == \/ \E e \in Events : Insert(e) \/ Elapse(e)
        \/ \E w \in Relays : \/ Advance(w)
                             \/ \E e \in Events : ReplyLost(w, e)
                             \/ Rollback(w)
        \/ Quiet

Spec == Init /\ [][Next]_vars
-----------------------------------------------------------------------------
Exhausted == {e \in Events : rows[e] # NoRow /\ rows[e].status = "failed"
                                /\ rows[e].attempts = MaxAttempts}

Delivered == {e \in Events : rows[e] # NoRow /\ rows[e].status = "published"}

Occurrences(e) == {i \in DOMAIN stream : stream[i] = e}

(* The domains of the variables; attempt_count never passes max_attempts.  *)
TypeOK ==
    /\ rows \in [Events -> Row \cup {NoRow}]
    /\ held \in [Relays -> SUBSET Events]
    /\ todo \in [Relays -> SUBSET Events]
    /\ \A w \in Relays : todo[w] \subseteq held[w]
    /\ copy \in [Relays -> [Events -> Row \cup {NoRow}]]
    /\ \A w \in Relays : \A e \in held[w] : copy[w][e] # NoRow
    /\ stream \in Seq(Events)
    /\ faults \in 0..MaxFaults
    /\ calm \in BOOLEAN

(* However many relays overlap, an event is on the stream more often than  *)
(* once only if batches were rolled back or publish replies lost, and each *)
(* such fault accounts for at most one copy.                               *)
DuplicatesNeedFaults ==
    \A e \in Events : Cardinality(Occurrences(e)) <= 1 + faults

(* A published row is final: no relay writes it, or sends it, again, from  *)
(* whatever it had read before.                                            *)
PublishedIsFinal ==
    [][\A e \in Delivered : rows'[e] = rows[e] /\ Occurrences(e)' = Occurrences(e)]_vars

(* While no publish fails and no two batches overlap, the events of one    *)
(* aggregate first reach the stream in the order they were raised, rolled  *)
(* back batches included.  Either disturbance may reorder them.            *)
First(i) == \A j \in DOMAIN stream : j < i => stream[j] # stream[i]

AggregateOrder ==
    calm => \A i, j \in DOMAIN stream :
              /\ i < j /\ First(i) /\ First(j) /\ Owner[stream[i]] = Owner[stream[j]]
                  => stream[i] < stream[j]

(* The relay implements at-least-once delivery.                            *)
Outbox == INSTANCE AtLeastOnce WITH
    accepted <- {e \in Events : rows[e] # NoRow},
    delivered <- Delivered,
    abandoned <- Exhausted

ImplementsAtLeastOnce == Outbox!Spec
=============================================================================
