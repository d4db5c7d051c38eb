--------------------------- MODULE StreamConsumer --------------------------
(***************************************************************************)
(* RedisStreamsConsumer in the arq workers: a consumer group reads the     *)
(* stream in batches with XREADGROUP ">", hands each entry to the handler  *)
(* registered for its type, and acknowledges it.                           *)
(*                                                                         *)
(* Entries are their positions in the stream.  Every worker reads as       *)
(* "worker-1", so the group has one list of pending entries, whichever     *)
(* process read them.  A process runs the loop of _run:                    *)
(*                                                                         *)
(*   loop -> reading -> handling -> (failed -> dying ->) acking -> ...     *)
(*                                                                         *)
(* ReadAgain, DoneStopping, ... stand before the definition they are faulty*)
(* variants of; they only test that the properties notice them.            *)
(***************************************************************************)
EXTENDS Naturals, FiniteSets

CONSTANTS
    Length,          \* entries the stream will have
    Wanted,          \* entries of a type some handler is registered for
    Processes,       \* worker processes
    Count,           \* entries per XREADGROUP, 10 in the code
    MaxDeliveries,   \* _MAX_DELIVERIES
    DecodeResponses, \* whether the client decodes the fields it reads
    MaxFaults        \* bound: crashes and Redis errors

ASSUME LimitsAssumption == /\ Length \in Nat
                           /\ Count \in Nat \ {0}
                           /\ MaxDeliveries \in Nat \ {0}
                           /\ MaxFaults \in Nat
                           /\ DecodeResponses \in BOOLEAN
                           /\ Wanted \subseteq 1..Length

Entries == 1..Length

Running == {"loop", "reading", "handling", "failed", "dying", "acking"}

Phases == Running \cup {"down", "stopped", "dead"}

VARIABLES
    added,       \* entries XADDed so far
    next,        \* the group's last-delivered entry
    pending,     \* the group's pending entries
    times,       \* times[e]: times_delivered of e
    pc,          \* where each process's loop is
    stopping,    \* the processes whose _stopping event is set
    batch,       \* batch[p]: the entries p has read and is not through with
    handled,     \* handled[e]: how often a handler succeeded on entry e
    failures,    \* the entries a handler raised on
    deadLetters, \* the entries copied to the dead-letter stream
    faults       \* crashes and errors so far

vars == <<added, next, pending, times, pc, stopping, batch, handled, failures,
          deadLetters, faults>>

group == <<added, next, pending, times>>
effects == <<handled, failures, deadLetters>>

Init == /\ added = 0
        /\ next = 0
        /\ pending = {}
        /\ times = [e \in Entries |-> 0]
        /\ pc = [p \in Processes |-> "down"]
        /\ stopping = {}
        /\ batch = [p \in Processes |-> {}]
        /\ handled = [e \in Entries |-> 0]
        /\ failures = {}
        /\ deadLetters = {}
        /\ faults = 0

Goto(p, phase) == pc' = [pc EXCEPT ![p] = phase]
-----------------------------------------------------------------------------
(* A relay XADDs the next entry.                                           *)
Publish == /\ added < Length
           /\ added' = added + 1
           /\ UNCHANGED <<next, pending, times, pc, stopping, batch, effects, faults>>

(* start(), in a worker that has just been started: the group is created   *)
(* at the beginning of the stream unless it is there.                      *)
Start(p) == /\ pc[p] \notin Running
            /\ Goto(p, "loop")
            /\ stopping' = stopping \ {p}
            /\ UNCHANGED <<group, batch, effects, faults>>

(* stop() sets the event, and waits for _run to return.                    *)
Stop(p) == /\ pc[p] \in Running
           /\ p \notin stopping
           /\ stopping' = stopping \cup {p}
           /\ UNCHANGED <<group, pc, batch, effects, faults>>

(* while not self._stopping.is_set()                                       *)
Loop(p) == /\ pc[p] = "loop"
           /\ Goto(p, IF p \in stopping THEN "stopped" ELSE "reading")
           /\ UNCHANGED <<group, stopping, batch, effects, faults>>

ReadAgain == {e \in 1..added : e \in pending \/ (e > next /\ e <= next + Count)}

(* What XREADGROUP ... ">" COUNT returns: entries never delivered before.  *)
Undelivered == {e \in 1..added : e > next /\ e <= next + Count}

Deliver ==
    /\ pending' = pending \cup Undelivered
    /\ times' = [e \in Entries |-> IF e \in Undelivered THEN times[e] + 1 ELSE times[e]]
    /\ next' = IF next + Count <= added THEN next + Count ELSE added
    /\ UNCHANGED added

(* The read returns, with entries or because its block of 1 s is over.     *)
Read(p) ==
    /\ pc[p] = "reading"
    /\ IF Undelivered = {}
       THEN Goto(p, "loop") /\ UNCHANGED <<group, batch>>
       ELSE /\ Deliver
            /\ batch' = [batch EXCEPT ![p] = Undelivered]
            /\ Goto(p, "handling")
    /\ UNCHANGED <<stopping, effects, faults>>

(* Entries are handled in the order of the stream.                         *)
Head(p, e) == e \in batch[p] /\ \A d \in batch[p] : e <= d

DoneStopping(p, e) ==
    /\ batch' = [batch EXCEPT ![p] = IF p \in stopping THEN {} ELSE @ \ {e}]
    /\ Goto(p, IF batch[p] = {e} \/ p \in stopping THEN "loop" ELSE "handling")

(* On to the next entry of the batch, or to the next read; stop() does not *)
(* cut a batch short.                                                      *)
Done(p, e) == /\ batch' = [batch EXCEPT ![p] = @ \ {e}]
              /\ Goto(p, IF batch[p] = {e} THEN "loop" ELSE "handling")

(* self._handlers.get(fields.get("event_type", "")): an undecoded field    *)
(* has the key b"event_type", so that no handler is found.                 *)
HandlerFound(e) == DecodeResponses /\ e \in Wanted

(* An entry nobody registered for is acknowledged unhandled.               *)
Skip(p, e) ==
    /\ pc[p] = "handling"
    /\ Head(p, e)
    /\ ~HandlerFound(e)
    /\ pending' = pending \ {e}
    /\ Done(p, e)
    /\ UNCHANGED <<added, next, times, stopping, effects, faults>>

(* handler.handle returns: the welcome email is sent.                      *)
HandleOK(p, e) ==
    /\ pc[p] = "handling"
    /\ Head(p, e)
    /\ HandlerFound(e)
    /\ handled' = [handled EXCEPT ![e] = @ + 1]
    /\ Goto(p, "acking")
    /\ UNCHANGED <<group, stopping, batch, failures, deadLetters, faults>>

(* handler.handle raises.                                                  *)
HandleFails(p, e) ==
    /\ pc[p] = "handling"
    /\ Head(p, e)
    /\ HandlerFound(e)
    /\ failures' = failures \cup {e}
    /\ Goto(p, "failed")
    /\ UNCHANGED <<group, stopping, batch, handled, deadLetters, faults>>

(* XPENDING - + 1: the count of deliveries of the first pending entry,     *)
(* which need not be the one that failed; 1 if nothing is pending.         *)
Deliveries == IF pending = {} THEN 1
              ELSE times[CHOOSE e \in pending : \A d \in pending : e <= d]

JudgeAndAck(p, e) ==
    /\ pc[p] = "failed"
    /\ Head(p, e)
    /\ pending' = pending \ {e}
    /\ Done(p, e)
    /\ UNCHANGED <<added, next, times, stopping, effects, faults>>

JudgeInPlace(p, e) ==
    /\ pc[p] = "failed"
    /\ Head(p, e)
    /\ Goto(p, IF Deliveries >= MaxDeliveries THEN "dying" ELSE "handling")
    /\ UNCHANGED <<group, stopping, batch, effects, faults>>

(* Dead-letter the entry, or leave it pending.                             *)
Judge(p, e) ==
    /\ pc[p] = "failed"
    /\ Head(p, e)
    /\ IF Deliveries >= MaxDeliveries
       THEN Goto(p, "dying") /\ UNCHANGED batch
       ELSE Done(p, e)
    /\ UNCHANGED <<group, stopping, effects, faults>>

DeadLetter(p, e) ==
    /\ pc[p] = "dying"
    /\ Head(p, e)
    /\ deadLetters' = deadLetters \cup {e}
    /\ Goto(p, "acking")
    /\ UNCHANGED <<group, stopping, batch, handled, failures, faults>>

(* XACK.                                                                   *)
Ack(p, e) ==
    /\ pc[p] = "acking"
    /\ Head(p, e)
    /\ pending' = pending \ {e}
    /\ Done(p, e)
    /\ UNCHANGED <<added, next, times, stopping, effects, faults>>

(* The command that p was waiting for, carried out although p never learns *)
(* of it: a read whose entries reach nobody, an XADD or an XACK.           *)
InFlight(p) ==
    \/ pc[p] = "reading" /\ Deliver /\ UNCHANGED effects
    \/ \E e \in batch[p] :
          /\ Head(p, e)
          /\ \/ /\ pc[p] = "dying"
                /\ deadLetters' = deadLetters \cup {e}
                /\ UNCHANGED <<group, handled, failures>>
             \/ /\ pc[p] = "acking" \/ (pc[p] = "handling" /\ ~HandlerFound(e))
                /\ pending' = pending \ {e}
                /\ UNCHANGED <<added, next, times, effects>>

Lost(p, phase) == /\ faults < MaxFaults
                  /\ faults' = faults + 1
                  /\ pc[p] \in Running
                  /\ Goto(p, phase)
                  /\ batch' = [batch EXCEPT ![p] = {}]
                  /\ InFlight(p) \/ UNCHANGED <<group, effects>>
                  /\ UNCHANGED stopping

(* The worker dies with the batch it was working on.                       *)
Crash(p) == Lost(p, "down")

(* A Redis command of the loop raises: the task ends, unobserved until     *)
(* stop() awaits it, while the worker goes on relaying.                    *)
RedisError(p) ==
    /\ pc[p] # "loop"
    /\ pc[p] = "handling" => \E e \in batch[p] : Head(p, e) /\ ~HandlerFound(e)
    /\ Lost(p, "dead")

Advance(p) == \/ Loop(p) \/ Read(p)
              \/ \E e \in Entries : \/ Skip(p, e) \/ HandleOK(p, e) \/ HandleFails(p, e)
                                    \/ Judge(p, e) \/ DeadLetter(p, e) \/ Ack(p, e)

Next == \/ Publish
        \/ \E p \in Processes : Start(p) \/ Stop(p) \/ Advance(p) \/ Crash(p) \/ RedisError(p)

(* A running loop goes on: reads return within their block time, handlers  *)
(* return or raise.  Nothing obliges a worker to be started or to stay up. *)
Fairness == \A p \in Processes : WF_vars(Advance(p))

Spec == Init /\ [][Next]_vars

FairSpec == Spec /\ Fairness
-----------------------------------------------------------------------------
Delivered == 1..next

Acked == Delivered \ pending

(* The domains of the variables; what a process works on is pending, and   *)
(* no entry is in the hands of two processes.                              *)
TypeOK ==
    /\ added \in 0..Length
    /\ next \in 0..added
    /\ pending \subseteq Delivered
    /\ times \in [Entries -> Nat]
    /\ pc \in [Processes -> Phases]
    /\ stopping \subseteq Processes
    /\ batch \in [Processes -> SUBSET pending]
    /\ \A p, q \in Processes : p # q => batch[p] \cap batch[q] = {}
    /\ handled \in [Entries -> Nat]
    /\ failures \subseteq Delivered
    /\ deadLetters \subseteq failures
    /\ faults \in 0..MaxFaults

(* Worker instances share the load without double-processing: whatever     *)
(* crashes, restarts and stops happen, a handler succeeds on an entry at   *)
(* most once, and never on one that was dead-lettered.                     *)
HandledAtMostOnce ==
    \A e \in Entries : /\ handled[e] <= 1
                       /\ e \in deadLetters => handled[e] = 0

(* An entry is acknowledged only after a handler succeeded on it, or once  *)
(* it is in the dead-letter stream; otherwise no handler wanted it.        *)
AckedAccountedFor ==
    \A e \in Acked : handled[e] > 0 \/ e \in deadLetters \/ e \notin Wanted

(* Stopping a worker abandons nothing: without a crash or a Redis error,   *)
(* an unacknowledged entry is being worked on or has failed.               *)
PendingAccountedFor ==
    faults = 0 => \A e \in pending : e \in failures \/ \E p \in Processes : e \in batch[p]

(* Once some worker stays up, whatever is on the stream is taken and       *)
(* worked through, whichever of its entries fail.                          *)
StaysUp(p) == <>[](pc[p] \in Running /\ p \notin stopping)

Through(e) == e \in Delivered /\ \A p \in Processes : e \notin batch[p]

EveryEntryTaken ==
    (\E p \in Processes : StaysUp(p)) => \A e \in Entries : e <= added ~> Through(e)
-----------------------------------------------------------------------------
(* docs/messaging.md: a message that fails is retried, and dead-lettered   *)
(* after five failures.  Nothing ever reads a pending entry again.         *)
FailureRetriedOrDeadLettered ==
    \A e \in Entries : e \in failures ~> handled[e] > 0 \/ e \in deadLetters
=============================================================================
