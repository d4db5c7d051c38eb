------------------------------- MODULE Worker -------------------------------
(***************************************************************************)
(* The arq worker processes: each starts up, relays the outbox, consumes   *)
(* the stream that the relays feed, mails the welcome, and shuts down.     *)
(*                                                                         *)
(*   off -> starting -> up -> draining -> stopping -> disposing            *)
(*       -> closing -> off                                                 *)
(*                                                                         *)
(* It composes OutboxRelay and StreamConsumer: the stream of the relays is *)
(* what the group reads, and a process runs one of each and loses both at  *)
(* once.  Every event is a UserRegistered here; an event of another type   *)
(* ends in StreamConsumer!Skip.                                            *)
(*                                                                         *)
(* StartAfresh, StopAtOnce, ... stand before the definition they are faulty*)
(* variants of; they only test that the properties notice them.            *)
(***************************************************************************)
EXTENDS Naturals, Sequences, FiniteSets, FiniteSetsExt

CONSTANTS
    Events, Owner, BatchSize, MaxAttempts, NoRow,  \* see OutboxRelay
    Count, MaxDeliveries, DecodeResponses,         \* see StreamConsumer
    Workers,
    MaxEntries,   \* bound: entries of the stream
    MaxFaults     \* bound: what fails, and ticks that are cut short

ASSUME EventsAssumption == Events \subseteq Nat /\ IsFiniteSet(Events)

ASSUME LimitsAssumption == /\ {BatchSize, MaxAttempts, Count, MaxDeliveries} \subseteq Nat \ {0}
                           /\ {MaxEntries, MaxFaults} \subseteq Nat
                           /\ DecodeResponses \in BOOLEAN

(* The stream has room for every event, and for a copy of it per fault.    *)
ASSUME RoomAssumption == Cardinality(Events) * (1 + MaxFaults) <= MaxEntries

Resources == {"engine", "client"}

VARIABLES
    stage,   \* stage[w]: where worker w is in its life
    open,    \* open[w]: the resources that w has not closed
    raised,  \* the workers whose startup or shutdown raised
    botched, \* the entries whose handler raised after the mail went out
    rows, held, todo, copy, stream, calm,
    next, pending, times, pc, stopping, batch, handled, failures, deadLetters,
    faults

life == <<stage, open, raised>>
relay == <<rows, held, todo, copy, calm>>
loop == <<next, pending, times, pc, stopping, batch, handled, failures, deadLetters>>
vars == <<life, botched, relay, stream, loop, faults>>

Relay == INSTANCE OutboxRelay WITH Relays <- Workers

ASSUME NoRowAssumption == NoRow \notin Relay!Row

Consumer == INSTANCE StreamConsumer
            WITH Length <- MaxEntries, Wanted <- 1..MaxEntries,
                 Processes <- Workers, added <- Len(stream)

Init == /\ stage = [w \in Workers |-> "off"]
        /\ open = [w \in Workers |-> {}]
        /\ raised = {}
        /\ botched = {}
        /\ Relay!Init
        /\ Consumer!Init

Enter(w, s) == stage' = [stage EXCEPT ![w] = s]

Fault == faults < MaxFaults /\ faults' = faults + 1

Register(e) == UNCHANGED <<life, botched, loop>> /\ Relay!Insert(e)

Elapse(e) == UNCHANGED <<life, botched, loop>> /\ Relay!Elapse(e)
-----------------------------------------------------------------------------
(* on_startup, up to the await of consumer.start().                        *)
Start(w) == /\ stage[w] = "off"
            /\ Enter(w, "starting")
            /\ open' = [open EXCEPT ![w] = Resources]
            /\ raised' = raised \ {w}
            /\ UNCHANGED <<botched, relay, stream, loop, faults>>

StartAfresh(w) ==
    /\ stage[w] = "starting"
    /\ Enter(w, "up")
    /\ pc' = [pc EXCEPT ![w] = "loop"]
    /\ next' = 0
    /\ stopping' = stopping \ {w}
    /\ UNCHANGED <<open, raised, botched, relay, stream, faults, pending, times, batch,
                   handled, failures, deadLetters>>

StartAtEnd(w) ==
    /\ stage[w] = "starting"
    /\ Enter(w, "up")
    /\ pc' = [pc EXCEPT ![w] = "loop"]
    /\ next' = IF next = 0 THEN Len(stream) ELSE next
    /\ stopping' = stopping \ {w}
    /\ UNCHANGED <<open, raised, botched, relay, stream, faults, pending, times, batch,
                   handled, failures, deadLetters>>

(* start() returns, and arq runs the cron job from now on.                 *)
StartConsumer(w) == /\ stage[w] = "starting"
                    /\ Enter(w, "up")
                    /\ UNCHANGED <<open, raised, botched, relay, stream>>
                    /\ Consumer!Start(w)

(* It raises, or is cancelled.  arq calls on_shutdown all the same, which  *)
(* finds no consumer in ctx and raises in turn.                            *)
StartFails(w) == /\ stage[w] = "starting"
                 /\ Fault
                 /\ Enter(w, "off")
                 /\ raised' = raised \cup {w}
                 /\ UNCHANGED <<open, botched, relay, stream, loop>>
-----------------------------------------------------------------------------
(* A tick of the cron job, one step of relay_once at a time.               *)
Tick(w) == /\ stage[w] = "up"
           /\ UNCHANGED <<life, botched, loop>>
           /\ Relay!Advance(w)

LoseReply(w) == /\ stage[w] = "up"
                /\ UNCHANGED <<life, botched, loop>>
                /\ \E e \in Events : Relay!ReplyLost(w, e)

TickFails(w) == /\ stage[w] = "up"
                /\ UNCHANGED <<life, botched, loop>>
                /\ Relay!Rollback(w)

(* The consumer's loop goes on, whatever the stage: HandleOK is a mail.    *)
Consume(w) == /\ UNCHANGED <<life, botched, relay, stream>>
              /\ Consumer!Advance(w)

(* The mail is handed over, and the connection to the mail server breaks.  *)
MailAndRaise(w) ==
    /\ UNCHANGED <<life, relay, stream>>
    /\ \E i \in batch[w] : Consumer!HandleFails(w, i) /\ botched' = botched \cup {i}

LoopDies(w) == /\ UNCHANGED <<life, botched, relay, stream>>
               /\ Consumer!RedisError(w)
-----------------------------------------------------------------------------
TerminateUncancelled(w) ==
    /\ stage[w] = "up"
    /\ Enter(w, "draining")
    /\ UNCHANGED <<open, raised, botched, loop, relay, stream, faults>>

(* SIGTERM: arq cancels the tick, whose batch is rolled back, and waits    *)
(* for it before it calls on_shutdown.                                     *)
Terminate(w) ==
    /\ stage[w] = "up"
    /\ Enter(w, "draining")
    /\ UNCHANGED <<open, raised, botched, loop>>
    /\ IF held[w] = {} THEN UNCHANGED <<relay, stream, faults>> ELSE Relay!Rollback(w)

StopAtOnce(w) == /\ stage[w] = "draining"
                 /\ pc[w] \in Consumer!Running
                 /\ Enter(w, "stopping")
                 /\ pc' = [pc EXCEPT ![w] = "stopped"]
                 /\ batch' = [batch EXCEPT ![w] = {}]
                 /\ UNCHANGED <<open, raised, botched, relay, stream, faults, next, pending,
                                times, stopping, handled, failures, deadLetters>>

(* consumer.stop() sets the event and awaits the task.                     *)
StopConsumer(w) == /\ stage[w] = "draining"
                   /\ Enter(w, "stopping")
                   /\ UNCHANGED <<open, raised, botched, relay, stream>>
                   /\ Consumer!Stop(w)

StopUnawaited(w) == /\ stage[w] = "stopping"
                    /\ Enter(w, "disposing")
                    /\ UNCHANGED <<open, raised, botched, relay, stream, loop, faults>>

(* The loop has returned.                                                  *)
LoopReturned(w) == /\ stage[w] = "stopping"
                   /\ pc[w] = "stopped"
                   /\ Enter(w, "disposing")
                   /\ UNCHANGED <<open, raised, botched, relay, stream, loop, faults>>

(* Or it has died: the await raises what ended it.                         *)
LoopRaised(w) == /\ stage[w] \in {"draining", "stopping"}
                 /\ pc[w] = "dead"
                 /\ Enter(w, "off")
                 /\ raised' = raised \cup {w}
                 /\ UNCHANGED <<open, botched, relay, stream, loop, faults>>

Close(w, resource) ==
    /\ open' = [open EXCEPT ![w] = @ \ {resource}]
    /\ UNCHANGED <<raised, botched, relay, stream, loop, faults>>

DisposeEngine(w) == /\ stage[w] = "disposing"
                    /\ Enter(w, "closing")
                    /\ Close(w, "engine")

CloseClient(w) == /\ stage[w] = "closing"
                  /\ Enter(w, "off")
                  /\ Close(w, "client")

(* The process dies, and with it its tick and its loop.                    *)
Crash(w) ==
    /\ stage[w] # "off"
    /\ Enter(w, "off")
    /\ open' = [open EXCEPT ![w] = {}]
    /\ UNCHANGED <<raised, botched, rows, calm, stream>>
    /\ Relay!Release(w)
    /\ IF pc[w] \in Consumer!Running THEN Consumer!Crash(w) ELSE Fault /\ UNCHANGED loop

Shutdown(w) == \/ StopConsumer(w) \/ LoopReturned(w) \/ LoopRaised(w)
               \/ DisposeEngine(w) \/ CloseClient(w)

Next == \/ \E e \in Events : Register(e) \/ Elapse(e)
        \/ \E w \in Workers : \/ Start(w) \/ StartConsumer(w) \/ StartFails(w)
                              \/ Tick(w) \/ LoseReply(w) \/ TickFails(w)
                              \/ Consume(w) \/ MailAndRaise(w) \/ LoopDies(w)
                              \/ Terminate(w) \/ Shutdown(w) \/ Crash(w)

(* A process goes on with what it has begun.  Nobody is obliged to start a *)
(* worker, or to leave it running.                                         *)
Fairness == /\ \A w \in Workers : /\ WF_vars(StartConsumer(w))
                                  /\ WF_vars(Tick(w))
                                  /\ WF_vars(Consume(w))
                                  /\ WF_vars(Shutdown(w))
            /\ \A e \in Events : WF_vars(Elapse(e))

Spec == Init /\ [][Next]_vars

FairSpec == Spec /\ Fairness
-----------------------------------------------------------------------------
Stages == {"off", "starting", "up", "draining", "stopping", "disposing", "closing"}

Copies(e) == {i \in DOMAIN stream : stream[i] = e}

(* The welcome mails that entry i has caused.                              *)
Mails(i) == handled[i] + IF i \in botched THEN 1 ELSE 0

Abandoned(i) == i \in pending /\ \A w \in Workers : i \notin batch[w]

(* The domains of the variables; only a worker that is up has a tick, and  *)
(* the loop runs from the end of the startup to the shutdown.              *)
TypeOK ==
    /\ stage \in [Workers -> Stages]
    /\ open \in [Workers -> SUBSET Resources]
    /\ raised \subseteq Workers
    /\ botched \subseteq failures
    /\ Relay!TypeOK
    /\ Len(stream) <= MaxEntries
    /\ Consumer!TypeOK
    /\ \A w \in Workers : /\ held[w] # {} => stage[w] = "up"
                          /\ pc[w] \in Consumer!Running =>
                               stage[w] \in {"up", "draining", "stopping"}
                          /\ stage[w] \in {"disposing", "closing"} => pc[w] = "stopped"

(* A user is welcomed twice only because something failed or a tick was    *)
(* cut short, and once more for each such fault at most: the consumers add *)
(* no mail to those that the relays' duplicates cause, however often       *)
(* workers start, stop and share the group.                                *)
MailsNeedFaults ==
    \A e \in Events : MapThenSumSet(Mails, Copies(e)) <= 1 + faults

(* Until something fails, no registration is lost between the two halves:  *)
(* what the outbox calls published is waiting in the stream, in the hands  *)
(* of a worker, mailed, or known to have failed, through any number of     *)
(* restarts.                                                               *)
PublishedIsOnItsWay ==
    faults = 0 => \A e \in Relay!Delivered : \E i \in Copies(e) :
        i > next \/ Mails(i) > 0 \/ i \in failures \/ \E w \in Workers : i \in batch[w]

(* Nothing is closed while it is in use, a worker that ended without a     *)
(* startup or shutdown that raised has closed everything, and neither      *)
(* raises unless something failed before.                                  *)
ClosedInOrder ==
    \A w \in Workers :
        /\ pc[w] \in Consumer!Running => "client" \in open[w]
        /\ held[w] # {} => open[w] = Resources
        /\ stage[w] = "off" /\ w \notin raised => open[w] = {}
        /\ faults = 0 => w \notin raised

(* Once some worker stays up, every committed event is published, or out   *)
(* of attempts and marked failed: what other workers held when they died   *)
(* comes free, no row is stranded as PROCESSING, and the relay goes on     *)
(* even where the consumer's loop has died unnoticed.                      *)
EverySettled ==
    (\E w \in Workers : <>[](stage[w] = "up")) =>
        \A e \in Events : rows[e] # NoRow ~> e \in Relay!Delivered \cup Relay!Exhausted

(* Once some worker stays up and its loop alive, every committed           *)
(* registration comes to an end that is on record: a mail, a failed row,   *)
(* a handler that raised, or an entry left pending by what failed.         *)
StaysUp(w) == <>[](stage[w] = "up" /\ pc[w] \in Consumer!Running)

Concluded(e) == \/ e \in Relay!Exhausted
                \/ \E i \in Copies(e) : Mails(i) > 0 \/ i \in failures \/ Abandoned(i)

EveryRegistrationConcluded ==
    (\E w \in Workers : StaysUp(w)) =>
        \A e \in Events : rows[e] # NoRow ~> Concluded(e)
=============================================================================
