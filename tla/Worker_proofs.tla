--------------------------- MODULE Worker_proofs ---------------------------
(***************************************************************************)
(* Proofs about Worker, for any workers, events, limits and number of      *)
(* faults.  What OutboxRelay_proofs and StreamConsumer_proofs say of the   *)
(* two halves is instantiated, as Worker instantiates the halves, and used *)
(* step by step: a worker's step is one of a relay, one of a consumer, or  *)
(* one that neither notices but for the fault it counts.                   *)
(***************************************************************************)
EXTENDS Worker, FiniteSetTheorems, WellFoundedInduction, TLAPS

RP == INSTANCE OutboxRelay_proofs WITH Relays <- Workers

CP == INSTANCE StreamConsumer_proofs
      WITH Length <- MaxEntries, Wanted <- 1..MaxEntries,
           Processes <- Workers, added <- Len(stream)
-----------------------------------------------------------------------------
(* The assumptions of the halves.                                          *)
LEMMA RelayAssumed ==
    /\ Events \subseteq Nat /\ RP!IsFiniteSet(Events)
    /\ BatchSize \in Nat \ {0} /\ MaxAttempts \in Nat \ {0} /\ MaxFaults \in Nat
    /\ NoRow \notin RP!Row
  BY EventsAssumption, LimitsAssumption, NoRowAssumption
     DEF IsFiniteSet, RP!IsFiniteSet, RP!Row, RP!Status, Relay!Row, Relay!Status

LEMMA ConsumerAssumed ==
    /\ MaxEntries \in Nat /\ Count \in Nat \ {0} /\ MaxDeliveries \in Nat \ {0}
    /\ MaxFaults \in Nat /\ DecodeResponses \in BOOLEAN
    /\ 1..MaxEntries \subseteq 1..MaxEntries
  BY LimitsAssumption
-----------------------------------------------------------------------------
(* The two instances of OutboxRelay are one module, and so are those of    *)
(* StreamConsumer.                                                         *)
LEMMA SameCommits ==
    ASSUME NEW e
    PROVE  /\ Relay!Insert(e) => RP!Insert(e)
           /\ Relay!Elapse(e) => RP!Elapse(e)
  BY DEF Relay!Insert, RP!Insert, Relay!Elapse, RP!Elapse

LEMMA SameSelect ==
    ASSUME NEW w
    PROVE  Relay!Select(w) => RP!Select(w)
  <1>1. Relay!Locked = RP!Locked /\ Relay!Selectable = RP!Selectable
    BY DEF Relay!Locked, RP!Locked, Relay!Selectable, RP!Selectable
  <1>2. Relay!Batch = RP!Batch
    BY <1>1 DEF Relay!Batch, RP!Batch, Relay!Cardinality, RP!Cardinality
  <1> QED BY <1>1, <1>2 DEF Relay!Select, RP!Select

LEMMA SamePublish ==
    ASSUME NEW w, NEW e
    PROVE  /\ Relay!Attempt(w, e) => RP!Attempt(w, e)
           /\ Relay!Published(w, e) => RP!Published(w, e)
           /\ Relay!Refused(w, e) => RP!Refused(w, e)
           /\ Relay!ReplyLost(w, e) => RP!ReplyLost(w, e)
  BY DEF Relay!Attempt, RP!Attempt, Relay!Published, RP!Published, Relay!Refused,
         RP!Refused, Relay!ReplyLost, RP!ReplyLost, Relay!Outcome, RP!Outcome,
         Relay!Current, RP!Current

LEMMA SameRelease ==
    ASSUME NEW w
    PROVE  /\ Relay!Release(w) => RP!Release(w)
           /\ Relay!CommitBatch(w) => RP!CommitBatch(w)
           /\ Relay!Rollback(w) => RP!Rollback(w)
  BY DEF Relay!Release, RP!Release, Relay!CommitBatch, RP!CommitBatch,
         Relay!Rollback, RP!Rollback, Relay!Write, RP!Write, Relay!NoCopy,
         RP!NoCopy

LEMMA SameRelay ==
    /\ Relay!Init => RP!Init
    /\ Relay!TypeOK <=> RP!TypeOK
    /\ Relay!Delivered = RP!Delivered
  BY DEF Relay!Init, RP!Init, Relay!TypeOK, RP!TypeOK, Relay!Row, RP!Row,
         Relay!Status, RP!Status, Relay!Delivered, RP!Delivered

LEMMA SameRuns ==
    ASSUME NEW p
    PROVE  /\ Consumer!Start(p) => CP!Start(p)
           /\ Consumer!Stop(p) => CP!Stop(p)
           /\ Consumer!Loop(p) => CP!Loop(p)
  BY DEF Consumer!Start, CP!Start, Consumer!Stop, CP!Stop, Consumer!Loop, CP!Loop,
         Consumer!Goto, CP!Goto, Consumer!Running, CP!Running, Consumer!group,
         CP!group, Consumer!effects, CP!effects

LEMMA SameReads ==
    ASSUME NEW p
    PROVE  Consumer!Read(p) => CP!Read(p)
  BY DEF Consumer!Read, CP!Read, Consumer!Deliver, CP!Deliver,
         Consumer!Undelivered, CP!Undelivered, Consumer!Goto, CP!Goto,
         Consumer!Entries, CP!Entries, Consumer!group, CP!group, Consumer!effects,
         CP!effects

LEMMA SameHandling ==
    ASSUME NEW p, NEW e
    PROVE  /\ Consumer!Skip(p, e) => CP!Skip(p, e)
           /\ Consumer!HandleOK(p, e) => CP!HandleOK(p, e)
           /\ Consumer!HandleFails(p, e) => CP!HandleFails(p, e)
           /\ Consumer!DeadLetter(p, e) => CP!DeadLetter(p, e)
           /\ Consumer!Ack(p, e) => CP!Ack(p, e)
  BY DEF Consumer!Skip, CP!Skip, Consumer!HandleOK, CP!HandleOK,
         Consumer!HandleFails, CP!HandleFails, Consumer!DeadLetter, CP!DeadLetter,
         Consumer!Ack, CP!Ack, Consumer!Head, CP!Head, Consumer!Done, CP!Done,
         Consumer!Goto, CP!Goto, Consumer!HandlerFound, CP!HandlerFound,
         Consumer!group, CP!group, Consumer!effects, CP!effects

LEMMA SameJudge ==
    ASSUME NEW p, NEW e
    PROVE  Consumer!Judge(p, e) => CP!Judge(p, e)
  BY DEF Consumer!Judge, CP!Judge, Consumer!Deliveries, CP!Deliveries,
         Consumer!Head, CP!Head, Consumer!Done, CP!Done, Consumer!Goto, CP!Goto,
         Consumer!group, CP!group, Consumer!effects, CP!effects

LEMMA SameAdvance ==
    ASSUME NEW p, Consumer!Advance(p)
    PROVE  CP!Advance(p)
  <1>1. Consumer!Entries = CP!Entries
    BY DEF Consumer!Entries, CP!Entries
  <1> QED BY <1>1, SameRuns, SameReads, SameHandling, SameJudge DEF Consumer!Advance, CP!Advance

LEMMA SameInFlight ==
    ASSUME NEW p, Consumer!InFlight(p)
    PROVE  CP!InFlight(p)
  BY DEF Consumer!InFlight, CP!InFlight, Consumer!Deliver, CP!Deliver,
         Consumer!Undelivered, CP!Undelivered, Consumer!Head, CP!Head,
         Consumer!HandlerFound, CP!HandlerFound, Consumer!Entries, CP!Entries,
         Consumer!group, CP!group, Consumer!effects, CP!effects

LEMMA SameLost ==
    ASSUME NEW p
    PROVE  /\ Consumer!Crash(p) => CP!Lost(p, "down")
           /\ Consumer!RedisError(p) => CP!Lost(p, "dead")
  BY SameInFlight DEF Consumer!Crash, CP!Crash, Consumer!RedisError, CP!RedisError,
         Consumer!Lost, CP!Lost, Consumer!Goto, CP!Goto, Consumer!Running,
         CP!Running, Consumer!group, CP!group, Consumer!effects, CP!effects

LEMMA SameConsumer ==
    /\ Consumer!Init => CP!Init
    /\ Consumer!TypeOK <=> CP!TypeOK
    /\ Consumer!Running = CP!Running
  BY DEF Consumer!Init, CP!Init, Consumer!TypeOK, CP!TypeOK, Consumer!Phases,
         CP!Phases, Consumer!Running, CP!Running, Consumer!Delivered, CP!Delivered,
         Consumer!Entries, CP!Entries
-----------------------------------------------------------------------------
(* Only a worker that is up has a tick; its loop runs from the end of the  *)
(* startup to the shutdown, which goes on only if the loop has returned.   *)
StageInv(w) ==
    /\ held[w] # {} => stage[w] = "up"
    /\ pc[w] \in Consumer!Running => stage[w] \in {"up", "draining", "stopping"}
    /\ stage[w] \in {"disposing", "closing"} => pc[w] = "stopped"

(* A worker has open what it has not come to close, and only a fault makes *)
(* its loop die or its startup or shutdown raise.                          *)
OpenInv(w) ==
    /\ stage[w] \in {"starting", "up", "draining", "stopping", "disposing"}
           => open[w] = Resources
    /\ stage[w] = "closing" => open[w] = {"client"}
    /\ stage[w] = "off" /\ w \notin raised => open[w] = {}
    /\ faults = 0 => w \notin raised /\ pc[w] # "dead"

LifeInv ==
    /\ stage \in [Workers -> Stages]
    /\ open \in [Workers -> SUBSET Resources]
    /\ raised \subseteq Workers
    /\ botched \subseteq failures
    /\ \A w \in Workers : StageInv(w) /\ OpenInv(w)

HalvesInv == RP!IInv /\ CP!IInv /\ CP!FailedInv

IInv == LifeInv /\ HalvesInv
-----------------------------------------------------------------------------
(* A stream on which no event occurs more than 1 + k times is no longer    *)
(* than MaxEntries: entry i is determined by its event and by how many     *)
(* entries of that event there are up to i.                                *)
LEMMA StreamRoom ==
    ASSUME NEW s \in Seq(Events), NEW k \in 0..MaxFaults,
           \A e \in Events : Cardinality({i \in DOMAIN s : s[i] = e}) <= 1 + k
    PROVE  Len(s) \in 0..MaxEntries
  <1> DEFINE n == Len(s)
  <1> DEFINE N == 1 + MaxFaults
  <1> DEFINE Upto(i) == {j \in 1..i : s[j] = s[i]}
  <1> DEFINE f == [i \in 1..n |-> <<s[i], Cardinality(Upto(i))>>]
  <1>1. n \in Nat /\ DOMAIN s = 1..n /\ MaxFaults \in Nat /\ N \in Nat /\ k <= MaxFaults
    BY LimitsAssumption
  <1>2. \A e : IsFiniteSet({i \in DOMAIN s : s[i] = e})
    <2>1. IsFiniteSet(1..n)
      BY <1>1, FS_Interval
    <2> QED BY <1>1, <2>1, FS_Subset
  <1>3. ASSUME NEW i \in 1..n
        PROVE  /\ IsFiniteSet(Upto(i)) /\ i \in Upto(i)
               /\ Cardinality(Upto(i)) \in 1..N
    <2>1. Upto(i) \in SUBSET {j \in DOMAIN s : s[j] = s[i]} /\ i \in Upto(i)
      BY <1>1
    <2>2. /\ IsFiniteSet(Upto(i))
          /\ Cardinality(Upto(i)) <= Cardinality({j \in DOMAIN s : s[j] = s[i]})
      BY <1>2, <2>1, FS_Subset
    <2>3. s[i] \in Events /\ Cardinality({j \in DOMAIN s : s[j] = s[i]}) <= 1 + k
      BY <1>1
    <2>4. Cardinality(Upto(i)) \in Nat /\ Cardinality(Upto(i)) # 0
      BY <2>1, <2>2, FS_CardinalityType, FS_EmptySet
    <2>5. Cardinality({j \in DOMAIN s : s[j] = s[i]}) \in Nat
      BY <1>2, FS_CardinalityType
    <2> HIDE DEF Upto
    <2> QED BY <1>1, <2>1, <2>2, <2>3, <2>4, <2>5
  <1>4. ASSUME NEW i \in 1..n, NEW j \in 1..n, i < j, s[i] = s[j]
        PROVE  Cardinality(Upto(i)) # Cardinality(Upto(j))
    <2>1. Upto(i) \in SUBSET Upto(j) /\ j \notin Upto(i)
      BY <1>1, <1>4
    <2> HIDE DEF Upto
    <2>2. IsFiniteSet(Upto(j)) /\ j \in Upto(j)
      BY <1>3
    <2> QED BY <2>1, <2>2, FS_Subset
  <1>5. f \in [1..n -> Events \X (1..N)]
    <2>1. \A i \in 1..n : s[i] \in Events
      BY <1>1
    <2>2. \A i \in 1..n : Cardinality(Upto(i)) \in 1..N
      <3> HIDE DEF Upto, N, n
      <3> QED BY <1>3
    <2> HIDE DEF Upto, N, n
    <2> QED BY <2>1, <2>2
  <1>6. \A i, j \in 1..n : f[i] = f[j] => i = j
    <2> SUFFICES ASSUME NEW i \in 1..n, NEW j \in 1..n, f[i] = f[j], i # j PROVE FALSE
      OBVIOUS
    <2>1. s[i] = s[j] /\ Cardinality(Upto(i)) = Cardinality(Upto(j))
      OBVIOUS
    <2>2. i < j \/ j < i
      OBVIOUS
    <2> HIDE DEF Upto
    <2> QED BY <1>4, <2>1, <2>2
  <1> HIDE DEF f
  <1>7. f \in Injection(1..n, Events \X (1..N))
    BY <1>5, <1>6 DEF Injection, IsInjective
  <1>8. IsFiniteSet(1..N) /\ Cardinality(1..N) = N /\ Cardinality(1..n) = n
    <2>1. 1 \in Int /\ N \in Int /\ n \in Int /\ 1 <= N /\ 0 <= n
      BY <1>1
    <2> HIDE DEF N, n
    <2>2. IsFiniteSet(1..N) /\ Cardinality(1..N) = IF 1 > N THEN 0 ELSE N - 1 + 1
      BY <2>1, FS_Interval
    <2>3. Cardinality(1..n) = IF 1 > n THEN 0 ELSE n - 1 + 1
      BY <2>1, FS_Interval
    <2> QED BY <2>1, <2>2, <2>3
  <1>9. /\ IsFiniteSet(Events \X (1..N))
        /\ Cardinality(Events \X (1..N)) = Cardinality(Events) * N
    BY <1>8, FS_Product, EventsAssumption
  <1>10. n <= Cardinality(Events) * N
    BY <1>7, <1>8, <1>9, FS_Injection
  <1>11. Cardinality(Events) * N <= MaxEntries /\ Cardinality(Events) * N \in Nat
    BY <1>8, <1>9, RoomAssumption, FS_CardinalityType
  <1> HIDE DEF N, n
  <1> QED BY <1>1, <1>10, <1>11, LimitsAssumption DEF n
-----------------------------------------------------------------------------
(* What the relays leave on the stream always fits: the bound on the       *)
(* entries cuts nothing off.                                               *)
LEMMA Fits ==
    ASSUME RP!IInv'
    PROVE  Len(stream') \in 0..MaxEntries /\ faults' \in 0..MaxFaults
  <1>1. PICK s, k : s = stream' /\ k = faults'
    OBVIOUS
  <1>2. s \in Seq(Events) /\ k \in 0..MaxFaults
    BY <1>1 DEF RP!IInv, RP!TypeOK
  <1>3. ASSUME NEW e \in Events
        PROVE  Cardinality({i \in DOMAIN s : s[i] = e}) <= 1 + k
    <2>1. RP!Cardinality(RP!Occurrences(e)') <= k + (IF RP!Counted(e)' THEN 1 ELSE 0)
      BY <1>1 DEF RP!IInv, RP!CountInv
    <2>2. RP!Cardinality(RP!Occurrences(e)') = Cardinality({i \in DOMAIN s : s[i] = e})
      BY <1>1 DEF RP!Cardinality, Cardinality, RP!Occurrences
    <2>3. Cardinality({i \in DOMAIN s : s[i] = e}) \in Nat
      <3>1. DOMAIN s = 1..Len(s) /\ Len(s) \in Nat
        BY <1>2
      <3>2. IsFiniteSet(1..Len(s))
        BY <3>1, FS_Interval
      <3> QED BY <3>1, <3>2, FS_Subset, FS_CardinalityType
    <2> QED BY <1>2, <2>1, <2>2, <2>3, LimitsAssumption
  <1> QED BY <1>1, <1>2, <1>3, StreamRoom
-----------------------------------------------------------------------------
(* The steps of the relays.                                                *)
LEMMA CommitsStep ==
    ASSUME RP!IInv, NEW e \in Events, Relay!Insert(e) \/ Relay!Elapse(e)
    PROVE  RP!IInv' /\ UNCHANGED <<held, stream, faults>>
  <1>1. RP!Insert(e) \/ RP!Elapse(e)
    BY SameCommits
  <1>2. RP!IInv'
    BY <1>1, RP!InsertInv, RP!ElapseInv, RelayAssumed
  <1> QED BY <1>2 DEF Relay!Insert, Relay!Elapse

RelayMoves(w) ==
    \/ Relay!Advance(w)
    \/ \E e \in Events : Relay!ReplyLost(w, e)
    \/ Relay!Rollback(w)

LEMMA RelayKeeps ==
    ASSUME RP!IInv, NEW w \in Workers, RelayMoves(w)
    PROVE  RP!IInv'
  <1>1. ASSUME Relay!Select(w) PROVE RP!IInv'
    BY <1>1, SameSelect, RP!SelectInv, RelayAssumed
  <1>2. ASSUME NEW e \in Events, Relay!Attempt(w, e) PROVE RP!IInv'
    BY <1>2, SamePublish, RP!AttemptInv, RelayAssumed
  <1>3. ASSUME NEW e \in Events, Relay!Published(w, e) PROVE RP!IInv'
    BY <1>3, SamePublish, RP!PublishedInv, RelayAssumed
  <1>4. ASSUME NEW e \in Events, Relay!Refused(w, e) PROVE RP!IInv'
    BY <1>4, SamePublish, RP!RefusedInv, RelayAssumed
  <1>5. ASSUME NEW e \in Events, Relay!ReplyLost(w, e) PROVE RP!IInv'
    BY <1>5, SamePublish, RP!ReplyLostInv, RelayAssumed
  <1>6. ASSUME Relay!CommitBatch(w) PROVE RP!IInv'
    BY <1>6, SameRelease, RP!CommitBatchInv, RelayAssumed
  <1>7. ASSUME Relay!Rollback(w) PROVE RP!IInv'
    BY <1>7, SameRelease, RP!RollbackInv, RelayAssumed
  <1> QED BY <1>1, <1>2, <1>3, <1>4, <1>5, <1>6, <1>7 DEF RelayMoves, Relay!Advance

(* A relay only adds to the stream, and holds no rows for another.         *)
LEMMA RelayAdds ==
    ASSUME RP!IInv, NEW w \in Workers, RelayMoves(w)
    PROVE  /\ Len(stream) \in Nat /\ Len(stream) <= Len(stream')
           /\ faults \in Nat /\ faults <= faults'
           /\ \A v \in Workers \ {w} : held'[v] = held[v]
  <1>1. /\ stream \in Seq(Events) /\ faults \in 0..MaxFaults
        /\ held \in [Workers -> SUBSET Events]
    BY DEF RP!IInv, RP!TypeOK
  <1>2. stream' = stream \/ \E e \in Events : stream' = Append(stream, e)
    BY DEF RelayMoves, Relay!Advance, Relay!Select, Relay!Attempt, Relay!Published,
           Relay!Refused, Relay!ReplyLost, Relay!CommitBatch, Relay!Rollback
  <1>3. Len(stream) \in Nat /\ Len(stream) <= Len(stream')
    BY <1>1, <1>2
  <1>4. faults' = faults \/ faults' = faults + 1
    BY DEF RelayMoves, Relay!Advance, Relay!Select, Relay!Attempt, Relay!Published,
           Relay!Refused, Relay!ReplyLost, Relay!CommitBatch, Relay!Rollback
  <1>5. held' = held \/ \E rs : held' = [held EXCEPT ![w] = rs]
    BY DEF RelayMoves, Relay!Advance, Relay!Select, Relay!Attempt, Relay!Published,
           Relay!Refused, Relay!ReplyLost, Relay!CommitBatch, Relay!Rollback,
           Relay!Release, Relay!Outcome
  <1>6. faults \in Nat /\ faults <= faults'
    BY <1>1, <1>4, LimitsAssumption
  <1> QED BY <1>1, <1>3, <1>5, <1>6

(* A relay, or an elsewhere committed row, goes unnoticed by the loops.    *)
LEMMA LoopsKeep ==
    ASSUME HalvesInv, RP!IInv', UNCHANGED loop,
           Len(stream) <= Len(stream'), faults <= faults'
    PROVE  HalvesInv'
  <1>1. Len(stream') \in 0..MaxEntries /\ faults' \in 0..MaxFaults
    BY Fits
  <1>2. /\ Len(stream) \in Nat /\ faults \in Nat
    BY LimitsAssumption DEF HalvesInv, RP!IInv, RP!TypeOK
  <1>3. Len(stream') \in Len(stream)..MaxEntries /\ faults' \in faults..MaxFaults
    BY <1>1, <1>2, LimitsAssumption
  <1>4. UNCHANGED <<next, pending, times, pc, stopping, batch, CP!effects>>
    BY DEF loop, CP!effects
  <1>5. CP!IInv'
    BY <1>3, <1>4, CP!OutsideInv, ConsumerAssumed DEF HalvesInv
  <1>6. CP!FailedInv'
    BY <1>4, CP!OutsideFresh, ConsumerAssumed DEF HalvesInv, CP!effects
  <1> QED BY <1>5, <1>6 DEF HalvesInv
-----------------------------------------------------------------------------
(* The steps of the loops.                                                 *)
LoopGoesOn(w) == Consumer!Advance(w) \/ \E i : Consumer!HandleFails(w, i)

LoopEnds(w) == Consumer!RedisError(w) \/ Consumer!Crash(w)

LEMMA LoopKeeps ==
    ASSUME CP!IInv, CP!FailedInv, NEW w \in Workers,
           LoopGoesOn(w) \/ LoopEnds(w) \/ Consumer!Start(w) \/ Consumer!Stop(w)
    PROVE  CP!IInv' /\ CP!FailedInv'
  <1>1. ASSUME Consumer!Advance(w) PROVE CP!IInv' /\ CP!FailedInv'
    <2>1. CP!Advance(w)
      BY <1>1, SameAdvance
    <2>2. CP!Next
      BY <2>1 DEF CP!Next
    <2> QED BY <2>1, <2>2, CP!NextInv, CP!AdvanceFresh, ConsumerAssumed
  <1>2. ASSUME NEW i, Consumer!HandleFails(w, i) PROVE CP!IInv' /\ CP!FailedInv'
    <2>1. CP!HandleFails(w, i)
      BY <1>2, SameHandling
    <2> QED BY <2>1, CP!HandleFailsInv, CP!HandleFresh, ConsumerAssumed
  <1>3. ASSUME LoopEnds(w) PROVE CP!IInv' /\ CP!FailedInv'
    <2>1. \E phase \in {"down", "dead"} : CP!Lost(w, phase)
      BY <1>3, SameLost DEF LoopEnds
    <2> QED BY <2>1, CP!LostInv, CP!LostFresh, ConsumerAssumed
  <1>4. ASSUME Consumer!Start(w) PROVE CP!IInv' /\ CP!FailedInv'
    BY <1>4, SameRuns, CP!StartInv, CP!StartFresh, ConsumerAssumed
  <1>5. ASSUME Consumer!Stop(w) PROVE CP!IInv' /\ CP!FailedInv'
    <2>1. CP!Stop(w) /\ UNCHANGED <<pc, batch, handled, failures>>
      BY <1>5, SameRuns DEF Consumer!Stop, Consumer!effects
    <2> QED BY <2>1, CP!StopInv, CP!OutsideFresh, ConsumerAssumed
  <1> QED BY <1>1, <1>2, <1>3, <1>4, <1>5 DEF LoopGoesOn

(* A loop that goes on stays a loop, or has come to its end as it was      *)
(* told to; no other is affected.                                          *)
LEMMA LoopMoves ==
    ASSUME CP!IInv, NEW w \in Workers, LoopGoesOn(w)
    PROVE  /\ pc[w] \in Consumer!Running /\ pc'[w] \in Consumer!Running \cup {"stopped"}
           /\ \A v \in Workers \ {w} : pc'[v] = pc[v]
           /\ failures \subseteq failures' /\ faults' = faults
  <1>1. DOMAIN pc = Workers
    BY DEF CP!IInv, CP!TypeOK
  <1>2. /\ pc[w] \in Consumer!Running
        /\ \E phase \in Consumer!Running \cup {"stopped"} : Consumer!Goto(w, phase)
    BY DEF LoopGoesOn, Consumer!Advance, Consumer!Loop, Consumer!Read, Consumer!Skip,
           Consumer!HandleOK, Consumer!HandleFails, Consumer!Judge,
           Consumer!DeadLetter, Consumer!Ack, Consumer!Done, Consumer!Running
  <1>3. failures \subseteq failures' /\ faults' = faults
    BY DEF LoopGoesOn, Consumer!Advance, Consumer!Loop, Consumer!Read, Consumer!Skip,
           Consumer!HandleOK, Consumer!HandleFails, Consumer!Judge,
           Consumer!DeadLetter, Consumer!Ack, Consumer!effects
  <1> QED BY <1>1, <1>2, <1>3 DEF Consumer!Goto

LEMMA LoopStops ==
    ASSUME CP!IInv, NEW w \in Workers, LoopEnds(w)
    PROVE  /\ pc[w] \in Consumer!Running
           /\ Consumer!RedisError(w) => pc'[w] = "dead"
           /\ Consumer!Crash(w) => pc'[w] = "down"
           /\ \A v \in Workers \ {w} : pc'[v] = pc[v]
           /\ failures' = failures /\ faults < MaxFaults /\ faults' = faults + 1
           /\ faults \in Nat /\ faults' # 0
  <1>1. DOMAIN pc = Workers /\ faults \in Nat
    BY LimitsAssumption DEF CP!IInv, CP!TypeOK
  <1>2. failures' = failures /\ faults < MaxFaults /\ faults' = faults + 1
    BY DEF LoopEnds, Consumer!RedisError, Consumer!Crash, Consumer!Lost,
           Consumer!InFlight, Consumer!effects
  <1> QED BY <1>1, <1>2 DEF LoopEnds, Consumer!RedisError, Consumer!Crash,
                            Consumer!Lost, Consumer!Goto

(* What a loop does on its own leaves the relays alone.                    *)
LEMMA RelaysKeep ==
    ASSUME RP!IInv, UNCHANGED <<relay, stream>>, faults' \in {faults, faults + 1},
           faults' = faults \/ faults < MaxFaults
    PROVE  RP!IInv'
  <1>1. faults \in 0..MaxFaults
    BY DEF RP!IInv, RP!TypeOK
  <1>2. faults' \in 0..MaxFaults /\ faults <= faults'
    BY <1>1, LimitsAssumption
  <1> QED BY <1>2, RP!FaultInv, RelayAssumed DEF relay
-----------------------------------------------------------------------------
(* A worker's step leaves the others where they were.                      *)
LEMMA LifeStep ==
    ASSUME LifeInv, NEW w \in Workers,
           stage' \in [Workers -> Stages], open' \in [Workers -> SUBSET Resources],
           raised' \subseteq Workers, botched' \subseteq failures',
           \A v \in Workers \ {w} :
              /\ stage'[v] = stage[v] /\ open'[v] = open[v] /\ (v \in raised' <=> v \in raised)
              /\ held'[v] = held[v] /\ pc'[v] = pc[v],
           faults' = 0 => faults = 0,
           StageInv(w)', OpenInv(w)'
    PROVE  LifeInv'
  <1>1. ASSUME NEW v \in Workers, v # w PROVE StageInv(v)' /\ OpenInv(v)'
    BY <1>1 DEF LifeInv, StageInv, OpenInv
  <1> QED BY <1>1 DEF LifeInv

(* The stages are apart, and so are the phases of the loop.                *)
LEMMA Apart ==
    /\ Consumer!Running \cap {"stopped", "down", "dead"} = {}
    /\ {"off", "starting", "up", "draining", "stopping", "disposing", "closing"} = Stages
    /\ {"engine", "client"} = Resources
  BY DEF Consumer!Running, Stages, Resources

LEMMA RegisterInv ==
    ASSUME IInv, NEW e \in Events, Register(e) \/ Elapse(e)
    PROVE  IInv'
  <1>1. /\ RP!IInv' /\ UNCHANGED <<held, stream, faults>>
        /\ UNCHANGED <<life, botched, loop>>
    BY CommitsStep DEF Register, Elapse, IInv, HalvesInv
  <1>2. Len(stream) <= Len(stream') /\ faults <= faults'
    <2>1. Len(stream) \in Nat /\ faults \in Nat
      BY LimitsAssumption DEF IInv, HalvesInv, RP!IInv, RP!TypeOK
    <2> QED BY <1>1, <2>1
  <1>3. HalvesInv'
    BY <1>1, <1>2, LoopsKeep DEF IInv
  <1>4. LifeInv'
    BY <1>1 DEF IInv, LifeInv, StageInv, OpenInv, life, loop
  <1> QED BY <1>3, <1>4 DEF IInv

(* A worker that relays is up, and stays so.                               *)
LEMMA TickInv ==
    ASSUME IInv, NEW w \in Workers, Tick(w) \/ LoseReply(w) \/ TickFails(w)
    PROVE  IInv'
  <1>1. stage[w] = "up" /\ UNCHANGED <<life, botched, loop>> /\ RelayMoves(w)
    BY DEF Tick, LoseReply, TickFails, RelayMoves
  <1>2. /\ RP!IInv' /\ Len(stream) <= Len(stream')
        /\ faults \in Nat /\ faults <= faults'
        /\ \A v \in Workers \ {w} : held'[v] = held[v]
    BY <1>1, RelayKeeps, RelayAdds DEF IInv, HalvesInv
  <1>3. HalvesInv'
    BY <1>1, <1>2, LoopsKeep DEF IInv
  <1>4. /\ LifeInv /\ StageInv(w) /\ OpenInv(w)
        /\ faults' = 0 => faults = 0
    BY <1>2, <1>3, LimitsAssumption DEF IInv, LifeInv, HalvesInv, RP!IInv, RP!TypeOK
  <1>5. StageInv(w)' /\ OpenInv(w)'
    BY <1>1, <1>4, <1>2 DEF StageInv, OpenInv, life, loop
  <1>6. LifeInv'
    BY <1>1, <1>2, <1>4, <1>5, LifeStep DEF life, loop, LifeInv
  <1> QED BY <1>3, <1>6 DEF IInv

(* The loop goes on whatever the stage.                                    *)
LEMMA ConsumeInv ==
    ASSUME IInv, NEW w \in Workers, Consume(w) \/ MailAndRaise(w)
    PROVE  IInv'
  <1>1. /\ UNCHANGED <<life, relay, stream>> /\ LoopGoesOn(w)
        /\ botched' = botched \/ \E i : botched' = botched \cup {i} /\ i \in failures'
    BY DEF Consume, MailAndRaise, LoopGoesOn, Consumer!HandleFails
  <1>2. /\ pc[w] \in Consumer!Running /\ pc'[w] \in Consumer!Running \cup {"stopped"}
        /\ \A v \in Workers \ {w} : pc'[v] = pc[v]
        /\ failures \subseteq failures' /\ faults' = faults
    BY <1>1, LoopMoves DEF IInv, HalvesInv
  <1>3. HalvesInv'
    BY <1>1, <1>2, LoopKeeps, RelaysKeep DEF IInv, HalvesInv
  <1>4. LifeInv /\ StageInv(w) /\ OpenInv(w) /\ botched' \subseteq failures'
    BY <1>1, <1>2 DEF IInv, LifeInv
  <1>5. StageInv(w)' /\ OpenInv(w)'
    BY <1>1, <1>2, <1>4, Apart DEF StageInv, OpenInv, life, relay
  <1>6. LifeInv'
    BY <1>1, <1>2, <1>4, <1>5, LifeStep DEF life, relay, LifeInv
  <1> QED BY <1>3, <1>6 DEF IInv

LEMMA LoopDiesInv ==
    ASSUME IInv, NEW w \in Workers, LoopDies(w)
    PROVE  IInv'
  <1>1. UNCHANGED <<life, botched, relay, stream>> /\ Consumer!RedisError(w) /\ LoopEnds(w)
    BY DEF LoopDies, LoopEnds
  <1>2. /\ pc[w] \in Consumer!Running /\ pc'[w] = "dead"
        /\ \A v \in Workers \ {w} : pc'[v] = pc[v]
        /\ failures' = failures /\ faults < MaxFaults /\ faults' = faults + 1 /\ faults' # 0
    BY <1>1, LoopStops DEF IInv, HalvesInv
  <1>3. HalvesInv'
    BY <1>1, <1>2, LoopKeeps, RelaysKeep DEF IInv, HalvesInv
  <1>4. LifeInv /\ StageInv(w) /\ OpenInv(w)
    BY DEF IInv, LifeInv
  <1>5. StageInv(w)' /\ OpenInv(w)'
    BY <1>1, <1>2, <1>4, Apart DEF StageInv, OpenInv, life, relay
  <1>6. LifeInv'
    BY <1>1, <1>2, <1>4, <1>5, LifeStep DEF life, relay, LifeInv
  <1> QED BY <1>3, <1>6 DEF IInv

(* The steps in which neither half takes part, a fault or none.            *)
LEMMA HalvesIdle ==
    ASSUME HalvesInv, UNCHANGED <<relay, stream, loop>>, faults' = faults \/ Fault
    PROVE  HalvesInv' /\ (faults' = 0 => faults = 0) /\ (Fault => faults' # 0)
  <1>1. faults \in Nat /\ Len(stream) \in Nat
    BY LimitsAssumption DEF HalvesInv, RP!IInv, RP!TypeOK
  <1>2. RP!IInv'
    BY RelaysKeep DEF HalvesInv, Fault
  <1>3. Len(stream) <= Len(stream') /\ faults <= faults'
    BY <1>1 DEF Fault
  <1> QED BY <1>1, <1>2, <1>3, LoopsKeep DEF Fault

LEMMA StartInv ==
    ASSUME IInv, NEW w \in Workers, Start(w)
    PROVE  IInv'
  <1>1. /\ LifeInv /\ StageInv(w) /\ OpenInv(w) /\ stage[w] = "off"
        /\ stage' = [stage EXCEPT ![w] = "starting"]
        /\ open' = [open EXCEPT ![w] = Resources] /\ raised' = raised \ {w}
        /\ UNCHANGED <<botched, relay, stream, loop, faults>>
    BY DEF Start, Enter, IInv, LifeInv
  <1>2. HalvesInv' /\ (faults' = 0 => faults = 0)
    BY <1>1, HalvesIdle DEF IInv
  <1>3. /\ stage'[w] = "starting" /\ open'[w] = Resources /\ w \notin raised'
        /\ UNCHANGED <<held, pc, botched, failures>>
        /\ stage' \in [Workers -> Stages] /\ open' \in [Workers -> SUBSET Resources]
        /\ \A v \in Workers \ {w} : stage'[v] = stage[v] /\ open'[v] = open[v]
    BY <1>1, Apart DEF LifeInv, relay, loop
  <1>4. StageInv(w)' /\ OpenInv(w)'
    BY <1>1, <1>2, <1>3, Apart DEF StageInv, OpenInv
  <1>5. LifeInv'
    BY <1>1, <1>2, <1>3, <1>4, LifeStep DEF LifeInv
  <1> QED BY <1>2, <1>5 DEF IInv

LEMMA StartConsumerInv ==
    ASSUME IInv, NEW w \in Workers, StartConsumer(w)
    PROVE  IInv'
  <1>1. /\ LifeInv /\ StageInv(w) /\ OpenInv(w) /\ stage[w] = "starting"
        /\ stage' = [stage EXCEPT ![w] = "up"]
        /\ pc' = [pc EXCEPT ![w] = "loop"]
        /\ Consumer!Start(w)
        /\ UNCHANGED <<open, raised, botched, relay, stream, faults, failures>>
    BY DEF StartConsumer, Enter, Consumer!Start, Consumer!Goto, Consumer!effects,
           IInv, LifeInv
  <1>2. HalvesInv'
    BY <1>1, LoopKeeps, RelaysKeep DEF IInv, HalvesInv
  <1>3. /\ stage'[w] = "up" /\ pc'[w] = "loop" /\ UNCHANGED held
        /\ stage' \in [Workers -> Stages]
        /\ \A v \in Workers \ {w} : stage'[v] = stage[v] /\ pc'[v] = pc[v]
    BY <1>1, Apart DEF LifeInv, relay, IInv, HalvesInv, CP!IInv, CP!TypeOK
  <1>4. StageInv(w)' /\ OpenInv(w)'
    BY <1>1, <1>3 DEF StageInv, OpenInv
  <1>5. LifeInv'
    BY <1>1, <1>3, <1>4, LifeStep DEF LifeInv
  <1> QED BY <1>2, <1>5 DEF IInv

LEMMA StartFailsInv ==
    ASSUME IInv, NEW w \in Workers, StartFails(w)
    PROVE  IInv'
  <1>1. /\ LifeInv /\ StageInv(w) /\ OpenInv(w) /\ stage[w] = "starting"
        /\ stage' = [stage EXCEPT ![w] = "off"] /\ raised' = raised \cup {w} /\ Fault
        /\ UNCHANGED <<open, botched, relay, stream, loop>>
    BY DEF StartFails, Enter, IInv, LifeInv
  <1>2. HalvesInv' /\ faults' # 0
    BY <1>1, HalvesIdle DEF IInv
  <1>3. /\ stage'[w] = "off" /\ w \in raised' /\ UNCHANGED <<held, pc, failures>>
        /\ stage' \in [Workers -> Stages]
        /\ \A v \in Workers \ {w} : stage'[v] = stage[v]
    BY <1>1, Apart DEF LifeInv, relay, loop
  <1>4. StageInv(w)' /\ OpenInv(w)'
    BY <1>1, <1>2, <1>3 DEF StageInv, OpenInv
  <1>5. LifeInv'
    BY <1>1, <1>2, <1>3, <1>4, LifeStep DEF LifeInv
  <1> QED BY <1>2, <1>5 DEF IInv

(* SIGTERM leaves a worker no tick.                                        *)
LEMMA TerminateInv ==
    ASSUME IInv, NEW w \in Workers, Terminate(w)
    PROVE  IInv'
  <1>1. /\ LifeInv /\ StageInv(w) /\ OpenInv(w) /\ stage[w] = "up"
        /\ stage' = [stage EXCEPT ![w] = "draining"]
        /\ UNCHANGED <<open, raised, botched, loop>>
    BY DEF Terminate, Enter, IInv, LifeInv
  <1>2. /\ HalvesInv' /\ (faults' = 0 => faults = 0) /\ held'[w] = {}
        /\ \A v \in Workers \ {w} : held'[v] = held[v]
    <2>1. CASE held[w] = {}
      <3>1. UNCHANGED <<relay, stream, faults>>
        BY <2>1 DEF Terminate
      <3> QED BY <1>1, <2>1, <3>1, HalvesIdle DEF relay, IInv
    <2>2. CASE held[w] # {}
      <3>1. Relay!Rollback(w) /\ RelayMoves(w)
        BY <2>2 DEF Terminate, RelayMoves
      <3>2. /\ RP!IInv' /\ Len(stream) <= Len(stream')
            /\ faults \in Nat /\ faults <= faults'
            /\ \A v \in Workers \ {w} : held'[v] = held[v]
        BY <3>1, RelayKeeps, RelayAdds DEF IInv, HalvesInv
      <3>3. held'[w] = {}
        BY <3>1 DEF Relay!Rollback, Relay!Release, IInv, HalvesInv, RP!IInv, RP!TypeOK
      <3>4. faults' = 0 => faults = 0
        BY <3>2
      <3> QED BY <1>1, <3>2, <3>3, <3>4, LoopsKeep DEF IInv
    <2> QED BY <2>1, <2>2
  <1>3. /\ stage'[w] = "draining" /\ UNCHANGED <<pc, failures>>
        /\ stage' \in [Workers -> Stages]
        /\ \A v \in Workers \ {w} : stage'[v] = stage[v]
    BY <1>1, Apart DEF LifeInv, loop
  <1>4. StageInv(w)' /\ OpenInv(w)'
    BY <1>1, <1>2, <1>3 DEF StageInv, OpenInv
  <1>5. LifeInv'
    BY <1>1, <1>2, <1>3, <1>4, LifeStep DEF LifeInv
  <1> QED BY <1>2, <1>5 DEF IInv

LEMMA StopConsumerInv ==
    ASSUME IInv, NEW w \in Workers, StopConsumer(w)
    PROVE  IInv'
  <1>1. /\ LifeInv /\ StageInv(w) /\ OpenInv(w) /\ stage[w] = "draining"
        /\ stage' = [stage EXCEPT ![w] = "stopping"]
        /\ Consumer!Stop(w)
        /\ UNCHANGED <<open, raised, botched, relay, stream, faults, failures, pc>>
    BY DEF StopConsumer, Enter, Consumer!Stop, Consumer!effects, IInv, LifeInv
  <1>2. HalvesInv'
    BY <1>1, LoopKeeps, RelaysKeep DEF IInv, HalvesInv
  <1>3. /\ stage'[w] = "stopping" /\ UNCHANGED held
        /\ stage' \in [Workers -> Stages]
        /\ \A v \in Workers \ {w} : stage'[v] = stage[v]
    BY <1>1, Apart DEF LifeInv, relay
  <1>4. StageInv(w)' /\ OpenInv(w)'
    BY <1>1, <1>3 DEF StageInv, OpenInv
  <1>5. LifeInv'
    BY <1>1, <1>3, <1>4, LifeStep DEF LifeInv
  <1> QED BY <1>2, <1>5 DEF IInv

(* The shutdown goes on when the loop has returned, and fails when it died.*)
LEMMA LoopEndedInv ==
    ASSUME IInv, NEW w \in Workers, LoopReturned(w) \/ LoopRaised(w)
    PROVE  IInv'
  <1>1. /\ LifeInv /\ StageInv(w) /\ OpenInv(w)
        /\ UNCHANGED <<open, botched, relay, stream, loop, faults>>
    BY DEF LoopReturned, LoopRaised, IInv, LifeInv
  <1>2. HalvesInv'
    BY <1>1, HalvesIdle DEF IInv
  <1>3. UNCHANGED <<held, pc, failures>>
    BY <1>1 DEF relay, loop
  <1>4. CASE LoopReturned(w)
    <2>1. /\ stage[w] = "stopping" /\ pc[w] = "stopped" /\ raised' = raised
          /\ stage' = [stage EXCEPT ![w] = "disposing"]
      BY <1>4 DEF LoopReturned, Enter
    <2>2. /\ stage'[w] = "disposing" /\ stage' \in [Workers -> Stages]
          /\ \A v \in Workers \ {w} : stage'[v] = stage[v]
      BY <1>1, <2>1, Apart DEF LifeInv
    <2>3. StageInv(w)' /\ OpenInv(w)'
      BY <1>1, <1>3, <2>1, <2>2, Apart DEF StageInv, OpenInv
    <2>4. LifeInv'
      BY <1>1, <1>3, <2>1, <2>2, <2>3, LifeStep DEF LifeInv
    <2> QED BY <1>2, <2>4 DEF IInv
  <1>5. CASE LoopRaised(w)
    <2>1. /\ stage[w] \in {"draining", "stopping"} /\ pc[w] = "dead"
          /\ raised' = raised \cup {w} /\ stage' = [stage EXCEPT ![w] = "off"]
      BY <1>5 DEF LoopRaised, Enter
    <2>2. /\ stage'[w] = "off" /\ stage' \in [Workers -> Stages]
          /\ \A v \in Workers \ {w} : stage'[v] = stage[v]
      BY <1>1, <2>1, Apart DEF LifeInv
    <2>3. StageInv(w)' /\ OpenInv(w)'
      BY <1>1, <1>3, <2>1, <2>2, Apart DEF StageInv, OpenInv
    <2>4. LifeInv'
      BY <1>1, <1>3, <2>1, <2>2, <2>3, LifeStep DEF LifeInv
    <2> QED BY <1>2, <2>4 DEF IInv
  <1> QED BY <1>4, <1>5

LEMMA CloseInv ==
    ASSUME IInv, NEW w \in Workers, DisposeEngine(w) \/ CloseClient(w)
    PROVE  IInv'
  <1>1. /\ LifeInv /\ StageInv(w) /\ OpenInv(w)
        /\ UNCHANGED <<raised, botched, relay, stream, loop, faults>>
    BY DEF DisposeEngine, CloseClient, Close, IInv, LifeInv
  <1>2. HalvesInv'
    BY <1>1, HalvesIdle DEF IInv
  <1>3. UNCHANGED <<held, pc, failures>>
    BY <1>1 DEF relay, loop
  <1>4. \/ /\ stage[w] = "disposing" /\ open[w] = Resources
           /\ stage'[w] = "closing" /\ open'[w] = {"client"}
        \/ /\ stage[w] = "closing" /\ stage'[w] = "off" /\ open'[w] = {}
    BY <1>1 DEF DisposeEngine, CloseClient, Close, Enter, OpenInv, LifeInv, Resources
  <1>5. /\ stage' \in [Workers -> Stages] /\ open' \in [Workers -> SUBSET Resources]
        /\ \A v \in Workers \ {w} : stage'[v] = stage[v] /\ open'[v] = open[v]
    BY <1>1, Apart DEF DisposeEngine, CloseClient, Close, Enter, LifeInv
  <1>6. StageInv(w)' /\ OpenInv(w)'
    BY <1>1, <1>3, <1>4, Apart DEF StageInv, OpenInv
  <1>7. LifeInv'
    BY <1>1, <1>3, <1>5, <1>6, LifeStep DEF LifeInv
  <1> QED BY <1>2, <1>7 DEF IInv

(* A process that dies loses its tick and its loop at once, whichever of   *)
(* the two it had.                                                         *)
LEMMA CrashInv ==
    ASSUME IInv, NEW w \in Workers, Crash(w)
    PROVE  IInv'
  <1>1. /\ LifeInv /\ StageInv(w) /\ OpenInv(w) /\ RP!IInv /\ CP!IInv /\ CP!FailedInv
        /\ stage' = [stage EXCEPT ![w] = "off"]
        /\ open' = [open EXCEPT ![w] = {}]
        /\ UNCHANGED <<raised, botched, rows, calm, stream>>
        /\ Relay!Release(w)
    BY DEF Crash, Enter, IInv, HalvesInv, LifeInv
  <1>2. /\ faults \in Nat /\ faults < MaxFaults /\ faults' = faults + 1 /\ faults' # 0
        /\ failures' = failures /\ pc'[w] \notin Consumer!Running
        /\ \A v \in Workers \ {w} : pc'[v] = pc[v]
    <2>1. faults \in Nat
      BY <1>1, LimitsAssumption DEF RP!IInv, RP!TypeOK
    <2>2. CASE pc[w] \in Consumer!Running
      BY <1>1, <2>1, <2>2, LoopStops, Apart DEF Crash, LoopEnds
    <2>3. CASE pc[w] \notin Consumer!Running
      BY <2>1, <2>3 DEF Crash, Fault, loop
    <2> QED BY <2>2, <2>3
  <1>3. RP!IInv'
    BY <1>1, <1>2, SameRelease, RP!LetGoInv, RelayAssumed
  <1>4. HalvesInv'
    <2>1. CASE pc[w] \in Consumer!Running
      <3>1. LoopEnds(w)
        BY <2>1 DEF Crash, LoopEnds
      <3> QED BY <1>1, <1>3, <3>1, LoopKeeps DEF HalvesInv
    <2>2. CASE pc[w] \notin Consumer!Running
      <3>1. UNCHANGED loop
        BY <2>2 DEF Crash
      <3>2. Len(stream) <= Len(stream') /\ faults <= faults'
        BY <1>1, <1>2 DEF RP!IInv, RP!TypeOK
      <3> QED BY <1>1, <1>3, <3>1, <3>2, LoopsKeep DEF HalvesInv
    <2> QED BY <2>1, <2>2
  <1>5. /\ stage'[w] = "off" /\ open'[w] = {} /\ held'[w] = {}
        /\ stage' \in [Workers -> Stages] /\ open' \in [Workers -> SUBSET Resources]
        /\ \A v \in Workers \ {w} :
              stage'[v] = stage[v] /\ open'[v] = open[v] /\ held'[v] = held[v]
    BY <1>1, Apart DEF LifeInv, Relay!Release, RP!IInv, RP!TypeOK
  <1>6. StageInv(w)' /\ OpenInv(w)'
    BY <1>1, <1>2, <1>5, Apart DEF StageInv, OpenInv
  <1>7. LifeInv'
    BY <1>1, <1>2, <1>5, <1>6, LifeStep DEF LifeInv
  <1> QED BY <1>4, <1>7 DEF IInv

LEMMA InitInv == Init => IInv
  <1> SUFFICES ASSUME Init PROVE IInv
    OBVIOUS
  <1>1. RP!IInv
    BY SameRelay, RP!InitInv, RelayAssumed DEF Init
  <1>2. CP!IInv
    BY SameConsumer, CP!InitInv, ConsumerAssumed DEF Init
  <1>3. CP!FailedInv
    BY DEF Init, Consumer!Init, CP!FailedInv, CP!FreshInv
  <1>4. LifeInv
    BY Apart DEF Init, Relay!Init, Consumer!Init, LifeInv, StageInv, OpenInv
  <1> QED BY <1>1, <1>2, <1>3, <1>4 DEF IInv, HalvesInv

LEMMA NextInv == IInv /\ [Next]_vars => IInv'
  <1> SUFFICES ASSUME IInv, [Next]_vars PROVE IInv'
    OBVIOUS
  <1>1. CASE \E e \in Events : Register(e) \/ Elapse(e)
    BY <1>1, RegisterInv
  <1>2. ASSUME NEW w \in Workers,
               \/ Start(w) \/ StartConsumer(w) \/ StartFails(w)
               \/ Tick(w) \/ LoseReply(w) \/ TickFails(w)
        PROVE  IInv'
    BY <1>2, StartInv, StartConsumerInv, StartFailsInv, TickInv
  <1>3. ASSUME NEW w \in Workers, Consume(w) \/ MailAndRaise(w) \/ LoopDies(w)
        PROVE  IInv'
    BY <1>3, ConsumeInv, LoopDiesInv
  <1>4. ASSUME NEW w \in Workers, Terminate(w) \/ Shutdown(w) \/ Crash(w)
        PROVE  IInv'
    BY <1>4, TerminateInv, StopConsumerInv, LoopEndedInv, CloseInv, CrashInv DEF Shutdown
  <1>5. CASE UNCHANGED vars
    <2>1. UNCHANGED <<life, botched, relay, stream, loop, faults>>
      BY <1>5 DEF vars
    <2>2. HalvesInv'
      BY <2>1, HalvesIdle DEF IInv
    <2>3. LifeInv'
      BY <2>1 DEF IInv, LifeInv, StageInv, OpenInv, life, relay, loop
    <2> QED BY <2>2, <2>3 DEF IInv
  <1> QED BY <1>1, <1>2, <1>3, <1>4, <1>5 DEF Next

THEOREM Inductive == Spec => []IInv
  <1> QED BY InitInv, NextInv, PTL DEF Spec
-----------------------------------------------------------------------------
(* The domains of the variables; only a worker that is up has a tick, and  *)
(* the loop runs from the end of the startup to the shutdown.  The relays  *)
(* never overrun the stream.                                               *)
THEOREM TypeCorrect == Spec => []TypeOK
  <1>1. IInv => TypeOK
    <2> SUFFICES ASSUME IInv PROVE TypeOK
      OBVIOUS
    <2>1. Relay!TypeOK
      BY SameRelay DEF IInv, HalvesInv, RP!IInv
    <2>2. Consumer!TypeOK
      BY SameConsumer DEF IInv, HalvesInv, CP!IInv
    <2>3. Len(stream) <= MaxEntries
      BY LimitsAssumption DEF IInv, HalvesInv, CP!IInv, CP!TypeOK
    <2> QED BY <2>1, <2>2, <2>3 DEF IInv, LifeInv, StageInv, TypeOK
  <1> QED BY Inductive, <1>1, PTL

(* Nothing is closed while a tick or the loop uses it, a worker that ended *)
(* in order has closed everything, and none raises unless something failed.*)
THEOREM NothingClosedInUse == Spec => []ClosedInOrder
  <1>1. IInv => ClosedInOrder
    BY Apart DEF IInv, LifeInv, StageInv, OpenInv, ClosedInOrder
  <1> QED BY Inductive, <1>1, PTL

(* With a client that decodes what it reads, until something fails every   *)
(* published registration is on the stream, where it is still to be read,  *)
(* in the hands of a worker, mailed, or known to have failed.              *)
THEOREM NoneLostBetween ==
    ASSUME DecodeResponses
    PROVE  Spec => []PublishedIsOnItsWay
  <1>1. IInv => PublishedIsOnItsWay
    <2> SUFFICES ASSUME IInv, faults = 0, NEW e \in Relay!Delivered
                 PROVE  \E i \in Copies(e) :
                           \/ i > next \/ Mails(i) > 0 \/ i \in failures
                           \/ \E w \in Workers : i \in batch[w]
      BY DEF PublishedIsOnItsWay
    <2>1. e \in RP!Delivered /\ e \in Events
      BY SameRelay DEF RP!Delivered
    <2>2. RP!Sent(e)
      BY <2>1 DEF RP!Delivered, IInv, HalvesInv, RP!IInv, RP!RowsInv
    <2>3. PICK i : i \in Copies(e)
      BY <2>2 DEF RP!Sent, RP!Occurrences, Copies
    <2>4. i \in 1..Len(stream) /\ Len(stream) \in 0..MaxEntries /\ next \in 0..Len(stream)
      BY <2>3 DEF Copies, IInv, HalvesInv, RP!IInv, RP!TypeOK, CP!IInv, CP!TypeOK
    <2>5. ASSUME i <= next
          PROVE  \/ Mails(i) > 0 \/ i \in failures
                 \/ \E w \in Workers : i \in batch[w]
      <3>1. i \in CP!Delivered /\ i \in CP!Entries /\ i \in 1..MaxEntries
        BY <2>4, <2>5, LimitsAssumption DEF CP!Delivered, CP!Entries
      <3>2. CASE i \in pending
        BY <3>2 DEF IInv, HalvesInv, CP!IInv, CP!PendingAccountedFor
      <3>3. CASE i \notin pending
        <4>1. handled[i] > 0 \/ i \in deadLetters \/ ~CP!HandlerFound(i)
          BY <3>1, <3>3 DEF CP!Acked, IInv, HalvesInv, CP!IInv, CP!AckedInv
        <4>2. CP!HandlerFound(i)
          BY <3>1 DEF CP!HandlerFound
        <4>3. handled[i] \in Nat /\ (i \in deadLetters => i \in failures)
          BY <3>1 DEF IInv, HalvesInv, CP!IInv, CP!TypeOK
        <4> QED BY <4>1, <4>2, <4>3 DEF Mails
      <3> QED BY <3>2, <3>3
    <2>6. i > next \/ i <= next
      BY <2>4, LimitsAssumption
    <2> QED BY <2>3, <2>5, <2>6
  <1> QED BY Inductive, <1>1, PTL
-----------------------------------------------------------------------------
(* The sum over a set is the function that MapThenSumSet chooses, at that  *)
(* set.                                                                    *)
Some(s) == CHOOSE x \in s : TRUE

Sums(f, S) == f = [s \in SUBSET S |->
                      IF s = {} THEN 0 ELSE Mails(Some(s)) + f[s \ {Some(s)}]]

LEMMA SumIsFold ==
    ASSUME NEW S
    PROVE  MapThenSumSet(Mails, S) = (CHOOSE f : Sums(f, S))[S]
  BY Zenon DEF MapThenSumSet, MapThenFoldSet, Sums, Some

(* Entries that caused one mail each, or none, caused as many as there are *)
(* entries at most.  The number of those with one mail satisfies the       *)
(* equations of the sum, and a smallest subset on which the sum differed   *)
(* from it would not satisfy them.                                         *)
LEMMA SumOfOnes ==
    ASSUME NEW S, IsFiniteSet(S), \A i \in S : Mails(i) \in {0, 1}
    PROVE  /\ MapThenSumSet(Mails, S) \in Nat
           /\ MapThenSumSet(Mails, S) <= Cardinality(S)
  <1> DEFINE ones(s) == {i \in s : Mails(i) = 1}
  <1> DEFINE g == [s \in SUBSET S |-> Cardinality(ones(s))]
  <1>1. \A s \in SUBSET S : IsFiniteSet(s) /\ IsFiniteSet(ones(s)) /\ Cardinality(ones(s)) \in Nat
    <2> SUFFICES ASSUME NEW s \in SUBSET S
                 PROVE IsFiniteSet(s) /\ IsFiniteSet(ones(s)) /\ Cardinality(ones(s)) \in Nat
      OBVIOUS
    <2>1. IsFiniteSet(s)
      BY FS_Subset
    <2>2. ones(s) \in SUBSET s
      OBVIOUS
    <2>3. IsFiniteSet(ones(s))
      BY <2>1, <2>2, FS_Subset
    <2> QED BY <2>1, <2>3, FS_CardinalityType
  <1>2. ASSUME NEW s \in SUBSET S, s # {}
        PROVE  /\ Some(s) \in s /\ s \ {Some(s)} \in SUBSET S
               /\ g[s] = Mails(Some(s)) + g[s \ {Some(s)}]
    <2>1. PICK x : x = Some(s)
      OBVIOUS
    <2>2. x \in s
      BY <1>2, <2>1 DEF Some
    <2>3. s \ {x} \in SUBSET S /\ x \notin ones(s \ {x})
      OBVIOUS
    <2>4. CASE Mails(x) = 1
      <3>1. ones(s) = ones(s \ {x}) \cup {x}
        BY <2>2, <2>4
      <3> HIDE DEF ones
      <3>2. Cardinality(ones(s)) = Cardinality(ones(s \ {x})) + 1
        BY <1>1, <2>3, <3>1, FS_AddElement
      <3>3. g[s] = Cardinality(ones(s)) /\ g[s \ {x}] = Cardinality(ones(s \ {x}))
        BY <2>3
      <3> QED BY <1>1, <2>1, <2>2, <2>3, <2>4, <3>2, <3>3
    <2>5. CASE Mails(x) = 0
      <3>1. ones(s) = ones(s \ {x})
        BY <2>2, <2>5
      <3> HIDE DEF ones
      <3>3. g[s] = Cardinality(ones(s)) /\ g[s \ {x}] = Cardinality(ones(s \ {x}))
        BY <2>3
      <3> QED BY <1>1, <2>1, <2>2, <2>3, <2>5, <3>1, <3>3
    <2> QED BY <2>2, <2>4, <2>5
  <1>3. g[{}] = 0
    BY FS_EmptySet
  <1>4. \A s \in SUBSET S : g[s] = Cardinality(ones(s))
    OBVIOUS
  <1>5. g = [s \in SUBSET S |-> g[s]]
    OBVIOUS
  <1> HIDE DEF g
  <1>6. Sums(g, S)
    BY <1>2, <1>3, <1>5 DEF Sums
  <1> DEFINE f == CHOOSE h : Sums(h, S)
  <1>7. Sums(f, S)
    BY <1>6
  <1> HIDE DEF f
  <1>8. \A s \in SUBSET S : f[s] = IF s = {} THEN 0 ELSE Mails(Some(s)) + f[s \ {Some(s)}]
    BY <1>7 DEF Sums
  <1>9. \A s \in SUBSET S : f[s] = g[s]
    <2> SUFFICES ASSUME NEW t \in SUBSET S, f[t] # g[t] PROVE FALSE
      OBVIOUS
    <2> DEFINE T == {s \in SUBSET S : f[s] # g[s]}
    <2>1. T \subseteq FiniteSubsetsOf(S) /\ T # {}
      BY <1>1 DEF FiniteSubsetsOf
    <2>2. IsWellFoundedOn(StrictSubsetOrdering(S), FiniteSubsetsOf(S))
      BY FS_StrictSubsetOrderingWellFounded
    <2>3. PICK s \in T : \A r \in T : ~(<<r, s>> \in StrictSubsetOrdering(S))
      <3> HIDE DEF T
      <3> QED BY <2>1, <2>2, WFMin
    <2>4. s # {}
      BY <1>3, <1>8
    <2>5. Some(s) \in s /\ s \ {Some(s)} \in SUBSET S
      BY <1>2, <2>4
    <2>6. <<s \ {Some(s)}, s>> \in StrictSubsetOrdering(S)
      BY <2>5 DEF StrictSubsetOrdering
    <2>7. f[s \ {Some(s)}] = g[s \ {Some(s)}]
      BY <2>3, <2>5, <2>6
    <2> QED BY <1>2, <1>8, <2>4, <2>5, <2>7
  <1>10. MapThenSumSet(Mails, S) = f[S]
    BY SumIsFold DEF f
  <1>11. ones(S) \in SUBSET S
    OBVIOUS
  <1>12. Cardinality(ones(S)) <= Cardinality(S)
    <2> HIDE DEF ones
    <2> QED BY <1>11, FS_Subset
  <1>13. MapThenSumSet(Mails, S) = Cardinality(ones(S))
    BY <1>4, <1>9, <1>10
  <1> HIDE DEF ones
  <1> QED BY <1>1, <1>12, <1>13

(* A registration is mailed once, and once more for each fault at most,    *)
(* however often workers start, stop and share the group.                  *)
THEOREM OneMailEach == Spec => []MailsNeedFaults
  <1>1. IInv => MailsNeedFaults
    <2> SUFFICES ASSUME IInv, NEW e \in Events
                 PROVE  MapThenSumSet(Mails, Copies(e)) <= 1 + faults
      BY DEF MailsNeedFaults
    <2>1. /\ stream \in Seq(Events) /\ faults \in 0..MaxFaults
          /\ Len(stream) \in 0..MaxEntries
      BY DEF IInv, HalvesInv, RP!IInv, RP!TypeOK, CP!IInv, CP!TypeOK
    <2>2. Copies(e) \in SUBSET (1..Len(stream)) /\ IsFiniteSet(1..Len(stream))
      <3>1. DOMAIN stream = 1..Len(stream) /\ Len(stream) \in Nat
        BY <2>1
      <3> QED BY <3>1, FS_Interval DEF Copies
    <2>3. IsFiniteSet(Copies(e)) /\ Cardinality(Copies(e)) \in Nat
      BY <2>2, FS_Subset, FS_CardinalityType
    <2>4. Cardinality(Copies(e)) <= 1 + faults
      <3>1. RP!Cardinality(RP!Occurrences(e)) <= faults + (IF RP!Counted(e) THEN 1 ELSE 0)
        BY DEF IInv, HalvesInv, RP!IInv, RP!CountInv
      <3>2. RP!Cardinality(RP!Occurrences(e)) = Cardinality(Copies(e))
        BY DEF RP!Cardinality, Cardinality, RP!Occurrences, Copies
      <3> QED BY <2>1, <2>3, <3>1, <3>2, LimitsAssumption
    <2>5. ASSUME NEW i \in Copies(e) PROVE Mails(i) \in {0, 1}
      <3>1. i \in CP!Entries
        BY <2>1, <2>2, LimitsAssumption DEF CP!Entries
      <3>2. handled[i] \in Nat /\ handled[i] <= 1
        BY <3>1 DEF IInv, HalvesInv, CP!IInv, CP!TypeOK, CP!HandledAtMostOnce
      <3>3. i \in botched => handled[i] = 0
        BY DEF IInv, LifeInv, HalvesInv, CP!FailedInv
      <3> QED BY <3>2, <3>3 DEF Mails
    <2>6. /\ MapThenSumSet(Mails, Copies(e)) \in Nat
          /\ MapThenSumSet(Mails, Copies(e)) <= Cardinality(Copies(e))
      BY <2>3, <2>5, SumOfOnes
    <2> QED BY <2>1, <2>3, <2>4, <2>6, LimitsAssumption
  <1> QED BY Inductive, <1>1, PTL
-----------------------------------------------------------------------------
(* The steps of the workers as steps of at-least-once delivery.            *)
LEMMA SameOutbox ==
    /\ RP!Outbox!Init => Relay!Outbox!Init
    /\ RP!Outbox!Next => Relay!Outbox!Next
    /\ UNCHANGED RP!Outbox!vars => UNCHANGED Relay!Outbox!vars
  BY DEF Relay!Outbox!Init, RP!Outbox!Init, Relay!Outbox!Next, RP!Outbox!Next,
         Relay!Outbox!Accept, RP!Outbox!Accept, Relay!Outbox!Send, RP!Outbox!Send,
         Relay!Outbox!Settle, RP!Outbox!Settle, Relay!Outbox!Sent, RP!Outbox!Sent,
         Relay!Outbox!vars, RP!Outbox!vars, Relay!Delivered, RP!Delivered,
         Relay!Exhausted, RP!Exhausted

LEMMA RelayImplements ==
    ASSUME RP!IInv, NEW w \in Workers, RelayMoves(w)
    PROVE  RP!Outbox!Next \/ UNCHANGED RP!Outbox!vars
  <1>1. ASSUME NEW e \in Events, Relay!Published(w, e) \/ Relay!ReplyLost(w, e)
        PROVE  RP!Outbox!Next
    <2>1. /\ stream' = Append(stream, e)
          /\ RP!Outcome(w, e, "published") \/ RP!Outcome(w, e, "failed")
      BY <1>1, SamePublish DEF RP!Published, RP!ReplyLost
    <2>2. RP!Outbox!Send(e)
      BY <2>1, RP!SendRefines, RelayAssumed
    <2> QED BY <2>2 DEF RP!Outbox!Next
  <1>2. ASSUME Relay!CommitBatch(w) PROVE RP!Outbox!Next
    <2>1. \E D, A \in SUBSET Events : RP!Outbox!Settle(D, A)
      BY <1>2, SameRelease, RP!SettleRefines, RelayAssumed
    <2> QED BY <2>1 DEF RP!Outbox!Next
  <1>3. ASSUME \/ Relay!Select(w) \/ Relay!Rollback(w)
               \/ \E e \in Events : Relay!Attempt(w, e) \/ Relay!Refused(w, e)
        PROVE  UNCHANGED RP!Outbox!vars
    <2>1. rows' = rows /\ stream' = stream
      BY <1>3 DEF Relay!Select, Relay!Rollback, Relay!Attempt, Relay!Refused,
                  Relay!Outcome
    <2> QED BY <2>1, RP!Unseen, RelayAssumed
  <1> QED BY <1>1, <1>2, <1>3 DEF RelayMoves, Relay!Advance

LEMMA NextImplements ==
    ASSUME IInv, [Next]_vars PROVE [Relay!Outbox!Next]_(Relay!Outbox!vars)
  <1>1. RP!IInv
    BY DEF IInv, HalvesInv
  <1>2. ASSUME NEW e \in Events, Register(e) PROVE RP!Outbox!Next
    <2>1. RP!Insert(e)
      BY <1>2, SameCommits DEF Register
    <2>2. RP!Outbox!Accept(e)
      BY <1>1, <2>1, RP!InsertRefines, RelayAssumed
    <2> QED BY <2>2 DEF RP!Outbox!Next
  <1>3. ASSUME NEW e \in Events, Elapse(e) PROVE UNCHANGED RP!Outbox!vars
    <2>1. RP!Elapse(e) /\ stream' = stream
      BY <1>3, SameCommits DEF Elapse, Relay!Elapse
    <2> QED BY <1>1, <2>1, RP!Unseen, RelayAssumed
  <1>4. ASSUME NEW w \in Workers, Tick(w) \/ LoseReply(w) \/ TickFails(w) \/ Terminate(w)
        PROVE  RP!Outbox!Next \/ UNCHANGED RP!Outbox!vars
    <2>1. RelayMoves(w) \/ (rows' = rows /\ stream' = stream)
      BY <1>4 DEF Tick, LoseReply, TickFails, Terminate, RelayMoves, relay
    <2> QED BY <1>1, <2>1, RelayImplements, RP!Unseen, RelayAssumed
  <1>5. ASSUME NEW w \in Workers,
               \/ Start(w) \/ StartConsumer(w) \/ StartFails(w)
               \/ Consume(w) \/ MailAndRaise(w) \/ LoopDies(w)
               \/ Shutdown(w) \/ Crash(w)
        PROVE  UNCHANGED RP!Outbox!vars
    <2>1. rows' = rows /\ stream' = stream
      BY <1>5 DEF Start, StartConsumer, StartFails, Consume, MailAndRaise, LoopDies,
                  Shutdown, StopConsumer, LoopReturned, LoopRaised, DisposeEngine,
                  CloseClient, Close, Crash, relay
    <2> QED BY <1>1, <2>1, RP!Unseen, RelayAssumed
  <1>6. CASE UNCHANGED vars
    <2>1. rows' = rows /\ stream' = stream
      BY <1>6 DEF vars, relay
    <2> QED BY <1>1, <2>1, RP!Unseen, SameOutbox, RelayAssumed
  <1>7. CASE Next
    <2>1. RP!Outbox!Next \/ UNCHANGED RP!Outbox!vars
      BY <1>2, <1>3, <1>4, <1>5, <1>7 DEF Next
    <2> QED BY <2>1, SameOutbox
  <1> QED BY <1>6, <1>7

(* Through every startup, crash, SIGTERM and dead loop, the workers        *)
(* together implement at-least-once delivery: no event reaches the broker  *)
(* before its change committed, or counts as delivered without having been *)
(* sent, or is sent after that.                                            *)
THEOREM WorkersDeliverAtLeastOnce == Spec => Relay!ImplementsAtLeastOnce
  <1>1. Init => Relay!Outbox!Init
    <2> SUFFICES ASSUME Init PROVE Relay!Outbox!Init
      OBVIOUS
    <2>1. RP!Outbox!Init
      BY SameRelay, RP!InitRefines, RelayAssumed DEF Init
    <2> QED BY <2>1, SameOutbox
  <1> QED BY Inductive, <1>1, NextImplements, PTL
          DEF Spec, Relay!ImplementsAtLeastOnce, Relay!Outbox!Spec
=============================================================================
