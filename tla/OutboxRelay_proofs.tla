------------------------ MODULE OutboxRelay_proofs -------------------------
(***************************************************************************)
(* Proofs about OutboxRelay, for any outbox, relays, batch size, limit of  *)
(* attempts and number of faults.                                          *)
(***************************************************************************)
EXTENDS OutboxRelay, FiniteSetTheorems, TLAPS

Sent(e) == Occurrences(e) # {}

(* A committed row is never left processing; a published one is final and  *)
(* on the stream, where nothing is that was not committed.                 *)
RowsInv ==
    /\ \A e \in Events : rows[e] # NoRow =>
          /\ rows[e].status # "processing"
          /\ rows[e].status = "published" => rows[e].due /\ Sent(e)
    /\ \A i \in DOMAIN stream : rows[stream[i]] # NoRow

(* What a relay has locked is due for delivery, and locked by nobody else. *)
HeldInv ==
    /\ \A w \in Relays : held[w] \subseteq Selectable
    /\ \A v, w \in Relays : v # w => held[v] \cap held[w] = {}

(* The row in a relay's session: as selected, in process, or settled.      *)
CopyInv(w, e) ==
    IF e \in todo[w]
    THEN \/ copy[w][e] = rows[e]
         \/ /\ copy[w][e].status = "processing"
            /\ copy[w][e].attempts = rows[e].attempts + 1
            /\ copy[w][e].due
    ELSE /\ copy[w][e].status \in {"published", "failed"}
         /\ copy[w][e].status = "published" => copy[w][e].due /\ Sent(e)

(* A copy on the stream that no fault has to account for.                  *)
SettledBy(w, e) == e \in held[w] \ todo[w] /\ copy[w][e].status = "published"

Counted(e) == e \in Delivered \/ \E w \in Relays : SettledBy(w, e)

CountInv ==
    \A e \in Events : Cardinality(Occurrences(e)) <= faults + (IF Counted(e) THEN 1 ELSE 0)

(* In calm there is one batch at a time, it has every earlier event of an  *)
(* aggregate that is not published yet, and nothing overtakes on the       *)
(* stream.                                                                 *)
OrderInv ==
    calm =>
      /\ \A e \in Events : rows[e] # NoRow => e \in Selectable \cup Delivered
      /\ \A v, w \in Relays : held[v] # {} /\ held[w] # {} => v = w
      /\ \A w \in Relays : \A e \in held[w] \ todo[w] : copy[w][e].status = "published"
      /\ \A w \in Relays : \A e \in held[w] : \A d \in Events :
            d < e /\ Owner[d] = Owner[e] /\ rows[d] # NoRow => d \in held[w] \cup Delivered
      /\ \A i \in DOMAIN stream : \A d \in Events :
            d < stream[i] /\ Owner[d] = Owner[stream[i]] /\ rows[d] # NoRow
                => \E k \in DOMAIN stream : k < i /\ stream[k] = d

IInv ==
    /\ TypeOK
    /\ RowsInv
    /\ HeldInv
    /\ \A w \in Relays : \A e \in held[w] : CopyInv(w, e)
    /\ CountInv
    /\ OrderInv
-----------------------------------------------------------------------------
(* Where an event is on the stream are finitely many places.               *)
LEMMA OccurrencesFinite ==
    ASSUME TypeOK, NEW e
    PROVE  /\ IsFiniteSet(Occurrences(e)) /\ Cardinality(Occurrences(e)) \in Nat
           /\ Len(stream) \in Nat /\ DOMAIN stream = 1..Len(stream)
  <1>1. Len(stream) \in Nat /\ DOMAIN stream = 1..Len(stream)
    BY DEF TypeOK
  <1>2. IsFiniteSet(1..Len(stream)) /\ Occurrences(e) \in SUBSET (1..Len(stream))
    BY <1>1, FS_Interval DEF Occurrences
  <1>3. IsFiniteSet(Occurrences(e))
    BY <1>2, FS_Subset
  <1> QED BY <1>1, <1>3, FS_CardinalityType

(* XADD puts one more place at the end, for one event.                     *)
LEMMA AppendOccurs ==
    ASSUME TypeOK, NEW e \in Events, stream' = Append(stream, e)
    PROVE  /\ stream' \in Seq(Events)
           /\ DOMAIN stream' = DOMAIN stream \cup {Len(stream) + 1}
           /\ stream'[Len(stream) + 1] = e
           /\ \A i \in DOMAIN stream : stream'[i] = stream[i] /\ i < Len(stream) + 1
           /\ Occurrences(e)' = Occurrences(e) \cup {Len(stream) + 1}
           /\ Len(stream) + 1 \notin Occurrences(e)
           /\ \A d : d # e => Occurrences(d)' = Occurrences(d)
           /\ Cardinality(Occurrences(e)') = Cardinality(Occurrences(e)) + 1
           /\ \A d : Sent(d) => Sent(d)'
           /\ Sent(e)'
  <1>1. Len(stream) \in Nat /\ DOMAIN stream = 1..Len(stream) /\ stream \in Seq(Events)
    BY OccurrencesFinite DEF TypeOK
  <1>2. /\ stream' \in Seq(Events)
        /\ DOMAIN stream' = DOMAIN stream \cup {Len(stream) + 1}
        /\ stream'[Len(stream) + 1] = e
        /\ \A i \in DOMAIN stream : stream'[i] = stream[i] /\ i < Len(stream) + 1
    BY <1>1
  <1>3. Len(stream) + 1 \notin DOMAIN stream
    BY <1>1
  <1>4. /\ Occurrences(e)' = Occurrences(e) \cup {Len(stream) + 1}
        /\ Len(stream) + 1 \notin Occurrences(e)
        /\ \A d : d # e => Occurrences(d)' = Occurrences(d)
    BY <1>2, <1>3 DEF Occurrences
  <1>5. Cardinality(Occurrences(e)') = Cardinality(Occurrences(e)) + 1
    BY <1>4, OccurrencesFinite, FS_AddElement
  <1>6. Sent(e)' /\ \A d : Sent(d) => Sent(d)'
    BY <1>4 DEF Sent
  <1> QED BY <1>2, <1>4, <1>5, <1>6

(* A batch has of the rows that may be selected and are not locked the     *)
(* earliest: nothing that is in it follows one that is not.                *)
LEMMA BatchFacts ==
    /\ Batch \subseteq Selectable \ Locked
    /\ \A e \in Batch : \A d \in Selectable \ Locked : d < e => d \in Batch
  <1> DEFINE free == Selectable \ Locked
             Before(e) == {d \in free : d < e}
  <1>1. Batch = {e \in free : Cardinality(Before(e)) < BatchSize}
    BY DEF Batch
  <1>2. free \subseteq Nat /\ IsFiniteSet(free)
    <2>1. free \in SUBSET Events
      BY DEF Selectable
    <2> QED BY <2>1, EventsAssumption, FS_Subset
  <1> HIDE DEF free
  <1>3. ASSUME NEW e \in Batch, NEW d \in free, d < e
        PROVE  d \in Batch
    <2>1. Before(e) \in SUBSET free /\ e \in free
      BY <1>1
    <2>2. Before(d) \in SUBSET Before(e)
      <3>1. d \in Nat /\ e \in Nat /\ d < e
        BY <1>2, <1>3, <2>1
      <3>2. \A c \in free : c < d => c < e
        BY <1>2, <3>1
      <3> QED BY <3>2
    <2>3. IsFiniteSet(Before(e)) /\ Cardinality(Before(e)) \in Nat
      BY <1>2, <2>1, FS_Subset, FS_CardinalityType
    <2>4. Cardinality(Before(d)) <= Cardinality(Before(e)) /\ Cardinality(Before(d)) \in Nat
      BY <2>2, <2>3, FS_Subset, FS_CardinalityType
    <2>5. Cardinality(Before(e)) < BatchSize
      BY <1>1
    <2> QED BY <1>1, <2>3, <2>4, <2>5, LimitsAssumption
  <1> QED BY <1>1, <1>3 DEF free

LEMMA InitInv == Init => IInv
  <1> SUFFICES ASSUME Init PROVE IInv
    OBVIOUS
  <1>1. stream = <<>> /\ DOMAIN stream = {} /\ \A e : Occurrences(e) = {}
    BY DEF Init, Occurrences
  <1>2. TypeOK
    BY LimitsAssumption DEF Init, TypeOK
  <1>3. RowsInv /\ HeldInv /\ \A w \in Relays : held[w] = {}
    BY <1>1 DEF Init, RowsInv, HeldInv
  <1>4. CountInv
    <2>1. \A e \in Events : Cardinality(Occurrences(e)) = 0
      BY <1>1, FS_EmptySet
    <2> QED BY <2>1 DEF Init, CountInv
  <1>5. OrderInv
    BY <1>1 DEF Init, OrderInv
  <1> QED BY <1>2, <1>3, <1>4, <1>5 DEF IInv

(* A row that may not be selected and is not published is in nobody's      *)
(* batch: what becomes of it disturbs no relay, unless in calm it is one   *)
(* that something already overtook.                                        *)
LEMMA RowInv ==
    ASSUME IInv, NEW e \in Events, e \notin Selectable \cup Delivered,
           NEW row \in Row, row.status \in {"pending", "failed"},
           rows' = [rows EXCEPT ![e] = row],
           UNCHANGED <<held, todo, copy, stream, faults, calm>>,
           calm => /\ row.due /\ row.attempts < MaxAttempts
                   /\ \A d \in Events : e < d /\ Owner[d] = Owner[e] => rows[d] = NoRow
    PROVE  IInv'
  <1>1. TypeOK /\ row # NoRow /\ rows'[e] = row /\ \A d \in Events \ {e} : rows'[d] = rows[d]
    BY NoRowAssumption DEF IInv, TypeOK
  <1>2. TypeOK'
    BY <1>1 DEF TypeOK
  <1>3. /\ Selectable \subseteq Selectable' /\ Delivered' = Delivered
        /\ row.due /\ row.attempts < MaxAttempts => e \in Selectable'
    BY <1>1 DEF Selectable, Delivered
  <1>4. \A d : (Sent(d) <=> Sent(d)') /\ Occurrences(d)' = Occurrences(d)
    BY DEF Sent, Occurrences
  <1>5. RowsInv'
    BY <1>1, <1>4 DEF IInv, RowsInv, TypeOK
  <1>6. HeldInv'
    BY <1>3 DEF IInv, HeldInv
  <1>7. ASSUME NEW w \in Relays, NEW d \in held[w] PROVE CopyInv(w, d)'
    <2>1. d # e /\ d \in Events /\ CopyInv(w, d)
      BY DEF IInv, HeldInv, Selectable
    <2> QED BY <1>1, <1>4, <2>1 DEF CopyInv
  <1>8. CountInv'
    BY <1>3, <1>4 DEF IInv, CountInv, Counted, SettledBy
  <1>9. OrderInv'
    <2> SUFFICES ASSUME calm PROVE OrderInv'
      BY DEF OrderInv
    <2>1. OrderInv /\ e \in Selectable'
      BY <1>3 DEF IInv
    <2>2. \A d \in Events : rows'[d] # NoRow => d \in Selectable' \cup Delivered'
      BY <1>1, <1>3, <2>1 DEF OrderInv
    <2>3. \A d \in Events : e < d /\ Owner[d] = Owner[e] => rows[d] = NoRow
      OBVIOUS
    <2>4. \A w \in Relays : \A c \in held[w] : c \in Events /\ rows[c] # NoRow
      BY DEF IInv, HeldInv, Selectable
    <2>5. \A w \in Relays : \A c \in held[w] : \A d \in Events :
            d < c /\ Owner[d] = Owner[c] /\ rows'[d] # NoRow => d \in held[w] \cup Delivered
      BY <1>1, <2>1, <2>3, <2>4 DEF OrderInv
    <2>6. \A i \in DOMAIN stream : stream[i] \in Events /\ rows[stream[i]] # NoRow
      BY <1>1 DEF IInv, RowsInv, TypeOK
    <2>7. \A i \in DOMAIN stream : \A d \in Events :
            d < stream[i] /\ Owner[d] = Owner[stream[i]] /\ rows'[d] # NoRow
                => \E k \in DOMAIN stream : k < i /\ stream[k] = d
      BY <1>1, <2>1, <2>3, <2>6 DEF OrderInv
    <2> QED BY <1>3, <2>1, <2>2, <2>5, <2>7 DEF OrderInv
  <1> QED BY <1>2, <1>5, <1>6, <1>7, <1>8, <1>9 DEF IInv

LEMMA InsertInv ==
    ASSUME IInv, NEW e \in Events, Insert(e) PROVE IInv'
  <1> DEFINE row == [status |-> "pending", attempts |-> 0, due |-> TRUE]
  <1>1. /\ row \in Row /\ row.status = "pending" /\ row.due /\ row.attempts < MaxAttempts
        /\ rows[e] = NoRow /\ rows' = [rows EXCEPT ![e] = row]
    BY LimitsAssumption DEF Insert, Row, Status
  <1>2. e \notin Selectable \cup Delivered
    BY <1>1 DEF Selectable, Delivered
  <1>3. \A d \in Events : e < d /\ Owner[d] = Owner[e] => rows[d] = NoRow
    BY EventsAssumption DEF Insert
  <1> HIDE DEF row
  <1> QED BY <1>1, <1>2, <1>3, RowInv DEF Insert

LEMMA ElapseInv ==
    ASSUME IInv, NEW e \in Events, Elapse(e) PROVE IInv'
  <1> DEFINE row == [rows[e] EXCEPT !.due = TRUE]
  <1>1. rows[e] \in Row /\ ~rows[e].due /\ rows' = [rows EXCEPT ![e] = row]
    BY DEF Elapse, IInv, TypeOK
  <1>2. rows[e].status \in {"pending", "failed"}
    BY <1>1 DEF Elapse, IInv, RowsInv, Row, Status
  <1>3. row \in Row /\ row.status = rows[e].status
    BY <1>1 DEF Row
  <1>4. e \notin Selectable \cup Delivered
    BY <1>1, <1>2 DEF Selectable, Delivered
  <1>5. ~calm
    BY <1>4 DEF IInv, OrderInv, Elapse
  <1> HIDE DEF row
  <1> QED BY <1>1, <1>2, <1>3, <1>4, <1>5, RowInv DEF Elapse

(* What a relay knows of its rows outlasts the steps of the others.        *)
LEMMA CopyKept ==
    ASSUME NEW v \in Relays, NEW d \in Events, CopyInv(v, d),
           todo'[v] = todo[v], copy'[v] = copy[v], rows'[d] = rows[d],
           Sent(d) => Sent(d)'
    PROVE  CopyInv(v, d)'
  BY DEF CopyInv

(* A row in a batch is nobody else's, and not counted as sent before.      *)
LEMMA UnderWay ==
    ASSUME IInv, NEW w \in Relays, NEW e \in todo[w]
    PROVE  /\ e \in held[w] /\ e \in Selectable /\ e \in Events
           /\ rows[e] \in Row /\ rows[e] # NoRow
           /\ copy[w][e] \in Row /\ copy[w][e] # NoRow
           /\ \A v \in Relays \ {w} : e \notin held[v]
           /\ ~Counted(e)
  <1>1. e \in held[w] /\ e \in Selectable /\ e \in Events
    BY DEF IInv, TypeOK, HeldInv, Selectable
  <1>2. rows[e] # NoRow /\ copy[w][e] # NoRow
    BY <1>1 DEF IInv, TypeOK, Selectable
  <1>3. \A v \in Relays \ {w} : e \notin held[v]
    BY <1>1 DEF IInv, HeldInv
  <1>4. rows[e] \in Row /\ copy[w][e] \in Row
    BY <1>1, <1>2 DEF IInv, TypeOK
  <1>5. e \notin Delivered
    BY <1>1 DEF Selectable, Delivered
  <1>6. ~Counted(e)
    BY <1>3, <1>5 DEF Counted, SettledBy
  <1> QED BY <1>1, <1>2, <1>3, <1>4, <1>6

LEMMA SelectInv ==
    ASSUME IInv, NEW w \in Relays, Select(w) PROVE IInv'
  <1>1. /\ TypeOK /\ held[w] = {} /\ todo[w] = {}
        /\ held' = [held EXCEPT ![w] = Batch]
        /\ todo' = [todo EXCEPT ![w] = Batch]
        /\ copy' = [copy EXCEPT ![w] = rows]
        /\ calm' = (calm /\ Locked = {})
        /\ UNCHANGED <<rows, stream, faults>>
    BY DEF Select, IInv, TypeOK
  <1>2. /\ Batch \subseteq Selectable /\ Batch \subseteq Events
        /\ \A v \in Relays : Batch \cap held[v] = {}
    BY BatchFacts DEF Locked, Selectable
  <1>3. /\ held'[w] = Batch /\ todo'[w] = Batch /\ copy'[w] = rows
        /\ \A v \in Relays \ {w} : held'[v] = held[v] /\ todo'[v] = todo[v] /\ copy'[v] = copy[v]
    BY <1>1 DEF TypeOK
  <1>4. TypeOK'
    <2>1. \A e \in Batch : rows[e] # NoRow
      BY <1>2 DEF Selectable
    <2> QED BY <1>1, <1>2, <1>3, <2>1 DEF TypeOK
  <1>5. /\ Selectable' = Selectable /\ Delivered' = Delivered
        /\ \A d : Occurrences(d)' = Occurrences(d) /\ (Sent(d)' <=> Sent(d))
    BY <1>1 DEF Selectable, Delivered, Occurrences, Sent
  <1>6. RowsInv'
    BY <1>1, <1>5 DEF IInv, RowsInv
  <1>7. HeldInv'
    BY <1>2, <1>3, <1>5 DEF IInv, HeldInv
  <1>8. ASSUME NEW v \in Relays, NEW d \in held'[v] PROVE CopyInv(v, d)'
    <2>1. CASE v = w
      BY <1>1, <1>3, <1>8, <2>1 DEF CopyInv
    <2>2. CASE v # w
      <3>1. d \in held[v] /\ d \in Events /\ CopyInv(v, d)
        BY <1>3, <1>8, <2>2 DEF IInv, TypeOK
      <3> QED BY <1>1, <1>3, <1>5, <2>2, <3>1, CopyKept
    <2> QED BY <2>1, <2>2
  <1>9. CountInv'
    <2>1. \A d \in Events : Counted(d)' <=> Counted(d)
      BY <1>1, <1>3, <1>5 DEF Counted, SettledBy
    <2> QED BY <1>1, <1>5, <2>1 DEF IInv, CountInv
  <1>10. OrderInv'
    <2> SUFFICES ASSUME calm, Locked = {} PROVE OrderInv'
      BY <1>1 DEF OrderInv
    <2>1. OrderInv /\ \A v \in Relays : held[v] = {}
      BY DEF IInv, Locked
    <2>2. \A v \in Relays : held'[v] # {} => v = w
      BY <1>3, <2>1
    <2>3. \A e \in held'[w] : \A d \in Events :
            d < e /\ Owner[d] = Owner[e] /\ rows[d] # NoRow => d \in held'[w] \cup Delivered
      BY <1>3, <2>1, BatchFacts DEF OrderInv
    <2> QED BY <1>1, <1>3, <1>5, <2>1, <2>2, <2>3 DEF OrderInv
  <1> QED BY <1>4, <1>6, <1>7, <1>8, <1>9, <1>10 DEF IInv

LEMMA AttemptInv ==
    ASSUME IInv, NEW w \in Relays, NEW e \in Events, Attempt(w, e) PROVE IInv'
  <1> DEFINE row == [copy[w][e] EXCEPT !.status = "processing", !.attempts = @ + 1]
  <1>1. e \in todo[w] /\ TypeOK /\ UNCHANGED <<rows, held, todo, stream, faults, calm>>
    BY DEF Attempt, Current, IInv
  <1>2. /\ e \in held[w] /\ e \in Selectable
        /\ rows[e] \in Row /\ copy[w][e] \in Row /\ copy[w][e] # NoRow
        /\ \A v \in Relays \ {w} : e \notin held[v]
    BY <1>1, UnderWay
  <1>3. copy[w][e] = rows[e]
    BY <1>1, <1>2 DEF Attempt, IInv, CopyInv
  <1>4. copy' = [copy EXCEPT ![w] = [copy[w] EXCEPT ![e] = row]]
    BY <1>1 DEF Attempt, TypeOK
  <1>5. /\ row \in Row /\ row.status = "processing" /\ row.attempts = rows[e].attempts + 1
        /\ row.due /\ row # NoRow
    <2>1. rows[e].attempts < MaxAttempts /\ rows[e].due /\ rows[e].attempts \in 0..MaxAttempts
      BY <1>2 DEF Selectable, Row
    <2>2. rows[e].attempts + 1 \in 0..MaxAttempts
      BY <2>1, LimitsAssumption
    <2>3. row \in Row
      BY <1>2, <1>3, <2>2 DEF Row, Status
    <2> QED BY <1>2, <1>3, <2>1, <2>3, NoRowAssumption DEF Row
  <1> HIDE DEF row
  <1>6. /\ copy'[w][e] = row
        /\ \A d \in Events \ {e} : copy'[w][d] = copy[w][d]
        /\ \A v \in Relays \ {w} : copy'[v] = copy[v]
        /\ copy' \in [Relays -> [Events -> Row \cup {NoRow}]]
    BY <1>1, <1>4, <1>5 DEF TypeOK
  <1>7. TypeOK'
    BY <1>1, <1>5, <1>6 DEF TypeOK
  <1>8. /\ Selectable' = Selectable /\ Delivered' = Delivered
        /\ \A d : Occurrences(d)' = Occurrences(d) /\ (Sent(d)' <=> Sent(d))
    BY <1>1 DEF Selectable, Delivered, Occurrences, Sent
  <1>9. RowsInv' /\ HeldInv'
    BY <1>1, <1>8 DEF IInv, RowsInv, HeldInv
  <1>10. ASSUME NEW v \in Relays, NEW d \in held'[v] PROVE CopyInv(v, d)'
    <2>1. d \in held[v] /\ d \in Events /\ CopyInv(v, d)
      BY <1>1, <1>10 DEF IInv, TypeOK
    <2>2. CASE v = w /\ d = e
      BY <1>1, <1>5, <1>6, <2>2 DEF CopyInv
    <2>3. CASE ~(v = w /\ d = e)
      <3>1. copy'[v][d] = copy[v][d]
        BY <1>6, <2>1, <2>3
      <3> QED BY <1>1, <1>8, <2>1, <3>1 DEF CopyInv
    <2> QED BY <2>2, <2>3
  <1>11. \A v \in Relays, d \in Events : d \notin todo[v] => copy'[v][d] = copy[v][d]
    BY <1>1, <1>6
  <1>12. CountInv'
    <2>1. \A d \in Events : Counted(d)' <=> Counted(d)
      BY <1>1, <1>8, <1>11 DEF Counted, SettledBy, TypeOK
    <2> QED BY <1>1, <1>8, <2>1 DEF IInv, CountInv
  <1>13. OrderInv'
    <2> SUFFICES ASSUME calm PROVE OrderInv'
      BY <1>1 DEF OrderInv
    <2>1. OrderInv
      BY DEF IInv
    <2>2. \A v \in Relays : \A d \in held[v] \ todo[v] : copy'[v][d].status = "published"
      BY <1>1, <1>11, <2>1 DEF OrderInv, TypeOK
    <2> QED BY <1>1, <1>8, <2>1, <2>2 DEF OrderInv
  <1> QED BY <1>7, <1>9, <1>10, <1>12, <1>13 DEF IInv

(* The outcome of a publish. What is appended to the stream is recorded as *)
(* published, or a reply was lost.                                         *)
LEMMA OutcomeInv ==
    ASSUME IInv, NEW w \in Relays, NEW e \in Events, NEW status \in {"published", "failed"},
           Outcome(w, e, status), faults' \in 0..MaxFaults,
           \/ stream' = Append(stream, e) /\ status = "published" /\ faults' = faults
           \/ stream' = Append(stream, e) /\ status = "failed" /\ faults' = faults + 1
           \/ stream' = stream /\ status = "failed" /\ faults' = faults
    PROVE  IInv'
  <1> DEFINE row == [copy[w][e] EXCEPT !.status = status, !.due = (status # "failed")]
  <1>1. /\ TypeOK /\ e \in todo[w] /\ \A d \in todo[w] : e <= d
        /\ todo' = [todo EXCEPT ![w] = @ \ {e}]
        /\ calm' = (calm /\ status = "published")
        /\ UNCHANGED <<rows, held>>
    BY DEF Outcome, Current, IInv
  <1>2. /\ e \in held[w] /\ e \in Selectable
        /\ rows[e] \in Row /\ rows[e] # NoRow /\ copy[w][e] \in Row
        /\ \A v \in Relays \ {w} : e \notin held[v]
        /\ ~Counted(e)
    BY <1>1, UnderWay
  <1>3. copy' = [copy EXCEPT ![w] = [copy[w] EXCEPT ![e] = row]]
    BY <1>1 DEF Outcome, TypeOK
  <1>4. /\ row \in Row /\ row # NoRow /\ row.status = status
        /\ status = "published" => row.due
    <2>1. row \in Row
      BY <1>2 DEF Row, Status
    <2> QED BY <1>2, <2>1, NoRowAssumption DEF Row
  <1> HIDE DEF row
  <1>5. /\ copy'[w][e] = row
        /\ \A d \in Events \ {e} : copy'[w][d] = copy[w][d]
        /\ \A v \in Relays \ {w} : copy'[v] = copy[v]
        /\ copy' \in [Relays -> [Events -> Row \cup {NoRow}]]
    BY <1>1, <1>3, <1>4 DEF TypeOK
  <1>6. /\ todo'[w] = todo[w] \ {e}
        /\ \A v \in Relays \ {w} : todo'[v] = todo[v]
        /\ todo' \in [Relays -> SUBSET Events]
    BY <1>1 DEF TypeOK
  <1>7. /\ stream' \in Seq(Events)
        /\ \A d : Sent(d) => Sent(d)'
        /\ status = "published" => Sent(e)'
        /\ \A d \in Events \ {e} : Occurrences(d)' = Occurrences(d)
        /\ DOMAIN stream \subseteq DOMAIN stream'
        /\ \A i \in DOMAIN stream : stream'[i] = stream[i]
        /\ \A i \in DOMAIN stream' \ DOMAIN stream :
              stream'[i] = e /\ \A k \in DOMAIN stream : k < i
    <2>1. CASE stream' = stream
      BY <1>1, <2>1 DEF TypeOK, Sent, Occurrences
    <2>2. CASE stream' = Append(stream, e)
      BY <1>1, <2>2, AppendOccurs
    <2> QED BY <2>1, <2>2
  <1>8. TypeOK'
    BY <1>1, <1>4, <1>5, <1>6, <1>7 DEF TypeOK
  <1>9. Selectable' = Selectable /\ Delivered' = Delivered
    BY <1>1 DEF Selectable, Delivered
  <1>10. RowsInv' /\ HeldInv'
    BY <1>1, <1>2, <1>7, <1>9 DEF IInv, RowsInv, HeldInv
  <1>11. ASSUME NEW v \in Relays, NEW d \in held'[v] PROVE CopyInv(v, d)'
    <2>1. d \in held[v] /\ d \in Events /\ CopyInv(v, d)
      BY <1>1, <1>11 DEF IInv, TypeOK
    <2>2. CASE v = w /\ d = e
      BY <1>4, <1>5, <1>6, <1>7, <2>2 DEF CopyInv
    <2>3. CASE ~(v = w /\ d = e)
      <3>1. copy'[v][d] = copy[v][d] /\ (d \in todo'[v] <=> d \in todo[v])
        BY <1>5, <1>6, <2>1, <2>3
      <3> QED BY <1>1, <1>7, <2>1, <3>1 DEF CopyInv
    <2> QED BY <2>2, <2>3
  <1>12. \A v \in Relays, d \in Events : SettledBy(v, d) => SettledBy(v, d)'
    BY <1>1, <1>2, <1>5, <1>6 DEF SettledBy
  <1>13. CountInv'
    <2>1. ASSUME NEW d \in Events, d # e
          PROVE  Cardinality(Occurrences(d))' <= faults' + (IF Counted(d)' THEN 1 ELSE 0)
      <3>1. Counted(d) => Counted(d)'
        BY <1>9, <1>12 DEF Counted
      <3>2. Cardinality(Occurrences(d)) <= faults + (IF Counted(d) THEN 1 ELSE 0)
        BY DEF IInv, CountInv
      <3>3. Occurrences(d)' = Occurrences(d) /\ Cardinality(Occurrences(d)) \in Nat
        BY <1>1, <1>7, <2>1, OccurrencesFinite
      <3>4. faults \in Nat /\ faults' \in Nat /\ faults <= faults'
        BY <1>1, LimitsAssumption DEF TypeOK
      <3> QED BY <3>1, <3>2, <3>3, <3>4
    <2>2. Cardinality(Occurrences(e)) <= faults /\ Cardinality(Occurrences(e)) \in Nat
      BY <1>1, <1>2, OccurrencesFinite, LimitsAssumption DEF IInv, CountInv, TypeOK
    <2>3. status = "published" => Counted(e)'
      BY <1>1, <1>2, <1>4, <1>5, <1>6 DEF Counted, SettledBy
    <2>4. faults \in Nat
      BY <1>1, LimitsAssumption DEF TypeOK
    <2>5. CASE stream' = stream
      <3>1. Occurrences(e)' = Occurrences(e)
        BY <2>5 DEF Occurrences
      <3>2. Cardinality(Occurrences(e))' <= faults' + (IF Counted(e)' THEN 1 ELSE 0)
        BY <2>2, <2>4, <2>5, <3>1, <1>1
      <3> QED BY <2>1, <3>2 DEF CountInv
    <2>6. CASE stream' = Append(stream, e)
      <3>1. Cardinality(Occurrences(e)') = Cardinality(Occurrences(e)) + 1
        BY <1>1, <2>6, AppendOccurs
      <3>2. status = "published" \/ faults' = faults + 1
        <4>1. Occurrences(e)' # Occurrences(e)
          BY <1>1, <2>6, AppendOccurs
        <4>2. stream' # stream
          BY <4>1 DEF Occurrences
        <4> QED BY <4>2
      <3>3. Cardinality(Occurrences(e))' <= faults' + (IF Counted(e)' THEN 1 ELSE 0)
        BY <2>2, <2>3, <2>4, <3>1, <3>2
      <3> QED BY <2>1, <3>3 DEF CountInv
    <2> QED BY <2>5, <2>6
  <1>14. OrderInv'
    <2> SUFFICES ASSUME calm, status = "published" PROVE OrderInv'
      BY <1>1 DEF OrderInv
    <2>1. OrderInv
      BY DEF IInv
    <2>2. \A v \in Relays : \A d \in held[v] \ todo'[v] : copy'[v][d].status = "published"
      <3> SUFFICES ASSUME NEW v \in Relays, NEW d \in held[v] \ todo'[v]
                   PROVE  copy'[v][d].status = "published"
        OBVIOUS
      <3>1. CASE v = w /\ d = e
        BY <1>4, <1>5, <3>1
      <3>2. CASE ~(v = w /\ d = e)
        <4>1. d \in held[v] \ todo[v] /\ d \in Events
          BY <1>1, <1>6, <3>2 DEF TypeOK
        <4> QED BY <1>5, <2>1, <3>2, <4>1 DEF OrderInv
      <3> QED BY <3>1, <3>2
    <2>3. ASSUME NEW i \in DOMAIN stream', NEW d \in Events,
                 d < stream'[i], Owner[d] = Owner[stream'[i]], rows[d] # NoRow
          PROVE  \E k \in DOMAIN stream' : k < i /\ stream'[k] = d
      <3>1. CASE i \in DOMAIN stream
        BY <1>7, <2>1, <2>3, <3>1 DEF OrderInv
      <3>2. CASE i \notin DOMAIN stream
        <4>1. stream'[i] = e /\ \A k \in DOMAIN stream : k < i
          BY <1>7, <3>2
        <4>2. d \in held[w] \cup Delivered
          BY <1>2, <2>1, <2>3, <4>1 DEF OrderInv
        <4>3. d \notin todo[w]
          BY <1>1, <2>3, <4>1, EventsAssumption
        <4>4. Sent(d)
          <5>1. CASE d \in Delivered
            BY <5>1 DEF IInv, RowsInv, Delivered
          <5>2. CASE d \in held[w]
            BY <2>1, <4>3, <5>2 DEF IInv, CopyInv, OrderInv
          <5> QED BY <4>2, <5>1, <5>2
        <4>5. PICK k \in DOMAIN stream : stream[k] = d
          BY <4>4 DEF Sent, Occurrences
        <4> QED BY <1>7, <4>1, <4>5
      <3> QED BY <3>1, <3>2
    <2> QED BY <1>1, <1>9, <2>1, <2>2, <2>3 DEF OrderInv
  <1> QED BY <1>8, <1>10, <1>11, <1>13, <1>14 DEF IInv

LEMMA PublishedInv ==
    ASSUME IInv, NEW w \in Relays, NEW e \in Events, Published(w, e) PROVE IInv'
  <1>1. faults' \in 0..MaxFaults
    BY DEF Published, IInv, TypeOK
  <1> QED BY <1>1, OutcomeInv DEF Published

LEMMA RefusedInv ==
    ASSUME IInv, NEW w \in Relays, NEW e \in Events, Refused(w, e) PROVE IInv'
  <1>1. faults' \in 0..MaxFaults
    BY DEF Refused, IInv, TypeOK
  <1> QED BY <1>1, OutcomeInv DEF Refused

LEMMA ReplyLostInv ==
    ASSUME IInv, NEW w \in Relays, NEW e \in Events, ReplyLost(w, e) PROVE IInv'
  <1>1. faults' \in 0..MaxFaults
    BY LimitsAssumption DEF ReplyLost, IInv, TypeOK
  <1> QED BY <1>1, OutcomeInv DEF ReplyLost

(* A relay that lets go of its batch leaves the others theirs.             *)
LEMMA Released ==
    ASSUME TypeOK, NEW w \in Relays, Release(w)
    PROVE  /\ held'[w] = {} /\ todo'[w] = {}
           /\ \A v \in Relays \ {w} :
                 held'[v] = held[v] /\ todo'[v] = todo[v] /\ copy'[v] = copy[v]
           /\ held' \in [Relays -> SUBSET Events]
           /\ todo' \in [Relays -> SUBSET Events]
           /\ copy' \in [Relays -> [Events -> Row \cup {NoRow}]]
  <1>1. NoCopy \in [Events -> Row \cup {NoRow}]
    BY DEF NoCopy
  <1> QED BY <1>1 DEF TypeOK, Release

(* Whatever fails takes a relay's batch with it, if it has one.            *)
LEMMA LetGoInv ==
    ASSUME IInv, NEW w \in Relays, Release(w),
           faults < MaxFaults, faults' = faults + 1, UNCHANGED <<rows, stream, calm>>
    PROVE  IInv'
  <1>1. TypeOK
    BY DEF IInv
  <1>2. /\ held'[w] = {} /\ todo'[w] = {}
        /\ \A v \in Relays \ {w} :
              held'[v] = held[v] /\ todo'[v] = todo[v] /\ copy'[v] = copy[v]
        /\ held' \in [Relays -> SUBSET Events]
        /\ todo' \in [Relays -> SUBSET Events]
        /\ copy' \in [Relays -> [Events -> Row \cup {NoRow}]]
    BY <1>1, Released
  <1>3. faults \in Nat /\ faults' \in 0..MaxFaults
    BY <1>1, LimitsAssumption DEF TypeOK
  <1>4. TypeOK'
    BY <1>1, <1>2, <1>3 DEF TypeOK
  <1>5. /\ Selectable' = Selectable /\ Delivered' = Delivered
        /\ \A d : Occurrences(d)' = Occurrences(d) /\ (Sent(d)' <=> Sent(d))
    BY <1>1 DEF Selectable, Delivered, Occurrences, Sent
  <1>6. RowsInv' /\ HeldInv'
    BY <1>1, <1>2, <1>5 DEF IInv, RowsInv, HeldInv
  <1>7. ASSUME NEW v \in Relays, NEW d \in held'[v] PROVE CopyInv(v, d)'
    <2>1. v # w /\ d \in held[v] /\ d \in Events /\ CopyInv(v, d)
      BY <1>2, <1>7 DEF IInv, TypeOK
    <2> QED BY <1>1, <1>2, <1>5, <2>1, CopyKept
  <1>8. CountInv'
    <2> SUFFICES ASSUME NEW d \in Events
                 PROVE  Cardinality(Occurrences(d)) <= faults'
      BY <1>3, <1>5, OccurrencesFinite, <1>1 DEF CountInv
    <2>1. Cardinality(Occurrences(d)) <= faults + (IF Counted(d) THEN 1 ELSE 0)
      BY DEF IInv, CountInv
    <2> QED BY <1>1, <1>3, <2>1, OccurrencesFinite
  <1>9. OrderInv'
    <2> SUFFICES ASSUME calm PROVE OrderInv'
      BY <1>1 DEF OrderInv
    <2>1. OrderInv
      BY DEF IInv
    <2>2. \A v \in Relays : held'[v] \subseteq held[v] /\ (v # w => held'[v] = held[v])
      BY <1>2
    <2>3. \A u, v \in Relays : held'[u] # {} /\ held'[v] # {} => u = v
      BY <2>1, <2>2 DEF OrderInv
    <2>4. ASSUME NEW v \in Relays, NEW c \in held'[v]
          PROVE  /\ c \notin todo'[v] => copy'[v][c].status = "published"
                 /\ \A d \in Events : d < c /\ Owner[d] = Owner[c] /\ rows[d] # NoRow
                                       => d \in held'[v] \cup Delivered
      <3>1. v # w /\ c \in held[v] /\ held'[v] = held[v]
        BY <1>2, <2>4
      <3>2. todo'[v] = todo[v] /\ copy'[v] = copy[v]
        BY <1>2, <3>1
      <3> QED BY <2>1, <3>1, <3>2 DEF OrderInv
    <2>5. /\ \A c \in Events : rows[c] # NoRow => c \in Selectable \cup Delivered
          /\ \A i \in DOMAIN stream : \A d \in Events :
                d < stream[i] /\ Owner[d] = Owner[stream[i]] /\ rows[d] # NoRow
                    => \E k \in DOMAIN stream : k < i /\ stream[k] = d
      BY <2>1 DEF OrderInv
    <2> QED BY <1>1, <1>5, <2>3, <2>4, <2>5 DEF OrderInv
  <1> QED BY <1>4, <1>6, <1>7, <1>8, <1>9 DEF IInv

LEMMA RollbackInv ==
    ASSUME IInv, NEW w \in Relays, Rollback(w) PROVE IInv'
  BY LetGoInv DEF Rollback

(* A fault elsewhere, which the relays do not notice.                      *)
LEMMA FaultInv ==
    ASSUME IInv, faults' \in 0..MaxFaults, faults <= faults',
           UNCHANGED <<rows, held, todo, copy, stream, calm>>
    PROVE  IInv'
  <1>1. TypeOK'
    BY DEF IInv, TypeOK
  <1>2. /\ Selectable' = Selectable /\ Delivered' = Delivered
        /\ \A d : Occurrences(d)' = Occurrences(d) /\ (Sent(d)' <=> Sent(d))
    BY DEF Selectable, Delivered, Occurrences, Sent
  <1>3. RowsInv' /\ HeldInv' /\ OrderInv'
    BY <1>2 DEF IInv, RowsInv, HeldInv, OrderInv
  <1>4. ASSUME NEW v \in Relays, NEW d \in held'[v] PROVE CopyInv(v, d)'
    BY <1>2, <1>4, CopyKept DEF IInv, TypeOK
  <1>5. CountInv'
    <2> SUFFICES ASSUME NEW d \in Events
                 PROVE  Cardinality(Occurrences(d)) <= faults' + (IF Counted(d) THEN 1 ELSE 0)
      BY <1>2 DEF CountInv, Counted, SettledBy
    <2>1. Cardinality(Occurrences(d)) <= faults + (IF Counted(d) THEN 1 ELSE 0)
      BY DEF IInv, CountInv
    <2>2. Cardinality(Occurrences(d)) \in Nat /\ faults \in Nat /\ faults' \in Nat
      BY OccurrencesFinite, LimitsAssumption DEF IInv, TypeOK
    <2> QED BY <2>1, <2>2
  <1> QED BY <1>1, <1>3, <1>4, <1>5 DEF IInv

(* What COMMIT writes: the rows of the batch as settled, and no other.     *)
LEMMA CommitRows ==
    ASSUME IInv, NEW w \in Relays, CommitBatch(w)
    PROVE  /\ \A e \in held[w] :
                 /\ rows'[e] = copy[w][e] /\ rows'[e] \in Row /\ rows'[e] # NoRow
                 /\ rows'[e].status \in {"published", "failed"}
                 /\ rows'[e].status = "published" => rows'[e].due /\ Sent(e)
                 /\ e \in Selectable /\ e \in Events
           /\ \A e \in Events \ held[w] : rows'[e] = rows[e]
           /\ rows' \in [Events -> Row \cup {NoRow}]
  <1>1. TypeOK /\ todo[w] = {} /\ rows' = [e \in Events |-> IF e \in held[w] THEN copy[w][e] ELSE rows[e]]
    BY DEF CommitBatch, Write, IInv
  <1>2. \A e \in held[w] : /\ e \in Selectable /\ e \in Events
                           /\ copy[w][e] \in Row /\ copy[w][e] # NoRow
                           /\ CopyInv(w, e)
    BY DEF IInv, HeldInv, TypeOK
  <1> QED BY <1>1, <1>2 DEF CopyInv, TypeOK

LEMMA CommitBatchInv ==
    ASSUME IInv, NEW w \in Relays, CommitBatch(w) PROVE IInv'
  <1>1. TypeOK /\ held[w] # {} /\ todo[w] = {} /\ UNCHANGED <<stream, faults, calm>>
    BY DEF CommitBatch, IInv
  <1>2. /\ held'[w] = {} /\ todo'[w] = {}
        /\ \A v \in Relays \ {w} :
              held'[v] = held[v] /\ todo'[v] = todo[v] /\ copy'[v] = copy[v]
        /\ held' \in [Relays -> SUBSET Events]
        /\ todo' \in [Relays -> SUBSET Events]
        /\ copy' \in [Relays -> [Events -> Row \cup {NoRow}]]
    BY <1>1, Released DEF CommitBatch
  <1>3. /\ \A e \in held[w] :
              /\ rows'[e] = copy[w][e] /\ rows'[e] \in Row /\ rows'[e] # NoRow
              /\ rows'[e].status \in {"published", "failed"}
              /\ rows'[e].status = "published" => rows'[e].due /\ Sent(e)
              /\ e \in Selectable /\ e \in Events
        /\ \A e \in Events \ held[w] : rows'[e] = rows[e]
        /\ rows' \in [Events -> Row \cup {NoRow}]
    BY CommitRows
  <1>4. TypeOK'
    <2>1. ASSUME NEW v \in Relays
          PROVE  todo'[v] \subseteq held'[v] /\ \A e \in held'[v] : copy'[v][e] # NoRow
      <3>1. CASE v = w
        BY <1>2, <3>1
      <3>2. CASE v # w
        BY <1>1, <1>2, <3>2 DEF TypeOK
      <3> QED BY <3>1, <3>2
    <2> QED BY <1>1, <1>2, <1>3, <2>1 DEF TypeOK
  <1>5. \A d : Occurrences(d)' = Occurrences(d) /\ (Sent(d)' <=> Sent(d))
    BY <1>1 DEF Occurrences, Sent
  <1>6. \A d \in Events : rows[d] # NoRow <=> rows'[d] # NoRow
    BY <1>3 DEF Selectable
  <1>7. /\ Selectable \ held[w] \subseteq Selectable'
        /\ Delivered' = Delivered \cup {e \in held[w] : copy[w][e].status = "published"}
    BY <1>3 DEF Selectable, Delivered
  <1>8. RowsInv'
    <2>1. ASSUME NEW e \in Events, rows'[e] # NoRow
          PROVE  /\ rows'[e].status # "processing"
                 /\ rows'[e].status = "published" => rows'[e].due /\ Sent(e)'
      <3>1. CASE e \in held[w]
        BY <1>3, <1>5, <3>1
      <3>2. CASE e \notin held[w]
        BY <1>3, <1>5, <2>1, <3>2 DEF IInv, RowsInv
      <3> QED BY <3>1, <3>2
    <2>2. \A i \in DOMAIN stream : stream[i] \in Events /\ rows[stream[i]] # NoRow
      BY <1>1 DEF IInv, RowsInv, TypeOK
    <2> QED BY <1>1, <1>6, <2>1, <2>2 DEF RowsInv
  <1>9. HeldInv'
    <2>1. \A v \in Relays \ {w} : held[v] \subseteq Selectable \ held[w]
      BY DEF IInv, HeldInv
    <2> QED BY <1>2, <1>7, <2>1 DEF IInv, HeldInv
  <1>10. ASSUME NEW v \in Relays, NEW d \in held'[v] PROVE CopyInv(v, d)'
    <2>1. v # w /\ d \in held[v] /\ d \in Events /\ CopyInv(v, d) /\ d \notin held[w]
      BY <1>2, <1>10 DEF IInv, TypeOK, HeldInv
    <2> QED BY <1>2, <1>3, <1>5, <2>1, CopyKept
  <1>11. CountInv'
    <2>1. \A d \in Events : Counted(d) => Counted(d)'
      <3> SUFFICES ASSUME NEW d \in Events, Counted(d) PROVE Counted(d)'
        OBVIOUS
      <3>1. CASE d \in Delivered \/ SettledBy(w, d)
        BY <1>7, <3>1 DEF Counted, SettledBy
      <3>2. CASE \E v \in Relays \ {w} : SettledBy(v, d)
        BY <1>2, <3>2 DEF Counted, SettledBy
      <3> QED BY <3>1, <3>2 DEF Counted
    <2>2. ASSUME NEW d \in Events
          PROVE  Cardinality(Occurrences(d)) <= faults + (IF Counted(d)' THEN 1 ELSE 0)
      <3>1. Cardinality(Occurrences(d)) <= faults + (IF Counted(d) THEN 1 ELSE 0)
        BY DEF IInv, CountInv
      <3>2. Cardinality(Occurrences(d)) \in Nat /\ faults \in Nat
        BY <1>1, OccurrencesFinite, LimitsAssumption DEF TypeOK
      <3> QED BY <2>1, <3>1, <3>2
    <2> QED BY <1>1, <1>5, <2>2 DEF CountInv
  <1>12. OrderInv'
    <2> SUFFICES ASSUME calm PROVE OrderInv'
      BY <1>1 DEF OrderInv
    <2>1. OrderInv
      BY DEF IInv
    <2>2. \A v \in Relays : held'[v] = {}
      BY <1>1, <1>2, <2>1 DEF OrderInv
    <2>3. \A e \in held[w] : e \in Delivered'
      BY <1>1, <1>7, <2>1 DEF OrderInv
    <2>4. \A e \in Events : rows'[e] # NoRow => e \in Selectable' \cup Delivered'
      BY <1>6, <1>7, <2>1, <2>3 DEF OrderInv
    <2>5. \A i \in DOMAIN stream : \A d \in Events :
            d < stream[i] /\ Owner[d] = Owner[stream[i]] /\ rows'[d] # NoRow
                => \E k \in DOMAIN stream : k < i /\ stream[k] = d
      BY <1>6, <2>1 DEF OrderInv
    <2> QED BY <1>1, <2>2, <2>4, <2>5 DEF OrderInv
  <1> QED BY <1>4, <1>8, <1>9, <1>10, <1>11, <1>12 DEF IInv

LEMMA NextInv == IInv /\ [Next]_vars => IInv'
  <1> SUFFICES ASSUME IInv, [Next]_vars PROVE IInv'
    OBVIOUS
  <1>1. ASSUME NEW e \in Events, Insert(e) \/ Elapse(e) PROVE IInv'
    BY <1>1, InsertInv, ElapseInv
  <1>2. ASSUME NEW w \in Relays, Advance(w) PROVE IInv'
    <2>1. CASE Select(w)
      BY <2>1, SelectInv
    <2>2. CASE \E e \in Events : Attempt(w, e) \/ Published(w, e) \/ Refused(w, e)
      BY <2>2, AttemptInv, PublishedInv, RefusedInv
    <2>3. CASE CommitBatch(w)
      BY <2>3, CommitBatchInv
    <2> QED BY <1>2, <2>1, <2>2, <2>3 DEF Advance
  <1>3. ASSUME NEW w \in Relays, NEW e \in Events, ReplyLost(w, e) PROVE IInv'
    BY <1>3, ReplyLostInv
  <1>4. ASSUME NEW w \in Relays, Rollback(w) PROVE IInv'
    BY <1>4, RollbackInv
  <1>5. CASE UNCHANGED vars
    BY <1>5 DEF vars, IInv, TypeOK, RowsInv, HeldInv, CopyInv, CountInv, OrderInv,
                Counted, SettledBy, Sent, Occurrences, Selectable, Delivered
  <1>6. CASE Quiet
    BY <1>5, <1>6 DEF Quiet
  <1> QED BY <1>1, <1>2, <1>3, <1>4, <1>5, <1>6 DEF Next

THEOREM Inductive == Spec => []IInv
  <1> QED BY InitInv, NextInv, PTL DEF Spec
-----------------------------------------------------------------------------
(* The outbox, the batches of the relays and their sessions keep their     *)
(* domains; in particular attempt_count never passes max_attempts.         *)
THEOREM TypeCorrect == Spec => []TypeOK
  <1>1. IInv => TypeOK
    BY DEF IInv
  <1> QED BY Inductive, <1>1, PTL

(* However many relays overlap, each further copy of an event on the       *)
(* stream is accounted for by a rolled back batch or a lost reply.         *)
THEOREM DuplicatesAreFaults == Spec => []DuplicatesNeedFaults
  <1>1. IInv => DuplicatesNeedFaults
    <2> SUFFICES ASSUME IInv, NEW e \in Events
                 PROVE  Cardinality(Occurrences(e)) <= 1 + faults
      BY DEF DuplicatesNeedFaults
    <2>1. Cardinality(Occurrences(e)) <= faults + (IF Counted(e) THEN 1 ELSE 0)
      BY DEF IInv, CountInv
    <2>2. faults \in Nat /\ Cardinality(Occurrences(e)) \in Nat
      BY OccurrencesFinite, LimitsAssumption DEF IInv, TypeOK
    <2> QED BY <2>1, <2>2
  <1> QED BY Inductive, <1>1, PTL

(* While no publish fails and no two batches overlap, the events of an     *)
(* aggregate first reach the stream in the order they were raised.         *)
THEOREM OrderPerAggregate == Spec => []AggregateOrder
  <1>1. IInv => AggregateOrder
    <2> SUFFICES ASSUME IInv, calm, NEW i \in DOMAIN stream, NEW j \in DOMAIN stream,
                        i < j, First(j), Owner[stream[i]] = Owner[stream[j]],
                        ~(stream[i] < stream[j])
                 PROVE  FALSE
      BY DEF AggregateOrder
    <2>1. /\ stream[i] \in Nat /\ stream[j] \in Events /\ stream[j] \in Nat
          /\ rows[stream[j]] # NoRow
      <3>1. \A k \in DOMAIN stream : stream[k] \in Events
        BY DEF IInv, TypeOK
      <3>2. \A k \in DOMAIN stream : rows[stream[k]] # NoRow
        BY DEF IInv, RowsInv
      <3> QED BY <3>1, <3>2, EventsAssumption
    <2>2. stream[j] < stream[i]
      BY <2>1 DEF First
    <2>3. PICK k \in DOMAIN stream : k < i /\ stream[k] = stream[j]
      BY <2>1, <2>2 DEF IInv, OrderInv
    <2>4. k < j
      BY <2>3, OccurrencesFinite DEF IInv
    <2> QED BY <2>3, <2>4 DEF First
  <1> QED BY Inductive, <1>1, PTL
-----------------------------------------------------------------------------
(* A published row is in nobody's batch, and its place in the outbox and   *)
(* on the stream survives every step.                                      *)
LEMMA DeliveredStep ==
    ASSUME IInv, Next, NEW d \in Delivered
    PROVE  rows'[d] = rows[d] /\ Occurrences(d)' = Occurrences(d)
  <1>1. /\ TypeOK /\ d \in Events /\ rows[d] # NoRow /\ rows[d].status = "published"
        /\ rows[d].due
    BY DEF IInv, RowsInv, Delivered
  <1>2. \A w \in Relays : d \notin held[w] /\ d \notin todo[w]
    BY <1>1 DEF IInv, HeldInv, Selectable, TypeOK
  <1>3. ASSUME NEW e \in Events, Insert(e) \/ Elapse(e)
        PROVE  rows'[d] = rows[d] /\ stream' = stream
    BY <1>1, <1>3 DEF Insert, Elapse, TypeOK
  <1>4. ASSUME NEW w \in Relays, NEW e \in Events, NEW status, Outcome(w, e, status)
        PROVE  rows'[d] = rows[d] /\ e # d
    BY <1>2, <1>4 DEF Outcome, Current
  <1>5. ASSUME NEW w \in Relays, NEW e \in Events,
               Published(w, e) \/ Refused(w, e) \/ ReplyLost(w, e)
        PROVE  rows'[d] = rows[d] /\ Occurrences(d)' = Occurrences(d)
    <2>1. rows'[d] = rows[d] /\ e # d
      BY <1>4, <1>5 DEF Published, Refused, ReplyLost
    <2>2. CASE stream' = stream
      BY <2>1, <2>2 DEF Occurrences
    <2>3. CASE stream' = Append(stream, e)
      BY <1>1, <2>1, <2>3, AppendOccurs
    <2> QED BY <1>5, <2>2, <2>3 DEF Published, Refused, ReplyLost
  <1>6. ASSUME NEW w \in Relays,
               \/ Select(w) \/ CommitBatch(w) \/ Rollback(w)
               \/ \E e \in Events : Attempt(w, e)
        PROVE  rows'[d] = rows[d] /\ stream' = stream
    BY <1>1, <1>2, <1>6 DEF Select, CommitBatch, Write, Rollback, Attempt
  <1>7. stream' = stream => Occurrences(d)' = Occurrences(d)
    BY DEF Occurrences
  <1> QED BY <1>3, <1>5, <1>6, <1>7 DEF Next, Advance, Quiet, vars

(* PUBLISHED is final: no stale copy of a row, read before another relay   *)
(* committed, is ever written over it or sent once more.                   *)
THEOREM PublishedForGood == Spec => PublishedIsFinal
  <1>1. IInv /\ [Next]_vars =>
          [\A e \in Delivered : rows'[e] = rows[e] /\ Occurrences(e)' = Occurrences(e)]_vars
    BY DeliveredStep
  <1> QED BY Inductive, <1>1, PTL DEF Spec, PublishedIsFinal
-----------------------------------------------------------------------------
(* The steps of the relay as steps of at-least-once delivery.              *)
LEMMA InitRefines == Init => Outbox!Init
  <1> SUFFICES ASSUME Init PROVE Outbox!Init
    OBVIOUS
  <1>1. \A e \in Events : rows[e] = NoRow
    BY DEF Init
  <1>2. /\ {e \in Events : rows[e] # NoRow} = {}
        /\ Delivered = {} /\ Exhausted = {} /\ stream = <<>>
    BY <1>1 DEF Init, Delivered, Exhausted
  <1> QED BY <1>2 DEF Outbox!Init

LEMMA InsertRefines ==
    ASSUME IInv, NEW e \in Events, Insert(e) PROVE Outbox!Accept(e)
  <1> DEFINE row == [status |-> "pending", attempts |-> 0, due |-> TRUE]
  <1>1. row \in Row /\ row # NoRow /\ row.status = "pending"
    <2>1. row \in Row
      BY LimitsAssumption DEF Row, Status
    <2> QED BY <2>1, NoRowAssumption
  <1>2. /\ rows[e] = NoRow /\ stream' = stream
        /\ rows'[e] = row /\ \A d \in Events \ {e} : rows'[d] = rows[d]
    BY DEF Insert, IInv, TypeOK
  <1> HIDE DEF row
  <1>3. /\ {d \in Events : rows'[d] # NoRow} = {d \in Events : rows[d] # NoRow} \cup {e}
        /\ Delivered' = Delivered /\ Exhausted' = Exhausted
        /\ e \notin {d \in Events : rows[d] # NoRow}
    BY <1>1, <1>2 DEF Delivered, Exhausted
  <1> QED BY <1>2, <1>3 DEF Outbox!Accept

(* While a publish is awaited its row is neither delivered nor given up.   *)
LEMMA SendRefines ==
    ASSUME IInv, NEW w \in Relays, NEW e \in Events, NEW status,
           Outcome(w, e, status), stream' = Append(stream, e)
    PROVE  Outbox!Send(e)
  <1>1. e \in Selectable /\ rows' = rows
    BY UnderWay DEF Outcome, Current
  <1>2. e \notin Delivered \cup Exhausted /\ e \in {d \in Events : rows[d] # NoRow}
    BY <1>1, LimitsAssumption DEF Selectable, Delivered, Exhausted
  <1>3. /\ Delivered' = Delivered /\ Exhausted' = Exhausted
        /\ {d \in Events : rows'[d] # NoRow} = {d \in Events : rows[d] # NoRow}
    BY <1>1 DEF Delivered, Exhausted
  <1> QED BY <1>2, <1>3 DEF Outbox!Send

(* The commit of a batch settles its published rows and those whose last   *)
(* attempt has failed; the others it leaves as they were.                  *)
LEMMA SettleRefines ==
    ASSUME IInv, NEW w \in Relays, CommitBatch(w)
    PROVE  \E D, A \in SUBSET Events : Outbox!Settle(D, A)
  <1> DEFINE D == {e \in held[w] : copy[w][e].status = "published"}
             A == {e \in held[w] : copy[w][e].status = "failed"
                                      /\ copy[w][e].attempts = MaxAttempts}
             accepted == {e \in Events : rows[e] # NoRow}
  <1>1. /\ \A e \in held[w] :
              /\ rows'[e] = copy[w][e] /\ rows'[e] \in Row /\ rows'[e] # NoRow
              /\ rows'[e].status \in {"published", "failed"}
              /\ rows'[e].status = "published" => rows'[e].due /\ Sent(e)
              /\ e \in Selectable /\ e \in Events
        /\ \A e \in Events \ held[w] : rows'[e] = rows[e]
        /\ stream' = stream
    BY CommitRows DEF CommitBatch
  <1>2. \A e \in held[w] : e \in accepted /\ e \notin Delivered \cup Exhausted
    BY <1>1, LimitsAssumption DEF Selectable, Delivered, Exhausted
  <1>3. /\ D \in SUBSET Events /\ A \in SUBSET Events
        /\ D \subseteq accepted /\ A \subseteq accepted /\ D \cap A = {}
        /\ (D \cup A) \cap (Delivered \cup Exhausted) = {}
    BY <1>1, <1>2
  <1>4. D \subseteq Outbox!Sent
    BY <1>1 DEF Sent, Occurrences, Outbox!Sent
  <1>5. {e \in Events : rows'[e] # NoRow} = accepted
    BY <1>1, <1>2
  <1>6. Delivered' = Delivered \cup D
    BY <1>1, <1>2 DEF Delivered
  <1>7. Exhausted' = Exhausted \cup A
    BY <1>1, <1>2 DEF Exhausted
  <1>8. Outbox!Settle(D, A)
    BY <1>1, <1>3, <1>4, <1>5, <1>6, <1>7 DEF Outbox!Settle
  <1> QED BY <1>3, <1>8

(* Everything else happens out of sight of the broker and of the outbox's  *)
(* clients.                                                                *)
LEMMA Unseen ==
    ASSUME IInv, stream' = stream,
           \/ rows' = rows
           \/ \E e \in Events : Elapse(e)
    PROVE  UNCHANGED Outbox!vars
  <1>1. CASE rows' = rows
    BY <1>1 DEF Outbox!vars, Delivered, Exhausted
  <1>2. ASSUME NEW e \in Events, Elapse(e) PROVE UNCHANGED Outbox!vars
    <2>1. /\ rows[e] \in Row /\ rows'[e] = [rows[e] EXCEPT !.due = TRUE]
          /\ \A d \in Events \ {e} : rows'[d] = rows[d]
      BY <1>2 DEF Elapse, IInv, TypeOK
    <2>2. /\ rows'[e] \in Row /\ rows'[e] # NoRow /\ rows[e] # NoRow
          /\ rows'[e].status = rows[e].status /\ rows'[e].attempts = rows[e].attempts
      BY <2>1, NoRowAssumption DEF Row
    <2>3. \A d \in Events : /\ rows'[d] # NoRow <=> rows[d] # NoRow
                            /\ rows'[d].status = rows[d].status
                            /\ rows'[d].attempts = rows[d].attempts
      BY <2>1, <2>2
    <2> QED BY <2>3 DEF Outbox!vars, Delivered, Exhausted
  <1> QED BY <1>1, <1>2

LEMMA NextRefines ==
    ASSUME IInv, [Next]_vars PROVE [Outbox!Next]_(Outbox!vars)
  <1>1. ASSUME NEW e \in Events, Insert(e) PROVE Outbox!Next
    BY <1>1, InsertRefines DEF Outbox!Next
  <1>2. ASSUME NEW e \in Events, Elapse(e) PROVE UNCHANGED Outbox!vars
    BY <1>2, Unseen DEF Elapse
  <1>3. ASSUME NEW w \in Relays, NEW e \in Events, Published(w, e) \/ ReplyLost(w, e)
        PROVE  Outbox!Next
    BY <1>3, SendRefines DEF Published, ReplyLost, Outbox!Next
  <1>4. ASSUME NEW w \in Relays, CommitBatch(w) PROVE Outbox!Next
    BY <1>4, SettleRefines DEF Outbox!Next
  <1>5. ASSUME NEW w \in Relays,
               \/ Select(w) \/ Rollback(w)
               \/ \E e \in Events : Attempt(w, e) \/ Refused(w, e)
        PROVE  UNCHANGED Outbox!vars
    <2>1. rows' = rows /\ stream' = stream
      BY <1>5 DEF Select, Rollback, Attempt, Refused, Outcome
    <2> QED BY <2>1, Unseen
  <1>6. CASE UNCHANGED vars
    BY <1>6, Unseen DEF vars
  <1> QED BY <1>1, <1>2, <1>3, <1>4, <1>5, <1>6 DEF Next, Advance, Quiet

(* The relay implements at-least-once delivery: an event is handed to the  *)
(* broker after its change committed, at least once before it counts as    *)
(* delivered and never afterwards, and is given up only undelivered.       *)
THEOREM RelayImplementsAtLeastOnce == Spec => ImplementsAtLeastOnce
  <1> QED BY Inductive, InitRefines, NextRefines, PTL
          DEF Spec, ImplementsAtLeastOnce, Outbox!Spec
=============================================================================
