----------------------- MODULE StreamConsumer_proofs -----------------------
(***************************************************************************)
(* Proofs about StreamConsumer, for any stream, processes, batch size,     *)
(* limit of deliveries and number of faults.                               *)
(***************************************************************************)
EXTENDS StreamConsumer, TLAPS

Working == {"handling", "failed", "dying", "acking"}

(* What may have happened to an entry: nothing before it is delivered.     *)
Untouched(e) == handled[e] = 0 /\ e \notin deadLetters

(* What a process knows of the entries in its hands: nothing has become of *)
(* any of them, but for the one it works on.                               *)
BatchInv(p) ==
    /\ pc[p] \notin Working => batch[p] = {}
    /\ \A e \in batch[p] :
          /\ pc[p] \in {"failed", "dying"} /\ Head(p, e) => e \in failures
          /\ pc[p] = "acking" /\ Head(p, e) => handled[e] > 0 \/ e \in deadLetters
          /\ pc[p] # "acking" \/ ~Head(p, e) => Untouched(e)

(* Whoever acknowledged an entry had a reason to.                          *)
AckedInv ==
    \A e \in Acked : handled[e] > 0 \/ e \in deadLetters \/ ~HandlerFound(e)

IInv ==
    /\ TypeOK
    /\ HandledAtMostOnce
    /\ AckedInv
    /\ PendingAccountedFor
    /\ \A e \in Entries : e \notin Delivered => Untouched(e)
    /\ \A p \in Processes : BatchInv(p)
-----------------------------------------------------------------------------
(* A read delivers the entries after the last delivered one, and no other. *)
LEMMA DeliverExtends ==
    ASSUME TypeOK, Deliver
    PROVE  /\ next' \in 0..added' /\ added' = added
           /\ Delivered' = Delivered \cup Undelivered
           /\ Undelivered \cap Delivered = {}
           /\ Undelivered \subseteq Entries
           /\ pending' = pending \cup Undelivered
           /\ times' \in [Entries -> Nat]
  <1>1. /\ next \in Nat /\ added \in Nat /\ Count \in Nat \ {0} /\ Length \in Nat
        /\ next <= added /\ added <= Length
    BY LimitsAssumption DEF TypeOK
  <1>2. next' \in 0..added' /\ added' = added
    BY <1>1 DEF Deliver
  <1>3. Delivered' = Delivered \cup Undelivered
    BY <1>1 DEF Deliver, Delivered, Undelivered
  <1>4. Undelivered \cap Delivered = {} /\ Undelivered \subseteq Entries
    BY <1>1 DEF Delivered, Undelivered, Entries
  <1>5. times' \in [Entries -> Nat]
    BY DEF Deliver, TypeOK
  <1> QED BY <1>2, <1>3, <1>4, <1>5 DEF Deliver

(* What a process knows of its batch outlasts the steps of the others.     *)
LEMMA OthersKeep ==
    ASSUME IInv, NEW q \in Processes,
           pc'[q] = pc[q], batch'[q] = batch[q], failures \subseteq failures',
           \A d \in batch[q] : /\ handled'[d] = handled[d]
                               /\ d \in deadLetters' <=> d \in deadLetters
    PROVE  BatchInv(q)'
  <1>1. \A d : Head(q, d)' <=> Head(q, d)
    BY DEF Head
  <1> QED BY <1>1 DEF IInv, BatchInv, Untouched

(* The entries are delivered ones, and those delivered are of the stream.  *)
LEMMA BatchEntries ==
    ASSUME TypeOK, NEW p \in Processes
    PROVE  batch[p] \subseteq pending /\ pending \subseteq Delivered /\ Delivered \subseteq Entries
  BY LimitsAssumption DEF TypeOK, Delivered, Entries

(* A process works on one entry at a time: the first of its batch.         *)
LEMMA HeadUnique ==
    ASSUME TypeOK, NEW p \in Processes, NEW e, NEW d, Head(p, e), Head(p, d)
    PROVE  e = d
  <1>1. batch[p] \subseteq Nat
    BY BatchEntries DEF Entries
  <1> QED BY <1>1 DEF Head

(* The entry a process works on is in no other hands.                      *)
LEMMA NobodyElses ==
    ASSUME TypeOK, NEW p \in Processes, NEW q \in Processes, p # q, NEW e \in batch[p]
    PROVE  e \notin batch[q]
  BY DEF TypeOK

LEMMA InitInv == Init => IInv
  <1> SUFFICES ASSUME Init PROVE IInv
    OBVIOUS
  <1>1. Delivered = {} /\ Acked = {}
    BY DEF Init, Delivered, Acked
  <1>2. TypeOK
    BY <1>1, LimitsAssumption DEF Init, TypeOK, Phases, Running
  <1>3. HandledAtMostOnce /\ AckedInv /\ PendingAccountedFor
    BY <1>1 DEF Init, HandledAtMostOnce, AckedInv, PendingAccountedFor
  <1>4. \A e \in Entries : Untouched(e)
    BY DEF Init, Untouched
  <1>5. \A p \in Processes : BatchInv(p)
    BY DEF Init, BatchInv, Working
  <1> QED BY <1>2, <1>3, <1>4, <1>5 DEF IInv

(* What the consumers do not notice: an XADD, and a fault elsewhere.       *)
LEMMA OutsideInv ==
    ASSUME IInv, added' \in added..Length, faults' \in faults..MaxFaults,
           UNCHANGED <<next, pending, times, pc, stopping, batch, effects>>
    PROVE  IInv'
  <1>1. TypeOK' /\ (faults' = 0 => faults = 0)
    BY LimitsAssumption DEF IInv, TypeOK, effects, Delivered
  <1>2. Delivered' = Delivered /\ Acked' = Acked
    BY DEF Delivered, Acked
  <1>3. \A p \in Processes : BatchInv(p)'
    BY OthersKeep DEF effects
  <1> QED
    BY <1>1, <1>2, <1>3 DEF IInv, effects, HandledAtMostOnce, AckedInv,
       PendingAccountedFor, Untouched, HandlerFound

LEMMA PublishInv ==
    ASSUME IInv, Publish PROVE IInv'
  <1>1. added' \in added..Length /\ faults' \in faults..MaxFaults
    BY LimitsAssumption DEF IInv, TypeOK, Publish
  <1> QED BY <1>1, OutsideInv DEF Publish

(* A process without a batch goes where it will without one.               *)
LEMMA MoveInv ==
    ASSUME IInv, NEW p \in Processes, NEW phase \in Phases, Goto(p, phase),
           pc[p] \notin Working, phase \notin Working,
           stopping' \subseteq Processes, UNCHANGED <<group, batch, effects, faults>>
    PROVE  IInv'
  <1>1. pc' \in [Processes -> Phases] /\ pc'[p] = phase
    BY DEF IInv, TypeOK, Goto
  <1>2. TypeOK'
    BY <1>1 DEF IInv, TypeOK, group, effects, Delivered
  <1>3. Delivered' = Delivered /\ Acked' = Acked
    BY DEF group, Delivered, Acked
  <1>4. ASSUME NEW q \in Processes PROVE BatchInv(q)'
    <2>1. CASE q = p
      BY <1>1, <2>1 DEF IInv, BatchInv, Working
    <2>2. CASE q # p
      BY <2>2, OthersKeep DEF Goto, effects, IInv, TypeOK
    <2> QED BY <2>1, <2>2
  <1> QED
    BY <1>2, <1>3, <1>4 DEF IInv, group, effects, HandledAtMostOnce, AckedInv,
       PendingAccountedFor, Untouched, HandlerFound

LEMMA StartInv ==
    ASSUME IInv, NEW p \in Processes, Start(p) PROVE IInv'
  BY MoveInv DEF Start, Running, Phases, Working, IInv, TypeOK

LEMMA LoopInv ==
    ASSUME IInv, NEW p \in Processes, Loop(p) PROVE IInv'
  BY MoveInv DEF Loop, Running, Phases, Working, IInv, TypeOK

LEMMA StopInv ==
    ASSUME IInv, NEW p \in Processes, Stop(p) PROVE IInv'
  <1>1. TypeOK'
    BY DEF IInv, TypeOK, Stop, group, effects, Delivered
  <1>2. Delivered' = Delivered /\ Acked' = Acked
    BY DEF Stop, group, Delivered, Acked
  <1>3. \A q \in Processes : BatchInv(q)'
    BY OthersKeep DEF Stop, effects
  <1> QED
    BY <1>1, <1>2, <1>3 DEF IInv, Stop, group, effects, HandledAtMostOnce, AckedInv,
       PendingAccountedFor, Untouched, HandlerFound

(* A read hands its batch to a process that has none.                      *)
LEMMA ReadInv ==
    ASSUME IInv, NEW p \in Processes, Read(p) PROVE IInv'
  <1>1. CASE Undelivered = {}
    BY <1>1, MoveInv DEF Read, Phases, Running, Working, IInv, TypeOK
  <1>2. CASE Undelivered # {}
    <2>1. /\ pc[p] = "reading" /\ Deliver
          /\ batch' = [batch EXCEPT ![p] = Undelivered]
          /\ pc' = [pc EXCEPT ![p] = "handling"]
          /\ UNCHANGED <<stopping, effects, faults>>
      BY <1>2 DEF Read, Goto
    <2>2. TypeOK /\ batch[p] = {}
      BY <2>1 DEF IInv, BatchInv, Working
    <2>3. /\ next' \in 0..added' /\ added' = added
          /\ Delivered' = Delivered \cup Undelivered
          /\ Undelivered \cap Delivered = {}
          /\ Undelivered \subseteq Entries
          /\ pending' = pending \cup Undelivered
          /\ times' \in [Entries -> Nat]
      BY <2>1, <2>2, DeliverExtends
    <2>4. /\ batch'[p] = Undelivered /\ pc'[p] = "handling"
          /\ \A q \in Processes \ {p} : batch'[q] = batch[q] /\ pc'[q] = pc[q]
          /\ pc' \in [Processes -> Phases]
      BY <2>1, <2>2 DEF TypeOK, Phases, Running
    <2>5. \A q \in Processes : batch[q] \cap Undelivered = {}
      BY <2>2, <2>3, BatchEntries
    <2>6. batch' \in [Processes -> SUBSET pending']
      BY <2>1, <2>2, <2>3 DEF TypeOK
    <2>7. \A q, r \in Processes : q # r => batch'[q] \cap batch'[r] = {}
      BY <2>2, <2>4, <2>5 DEF TypeOK
    <2>8. TypeOK'
      BY <2>1, <2>2, <2>3, <2>4, <2>6, <2>7 DEF TypeOK, effects
    <2>9. Acked' = Acked
      BY <2>2, <2>3 DEF Acked, TypeOK
    <2>10. \A e \in Undelivered : Untouched(e)
      BY <2>3 DEF IInv
    <2>11. ASSUME NEW q \in Processes PROVE BatchInv(q)'
      <3>1. CASE q = p
        BY <2>1, <2>4, <2>10, <3>1 DEF BatchInv, Working, Untouched, effects
      <3>2. CASE q # p
        BY <2>1, <2>4, <3>2, OthersKeep DEF effects
      <3> QED BY <3>1, <3>2
    <2>12. PendingAccountedFor'
      BY <2>1, <2>2, <2>3, <2>4 DEF IInv, PendingAccountedFor, effects
    <2>13. HandledAtMostOnce' /\ AckedInv'
      BY <2>1, <2>9 DEF IInv, HandledAtMostOnce, AckedInv, HandlerFound, effects
    <2>14. \A e \in Entries : e \notin Delivered' => Untouched(e)'
      BY <2>1, <2>3 DEF IInv, Untouched, effects
    <2> QED BY <2>8, <2>11, <2>12, <2>13, <2>14 DEF IInv
  <1> QED BY <1>1, <1>2

(* A process that is through with the entry at hand has clean hands.       *)
LEMMA DoneBatch ==
    ASSUME IInv, NEW p \in Processes, NEW e, Head(p, e), Done(p, e), UNCHANGED effects
    PROVE  /\ BatchInv(p)'
           /\ batch'[p] = batch[p] \ {e}
           /\ \A q \in Processes \ {p} : batch'[q] = batch[q] /\ pc'[q] = pc[q]
           /\ pc' \in [Processes -> Phases]
           /\ batch' \in [Processes -> SUBSET pending]
  <1> DEFINE phase == IF batch[p] = {e} THEN "loop" ELSE "handling"
  <1>1. phase \in Phases /\ TypeOK
    BY DEF Phases, Running, IInv
  <1>2. /\ batch' = [batch EXCEPT ![p] = batch[p] \ {e}]
        /\ pc' = [pc EXCEPT ![p] = phase]
    BY DEF Done, Goto
  <1>3. batch[p] \ {e} \in SUBSET pending
    BY <1>1, BatchEntries
  <1>4. /\ batch'[p] = batch[p] \ {e} /\ pc'[p] = phase
        /\ \A q \in Processes \ {p} : batch'[q] = batch[q] /\ pc'[q] = pc[q]
        /\ pc' \in [Processes -> Phases]
        /\ batch' \in [Processes -> SUBSET pending]
    BY <1>1, <1>2, <1>3 DEF TypeOK
  <1>5. \A d \in batch[p] \ {e} : Untouched(d)
    BY <1>1, HeadUnique DEF IInv, BatchInv
  <1>6. BatchInv(p)'
    <2>1. e \in batch[p]
      BY DEF Head
    <2>2. batch[p] = {e} => batch'[p] = {}
      BY <1>4
    <2>3. pc'[p] \notin Working => batch'[p] = {}
      BY <1>4, <2>2 DEF Working
    <2>4. pc'[p] \notin {"failed", "dying", "acking"}
      BY <1>4
    <2>5. \A d \in batch'[p] : Untouched(d)'
      BY <1>4, <1>5 DEF Untouched, effects
    <2> QED BY <2>3, <2>4, <2>5 DEF BatchInv
  <1> QED BY <1>4, <1>6

(* An acknowledgement with a reason, after which the process has others    *)
(* of its entries in hand, or none because it lost them.                   *)
LEMMA AcknowledgeInv ==
    ASSUME IInv, NEW p \in Processes, NEW e \in batch[p],
           pending' = pending \ {e},
           UNCHANGED <<added, next, times, stopping, effects>>,
           pc' \in [Processes -> Phases], batch' \in [Processes -> SUBSET pending],
           batch'[p] \subseteq batch[p] \ {e},
           \A q \in Processes \ {p} : batch'[q] = batch[q] /\ pc'[q] = pc[q],
           faults' \in 0..MaxFaults,
           faults' = 0 => faults = 0 /\ batch'[p] = batch[p] \ {e},
           BatchInv(p)',
           handled[e] > 0 \/ e \in deadLetters \/ ~HandlerFound(e)
    PROVE  IInv'
  <1>1. TypeOK
    BY DEF IInv
  <1>2. \A q \in Processes : batch'[q] \subseteq batch[q] /\ e \notin batch'[q]
    BY <1>1, NobodyElses
  <1>3. batch' \in [Processes -> SUBSET pending']
    BY <1>2
  <1>4. Delivered' = Delivered /\ Acked' = Acked \cup {e}
    BY <1>1, BatchEntries DEF Delivered, Acked
  <1>5. TypeOK'
    BY <1>1, <1>2, <1>3, <1>4 DEF TypeOK, effects
  <1>6. ASSUME NEW q \in Processes PROVE BatchInv(q)'
    <2>1. CASE q # p
      BY <2>1, OthersKeep DEF effects
    <2> QED BY <2>1
  <1>7. PendingAccountedFor'
    <2> SUFFICES ASSUME faults' = 0, NEW d \in pending', d \notin failures
                 PROVE  \E q \in Processes : d \in batch'[q]
      BY DEF PendingAccountedFor, effects
    <2>1. d \in pending /\ d # e /\ faults = 0
      OBVIOUS
    <2>2. PICK q \in Processes : d \in batch[q]
      BY <2>1 DEF IInv, PendingAccountedFor
    <2> QED BY <2>1, <2>2
  <1>8. HandledAtMostOnce' /\ AckedInv'
    BY <1>4 DEF IInv, HandledAtMostOnce, AckedInv, HandlerFound, effects
  <1>9. \A d \in Entries : d \notin Delivered' => Untouched(d)'
    BY <1>4 DEF IInv, Untouched, effects
  <1> QED BY <1>5, <1>6, <1>7, <1>8, <1>9 DEF IInv

LEMMA SkipInv ==
    ASSUME IInv, NEW p \in Processes, NEW e, Skip(p, e) PROVE IInv'
  <1>1. e \in batch[p] /\ Head(p, e) /\ ~HandlerFound(e)
    BY DEF Skip, Head
  <1> QED BY <1>1, DoneBatch, AcknowledgeInv DEF Skip, IInv, TypeOK

LEMMA AckInv ==
    ASSUME IInv, NEW p \in Processes, NEW e, Ack(p, e) PROVE IInv'
  <1>1. e \in batch[p] /\ Head(p, e) /\ pc[p] = "acking"
    BY DEF Ack, Head
  <1>2. handled[e] > 0 \/ e \in deadLetters
    BY <1>1 DEF IInv, BatchInv
  <1> QED BY <1>1, <1>2, DoneBatch, AcknowledgeInv DEF Ack, IInv, TypeOK

(* The steps that leave the group and the batches alone: something becomes *)
(* of the entry that p has at hand, and of no other.                       *)
LEMMA EffectInv ==
    ASSUME IInv, NEW p \in Processes, NEW e, Head(p, e),
           NEW phase \in Phases, Goto(p, phase),
           UNCHANGED <<group, stopping, batch, faults>>,
           handled' \in [Entries -> Nat],
           \A d \in Entries \ {e} : handled'[d] = handled[d],
           failures' \in {failures, failures \cup {e}},
           deadLetters' \in {deadLetters, deadLetters \cup {e}}, deadLetters' \subseteq failures',
           handled'[e] <= 1, e \in deadLetters' => handled'[e] = 0,
           BatchInv(p)'
    PROVE  IInv'
  <1>1. TypeOK /\ e \in batch[p] /\ e \in pending /\ e \in Delivered /\ e \in Entries
    BY BatchEntries DEF IInv, Head
  <1>2. Delivered' = Delivered /\ Acked' = Acked /\ pending' = pending /\ batch' = batch
    BY DEF group, Delivered, Acked
  <1>3. /\ pc' \in [Processes -> Phases]
        /\ \A q \in Processes \ {p} : pc'[q] = pc[q]
    BY <1>1 DEF Goto, TypeOK
  <1>4. TypeOK'
    BY <1>1, <1>2, <1>3 DEF TypeOK, group
  <1>5. ASSUME NEW q \in Processes PROVE BatchInv(q)'
    <2>1. CASE q # p
      <3>1. e \notin batch[q] /\ batch[q] \subseteq Entries
        BY <1>1, <2>1, BatchEntries, NobodyElses
      <3>2. \A d \in batch[q] : /\ handled'[d] = handled[d]
                                /\ d \in deadLetters' <=> d \in deadLetters
        BY <3>1
      <3> QED BY <1>2, <1>3, <2>1, <3>2, OthersKeep
    <2> QED BY <2>1
  <1>6. PendingAccountedFor'
    BY <1>2 DEF IInv, PendingAccountedFor
  <1>7. HandledAtMostOnce'
    BY <1>1 DEF IInv, HandledAtMostOnce
  <1>8. e \notin Acked /\ Acked \subseteq Entries
    BY <1>1, BatchEntries DEF Acked
  <1>9. AckedInv'
    BY <1>2, <1>8 DEF IInv, AckedInv, HandlerFound
  <1>10. \A d \in Entries : d \notin Delivered' => Untouched(d)'
    BY <1>1, <1>2 DEF IInv, Untouched
  <1> QED BY <1>4, <1>5, <1>6, <1>7, <1>9, <1>10 DEF IInv

(* The rest of the batch stays as it was while its first entry is at hand. *)
LEMMA RestUntouched ==
    ASSUME IInv, NEW p \in Processes, NEW e, Head(p, e)
    PROVE  /\ e \in batch[p] /\ e \in Entries
           /\ \A d : Head(p, d) => d = e
           /\ \A d \in batch[p] \ {e} : d \in Entries /\ Untouched(d)
           /\ pc[p] # "acking" => Untouched(e)
  BY BatchEntries, HeadUnique DEF IInv, BatchInv, Head

LEMMA HandleOKInv ==
    ASSUME IInv, NEW p \in Processes, NEW e, HandleOK(p, e) PROVE IInv'
  <1>1. /\ Head(p, e) /\ pc[p] = "handling" /\ Goto(p, "acking") /\ "acking" \in Phases
        /\ handled' = [handled EXCEPT ![e] = @ + 1]
        /\ UNCHANGED <<group, stopping, batch, failures, deadLetters, faults>>
    BY DEF HandleOK, Phases, Running
  <1>2. TypeOK /\ Untouched(e) /\ e \in batch[p] /\ e \in Entries
    BY <1>1, RestUntouched DEF IInv
  <1>3. /\ handled' \in [Entries -> Nat]
        /\ handled'[e] = 1
        /\ \A d \in Entries \ {e} : handled'[d] = handled[d]
    BY <1>1, <1>2 DEF TypeOK, Untouched
  <1>4. pc'[p] = "acking"
    BY <1>1, <1>2 DEF TypeOK, Goto
  <1>5. \A d \in batch'[p] : IF Head(p, d)' THEN handled'[d] > 0 ELSE Untouched(d)'
    <2>1. \A d : Head(p, d)' <=> Head(p, d)
      BY <1>1 DEF Head
    <2> QED BY <1>1, <1>3, <2>1, RestUntouched DEF Untouched
  <1>6. BatchInv(p)'
    BY <1>4, <1>5 DEF BatchInv, Working
  <1> QED BY <1>1, <1>2, <1>3, <1>6, EffectInv DEF Untouched, TypeOK

LEMMA HandleFailsInv ==
    ASSUME IInv, NEW p \in Processes, NEW e, HandleFails(p, e) PROVE IInv'
  <1>1. /\ Head(p, e) /\ pc[p] = "handling" /\ Goto(p, "failed") /\ "failed" \in Phases
        /\ failures' = failures \cup {e}
        /\ UNCHANGED <<group, stopping, batch, handled, deadLetters, faults>>
    BY DEF HandleFails, Phases, Running
  <1>2. TypeOK /\ Untouched(e) /\ e \in Entries
    BY <1>1, RestUntouched DEF IInv
  <1>3. pc'[p] = "failed"
    BY <1>1 DEF TypeOK, Goto, IInv
  <1>4. \A d \in batch'[p] : Untouched(d)' /\ (Head(p, d)' => d \in failures')
    <2>1. \A d : Head(p, d)' <=> Head(p, d)
      BY <1>1 DEF Head
    <2> QED BY <1>1, <1>2, <2>1, RestUntouched DEF Untouched
  <1>5. BatchInv(p)'
    BY <1>3, <1>4 DEF BatchInv, Working
  <1> QED BY <1>1, <1>2, <1>5, EffectInv DEF Untouched, TypeOK

LEMMA DeadLetterInv ==
    ASSUME IInv, NEW p \in Processes, NEW e, DeadLetter(p, e) PROVE IInv'
  <1>1. /\ Head(p, e) /\ pc[p] = "dying" /\ Goto(p, "acking") /\ "acking" \in Phases
        /\ deadLetters' = deadLetters \cup {e}
        /\ UNCHANGED <<group, stopping, batch, handled, failures, faults>>
    BY DEF DeadLetter, Phases, Running
  <1>2. /\ TypeOK /\ Untouched(e) /\ e \in batch[p] /\ e \in Entries
        /\ e \in failures
    BY <1>1, RestUntouched DEF IInv, BatchInv
  <1>3. pc'[p] = "acking"
    BY <1>1, <1>2 DEF TypeOK, Goto
  <1>4. \A d \in batch'[p] : IF Head(p, d)' THEN d \in deadLetters' ELSE Untouched(d)'
    <2>1. \A d : Head(p, d)' <=> Head(p, d)
      BY <1>1 DEF Head
    <2> QED BY <1>1, <2>1, RestUntouched DEF Untouched
  <1>5. BatchInv(p)'
    BY <1>3, <1>4 DEF BatchInv, Working
  <1> QED BY <1>1, <1>2, <1>5, EffectInv DEF Untouched, TypeOK

(* A failed entry is left pending, or on its way to the dead letters.      *)
LEMMA JudgeInv ==
    ASSUME IInv, NEW p \in Processes, NEW e, Judge(p, e) PROVE IInv'
  <1>1. Head(p, e) /\ pc[p] = "failed" /\ UNCHANGED <<group, stopping, effects, faults>>
    BY DEF Judge
  <1>2. TypeOK /\ Untouched(e) /\ e \in batch[p] /\ e \in Entries /\ e \in failures
    BY <1>1, RestUntouched DEF IInv, BatchInv
  <1>3. CASE Goto(p, "dying") /\ UNCHANGED batch
    <2>1. pc'[p] = "dying" /\ "dying" \in Phases
      BY <1>2, <1>3 DEF TypeOK, Goto, Phases, Running
    <2>2. \A d \in batch'[p] : Untouched(d)' /\ (Head(p, d)' => d \in failures')
      <3>1. \A d : Head(p, d)' <=> Head(p, d)
        BY <1>3 DEF Head
      <3> QED BY <1>1, <1>2, <1>3, <3>1, RestUntouched DEF Untouched, effects
    <2>3. BatchInv(p)'
      BY <2>1, <2>2 DEF BatchInv, Working
    <2> QED BY <1>1, <1>2, <1>3, <2>1, <2>3, EffectInv DEF Untouched, TypeOK, effects
  <1>4. CASE Done(p, e)
    <2>1. /\ BatchInv(p)'
          /\ batch'[p] = batch[p] \ {e}
          /\ \A q \in Processes \ {p} : batch'[q] = batch[q] /\ pc'[q] = pc[q]
          /\ pc' \in [Processes -> Phases]
          /\ batch' \in [Processes -> SUBSET pending]
      BY <1>1, <1>4, DoneBatch
    <2>2. Delivered' = Delivered /\ Acked' = Acked /\ pending' = pending
      BY <1>1 DEF group, Delivered, Acked
    <2>3. TypeOK'
      BY <1>1, <1>2, <2>1, <2>2 DEF TypeOK, group, effects
    <2>4. ASSUME NEW q \in Processes PROVE BatchInv(q)'
      <3>1. CASE q # p
        BY <1>1, <2>1, <3>1, OthersKeep DEF effects
      <3> QED BY <2>1, <3>1
    <2>5. PendingAccountedFor'
      <3> SUFFICES ASSUME faults = 0, NEW d \in pending, d \notin failures
                   PROVE  \E q \in Processes : d \in batch'[q]
        BY <1>1, <2>2 DEF PendingAccountedFor, effects
      <3>1. PICK q \in Processes : d \in batch[q]
        BY DEF IInv, PendingAccountedFor
      <3> QED BY <1>2, <2>1, <3>1
    <2>6. HandledAtMostOnce' /\ AckedInv' /\ \A d \in Entries : d \notin Delivered' => Untouched(d)'
      BY <1>1, <2>2 DEF IInv, HandledAtMostOnce, AckedInv, HandlerFound, Untouched, effects
    <2> QED BY <2>3, <2>4, <2>5, <2>6 DEF IInv
  <1> QED BY <1>3, <1>4 DEF Judge

(* A process that dies, or whose loop ends by an exception, drops its      *)
(* batch, whatever of its last command has been carried out.               *)
LEMMA LostInv ==
    ASSUME IInv, NEW p \in Processes, NEW phase \in {"down", "dead"}, Lost(p, phase)
    PROVE  IInv'
  <1>1. /\ TypeOK /\ stopping' = stopping
        /\ faults' \in 0..MaxFaults /\ faults' # 0
    BY LimitsAssumption DEF IInv, TypeOK, Lost
  <1>2. /\ pc'[p] = phase /\ batch'[p] = {}
        /\ \A q \in Processes \ {p} : batch'[q] = batch[q] /\ pc'[q] = pc[q]
        /\ pc' \in [Processes -> Phases]
        /\ batch' \in [Processes -> SUBSET pending]
    BY <1>1 DEF Lost, Goto, TypeOK, Phases
  <1>3. BatchInv(p)'
    BY <1>2 DEF BatchInv, Working
  <1>4. PendingAccountedFor'
    BY <1>1 DEF PendingAccountedFor
  <1>5. \A q, r \in Processes : q # r => batch'[q] \cap batch'[r] = {}
    BY <1>1, <1>2 DEF TypeOK
  <1>6. CASE UNCHANGED <<group, effects>>
    <2>1. Delivered' = Delivered /\ Acked' = Acked /\ pending' = pending
      BY <1>6 DEF group, Delivered, Acked
    <2>2. TypeOK'
      BY <1>1, <1>2, <1>5, <1>6, <2>1 DEF TypeOK, group, effects
    <2>3. \A q \in Processes : BatchInv(q)'
      BY <1>2, <1>3, <1>6, OthersKeep DEF effects
    <2>4. HandledAtMostOnce' /\ AckedInv' /\ \A d \in Entries : d \notin Delivered' => Untouched(d)'
      BY <1>6, <2>1 DEF IInv, HandledAtMostOnce, AckedInv, HandlerFound, Untouched, effects
    <2> QED BY <1>4, <2>2, <2>3, <2>4 DEF IInv
  <1>7. CASE Deliver /\ UNCHANGED effects
    <2>1. /\ next' \in 0..added' /\ added' = added
          /\ Delivered' = Delivered \cup Undelivered
          /\ Undelivered \cap Delivered = {}
          /\ Undelivered \subseteq Entries
          /\ pending' = pending \cup Undelivered
          /\ times' \in [Entries -> Nat]
      BY <1>1, <1>7, DeliverExtends
    <2>2. batch' \in [Processes -> SUBSET pending']
      BY <1>2, <2>1
    <2>3. TypeOK'
      BY <1>1, <1>2, <1>5, <1>7, <2>1, <2>2 DEF TypeOK, effects
    <2>4. Acked' = Acked
      BY <1>1, <2>1 DEF Acked, TypeOK
    <2>5. \A q \in Processes : BatchInv(q)'
      BY <1>2, <1>3, <1>7, OthersKeep DEF effects
    <2>6. HandledAtMostOnce' /\ AckedInv'
      BY <1>7, <2>4 DEF IInv, HandledAtMostOnce, AckedInv, HandlerFound, effects
    <2>7. \A d \in Entries : d \notin Delivered' => Untouched(d)'
      BY <1>7, <2>1 DEF IInv, Untouched, effects
    <2> QED BY <1>4, <2>3, <2>5, <2>6, <2>7 DEF IInv
  <1>8. CASE \E e \in batch[p] : /\ Head(p, e) /\ pc[p] = "dying"
                                 /\ deadLetters' = deadLetters \cup {e}
                                 /\ UNCHANGED <<group, handled, failures>>
    <2>1. PICK e \in batch[p] : /\ Head(p, e) /\ pc[p] = "dying"
                                /\ deadLetters' = deadLetters \cup {e}
                                /\ UNCHANGED <<group, handled, failures>>
      BY <1>8
    <2>2. e \in failures /\ Untouched(e) /\ e \in pending /\ e \in Delivered
      BY <1>1, <2>1, RestUntouched, BatchEntries DEF IInv, BatchInv
    <2>3. Delivered' = Delivered /\ Acked' = Acked /\ pending' = pending
      BY <2>1 DEF group, Delivered, Acked
    <2>4. TypeOK'
      BY <1>1, <1>2, <1>5, <2>1, <2>2, <2>3 DEF TypeOK, group
    <2>5. ASSUME NEW q \in Processes PROVE BatchInv(q)'
      <3>1. CASE q # p
        <4>1. e \notin batch[q]
          BY <1>1, <3>1, NobodyElses
        <4> QED BY <1>2, <2>1, <3>1, <4>1, OthersKeep
      <3> QED BY <1>3, <3>1
    <2>6. HandledAtMostOnce' /\ AckedInv' /\ \A d \in Entries : d \notin Delivered' => Untouched(d)'
      BY <2>1, <2>2, <2>3 DEF IInv, HandledAtMostOnce, AckedInv, HandlerFound, Untouched
    <2> QED BY <1>4, <2>4, <2>5, <2>6 DEF IInv
  <1>9. CASE \E e \in batch[p] : /\ Head(p, e)
                                 /\ pc[p] = "acking" \/ (pc[p] = "handling" /\ ~HandlerFound(e))
                                 /\ pending' = pending \ {e}
                                 /\ UNCHANGED <<added, next, times, effects>>
    <2>1. PICK e \in batch[p] : /\ Head(p, e)
                                /\ pc[p] = "acking" \/ (pc[p] = "handling" /\ ~HandlerFound(e))
                                /\ pending' = pending \ {e}
                                /\ UNCHANGED <<added, next, times, effects>>
      BY <1>9
    <2>2. handled[e] > 0 \/ e \in deadLetters \/ ~HandlerFound(e)
      BY <2>1 DEF IInv, BatchInv
    <2> QED BY <1>1, <1>2, <1>3, <2>1, <2>2, AcknowledgeInv
  <1> QED BY <1>6, <1>7, <1>8, <1>9 DEF Lost, InFlight

LEMMA NextInv == IInv /\ [Next]_vars => IInv'
  <1> SUFFICES ASSUME IInv, [Next]_vars PROVE IInv'
    OBVIOUS
  <1>1. ASSUME NEW p \in Processes, Advance(p) PROVE IInv'
    BY <1>1, LoopInv, ReadInv, SkipInv, HandleOKInv, HandleFailsInv, JudgeInv, DeadLetterInv,
       AckInv DEF Advance
  <1>2. ASSUME NEW p \in Processes, Crash(p) \/ RedisError(p) PROVE IInv'
    BY <1>2, LostInv DEF Crash, RedisError
  <1>3. CASE UNCHANGED vars
    <2>1. TypeOK' /\ Delivered' = Delivered /\ Acked' = Acked
      BY <1>3 DEF IInv, TypeOK, vars, Delivered, Acked
    <2>2. \A p \in Processes : BatchInv(p)'
      BY <1>3, OthersKeep DEF vars
    <2> QED
      BY <1>3, <2>1, <2>2 DEF vars, IInv, HandledAtMostOnce, AckedInv, PendingAccountedFor,
         HandlerFound, Untouched
  <1> QED BY <1>1, <1>2, <1>3, PublishInv, StartInv, StopInv DEF Next

THEOREM Inductive == Spec => []IInv
  <1> QED BY InitInv, NextInv, PTL DEF Spec
-----------------------------------------------------------------------------
(* An entry that failed is never handled again: a process has no failed    *)
(* entry in hand but the one it has just failed on.                        *)
FreshInv(p) ==
    \A e \in batch[p] : pc[p] = "handling" \/ ~Head(p, e) => e \notin failures

FailedInv ==
    /\ \A e \in failures : handled[e] = 0
    /\ \A p \in Processes : FreshInv(p)

(* On to the next entry of the batch.                                      *)
LEMMA DoneFresh ==
    ASSUME TypeOK, FailedInv, NEW p \in Processes, NEW e, Head(p, e), Done(p, e),
           UNCHANGED effects
    PROVE  FailedInv'
  <1>1. \A d \in batch[p] \ {e} : ~Head(p, d)
    BY HeadUnique
  <1>2. \A q \in Processes \ {p} : batch'[q] = batch[q] /\ pc'[q] = pc[q]
    BY DEF TypeOK, Done, Goto
  <1>3. batch'[p] = batch[p] \ {e}
    BY DEF TypeOK, Done
  <1>4. FreshInv(p)'
    BY <1>1, <1>3 DEF FailedInv, FreshInv, effects
  <1>5. \A q \in Processes \ {p} : FreshInv(q)'
    BY <1>2 DEF FailedInv, FreshInv, Head, effects
  <1> QED BY <1>4, <1>5 DEF FailedInv, effects

(* On to another phase of the same entry, or without one.                  *)
LEMMA GotoFresh ==
    ASSUME TypeOK, FailedInv, NEW p \in Processes, NEW phase, phase # "handling",
           Goto(p, phase), UNCHANGED <<batch, failures>>,
           \A e \in failures : handled'[e] = handled[e]
    PROVE  FailedInv'
  <1>1. pc'[p] = phase /\ \A q \in Processes \ {p} : pc'[q] = pc[q]
    BY DEF Goto, TypeOK
  <1>2. \A q \in Processes : FreshInv(q)'
    BY <1>1 DEF FailedInv, FreshInv, Head
  <1> QED BY <1>2 DEF FailedInv

LEMMA ReadFresh ==
    ASSUME IInv, FailedInv, NEW p \in Processes, Read(p)
    PROVE  FailedInv'
  <1>1. TypeOK
    BY DEF IInv
  <1>2. CASE Undelivered = {}
    BY <1>1, <1>2, GotoFresh DEF Read, effects
  <1>3. CASE Undelivered # {}
    <2>1. /\ Deliver /\ batch' = [batch EXCEPT ![p] = Undelivered]
          /\ pc' = [pc EXCEPT ![p] = "handling"] /\ UNCHANGED effects
      BY <1>3 DEF Read, Goto
    <2>2. \A e \in Undelivered : e \notin failures
      BY <1>1, <2>1, DeliverExtends DEF TypeOK
    <2>3. batch'[p] = Undelivered
          /\ \A q \in Processes \ {p} : batch'[q] = batch[q] /\ pc'[q] = pc[q]
      BY <1>1, <2>1 DEF TypeOK
    <2>4. \A q \in Processes : FreshInv(q)'
      BY <2>1, <2>2, <2>3 DEF FailedInv, FreshInv, Head, effects
    <2> QED BY <2>1, <2>4 DEF FailedInv, effects
  <1> QED BY <1>2, <1>3

LEMMA HandleFresh ==
    ASSUME IInv, FailedInv, NEW p \in Processes, NEW e, HandleOK(p, e) \/ HandleFails(p, e)
    PROVE  FailedInv'
  <1>1. TypeOK /\ e \in batch[p] /\ Head(p, e) /\ pc[p] = "handling" /\ e \notin failures
    BY DEF IInv, HandleOK, HandleFails, Head, FailedInv, FreshInv
  <1>2. CASE HandleOK(p, e)
    <2>1. \A d \in failures : handled'[d] = handled[d]
      BY <1>1, <1>2 DEF HandleOK, TypeOK
    <2> QED BY <1>1, <1>2, <2>1, GotoFresh DEF HandleOK
  <1>3. CASE HandleFails(p, e)
    <2>1. /\ failures' = failures \cup {e} /\ UNCHANGED <<batch, handled>>
          /\ pc'[p] = "failed" /\ \A q \in Processes \ {p} : pc'[q] = pc[q]
      BY <1>1, <1>3 DEF HandleFails, Goto, TypeOK
    <2>2. handled[e] = 0
      BY <1>1 DEF IInv, BatchInv, Untouched
    <2>3. FreshInv(p)'
      BY <1>1, <2>1 DEF FailedInv, FreshInv, Head
    <2>4. ASSUME NEW q \in Processes, q # p PROVE FreshInv(q)'
      BY <1>1, <2>1, <2>4, NobodyElses DEF FailedInv, FreshInv, Head
    <2> QED BY <2>1, <2>2, <2>3, <2>4 DEF FailedInv
  <1> QED BY <1>2, <1>3

LEMMA AdvanceFresh ==
    ASSUME IInv, FailedInv, NEW p \in Processes, Advance(p)
    PROVE  FailedInv'
  <1>1. TypeOK
    BY DEF IInv
  <1>2. CASE Loop(p)
    BY <1>1, <1>2, GotoFresh DEF Loop, effects
  <1>3. ASSUME NEW e \in Entries, Skip(p, e) \/ Ack(p, e) PROVE FailedInv'
    BY <1>1, <1>3, DoneFresh DEF Skip, Ack
  <1>4. ASSUME NEW e \in Entries, Judge(p, e) PROVE FailedInv'
    <2>1. CASE Deliveries >= MaxDeliveries
      BY <1>1, <1>4, <2>1, GotoFresh DEF Judge, effects
    <2>2. CASE ~(Deliveries >= MaxDeliveries)
      BY <1>1, <1>4, <2>2, DoneFresh DEF Judge
    <2> QED BY <2>1, <2>2
  <1>5. ASSUME NEW e \in Entries, DeadLetter(p, e) PROVE FailedInv'
    BY <1>1, <1>5, GotoFresh DEF DeadLetter
  <1> QED BY <1>2, <1>3, <1>4, <1>5, ReadFresh, HandleFresh DEF Advance

LEMMA LostFresh ==
    ASSUME IInv, FailedInv, NEW p \in Processes, NEW phase, Lost(p, phase)
    PROVE  FailedInv'
  <1>1. UNCHANGED <<handled, failures>>
    BY DEF Lost, InFlight, effects
  <1>2. batch'[p] = {} /\ \A q \in Processes \ {p} : batch'[q] = batch[q] /\ pc'[q] = pc[q]
    BY DEF Lost, Goto, IInv, TypeOK
  <1>3. \A q \in Processes : FreshInv(q)'
    BY <1>1, <1>2 DEF FailedInv, FreshInv, Head
  <1> QED BY <1>1, <1>3 DEF FailedInv

LEMMA OutsideFresh ==
    ASSUME FailedInv, UNCHANGED <<pc, batch, handled, failures>>
    PROVE  FailedInv'
  BY DEF FailedInv, FreshInv, Head

LEMMA StartFresh ==
    ASSUME IInv, FailedInv, NEW p \in Processes, Start(p)
    PROVE  FailedInv'
  BY GotoFresh DEF Start, effects, IInv

LEMMA FailedInductive == Spec => []FailedInv
  <1>1. Init => FailedInv
    BY DEF Init, FailedInv, FreshInv
  <1>2. IInv /\ FailedInv /\ [Next]_vars => FailedInv'
    BY AdvanceFresh, LostFresh, StartFresh, OutsideFresh
       DEF Next, Publish, Stop, Crash, RedisError, effects, vars
  <1> QED BY <1>1, <1>2, Inductive, PTL DEF Spec
-----------------------------------------------------------------------------
(* The group, its entries and the batches of the processes keep their      *)
(* domains; what a process works on is pending, and in nobody else's       *)
(* hands, however reads, crashes and restarts interleave.                  *)
THEOREM TypeCorrect == Spec => []TypeOK
  <1>1. IInv => TypeOK
    BY DEF IInv
  <1> QED BY Inductive, <1>1, PTL

(* Worker instances share the stream without double-processing: a handler  *)
(* succeeds at most once on an entry, and on none that was dead-lettered.  *)
THEOREM NoDoubleProcessing == Spec => []HandledAtMostOnce
  <1>1. IInv => HandledAtMostOnce
    BY DEF IInv
  <1> QED BY Inductive, <1>1, PTL

(* Without a crash or a Redis error, an unacknowledged entry has failed or *)
(* is in some process's batch, also in that of one asked to stop.          *)
THEOREM NothingAbandoned == Spec => []PendingAccountedFor
  <1>1. IInv => PendingAccountedFor
    BY DEF IInv
  <1> QED BY Inductive, <1>1, PTL

(* The reason behind each XACK, whatever the client's configuration: a     *)
(* handler succeeded, the dead letters have the entry, or the lookup by    *)
(* its event_type found no handler.                                        *)
THEOREM AcknowledgedForAReason == Spec => []AckedInv
  <1>1. IInv => AckedInv
    BY DEF IInv
  <1> QED BY Inductive, <1>1, PTL

(* No handler ever succeeds on an entry that one raised on: what fails is  *)
(* not delivered a second time.                                            *)
THEOREM FailedForGood == Spec => [](\A e \in failures : handled[e] = 0)
  <1>1. FailedInv => \A e \in failures : handled[e] = 0
    BY DEF FailedInv
  <1> QED BY <1>1, FailedInductive, PTL

(* With a client that decodes what it reads, as the API's is built and the *)
(* worker's is not, no entry somebody registered for is acknowledged       *)
(* before a handler succeeded on it or it is in the dead-letter stream.    *)
THEOREM AcknowledgedIsAccountedFor ==
    ASSUME DecodeResponses
    PROVE  Spec => []AckedAccountedFor
  <1>1. IInv => AckedAccountedFor
    BY DEF IInv, AckedInv, AckedAccountedFor, HandlerFound
  <1> QED BY Inductive, <1>1, PTL
=============================================================================
