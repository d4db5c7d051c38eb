------------------------ MODULE Idempotency_proofs -------------------------
(***************************************************************************)
(* Proofs about Idempotency, for any requests of a key and whatever        *)
(* payloads they carry.                                                    *)
(***************************************************************************)
EXTENDS Idempotency, TLAPS

Stored == stored # Free

(* Until a request has called the handler, its command has not executed;   *)
(* while it stores, it holds its own result, which was not yet forgotten.  *)
ProgressInv(r) ==
    /\ pc[r] \in {"new", "lookup", "lock", "calling"} => r \notin executed
    /\ pc[r] = "storing" => /\ r \in executed \ forgotten
                            /\ result[r] = [of |-> r, form |-> "dto"]
    /\ pc[r] = "releasing" => pending[r] # NoAnswer

(* A request leaves with its own result, once that was stored.             *)
PendingInv(r) ==
    pending[r].code = "result" =>
        /\ pc[r] \in {"releasing", "over"}
        /\ r \in executed
        /\ pending[r].result \in Result /\ pending[r].result.of = r
        /\ r \notin forgotten => Stored

(* A result somebody was answered with stays available until Redis has     *)
(* forgotten it.                                                           *)
AnswerInv(r) ==
    answer[r].code = "result" =>
        /\ answer[r].result \in Result
        /\ answer[r].result.of \in executed
        /\ SamePayload(r, answer[r].result.of)
        /\ pc[answer[r].result.of] \in {"releasing", "over"}
        /\ Remembered(r) => Stored

(* Until a lock has expired under its request, who is past it has it.      *)
LockInv(r) == ~overrun /\ pc[r] \in Locked => lock = r

OtherExecuted(r) == \E x \in executed : ~SamePayload(x, r)

(* A request that began when an answer was to be had finds it, and goes on *)
(* only if another command of the key has replaced it.                     *)
RetryInv(r) ==
    answered[r] # {} =>
        /\ pc[r] # "new"
        /\ pc[r] = "lookup" => Stored
        /\ pc[r] \in {"lock", "calling", "storing", "releasing"} \/ r \in executed
               => OtherExecuted(r)

IInv ==
    /\ TypeOK
    /\ Stored => pc[stored.of] \in {"releasing", "over"}
    /\ \A r \in Requests : /\ ProgressInv(r) /\ PendingInv(r) /\ AnswerInv(r)
                           /\ LockInv(r) /\ RetryInv(r)
-----------------------------------------------------------------------------
Settled == {"releasing", "over"}

(* What a step of request r leaves alone: everything the others have; it   *)
(* executes at most its own command, loses no stored result, and does not  *)
(* go back once it is leaving.                                             *)
StepOf(r) ==
    /\ UNCHANGED <<payload, forgotten, overrun>>
    /\ \A q \in Requests \ {r} :
          /\ pc'[q] = pc[q] /\ result'[q] = result[q] /\ pending'[q] = pending[q]
          /\ answer'[q] = answer[q] /\ answered'[q] = answered[q]
    /\ executed' \in {executed, executed \cup {r}}
    /\ Stored => Stored'
    /\ pc[r] \in Settled => pc'[r] \in Settled

LEMMA OthersKeep ==
    ASSUME IInv, NEW r \in Requests, StepOf(r), NEW q \in Requests, q # r
    PROVE  ProgressInv(q)' /\ PendingInv(q)' /\ AnswerInv(q)' /\ RetryInv(q)'
  <1>1. ProgressInv(q) /\ PendingInv(q) /\ AnswerInv(q) /\ RetryInv(q)
    BY DEF IInv
  <1>2. ProgressInv(q)'
    BY <1>1 DEF StepOf, ProgressInv
  <1>3. PendingInv(q)'
    BY <1>1 DEF StepOf, PendingInv
  <1>4. AnswerInv(q)'
    <2> SUFFICES ASSUME answer[q].code = "result" PROVE AnswerInv(q)'
      BY DEF StepOf, AnswerInv
    <2> DEFINE x == answer[q].result.of
    <2>1. x \in Requests /\ pc[x] \in Settled
      BY <1>1 DEF AnswerInv, Settled, IInv, TypeOK
    <2>2. pc'[x] \in Settled
      BY <2>1 DEF StepOf
    <2> QED BY <1>1, <2>2 DEF StepOf, AnswerInv, SamePayload, Remembered, Settled
  <1>5. RetryInv(q)'
    BY <1>1 DEF StepOf, RetryInv, OtherExecuted, SamePayload
  <1> QED BY <1>2, <1>3, <1>4, <1>5

(* So a step of r keeps the invariant if it does for r, for the lock and   *)
(* for the stored result.                                                  *)
LEMMA StepInv ==
    ASSUME IInv, TypeOK', NEW r \in Requests, StepOf(r),
           ProgressInv(r)', PendingInv(r)', AnswerInv(r)', RetryInv(r)',
           \A q \in Requests : LockInv(q)',
           Stored' => pc'[stored'.of] \in Settled
    PROVE  IInv'
  <1>1. ASSUME NEW q \in Requests
        PROVE  ProgressInv(q)' /\ PendingInv(q)' /\ AnswerInv(q)' /\ RetryInv(q)'
    <2>1. CASE q # r
      BY <2>1, OthersKeep
    <2> QED BY <2>1
  <1> QED BY <1>1 DEF IInv, Settled

(* The lock stays with who has it.                                         *)
LEMMA LockKept ==
    ASSUME IInv, NEW r \in Requests, StepOf(r), lock' = lock,
           pc'[r] \in Locked => pc[r] \in Locked
    PROVE  \A q \in Requests : LockInv(q)'
  BY DEF IInv, LockInv, StepOf

(* Or comes free when its holder goes.                                     *)
LEMMA LockDropped ==
    ASSUME IInv, NEW r \in Requests, StepOf(r), lock' \in {lock, Free},
           pc[r] \in Locked, pc'[r] \notin Locked
    PROVE  \A q \in Requests : LockInv(q)'
  BY DEF IInv, LockInv, StepOf

(* What is stored stays that of a request that has stored.                 *)
LEMMA StoredKept ==
    ASSUME IInv, NEW r \in Requests, StepOf(r), stored' = stored
    PROVE  Stored' => pc'[stored'.of] \in Settled
  <1> SUFFICES ASSUME Stored PROVE pc'[stored.of] \in Settled
    BY DEF Stored
  <1>1. stored.of \in Requests /\ pc[stored.of] \in Settled
    BY DEF IInv, TypeOK, Stored, Settled
  <1> QED BY <1>1 DEF StepOf

(* Going to a phase, leaving for the finally clause and replying keep the  *)
(* domains.                                                                *)
LEMMA GotoTyped ==
    ASSUME TypeOK, NEW r \in Requests, NEW phase \in Phases \ {"over"}, Goto(r, phase),
           pc[r] # "over", answer' = answer
    PROVE  /\ pc' \in [Requests -> Phases] /\ pc'[r] = phase
           /\ \A q \in Requests \ {r} : pc'[q] = pc[q]
           /\ answer' \in [Requests -> Answer]
           /\ \A q \in Requests : pc'[q] = "over" <=> answer'[q] # NoAnswer
  BY DEF TypeOK, Goto

LEMMA LeaveTyped ==
    ASSUME TypeOK, NEW r \in Requests, NEW code \in AnswerCodes, NEW value \in Result \cup {Free},
           Leave(r, code, value), pc[r] # "over", answer' = answer
    PROVE  /\ pc' \in [Requests -> Phases] /\ pc'[r] = "releasing"
           /\ \A q \in Requests \ {r} : pc'[q] = pc[q] /\ pending'[q] = pending[q]
           /\ answer' \in [Requests -> Answer]
           /\ \A q \in Requests : pc'[q] = "over" <=> answer'[q] # NoAnswer
           /\ pending' \in [Requests -> Answer]
           /\ pending'[r] = [code |-> code, result |-> value]
           /\ pending'[r] # NoAnswer
  <1>1. [code |-> code, result |-> value] \in Answer \ {NoAnswer}
    BY DEF Answer, NoAnswer, AnswerCodes
  <1>2. "releasing" \in Phases \ {"over"} /\ Goto(r, "releasing")
    BY DEF Phases, Leave
  <1>3. pending' = [pending EXCEPT ![r] = [code |-> code, result |-> value]]
    BY DEF Leave
  <1> QED BY <1>1, <1>2, <1>3, GotoTyped DEF TypeOK

LEMMA ReplyTyped ==
    ASSUME TypeOK, NEW r \in Requests, NEW code \in AnswerCodes, NEW value \in Result \cup {Free},
           Reply(r, code, value), pc[r] # "over"
    PROVE  /\ pc' \in [Requests -> Phases] /\ pc'[r] = "over"
           /\ \A q \in Requests \ {r} : pc'[q] = pc[q] /\ answer'[q] = answer[q]
           /\ answer' \in [Requests -> Answer]
           /\ answer'[r] = [code |-> code, result |-> value]
           /\ \A q \in Requests : pc'[q] = "over" <=> answer'[q] # NoAnswer
  <1>1. [code |-> code, result |-> value] \in Answer \ {NoAnswer}
    BY DEF Answer, NoAnswer, AnswerCodes
  <1>2. /\ pc' = [pc EXCEPT ![r] = "over"] /\ "over" \in Phases
        /\ answer' = [answer EXCEPT ![r] = [code |-> code, result |-> value]]
    BY DEF Reply, Goto, Phases
  <1> QED BY <1>1, <1>2 DEF TypeOK
-----------------------------------------------------------------------------
LEMMA InitInv == Init => IInv
  <1> SUFFICES ASSUME Init PROVE IInv
    OBVIOUS
  <1>1. NoAnswer \in Answer /\ NoAnswer.code = "none"
    BY DEF Answer, NoAnswer
  <1>2. TypeOK
    BY <1>1 DEF Init, TypeOK, Phases
  <1>3. ~Stored
    BY DEF Init, Stored
  <1>4. \A r \in Requests : /\ ProgressInv(r) /\ PendingInv(r) /\ AnswerInv(r)
                            /\ LockInv(r) /\ RetryInv(r)
    BY <1>1 DEF Init, ProgressInv, PendingInv, AnswerInv, LockInv, RetryInv, Locked
  <1> QED BY <1>2, <1>3, <1>4 DEF IInv

LEMMA BeginInv ==
    ASSUME IInv, NEW r \in Requests, Begin(r) PROVE IInv'
  <1>1. /\ pc[r] = "new" /\ Goto(r, "lookup") /\ "lookup" \in Phases \ {"over"}
        /\ answered' = [answered EXCEPT ![r] = {q \in WithResult : Remembered(q)}]
        /\ UNCHANGED <<payload, lock, stored, result, pending, answer, executed, overrun, forgotten>>
    BY DEF Begin, Phases
  <1>2. TypeOK
    BY DEF IInv
  <1>3. /\ pc' \in [Requests -> Phases] /\ pc'[r] = "lookup"
        /\ \A q \in Requests \ {r} : pc'[q] = pc[q]
        /\ answer' \in [Requests -> Answer]
        /\ \A q \in Requests : pc'[q] = "over" <=> answer'[q] # NoAnswer
    BY <1>1, <1>2, GotoTyped
  <1>4. TypeOK'
    BY <1>1, <1>2, <1>3 DEF TypeOK, WithResult
  <1>5. StepOf(r)
    BY <1>1, <1>2, <1>3 DEF StepOf, Stored, Settled, TypeOK
  <1>6. ProgressInv(r)' /\ PendingInv(r)' /\ AnswerInv(r)'
    BY <1>1, <1>2, <1>3 DEF IInv, ProgressInv, PendingInv, AnswerInv, TypeOK, NoAnswer
  <1>7. RetryInv(r)'
    <2>1. answered'[r] = {q \in WithResult : Remembered(q)}
      BY <1>1, <1>2 DEF TypeOK
    <2>2. answered'[r] # {} => Stored
      BY <2>1 DEF IInv, AnswerInv, WithResult
    <2>3. r \notin executed
      BY <1>1 DEF IInv, ProgressInv
    <2> QED BY <1>1, <1>3, <2>2, <2>3 DEF RetryInv, Stored
  <1>8. \A q \in Requests : LockInv(q)'
    BY <1>1, <1>3, <1>5, LockKept DEF Locked
  <1>9. Stored' => pc'[stored'.of] \in Settled
    BY <1>1, <1>5, StoredKept
  <1> QED BY <1>4, <1>5, <1>6, <1>7, <1>8, <1>9, StepInv

(* A request that is over holds nothing the others rely on, if it gave an  *)
(* error or the result it had stored.                                      *)
LEMMA OverInv ==
    ASSUME IInv, NEW r \in Requests, NEW code \in AnswerCodes \ {"result"}, Reply(r, code, Free),
           pc[r] \notin {"new", "over"},
           UNCHANGED <<payload, stored, result, pending, history>>,
           executed' \in {executed, IF pc[r] = "calling" THEN executed \cup {r} ELSE executed},
           lock' \in Requests \cup {Free},
           \A q \in Requests : LockInv(q)'
    PROVE  IInv'
  <1>1. TypeOK
    BY DEF IInv
  <1>2. /\ pc' \in [Requests -> Phases] /\ pc'[r] = "over"
        /\ \A q \in Requests \ {r} : pc'[q] = pc[q] /\ answer'[q] = answer[q]
        /\ answer' \in [Requests -> Answer]
        /\ answer'[r] = [code |-> code, result |-> Free]
        /\ \A q \in Requests : pc'[q] = "over" <=> answer'[q] # NoAnswer
    BY <1>1, ReplyTyped
  <1>3. TypeOK'
    BY <1>1, <1>2 DEF TypeOK, history
  <1>4. StepOf(r)
    BY <1>1, <1>2 DEF StepOf, Stored, Settled, TypeOK, history
  <1>5. /\ executed \subseteq executed'
        /\ r \in executed' => r \in executed \/ pc[r] = "calling"
        /\ UNCHANGED <<payload, pending, answered, forgotten>> /\ (Stored <=> Stored')
    BY DEF history, Stored
  <1>6. ProgressInv(r)' /\ PendingInv(r)' /\ AnswerInv(r)'
    <2>1. PendingInv(r)
      BY DEF IInv
    <2> QED BY <1>2, <1>5, <2>1 DEF ProgressInv, PendingInv, AnswerInv
  <1>7. RetryInv(r)'
    <2> SUFFICES ASSUME answered[r] # {}, r \in executed' PROVE OtherExecuted(r)'
      BY <1>2, <1>5 DEF RetryInv
    <2>1. OtherExecuted(r)
      BY <1>5 DEF IInv, RetryInv
    <2> QED BY <1>5, <2>1 DEF OtherExecuted, SamePayload
  <1>8. Stored' => pc'[stored'.of] \in Settled
    BY <1>4, StoredKept
  <1> QED BY <1>3, <1>4, <1>6, <1>7, <1>8, StepInv

LEMMA LookupInv ==
    ASSUME IInv, NEW r \in Requests, Lookup(r) PROVE IInv'
  <1>1. /\ TypeOK /\ pc[r] = "lookup"
        /\ UNCHANGED <<payload, lock, stored, result, pending, executed, history>>
    BY DEF Lookup, IInv
  <1>2. r \notin executed /\ pending[r].code # "result" /\ answer[r].code # "result"
    BY <1>1 DEF IInv, ProgressInv, PendingInv, TypeOK, NoAnswer
  <1>3. CASE Cached(r)
    <2>1. /\ Stored /\ stored \in Result /\ stored.of \in executed
          /\ payload[stored.of] = payload[r]
          /\ pc[stored.of] \in Settled /\ stored.of \in Requests
          /\ Reply(r, "result", stored)
      BY <1>1, <1>3 DEF Cached, Stored, IInv, TypeOK, Settled, Lookup
    <2>2. /\ pc' \in [Requests -> Phases] /\ pc'[r] = "over"
          /\ \A q \in Requests \ {r} : pc'[q] = pc[q] /\ answer'[q] = answer[q]
          /\ answer' \in [Requests -> Answer]
          /\ answer'[r] = [code |-> "result", result |-> stored]
          /\ \A q \in Requests : pc'[q] = "over" <=> answer'[q] # NoAnswer
      BY <1>1, <2>1, ReplyTyped DEF AnswerCodes
    <2>3. TypeOK'
      BY <1>1, <2>2 DEF TypeOK, history
    <2>4. StepOf(r)
      BY <1>1, <2>2 DEF StepOf, Stored, Settled, TypeOK, history
    <2>5. pc'[stored.of] \in Settled
      BY <2>1, <2>4 DEF StepOf
    <2>6. ProgressInv(r)' /\ PendingInv(r)' /\ RetryInv(r)'
      BY <1>1, <1>2, <2>2 DEF ProgressInv, PendingInv, RetryInv, OtherExecuted, history
    <2>7. AnswerInv(r)'
      BY <1>1, <2>1, <2>2, <2>5 DEF AnswerInv, SamePayload, Settled, Stored, history
    <2>8. \A q \in Requests : LockInv(q)'
      BY <1>1, <2>2, <2>4, LockKept DEF Locked
    <2>9. Stored' => pc'[stored'.of] \in Settled
      BY <1>1, <2>5
    <2> QED BY <2>3, <2>4, <2>6, <2>7, <2>8, <2>9, StepInv
  <1>4. CASE ~Cached(r)
    <2>1. /\ pc' \in [Requests -> Phases] /\ pc'[r] = "lock"
          /\ \A q \in Requests \ {r} : pc'[q] = pc[q]
          /\ answer' \in [Requests -> Answer] /\ answer' = answer
          /\ \A q \in Requests : pc'[q] = "over" <=> answer'[q] # NoAnswer
      BY <1>1, <1>4, GotoTyped DEF Lookup, Phases
    <2>2. TypeOK'
      BY <1>1, <2>1 DEF TypeOK, history
    <2>3. StepOf(r)
      BY <1>1, <2>1 DEF StepOf, Stored, Settled, TypeOK, history
    <2>4. ProgressInv(r)' /\ PendingInv(r)' /\ AnswerInv(r)'
      BY <1>1, <1>2, <2>1 DEF ProgressInv, PendingInv, AnswerInv, history
    <2>5. RetryInv(r)'
      <3> SUFFICES ASSUME answered[r] # {} PROVE OtherExecuted(r)'
        BY <1>1, <2>1 DEF RetryInv, history
      <3>1. Stored /\ stored.of \in executed
        BY <1>1 DEF IInv, RetryInv, Stored, TypeOK
      <3>2. payload[stored.of] # payload[r]
        BY <1>4, <3>1 DEF Cached, Stored
      <3> QED BY <1>1, <3>1, <3>2 DEF OtherExecuted, SamePayload, history
    <2>6. \A q \in Requests : LockInv(q)'
      BY <1>1, <2>1, <2>3, LockKept DEF Locked
    <2>7. Stored' => pc'[stored'.of] \in Settled
      BY <1>1, <2>3, StoredKept
    <2> QED BY <2>2, <2>3, <2>4, <2>5, <2>6, <2>7, StepInv
  <1> QED BY <1>3, <1>4

LEMMA TryLockInv ==
    ASSUME IInv, NEW r \in Requests, TryLock(r) PROVE IInv'
  <1>1. /\ TypeOK /\ pc[r] = "lock"
        /\ UNCHANGED <<payload, stored, result, pending, executed, history>>
    BY DEF TryLock, IInv
  <1>2. CASE lock = Free
    <2>1. /\ pc' \in [Requests -> Phases] /\ pc'[r] = "calling"
          /\ \A q \in Requests \ {r} : pc'[q] = pc[q]
          /\ answer' \in [Requests -> Answer] /\ answer' = answer
          /\ \A q \in Requests : pc'[q] = "over" <=> answer'[q] # NoAnswer
      BY <1>1, <1>2, GotoTyped DEF TryLock, Phases
    <2>2. lock' = r
      BY <1>2 DEF TryLock
    <2>3. TypeOK'
      BY <1>1, <2>1, <2>2 DEF TypeOK, history
    <2>4. StepOf(r)
      BY <1>1, <2>1 DEF StepOf, Stored, Settled, TypeOK, history
    <2>5. ProgressInv(r)' /\ PendingInv(r)' /\ AnswerInv(r)' /\ RetryInv(r)'
      BY <1>1, <2>1 DEF IInv, ProgressInv, PendingInv, AnswerInv, RetryInv, OtherExecuted,
         SamePayload, history, TypeOK, NoAnswer
    <2>6. \A q \in Requests : LockInv(q)'
      <3>1. \A q \in Requests : overrun \/ pc[q] \notin Locked
        BY <1>2, FreeAssumption DEF IInv, LockInv
      <3> QED BY <1>1, <2>1, <2>2, <3>1 DEF LockInv, history
    <2>7. Stored' => pc'[stored'.of] \in Settled
      BY <1>1, <2>4, StoredKept
    <2> QED BY <2>3, <2>4, <2>5, <2>6, <2>7, StepInv
  <1>3. CASE lock # Free
    <2>1. Reply(r, "conflict", Free) /\ lock' = lock
      BY <1>3 DEF TryLock
    <2>2. \A q \in Requests \ {r} : pc'[q] = pc[q]
      BY <1>1, <2>1, ReplyTyped DEF AnswerCodes
    <2>3. pc'[r] = "over"
      BY <1>1, <2>1, ReplyTyped DEF AnswerCodes
    <2>4. \A q \in Requests : LockInv(q)'
      BY <1>1, <2>1, <2>2, <2>3 DEF IInv, LockInv, Locked, history
    <2> QED BY <1>1, <2>1, <2>4, OverInv DEF AnswerCodes, TypeOK
  <1> QED BY <1>2, <1>3

LEMMA CallInv ==
    ASSUME IInv, NEW r \in Requests, Call(r) PROVE IInv'
  <1> DEFINE own == [of |-> r, form |-> "dto"]
  <1>1. /\ TypeOK /\ pc[r] = "calling" /\ own \in Result
        /\ executed' = executed \cup {r}
        /\ result' = [result EXCEPT ![r] = own]
        /\ UNCHANGED <<payload, lock, stored, pending, answer, history>>
    BY DEF Call, IInv, Result
  <1>2. r \notin executed
    BY <1>1 DEF IInv, ProgressInv
  <1>3. /\ pc' \in [Requests -> Phases] /\ pc'[r] = "storing"
        /\ \A q \in Requests \ {r} : pc'[q] = pc[q]
        /\ answer' \in [Requests -> Answer]
        /\ \A q \in Requests : pc'[q] = "over" <=> answer'[q] # NoAnswer
    BY <1>1, GotoTyped DEF Call, Phases
  <1> HIDE DEF own
  <1>4. result' \in [Requests -> Result \cup {Free}] /\ result'[r] = own
    BY <1>1 DEF TypeOK
  <1>5. TypeOK'
    BY <1>1, <1>3, <1>4 DEF TypeOK, history
  <1>6. StepOf(r)
    BY <1>1, <1>3 DEF StepOf, Stored, Settled, TypeOK, history
  <1>7. ProgressInv(r)'
    BY <1>1, <1>2, <1>3, <1>4 DEF ProgressInv, TypeOK, history, own
  <1>8. PendingInv(r)' /\ AnswerInv(r)'
    BY <1>1, <1>3 DEF IInv, PendingInv, AnswerInv, TypeOK, NoAnswer, history
  <1>9. RetryInv(r)'
    BY <1>1, <1>3 DEF IInv, RetryInv, OtherExecuted, SamePayload, history
  <1>10. \A q \in Requests : LockInv(q)'
    BY <1>1, <1>6, LockKept DEF Locked
  <1>11. Stored' => pc'[stored'.of] \in Settled
    BY <1>1, <1>6, StoredKept
  <1> QED BY <1>5, <1>6, <1>7, <1>8, <1>9, <1>10, <1>11, StepInv

(* What a request stores is its own result.                                *)
LEMMA OwnResult ==
    ASSUME IInv, NEW r \in Requests, pc[r] = "storing"
    PROVE  /\ r \in executed \ forgotten
           /\ result[r] \in Result /\ result[r].of = r
           /\ Serialized(result[r]) \in Result /\ Serialized(result[r]).of = r
  <1>1. r \in executed \ forgotten /\ result[r] = [of |-> r, form |-> "dto"]
    BY DEF IInv, ProgressInv
  <1>2. Serialized(result[r]) = [of |-> r, form |-> "text"]
    BY <1>1 DEF Serialized
  <1> QED BY <1>1, <1>2 DEF Result

(* A request leaves for the finally clause: with its result once that is   *)
(* stored, with an exception whatever it has done.                         *)
LEMMA LeaveInv ==
    ASSUME IInv, NEW r \in Requests, pc[r] \in {"calling", "storing"},
           NEW code \in {"result", "error"}, NEW value \in Result \cup {Free},
           Leave(r, code, value),
           UNCHANGED <<payload, lock, result, answer, history>>,
           executed' = executed \/ (pc[r] = "calling" /\ executed' = executed \cup {r}),
           stored' = stored \/ (pc[r] = "storing" /\ stored' = Serialized(result[r])),
           code = "result" => /\ pc[r] = "storing" /\ value = result[r]
                              /\ stored' = Serialized(result[r])
    PROVE  IInv'
  <1>1. TypeOK
    BY DEF IInv
  <1>2. /\ pc' \in [Requests -> Phases] /\ pc'[r] = "releasing"
        /\ \A q \in Requests \ {r} : pc'[q] = pc[q] /\ pending'[q] = pending[q]
        /\ answer' \in [Requests -> Answer]
        /\ \A q \in Requests : pc'[q] = "over" <=> answer'[q] # NoAnswer
        /\ pending' \in [Requests -> Answer]
        /\ pending'[r] = [code |-> code, result |-> value]
        /\ pending'[r] # NoAnswer
    BY <1>1, LeaveTyped DEF AnswerCodes
  <1>3. ASSUME pc[r] = "storing"
        PROVE  /\ r \in executed \ forgotten
               /\ result[r] \in Result /\ result[r].of = r
               /\ Serialized(result[r]) \in Result /\ Serialized(result[r]).of = r
    BY <1>3, OwnResult
  <1>4. Stored => Stored'
    BY <1>3, FreeAssumption DEF Stored
  <1>5. stored' \in Result \cup {Free} /\ (Stored' => stored'.of \in executed')
    BY <1>1, <1>3 DEF TypeOK, Stored
  <1>6. TypeOK'
    BY <1>1, <1>2, <1>5 DEF TypeOK, Stored, history
  <1>7. StepOf(r)
    BY <1>1, <1>2, <1>4 DEF StepOf, Settled, TypeOK, history
  <1>8. ProgressInv(r)'
    BY <1>2 DEF ProgressInv
  <1>9. PendingInv(r)'
    BY <1>2, <1>3, FreeAssumption DEF PendingInv, Stored, history
  <1>10. AnswerInv(r)'
    BY <1>1 DEF AnswerInv, TypeOK, NoAnswer
  <1>11. RetryInv(r)'
    BY <1>1, <1>2 DEF IInv, RetryInv, OtherExecuted, SamePayload, history
  <1>12. \A q \in Requests : LockInv(q)'
    BY <1>7, LockKept DEF Locked
  <1>13. Stored' => pc'[stored'.of] \in Settled
    <2>1. CASE stored' = stored
      BY <1>7, <2>1, StoredKept
    <2>2. CASE stored' # stored
      BY <1>2, <1>3, <2>2 DEF Settled
    <2> QED BY <2>1, <2>2
  <1> QED BY <1>6, <1>7, <1>8, <1>9, <1>10, <1>11, <1>12, <1>13, StepInv

LEMMA CallRaisesInv ==
    ASSUME IInv, NEW r \in Requests, CallRaises(r) PROVE IInv'
  <1> QED BY LeaveInv DEF CallRaises

LEMMA StoreInv ==
    ASSUME IInv, NEW r \in Requests, Store(r) PROVE IInv'
  <1>1. result[r] \in Result
    BY OwnResult DEF Store
  <1> QED BY <1>1, LeaveInv DEF Store

LEMMA StoreRaisesInv ==
    ASSUME IInv, NEW r \in Requests, StoreRaises(r) PROVE IInv'
  <1> QED BY LeaveInv DEF StoreRaises

LEMMA ReleaseInv ==
    ASSUME IInv, NEW r \in Requests, Release(r) PROVE IInv'
  <1> DEFINE code == pending[r].code
             value == pending[r].result
  <1>1. /\ TypeOK /\ pc[r] = "releasing" /\ lock' = Free
        /\ UNCHANGED <<payload, stored, result, pending, executed, history>>
        /\ Reply(r, code, value)
    BY DEF Release, IInv
  <1>2. code \in AnswerCodes /\ value \in Result \cup {Free}
    BY <1>1 DEF IInv, ProgressInv, TypeOK, Answer
  <1>3. PendingInv(r)
    BY DEF IInv
  <1> HIDE DEF code, value
  <1>4. /\ pc' \in [Requests -> Phases] /\ pc'[r] = "over"
        /\ \A q \in Requests \ {r} : pc'[q] = pc[q] /\ answer'[q] = answer[q]
        /\ answer' \in [Requests -> Answer]
        /\ answer'[r] = [code |-> code, result |-> value]
        /\ \A q \in Requests : pc'[q] = "over" <=> answer'[q] # NoAnswer
    BY <1>1, <1>2, ReplyTyped
  <1>5. TypeOK'
    BY <1>1, <1>4 DEF TypeOK, history
  <1>6. StepOf(r)
    BY <1>1, <1>4 DEF StepOf, Stored, Settled, TypeOK, history
  <1>7. ProgressInv(r)' /\ PendingInv(r)'
    BY <1>1, <1>3, <1>4 DEF ProgressInv, PendingInv, Stored, history
  <1>8. AnswerInv(r)'
    BY <1>1, <1>3, <1>4 DEF PendingInv, AnswerInv, SamePayload, Remembered, Stored, history, code, value
  <1>9. RetryInv(r)'
    BY <1>1, <1>4 DEF IInv, RetryInv, OtherExecuted, SamePayload, history
  <1>10. \A q \in Requests : LockInv(q)'
    BY <1>1, <1>4, <1>6, LockDropped DEF Locked
  <1>11. Stored' => pc'[stored'.of] \in Settled
    BY <1>1, <1>6, StoredKept
  <1> QED BY <1>5, <1>6, <1>7, <1>8, <1>9, <1>10, <1>11, StepInv

LEMMA ExpireInv ==
    ASSUME IInv, Expire PROVE IInv'
  <1>1. /\ TypeOK /\ lock \in Requests /\ lock' = Free
        /\ overrun' = (overrun \/ pc[lock] # "over")
        /\ UNCHANGED <<payload, stored, pc, result, pending, answer, executed, answered, forgotten>>
    BY DEF Expire, IInv, TypeOK
  <1>2. TypeOK'
    BY <1>1 DEF TypeOK, WithResult
  <1>3. ASSUME NEW r \in Requests PROVE LockInv(r)'
    <2>1. LockInv(r)
      BY DEF IInv
    <2> QED BY <1>1, <2>1 DEF LockInv, Locked
  <1>4. ASSUME NEW r \in Requests
        PROVE  ProgressInv(r)' /\ PendingInv(r)' /\ AnswerInv(r)' /\ RetryInv(r)'
    <2>1. ProgressInv(r) /\ PendingInv(r) /\ AnswerInv(r) /\ RetryInv(r)
      BY DEF IInv
    <2> QED
      BY <1>1, <2>1 DEF ProgressInv, PendingInv, AnswerInv, RetryInv, OtherExecuted,
         SamePayload, Remembered, Stored
  <1> QED BY <1>1, <1>2, <1>3, <1>4 DEF IInv, Stored

(* When the stored result goes, all who were answered go with it.          *)
LEMMA ForgetInv ==
    ASSUME IInv, Forget PROVE IInv'
  <1>1. /\ TypeOK /\ stored' = Free
        /\ forgotten' = {q \in executed : pc[q] # "storing"}
        /\ answered' = [r \in Requests |-> {}]
        /\ UNCHANGED <<payload, lock, pc, result, pending, answer, executed, overrun>>
    BY DEF Forget, IInv
  <1>2. TypeOK' /\ ~Stored'
    BY <1>1 DEF TypeOK, Stored
  <1>3. ASSUME NEW r \in Requests
        PROVE  /\ ProgressInv(r)' /\ PendingInv(r)' /\ AnswerInv(r)'
               /\ LockInv(r)' /\ RetryInv(r)'
    <2>1. ProgressInv(r) /\ PendingInv(r) /\ AnswerInv(r) /\ LockInv(r)
      BY DEF IInv
    <2>2. ProgressInv(r)' /\ LockInv(r)' /\ RetryInv(r)'
      BY <1>1, <2>1 DEF ProgressInv, LockInv, RetryInv
    <2>3. PendingInv(r)'
      BY <1>1, <2>1 DEF PendingInv
    <2>4. AnswerInv(r)'
      BY <1>1, <2>1 DEF AnswerInv, SamePayload, Remembered
    <2> QED BY <2>2, <2>3, <2>4
  <1> QED BY <1>2, <1>3 DEF IInv

LEMMA RedisRaisesInv ==
    ASSUME IInv, NEW r \in Requests, RedisRaises(r) PROVE IInv'
  <1>1. /\ TypeOK /\ Reply(r, "error", Free) /\ pc[r] \in {"lookup", "lock", "releasing"}
        /\ UNCHANGED <<payload, stored, result, pending, executed, history>>
    BY DEF IInv, RedisRaises
  <1>2. pc'[r] = "over" /\ \A q \in Requests \ {r} : pc'[q] = pc[q]
    BY <1>1, ReplyTyped DEF AnswerCodes
  <1>3. CASE lock' = lock
    <2>1. \A q \in Requests : LockInv(q)'
      BY <1>1, <1>2, <1>3 DEF IInv, LockInv, Locked, history
    <2> QED BY <1>1, <1>3, <2>1, OverInv DEF AnswerCodes, TypeOK
  <1>4. CASE pc[r] = "lock" /\ lock = Free /\ lock' = r
    <2>1. \A q \in Requests : overrun \/ pc[q] \notin Locked
      BY <1>4, FreeAssumption DEF IInv, LockInv
    <2>2. \A q \in Requests : LockInv(q)'
      BY <1>1, <1>2, <2>1 DEF LockInv, Locked, history
    <2> QED BY <1>1, <1>4, <2>2, OverInv DEF AnswerCodes
  <1>5. CASE pc[r] = "releasing" /\ lock' = Free
    <2>1. \A q \in Requests : LockInv(q)'
      BY <1>1, <1>2, <1>5 DEF IInv, LockInv, Locked, history
    <2> QED BY <1>1, <1>5, <2>1, OverInv DEF AnswerCodes
  <1> QED BY <1>1, <1>3, <1>4, <1>5 DEF RedisRaises

LEMMA CrashInv ==
    ASSUME IInv, NEW r \in Requests, Crash(r) PROVE IInv'
  <1>1. /\ TypeOK /\ Reply(r, "crash", Free) /\ pc[r] \notin {"new", "over"} /\ lock' = lock
        /\ UNCHANGED <<payload, stored, result, pending, history>>
        /\ executed' \in {executed, IF pc[r] = "calling" THEN executed \cup {r} ELSE executed}
    BY DEF IInv, Crash
  <1>2. pc'[r] = "over" /\ \A q \in Requests \ {r} : pc'[q] = pc[q]
    BY <1>1, ReplyTyped DEF AnswerCodes
  <1>3. \A q \in Requests : LockInv(q)'
    BY <1>1, <1>2 DEF IInv, LockInv, Locked, history
  <1> QED BY <1>1, <1>3, OverInv DEF AnswerCodes, TypeOK

LEMMA NextInv == IInv /\ [Next]_vars => IInv'
  <1> SUFFICES ASSUME IInv, [Next]_vars PROVE IInv'
    OBVIOUS
  <1>1. ASSUME NEW r \in Requests, Advance(r) PROVE IInv'
    BY <1>1, LookupInv, TryLockInv, CallInv, CallRaisesInv, StoreInv, ReleaseInv DEF Advance
  <1>2. CASE UNCHANGED vars
    <2>1. /\ UNCHANGED <<payload, lock, stored, pc, result, pending, answer, executed, answered,
                         overrun, forgotten>>
      BY <1>2 DEF vars, history
    <2>2. TypeOK'
      BY <2>1 DEF IInv, TypeOK
    <2>3. ASSUME NEW r \in Requests
          PROVE  /\ ProgressInv(r)' /\ PendingInv(r)' /\ AnswerInv(r)'
                 /\ LockInv(r)' /\ RetryInv(r)'
      <3>1. ProgressInv(r) /\ PendingInv(r) /\ AnswerInv(r) /\ LockInv(r) /\ RetryInv(r)
        BY DEF IInv
      <3> QED
        BY <2>1, <3>1 DEF ProgressInv, PendingInv, AnswerInv, LockInv, RetryInv, OtherExecuted,
           SamePayload, Remembered, Stored
    <2> QED BY <2>1, <2>2, <2>3 DEF IInv, Stored
  <1> QED
    BY <1>1, <1>2, BeginInv, StoreRaisesInv, RedisRaisesInv, CrashInv, ExpireInv, ForgetInv
    DEF Next, AllOver

THEOREM Inductive == Spec => []IInv
  <1> QED BY InitInv, NextInv, PTL DEF Spec
-----------------------------------------------------------------------------
(* The variables keep their domains; what is stored, or answered with, is  *)
(* the result of a command that took effect.                               *)
THEOREM TypeCorrect == Spec => []TypeOK
  <1>1. IInv => TypeOK
    BY DEF IInv
  <1> QED BY Inductive, <1>1, PTL

(* While locks outlive their requests, commands of one key never run side  *)
(* by side, although release_lock deletes whatever lock it finds.          *)
THEOREM MutualExclusion == Spec => []OneAtATime
  <1>1. IInv => OneAtATime
    BY DEF IInv, LockInv, OneAtATime
  <1> QED BY Inductive, <1>1, PTL

(* Whoever is answered with a result, stored or its own, is answered with  *)
(* that of a command that took effect and was of the same payload.         *)
THEOREM AnswersAreTrue == Spec => []AnswersWereExecuted
  <1>1. IInv => AnswersWereExecuted
    BY DEF IInv, AnswerInv, AnswersWereExecuted, WithResult
  <1> QED BY Inductive, <1>1, PTL

(* A client that was answered and asks again before the result expires     *)
(* does not execute its command again, unless the key was reused for       *)
(* another command; expired locks, crashes and lost replies included.      *)
THEOREM RetriesAreReplayed == Spec => []RetryIsReplayed
  <1>1. ASSUME IInv PROVE RetryIsReplayed
    <2> SUFFICES ASSUME NEW r \in executed, NEW q \in answered[r]
                 PROVE  \E x \in executed : ~SamePayload(x, r)
      BY DEF RetryIsReplayed
    <2>1. r \in Requests /\ answered[r] # {}
      BY <1>1 DEF IInv, TypeOK
    <2> QED BY <1>1, <2>1 DEF IInv, RetryInv, OtherExecuted
  <1> QED BY Inductive, <1>1, PTL
=============================================================================
