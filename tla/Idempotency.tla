---------------------------- MODULE Idempotency ----------------------------
(***************************************************************************)
(* IdempotencyBehavior over RedisIdempotencyStore: the requests that carry *)
(* one Idempotency-Key.  A request looks for a stored result, takes the    *)
(* key's lock with SET NX, calls the rest of the pipeline, stores the      *)
(* result and deletes the lock; each of these is a step of its own, since  *)
(* each awaits Redis or the handler.                                       *)
(*                                                                         *)
(*   new -> lookup -> lock -> calling -> (storing ->) releasing -> over    *)
(*                                                                         *)
(* AnyCached, TryLockAlways, ... stand before the definition they are      *)
(* faulty variants of; they only test that the properties notice them.     *)
(***************************************************************************)
EXTENDS Naturals, FiniteSets

CONSTANTS
    Requests,    \* the requests of one key
    Payloads,    \* what _fingerprint tells apart
    Carried,     \* the ways the requests may carry payloads
    Failures,    \* whether handlers and Redis may fail, and the API may crash
    Free         \* no lock, no result, no answer

ASSUME CarriedAssumption == Carried \subseteq [Requests -> Payloads]

ASSUME FailuresAssumption == Failures \in BOOLEAN

Phases == {"new", "lookup", "lock", "calling", "storing", "releasing", "over"}

(* A result is named for the request that executed and the form it has:    *)
(* the handler's dataclass, or what json.dumps(default=str) makes of it.   *)
Result == [of : Requests, form : {"dto", "text"}]

ASSUME FreeAssumption == Free \notin Requests \cup Result

AnswerCodes == {"result", "conflict", "error", "crash"}

VARIABLES
    payload,   \* the command each request carries
    lock,      \* the request whose SET NX made the lock, or Free
    stored,    \* the stored result, or Free
    pc,        \* where each request is
    result,    \* the result each request holds, or Free
    pending,   \* the answer a request gives once it has released the lock
    answer,    \* the answer of each request
    executed,  \* the requests whose command took effect
    answered,  \* history: the requests answered with a result before r began
    overrun,   \* history: a lock has expired before its request released it
    forgotten  \* history: the requests whose result Redis had before one expired

history == <<answered, overrun, forgotten>>
vars == <<payload, lock, stored, pc, result, pending, answer, executed, history>>

NoAnswer == [code |-> "none", result |-> Free]

Answer == [code : AnswerCodes, result : Result \cup {Free}] \cup {NoAnswer}

Init == /\ payload \in Carried
        /\ lock = Free
        /\ stored = Free
        /\ pc = [r \in Requests |-> "new"]
        /\ result = [r \in Requests |-> Free]
        /\ pending = [r \in Requests |-> NoAnswer]
        /\ answer = [r \in Requests |-> NoAnswer]
        /\ executed = {}
        /\ answered = [r \in Requests |-> {}]
        /\ overrun = FALSE
        /\ forgotten = {}

Goto(r, phase) == pc' = [pc EXCEPT ![r] = phase]

Reply(r, code, value) ==
    /\ Goto(r, "over")
    /\ answer' = [answer EXCEPT ![r] = [code |-> code, result |-> value]]

(* On to the finally clause, with the answer or exception it will leave by.*)
Leave(r, code, value) ==
    /\ Goto(r, "releasing")
    /\ pending' = [pending EXCEPT ![r] = [code |-> code, result |-> value]]

WithResult == {q \in Requests : answer[q].code = "result"}

Remembered(q) == answer[q].result.of \notin forgotten
-----------------------------------------------------------------------------
(* The request reaches the behavior.                                       *)
Begin(r) == /\ pc[r] = "new"
            /\ Goto(r, "lookup")
            /\ answered' = [answered EXCEPT ![r] = {q \in WithResult : Remembered(q)}]
            /\ UNCHANGED <<payload, lock, stored, result, pending, answer, executed, overrun, forgotten>>

AnyCached(r) == stored # Free

(* get_cached_result: a result stored for another payload is a miss.       *)
Cached(r) == stored # Free /\ payload[stored.of] = payload[r]

Lookup(r) == /\ pc[r] = "lookup"
             /\ IF Cached(r)
                THEN Reply(r, "result", stored)
                ELSE Goto(r, "lock") /\ UNCHANGED answer
             /\ UNCHANGED <<payload, lock, stored, result, pending, executed, history>>

TryLockAlways(r) == /\ pc[r] = "lock"
                    /\ lock' = r
                    /\ Goto(r, "calling")
                    /\ UNCHANGED <<payload, stored, result, pending, answer, executed, history>>

(* try_acquire_lock, or ConflictException.                                 *)
TryLock(r) == /\ pc[r] = "lock"
              /\ IF lock = Free
                 THEN lock' = r /\ Goto(r, "calling") /\ UNCHANGED answer
                 ELSE Reply(r, "conflict", Free) /\ UNCHANGED lock
              /\ UNCHANGED <<payload, stored, result, pending, executed, history>>

(* The rest of the pipeline returns: the command has taken effect.         *)
Call(r) == /\ pc[r] = "calling"
           /\ executed' = executed \cup {r}
           /\ result' = [result EXCEPT ![r] = [of |-> r, form |-> "dto"]]
           /\ Goto(r, "storing")
           /\ UNCHANGED <<payload, lock, stored, pending, answer, history>>

CallRaisesStored(r) == /\ pc[r] = "calling"
                       /\ stored' = [of |-> r, form |-> "text"]
                       /\ Leave(r, "error", Free)
                       /\ UNCHANGED <<payload, lock, result, answer, executed, history>>

(* It raises: a refusal, a failure, or a commit whose acknowledgement is   *)
(* lost (UnitOfWork!CommitUnacknowledged).                                 *)
CallRaises(r) == /\ pc[r] = "calling"
                 /\ Failures
                 /\ \/ UNCHANGED executed
                    \/ executed' = executed \cup {r}
                 /\ Leave(r, "error", Free)
                 /\ UNCHANGED <<payload, lock, stored, result, answer, history>>

(* json.dumps(record, default=str) turns a UserDTO into its repr.          *)
Serialized(value) == [value EXCEPT !.form = "text"]

StoreSkipped(r) == /\ pc[r] = "storing"
                   /\ Leave(r, "result", result[r])
                   /\ UNCHANGED <<payload, lock, stored, result, answer, executed, history>>

(* store_result.                                                           *)
Store(r) == /\ pc[r] = "storing"
            /\ stored' = Serialized(result[r])
            /\ Leave(r, "result", result[r])
            /\ UNCHANGED <<payload, lock, result, answer, executed, history>>

(* The store raises after the command took effect, written or not.         *)
StoreRaises(r) == /\ pc[r] = "storing"
                  /\ Failures
                  /\ stored' \in {stored, Serialized(result[r])}
                  /\ Leave(r, "error", Free)
                  /\ UNCHANGED <<payload, lock, result, answer, executed, history>>

(* release_lock deletes the key, whoever set it.                           *)
Release(r) == /\ pc[r] = "releasing"
              /\ lock' = Free
              /\ Reply(r, pending[r].code, pending[r].result)
              /\ UNCHANGED <<payload, stored, result, pending, executed, history>>

NeverExpire == FALSE /\ UNCHANGED vars

(* The lock's time to live is over: its request is slow, or it crashed.    *)
Expire == /\ lock # Free
          /\ lock' = Free
          /\ overrun' = (overrun \/ pc[lock] # "over")
          /\ UNCHANGED <<payload, stored, pc, result, pending, answer, executed, answered, forgotten>>

(* The stored result's time to live is over.                               *)
Forget == /\ stored # Free
          /\ stored' = Free
          /\ forgotten' = {q \in executed : pc[q] # "storing"}
          /\ answered' = [r \in Requests |-> {}]
          /\ UNCHANGED <<payload, lock, pc, result, pending, answer, executed, overrun>>

(* Another Redis command raises, before or after Redis has carried it out. *)
RedisRaises(r) == /\ Failures
                  /\ \/ pc[r] = "lookup" /\ UNCHANGED lock
                     \/ pc[r] = "lock" /\ lock' \in {lock, IF lock = Free THEN r ELSE lock}
                     \/ pc[r] = "releasing" /\ lock' \in {lock, Free}
                  /\ Reply(r, "error", Free)
                  /\ UNCHANGED <<payload, stored, result, pending, executed, history>>

(* The API process dies under the request, whose command may be done.      *)
Crash(r) == /\ Failures
            /\ pc[r] \notin {"new", "over"}
            /\ executed' \in {executed, IF pc[r] = "calling" THEN executed \cup {r} ELSE executed}
            /\ Reply(r, "crash", Free)
            /\ UNCHANGED <<payload, lock, stored, result, pending, history>>

Advance(r) == \/ Lookup(r) \/ TryLock(r) \/ Call(r) \/ CallRaises(r)
              \/ Store(r) \/ Release(r)

AllOver == (\A r \in Requests : pc[r] = "over") /\ lock = Free /\ UNCHANGED vars

Next == \/ \E r \in Requests : \/ Begin(r) \/ Advance(r)
                               \/ StoreRaises(r) \/ RedisRaises(r) \/ Crash(r)
        \/ Expire \/ Forget
        \/ AllOver

(* Redis and the handlers answer, and Redis expires keys.                  *)
Fairness == WF_vars(Expire) /\ \A r \in Requests : WF_vars(Advance(r))

Spec == Init /\ [][Next]_vars

FairSpec == Spec /\ Fairness
-----------------------------------------------------------------------------
Locked == {"calling", "storing", "releasing"}

(* The domains of the variables; what is stored or answered is the result  *)
(* of a request that executed.                                             *)
TypeOK ==
    /\ payload \in Carried
    /\ lock \in Requests \cup {Free}
    /\ stored \in Result \cup {Free}
    /\ stored # Free => stored.of \in executed
    /\ pc \in [Requests -> Phases]
    /\ result \in [Requests -> Result \cup {Free}]
    /\ pending \in [Requests -> Answer]
    /\ answer \in [Requests -> Answer]
    /\ \A r \in Requests : pc[r] = "over" <=> answer[r] # NoAnswer
    /\ executed \subseteq Requests
    /\ answered \in [Requests -> SUBSET Requests]
    /\ overrun \in BOOLEAN
    /\ forgotten \subseteq executed

(* While locks outlive the handlers, commands of one key never run side by *)
(* side, although release_lock deletes whatever lock it finds.             *)
OneAtATime ==
    ~overrun => \A r, q \in Requests : pc[r] \in Locked /\ pc[q] \in Locked => r = q

SamePayload(r, q) == payload[r] = payload[q]

(* A request answered with a result got that of a command that took        *)
(* effect, of its own payload.                                             *)
AnswersWereExecuted ==
    \A r \in WithResult : /\ answer[r].result.of \in executed
                          /\ SamePayload(r, answer[r].result.of)

(* What the key is for: a client that was answered and asks again before   *)
(* the result expires does not execute its command again, unless the key   *)
(* was reused for another one in between; expired locks, crashes and lost  *)
(* replies make no difference.                                             *)
RetryIsReplayed ==
    \A r \in executed : \A q \in answered[r] :
        SamePayload(r, q) => \E x \in executed : ~SamePayload(x, r)

(* However its request ends, the lock of a key comes free again.           *)
LockComesFree == lock # Free ~> lock = Free
-----------------------------------------------------------------------------
(* interfaces/idempotency.py: concurrent requests with the same key do not *)
(* both execute.  They do, and without any expiry: the lookup comes before *)
(* the lock and is not repeated under it.                                  *)
ExecutedOnce ==
    ~overrun /\ forgotten = {} => \A r, q \in executed : SamePayload(r, q) => r = q
=============================================================================
