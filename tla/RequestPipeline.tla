-------------------------- MODULE RequestPipeline --------------------------
(***************************************************************************)
(* An HTTP request to /api/v1/users on its way through the API: parsing    *)
(* and dependencies, the behaviors of the mediator, the handler, and back  *)
(* through the exception handlers to a status code.                        *)
(*                                                                         *)
(*   arriving -> (keyed | handling) -> leaving -> answered                 *)
(*                                                                         *)
(* It composes two modules: a keyed command runs inside                    *)
(* IdempotencyBehavior (Idempotency.tla), and a handler acts on the users  *)
(* in one step, which UnitOfWork.tla justifies (UserDirectory.tla).        *)
(*                                                                         *)
(* MostGeneral, AdmitByKey, ... stand before the definition they are faulty*)
(* variants of; they only test that the properties notice them.            *)
(***************************************************************************)
EXTENDS Naturals, Sequences

CONSTANTS
    Requests,       \* the HTTP requests; those with a key share one key
    Emails,         \* email addresses as EmailStr lets them pass
    Names,          \* display names as clients spell them
    Lower,          \* Lower[e]: e without its outer spaces, in lower case
    Stripped,       \* Stripped[n]: n without its outer spaces
    ReservedNames,  \* the names ReservedDisplayNamePolicy rejects
    Workloads,      \* the inputs the requests may bring: [Requests -> Input]
    NoUser,
    Free

Ops == {"register", "rename", "deactivate", "get"}

(* What a client sends.  body: "malformed" is not JSON, "invalid" fails    *)
(* the request's schema, "blank" passes it with a name of spaces.          *)
(* token: of a user with users:read or with users:write too.               *)
Input == [op : Ops, id : Requests, email : Emails, name : Names,
          uuid  : BOOLEAN,   \* the path's user_id is a UUID
          body  : {"ok", "malformed", "invalid", "blank"},
          token : {"none", "invalid", "reader", "writer"},
          keyed : BOOLEAN]   \* an Idempotency-Key header

ASSUME SpellingAssumption ==
    /\ Lower \in [Emails -> Emails] /\ \A e \in Emails : Lower[Lower[e]] = Lower[e]
    /\ Stripped \in [Names -> Names] /\ \A n \in Names : Stripped[Stripped[n]] = Stripped[n]

ASSUME ReservedAssumption == ReservedNames \subseteq Names

ASSUME WorkloadsAssumption ==
    /\ Workloads \subseteq [Requests -> Input]
    /\ \A w \in Workloads, r \in Requests : w[r].op = "register" => w[r].id = r

VARIABLES
    input,     \* what each request brings
    stage,     \* where each request is
    raised,    \* the exception each request is leaving with, or NoException
    response,  \* what each client got
    lock, stored, pc, result, pending, answer, executed, answered, overrun, forgotten,
    users, log, reply

history == <<answered, overrun, forgotten>>
idemVars == <<lock, stored, pc, result, pending, answer, executed, history>>
dirVars == <<users, log, reply>>
ownVars == <<input, stage, raised, response>>
vars == <<ownVars, idemVars, dirVars>>

EmailAsSpelt(i) == i.email

(* The value objects Email and DisplayName.  What passes the schema and    *)
(* validate() passes their own checks.                                     *)
Email(i) == Lower[i.email]

DisplayName(i) == Stripped[i.name]

(* What the handler works with.                                            *)
Command(i) == [op |-> i.op, id |-> i.id, email |-> Email(i), name |-> DisplayName(i)]

(* The fields of the command's dataclass, as they were spelt: a            *)
(* registration has no id yet.                                             *)
Fingerprint(i) == [op |-> i.op, on |-> IF i.op = "register" THEN i.email ELSE i.id,
                   name |-> i.name, uuid |-> i.uuid]

Payload(inputs) == [r \in Requests |-> Fingerprint(inputs[r])]

Fingerprints == {Fingerprint(w[r]) : w \in Workloads, r \in Requests}

CarriedPayloads == {Payload(w) : w \in Workloads}

Commands == [r \in Requests |-> {Command(w[r]) : w \in Workloads}]

Idem == INSTANCE Idempotency
        WITH payload <- Payload(input), Payloads <- Fingerprints,
             Carried <- CarriedPayloads, Failures <- TRUE

Dir == INSTANCE UserDirectory WITH Workload <- Commands

ASSUME FreeAssumption == Free \notin Requests \cup Idem!Result

ASSUME NoUserAssumption == NoUser \notin Dir!User
-----------------------------------------------------------------------------
(* The exception classes and the handlers registered for them.             *)
NoException == "none"

Parent == [UserNotFound            |-> "EntityNotFound",
           EmailAlreadyRegistered  |-> "BusinessRuleViolation",
           UserAlreadyDeactivated  |-> "InvalidState",
           UserConcurrencyConflict |-> "ConcurrencyConflict",
           EntityNotFound          |-> "DomainException",
           ConcurrencyConflict     |-> "DomainException",
           BusinessRuleViolation   |-> "DomainException",
           InvalidState            |-> "DomainException",
           InvalidValueObject      |-> "DomainException",
           DomainException         |-> "Exception",
           ValidationException     |-> "ApplicationException",
           AuthenticationException |-> "ApplicationException",
           AuthorizationException  |-> "ApplicationException",
           ConflictException       |-> "ApplicationException",
           ApplicationException    |-> "Exception",
           RequestValidationError  |-> "Exception",
           ValidationError         |-> "Exception",   \* pydantic's
           DBAPIError              |-> "Exception",   \* SQLAlchemy's
           RedisError              |-> "Exception"]

Exceptions == DOMAIN Parent \cup {"Exception"}

StatusOf == [EntityNotFound          |-> 404,
             ConcurrencyConflict     |-> 409,
             BusinessRuleViolation   |-> 409,
             InvalidValueObject      |-> 422,
             InvalidState            |-> 422,
             DomainException         |-> 400,
             ValidationException     |-> 422,
             RequestValidationError  |-> 422,
             AuthenticationException |-> 401,
             AuthorizationException  |-> 403,
             ConflictException       |-> 409,
             ApplicationException    |-> 400,
             Exception               |-> 500]

MostGeneral(e) ==
    CASE e \in {"UserNotFound", "EmailAlreadyRegistered", "UserAlreadyDeactivated",
                "UserConcurrencyConflict"} -> "DomainException"
      [] e \in DOMAIN StatusOf -> e
      [] OTHER -> "Exception"

(* Starlette calls the handler of the nearest class of the exception's     *)
(* method resolution order.                                                *)
HandlerFor(e) ==
    LET nearest[c \in Exceptions] ==
            IF c \in DOMAIN StatusOf THEN c ELSE nearest[Parent[c]]
    IN nearest[e]

DatabaseConflict(e) == IF e = "DBAPIError" THEN 409 ELSE StatusOf[HandlerFor(e)]

StatusFor(e) == StatusOf[HandlerFor(e)]
-----------------------------------------------------------------------------
(* Everything that can refuse a request before the store or the database   *)
(* is asked, in the order it is looked at: the JSON of the body, the       *)
(* bearer token, the schema, validate(), required_permission.              *)
RequiredPermission(i) ==
    IF i.op \in {"rename", "deactivate"} THEN {"users:write"} ELSE {}

(* No token means an anonymous caller; otherwise, the token's claims.      *)
Anonymous(i) == i.token = "none"

Permissions(i) == CASE i.token = "reader" -> {"users:read"}
                    [] i.token = "writer" -> {"users:read", "users:write"}
                    [] OTHER -> {}

MissingPermission(i) == ~(RequiredPermission(i) \subseteq Permissions(i))

BadToken(i) == i.token = "invalid"

FailsSchema(i) == i.body = "invalid"

(* validate() of the two commands that carry a display name.               *)
FailsValidation(i) == i.body = "blank" /\ i.op \in {"register", "rename"}

Checks(i) ==
    <<[fails |-> i.body = "malformed", raises |-> "RequestValidationError"],
      [fails |-> BadToken(i),          raises |-> "AuthenticationException"],
      [fails |-> FailsSchema(i),       raises |-> "RequestValidationError"],
      [fails |-> FailsValidation(i),   raises |-> "ValidationException"],
      [fails |-> MissingPermission(i) /\ Anonymous(i),
                                       raises |-> "AuthenticationException"],
      [fails |-> MissingPermission(i), raises |-> "AuthorizationException"]>>

(* What the first of them to fail raises.                                  *)
Fault(i) == LET failing == {n \in DOMAIN Checks(i) : Checks(i)[n].fails}
                first == CHOOSE n \in failing : \A m \in failing : n <= m
            IN IF failing = {} THEN NoException ELSE Checks(i)[first].raises

KeyedAnything(i) == i.keyed

(* A command with an idempotency key; queries are never intercepted.       *)
Keyed(i) == i.keyed /\ i.op # "get"

Init == /\ input \in Workloads
        /\ stage = [r \in Requests |-> "arriving"]
        /\ raised = [r \in Requests |-> NoException]
        /\ response = [r \in Requests |-> 0]
        /\ Idem!Init
        /\ Dir!Init

Goto(r, s) == stage' = [stage EXCEPT ![r] = s]

Leave(r, e) == /\ Goto(r, "leaving")
               /\ raised' = [raised EXCEPT ![r] = e]

AdmitByKey(r) ==
    /\ stage[r] = "arriving"
    /\ UNCHANGED <<input, response, dirVars>>
    /\ IF Keyed(input[r]) /\ (Fault(input[r]) = NoException \/ Idem!Cached(r))
       THEN Goto(r, "keyed") /\ Idem!Begin(r) /\ UNCHANGED raised
       ELSE /\ IF Fault(input[r]) # NoException
               THEN Leave(r, Fault(input[r]))
               ELSE Goto(r, "handling") /\ UNCHANGED raised
            /\ UNCHANGED idemVars

(* Down to the idempotency behavior, or to the handler if it lets pass.    *)
Admit(r) ==
    /\ stage[r] = "arriving"
    /\ UNCHANGED <<input, response, dirVars>>
    /\ IF Fault(input[r]) # NoException
       THEN Leave(r, Fault(input[r])) /\ UNCHANGED idemVars
       ELSE IF Keyed(input[r])
       THEN Goto(r, "keyed") /\ Idem!Begin(r) /\ UNCHANGED raised
       ELSE Goto(r, "handling") /\ UNCHANGED <<raised, idemVars>>
-----------------------------------------------------------------------------
(* The idempotency behavior around the handler.                            *)
LookUpOrLock(r) == /\ stage[r] = "keyed"
                   /\ UNCHANGED <<ownVars, dirVars>>
                   /\ Idem!Lookup(r) \/ Idem!TryLock(r)

StoreResult(r) == /\ stage[r] = "keyed"
                  /\ UNCHANGED <<ownVars, dirVars>>
                  /\ Idem!Store(r)

RedisRaises(r) == /\ stage[r] = "keyed"
                  /\ UNCHANGED <<input, stage, response, dirVars>>
                  /\ Idem!StoreRaises(r) \/ Idem!RedisRaises(r)
                  /\ raised' = [raised EXCEPT ![r] = "RedisError"]

ReleaseLock(r) == /\ stage[r] = "keyed"
                  /\ UNCHANGED <<ownVars, dirVars>>
                  /\ Idem!Release(r)

(* The lock's time to live: Idempotency.tla.  That of a stored result is a *)
(* day, and left out here.                                                 *)
LockExpires == UNCHANGED <<ownVars, dirVars>> /\ Idem!Expire

(* The behavior is done with r: its result or exception goes up.           *)
Unwind(r) == /\ stage[r] = "keyed"
             /\ pc[r] = "over"
             /\ CASE answer[r].code = "conflict" -> Leave(r, "ConflictException")
                  [] answer[r].code = "error" -> Goto(r, "leaving") /\ UNCHANGED raised
                  [] answer[r].code = "result" ->
                       \* UserResponse.model_validate wants a UserDTO
                       Leave(r, IF answer[r].result.form = "text"
                                THEN "ValidationError" ELSE NoException)
             /\ UNCHANGED <<input, response, idemVars, dirVars>>
-----------------------------------------------------------------------------
(* The handler, as mediator.send reaches it with or without a key.         *)
Return(r) ==
    IF Keyed(input[r])
    THEN stage[r] = "keyed" /\ Idem!Call(r) /\ UNCHANGED stage
    ELSE /\ stage[r] = "handling"
         /\ Goto(r, "leaving")
         /\ executed' = executed \cup {r}
         /\ UNCHANGED <<lock, stored, pc, result, pending, answer, history>>

Throw(r, e, took) ==
    /\ raised' = [raised EXCEPT ![r] = e]
    /\ IF Keyed(input[r])
       THEN stage[r] = "keyed" /\ Idem!CallRaises(r) /\ UNCHANGED stage
       ELSE /\ stage[r] = "handling"
            /\ Goto(r, "leaving")
            /\ UNCHANGED <<lock, stored, pc, result, pending, answer, history>>
    /\ executed' = executed \cup took

BadId(i) == i.op # "register" /\ ~i.uuid

Reserved(i) == i.op \in {"register", "rename"} /\ DisplayName(i) \in ReservedNames

ReachesUsers(i) == ~BadId(i) /\ ~Reserved(i)

(* UserId.from_string, before anything else in the handler.                *)
RejectId(r) == /\ BadId(input[r])
               /\ UNCHANGED <<input, response, dirVars>>
               /\ Throw(r, "InvalidValueObject", {})

(* ReservedDisplayNamePolicy, before the unit of work is opened.           *)
RejectName(r) == /\ ~BadId(input[r]) /\ Reserved(input[r])
                 /\ UNCHANGED <<input, response>>
                 /\ Dir!Refuse(r, Command(input[r]), "reserved")
                 /\ Throw(r, "BusinessRuleViolation", {})

Handle(r) == /\ ReachesUsers(input[r])
             /\ UNCHANGED <<input, raised, response>>
             /\ Dir!Serve(r, Command(input[r]))
             /\ Return(r)

RaisedFor == [email_taken |-> "EmailAlreadyRegistered",
              not_found   |-> "UserNotFound",
              deactivated |-> "UserAlreadyDeactivated",
              conflict    |-> "UserConcurrencyConflict",
              failed      |-> "DBAPIError"]

(* It refuses, or the database does: a lost race for an email as well as a *)
(* connection that failed.                                                 *)
Refuse(r) == /\ ReachesUsers(input[r])
             /\ UNCHANGED <<input, response>>
             /\ \E code \in DOMAIN RaisedFor :
                    /\ Dir!Refuse(r, Command(input[r]), code)
                    /\ Throw(r, RaisedFor[code], {})

(* The commit took effect, and its acknowledgement is lost.                *)
LoseAcknowledgement(r) ==
    /\ ReachesUsers(input[r]) /\ input[r].op # "get"
    /\ UNCHANGED <<input, response>>
    /\ Dir!ServeUnacknowledged(r, Command(input[r]))
    /\ Throw(r, "DBAPIError", {r})
-----------------------------------------------------------------------------
RespondUnlessRaised(r) ==
    /\ stage[r] = "leaving" /\ raised[r] = NoException
    /\ Goto(r, "answered")
    /\ response' = [response EXCEPT ![r] = IF input[r].op = "register" THEN 201 ELSE 200]
    /\ UNCHANGED <<input, raised, idemVars, dirVars>>

(* The route's response model, or the exception's handler.                 *)
Respond(r) ==
    /\ stage[r] = "leaving"
    /\ Goto(r, "answered")
    /\ response' = [response EXCEPT ![r] =
           IF raised[r] # NoException THEN StatusFor(raised[r])
           ELSE IF input[r].op = "register" THEN 201 ELSE 200]
    /\ UNCHANGED <<input, raised, idemVars, dirVars>>

Step(r) == \/ LookUpOrLock(r) \/ StoreResult(r) \/ ReleaseLock(r) \/ Unwind(r)
           \/ RejectId(r) \/ RejectName(r) \/ Handle(r) \/ Refuse(r) \/ Respond(r)

AllAnswered == /\ \A r \in Requests : stage[r] = "answered"
               /\ lock = Free
               /\ UNCHANGED vars

Next == \/ \E r \in Requests : \/ Admit(r) \/ Step(r)
                               \/ RedisRaises(r) \/ LoseAcknowledgement(r)
        \/ LockExpires
        \/ AllAnswered

(* As long as some request can go on, some request does: none waits for    *)
(* another, or for the lock, and none goes on for ever.                    *)
Fairness == WF_vars(\E r \in Requests : Step(r))

Spec == Init /\ [][Next]_vars

FairSpec == Spec /\ Fairness
-----------------------------------------------------------------------------
Stages == {"arriving", "keyed", "handling", "leaving", "answered"}

(* The domains of the variables; the behavior sees keyed commands only,    *)
(* and a request is answered with a status just when it is over.           *)
TypeOK ==
    /\ input \in Workloads
    /\ stage \in [Requests -> Stages]
    /\ raised \in [Requests -> Exceptions \cup {NoException}]
    /\ Idem!TypeOK
    /\ \A r \in Requests : pc[r] # "new" => input[r].op # "get" /\ Fault(input[r]) = NoException
    /\ \A r \in Requests : reply[r] \in Dir!Reply \cup {Dir!NoReply}
    /\ \A r \in Requests : stage[r] = "answered" <=> response[r] # 0

ClientError(r) == response[r] \in 400..499

(* A client told that its request was refused need not undo anything: no   *)
(* answer of the 4xx kind follows a command that took effect, though the   *)
(* handlers also answer for failures after the commit.                     *)
RefusedHadNoEffect ==
    \A r \in Requests : ClientError(r) => r \notin executed

(* What the mediator returns, fresh or replayed under a shared key, only   *)
(* goes to a caller with the command's permission: authorization comes     *)
(* before the stored results.                                              *)
ResultsNeedPermission ==
    \A r \in Requests :
        answer[r].code = "result" \/ reply[r].code = "ok" => ~MissingPermission(input[r])

WellFormed(i) == i.body = "ok" /\ ~BadId(i)

(* Whatever failed first and however exceptions nest, the status tells the *)
(* client a truth that still holds when it arrives: docs/api.md, "Error    *)
(* contract".  The catch-alls of 400 and 503 are never answered.           *)
StatusIsTrue ==
    \A r \in Requests : LET i == input[r] s == response[r] IN
        /\ s \in {0, 200, 201, 401, 403, 404, 409, 422, 500}
        /\ s = 401 => i.token \in {"none", "invalid"}
        /\ s = 403 => MissingPermission(i) /\ i.token = "reader"
        /\ s = 404 => reply[r].code = "not_found"
        /\ s = 409 => \/ Reserved(i)
                      \/ i.op = "register" /\ Dir!EmailTaken(Email(i))
                      \/ i.op # "register" /\ users[i.id] # NoUser
                      \/ \E q \in Requests \ {r} : Keyed(i) /\ Keyed(input[q])
        /\ s = 422 /\ WellFormed(i) => users[i.id] # NoUser /\ ~Dir!IsActive(i.id)
        /\ s \in {200, 201} =>
             /\ users[i.id] # NoUser
             /\ i.op = "register" => users[i.id].email = Email(i)
             /\ i.op = "deactivate" => ~Dir!IsActive(i.id)

(* No address is registered twice under two spellings, by two clients or   *)
(* by one that retries with the same key and another spelling: the check,  *)
(* the row and the unique index only ever see the normalised one.          *)
OneUserPerAddress ==
    \A u, v \in Requests :
        users[u] # NoUser /\ users[v] # NoUser /\ u # v
            => Lower[users[u].email] # Lower[users[v].email]

(* Whichever layer it fails in, a request that arrived is answered.        *)
EveryRequestAnswered ==
    \A r \in Requests : stage[r] # "arriving" ~> stage[r] = "answered"
-----------------------------------------------------------------------------
(* test_mediator_and_behaviors.py: a replay answers like the first         *)
(* request.  It is answered 500: the stored text is no UserDTO.            *)
ReplayAnsweredAlike ==
    \A r, q \in Requests :
        /\ stage[r] = "answered" /\ stage[q] = "answered"
        /\ answer[r].code = "result" /\ answer[q].code = "result"
        /\ answer[r].result.of = answer[q].result.of
        => response[r] = response[q]
=============================================================================
