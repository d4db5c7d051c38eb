----------------------- MODULE RequestPipeline_proofs -----------------------
(***************************************************************************)
(* Proofs about RequestPipeline, for any requests, spellings, reserved     *)
(* names and workloads.                                                    *)
(***************************************************************************)
EXTENDS RequestPipeline, TLAPS

(* The table, typed; its emails are normalised, and no two are the same.   *)
UsersInv ==
    /\ users \in [Requests -> Dir!User \cup {NoUser}]
    /\ \A u \in Requests : users[u] # NoUser => Lower[users[u].email] = users[u].email
    /\ \A u, v \in Requests :
          users[u] # NoUser /\ users[v] # NoUser /\ users[u].email = users[v].email => u = v

(* What a successful answer to i says, and what stays so.                  *)
Effective(i) ==
    /\ users[i.id] # NoUser
    /\ i.op = "register" => users[i.id].email = Email(i)
    /\ i.op = "deactivate" => ~Dir!IsActive(i.id)

Succeeded(r) == reply[r].code = "ok"

Untouched(r) == raised[r] = NoException /\ reply[r] = Dir!NoReply /\ r \notin executed

(* Somebody else uses the key.                                             *)
Contested(r) == \E q \in Requests \ {r} : Keyed(input[r]) /\ Keyed(input[q])

(* A request is at one place at a time, and beyond Admit only if it passed *)
(* every check.                                                            *)
StageInv(r) ==
    /\ stage[r] = "arriving" => Untouched(r) /\ pc[r] = "new"
    /\ stage[r] = "handling" => Untouched(r) /\ ~Keyed(input[r])
    /\ stage[r] \in {"keyed", "handling"} \/ reply[r] # Dir!NoReply \/ pc[r] # "new"
            => Fault(input[r]) = NoException
    /\ stage[r] = "keyed" => Keyed(input[r]) /\ pc[r] # "new"
    /\ pc[r] # "new" => Keyed(input[r]) /\ stage[r] # "arriving"

(* What a request knows that is about to leave the behavior with a.        *)
LeavesWith(r, a) ==
    /\ a.code \in {"result", "conflict", "error"}
    /\ a.code = "result" => /\ raised[r] = NoException
                            /\ a.result \in Idem!Result
                            /\ a.result.form = "dto" => Succeeded(r)
    /\ a.code = "conflict" => r \notin executed /\ Contested(r)
    /\ a.code = "error" => raised[r] # NoException

(* Where a request is inside the behavior.                                 *)
KeyedInv(r) ==
    /\ pc[r] \in {"lookup", "lock", "calling"} => Untouched(r)
    /\ pc[r] \in {"lookup", "lock"} => lock # r
    /\ pc[r] = "storing" => /\ raised[r] = NoException
                            /\ Succeeded(r)
                            /\ result[r] = [of |-> r, form |-> "dto"]
                            /\ r \in executed
    /\ pc[r] = "releasing" => LeavesWith(r, pending[r])
    /\ pc[r] = "over" /\ stage[r] = "keyed" => LeavesWith(r, answer[r])

Raisable ==
    {NoException, "RequestValidationError", "AuthenticationException",
     "ValidationException", "AuthorizationException", "ConflictException",
     "ValidationError", "RedisError", "InvalidValueObject", "BusinessRuleViolation",
     "EmailAlreadyRegistered", "UserNotFound", "UserAlreadyDeactivated",
     "UserConcurrencyConflict", "DBAPIError"}

(* What is true when each exception is raised, and stays so.               *)
RaisedInv(r) ==
    LET i == input[r] IN
    /\ raised[r] \in Raisable
    /\ raised[r] = "RequestValidationError" => i.body # "ok"
    /\ raised[r] = "AuthenticationException" => i.token \in {"none", "invalid"}
    /\ raised[r] = "ValidationException" => i.body # "ok"
    /\ raised[r] = "AuthorizationException" => MissingPermission(i) /\ i.token = "reader"
    /\ raised[r] = "ConflictException" => Contested(r)
    /\ raised[r] = "InvalidValueObject" => BadId(i)
    /\ raised[r] = "BusinessRuleViolation" => Reserved(i)
    /\ raised[r] = "EmailAlreadyRegistered" => i.op = "register" /\ Dir!EmailTaken(Email(i))
    /\ raised[r] = "UserNotFound" => reply[r].code = "not_found"
    /\ raised[r] = "UserAlreadyDeactivated" => users[i.id] # NoUser /\ ~Dir!IsActive(i.id)
    /\ raised[r] = "UserConcurrencyConflict" => i.op # "register" /\ users[i.id] # NoUser

(* Only a failure may leave an effect behind that its client is not told.  *)
EffectInv(r) ==
    r \in executed =>
        raised[r] \in {NoException, "DBAPIError", "RedisError", "ValidationError"}

(* What r is answered with.                                                *)
StatusOfRequest(r) ==
    IF raised[r] # NoException THEN StatusFor(raised[r])
    ELSE IF input[r].op = "register" THEN 201 ELSE 200

AnswerInv(r) ==
    /\ stage[r] \in {"leaving", "answered"} /\ raised[r] = NoException => Succeeded(r)
    /\ Succeeded(r) => Effective(input[r])
    /\ response[r] = IF stage[r] = "answered" THEN StatusOfRequest(r) ELSE 0

RequestInv(r) ==
    /\ StageInv(r)
    /\ KeyedInv(r)
    /\ RaisedInv(r)
    /\ EffectInv(r)
    /\ AnswerInv(r)

(* What is stored is text; the lock is a keyed request's.                  *)
StoreInv ==
    /\ stored # Free => stored.form = "text"
    /\ lock # Free => pc[lock] # "new"

IInv ==
    /\ TypeOK
    /\ response \in [Requests -> Nat]
    /\ reply \in [Requests -> Dir!Reply \cup {Dir!NoReply}]
    /\ UsersInv
    /\ StoreInv
    /\ \A r \in Requests : RequestInv(r)
-----------------------------------------------------------------------------
(* What each check's exception tells of the input.                         *)
LEMMA FaultTells ==
    ASSUME NEW i \in Input
    PROVE  /\ Fault(i) \in {NoException, "RequestValidationError", "AuthenticationException",
                            "ValidationException", "AuthorizationException"}
           /\ Fault(i) = NoException => ~MissingPermission(i)
           /\ Fault(i) \in {"RequestValidationError", "ValidationException"} => i.body # "ok"
           /\ Fault(i) = "AuthenticationException" => i.token \in {"none", "invalid"}
           /\ Fault(i) = "AuthorizationException" => MissingPermission(i) /\ i.token = "reader"
  <1> DEFINE checks == Checks(i)
             failing == {n \in DOMAIN checks : checks[n].fails}
             first == CHOOSE n \in failing : \A m \in failing : n <= m
  <1>1. DOMAIN checks = 1..6
    BY DEF Checks
  <1>2. /\ checks[1].fails => i.body # "ok"
        /\ checks[2].fails <=> i.token = "invalid"
        /\ checks[3].fails => i.body # "ok"
        /\ checks[4].fails => i.body # "ok"
        /\ checks[5].fails => i.token = "none"
        /\ MissingPermission(i) /\ i.token = "none" => checks[5].fails
        /\ checks[6].fails <=> MissingPermission(i)
    BY DEF Checks, BadToken, FailsSchema, FailsValidation, Anonymous
  <1>3. /\ checks[1].raises = "RequestValidationError"
        /\ checks[2].raises = "AuthenticationException"
        /\ checks[3].raises = "RequestValidationError"
        /\ checks[4].raises = "ValidationException"
        /\ checks[5].raises = "AuthenticationException"
        /\ checks[6].raises = "AuthorizationException"
    BY DEF Checks
  <1>4. Fault(i) = IF failing = {} THEN NoException ELSE checks[first].raises
    BY DEF Fault
  <1>5. i.token = "writer" => ~MissingPermission(i)
    BY DEF MissingPermission, RequiredPermission, Permissions
  <1>6. i.token \in {"none", "invalid", "reader", "writer"}
    BY DEF Input
  <1> HIDE DEF checks
  <1>7. CASE failing = {}
    <2>1. ~MissingPermission(i)
      BY <1>1, <1>2, <1>7
    <2> QED BY <2>1, <1>4, <1>7 DEF NoException
  <1>8. CASE failing # {}
    <2>1. PICK n \in failing : \A m \in failing : n <= m
      <3>1. PICK k \in failing : TRUE
        BY <1>8
      <3>2. failing \subseteq 1..6
        BY <1>1
      <3> HIDE DEF failing
      <3>3. CASE 1 \in failing
        BY <3>2, <3>3
      <3>4. CASE 1 \notin failing /\ 2 \in failing
        BY <3>2, <3>4
      <3>5. CASE 1 \notin failing /\ 2 \notin failing /\ 3 \in failing
        BY <3>2, <3>5
      <3>6. CASE 1 \notin failing /\ 2 \notin failing /\ 3 \notin failing /\ 4 \in failing
        BY <3>2, <3>6
      <3>7. CASE 1 \notin failing /\ 2 \notin failing /\ 3 \notin failing /\ 4 \notin failing
        BY <3>1, <3>2, <3>7
      <3> QED BY <3>3, <3>4, <3>5, <3>6, <3>7
    <2>2. first \in failing /\ \A m \in failing : first <= m
      BY <2>1
    <2> HIDE DEF first
    <2>3. first \in 1..6 /\ checks[first].fails
      BY <2>2, <1>1
    <2>4. Fault(i) = checks[first].raises
      BY <1>4, <1>8
    <2>5. \A m \in 1..6 : m < first => ~checks[m].fails
      BY <2>2, <2>3, <1>1
    <2>6. CASE first \in 1..4
      BY <2>3, <2>4, <2>6, <1>2, <1>3 DEF NoException
    <2>7. CASE first = 5
      BY <2>3, <2>4, <2>7, <1>2, <1>3 DEF NoException
    <2>8. CASE first = 6
      <3>1. ~checks[2].fails /\ ~checks[5].fails /\ checks[6].fails
        BY <2>3, <2>5, <2>8
      <3>2. MissingPermission(i) /\ i.token = "reader"
        BY <3>1, <1>2, <1>5, <1>6
      <3> QED BY <2>4, <2>8, <3>2, <1>3 DEF NoException
    <2> QED BY <2>3, <2>6, <2>7, <2>8
  <1> QED BY <1>7, <1>8

(* The nearest handler of each exception that is raised, and its status.   *)
Handlers ==
    {"EntityNotFound", "ConcurrencyConflict", "BusinessRuleViolation", "InvalidValueObject",
     "InvalidState", "DomainException", "ValidationException", "RequestValidationError",
     "AuthenticationException", "AuthorizationException", "ConflictException",
     "ApplicationException", "Exception"}

Unhandled ==
    {"UserNotFound", "EmailAlreadyRegistered", "UserAlreadyDeactivated",
     "UserConcurrencyConflict", "ValidationError", "DBAPIError", "RedisError"}

NearestOf(e) ==
    IF e = "UserNotFound" THEN "EntityNotFound"
    ELSE IF e = "EmailAlreadyRegistered" THEN "BusinessRuleViolation"
    ELSE IF e = "UserAlreadyDeactivated" THEN "InvalidState"
    ELSE IF e = "UserConcurrencyConflict" THEN "ConcurrencyConflict"
    ELSE IF e \in Unhandled THEN "Exception"
    ELSE e

LEMMA NearestHandlers ==
    ASSUME NEW e \in Exceptions
    PROVE  HandlerFor(e) = NearestOf(e)
  <1>1. DOMAIN StatusOf = Handlers
    BY DEF Handlers, StatusOf
  <1>2. Exceptions = Handlers \cup Unhandled
    BY DEF Exceptions, Parent, Handlers, Unhandled
  <1>3. /\ Parent["UserNotFound"] = "EntityNotFound"
        /\ Parent["EmailAlreadyRegistered"] = "BusinessRuleViolation"
        /\ Parent["UserAlreadyDeactivated"] = "InvalidState"
        /\ Parent["UserConcurrencyConflict"] = "ConcurrencyConflict"
        /\ Parent["ValidationError"] = "Exception"
        /\ Parent["DBAPIError"] = "Exception"
        /\ Parent["RedisError"] = "Exception"
    BY DEF Parent
  <1> DEFINE Unfolds(f) ==
                 f = [c \in Exceptions |-> IF c \in DOMAIN StatusOf THEN c ELSE f[Parent[c]]]
             nearest == CHOOSE f : Unfolds(f)
  <1>4. Unfolds([c \in Exceptions |-> NearestOf(c)])
    BY <1>1, <1>2, <1>3 DEF NearestOf, Handlers, Unhandled
  <1>5. Unfolds(nearest)
    BY <1>4
  <1>6. HandlerFor(e) = nearest[e]
    BY DEF HandlerFor
  <1> HIDE DEF nearest
  <1>7. \A c \in Handlers : nearest[c] = c
    BY <1>1, <1>2, <1>5
  <1>8. \A c \in Unhandled : nearest[c] = nearest[Parent[c]]
    BY <1>1, <1>2, <1>5 DEF Handlers, Unhandled
  <1> QED BY <1>2, <1>3, <1>6, <1>7, <1>8 DEF NearestOf, Handlers, Unhandled

LEMMA Statuses ==
    ASSUME NEW e \in Exceptions
    PROVE  /\ e = "UserNotFound" => StatusFor(e) = 404
           /\ e \in {"EmailAlreadyRegistered", "UserConcurrencyConflict",
                     "BusinessRuleViolation", "ConflictException"} => StatusFor(e) = 409
           /\ e \in {"UserAlreadyDeactivated", "InvalidValueObject", "ValidationException",
                     "RequestValidationError"} => StatusFor(e) = 422
           /\ e = "AuthenticationException" => StatusFor(e) = 401
           /\ e = "AuthorizationException" => StatusFor(e) = 403
           /\ e \in {"ValidationError", "DBAPIError", "RedisError"} => StatusFor(e) = 500
  <1>1. StatusFor(e) = StatusOf[NearestOf(e)]
    BY NearestHandlers DEF StatusFor
  <1>2. /\ StatusOf["EntityNotFound"] = 404
        /\ StatusOf["BusinessRuleViolation"] = 409
        /\ StatusOf["ConcurrencyConflict"] = 409
        /\ StatusOf["ConflictException"] = 409
        /\ StatusOf["InvalidState"] = 422
        /\ StatusOf["InvalidValueObject"] = 422
        /\ StatusOf["ValidationException"] = 422
        /\ StatusOf["RequestValidationError"] = 422
        /\ StatusOf["AuthenticationException"] = 401
        /\ StatusOf["AuthorizationException"] = 403
        /\ StatusOf["Exception"] = 500
    BY DEF StatusOf
  <1> QED BY <1>1, <1>2 DEF NearestOf, Unhandled
-----------------------------------------------------------------------------
(* What no step takes back: rows stay, keep their email, and once          *)
(* deactivated remain so.                                                  *)
UsersEvolve ==
    \A u \in Requests : users[u] # NoUser =>
        /\ users'[u] # NoUser
        /\ users'[u].email = users[u].email
        /\ users[u].status # "active" => users'[u].status # "active"

LEMMA InputsTyped ==
    ASSUME TypeOK, NEW r \in Requests
    PROVE  /\ input[r] \in Input
           /\ input[r].op \in Ops /\ input[r].id \in Requests
           /\ input[r].op = "register" => input[r].id = r
           /\ Email(input[r]) \in Emails /\ Lower[Email(input[r])] = Email(input[r])
           /\ DisplayName(input[r]) \in Names
  <1>1. input \in Workloads /\ input[r] \in Input
    BY WorkloadsAssumption DEF TypeOK
  <1>2. PICK i : i = input[r]
    OBVIOUS
  <1>3. i.op \in Ops /\ i.id \in Requests /\ i.email \in Emails /\ i.name \in Names
    BY <1>1, <1>2 DEF Input
  <1>4. Email(i) \in Emails /\ Lower[Email(i)] = Email(i) /\ DisplayName(i) \in Names
    BY <1>3, SpellingAssumption DEF Email, DisplayName
  <1>5. input[r].op = "register" => input[r].id = r
    BY <1>1, WorkloadsAssumption
  <1> QED BY <1>1, <1>2, <1>3, <1>4, <1>5

LEMMA CommandsTyped ==
    ASSUME TypeOK, NEW r \in Requests, NEW c, c = Command(input[r])
    PROVE  /\ c.op \in Ops /\ c.id \in Requests /\ c.email \in Emails /\ c.name \in Names
           /\ c.op = input[r].op /\ c.id = input[r].id /\ c.email = Email(input[r])
           /\ Lower[c.email] = c.email
  BY InputsTyped DEF Command

(* Whatever is true of a row for good stays true.                          *)
LEMMA TruthsKeep ==
    ASSUME UsersInv, UsersEvolve, users' \in [Requests -> Dir!User \cup {NoUser}],
           NEW i, i.id \in Requests
    PROVE  /\ users[i.id] # NoUser => users'[i.id] # NoUser
           /\ users[i.id] # NoUser /\ ~Dir!IsActive(i.id) =>
                 users'[i.id] # NoUser /\ users'[i.id].status # "active"
           /\ Dir!EmailTaken(Email(i)) =>
                 \E u \in Requests : users'[u] # NoUser /\ users'[u].email = Email(i)
           /\ Effective(i) => /\ users'[i.id] # NoUser
                              /\ i.op = "register" => users'[i.id].email = Email(i)
                              /\ i.op = "deactivate" => users'[i.id].status # "active"
  <1>1. users[i.id] # NoUser => users'[i.id] # NoUser
    BY DEF UsersEvolve
  <1>2. users[i.id] # NoUser /\ ~Dir!IsActive(i.id) =>
            users'[i.id] # NoUser /\ users'[i.id].status # "active"
    BY DEF UsersEvolve, Dir!IsActive
  <1>3. Dir!EmailTaken(Email(i)) =>
            \E u \in Requests : users'[u] # NoUser /\ users'[u].email = Email(i)
    BY DEF UsersEvolve, Dir!EmailTaken
  <1>4. Effective(i) => /\ users'[i.id] # NoUser
                        /\ i.op = "register" => users'[i.id].email = Email(i)
                        /\ i.op = "deactivate" => users'[i.id].status # "active"
    BY <1>2 DEF UsersEvolve, Effective
  <1> QED BY <1>1, <1>2, <1>3, <1>4

(* A step of one request leaves what is true of the others.                *)
LEMMA OthersKeep ==
    ASSUME IInv, NEW q \in Requests, input' = input,
           stage'[q] = stage[q], raised'[q] = raised[q], response'[q] = response[q],
           pc'[q] = pc[q], result'[q] = result[q], pending'[q] = pending[q],
           answer'[q] = answer[q], reply'[q] = reply[q],
           q \in executed' <=> q \in executed, lock' = q => lock = q,
           UsersEvolve, users' \in [Requests -> Dir!User \cup {NoUser}]
    PROVE  RequestInv(q)'
  <1>1. RequestInv(q)
    BY DEF IInv
  <1>2. PICK i : i = input[q]
    OBVIOUS
  <1>3. i.id \in Requests
    BY <1>2, InputsTyped DEF IInv
  <1>4. StageInv(q)'
    BY <1>1 DEF RequestInv, StageInv, Untouched, Dir!NoReply
  <1>5. Contested(q)' <=> Contested(q)
    BY DEF Contested
  <1>6. KeyedInv(q)'
    BY <1>1, <1>5 DEF RequestInv, KeyedInv, LeavesWith, Untouched, Succeeded, Dir!NoReply,
                      Idem!Result
  <1>7. RaisedInv(q)'
    BY <1>1, <1>2, <1>3, <1>5, TruthsKeep
    DEF RequestInv, RaisedInv, IInv, Dir!IsActive, Dir!EmailTaken
  <1>8. EffectInv(q)'
    BY <1>1 DEF RequestInv, EffectInv
  <1>9. AnswerInv(q)'
    BY <1>1, <1>2, <1>3, TruthsKeep
    DEF RequestInv, AnswerInv, IInv, Succeeded, Effective, StatusOfRequest, Dir!IsActive
  <1> QED BY <1>4, <1>6, <1>7, <1>8, <1>9 DEF RequestInv
(* A command that is carried out has its effect, and touches one row.      *)
LEMMA RowsCarriedOut ==
    ASSUME UsersInv, NEW c, c.op \in Ops, c.id \in Requests, c.email \in Emails,
           c.name \in Names, Dir!Allowed(c)
    PROVE  LET row == Dir!Result(c) IN
           /\ row \in Dir!User
           /\ c.op = "register" => users[c.id] = NoUser /\ ~Dir!EmailTaken(c.email)
                                     /\ row.email = c.email
           /\ c.op # "register" => /\ users[c.id] # NoUser
                                   /\ row.email = users[c.id].email
                                   /\ users[c.id].status # "active" => row.status # "active"
           /\ c.op = "deactivate" => row.status # "active"
  <1> DEFINE u == users[c.id]
  <1>1. u # NoUser => /\ u \in Dir!User /\ u.version \in Nat
                      /\ u.email \in Emails /\ u.name \in Names
                      /\ u = [email |-> u.email, name |-> u.name,
                              status |-> u.status, version |-> u.version]
                      /\ u.status \in Dir!Status
    BY DEF UsersInv, Dir!User
  <1>2. CASE c.op = "register"
    <2>1. Dir!Result(c) = [email |-> c.email, name |-> c.name,
                           status |-> "active", version |-> 0]
      BY <1>2 DEF Dir!Result
    <2>2. users[c.id] = NoUser /\ ~Dir!EmailTaken(c.email)
      BY <1>2 DEF Dir!Allowed
    <2> QED BY <1>2, <2>1, <2>2 DEF Dir!User, Dir!Status
  <1>3. CASE c.op = "rename"
    <2>1. Dir!Result(c) = [u EXCEPT !.name = c.name, !.version = @ + 1]
      BY <1>3 DEF Dir!Result
    <2>2. u # NoUser /\ u.status = "active"
      BY <1>3 DEF Dir!Allowed, Dir!IsActive
    <2>3. Dir!Result(c) = [email |-> u.email, name |-> c.name,
                           status |-> u.status, version |-> u.version + 1]
      BY <1>1, <2>1, <2>2
    <2> HIDE DEF u
    <2>4. Dir!Result(c) \in Dir!User
      BY <1>1, <2>2, <2>3 DEF Dir!User
    <2> QED BY <1>3, <2>2, <2>3, <2>4 DEF u
  <1>4. CASE c.op = "deactivate"
    <2>1. Dir!Result(c) = [u EXCEPT !.status = "deactivated", !.version = @ + 1]
      BY <1>4 DEF Dir!Result
    <2>2. u # NoUser
      BY <1>4 DEF Dir!Allowed, Dir!IsActive
    <2>3. Dir!Result(c) = [email |-> u.email, name |-> u.name,
                           status |-> "deactivated", version |-> u.version + 1]
      BY <1>1, <2>1, <2>2
    <2> HIDE DEF u
    <2>4. Dir!Result(c) \in Dir!User
      BY <1>1, <2>2, <2>3 DEF Dir!User, Dir!Status
    <2> QED BY <1>4, <2>2, <2>3, <2>4 DEF u
  <1>5. CASE c.op = "get"
    <2>1. Dir!Result(c) = u
      BY <1>5 DEF Dir!Result
    <2>2. u # NoUser
      BY <1>5 DEF Dir!Allowed
    <2> QED BY <1>1, <1>5, <2>1, <2>2
  <1> QED BY <1>2, <1>3, <1>4, <1>5 DEF Ops

LEMMA CarriedOut ==
    ASSUME TypeOK, UsersInv, NEW r \in Requests, Dir!CarryOut(Command(input[r]))
    PROVE  /\ UsersInv' /\ UsersEvolve
           /\ Dir!Result(Command(input[r])) \in Dir!User
           /\ users'[input[r].id] # NoUser
           /\ input[r].op = "register" => users'[input[r].id].email = Email(input[r])
           /\ input[r].op = "deactivate" => users'[input[r].id].status # "active"
  <1>1. PICK c : c = Command(input[r])
    OBVIOUS
  <1>2. /\ c.op \in Ops /\ c.id \in Requests /\ c.email \in Emails /\ c.name \in Names
        /\ c.op = input[r].op /\ c.id = input[r].id /\ c.email = Email(input[r])
        /\ Lower[c.email] = c.email
    BY <1>1, CommandsTyped
  <1>3. PICK row : row = Dir!Result(c)
    OBVIOUS
  <1>4. Dir!Allowed(c) /\ users' = [users EXCEPT ![c.id] = row]
    BY <1>1, <1>3 DEF Dir!CarryOut
  <1>5. /\ row \in Dir!User
        /\ c.op = "register" => users[c.id] = NoUser /\ ~Dir!EmailTaken(c.email)
                                  /\ row.email = c.email
        /\ c.op # "register" => /\ users[c.id] # NoUser
                                /\ row.email = users[c.id].email
                                /\ users[c.id].status # "active" => row.status # "active"
        /\ c.op = "deactivate" => row.status # "active"
    BY <1>2, <1>3, <1>4, RowsCarriedOut
  <1>6. row # NoUser
    BY <1>5, NoUserAssumption
  <1>7. /\ users'[c.id] = row
        /\ \A u \in Requests \ {c.id} : users'[u] = users[u]
        /\ users' \in [Requests -> Dir!User \cup {NoUser}]
    BY <1>2, <1>4, <1>5 DEF UsersInv
  <1>8. UsersEvolve
    BY <1>5, <1>6, <1>7 DEF UsersEvolve
  <1>9. \A u \in Requests : users'[u] # NoUser => Lower[users'[u].email] = users'[u].email
    BY <1>2, <1>5, <1>7 DEF UsersInv
  <1>10. ASSUME NEW u \in Requests, NEW v \in Requests, users'[u] # NoUser,
                users'[v] # NoUser, users'[u].email = users'[v].email
         PROVE  u = v
    BY <1>2, <1>5, <1>7, <1>10 DEF UsersInv, Dir!EmailTaken
  <1>11. UsersInv'
    BY <1>7, <1>9, <1>10 DEF UsersInv, Dir!User, Dir!Status
  <1> QED BY <1>1, <1>2, <1>3, <1>5, <1>6, <1>7, <1>8, <1>11

LEMMA Answered ==
    ASSUME IInv, NEW r \in Requests, NEW code, NEW user,
           code \in {"ok", "failed"} \cup Dir!Refusals, user \in Dir!User \cup {NoUser},
           Dir!Answer(r, code, user)
    PROVE  /\ reply' \in [Requests -> Dir!Reply \cup {Dir!NoReply}]
           /\ reply'[r] = [code |-> code, user |-> user]
           /\ \A q \in Requests \ {r} : reply'[q] = reply[q]
  BY DEF IInv, Dir!Answer, Dir!Reply

LEMMA UsersStay ==
    ASSUME UsersInv, users' = users
    PROVE  UsersInv' /\ UsersEvolve
  BY DEF UsersInv, UsersEvolve, Dir!User, Dir!Status
-----------------------------------------------------------------------------
LEMMA ExceptionsAre == Exceptions = Handlers \cup Unhandled
  BY DEF Exceptions, Parent, Handlers, Unhandled

LEMMA StatusesOfRaised ==
    ASSUME NEW e \in Raisable \ {NoException}
    PROVE  StatusFor(e) \in {401, 403, 404, 409, 422, 500}
  <1>1. e \in Exceptions
    BY ExceptionsAre DEF Raisable, NoException, Handlers, Unhandled
  <1> QED BY <1>1, Statuses DEF Raisable, NoException

(* What is left to show of a step of r.                                    *)
LEMMA StepKeeps ==
    ASSUME IInv, NEW r \in Requests, input' = input,
           stage' \in [Requests -> Stages],
           raised' \in [Requests -> Exceptions \cup {NoException}],
           Idem!TypeOK', response' \in [Requests -> Nat],
           reply' \in [Requests -> Dir!Reply \cup {Dir!NoReply}],
           UsersInv', UsersEvolve, StoreInv', RequestInv(r)',
           \A q \in Requests \ {r} :
              /\ stage'[q] = stage[q] /\ raised'[q] = raised[q] /\ response'[q] = response[q]
              /\ pc'[q] = pc[q] /\ result'[q] = result[q] /\ pending'[q] = pending[q]
              /\ answer'[q] = answer[q] /\ reply'[q] = reply[q]
              /\ q \in executed' <=> q \in executed
              /\ lock' = q => lock = q
    PROVE  IInv'
  <1>1. \A q \in Requests \ {r} : RequestInv(q)'
    BY OthersKeep DEF UsersInv, Dir!User, Dir!Status
  <1>2. \A q \in Requests : RequestInv(q)'
    BY <1>1
  <1>3. \A q \in Requests : pc'[q] # "new" =>
            input[q].op # "get" /\ Fault(input[q]) = NoException
    BY <1>2 DEF RequestInv, StageInv, Keyed
  <1>4. ASSUME NEW q \in Requests PROVE stage'[q] = "answered" <=> response'[q] # 0
    <2>1. StatusOfRequest(q)' \in {200, 201, 401, 403, 404, 409, 422, 500}
      <3>1. PICK e : e = raised'[q]
        OBVIOUS
      <3>2. e \in Raisable
        BY <1>2, <3>1 DEF RequestInv, RaisedInv, Raisable
      <3> QED BY <3>1, <3>2, StatusesOfRaised DEF StatusOfRequest
    <2>2. response'[q] = IF stage'[q] = "answered" THEN StatusOfRequest(q)' ELSE 0
      BY <1>2 DEF RequestInv, AnswerInv
    <2> QED BY <2>1, <2>2
  <1>5. input' \in Workloads
    BY DEF IInv, TypeOK
  <1>6. \A q \in Requests : reply'[q] \in Dir!Reply \cup {Dir!NoReply}
    OBVIOUS
  <1>7. TypeOK'
    BY <1>3, <1>4, <1>5, <1>6
    DEF TypeOK, Stages, Exceptions, Dir!Reply, Dir!NoReply, Dir!User, Dir!Status, Dir!Refusals
  <1> QED BY <1>2, <1>7 DEF IInv, Dir!Reply, Dir!NoReply, Dir!User, Dir!Status, Dir!Refusals

(* The moves of the idempotency behavior, typed.                           *)
LEMMA Moved ==
    ASSUME IInv, NEW r \in Requests, NEW phase \in Idem!Phases \ {"over"},
           pc[r] # "over", Idem!Goto(r, phase), answer' = answer
    PROVE  /\ pc' \in [Requests -> Idem!Phases] /\ pc'[r] = phase
           /\ \A q \in Requests \ {r} : pc'[q] = pc[q]
           /\ \A q \in Requests : pc'[q] = "over" <=> answer'[q] # Idem!NoAnswer
  BY DEF IInv, TypeOK, Idem!TypeOK, Idem!Goto

LEMMA Replied ==
    ASSUME IInv, NEW r \in Requests, NEW code \in Idem!AnswerCodes,
           NEW value \in Idem!Result \cup {Free}, Idem!Reply(r, code, value)
    PROVE  /\ pc' \in [Requests -> Idem!Phases] /\ pc'[r] = "over"
           /\ answer' \in [Requests -> Idem!Answer]
           /\ answer'[r] = [code |-> code, result |-> value]
           /\ \A q \in Requests \ {r} : pc'[q] = pc[q] /\ answer'[q] = answer[q]
           /\ \A q \in Requests : pc'[q] = "over" <=> answer'[q] # Idem!NoAnswer
  <1>1. pc \in [Requests -> Idem!Phases] /\ answer \in [Requests -> Idem!Answer]
        /\ \A q \in Requests : pc[q] = "over" <=> answer[q] # Idem!NoAnswer
    BY DEF IInv, TypeOK, Idem!TypeOK
  <1> DEFINE a == [code |-> code, result |-> value]
  <1>2. a \in Idem!Answer /\ a # Idem!NoAnswer
    BY DEF Idem!Answer, Idem!NoAnswer, Idem!AnswerCodes
  <1> HIDE DEF a
  <1>3. pc' = [pc EXCEPT ![r] = "over"] /\ answer' = [answer EXCEPT ![r] = a]
    BY DEF Idem!Reply, Idem!Goto, a
  <1>4. "over" \in Idem!Phases
    BY DEF Idem!Phases
  <1>5. /\ pc' \in [Requests -> Idem!Phases] /\ pc'[r] = "over"
        /\ answer' \in [Requests -> Idem!Answer] /\ answer'[r] = a
        /\ \A q \in Requests \ {r} : pc'[q] = pc[q] /\ answer'[q] = answer[q]
    BY <1>1, <1>2, <1>3, <1>4
  <1> QED BY <1>1, <1>2, <1>5 DEF a
-----------------------------------------------------------------------------
LEMMA UnansweredSoFar ==
    ASSUME IInv, NEW r \in Requests
    PROVE  /\ RequestInv(r)
           /\ stage[r] # "answered" => response[r] = 0
           /\ stage \in [Requests -> Stages] /\ response \in [Requests -> Nat]
           /\ raised \in [Requests -> Exceptions \cup {NoException}]
  BY DEF IInv, TypeOK, RequestInv, AnswerInv

LEMMA AdmitKeeps ==
    ASSUME IInv, NEW r \in Requests, Admit(r) PROVE IInv'
  <1> USE DEF Dir!vars, dirVars
  <1>1. /\ RequestInv(r) /\ stage[r] = "arriving" /\ response[r] = 0
        /\ Untouched(r) /\ pc[r] = "new" /\ TypeOK
    BY UnansweredSoFar DEF Admit, RequestInv, StageInv, IInv
  <1>2. /\ input' = input /\ response' = response /\ users' = users /\ reply' = reply
    BY DEF Admit
  <1>3. PICK i \in Input : i = input[r]
    BY <1>1, InputsTyped
  <1>4. /\ UsersInv' /\ UsersEvolve
        /\ response' \in [Requests -> Nat]
        /\ reply' \in [Requests -> Dir!Reply \cup {Dir!NoReply}]
    BY <1>2, UsersStay DEF IInv
  <1>5. CASE Fault(i) # NoException
    <2>1. /\ stage' = [stage EXCEPT ![r] = "leaving"]
          /\ raised' = [raised EXCEPT ![r] = Fault(i)]
          /\ UNCHANGED idemVars
      BY <1>3, <1>5 DEF Admit, Leave, Goto
    <2>2. Fault(i) \in Exceptions /\ Fault(i) \in Raisable
      BY <1>3, <1>5, FaultTells, ExceptionsAre DEF Handlers, Raisable
    <2>3. /\ stage' \in [Requests -> Stages] /\ stage'[r] = "leaving"
          /\ raised' \in [Requests -> Exceptions \cup {NoException}] /\ raised'[r] = Fault(i)
          /\ \A q \in Requests \ {r} : stage'[q] = stage[q] /\ raised'[q] = raised[q]
      BY <2>1, <2>2, UnansweredSoFar DEF Stages
    <2>4. Idem!TypeOK' /\ StoreInv'
      BY <1>2, <2>1
      DEF IInv, TypeOK, Idem!TypeOK, StoreInv, idemVars, history, Payload, CarriedPayloads,
          Idem!Result, Idem!Phases, Idem!Answer, Idem!NoAnswer, Idem!AnswerCodes
    <2>5. StageInv(r)'
      <3>1. pc'[r] = "new" /\ reply'[r] = Dir!NoReply /\ stage'[r] = "leaving"
        BY <1>1, <1>2, <2>1, <2>3 DEF Untouched, idemVars
      <3> QED BY <3>1 DEF StageInv, Dir!NoReply
    <2>6. KeyedInv(r)'
      BY <1>1, <2>1 DEF KeyedInv, idemVars
    <2>7. RaisedInv(r)'
      BY <1>2, <1>3, <1>5, <2>2, <2>3, FaultTells DEF RaisedInv
    <2>8. EffectInv(r)'
      BY <1>1, <2>1 DEF EffectInv, Untouched, idemVars
    <2>9. AnswerInv(r)'
      BY <1>1, <1>2, <1>5, <2>3 DEF AnswerInv, Untouched, Succeeded, Dir!NoReply
    <2>10. RequestInv(r)'
      BY <2>5, <2>6, <2>7, <2>8, <2>9 DEF RequestInv
    <2> QED BY <1>2, <1>4, <2>1, <2>3, <2>4, <2>10, StepKeeps DEF idemVars
  <1>6. CASE Fault(i) = NoException /\ Keyed(i)
    <2>1. /\ stage' = [stage EXCEPT ![r] = "keyed"]
          /\ raised' = raised /\ Idem!Begin(r)
      BY <1>3, <1>6 DEF Admit, Goto
    <2>2. /\ stage' \in [Requests -> Stages] /\ stage'[r] = "keyed"
          /\ \A q \in Requests \ {r} : stage'[q] = stage[q]
      BY <2>1, UnansweredSoFar DEF Stages
    <2>3. UNCHANGED <<lock, stored, result, pending, answer, executed, overrun, forgotten>>
      BY <2>1 DEF Idem!Begin
    <2>4. /\ pc' \in [Requests -> Idem!Phases] /\ pc'[r] = "lookup"
          /\ \A q \in Requests \ {r} : pc'[q] = pc[q]
          /\ \A q \in Requests : pc'[q] = "over" <=> answer'[q] # Idem!NoAnswer
      BY <1>1, <2>1, <2>3, Moved DEF Idem!Begin, Idem!Phases
    <2>5. answered' \in [Requests -> SUBSET Requests]
      BY <2>1 DEF Idem!Begin, IInv, TypeOK, Idem!TypeOK, Idem!WithResult
    <2>6. Idem!TypeOK'
      BY <1>2, <2>3, <2>4, <2>5
      DEF IInv, TypeOK, Idem!TypeOK, Payload, CarriedPayloads,
          Idem!Result, Idem!Phases, Idem!Answer, Idem!NoAnswer, Idem!AnswerCodes
    <2>7. StoreInv'
      BY <2>3, <2>4 DEF IInv, TypeOK, Idem!TypeOK, StoreInv
    <2>8. StageInv(r)'
      BY <1>1, <1>2, <1>3, <1>6, <2>1, <2>2, <2>3, <2>4 DEF StageInv
    <2>9. lock # r
      BY <1>1, FreeAssumption DEF IInv, StoreInv
    <2>10. KeyedInv(r)'
      BY <1>1, <1>2, <2>1, <2>3, <2>4, <2>9
      DEF KeyedInv, Untouched, Dir!NoReply
    <2>11. RaisedInv(r)' /\ EffectInv(r)' /\ AnswerInv(r)'
      BY <1>1, <1>2, <2>1, <2>2, <2>3
      DEF Untouched, RaisedInv, Raisable, NoException, EffectInv, AnswerInv, Succeeded, Dir!NoReply
    <2>12. RequestInv(r)'
      BY <2>8, <2>10, <2>11 DEF RequestInv
    <2>13. raised' \in [Requests -> Exceptions \cup {NoException}]
      BY <2>1, UnansweredSoFar
    <2> QED BY <1>2, <1>4, <2>1, <2>2, <2>3, <2>4, <2>6, <2>7, <2>12, <2>13, StepKeeps
  <1>7. CASE Fault(i) = NoException /\ ~Keyed(i)
    <2>1. /\ stage' = [stage EXCEPT ![r] = "handling"]
          /\ raised' = raised /\ UNCHANGED idemVars
      BY <1>3, <1>7 DEF Admit, Goto
    <2>2. /\ stage' \in [Requests -> Stages] /\ stage'[r] = "handling"
          /\ \A q \in Requests \ {r} : stage'[q] = stage[q]
      BY <2>1, UnansweredSoFar DEF Stages
    <2>3. Idem!TypeOK' /\ StoreInv'
      BY <1>2, <2>1
      DEF IInv, TypeOK, Idem!TypeOK, StoreInv, idemVars, history, Payload, CarriedPayloads,
          Idem!Result, Idem!Phases, Idem!Answer, Idem!NoAnswer, Idem!AnswerCodes
    <2>4. StageInv(r)'
      BY <1>1, <1>2, <1>3, <1>7, <2>1, <2>2 DEF StageInv, Untouched, idemVars, Dir!NoReply
    <2>5. KeyedInv(r)'
      BY <1>1, <2>1 DEF KeyedInv, idemVars
    <2>6. RaisedInv(r)' /\ EffectInv(r)' /\ AnswerInv(r)'
      BY <1>1, <1>2, <2>1, <2>2
      DEF Untouched, RaisedInv, Raisable, NoException, EffectInv, AnswerInv, Succeeded,
          Dir!NoReply, idemVars
    <2>7. RequestInv(r)'
      BY <2>4, <2>5, <2>6 DEF RequestInv
    <2>8. raised' \in [Requests -> Exceptions \cup {NoException}]
      BY <2>1, UnansweredSoFar
    <2> QED BY <1>2, <1>4, <2>1, <2>2, <2>3, <2>7, <2>8, StepKeeps DEF idemVars
  <1> QED BY <1>5, <1>6, <1>7
-----------------------------------------------------------------------------
LEMMA IdemTyped ==
    ASSUME IInv, input' = input, lock' \in Requests \cup {Free},
           stored' \in Idem!Result \cup {Free}, stored' # Free => stored'.of \in executed',
           pc' \in [Requests -> Idem!Phases],
           result' \in [Requests -> Idem!Result \cup {Free}],
           pending' \in [Requests -> Idem!Answer], answer' \in [Requests -> Idem!Answer],
           \A q \in Requests : pc'[q] = "over" <=> answer'[q] # Idem!NoAnswer,
           executed \subseteq executed', executed' \subseteq Requests,
           answered' = answered, overrun' \in BOOLEAN, forgotten' = forgotten
    PROVE  Idem!TypeOK'
  BY DEF IInv, TypeOK, Idem!TypeOK, Payload, CarriedPayloads,
         Idem!Result, Idem!Phases, Idem!Answer, Idem!NoAnswer, Idem!AnswerCodes

LEMMA IdemTypes ==
    ASSUME IInv
    PROVE  /\ lock \in Requests \cup {Free}
           /\ stored \in Idem!Result \cup {Free} /\ (stored # Free => stored.of \in executed)
           /\ pc \in [Requests -> Idem!Phases]
           /\ result \in [Requests -> Idem!Result \cup {Free}]
           /\ pending \in [Requests -> Idem!Answer] /\ answer \in [Requests -> Idem!Answer]
           /\ \A q \in Requests : pc[q] = "over" <=> answer[q] # Idem!NoAnswer
           /\ executed \subseteq Requests
           /\ overrun \in BOOLEAN
           /\ StoreInv
  BY DEF IInv, TypeOK, Idem!TypeOK

(* A step inside the idempotency behavior, which may raise RedisError.     *)
LEMMA InsideKeeps ==
    ASSUME IInv, NEW r \in Requests, stage[r] = "keyed",
           UNCHANGED <<input, stage, response, executed, dirVars>>,
           raised' = raised \/ raised' = [raised EXCEPT ![r] = "RedisError"],
           Idem!TypeOK', StoreInv', KeyedInv(r)', pc'[r] # "new",
           \A q \in Requests \ {r} :
              /\ pc'[q] = pc[q] /\ result'[q] = result[q] /\ pending'[q] = pending[q]
              /\ answer'[q] = answer[q]
              /\ lock' = q => lock = q
    PROVE  IInv'
  <1>1. /\ RequestInv(r) /\ response[r] = 0
        /\ stage \in [Requests -> Stages] /\ response \in [Requests -> Nat]
        /\ raised \in [Requests -> Exceptions \cup {NoException}]
    BY UnansweredSoFar
  <1>2. UNCHANGED <<input, stage, response, executed, users, reply>>
    BY DEF dirVars
  <1>3. /\ UsersInv' /\ UsersEvolve
        /\ reply' \in [Requests -> Dir!Reply \cup {Dir!NoReply}]
    BY <1>2, UsersStay DEF IInv
  <1>4. /\ raised' \in [Requests -> Exceptions \cup {NoException}]
        /\ raised'[r] \in {raised[r], "RedisError"}
        /\ \A q \in Requests \ {r} : raised'[q] = raised[q]
    BY <1>1, ExceptionsAre DEF Unhandled
  <1>5. StageInv(r)'
    BY <1>1, <1>2 DEF RequestInv, StageInv
  <1>6. RaisedInv(r)'
    <2>1. CASE raised'[r] = "RedisError"
      BY <2>1 DEF RaisedInv, Raisable
    <2>2. CASE raised'[r] = raised[r]
      BY <1>1, <1>2, <2>2
      DEF RequestInv, RaisedInv, Raisable, NoException, Contested, Dir!IsActive, Dir!EmailTaken
    <2> QED BY <1>4, <2>1, <2>2
  <1>7. EffectInv(r)'
    BY <1>1, <1>2, <1>4 DEF RequestInv, EffectInv, NoException
  <1>8. AnswerInv(r)'
    <2>1. Succeeded(r)' => Effective(input[r])'
      BY <1>1, <1>2 DEF RequestInv, AnswerInv, Succeeded, Effective, Dir!IsActive
    <2> QED BY <1>1, <1>2, <2>1 DEF AnswerInv
  <1>9. RequestInv(r)'
    BY <1>5, <1>6, <1>7, <1>8 DEF RequestInv
  <1>10. \A q \in Requests \ {r} :
            /\ stage'[q] = stage[q] /\ raised'[q] = raised[q] /\ response'[q] = response[q]
            /\ pc'[q] = pc[q] /\ result'[q] = result[q] /\ pending'[q] = pending[q]
            /\ answer'[q] = answer[q] /\ reply'[q] = reply[q]
            /\ q \in executed' <=> q \in executed
            /\ lock' = q => lock = q
    BY <1>2, <1>4
  <1>11. /\ input' = input /\ stage' \in [Requests -> Stages]
         /\ response' \in [Requests -> Nat]
    BY <1>1, <1>2
  <1> QED BY <1>3, <1>4, <1>9, <1>10, <1>11, StepKeeps

LEMMA LookupKeeps ==
    ASSUME IInv, NEW r \in Requests, stage[r] = "keyed", UNCHANGED <<ownVars, dirVars>>,
           Idem!Lookup(r)
    PROVE  IInv'
  <1>1. /\ KeyedInv(r) /\ pc[r] = "lookup" /\ Untouched(r) /\ lock # r
    BY UnansweredSoFar DEF Idem!Lookup, RequestInv, KeyedInv
  <1>2. UNCHANGED <<lock, stored, result, pending, executed, answered, overrun, forgotten>>
    BY DEF Idem!Lookup, Idem!history
  <1>3. UNCHANGED <<input, stage, raised, response, users, reply, log>>
    BY DEF ownVars, dirVars
  <1>4. CASE Idem!Cached(r)
    <2>1. stored \in Idem!Result /\ stored.form = "text"
      BY <1>4, IdemTypes DEF Idem!Cached, StoreInv
    <2>2. Idem!Reply(r, "result", stored)
      BY <1>4 DEF Idem!Lookup
    <2>3. /\ pc' \in [Requests -> Idem!Phases] /\ pc'[r] = "over"
          /\ answer' \in [Requests -> Idem!Answer]
          /\ answer'[r] = [code |-> "result", result |-> stored]
          /\ \A q \in Requests \ {r} : pc'[q] = pc[q] /\ answer'[q] = answer[q]
          /\ \A q \in Requests : pc'[q] = "over" <=> answer'[q] # Idem!NoAnswer
      BY <2>1, <2>2, Replied DEF Idem!AnswerCodes
    <2>4. Idem!TypeOK'
      BY <1>2, <1>3, <2>3, IdemTypes, IdemTyped
    <2>5. StoreInv'
      BY <1>2, <2>3, IdemTypes DEF StoreInv
    <2>6. KeyedInv(r)'
      BY <1>1, <1>3, <2>1, <2>3 DEF KeyedInv, LeavesWith, Untouched, Idem!Result
    <2> QED BY <1>2, <1>3, <2>3, <2>4, <2>5, <2>6, InsideKeeps DEF dirVars
  <1>5. CASE ~Idem!Cached(r)
    <2>1. Idem!Goto(r, "lock") /\ answer' = answer
      BY <1>5 DEF Idem!Lookup
    <2>2. /\ pc' \in [Requests -> Idem!Phases] /\ pc'[r] = "lock"
          /\ \A q \in Requests \ {r} : pc'[q] = pc[q]
          /\ \A q \in Requests : pc'[q] = "over" <=> answer'[q] # Idem!NoAnswer
      BY <1>1, <2>1, Moved DEF Idem!Phases
    <2>3. Idem!TypeOK'
      BY <1>2, <1>3, <2>1, <2>2, IdemTypes, IdemTyped
    <2>4. StoreInv'
      BY <1>2, <2>2, IdemTypes DEF StoreInv
    <2>5. KeyedInv(r)'
      BY <1>1, <1>2, <1>3, <2>2 DEF KeyedInv, Untouched, Dir!NoReply
    <2> QED BY <1>2, <1>3, <2>1, <2>2, <2>3, <2>4, <2>5, InsideKeeps DEF dirVars
  <1> QED BY <1>4, <1>5

LEMMA TryLockKeeps ==
    ASSUME IInv, NEW r \in Requests, stage[r] = "keyed", UNCHANGED <<ownVars, dirVars>>,
           Idem!TryLock(r)
    PROVE  IInv'
  <1>1. /\ KeyedInv(r) /\ pc[r] = "lock" /\ Untouched(r) /\ lock # r /\ Keyed(input[r])
    BY UnansweredSoFar DEF Idem!TryLock, RequestInv, KeyedInv, StageInv
  <1>2. UNCHANGED <<stored, result, pending, executed, answered, overrun, forgotten>>
    BY DEF Idem!TryLock, Idem!history
  <1>3. UNCHANGED <<input, stage, raised, response, users, reply, log>>
    BY DEF ownVars, dirVars
  <1>4. CASE lock = Free
    <2>1. lock' = r /\ Idem!Goto(r, "calling") /\ answer' = answer
      BY <1>4 DEF Idem!TryLock
    <2>2. /\ pc' \in [Requests -> Idem!Phases] /\ pc'[r] = "calling"
          /\ \A q \in Requests \ {r} : pc'[q] = pc[q]
          /\ \A q \in Requests : pc'[q] = "over" <=> answer'[q] # Idem!NoAnswer
      BY <1>1, <2>1, Moved DEF Idem!Phases
    <2>3. Idem!TypeOK'
      BY <1>2, <1>3, <2>1, <2>2, IdemTypes, IdemTyped
    <2>4. StoreInv'
      BY <1>2, <2>1, <2>2, IdemTypes DEF StoreInv
    <2>5. KeyedInv(r)'
      BY <1>1, <1>2, <1>3, <2>2 DEF KeyedInv, Untouched, Dir!NoReply
    <2> QED BY <1>2, <1>3, <2>1, <2>2, <2>3, <2>4, <2>5, InsideKeeps DEF dirVars
  <1>5. CASE lock # Free
    <2>1. Idem!Reply(r, "conflict", Free) /\ lock' = lock
      BY <1>5 DEF Idem!TryLock
    <2>2. /\ pc' \in [Requests -> Idem!Phases] /\ pc'[r] = "over"
          /\ answer' \in [Requests -> Idem!Answer]
          /\ answer'[r] = [code |-> "conflict", result |-> Free]
          /\ \A q \in Requests \ {r} : pc'[q] = pc[q] /\ answer'[q] = answer[q]
          /\ \A q \in Requests : pc'[q] = "over" <=> answer'[q] # Idem!NoAnswer
      BY <2>1, Replied DEF Idem!AnswerCodes
    <2>3. Idem!TypeOK'
      BY <1>2, <1>3, <2>1, <2>2, IdemTypes, IdemTyped
    <2>4. StoreInv'
      BY <1>2, <2>1, <2>2, IdemTypes DEF StoreInv
    <2>5. Contested(r)
      <3>1. lock \in Requests \ {r} /\ pc[lock] # "new"
        BY <1>1, <1>5, IdemTypes DEF StoreInv
      <3>2. Keyed(input[lock])
        BY <3>1 DEF IInv, RequestInv, StageInv
      <3> QED BY <1>1, <3>1, <3>2 DEF Contested
    <2>6. KeyedInv(r)'
      BY <1>1, <1>2, <1>3, <2>2, <2>5 DEF KeyedInv, LeavesWith, Untouched, Contested
    <2> QED BY <1>2, <1>3, <2>1, <2>2, <2>3, <2>4, <2>6, InsideKeeps DEF dirVars
  <1> QED BY <1>4, <1>5
LEMMA Left ==
    ASSUME IInv, NEW r \in Requests, pc[r] # "over", NEW code \in Idem!AnswerCodes,
           NEW value \in Idem!Result \cup {Free}, Idem!Leave(r, code, value), answer' = answer
    PROVE  /\ pc' \in [Requests -> Idem!Phases] /\ pc'[r] = "releasing"
           /\ pending' \in [Requests -> Idem!Answer]
           /\ pending'[r] = [code |-> code, result |-> value]
           /\ \A q \in Requests \ {r} : pc'[q] = pc[q] /\ pending'[q] = pending[q]
           /\ \A q \in Requests : pc'[q] = "over" <=> answer'[q] # Idem!NoAnswer
  <1> DEFINE a == [code |-> code, result |-> value]
  <1>1. a \in Idem!Answer
    BY DEF Idem!Answer
  <1> HIDE DEF a
  <1>2. Idem!Goto(r, "releasing") /\ pending' = [pending EXCEPT ![r] = a]
    BY DEF Idem!Leave, a
  <1>3. /\ pc' \in [Requests -> Idem!Phases] /\ pc'[r] = "releasing"
        /\ \A q \in Requests \ {r} : pc'[q] = pc[q]
        /\ \A q \in Requests : pc'[q] = "over" <=> answer'[q] # Idem!NoAnswer
    BY <1>2, Moved DEF Idem!Phases
  <1>4. /\ pending' \in [Requests -> Idem!Answer] /\ pending'[r] = a
        /\ \A q \in Requests \ {r} : pending'[q] = pending[q]
    BY <1>1, <1>2, IdemTypes
  <1> QED BY <1>3, <1>4 DEF a

LEMMA StoredTexts ==
    ASSUME NEW r \in Requests, NEW value, value = [of |-> r, form |-> "dto"]
    PROVE  /\ value \in Idem!Result /\ Idem!Serialized(value) \in Idem!Result
           /\ Idem!Serialized(value).form = "text" /\ Idem!Serialized(value).of = r
  <1>1. Idem!Serialized(value) = [of |-> r, form |-> "text"]
    BY DEF Idem!Serialized
  <1> QED BY <1>1 DEF Idem!Result

LEMMA StoreKeeps ==
    ASSUME IInv, NEW r \in Requests, stage[r] = "keyed", UNCHANGED <<ownVars, dirVars>>,
           Idem!Store(r)
    PROVE  IInv'
  <1>1. /\ KeyedInv(r) /\ pc[r] = "storing"
        /\ raised[r] = NoException /\ Succeeded(r) /\ r \in executed
    BY UnansweredSoFar DEF Idem!Store, RequestInv, KeyedInv
  <1>2. PICK value : value = result[r]
    OBVIOUS
  <1>3. value = [of |-> r, form |-> "dto"]
    BY <1>1, <1>2 DEF KeyedInv
  <1>4. /\ UNCHANGED <<lock, result, answer, executed, answered, overrun, forgotten>>
        /\ stored' = Idem!Serialized(value) /\ Idem!Leave(r, "result", value)
    BY <1>2 DEF Idem!Store, Idem!history
  <1>5. UNCHANGED <<input, stage, raised, response, users, reply, log>>
    BY DEF ownVars, dirVars
  <1>6. /\ value \in Idem!Result /\ stored' \in Idem!Result
        /\ stored'.form = "text" /\ stored'.of = r
    BY <1>3, <1>4, StoredTexts
  <1>7. /\ pc' \in [Requests -> Idem!Phases] /\ pc'[r] = "releasing"
        /\ pending' \in [Requests -> Idem!Answer]
        /\ pending'[r] = [code |-> "result", result |-> value]
        /\ \A q \in Requests \ {r} : pc'[q] = pc[q] /\ pending'[q] = pending[q]
        /\ \A q \in Requests : pc'[q] = "over" <=> answer'[q] # Idem!NoAnswer
    BY <1>1, <1>4, <1>6, Left DEF Idem!AnswerCodes
  <1>8. Idem!TypeOK'
    BY <1>1, <1>4, <1>5, <1>6, <1>7, IdemTypes, IdemTyped
  <1>9. StoreInv'
    BY <1>4, <1>6, <1>7, IdemTypes DEF StoreInv
  <1>10. KeyedInv(r)'
    <2>1. LeavesWith(r, pending[r])'
      BY <1>1, <1>5, <1>6, <1>7 DEF LeavesWith, Succeeded, Idem!Result
    <2> QED BY <1>7, <2>1 DEF KeyedInv
  <1> QED BY <1>4, <1>5, <1>7, <1>8, <1>9, <1>10, InsideKeeps DEF dirVars

LEMMA ReleaseKeeps ==
    ASSUME IInv, NEW r \in Requests, stage[r] = "keyed", UNCHANGED <<ownVars, dirVars>>,
           Idem!Release(r)
    PROVE  IInv'
  <1>1. KeyedInv(r) /\ pc[r] = "releasing" /\ LeavesWith(r, pending[r])
    BY UnansweredSoFar DEF Idem!Release, RequestInv, KeyedInv
  <1>2. PICK a : a = pending[r]
    OBVIOUS
  <1>3. /\ UNCHANGED <<stored, result, pending, executed, answered, overrun, forgotten>>
        /\ lock' = Free /\ Idem!Reply(r, a.code, a.result)
    BY <1>2 DEF Idem!Release, Idem!history
  <1>4. UNCHANGED <<input, stage, raised, response, users, reply, log>>
    BY DEF ownVars, dirVars
  <1>5. /\ a = [code |-> a.code, result |-> a.result]
        /\ a.code \in Idem!AnswerCodes /\ a.result \in Idem!Result \cup {Free}
    <2>1. a \in Idem!Answer /\ a.code \in {"result", "conflict", "error"}
      BY <1>1, <1>2, IdemTypes DEF LeavesWith
    <2> QED BY <2>1 DEF Idem!Answer, Idem!NoAnswer, Idem!AnswerCodes
  <1>6. /\ pc' \in [Requests -> Idem!Phases] /\ pc'[r] = "over"
        /\ answer' \in [Requests -> Idem!Answer] /\ answer'[r] = a
        /\ \A q \in Requests \ {r} : pc'[q] = pc[q] /\ answer'[q] = answer[q]
        /\ \A q \in Requests : pc'[q] = "over" <=> answer'[q] # Idem!NoAnswer
    BY <1>3, <1>5, Replied
  <1>7. Idem!TypeOK'
    BY <1>3, <1>4, <1>6, IdemTypes, IdemTyped
  <1>8. StoreInv'
    BY <1>3, IdemTypes DEF StoreInv
  <1>9. KeyedInv(r)'
    <2>1. LeavesWith(r, answer[r])'
      BY <1>1, <1>2, <1>3, <1>4, <1>6 DEF LeavesWith, Succeeded, Contested, Idem!Result
    <2> QED BY <1>6, <2>1 DEF KeyedInv
  <1> QED BY <1>3, <1>4, <1>6, <1>7, <1>8, <1>9, FreeAssumption, InsideKeeps DEF dirVars

LEMMA StoreRaisesKeeps ==
    ASSUME IInv, NEW r \in Requests, stage[r] = "keyed",
           UNCHANGED <<input, stage, response, dirVars>>,
           raised' = [raised EXCEPT ![r] = "RedisError"], Idem!StoreRaises(r)
    PROVE  IInv'
  <1>1. KeyedInv(r) /\ pc[r] = "storing" /\ r \in executed
    BY UnansweredSoFar DEF Idem!StoreRaises, RequestInv, KeyedInv
  <1>2. PICK value : value = result[r]
    OBVIOUS
  <1>3. value = [of |-> r, form |-> "dto"]
    BY <1>1, <1>2 DEF KeyedInv
  <1>4. /\ UNCHANGED <<lock, result, answer, executed, answered, overrun, forgotten>>
        /\ stored' \in {stored, Idem!Serialized(value)} /\ Idem!Leave(r, "error", Free)
    BY <1>2 DEF Idem!StoreRaises, Idem!history
  <1>5. /\ stored' \in Idem!Result \cup {Free}
        /\ stored' # Free => stored'.form = "text" /\ stored'.of \in executed
    BY <1>1, <1>3, <1>4, StoredTexts, IdemTypes DEF StoreInv
  <1>6. /\ pc' \in [Requests -> Idem!Phases] /\ pc'[r] = "releasing"
        /\ pending' \in [Requests -> Idem!Answer]
        /\ pending'[r] = [code |-> "error", result |-> Free]
        /\ \A q \in Requests \ {r} : pc'[q] = pc[q] /\ pending'[q] = pending[q]
        /\ \A q \in Requests : pc'[q] = "over" <=> answer'[q] # Idem!NoAnswer
    BY <1>1, <1>4, Left DEF Idem!AnswerCodes
  <1>7. Idem!TypeOK'
    BY <1>4, <1>5, <1>6, IdemTypes, IdemTyped
  <1>8. StoreInv'
    BY <1>4, <1>5, <1>6, IdemTypes DEF StoreInv
  <1>9. KeyedInv(r)'
    <2>1. raised'[r] = "RedisError"
      BY UnansweredSoFar
    <2>2. LeavesWith(r, pending[r])'
      BY <2>1, <1>6 DEF LeavesWith, NoException
    <2> QED BY <1>6, <2>2 DEF KeyedInv
  <1> QED BY <1>4, <1>6, <1>7, <1>8, <1>9, InsideKeeps

LEMMA RedisRaisesKeeps ==
    ASSUME IInv, NEW r \in Requests, stage[r] = "keyed",
           UNCHANGED <<input, stage, response, dirVars>>,
           raised' = [raised EXCEPT ![r] = "RedisError"], Idem!RedisRaises(r)
    PROVE  IInv'
  <1>1. /\ UNCHANGED <<stored, result, pending, executed, answered, overrun, forgotten>>
        /\ lock' \in {lock, r, Free} /\ Idem!Reply(r, "error", Free)
    BY DEF Idem!RedisRaises, Idem!history
  <1>2. /\ pc' \in [Requests -> Idem!Phases] /\ pc'[r] = "over"
        /\ answer' \in [Requests -> Idem!Answer]
        /\ answer'[r] = [code |-> "error", result |-> Free]
        /\ \A q \in Requests \ {r} : pc'[q] = pc[q] /\ answer'[q] = answer[q]
        /\ \A q \in Requests : pc'[q] = "over" <=> answer'[q] # Idem!NoAnswer
    BY <1>1, Replied DEF Idem!AnswerCodes
  <1>3. Idem!TypeOK'
    BY <1>1, <1>2, IdemTypes, IdemTyped
  <1>4. StoreInv'
    BY <1>1, <1>2, IdemTypes DEF StoreInv
  <1>5. KeyedInv(r)'
    <2>1. raised'[r] = "RedisError"
      BY UnansweredSoFar
    <2>2. LeavesWith(r, answer[r])'
      BY <2>1, <1>2 DEF LeavesWith, NoException
    <2> QED BY <1>2, <2>2 DEF KeyedInv
  <1> QED BY <1>1, <1>2, <1>3, <1>4, <1>5, FreeAssumption, InsideKeeps
LEMMA LockExpiresKeeps ==
    ASSUME IInv, LockExpires PROVE IInv'
  <1>1. /\ UNCHANGED <<input, stage, raised, response, users, reply>>
        /\ UNCHANGED <<stored, pc, result, pending, answer, executed, answered, forgotten>>
        /\ lock' = Free /\ overrun' \in BOOLEAN
    BY IdemTypes DEF LockExpires, ownVars, dirVars, Idem!Expire
  <1>2. UsersInv' /\ UsersEvolve
    BY <1>1, UsersStay DEF IInv
  <1>3. ASSUME NEW q \in Requests PROVE RequestInv(q)'
    BY <1>1, <1>2, FreeAssumption, OthersKeep DEF UsersInv, Dir!User, Dir!Status
  <1>4. Idem!TypeOK'
    BY <1>1, IdemTypes, IdemTyped
  <1>5. StoreInv'
    BY <1>1, IdemTypes DEF StoreInv
  <1>6. TypeOK'
    BY <1>1, <1>4
    DEF IInv, TypeOK, Stages, Exceptions, Dir!Reply, Dir!NoReply, Dir!User, Dir!Status,
        Dir!Refusals
  <1> QED BY <1>1, <1>2, <1>3, <1>5, <1>6
          DEF IInv, Dir!Reply, Dir!NoReply, Dir!User, Dir!Status, Dir!Refusals

(* A step on the way back to the client.                                   *)
LEMMA OutsideKeeps ==
    ASSUME IInv, NEW r \in Requests, UNCHANGED <<input, idemVars, dirVars>>,
           NEW s \in Stages, stage' = [stage EXCEPT ![r] = s],
           raised' \in [Requests -> Exceptions \cup {NoException}],
           response' \in [Requests -> Nat], RequestInv(r)',
           \A q \in Requests \ {r} : raised'[q] = raised[q] /\ response'[q] = response[q]
    PROVE  IInv'
  <1>1. /\ UNCHANGED <<input, users, reply, lock, stored, pc, result, pending, answer>>
        /\ UNCHANGED <<executed, answered, overrun, forgotten>>
    BY DEF idemVars, history, dirVars
  <1>2. /\ UsersInv' /\ UsersEvolve
        /\ reply' \in [Requests -> Dir!Reply \cup {Dir!NoReply}]
    BY <1>1, UsersStay DEF IInv
  <1>3. Idem!TypeOK'
    BY <1>1, IdemTypes, IdemTyped
  <1>4. StoreInv'
    BY <1>1, IdemTypes DEF StoreInv
  <1>5. stage' \in [Requests -> Stages] /\ \A q \in Requests \ {r} : stage'[q] = stage[q]
    BY UnansweredSoFar
  <1>6. \A q \in Requests \ {r} :
            /\ stage'[q] = stage[q] /\ raised'[q] = raised[q] /\ response'[q] = response[q]
            /\ pc'[q] = pc[q] /\ result'[q] = result[q] /\ pending'[q] = pending[q]
            /\ answer'[q] = answer[q] /\ reply'[q] = reply[q]
            /\ q \in executed' <=> q \in executed
            /\ lock' = q => lock = q
    BY <1>1, <1>5
  <1> QED BY <1>1, <1>2, <1>3, <1>4, <1>5, <1>6, StepKeeps

LEMMA UnwindKeeps ==
    ASSUME IInv, NEW r \in Requests, Unwind(r) PROVE IInv'
  <1>1. /\ RequestInv(r) /\ stage[r] = "keyed" /\ pc[r] = "over" /\ response[r] = 0
        /\ stage \in [Requests -> Stages] /\ response \in [Requests -> Nat]
        /\ raised \in [Requests -> Exceptions \cup {NoException}]
    BY UnansweredSoFar DEF Unwind
  <1>2. UNCHANGED <<input, response, idemVars, dirVars>>
    BY DEF Unwind
  <1>3. UNCHANGED <<input, response, users, reply, pc, pending, answer, executed>>
    BY <1>2 DEF idemVars, dirVars
  <1>4. LeavesWith(r, answer[r])
    BY <1>1 DEF RequestInv, KeyedInv
  <1>5. PICK e \in Raisable :
            /\ stage' = [stage EXCEPT ![r] = "leaving"]
            /\ raised' = [raised EXCEPT ![r] = e]
            /\ \/ e = "ConflictException" /\ Contested(r) /\ r \notin executed
               \/ e = raised[r] /\ e # NoException
               \/ e = "ValidationError"
               \/ e = NoException /\ raised[r] = NoException /\ Succeeded(r)
    <2>1. CASE answer[r].code = "conflict"
      BY <1>4, <2>1 DEF Unwind, Leave, Goto, LeavesWith, Raisable
    <2>2. CASE answer[r].code = "error"
      <3>1. raised[r] # NoException /\ raised[r] \in Raisable
        BY <1>1, <1>4, <2>2 DEF LeavesWith, RequestInv, RaisedInv
      <3>2. stage' = [stage EXCEPT ![r] = "leaving"] /\ raised' = raised
        BY <2>2 DEF Unwind, Goto
      <3>3. raised' = [raised EXCEPT ![r] = raised[r]]
        BY <1>1, <3>2
      <3> QED BY <3>1, <3>2, <3>3
    <2>3. CASE answer[r].code = "result" /\ answer[r].result.form = "text"
      BY <2>3 DEF Unwind, Leave, Goto, Raisable
    <2>4. CASE answer[r].code = "result" /\ answer[r].result.form # "text"
      <3>1. raised[r] = NoException /\ Succeeded(r)
        BY <1>4, <2>4 DEF LeavesWith, Idem!Result
      <3> QED BY <2>4, <3>1 DEF Unwind, Leave, Goto, Raisable
    <2> QED BY <1>4, <2>1, <2>2, <2>3, <2>4 DEF LeavesWith
  <1>6. e \in Exceptions \cup {NoException}
    BY <1>5, ExceptionsAre DEF Raisable, Handlers, Unhandled
  <1>7. /\ stage'[r] = "leaving" /\ raised'[r] = e
        /\ raised' \in [Requests -> Exceptions \cup {NoException}]
        /\ \A q \in Requests \ {r} : raised'[q] = raised[q]
    BY <1>1, <1>5, <1>6
  <1>8. StageInv(r)'
    BY <1>1, <1>3, <1>7 DEF RequestInv, StageInv
  <1>9. KeyedInv(r)'
    BY <1>1, <1>3, <1>7 DEF KeyedInv
  <1>10. RaisedInv(r)'
    <2>1. Contested(r)' <=> Contested(r)
      BY <1>3 DEF Contested
    <2>2. CASE e = raised[r]
      BY <1>1, <1>3, <1>7, <2>1, <2>2
      DEF RequestInv, RaisedInv, Dir!IsActive, Dir!EmailTaken
    <2>3. CASE e = "ConflictException" /\ Contested(r)
      BY <1>7, <2>1, <2>3 DEF RaisedInv, Raisable
    <2>4. CASE e = "ValidationError"
      BY <1>7, <2>4 DEF RaisedInv, Raisable
    <2>5. e = NoException => e = raised[r]
      BY <1>5 DEF NoException
    <2> QED BY <1>5, <2>2, <2>3, <2>4, <2>5
  <1>11. EffectInv(r)'
    BY <1>1, <1>3, <1>5, <1>7 DEF RequestInv, EffectInv
  <1>12. AnswerInv(r)'
    <2>1. Succeeded(r)' <=> Succeeded(r)
      BY <1>3 DEF Succeeded
    <2>2. Succeeded(r)' => Effective(input[r])'
      BY <1>1, <1>3 DEF RequestInv, AnswerInv, Succeeded, Effective, Dir!IsActive
    <2> QED BY <1>1, <1>3, <1>5, <1>7, <2>1, <2>2 DEF AnswerInv, NoException
  <1>13. RequestInv(r)'
    BY <1>8, <1>9, <1>10, <1>11, <1>12 DEF RequestInv
  <1>14. UNCHANGED <<input, idemVars, dirVars>> /\ response' \in [Requests -> Nat]
    BY <1>1, <1>2
  <1> QED BY <1>3, <1>5, <1>7, <1>13, <1>14, OutsideKeeps DEF Stages

LEMMA RespondKeeps ==
    ASSUME IInv, NEW r \in Requests, Respond(r) PROVE IInv'
  <1>1. /\ RequestInv(r) /\ stage[r] = "leaving"
        /\ stage \in [Requests -> Stages] /\ response \in [Requests -> Nat]
        /\ raised \in [Requests -> Exceptions \cup {NoException}]
    BY UnansweredSoFar DEF Respond
  <1>2. /\ UNCHANGED <<input, raised, idemVars, dirVars>>
        /\ stage' = [stage EXCEPT ![r] = "answered"]
        /\ response' = [response EXCEPT ![r] = StatusOfRequest(r)]
    BY DEF Respond, Goto, StatusOfRequest
  <1>3. UNCHANGED <<input, raised, users, reply, lock, pc, result, pending, answer, executed>>
    BY <1>2 DEF idemVars, dirVars
  <1>4. StatusOfRequest(r) \in Nat
    <2>1. PICK e : e = raised[r]
      OBVIOUS
    <2>2. e \in Raisable
      BY <1>1, <2>1 DEF RequestInv, RaisedInv
    <2> QED BY <2>1, <2>2, StatusesOfRaised DEF StatusOfRequest
  <1>5. /\ stage'[r] = "answered" /\ response'[r] = StatusOfRequest(r)
        /\ response' \in [Requests -> Nat]
        /\ \A q \in Requests \ {r} : response'[q] = response[q]
    BY <1>1, <1>2, <1>4
  <1>6. StageInv(r)'
    BY <1>1, <1>3, <1>5 DEF RequestInv, StageInv
  <1>7. KeyedInv(r)'
    BY <1>1, <1>3, <1>5
    DEF RequestInv, KeyedInv, StageInv, LeavesWith, Untouched, Succeeded, Contested, Dir!NoReply
  <1>8. RaisedInv(r)'
    BY <1>1, <1>3 DEF RequestInv, RaisedInv, Contested, Dir!IsActive, Dir!EmailTaken
  <1>9. EffectInv(r)'
    BY <1>1, <1>3 DEF RequestInv, EffectInv
  <1>10. AnswerInv(r)'
    <2>1. Succeeded(r)' <=> Succeeded(r)
      BY <1>3 DEF Succeeded
    <2>2. Succeeded(r)' => Effective(input[r])'
      BY <1>1, <1>3 DEF RequestInv, AnswerInv, Succeeded, Effective, Dir!IsActive
    <2>3. StatusOfRequest(r)' = StatusOfRequest(r)
      BY <1>3 DEF StatusOfRequest
    <2> QED BY <1>1, <1>3, <1>5, <2>1, <2>2, <2>3 DEF RequestInv, AnswerInv
  <1>11. RequestInv(r)'
    BY <1>6, <1>7, <1>8, <1>9, <1>10 DEF RequestInv
  <1>12. raised' \in [Requests -> Exceptions \cup {NoException}]
    BY <1>1, <1>3
  <1> QED BY <1>2, <1>3, <1>5, <1>11, <1>12, OutsideKeeps DEF Stages
-----------------------------------------------------------------------------
(* The handler is reached with nothing done, after every check.            *)
LEMMA HandlerReached ==
    ASSUME IInv, NEW r \in Requests,
           \/ Keyed(input[r]) /\ stage[r] = "keyed" /\ pc[r] = "calling"
           \/ ~Keyed(input[r]) /\ stage[r] = "handling"
    PROVE  /\ Untouched(r) /\ Fault(input[r]) = NoException /\ response[r] = 0
           /\ ~Keyed(input[r]) => pc[r] = "new"
  <1>1. RequestInv(r) /\ (stage[r] # "answered" => response[r] = 0)
    BY UnansweredSoFar
  <1> QED BY <1>1 DEF RequestInv, StageInv, KeyedInv

LEMMA ThrowKeeps ==
    ASSUME IInv, NEW r \in Requests, NEW e \in Raisable \ {NoException}, NEW took,
           took = {} \/ (took = {r} /\ e = "DBAPIError"),
           Throw(r, e, took), UNCHANGED <<input, response>>, UsersInv', UsersEvolve,
           reply' \in [Requests -> Dir!Reply \cup {Dir!NoReply}], reply'[r].code # "ok",
           \A q \in Requests \ {r} : reply'[q] = reply[q],
           raised'[r] = e => RaisedInv(r)'
    PROVE  IInv'
  <1>1. /\ RequestInv(r)
        /\ stage \in [Requests -> Stages] /\ response \in [Requests -> Nat]
        /\ raised \in [Requests -> Exceptions \cup {NoException}]
    BY UnansweredSoFar
  <1>2. /\ input' = input /\ response' = response
        /\ raised' = [raised EXCEPT ![r] = e]
        /\ executed' = executed \cup took
    BY DEF Throw
  <1>3. e \in Exceptions /\ e # NoException
    BY ExceptionsAre DEF Raisable, Handlers, Unhandled
  <1>4. /\ raised' \in [Requests -> Exceptions \cup {NoException}] /\ raised'[r] = e
        /\ \A q \in Requests \ {r} : raised'[q] = raised[q]
    BY <1>1, <1>2, <1>3
  <1>5. ~Succeeded(r)' /\ RaisedInv(r)'
    BY <1>4 DEF Succeeded
  <1>6. executed \subseteq executed' /\ executed' \subseteq Requests
        /\ \A q \in Requests \ {r} : q \in executed' <=> q \in executed
    BY <1>2, IdemTypes
  <1>7. CASE Keyed(input[r])
    <2>1. /\ stage[r] = "keyed" /\ stage' = stage /\ Idem!CallRaises(r)
      BY <1>7 DEF Throw
    <2>2. /\ pc[r] = "calling" /\ Idem!Leave(r, "error", Free)
          /\ UNCHANGED <<lock, stored, result, answer, answered, overrun, forgotten>>
      BY <2>1 DEF Idem!CallRaises, Idem!history
    <2>3. Untouched(r) /\ Fault(input[r]) = NoException /\ response[r] = 0
      BY <1>7, <2>1, <2>2, HandlerReached
    <2>4. /\ pc' \in [Requests -> Idem!Phases] /\ pc'[r] = "releasing"
          /\ pending' \in [Requests -> Idem!Answer]
          /\ pending'[r] = [code |-> "error", result |-> Free]
          /\ \A q \in Requests \ {r} : pc'[q] = pc[q] /\ pending'[q] = pending[q]
          /\ \A q \in Requests : pc'[q] = "over" <=> answer'[q] # Idem!NoAnswer
      BY <2>2, Left DEF Idem!AnswerCodes
    <2>5. Idem!TypeOK'
      BY <1>2, <1>6, <2>2, <2>4, IdemTypes, IdemTyped
    <2>6. StoreInv'
      BY <2>2, <2>4, IdemTypes DEF StoreInv
    <2>7. StageInv(r)'
      BY <1>2, <1>7, <2>1, <2>3, <2>4 DEF StageInv
    <2>8. KeyedInv(r)'
      <3>1. LeavesWith(r, pending[r])'
        BY <1>3, <1>4, <2>4 DEF LeavesWith
      <3> QED BY <2>4, <3>1 DEF KeyedInv
    <2>9. EffectInv(r)'
      BY <1>2, <1>4, <2>3 DEF EffectInv, Untouched
    <2>10. AnswerInv(r)'
      BY <1>2, <1>5, <2>1, <2>3 DEF AnswerInv
    <2>11. RequestInv(r)'
      BY <1>5, <2>7, <2>8, <2>9, <2>10 DEF RequestInv
    <2>12. \A q \in Requests \ {r} :
              /\ stage'[q] = stage[q] /\ raised'[q] = raised[q] /\ response'[q] = response[q]
              /\ pc'[q] = pc[q] /\ result'[q] = result[q] /\ pending'[q] = pending[q]
              /\ answer'[q] = answer[q] /\ reply'[q] = reply[q]
              /\ q \in executed' <=> q \in executed
              /\ lock' = q => lock = q
      BY <1>2, <1>4, <1>6, <2>1, <2>2, <2>4
    <2>13. stage' \in [Requests -> Stages] /\ response' \in [Requests -> Nat]
      BY <1>1, <1>2, <2>1
    <2> QED BY <1>2, <1>4, <2>5, <2>6, <2>11, <2>12, <2>13, StepKeeps
  <1>8. CASE ~Keyed(input[r])
    <2>1. /\ stage[r] = "handling" /\ stage' = [stage EXCEPT ![r] = "leaving"]
          /\ UNCHANGED <<lock, stored, pc, result, pending, answer>>
          /\ UNCHANGED <<answered, overrun, forgotten>>
      BY <1>8 DEF Throw, Goto, history
    <2>2. /\ Untouched(r) /\ Fault(input[r]) = NoException /\ response[r] = 0
          /\ pc[r] = "new"
      BY <1>8, <2>1, HandlerReached
    <2>3. /\ stage' \in [Requests -> Stages] /\ stage'[r] = "leaving"
          /\ \A q \in Requests \ {r} : stage'[q] = stage[q]
      BY <1>1, <2>1 DEF Stages
    <2>4. Idem!TypeOK'
      BY <1>2, <1>6, <2>1, IdemTypes, IdemTyped
    <2>5. StoreInv'
      BY <2>1, IdemTypes DEF StoreInv
    <2>6. StageInv(r)'
      BY <1>2, <2>1, <2>2, <2>3 DEF StageInv
    <2>7. KeyedInv(r)'
      BY <2>1, <2>2 DEF KeyedInv
    <2>8. EffectInv(r)'
      BY <1>2, <1>4, <2>2 DEF EffectInv, Untouched
    <2>9. AnswerInv(r)'
      BY <1>2, <1>3, <1>4, <1>5, <2>2, <2>3 DEF AnswerInv
    <2>10. RequestInv(r)'
      BY <1>5, <2>6, <2>7, <2>8, <2>9 DEF RequestInv
    <2>11. \A q \in Requests \ {r} :
              /\ stage'[q] = stage[q] /\ raised'[q] = raised[q] /\ response'[q] = response[q]
              /\ pc'[q] = pc[q] /\ result'[q] = result[q] /\ pending'[q] = pending[q]
              /\ answer'[q] = answer[q] /\ reply'[q] = reply[q]
              /\ q \in executed' <=> q \in executed
              /\ lock' = q => lock = q
      BY <1>2, <1>4, <1>6, <2>1, <2>3
    <2>12. response' \in [Requests -> Nat]
      BY <1>1, <1>2
    <2> QED BY <1>2, <1>4, <2>3, <2>4, <2>5, <2>10, <2>11, <2>12, StepKeeps
  <1> QED BY <1>7, <1>8
LEMMA HandleKeeps ==
    ASSUME IInv, NEW r \in Requests, Handle(r) PROVE IInv'
  <1>1. PICK c : c = Command(input[r])
    OBVIOUS
  <1>2. PICK row : row = Dir!Result(c)
    OBVIOUS
  <1>3. /\ UNCHANGED <<input, raised, response>>
        /\ Dir!CarryOut(Command(input[r])) /\ Dir!Answer(r, "ok", row) /\ Return(r)
    BY <1>1, <1>2 DEF Handle, Dir!Serve
  <1>4. /\ UsersInv' /\ UsersEvolve /\ row \in Dir!User
        /\ users'[input[r].id] # NoUser
        /\ input[r].op = "register" => users'[input[r].id].email = Email(input[r])
        /\ input[r].op = "deactivate" => users'[input[r].id].status # "active"
    BY <1>1, <1>2, <1>3, CarriedOut DEF IInv
  <1>5. /\ reply' \in [Requests -> Dir!Reply \cup {Dir!NoReply}]
        /\ reply'[r] = [code |-> "ok", user |-> row]
        /\ \A q \in Requests \ {r} : reply'[q] = reply[q]
    BY <1>3, <1>4, Answered
  <1>6. Succeeded(r)' /\ Effective(input[r])'
    BY <1>3, <1>4, <1>5 DEF Succeeded, Effective, Dir!IsActive
  <1>7. /\ stage \in [Requests -> Stages] /\ response \in [Requests -> Nat]
        /\ raised \in [Requests -> Exceptions \cup {NoException}]
    BY UnansweredSoFar
  <1>9. CASE Keyed(input[r])
    <2>1. stage[r] = "keyed" /\ stage' = stage /\ Idem!Call(r)
      BY <1>3, <1>9 DEF Return
    <2>2. /\ pc[r] = "calling" /\ executed' = executed \cup {r}
          /\ result' = [result EXCEPT ![r] = [of |-> r, form |-> "dto"]]
          /\ Idem!Goto(r, "storing")
          /\ UNCHANGED <<lock, stored, pending, answer, answered, overrun, forgotten>>
      BY <2>1 DEF Idem!Call, Idem!history
    <2>3. Untouched(r) /\ Fault(input[r]) = NoException /\ response[r] = 0
      BY <1>9, <2>1, <2>2, HandlerReached
    <2>4. /\ pc' \in [Requests -> Idem!Phases] /\ pc'[r] = "storing"
          /\ \A q \in Requests \ {r} : pc'[q] = pc[q]
          /\ \A q \in Requests : pc'[q] = "over" <=> answer'[q] # Idem!NoAnswer
      BY <2>2, Moved DEF Idem!Phases
    <2>5. /\ result' \in [Requests -> Idem!Result \cup {Free}]
          /\ result'[r] = [of |-> r, form |-> "dto"]
          /\ \A q \in Requests \ {r} : result'[q] = result[q]
      <3>1. PICK value : value = [of |-> r, form |-> "dto"]
        OBVIOUS
      <3>2. value \in Idem!Result
        BY <3>1 DEF Idem!Result
      <3>3. result' = [result EXCEPT ![r] = value]
        BY <2>2, <3>1
      <3> QED BY <3>1, <3>2, <3>3, IdemTypes
    <2>6. Idem!TypeOK'
      BY <1>3, <2>2, <2>4, <2>5, IdemTypes, IdemTyped
    <2>7. StoreInv'
      BY <2>2, <2>4, IdemTypes DEF StoreInv
    <2>8. StageInv(r)'
      BY <1>3, <1>9, <2>1, <2>3, <2>4 DEF StageInv
    <2>9. KeyedInv(r)'
      BY <1>3, <1>6, <2>2, <2>3, <2>4, <2>5 DEF KeyedInv, Untouched
    <2>10. RaisedInv(r)' /\ EffectInv(r)'
      BY <1>3, <2>3 DEF RaisedInv, Raisable, NoException, EffectInv, Untouched
    <2>11. AnswerInv(r)'
      BY <1>3, <1>6, <2>1, <2>3 DEF AnswerInv
    <2>12. RequestInv(r)'
      BY <2>8, <2>9, <2>10, <2>11 DEF RequestInv
    <2>13. \A q \in Requests \ {r} :
              /\ stage'[q] = stage[q] /\ raised'[q] = raised[q] /\ response'[q] = response[q]
              /\ pc'[q] = pc[q] /\ result'[q] = result[q] /\ pending'[q] = pending[q]
              /\ answer'[q] = answer[q] /\ reply'[q] = reply[q]
              /\ q \in executed' <=> q \in executed
              /\ lock' = q => lock = q
      BY <1>3, <1>5, <2>1, <2>2, <2>4, <2>5
    <2>14. /\ stage' \in [Requests -> Stages] /\ response' \in [Requests -> Nat]
           /\ raised' \in [Requests -> Exceptions \cup {NoException}]
      BY <1>3, <1>7, <2>1
    <2> QED BY <1>3, <1>4, <1>5, <2>6, <2>7, <2>12, <2>13, <2>14, StepKeeps
  <1>10. CASE ~Keyed(input[r])
    <2>1. /\ stage[r] = "handling" /\ stage' = [stage EXCEPT ![r] = "leaving"]
          /\ executed' = executed \cup {r}
          /\ UNCHANGED <<lock, stored, pc, result, pending, answer>>
          /\ UNCHANGED <<answered, overrun, forgotten>>
      BY <1>3, <1>10 DEF Return, Goto, history
    <2>2. /\ Untouched(r) /\ Fault(input[r]) = NoException /\ response[r] = 0
          /\ pc[r] = "new"
      BY <1>10, <2>1, HandlerReached
    <2>3. /\ stage' \in [Requests -> Stages] /\ stage'[r] = "leaving"
          /\ \A q \in Requests \ {r} : stage'[q] = stage[q]
      BY <1>7, <2>1 DEF Stages
    <2>4. Idem!TypeOK'
      BY <1>3, <2>1, IdemTypes, IdemTyped
    <2>5. StoreInv'
      BY <2>1, IdemTypes DEF StoreInv
    <2>6. StageInv(r)'
      BY <1>3, <2>1, <2>2, <2>3 DEF StageInv
    <2>7. KeyedInv(r)'
      BY <2>1, <2>2 DEF KeyedInv
    <2>8. RaisedInv(r)' /\ EffectInv(r)'
      BY <1>3, <2>2 DEF RaisedInv, Raisable, NoException, EffectInv, Untouched
    <2>9. AnswerInv(r)'
      BY <1>3, <1>6, <2>2, <2>3 DEF AnswerInv
    <2>10. RequestInv(r)'
      BY <2>6, <2>7, <2>8, <2>9 DEF RequestInv
    <2>11. \A q \in Requests \ {r} :
              /\ stage'[q] = stage[q] /\ raised'[q] = raised[q] /\ response'[q] = response[q]
              /\ pc'[q] = pc[q] /\ result'[q] = result[q] /\ pending'[q] = pending[q]
              /\ answer'[q] = answer[q] /\ reply'[q] = reply[q]
              /\ q \in executed' <=> q \in executed
              /\ lock' = q => lock = q
      BY <1>3, <1>5, <2>1, <2>3
    <2>12. /\ response' \in [Requests -> Nat]
           /\ raised' \in [Requests -> Exceptions \cup {NoException}]
      BY <1>3, <1>7
    <2> QED BY <1>3, <1>4, <1>5, <2>3, <2>4, <2>5, <2>10, <2>11, <2>12, StepKeeps
  <1> QED BY <1>9, <1>10

LEMMA RejectIdKeeps ==
    ASSUME IInv, NEW r \in Requests, RejectId(r) PROVE IInv'
  <1>1. /\ BadId(input[r]) /\ UNCHANGED <<input, response, users, reply>>
        /\ Throw(r, "InvalidValueObject", {})
    BY DEF RejectId, dirVars
  <1>2. Untouched(r)
    BY <1>1, HandlerReached DEF Throw, Idem!CallRaises
  <1>3. /\ UsersInv' /\ UsersEvolve
        /\ reply' \in [Requests -> Dir!Reply \cup {Dir!NoReply}] /\ reply'[r].code # "ok"
    BY <1>1, <1>2, UsersStay DEF IInv, Untouched, Dir!NoReply
  <1>4. raised'[r] = "InvalidValueObject" => RaisedInv(r)'
    BY <1>1 DEF RaisedInv, Raisable, NoException
  <1> QED BY <1>1, <1>3, <1>4, ThrowKeeps DEF Raisable, NoException

LEMMA RefusedReply ==
    ASSUME IInv, NEW r \in Requests, NEW code \in {"failed"} \cup Dir!Refusals,
           Dir!Refuse(r, Command(input[r]), code)
    PROVE  /\ users' = users /\ UsersInv' /\ UsersEvolve
           /\ reply' \in [Requests -> Dir!Reply \cup {Dir!NoReply}]
           /\ reply'[r].code = code /\ code # "ok"
           /\ \A q \in Requests \ {r} : reply'[q] = reply[q]
  <1>1. users' = users /\ Dir!Answer(r, code, NoUser)
    BY DEF Dir!Refuse
  <1>2. /\ reply' \in [Requests -> Dir!Reply \cup {Dir!NoReply}]
        /\ reply'[r] = [code |-> code, user |-> NoUser]
        /\ \A q \in Requests \ {r} : reply'[q] = reply[q]
    BY <1>1, Answered
  <1>3. UsersInv' /\ UsersEvolve
    BY <1>1, UsersStay DEF IInv
  <1> QED BY <1>1, <1>2, <1>3 DEF Dir!Refusals

LEMMA RejectNameKeeps ==
    ASSUME IInv, NEW r \in Requests, RejectName(r) PROVE IInv'
  <1>1. /\ Reserved(input[r]) /\ UNCHANGED <<input, response>>
        /\ Dir!Refuse(r, Command(input[r]), "reserved")
        /\ Throw(r, "BusinessRuleViolation", {})
    BY DEF RejectName
  <1>2. /\ UsersInv' /\ UsersEvolve
        /\ reply' \in [Requests -> Dir!Reply \cup {Dir!NoReply}] /\ reply'[r].code # "ok"
        /\ \A q \in Requests \ {r} : reply'[q] = reply[q]
    BY <1>1, RefusedReply DEF Dir!Refusals
  <1>3. raised'[r] = "BusinessRuleViolation" => RaisedInv(r)'
    BY <1>1 DEF RaisedInv, Raisable, NoException
  <1> QED BY <1>1, <1>2, <1>3, ThrowKeeps DEF Raisable, NoException

LEMMA RefuseKeeps ==
    ASSUME IInv, NEW r \in Requests, Refuse(r) PROVE IInv'
  <1>1. PICK code \in DOMAIN RaisedFor :
            /\ UNCHANGED <<input, response>>
            /\ Dir!Refuse(r, Command(input[r]), code)
            /\ Throw(r, RaisedFor[code], {})
    BY DEF Refuse
  <1>2. PICK c : c = Command(input[r])
    OBVIOUS
  <1>3. c.op = input[r].op /\ c.id = input[r].id /\ c.email = Email(input[r])
    BY <1>2, CommandsTyped DEF IInv
  <1>4. code \in {"email_taken", "not_found", "deactivated", "conflict", "failed"}
    BY DEF RaisedFor
  <1>5. PICK e : e = RaisedFor[code]
    OBVIOUS
  <1>6. /\ e \in Raisable \ {NoException}
        /\ code = "email_taken" => e = "EmailAlreadyRegistered"
        /\ code = "not_found" => e = "UserNotFound"
        /\ code = "deactivated" => e = "UserAlreadyDeactivated"
        /\ code = "conflict" => e = "UserConcurrencyConflict"
        /\ code = "failed" => e = "DBAPIError"
    BY <1>4, <1>5 DEF RaisedFor, Raisable, NoException
  <1>7. /\ users' = users /\ UsersInv' /\ UsersEvolve
        /\ reply' \in [Requests -> Dir!Reply \cup {Dir!NoReply}]
        /\ reply'[r].code = code /\ code # "ok"
        /\ \A q \in Requests \ {r} : reply'[q] = reply[q]
    BY <1>1, <1>4, RefusedReply DEF Dir!Refusals
  <1>8. /\ code = "email_taken" => input[r].op = "register" /\ Dir!EmailTaken(Email(input[r]))
        /\ code = "deactivated" => users[input[r].id] # NoUser /\ ~Dir!IsActive(input[r].id)
        /\ code = "conflict" => input[r].op # "register" /\ users[input[r].id] # NoUser
    BY <1>1, <1>2, <1>3 DEF Dir!Refuse
  <1>9. raised'[r] = e => RaisedInv(r)'
    <2>1. CASE code = "email_taken"
      <3>1. Dir!EmailTaken(Email(input[r]))'
        BY <1>1, <1>7, <1>8, <2>1 DEF Dir!EmailTaken
      <3> QED BY <1>1, <1>6, <1>8, <2>1, <3>1 DEF RaisedInv
    <2>2. CASE code = "not_found"
      BY <1>6, <1>7, <2>2 DEF RaisedInv
    <2>3. CASE code = "deactivated"
      BY <1>1, <1>6, <1>7, <1>8, <2>3 DEF RaisedInv, Dir!IsActive
    <2>4. CASE code = "conflict"
      BY <1>1, <1>6, <1>7, <1>8, <2>4 DEF RaisedInv
    <2>5. CASE code = "failed"
      BY <1>6, <2>5 DEF RaisedInv
    <2> QED BY <1>4, <2>1, <2>2, <2>3, <2>4, <2>5
  <1>10. Throw(r, e, {}) /\ UNCHANGED <<input, response>>
    BY <1>1, <1>5
  <1> QED BY <1>6, <1>7, <1>9, <1>10, ThrowKeeps

LEMMA LoseAcknowledgementKeeps ==
    ASSUME IInv, NEW r \in Requests, LoseAcknowledgement(r) PROVE IInv'
  <1>1. /\ UNCHANGED <<input, response>>
        /\ Dir!CarryOut(Command(input[r])) /\ Dir!Answer(r, "failed", NoUser)
        /\ Throw(r, "DBAPIError", {r})
    BY DEF LoseAcknowledgement, Dir!ServeUnacknowledged
  <1>2. UsersInv' /\ UsersEvolve
    BY <1>1, CarriedOut DEF IInv
  <1>3. /\ reply' \in [Requests -> Dir!Reply \cup {Dir!NoReply}]
        /\ reply'[r] = [code |-> "failed", user |-> NoUser]
        /\ \A q \in Requests \ {r} : reply'[q] = reply[q]
    BY <1>1, Answered
  <1>4. raised'[r] = "DBAPIError" => RaisedInv(r)'
    BY DEF RaisedInv, Raisable, NoException
  <1> QED BY <1>1, <1>2, <1>3, <1>4, ThrowKeeps DEF Raisable, NoException
-----------------------------------------------------------------------------
LEMMA InitEstablishes == Init => IInv
  <1> SUFFICES ASSUME Init PROVE IInv
    OBVIOUS
  <1>1. /\ input \in Workloads
        /\ stage = [r \in Requests |-> "arriving"]
        /\ raised = [r \in Requests |-> NoException]
        /\ response = [r \in Requests |-> 0]
        /\ users = [u \in Requests |-> NoUser]
        /\ reply = [r \in Requests |-> Dir!NoReply]
    BY DEF Init, Dir!Init
  <1>2. /\ Payload(input) \in CarriedPayloads
        /\ lock = Free /\ stored = Free
        /\ pc = [r \in Requests |-> "new"]
        /\ result = [r \in Requests |-> Free]
        /\ pending = [r \in Requests |-> Idem!NoAnswer]
        /\ answer = [r \in Requests |-> Idem!NoAnswer]
        /\ executed = {} /\ answered = [r \in Requests |-> {}]
        /\ overrun = FALSE /\ forgotten = {}
    BY DEF Init, Idem!Init
  <1>3. Idem!NoAnswer \in Idem!Answer
    BY DEF Idem!Answer
  <1>4. Idem!TypeOK
    BY <1>2, <1>3 DEF Idem!TypeOK, Idem!Phases
  <1>5. UsersInv /\ StoreInv
    BY <1>1, <1>2 DEF UsersInv, StoreInv
  <1>6. TypeOK
    BY <1>1, <1>2, <1>4 DEF TypeOK, Stages
  <1>7. ASSUME NEW r \in Requests PROVE RequestInv(r)
    <2>1. Untouched(r) /\ ~Succeeded(r) /\ pc[r] = "new" /\ stage[r] = "arriving"
      BY <1>1, <1>2 DEF Untouched, Succeeded, Dir!NoReply
    <2>2. StageInv(r)
      BY <2>1 DEF StageInv, Untouched
    <2>3. KeyedInv(r) /\ EffectInv(r)
      BY <2>1 DEF KeyedInv, EffectInv, Untouched
    <2>4. RaisedInv(r)
      BY <2>1 DEF RaisedInv, Raisable, NoException, Untouched
    <2>5. AnswerInv(r)
      BY <1>1, <2>1 DEF AnswerInv
    <2> QED BY <2>2, <2>3, <2>4, <2>5 DEF RequestInv
  <1> QED BY <1>1, <1>5, <1>6, <1>7 DEF IInv

LEMMA StutterKeeps ==
    ASSUME IInv, UNCHANGED vars PROVE IInv'
  <1>1. /\ UNCHANGED <<input, stage, raised, response, users, reply, lock, stored>>
        /\ UNCHANGED <<pc, result, pending, answer, executed, answered, overrun, forgotten>>
    BY DEF vars, ownVars, idemVars, dirVars, history
  <1>2. UsersInv' /\ UsersEvolve
    BY <1>1, UsersStay DEF IInv
  <1>3. ASSUME NEW q \in Requests PROVE RequestInv(q)'
    BY <1>1, <1>2, OthersKeep DEF UsersInv, Dir!User, Dir!Status
  <1>4. Idem!TypeOK' /\ StoreInv'
    BY <1>1, IdemTypes, IdemTyped DEF StoreInv
  <1>5. TypeOK'
    BY <1>1, <1>4
    DEF IInv, TypeOK, Stages, Exceptions, Dir!Reply, Dir!NoReply, Dir!User, Dir!Status,
        Dir!Refusals
  <1> QED BY <1>1, <1>2, <1>3, <1>4, <1>5
          DEF IInv, Dir!Reply, Dir!NoReply, Dir!User, Dir!Status, Dir!Refusals

LEMMA NextKeeps == IInv /\ [Next]_vars => IInv'
  <1> SUFFICES ASSUME IInv, [Next]_vars PROVE IInv'
    OBVIOUS
  <1>1. ASSUME NEW r \in Requests, Step(r) PROVE IInv'
    <2>1. CASE LookUpOrLock(r)
      BY <2>1, LookupKeeps, TryLockKeeps DEF LookUpOrLock
    <2>2. CASE StoreResult(r)
      BY <2>2, StoreKeeps DEF StoreResult
    <2>3. CASE ReleaseLock(r)
      BY <2>3, ReleaseKeeps DEF ReleaseLock
    <2> QED BY <1>1, <2>1, <2>2, <2>3, UnwindKeeps, RejectIdKeeps, RejectNameKeeps,
               HandleKeeps, RefuseKeeps, RespondKeeps DEF Step
  <1>2. ASSUME NEW r \in Requests, RedisRaises(r) PROVE IInv'
    BY <1>2, StoreRaisesKeeps, RedisRaisesKeeps DEF RedisRaises
  <1> QED BY <1>1, <1>2, AdmitKeeps, LoseAcknowledgementKeeps, LockExpiresKeeps, StutterKeeps
          DEF Next, AllAnswered

THEOREM Inductive == Spec => []IInv
  BY InitEstablishes, NextKeeps, PTL DEF Spec
-----------------------------------------------------------------------------
(* The variables keep their domains: only keyed commands that passed every *)
(* check enter the idempotency behavior, and a request is over just when   *)
(* it has a status.                                                        *)
THEOREM TypeCorrect == Spec => []TypeOK
  <1>1. IInv => TypeOK
    BY DEF IInv
  <1> QED BY <1>1, Inductive, PTL

LEMMA ResponseOf ==
    ASSUME IInv, NEW r \in Requests, response[r] # 0
    PROVE  /\ stage[r] = "answered" /\ RequestInv(r)
           /\ raised[r] \in Raisable /\ input[r] \in Input
           /\ response[r] = IF raised[r] # NoException THEN StatusFor(raised[r])
                            ELSE IF input[r].op = "register" THEN 201 ELSE 200
  BY InputsTyped DEF IInv, RequestInv, RaisedInv, AnswerInv, StatusOfRequest

LEMMA StatusOfRaised ==
    ASSUME NEW e \in Raisable \ {NoException}
    PROVE  /\ StatusFor(e) = 401 => e = "AuthenticationException"
           /\ StatusFor(e) = 403 => e = "AuthorizationException"
           /\ StatusFor(e) = 404 => e = "UserNotFound"
           /\ StatusFor(e) = 409 => e \in {"ConflictException", "BusinessRuleViolation",
                                           "EmailAlreadyRegistered", "UserConcurrencyConflict"}
           /\ StatusFor(e) = 422 => e \in {"RequestValidationError", "ValidationException",
                                           "InvalidValueObject", "UserAlreadyDeactivated"}
           /\ StatusFor(e) \in {401, 403, 404, 409, 422, 500}
           /\ e \in {"DBAPIError", "RedisError", "ValidationError"} => StatusFor(e) = 500
  <1>1. e \in Exceptions
    BY ExceptionsAre DEF Raisable, NoException, Handlers, Unhandled
  <1> QED BY <1>1, Statuses DEF Raisable, NoException

(* Whatever fails, in the handler, the database, the idempotency store or  *)
(* the response model: a 4xx is never the answer to a command that took    *)
(* effect.                                                                 *)
THEOREM RefusalsHadNoEffect == Spec => []RefusedHadNoEffect
  <1>1. IInv => RefusedHadNoEffect
    <2> SUFFICES ASSUME IInv, NEW r \in Requests, ClientError(r), r \in executed
                 PROVE  FALSE
      BY DEF RefusedHadNoEffect
    <2>1. response[r] # 0 /\ response[r] \notin {200, 201, 500}
      BY DEF ClientError
    <2>2. PICK e \in Raisable : e = raised[r]
      BY <2>1, ResponseOf
    <2>3. e # NoException /\ StatusFor(e) # 500
      BY <2>1, <2>2, ResponseOf
    <2>4. e \in {NoException, "DBAPIError", "RedisError", "ValidationError"}
      BY <2>2 DEF IInv, RequestInv, EffectInv
    <2> QED BY <2>3, <2>4, StatusOfRaised
  <1> QED BY <1>1, Inductive, PTL

(* Nobody is given a result, his own or one stored under his key, whose    *)
(* token lacks the permission that the command requires.                   *)
THEOREM PermittedResults == Spec => []ResultsNeedPermission
  <1>1. IInv => ResultsNeedPermission
    <2> SUFFICES ASSUME IInv, NEW r \in Requests,
                        answer[r].code = "result" \/ reply[r].code = "ok"
                 PROVE  ~MissingPermission(input[r])
      BY DEF ResultsNeedPermission
    <2>1. PICK i \in Input : i = input[r]
      BY InputsTyped DEF IInv
    <2>2. pc[r] # "new" \/ reply[r] # Dir!NoReply
      <3>1. CASE answer[r].code = "result"
        BY <3>1, IdemTypes DEF Idem!NoAnswer
      <3>2. CASE reply[r].code = "ok"
        BY <3>2 DEF Dir!NoReply
      <3> QED BY <3>1, <3>2
    <2>3. Fault(i) = NoException
      BY <2>1, <2>2 DEF IInv, RequestInv, StageInv
    <2> QED BY <2>1, <2>3, FaultTells
  <1> QED BY <1>1, Inductive, PTL

(* The status of every answer states what is the case, and still is when   *)
(* it arrives, whichever of the layers it comes from.                      *)
THEOREM StatusesAreTrue == Spec => []StatusIsTrue
  <1>1. IInv => StatusIsTrue
    <2> SUFFICES ASSUME IInv, NEW r \in Requests
                 PROVE  LET i == input[r]
                            s == response[r]
                        IN  /\ s \in {0, 200, 201, 401, 403, 404, 409, 422, 500}
                            /\ s = 401 => i.token \in {"none", "invalid"}
                            /\ s = 403 => MissingPermission(i) /\ i.token = "reader"
                            /\ s = 404 => reply[r].code = "not_found"
                            /\ s = 409 =>
                                 \/ Reserved(i)
                                 \/ i.op = "register" /\ Dir!EmailTaken(Email(i))
                                 \/ i.op # "register" /\ users[i.id] # NoUser
                                 \/ Contested(r)
                            /\ s = 422 /\ WellFormed(i) =>
                                 users[i.id] # NoUser /\ ~Dir!IsActive(i.id)
                            /\ s \in {200, 201} => Effective(i)
      BY DEF StatusIsTrue, Contested, Effective
    <2>1. PICK e : e = raised[r]
      OBVIOUS
    <2>2. CASE response[r] = 0
      BY <2>2
    <2>3. CASE response[r] # 0 /\ e = NoException
      <3>1. response[r] \in {200, 201}
        BY <2>1, <2>3, ResponseOf
      <3>2. Effective(input[r])
        BY <2>1, <2>3, ResponseOf DEF RequestInv, AnswerInv
      <3> QED BY <3>1, <3>2
    <2>4. CASE response[r] # 0 /\ e # NoException
      <3>1. e \in Raisable \ {NoException} /\ response[r] = StatusFor(e)
        BY <2>1, <2>4, ResponseOf
      <3>2. /\ response[r] \in {401, 403, 404, 409, 422, 500}
            /\ response[r] = 401 => e = "AuthenticationException"
            /\ response[r] = 403 => e = "AuthorizationException"
            /\ response[r] = 404 => e = "UserNotFound"
            /\ response[r] = 409 => e \in {"ConflictException", "BusinessRuleViolation",
                                           "EmailAlreadyRegistered", "UserConcurrencyConflict"}
            /\ response[r] = 422 => e \in {"RequestValidationError", "ValidationException",
                                           "InvalidValueObject", "UserAlreadyDeactivated"}
        BY <3>1, StatusOfRaised
      <3>3. RaisedInv(r)
        BY <2>4, ResponseOf DEF RequestInv
      <3>4. /\ e = "AuthenticationException" => input[r].token \in {"none", "invalid"}
            /\ e = "AuthorizationException" =>
                  MissingPermission(input[r]) /\ input[r].token = "reader"
            /\ e = "UserNotFound" => reply[r].code = "not_found"
        BY <2>1, <3>3 DEF RaisedInv
      <3>5. /\ e = "ConflictException" => Contested(r)
            /\ e = "BusinessRuleViolation" => Reserved(input[r])
            /\ e = "EmailAlreadyRegistered" =>
                  input[r].op = "register" /\ Dir!EmailTaken(Email(input[r]))
            /\ e = "UserConcurrencyConflict" =>
                  input[r].op # "register" /\ users[input[r].id] # NoUser
        BY <2>1, <3>3 DEF RaisedInv
      <3>6. /\ e \in {"RequestValidationError", "ValidationException", "InvalidValueObject"} =>
                  ~WellFormed(input[r])
            /\ e = "UserAlreadyDeactivated" =>
                  users[input[r].id] # NoUser /\ ~Dir!IsActive(input[r].id)
        BY <2>1, <3>3 DEF RaisedInv, WellFormed
      <3> QED BY <3>2, <3>4, <3>5, <3>6
    <2> QED BY <2>2, <2>3, <2>4
  <1> QED BY <1>1, Inductive, PTL

(* One address, one user, in whatever spellings, races and retries it      *)
(* comes.                                                                  *)
THEOREM AddressesAreUnique == Spec => []OneUserPerAddress
  <1>1. IInv => OneUserPerAddress
    BY DEF IInv, UsersInv, OneUserPerAddress
  <1> QED BY <1>1, Inductive, PTL
=============================================================================
