# NDMA backend: a TLA+ development

The system is the Python backend under `src/backend`: a FastAPI application
built on commands and queries, PostgreSQL, Redis and arq workers. This
directory holds TLA+ modules of its concurrent core, the TLC configurations that
check them, and TLAPS proofs. Paths below are relative to
`src/backend/src/app` unless they start with `docs/` or `tests/`
(`src/backend/docs`, `src/backend/tests`).

Run everything from this directory:

    tlc -workers 2 -config UnitOfWork.cfg MCUnitOfWork
    tlapm UnitOfWork_proofs.tla

## 1. The system

| Component | State it keeps | Operations | Hard because |
|---|---|---|---|
| User write side: `application/users/handlers`, `domain/users`, `infrastructure/persistence` | `users` table, one session and aggregate per request | register, rename, deactivate, get; `save`, `commit`, `rollback` | requests interleave at every `await`; reads are stale when written back; COMMIT may succeed unacknowledged |
| Outbox and relay: `infrastructure/persistence/outbox`, `background_jobs/worker.py` | `outbox_messages` table | insert at commit; `relay_once` every 2 s in every worker | relays overlap; a batch commits once for all its rows; publish may fail after the XADD |
| Redis Streams: `infrastructure/messaging/redis_streams.py` | the stream, the group's pending list, the dead-letter stream | `publish`, `start`, `stop`, the read loop | workers share one consumer name; crash between handler and XACK; the loop can die alone |
| Idempotency: `application/common/behaviors/idempotency.py`, `infrastructure/caching/redis_idempotency_store.py` | one lock and one result per key | look up, lock, call, store, release | lookup, lock and store are separate awaits; locks expire |
| HTTP pipeline: `presentation/api`, `application/common/mediator.py`, behaviors, `infrastructure/authentication/jwt.py` | per request only | middleware, authentication, validation, authorization, idempotency, exception mapping | which failure wins, and what a failure leaves done |
| Listing: `list_page`, `application/common/dto/pagination.py` | none | a page and a total, by offset | two statements; the table grows under the walk |
| Worker process: `background_jobs/worker.py` | engine, client, consumer | `on_startup`, cron ticks, `on_shutdown` | order of start and stop, a step that raises |

The components interact through shared storage: a request writes the user's row
and its outbox rows in one transaction; a relay reads outbox rows and XADDs to
`stream:users`; the consumers of every worker read that stream in the group
`users-worker` and call the handler registered for an event type, which sends the
welcome email. The idempotency behavior wraps the command handlers.

What makes each of them correct:

* **write side** - unique emails although the check and the INSERT are separate;
  no lost update; the table and the outbox tell the same story; a deactivated
  user never changes again; every request is answered.
* **outbox** - every committed event is published at least once, or visibly out
  of attempts; duplicates only where something failed; no row stranded; order
  within a user while nothing fails.
* **streams** - no entry handled twice, none acknowledged that was neither
  handled nor dead-lettered, none abandoned by `stop()`, every one taken.
* **idempotency** - no two commands of a key side by side, a retry answered from
  the store, an answer that belongs to the same payload, no lock left for ever.
* **pipeline** - a 4xx means that nothing was done; results only behind the
  permission they need; a status that is true; no address registered twice in two
  spellings; every request answered.
* **listing** - a client that walks the pages misses nobody who was there when it
  began; repeats are explained by newcomers; `has_next` announces pages that
  exist; the walk ends.
* **worker** - from the committed registration to the welcome mail: no more mails
  than faults explain, nothing lost between relay and consumer while workers come
  and go, resources closed after their last use, every registration concluded if
  a worker stays up.

## 2. Modules

| Module | Models | Checked by |
|---|---|---|
| `UserDirectory` | abstract: each request takes effect at one instant, with its event | refinement target |
| `UnitOfWork` | the write side, one process per request | `unit_of_work` |
| `UnitOfWork_proofs` | types, unique emails, how rows evolve | tlapm |
| `UnitOfWorkDirectory_proofs` | the outbox tells the table's story; the refinement of `UserDirectory` | tlapm |
| `AtLeastOnce` | abstract: events accepted, sent at least once, delivered or abandoned | refinement target |
| `OutboxRelay` | overlapping executions of `relay_once` | `outbox_relay` |
| `OutboxRelay_proofs` | theorems about it; the refinement of `AtLeastOnce` | tlapm |
| `StreamConsumer` | `RedisStreamsConsumer` in several workers | `stream_consumer*` |
| `StreamConsumer_proofs` | theorems about it | tlapm |
| `Worker` | the worker processes from `on_startup` to `on_shutdown`, composed of `OutboxRelay` and `StreamConsumer` | `worker` |
| `Worker_proofs` | theorems about it, over those about its two halves | tlapm |
| `UserListing` | `GET /users`, and a client that walks the pages | `user_listing` |
| `UserListing_proofs` | theorems about it | tlapm |
| `Idempotency` | the requests of one idempotency key | `idempotency*` |
| `Idempotency_proofs` | theorems about it | tlapm |
| `RequestPipeline` | a request through every layer of the API, composed of `Idempotency` and `UserDirectory` | `request_*` |
| `RequestPipeline_proofs` | theorems about it | tlapm |
| `MC*` | instances for TLC | |

Each module holds, next to some definitions, a faulty variant of the definition
(`SaveWithoutVersion`, `Unlocked`, ...). No specification uses them: they record
against which mistake a property was tested, by putting the variant in the place
of the definition and watching the property fail.

### UnitOfWork

`pc[r]` is the `await` at which a request's handler is: `pool` (waiting for a
connection), `load` (`get_by_id` or `get_by_email`), `save` (the UPDATE with the
version in its WHERE), `stage` (`commit()` builds the outbox rows), `flush` (the
INSERTs of `session.commit()`), `commit` (COMMIT). `aggregate[r]` is the `User` in
memory, `events[r]` the events of the unit of work (the aggregate's own list and
`_pending_events`, which no other request can see). `users` and `outbox` are the
committed tables; `outbox` is in commit order and keeps `created_at`.

PostgreSQL is modelled as far as READ COMMITTED matters here: reads see the
committed rows; an UPDATE waits for the transaction that holds the row and then
evaluates its WHERE on what that transaction left; an INSERT waits for an
uncommitted one with the same email and then fails, or not, on the unique index.
`CommitUnacknowledged` is a COMMIT whose reply is lost, `Fail` any exception,
timeout, cancellation or crash before COMMIT.

`UserId.new()` never repeats an id, so a registration's user is named by its
request. Value objects are already validated; `registered_at` and the event
payloads other than the name are left out.

### OutboxRelay

A relay is one execution of `relay_once` at a time. `Select` takes the batch and
locks it; then for each row in the order of `created_at`, `Attempt` is
`_process_row` up to the await of `publish` and `Published`, `Refused`,
`ReplyLost` are its outcomes; `CommitBatch` writes the batch. `copy[w]` is what
the relay's session holds, so a `Rollback` (crash, cancellation, failed commit)
forgets it; it is also what arq's cancellation of the job does. `Insert` is a unit of work that commits; that one user's rows come in
the order of their stamps is `UnitOfWork!CreatedInCommitOrder`.
A backoff is abstracted to the flag `due`.

### StreamConsumer

Entries are positions. `next`, `pending` and `times` are the group's state in
Redis, `pc` and `batch` a process's loop. `Judge` is the code after a handler
raised: it asks XPENDING for the *first* pending entry and compares that entry's
delivery count with `_MAX_DELIVERIES`. `Crash` and `RedisError` may hit at every
await, with the command in flight carried out or not (`InFlight`); a `RedisError`
ends the task while the worker lives on. `DecodeResponses` is the flag of the
Redis client: the API's client sets it, the worker's does not.

### Worker

`stage[w]` is where a process is: `starting` (in `on_startup`, at the await of
`consumer.start()`), `up`, `draining` (SIGTERM has come and the running tick is
cancelled), `stopping` (`consumer.stop()` awaits the task), `disposing`, `closing`.
Everything else is the state of the two instances: `Relay` is `OutboxRelay` with
the workers as relays, `Consumer` is `StreamConsumer` with the length of the
relays' `stream` as what was added, and each action here conjoins a step of one of
them with the stage it may happen in. So a tick runs only while its worker is up,
the loop runs on through the draining, a crash takes both at once, and an
exception that ended the loop leaves the ticks going.

`StartFails` is an exception of `consumer.start()`; arq calls `on_shutdown`
nevertheless, which raises `KeyError` on `ctx["consumer"]` before it closes
anything. `LoopRaised` is the other way to skip the closing: `stop()` awaits a task
that has died and raises what it died of. `raised` records both. `Terminate` is
SIGTERM; a tick it cancels is rolled back, and what the tick had published is
published again later, which is why a tick cut short counts as a fault in
`faults`. `botched` holds the entries whose mail went out before the handler raised
(`MailAndRaise`; `SmtpEmailSender` says QUIT after the message). All events are
`UserRegistered` here, and the Redis client decodes what it reads: as the worker
is built it does not, and then nothing is ever mailed (`stream_consumer_undecoded`).

### UserListing

`active` and `deactivated` are the users table: the listing has no WHERE, so a
deactivation moves nobody. A user's place in the list is given by `Stamp`
(`registered_at`, set before the commit) and its id, and not by the order of the
registrations, so `Register` may put a user anywhere. `Execute` is one of the two
statements of `list_page`, each on the table as it is then; `Orders` are the
answers that the ORDER BY allows. A walk goes on by the limit or by the number of
items it was given. `Reject` is a 422, from the query parameters' bounds or from
`validate()`; `Fail` is an exception of a statement, after which the client asks
again.

### Idempotency

All requests carry one key; `Carried` says which payloads. `pc` follows
`IdempotencyBehavior.handle`; `Expire` is the lock's time to live and `Forget` that of the stored result, at any
time; `forgotten` are the requests whose result nobody is promised any more.
A result is named for the request that executed and the form it has, since the
store keeps `json.dumps(..., default=str)` of it. `Call` is the rest of the
pipeline; `CallRaises` includes a command that took effect and whose
acknowledgement was lost. `overrun` remembers whether a lock ever expired under
its request.

### RequestPipeline

`stage[r]` is `arriving`, `keyed` (inside `IdempotencyBehavior`, whose own `pc`
says where), `handling` (a handler without a key), `leaving` or `answered`;
`raised[r]` is the exception on its way up. `Admit` is everything before Redis or
the database is asked: these checks are local to a request, so they are one
step, and `Checks` lists them in the order they are made - FastAPI parses the JSON,
then resolves the dependencies (the token), then reports schema errors, then the
behaviors validate and authorize. The steps of a keyed command are those of
`Idem == INSTANCE Idempotency`, the handler's effect is a step of
`Dir == INSTANCE UserDirectory`; each action here conjoins them and says what
passes between them. `Parent`, `StatusOf` and `HandlerFor` are the exception
classes, the registered handlers and Starlette's choice of the nearest class. A
client's input is a record of what the checks tell apart. `Lower` and `Stripped`
are the normalisation by the value objects `Email` and `DisplayName`; the
fingerprint is taken of the command as it was spelt, before it. A crash of the API
answers nobody and is left to `Idempotency`.

## 3. Runs

| Run | Instance | Shows |
|---|---|---|
| `unit_of_work` | 4 requests, 2 emails, 3 names (1 reserved), pool of 3 | eight properties below |
| `outbox_relay` | 3 rows (two of one user around one of another), 2 relays, batches of 2, 2 attempts, 1 fault | duplicates, order within a user, finality, refinement of `AtLeastOnce` |
| `worker` | 1 registration, 2 workers, a stream of up to 3 entries, batches and COUNT of 2, 2 attempts, 2 faults | mails, handover, closing, progress |
| `user_listing` | 4 users, two with one stamp, any of them there at first; pages of 1 or 2, requests out of bounds, one failing statement | completeness and end of a walk |
| `stream_consumer` | 4 entries (one of no handled type), 2 workers, batches of 2, 1 fault | exclusive handling, `stop()`, progress |
| `stream_consumer_dead_letter` | 3 entries, 2 workers, `MaxDeliveries` 1, 2 faults | acknowledged means accounted for |
| `idempotency` | 3 requests, the last one possibly with another payload | exclusion, replay, lock, expiry |
| `stream_consumer_undecoded` | the worker's client as built | violation, section 5 |
| `stream_consumer_retry` | one worker, no fault | violation, section 5 |
| `idempotency_executed_once` | no failures | violation, section 5 |
| `request_pipeline` | 3 requests, nine workloads of retries, races, spellings and refusals | what follows a refusal, permissions, statuses, addresses, answers |
| `request_replay` | as `request_pipeline` | violation, section 5 |

*The write side.* `EmailsUnique`, `OutboxExplainsUsers`, `CreatedInCommitOrder`,
`NoAcknowledgedWriteLost`, `RowsEvolve`, `EveryRequestAnswered`, and
`ImplementsDirectory`: the unit of work implements `UserDirectory` under the
mapping of `outbox` to its log without stamps. The last one says that what four
steps with a stale read compute is what one indivisible step would have computed;
a request whose COMMIT was not acknowledged is answered `failed` although it took
effect, which the abstract directory allows and the client cannot distinguish.

*The pipeline.* `RefusedHadNoEffect` is why a database error must stay a 500: a
commit whose acknowledgement was lost took effect, so that answering the loser of
an email race 409 needs more than a handler for `DBAPIError`.
`ResultsNeedPermission` holds because authorization stands before idempotency in
the list of behaviors: with the two exchanged, a stored result goes to any caller
with the key. `StatusIsTrue` relates each status to the users as they are when it
arrives; the catch-alls (400, 503) are never answered.

*The worker.* `MailsNeedFaults` bounds the welcome mails of a registration by one
plus the faults: crashes, ticks cut short, lost replies, mails followed by an
exception. The duplicates come from the relay; sharing a group, stopping and
restarting add none. `PublishedIsOnItsWay` is the handover: until something fails,
what the outbox calls published waits in the stream, is in a worker's batch, was
mailed, or its handler raised. `ClosedInOrder` says that the engine is disposed of
after the last tick and the client closed after the last command of the loop, and
that only an exception leaves them open. `EverySettled` needs one worker that
stays up, even with a dead loop; `EveryRegistrationConcluded` needs its loop too,
and ends in a mail or in a failure that is on record, not always in a mail:
the code has no second delivery (section 5).

*The listing.* `WalkMissesNobody` holds because rows are never deleted and a
newcomer only moves others *behind* the client; it needs the items to be read
before the count, in that order: with the count first, a registration between the
two statements ends a walk one user early. `RepeatsNeedNewcomers` is the price, and
bounds it.

*Bounds.* A race needs two registrations of an email, and a writer, a second
writer and a reader of one row: four requests, with every mix of commands that
`MCFourWorkload` gives them. A pool of three is smaller than the number of
requests, so that waiting for a connection meets waiting for a row. Three rows
and batches of two give a relay a full batch and leave a row for the other; two
attempts are one retry. Four entries and a COUNT of two give two batches and one
split between workers. Faults are bounded (`MaxFaults`) because each adds a
copy to the stream; the properties count them or hold for any number. The
worker run has one registration because
workers, faults and restarts are what it is about (`OutboxRelay` and
`StreamConsumer` are checked with more rows and entries): two faults make up to
three entries of it. Four users give walks
of two pages and more with newcomers before, between and after those shown. The
dead-letter run lowers `MaxDeliveries` to 1, since with 5 the branch cannot be
reached (section 5). A key needs a request, its retry, and a third one that reuses the key,
races it or may not use it: `MCWorkloads` names nine mixes, which between them
fail every check and meet every exception.

*Fairness.* `FairSpec` is used where something must eventually happen. A handler
goes on whenever its await can complete: weak fairness of `Advance(r)`, a
disjunction whose enabled step stays enabled but for waits on rows, emails and
connections, which end as their holders do. Workers: a startup goes on, arq runs
the cron job of a worker that is up again and again, `publish` returns or raises,
time passes, a read returns within its block time, handlers return or raise, and a
shutdown that has begun goes on (`StartConsumer`, `Tick`, `Consume`, `Shutdown`).
Nothing obliges a worker to be started or to stay up, so the properties suppose
one that does. Redis expires locks. The API goes on with some request as
long as it can go on with any, which is less than each of them asks for, and
enough as no request waits for another; no client is obliged to send one. A
request for a page is answered. No fairness is assumed of failures, or of success: a publish may
be refused every time, a request may fail, a handler may always raise.

*Deadlock* is checked in every run: the states in which everything is answered,
relayed or over have an explicit stuttering action.

## 4. Proofs

Every safety invariant, every action property and both refinements that the
passing runs check are theorems, proved for every value of the constants that
meets the assumptions. Where a property is not inductive, which is nearly
everywhere, an `IInv` strengthens it; each `IInv` was model-checked on the instance
of the module's run before it was proved. `THEOREM Inductive` is
`Spec => []IInv`, from one lemma per action, and the theorems follow from it.

**Assumptions.** They are what the code or the modelling guarantees: limits are
positive (`LimitsAssumption`, `PoolAssumption`), rows, users and stamps are numbers
and there are finitely many (`EventsAssumption`, `UsersAssumption`,
`StampAssumption`), a registration's id is its own request's
(`WorkloadAssumption`, `WorkloadsAssumption`), normalising twice is normalising once
(`SpellingAssumption`, `ReservedAssumption`), requests carry payloads of the key
(`CarriedAssumption`), and the markers of "nothing" are none of the values
(`NoUserAssumption`, `NoRowAssumption`, `FreeAssumption`). `RoomAssumption` says that
the bound on the stream of `Worker` is one entry per event and fault, at least,
so that it bounds nothing: `Worker_proofs!Fits` proves it is never reached in excess.
TLC evaluates all of them on the runs.

**`UnitOfWork_proofs`** (`TypeCorrect`, `UniqueEmails`, `RowsOnlyEvolve`). `TypeOK` is
inductive as it stands. Unique emails are not: a commit inserts an
email that a check found free some steps earlier. `IInv` adds what a request
may have in hand: a registration's user is not in the table before its commit,
its aggregate carries the command's email, and *at `commit`* that email is free
and claimed by nobody else (`EmailsLocked`). The first half comes from the
flush's index check, the second from the wait on uncommitted insertions. A
change that is waiting to save was computed from a version no newer than the
row, and if it is the row's version the row is active; once saved it holds the
row (`RowsLocked`) and its version is the row's plus one. So the table changes
only at a commit, and only by a next version of an active row, or by a new row.

**`UnitOfWorkDirectory_proofs`** (`UsersExplained`, `StampsFollowCommits`,
`AcknowledgedWritesStay`, `UnitOfWorkImplementsDirectory`). `DirectoryInv` adds to
that `IInv`: what a request is about to write is what the indivisible step of
`UserDirectory` would make of its command *now*, although it was computed from
rows read three awaits ago (`DraftInv`; before the save, only if the version has not
moved); a stamped event is later than every committed one of its user, since the
save locked the row before the stamp was taken (`StampsInv`); the log so far
explains each user (`Explained`); and what was acknowledged still shows
(`AcksInv`). Then a commit is a step of the directory, and every other step a
stutter or an answer.

**`OutboxRelay_proofs`** (`TypeCorrect`, `DuplicatesAreFaults`, `OrderPerAggregate`,
`PublishedForGood`, `RelayImplementsAtLeastOnce`). `IInv`: committed rows are never
`PROCESSING` and published ones are on the stream (`RowsInv`); what relays hold is
selectable and held by one of them (`HeldInv`); a session's copy is the row as
selected, in process, or settled (`CopyInv`). `CountInv` counts the copies of an
event on the stream, with one of them free if the event is published in the
table *or in the session that holds it*; a rollback trades that free one for its
fault. `OrderInv` is the order in calm: one batch at a time, which has every earlier
event of an aggregate that is not published yet.

**`StreamConsumer_proofs`** (`TypeCorrect`, `NoDoubleProcessing`, `NothingAbandoned`,
`AcknowledgedForAReason`, `FailedForGood`, `AcknowledgedIsAccountedFor`). `IInv`:
nothing has become of an entry that is not delivered, or that waits in a batch
behind the one at hand (`BatchInv`), and whoever acknowledged an entry had one of
three reasons: handled, dead-lettered, or no handler found (`AckedInv`).
`AckedAccountedFor` is proved under `DecodeResponses`, and the run
`stream_consumer_undecoded` shows that it fails without. `FailedForGood` is proved
beside it: no handler ever succeeds on an entry one raised on, which is why
`stream_consumer_retry` is violated.

**`Worker_proofs`** (`TypeCorrect`, `NothingClosedInUse`, `NoneLostBetween`,
`OneMailEach`, `WorkersDeliverAtLeastOnce`). The two proof modules are
instantiated as `Worker` instantiates the two modules, so that their lemmas serve
here: `HalvesInv` is the relay's `IInv` and the consumer's, whose `added` is the
length of the relay's stream. A step is one of a relay, which the loops notice as
entries and faults at most (`LoopsKeep`), or one of a loop, which the relays notice
as a fault at most (`RelaysKeep`), or of the worker's life; a crash is both at
once. `LifeInv` says in which stages a worker may have a tick, a loop, and which
resources open. The handover follows without another induction: published means
on the stream, delivered and not pending means acknowledged for a reason, and a
pending entry is in a batch or has failed. `NoneLostBetween` supposes
`DecodeResponses`, as the run does. `OneMailEach` adds that an entry causes one mail
at most, since `botched` entries have failed and failed ones are never handled,
and that an event has one entry more than faults at most. Its sum is a fold of
the community modules, whose value `SumOfOnes` finds as the one solution of the
recursive equation: a smallest subset on which another solution differs cannot
exist.

**`Idempotency_proofs`** (`TypeCorrect`, `MutualExclusion`, `AnswersAreTrue`,
`RetriesAreReplayed`). `LockInv`: until a lock expires under its request, who is past
the lock owns it. `AnswerInv`, `PendingInv`, `ProgressInv`: a result in hand, stored or
answered is that of an executed request with the same payload, which no longer
executes; unless it was forgotten, something is stored. `RetryInv`: a request that
began after such an answer finds it, or a command with another payload has
replaced it.

**`RequestPipeline_proofs`** (`TypeCorrect`, `RefusalsHadNoEffect`, `PermittedResults`,
`StatusesAreTrue`, `AddressesAreUnique`). One invariant per layer: where a request is
and what it passed to be there (`StageInv`), what it knows in the idempotency
behavior (`KeyedInv`), what is true when each exception is raised and stays true
until its status arrives (`RaisedInv`), which exceptions an executed command may
still meet (`EffectInv`), and what an answer says of the users (`AnswerInv`).

**`UserListing_proofs`** (`TypeCorrect`, `NobodyIsMissed`, `RepeatsAreExplained`,
`AnnouncedPagesExist`). A user's rank is the number of rows listed before him, which
newcomers can only raise. Who was not shown has a rank of at least the offset
(`MissInv`), and each showing leaves him behind an offset that only newcomers make
up for (`RepeatInv`). The lemmas `TotalOrder`, `Permutation`, `Places`, `Window` and `Cut`
say what ORDER BY, OFFSET and LIMIT make of a set, for any stamps.

**Only model-checked**, being out of the prover's reach, is liveness:
`EveryRequestAnswered` (of `UnitOfWork` and of `RequestPipeline`), `EverySettled`,
`EveryRegistrationConcluded`, `EveryEntryTaken`, `LockComesFree`, `WalkEnds`. The four
violations of section 5 are counterexamples and need no proof.

## 5. Where the code and its documents differ

Four runs end in a violation, each of a sentence of the repository:

* `stream_consumer_undecoded`: `worker.py:46` builds its Redis client without
  `decode_responses`, so the fields it reads have `bytes` keys,
  `fields.get("event_type", "")` is `""`, no handler is found and the entry is
  acknowledged (`redis_streams.py:97-101`). `docs/messaging.md:30`: acknowledgement
  "only after a handler succeeds".
* `stream_consumer_retry`: the loop only ever reads `>`. A failed entry stays
  pending, delivered once. `docs/messaging.md:32`: "a message that fails 5 times
  ... is moved to a `<stream>:dead-letter` stream".
* `idempotency_executed_once`: the lookup is not repeated under the lock, so two
  requests with one key and payload can both execute. `interfaces/idempotency.py:36`:
  "so concurrent requests with the same key don't both execute". What does hold is
  `RetryIsReplayed`: a client that was answered and asks again is replayed.
* `request_replay`: `default=str` stores the repr of the `UserDTO`; the route's
  `UserResponse.model_validate` rejects that string, and the replay of a
  registration answered 201 is answered 500.
  `tests/unit/application/common/test_mediator_and_behaviors.py:184` asserts the
  two answers equal (with a string), and the caveat in `behaviors/idempotency.py:40`
  asks handlers for JSON-plain results.
Differences met while reading, without a run: a fingerprint mismatch is a miss
rather than "a distinct error" (`interfaces/idempotency.py:20`); the loser of an
email race is answered 500, not 409 (`docs/api.md:73`); `mark_persisted` runs
before the commit its docstring speaks of (`aggregate_root.py:37`); `auth.py:21`
says invalid credentials never raise, `jwt.py` raises 401; nothing raises
`InfrastructureException`, so that 503 is never answered; the welcome email is
not idempotent on the event's id (`docs/outbox.md`); the handler of `Exception` runs
outside the middleware, so that a 500 lacks the `X-Correlation-ID` header that
`docs/observability.md:34` says is echoed; a startup or a loop that raises leaves
the engine and the client open (`worker.py:62`).

## 6. Plan

Done: the write side, the relay, the consumer, idempotency, the pipeline, the
listing, the worker as the composition of relay and consumer, and the proofs of
section 4, which leave no safety property of a passing run to TLC alone. What is
left:

1. The composition of `RequestPipeline` as theorems: its steps, seen through
   `Idem` and `Dir`, as steps of `Idempotency` and of `UserDirectory`, so that
   `OneAtATime`, `RetryIsReplayed` and the directory's promises hold of it by proof and
   not by analogy.
2. The relay's finality and order (`PublishedIsFinal`, `AggregateOrder`) as theorems of
   `Worker`, from the lemmas that `Worker_proofs` instantiates already.
3. The length of a backoff, which is a flag so far, and the clock it is compared
   with.

## 7. Not modelled

* Adapters that no use case calls: the Redis cache, the arq job queue
  (`ArqJobQueue`), the password hasher, the role table, the in-memory publisher, the
  type `Result`.
* Observability: logging, tracing and timing change no state of the system.
* The composition root, the API's lifespan and the settings: they run once, in
  sequence; what they wire is in the modules that use it.
* The health probes: two reads without state.
* The migration scripts beyond the tables and the index they create, which
  `UnitOfWork` has.
* The web frontend: a static page that does not call the backend.

Of what is modelled, the following is left out: lengths and the pattern of an
email; the 24 h of a stored result inside `RequestPipeline` (`Idempotency` has it);
trusted hosts, CORS and the access log; the length of a backoff, which is a flag;
the SMTP exchange. `PROJECT.json` gives the reason for each part.
