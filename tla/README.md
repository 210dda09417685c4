# A verification project for PRISMUX

PRISMUX is an OpenAI-compatible gateway in front of several model providers
(`src/app`, FastAPI on one asyncio event loop, PostgreSQL behind it, a React
dashboard in `src/frontend`).  The modules in this directory model its core in
TLA+; TLC checks them on small instances, and TLAPS proves the central facts for
every value of the parameters.

All paths below are relative to the repository; `main.py` is `src/app/main.py`
and so on.  Everything runs from this directory:

    tlc -workers 2 -config MCGateway.cfg MCGateway     # a model-checking run
    tlapm Capacity_proofs.tla                          # a proof

`PROJECT.json` lists every run with its properties, the source lines behind
every definition, for every property a mutated definition that breaks it, and
the hazards of the code with the properties that watch them.


## 1. The system

### Components, their state and their operations

| component | state | operations that change it | modelled in |
|---|---|---|---|
| Token bucket (`limiter.py`) | tokens, capacity, rate, last refill | `acquire`, `refund`, `reconfigure` (and the lazy refill of all) | `Bucket`, `TokenBucket` |
| Provider capacity (`multi_provider.py` 123-173) | two buckets, a semaphore, `_queued`, `_active` | `acquire`, `release` | `Capacity`, `ConcurrencyLimit` |
| Queue gauge (`queue_state.py`) | `global_queued`, `by_model` | `inc`, `dec`, `reset` | `Gateway` |
| Request path (`main.py` 525-746, 855-995) | per request: target list, attempts, reservation | `forward_chat_request`, `forward_embeddings_request`, `streaming_proxy_response` | `Gateway` |
| Provider registry (`multi_provider.py` 507-584, `main.py` 105-193) | runtimes, routes, health, prices | `reload_registry`, `inherit_health`, `mark_health`, health checks | `Registry` |
| Provider administration (`main.py` 1523-1591, 1691-1886; `db.py` 107-234) | tables `providers`, `route_targets`, `model_pricing`, ... ; `settings_lock` | create, update, delete a provider; replace routes, prices, settings | `Registry` |
| Database adapter (`database.py`) | the transaction of each task (a ContextVar), the pool | `execute`, `executemany`, `begin`, `commit`, `rollback` | `Database` |
| Request log and retention (`db.py` 237-355, 982-997; `main.py` 56-102, 2202-2285) | `requests`, `request_stats`, `request_attempts`, `queue_samples` | insert, attempts, delete, bulk delete, `/reset`; the sampler; purge by age and by count | `RequestLog`; the path that writes it also in `Gateway` |
| Authentication and access (`auth.py`, `main.py` 306-371, 1191-1340; `db.py` 1006-1057) | login throttle, roles, machine keys, audit log | login, first administrator, role changes, accounts, keys, audit | `Access` |
| Startup and credentials (`main.py` 179-240, 1523-1591, 1691-1763; `config.py`; `multi_provider.py` `CredentialCipher`) | `app_settings`, the providers and their sealed keys, `runtime_settings`, `legacy_api_keys` | first and later starts, `update_settings`, `create_provider_api`, `update_provider_api`, a crash anywhere | `Startup` |
| Message and stream translation (`multi_provider.py` 263-498, `main.py` 749-852) | the tool table of one stream, the accumulator of its reply | one message or one event at a time | `Conversation` |
| Charts, statistics, alerts, paging (`chart_ranges.py`, `db.py`, `main.py`) | none of their own | ranges, buckets, classification, pages | `Dashboard` |
| Outbound policy (`outbound.py`), pricing, sanitizing, provider detection | none | pure conversions and library calls | not modelled |
| Dashboard frontend (`src/frontend`) | the session cookie | renders; retries after a 401 with a refresh | the paging of its request feed, in `Dashboard` |
| Migrations, deployment | schema | - | their constraints are used in `Registry`, `RequestLog` and `Gateway` |

### How they interact

A client's call has its machine key looked up and is resolved against
`app.state.registry` to an ordered list of `ProviderRuntime` objects.  For each of
them the handler counts itself in the queue gauge, waits in that runtime's
`CapacityController` (request bucket, token bucket in chunks, semaphore),
translates the conversation if the provider is Anthropic, calls the provider,
releases, and either continues with the next target or writes the request and its
attempts to the log and answers.  Administrative calls have their actor's role
read, check the registry in memory, write to the database, call `reload_registry`,
which builds a new registry, with new runtimes and new controllers, and swaps it
in, and are audited; requests in flight keep the runtimes they resolved.
Background tasks (health checks, the sampler, the purge) share the same state.
Every handler uses the database through the transaction in its own context.

### What is hard about it

* **Interleaving at every await.**  There is one thread, but between two awaits
  of one handler any number of others run.  Sleeping callers of a bucket compete
  when they wake; reloads overlap; checks precede writes by an await; a login is
  let in before the one before it has failed.
* **Cancellation and partial failure.**  A client that disconnects cancels a task
  wherever it waits; gauges, slots, the semaphore's line and the connection in the
  task's context must survive it.  A failed statement leaves an open transaction.
* **Resources on replaced objects.**  A reload replaces every controller while
  slots of the old ones are held.
* **Failover.**  A call may only be repeated elsewhere when it cannot have had an
  effect, and every attempt must be recorded.
* **Stale snapshots.**  `reload_registry` reads two tables in two transactions and
  publishes later; health checks report on what was true when they started; a
  statement that waits for a lock decides by the snapshot it took before.
* **Crashes.**  The first start is three transactions; a settings update is two.
* **Two writers of one fact.**  The default provider's address is in the settings and
  in its own row, and the handlers of providers write only the latter; two purges may
  be asked for at once; two clocks decide which chart a request belongs to.
* **Row locks.**  Deletions, the purge and `/reset` lock the same rows in different
  orders, each with a connection of the pool in hand.
* **Two views of one fact.**  Streams and whole replies, SQL and Python
  classification, estimated and reported usage must say the same.


## 2. The modules

| module | what it is |
|---|---|
| `Bucket` | the data of one `TokenBucket` and what each locked section does to it |
| `TokenBucket` | `Bucket` with several callers in `acquire`, plus `reconfigure` |
| `ConcurrencyLimit` | abstract: what a provider's concurrency limit promises its users |
| `Capacity` | `CapacityController`: `acquire` and `release` with all three limits, built from two instances of `Bucket` |
| `Gateway` | the request path over several providers: failover, streams, gauge, log, reload, `/reset`; uses each runtime's capacity as `ConcurrencyLimit` |
| `Registry` | administration, reload and health |
| `Database` | the database adapter over its pool and PostgreSQL: transactions of tasks, statements, row locks |
| `RequestLog` | the log's writers, deleters, purge and sampler, each a program of statements over `Database` |
| `Access` | logins, roles, machine keys and the audit log |
| `Startup` | first and later starts, changes of settings and providers, and what a crash leaves of them |
| `Conversation` | messages to Anthropic and the events of its replies, translated and accumulated |
| `Dashboard` | charts, counters, alerts and pages over a changing log |
| `Capacity_proofs`, `Gateway_proofs`, `Registry_proofs`, `RequestLog_proofs`, `Startup_proofs`, `TokenBucket_proofs`, `Access_proofs`, `Conversions_proofs` | the theorems |
| `MC...` | the instances TLC checks |

An operator named as a mutant ("Mutant of ...") is no part of a specification: it
is a plausible wrong version of the definition that follows it.

### What one step is

The event loop switches tasks only at an `await` that really suspends.  Every
`asyncio.Lock` of the modelled code (bucket, controller, gauge) is held over code
that never suspends, so it is never contended: its critical section belongs to the
step around it, and `CapacityController.release` and `QueueState.inc`/`dec` are
one step each.  The suspension points that remain are the sleep in
`TokenBucket.acquire`, the semaphore, the provider call, the database, the
authentication service and the outbound policy.  The models are a little more
permissive: a step also ends where the code *may* suspend but need not (between the
stages of `acquire`, before each target).  `settings_lock` does span awaits and is a
variable of `Registry`.

### `Bucket` and `TokenBucket`

Amounts are integers in a unit of the user's choice.  The lazy refill (tokens plus
elapsed time times rate, capped) can only be observed through the level, so it is
replaced by an eager one: `Tick` adds a unit whenever the bucket is not full.
`minted` and `spent` are history variables.  `Call` is `acquire` up to its first
suspension and `Wake` one successful turn of its loop after a sleep; a wake-up that
finds too little changes nothing and is a stutter.  A caller that has been answered,
rejected or cancelled may call again, and be refunded once between two calls; `MaxCalls`
bounds the calls of all callers together.  `Reconfigure` installs a larger or a smaller
capacity while callers sleep.  `asyncio.sleep` wakes sleepers in no order, so callers who
go on calling for ever could starve one that sleeps: with the bound on calls that is not
promised to be impossible, only that nobody is left behind once the others stop.

### `Capacity`

`stage` is where a caller is in `acquire`: `request` (in the request bucket),
`tokens` (in the chunk loop), `slot` (at the semaphore), then `active`, `done`;
`rejected` when the request bucket raises and `cancelled` when the task is
cancelled.  The semaphore is its value `slots` and its FIFO `waiters`.  `Cancel`
is the `finally` clause of `acquire`: the gauge and the line are left, but what was
taken from the buckets stays taken, as in the code.  `Release` refunds
`reserved - actual` when that is positive.

`LimitsAssumption` has `TokenBurst >= 1`: `int(capacity)` of a bucket below one
token is 0, and the chunk loop of `multi_provider.py:148` then runs for ever
without giving up the event loop.  Nothing interleaves with that, so there is
nothing to model check; it is noted as a hazard.

### `Gateway`

`stage` follows one request: `new`, `prepare` (before each target), `queued`,
`calling`, for a stream `draining` (reading the body of a reply that falls back),
`opened` (the `StreamingResponse` is returned, the generator has not run) and
`streaming`, then `logging`, `saving`, `done`.  `forward_chat_request` and
`forward_embeddings_request` have the same control and are one `kind`, `reply`.
A runtime is a pair of provider and registry number (`epoch`), `free` the value of
its semaphore; buckets are the business of `Capacity`.  Outcomes of a call are
grouped by what the code tells apart: `blocked`, `connection`, `timeout`,
`unknown` (the four exception handlers), `retryable` (a status in
`FALLBACK_STATUS_CODES`) and `final`.

`Faults` enables what the code has no handler for:

* `cancel` - the task is cancelled while it waits for the provider, or the call raises
  something that none of the four handlers catches (`main.py:556-591`, `882-908`; the
  handlers are for `OutboundPolicyError` and `httpx` errors);
* `body` - an answer `normalize_response` cannot digest, or usage that is no number
  (`main.py:604`), raises between the call and `release`;
* `drain` - `response.aread()` of a stream that falls back raises (`main.py:911`);
* `abandon` - the client is gone before the generator first runs, so its `finally`
  never does (`main.py:995`);
* `database` - an insert fails.

The first four end in stage `leaked`: the slot is never given back.  Requests that
wait for that slot later wait for ever, which is why `MCGateway.cfg`, the run with
these faults, does not check deadlock, and why the liveness run does not enable
them.  `SlotsExact` states exactly which slots do not come back.

A cancelled stream (`StreamEnds` with `cancelled`) runs its `finally` clause in a
scope that is already cancelled: its further awaits are cancelled too, so the
insert may be lost; `InsertFails` and `SaveFails` allow it.

### `Registry`

An administrative request goes through its check, its wait, its write and
`reload_registry` (`reload`, `providers`, `read`, `publish`, `prices`).  A
provider's configuration is its flags, default and enabled, and who wrote it; a route
table or a price list is the set of providers it mentions.  `switchedOff` remembers which
providers their own create or update has disabled.  The database is outside `src/` as
far as its guarantees go: one committed transaction is one step, the unique index
on the default provider and the foreign keys hold (`route_targets` restricts,
`model_pricing` cascades), and a violated one makes the handler raise.
`DatabaseFails` is a statement that fails at any point.  What two overlapping
transactions may additionally do to each other (one waits for the other's row
locks, or is refused by the unique index) is not represented.  Left out as data:
validation of fields, credentials (`Startup`), the audit log (`Access`), and
`run_purge` at the end of `update_settings` (`RequestLog`).

`health` is a list with one entry per registry so far; of each runtime it keeps
when its health was noted (`at`) and how old the noted information is (`since`).
There are two kinds of checks: `refresh`, of enabled providers, compares its start with
what is known when it ends, and `discover` (`discover_provider_models`) does not.  They
are limited to one of a kind per runtime at a time, and are started whenever the model
likes, not only after the reloads that schedule them.
`disturbed` remembers that two operations were in progress at once or that a
statement failed: what the code promises, it promises of operations in turn.

### `Database` and `RequestLog`

`context` is the transaction in a task's ContextVar.  `Join` opens one when there is
none, `Raises` is the exception path of `execute`: a call that opened the
transaction rolls it back, any other leaves it in the context with its connection,
`lost` because the server has rolled it back.  `Collect` is the end of the task,
when the pool takes such a connection back.  The server is external: READ COMMITTED
statements fix their rows when sent (`Statement`), wait for row locks (`Queue`,
`Resume`), skip what is gone, cascade (`Dependent`), are refused when a row they
refer to is gone, and one of a ring that waits for each other is failed
(`Deadlocked`).

`RequestLog` gives each operation of `db.py` its statements, in their order
(`InsertSteps`, `PurgeSteps`, `ResetSteps`, `DeleteSteps`, `DeleteMatchingSteps`,
`SampleSteps`), and each task runs one: `Send` a statement, `Finish` with a commit,
`Reject` when the server refuses, `Fail` when it does not answer, `Disconnect` when
the client of a stream goes away in the middle.  A row is its table and its id.
`Expire` is time, or a shorter period in the settings: in every table ids expire in
order, each table by its own period, since `config.py:80-82` and `main.py:1361-1363` ask
of the periods only that they be positive.  `overtaken` remembers that statistics have
expired before their payload.  The limits on rows are constants of the code, and
`LimitsAssumption` says that there are fewer payloads than statistics.
`BeginPurge` is `run_purge`, by the periodic purge or by a handler at the end of
`update_settings`, which holds `settings_lock`: whoever finds the advisory lock taken
rolls back and is done.  `Duties` says what each handler may be about.

### `Access`

Three kinds of tasks.  A login passes the throttle (`BeginLogin`), is answered by the
external Auth service, reads its role, and, if it has none, goes through
`bootstrap_first_admin` in two steps: the snapshot of its NOT EXISTS is taken before
it waits for the advisory lock.  A dashboard request arrives with a session, has its
role read by `security_boundary` (`ReadPrincipal`), is handled and is audited, where a
failing audit record is swallowed.  A call with a machine key looks it up and touches
it.  Users stand for accounts, e-mails and throttle keys.  An update names its target in
the path, by a UUID that is spelled as in the tokens (`canonical`) or in another way: the
check in `access_user_update` compares strings, the database does not.  `Lookup` is what the code
does with a key that has an expiry, see section 3.

### `Startup`

`phase` is the next transaction or await of a starting process: `read`, `save`, `seed`,
`insert`, `forget`, `load`, then `running`.  In a running process `stage` is where each of
several requests is: one for the settings is `saving`, then `writing` the default
provider, under the settings lock; one that creates or changes a provider
(`create_provider_api`, `update_provider_api`) is only `writing`; both then reload,
`reading` and `publishing`.  What a request writes is fixed when it begins, from the
registry in memory: an address, whether the provider is to be the default, and its key
kept, cleared, replaced or, when its secret headers change, sealed again as it is in
memory.  `Crash` happens anywhere, and `Deploy` starts a new process with any address, key
and cipher.  A row of settings or of a provider is an address and a key.

Six history variables say what the properties are about: `intended`, the key last seeded,
set or cleared for each provider; `unsealed`, that the seeded one's key was seeded without
a cipher; `left`, that a key was left in the settings table; `torn`, that a process ended
between the two transactions of a settings update; `apart`, that a request for a provider
moved the default or its address; and `overlapped`, that two requests were in progress at
once.

### `Conversation`

A client writes messages, `Ask` is `prepare_request`, and the provider sends the events
of its reply one by one, stopping or failing anywhere.  `Tracked` and `Translated` are
one turn of `translate_stream`, `Consumed` one of `StreamAccumulator`, and `Normalized`
is `normalize_response` of the same reply.  When a reply is complete the client appends
what it received and may go on, so that what one conversion makes is the input of the
next.  A text is the sequence of fragments it was sent in, which is what makes an
omission, a repetition or a change of order visible.  The arguments of a call are `Whole`
fragments; with fewer they are the beginning of some JSON, which `json.loads` does not take
(`Json`), and with none they are empty in a stream, while `normalize_response` dumps a
missing input as `{}` (`EmptyObject`).  A part of a message that is no object (`bare`) is
left out by `_anthropic_content`.

### `Dashboard`

The log gains and loses rows and time passes.  SQL conditions and Python classifications
of a status are separate operators, as they are separate code, and NULL compares as in SQL
(`Below`).  There are two clocks: Python's stamps a request, some time (`delay`) before its
row is there, sizes the range of "all" and puts rows into buckets; the database's, which
is `Skew` ahead or behind, selects them.  Each answer is read in its statements, with the
log and the time moving on in between: a chart in `ReadOldest`, `SizeRange` and
`SelectRows` (or `ChooseRange` and `SelectRows`), after which `Bucket` tells what is counted
if the clock is read now; the error rate in three counts (`EvaluateAlerts`, `CountNext`);
the request feed in pages (`ReadFirst`, `ReadNext`).


## 3. What is checked

### Passing runs

| run | instance | properties | what it shows |
|---|---|---|---|
| `token_bucket` | three callers with four calls between them, for 0, 1, 3 or 4 of a bucket of 3, which becomes one of 2 or of 4 once | `NoFreeTokens`, `QueuedCallersServed` | no order of waking, cancelling, refunding, calling again and resizing creates tokens, and everyone who waits is served, unless the capacity is by then below what he waits for |
| `capacity` | three callers; reservations 1 and 3 over a token bucket of 2, so that chunks are needed; a burst of 2 requests; one slot | `SlotsConserved`, `GaugesExact`, `TokensAccounted`, `Paced`, `LimitSpec`, `QueuedDecided` | slots and gauges are exact under every interleaving with cancellations, charges are reservations less refunds, RPM and TPM hold, everyone is decided, and `Capacity` implements `ConcurrencyLimit` |
| `capacity_reject` | a burst below one request, no token bucket, no semaphore | `GaugesExact` | `acquire` raises for everybody and the gauges stay exact |
| `gateway` | two requests of both kinds over an alias with a fallback and a direct selector; a reload that changes the routes; all faults | `SlotsExact`, `GaugeExact`, `FailoverInOrder`, `LimitsKept` | which slots are held, and which are lost, for the reasons named under `Gateway`, a cancelled call among them; the gauge counts the queue; targets are tried in order and only after a transient failure; every runtime is used as `ConcurrencyLimit` allows |
| `gateway_reset` | the same with one `/reset`, database failures and a third provider that can admit nobody | `GaugeNeverOverstates`, `ForwardedIsLogged`, `QueuedAreAnswered` | what survives a reset of gauge and log in the middle of requests; every queued request is answered |
| `registry` | two administrators, each with an operation of any kind, on providers enabled or not; failing statements; request outcomes, refreshes and discoveries | `SavedIsAppliedInTurn`, `DefaultServes`, `HealthNeverRegresses`, `LockFreed` | operations in turn leave in memory what they stored, a default, and every provider enabled just as its own create or update left it, and health goes back only by a discovery; however they overlap there are never two defaults, and the settings lock is left |
| `storage` | two handlers (log, delete, bulk delete, reset, purge), the periodic purge and the sampler over a pool of two; rows that expire in any order; one failure anywhere | `ConnectionsExact`, `PayloadsFindable`, `ErasedStaysErased`, `PoolRefills`, `RetentionHolds` | connections are where the code thinks they are and come back, through lock rings too; payloads keep their statistics but for three exceptions; what was erased stays so; a purge takes what is due and nothing else |
| `access` | two logins, two dashboard requests, whose paths may spell an id in another way, a machine call; failing role grants and audit records | `ThrottleHolds`, `OneFounder`, `AdministratorRemains`, `AuthorityIsCurrent`, `RevokedIsRefused`, `ChangesAreAudited` | who gets in, with which authority, and what is left of it in the audit log |
| `startup` | three deployments with two addresses, keys and ciphers; two providers; two requests for the settings or a provider; a crash between any two steps | `AddressesAgree`, `KeyServed`, `PlainKeyRemoved` | a start continues from whatever a crash left, serves the key that was set, and leaves none in plain text; settings and default provider part only where the code lets them |
| `conversions` | conversations of three messages, with parts that are skipped, and a streamed reply cut anywhere; and, each in behaviours of its own, charts, alerts and pages over a log of up to three rows under time, insertion and deletion | `StreamAgrees`, `EstimateCovered`, `HistoryKept`, `RepliesAccepted`, `StatisticsAgree`, `PagesComplete` | the stream and the whole reply say the same, which of them may be sent back, and that everything sent back reaches the provider in order; estimates stay within reservations; charts, counters and pages agree with the log up to the edges of their windows |

The type invariants are parts of the properties that rest on them (`NoFreeTokens`,
`DefaultServes`, `ConnectionsExact`, `StreamAgrees`, `ThrottleHolds`), or of the
invariants proved in section 5.  `token_bucket`, `capacity`, `capacity_reject`, `gateway_reset` and `registry` also
check deadlock; the others say `CHECK_DEADLOCK FALSE` because the system may really
stop: a lost slot keeps a request waiting for ever, every login and request has been
answered, the last deployment has ended, the log is full, a conversation is over.

### Where the code does something else than the repository says

| run | what TLC finds |
|---|---|
| `expiring_key` | `KeysWorkUntilExpiry`: the database adapter gives every timestamp without its time zone (`database.py:15`), and `auth.py:204` compares it with an aware one.  A machine key with an expiry is answered 500 on every call, before it expires as well as after.  `main.py:1325` ("Expiration must be in the future") and `access.tsx:98` ("Optional expiration") offer the field. |
| `stream_error` | `ErrorLogged`: a stream that opened with 200 and then carried an error is logged as 200 (`main.py:965`).  `main.py:1454-1456` says that the test console shows "the true outcome even for a stream that opened with HTTP 200 but carried an error chunk mid-stream"; `extract_sse_error` and `status_code_from_error`, which would tell, have no caller. |

### Met while modelling

What the models allow because the code does, so that the properties have to except it
or bound it:

* `reconfigure` below what a sleeping caller asked for leaves it asleep for ever: the
  amount is compared with the capacity on entry only (`limiter.py:19`), while the
  docstring of `reconfigure` speaks of changing the limit "without dropping queued
  callers".  Nothing in the program calls `reconfigure`, so no run is made of it.
* Two overlapping updates whose checks precede each other's writes leave no default
  provider (`main.py:1733`).  An update may disable the default provider, in turn with
  everything else; `enabled_targets` (`multi_provider.py:578`) then finds nobody for a raw
  model name.  Of two overlapping reloads the one that read first may
  publish last (`main.py:107`).
* `discover_provider_models` notes what it learnt whatever was learnt while it waited
  (`main.py:1807-1813`); only the background check compares (`main.py:149-151`).
* After a reload the calls of the old runtime and `max_concurrency` new ones run side
  by side (`main.py:120`).
* `/reset` clears the gauge under queued requests, whose `dec` calls then eat the `inc`
  of newer ones; a request inserted while `/reset` runs keeps its payload and loses its
  statistics (`db.py:351`).
* A stream whose last target fails before it opens is answered without being logged
  (`main.py:890`), and the attempts made are forgotten.
* The leaks named under `Gateway` hold a slot until the next reload; a client that
  disconnects while its stream is being opened (`main.py:882`) is the likeliest.
* One failed statement ends the purge or the sampler for the life of the process
  (`main.py:87`).  A purge by count takes one batch at a time.
* A purge that has fallen behind goes on to the statistics when a batch of payloads was
  not enough (`db.py:323`, `OFFSET ? LIMIT 5000`), and takes those of payloads it has
  left for its next round, which then cannot be found.  It takes more than 5000 requests
  in every 300 s, until `request_stats` is past its two million rows, or as many
  statistics that expire at once; `PurgeKeepsUp` says when it cannot happen, and TLC
  finds it with limits of 1 and 2 rows, a batch of 1 and a backlog of 4.
* Statistics may be kept for a shorter time than payloads: `config.py:80-82` asks only
  that both periods be positive, and `db.py:342-343` deletes each table by its own.  The
  payloads are then there and cannot be found.
* `delete_request` locks statistics before payloads, the others payloads before
  statistics; PostgreSQL breaks the ring, and one of the two fails (`db.py:993`).
* Two first logins that wait for the lock at once both become administrator
  (`db.py:1009`: the snapshot is older than the lock).  Two administrators can demote
  each other at the same time (`main.py:1306`).  And the only one can demote himself in a
  single request, if the path has his id in upper case or without hyphens: the check
  compares strings, and `db.py:1048` casts to a UUID.
* A key that was seeded without a cipher stays in plain text and is not the provider's
  after a restart, even one with a cipher.  A crash between sealing the key and
  `delete_app_setting` leaves it in plain text for good: no later start looks for it.
* The provider handlers (`main.py:1691`, `1725`) change the default provider's address, or
  make another one the default, without touching `app_settings`, and a crash between the
  two transactions of `update_settings` has the same effect; the settings have the old
  address until they are saved again.
* A change of secret headers seals the key again as it was in memory when the request
  began (`main.py:1740-1761`): one that overlaps a change of the key undoes it.
* `content: null` becomes the text "None" for Anthropic; thinking is streamed, and dropped by
  `normalize_response`; a part of a message that is no object is dropped without a word
  (`multi_provider.py:334`).
* A call without input has the arguments `{}` in a whole reply (`multi_provider.py:431`) and
  `""` in a streamed one (472).  `prepare_request` refuses the latter when it comes back, as
  it does arguments that `max_tokens` has cut (392-395), and with it every later call of
  that conversation.
* A chart selects rows by the database's clock and puts them into buckets by Python's, read
  after the rows are there (`db.py:796-814`), and "all" is sized by the oldest request of an
  earlier statement (`main.py:2071-2076`): rows at the old edge may be missing.
* A call without text may be estimated one token above its reservation.
* The query for sustained queueing (`db.py:769`) counts the samples of all providers.

### Bounds, and why they are enough

* *Callers and requests*: three at a bucket or a controller - one that runs, one that
  waits, one that competes with it or is cancelled in the line - and two on the request
  path, which is what a slot passed from one to another needs.
* *Amounts*: buckets of 2 and 3 units with requests below, at and above the capacity;
  larger numbers repeat the same comparisons.  Four calls of three callers, so that one
  comes back while the others wait.
* *Targets*: an alias with two targets and a direct selector share a provider, so that
  one request's fallback meets another's first choice; a second table has the first
  target disabled and a selector that resolves to nothing.  `MaxConcurrency = 1` makes
  every admission wait for a release.
* `MaxReloads`, `MaxResets`, `MaxReconfigures = 1`: one change in the middle of
  everything else; a second finds the same states with new runtimes.  `MaxNotes = 2`: a
  check is started, something newer is noted, the check ends.
* *Administrators and logins*: two, because every race here is one of two.
  `Attempts = 1`: the second login in the window is the first that is refused.
* *Registry*: one kind of each check; a default provider that any operation may write,
  enabled or not, and another that is created, made the default, listed and deleted.
* *Storage*: `Duties` shares the operations out between two handlers, one that deletes
  and purges and one that logs and resets, both of which bulk-delete, so that any two meet.
  One payload and one row of statistics may expire, in either order.  A pool of two is
  exhausted by two of the four tasks.  Two requests are in the log and one more can come;
  the limits are one payload, two statistics and one sample, so that every limit is passed
  and a batch of two still reaches what is beyond it.  One failure, since after it the
  statements that follow meet the same code.
  The two limits differ by one and one request can be logged, so that `PurgeKeepsUp`
  holds of the instance and `PayloadsFindable` is tested in full: in the program, too, far
  fewer requests are logged during a purge than `REQUESTS_MAX_ROWS` and
  `REQUEST_STATS_MAX_ROWS` differ by.
* *Startup*: two of every value, to tell old from new; three starts are a first one, its
  crash or success, and one with other settings; two requests may contradict each other, for
  one provider or two, and one may begin before, during or after the other.
* *Conversions*: three messages (a system text, a question, a reply that is sent back);
  two blocks, so that a text may precede, follow or separate calls; two parts of each; a
  page of two in a log of three rows.  Whole arguments are two fragments, so that one of them
  is a beginning.  A reply that is cut, has no arguments or no text may be sent back once.
  Time moves twice, by 9 s, within a bucket and across its edge, or by 3661 s, beyond the
  hour and its alignment; the database's clock is 1 s ahead, and a row may come 9 s after
  its stamp, so that edges move between any two statements.  Five outcomes are on either
  side of each comparison with a code or a wait.

Symmetry is declared only where no liveness is checked: logins and requests in
`MCAccess.cfg`, addresses, keys, ciphers and requests in `MCStartup.cfg`.

### Fairness

* `TokenBucket`, `Capacity`: weak fairness of the refill (time passes) and of each
  caller's own next step (`asyncio.sleep` ends and the loop runs what is ready; the
  semaphore wakes its first waiter).  A running call ends because every upstream call
  has a timeout (`main.py:556`).  Cancelling and entering are never forced.
* `Gateway`: each request's next step, and the second half of `/reset`.  Arrivals,
  reloads, `/reset` itself, adapter refusals and faults are not forced.
* `Registry`: each handler that has started continues; the database answers.
* `RequestLog`: the handlers together, the sampler and the purge take their next step.
  Time, failures and disconnections are not forced, and a task that died is not revived:
  `RetentionHolds` asks for something only of a purge that lives.
* `Access`, `Startup`, `Conversation` and `Dashboard` have safety properties only and
  state no fairness.


## 4. Abstractions worth knowing

Payload contents, prices, timings, HTTP details and logging are left out; a message is
only what the control flow or a conversion tells apart.  Provider health is not part of
`Gateway`, and capacity not part of `Registry`; the two meet only in that a reload makes
new runtimes, which both have.  Configured limits do not change with a reload in
`Gateway`.  The buckets are not part of `Gateway`: they only delay admission, which
`ConcurrencyLimit` already leaves open.  `Gateway` and `RequestLog` both write the log,
the first to relate it to what the client was answered, the second to relate its
statements to each other.

External, and modelled from how `src/` uses it: PostgreSQL (atomic commits, row locks,
statement snapshots, foreign keys, deadlock detection), the connection pool, asyncio's
semaphore and cancellation, the Auth service, providers and clients.  One instance of the
program runs: the advisory lock of the purge is contended within it, by the periodic purge
and the one a settings update runs.


## 5. What is proved

| module | theorems | assumptions |
|---|---|---|
| `TokenBucket_proofs` | `TokensAreNeverFree` | `TokenBucket`'s on its constants |
| `Capacity_proofs` | `TypeCorrect`, `SlotsAreConserved`, `GaugesAreExact`, `RequestsArePaced`, `TokensArePaced`, `CallsArePaced`, `TokensAreAccounted`, `ImplementsLimit` | `CallersAssumption`, `ReservationsAssumption`, `UsagesAssumption`, `LimitsAssumption` |
| `Gateway_proofs` | `TypeCorrect`, `SlotsAreExact`, `LimitsAreKept`, `GaugeIsBounded`, `GaugeIsExact`, `FailoverIsOrdered`, `ForwardedIsAlwaysLogged` | `RequestsAssumption`, `TablesAssumption`, `KindsAssumption`, `BoundsAssumption` |
| `Registry_proofs` | `TypeCorrect`, `SavedIsAlwaysApplied`, `DefaultAlwaysServes`, `HealthAlwaysAdvances` | `InitialAssumption`, `AdminsAssumption`, `NotesAssumption`, `KindsAssumption`, `OperationsAssumption` |
| `RequestLog_proofs` | `TypeCorrect`, `ConnectionsAlwaysExact`, `ErasedAlwaysStaysErased`, `AttemptsHaveRequests`, `PayloadsAlwaysFindable`, `PurgeAlwaysSparesNewest` | `HandlersAssumption`, `BoundsAssumption`, `LimitsAssumption` |
| `Access_proofs` | `TypeCorrect`, `RevokedIsAlwaysRefused`, `AuthorityIsAlwaysCurrent`, `OneUserIsFounder`, `AnAdministratorRemains`, `ChangesAreAlwaysAudited`, `ThrottleAlwaysHolds` | `UsersAssumption`, `TasksAssumption`, `AttemptsAssumption`, `OperationsAssumption` |
| `Startup_proofs` | `TypeCorrect`, `AddressesAlwaysAgree`, `KeyIsServed`, `PlainKeyIsRemoved` | `NamesAssumption`, `SeededAssumption`, `BoundsAssumption` |
| `Conversions_proofs` | `TypeCorrect`, `StreamsAlwaysAgree`, `RepliesAlwaysAccepted`, `EstimatesCovered`, `HistoryAlwaysKept`; `PagesAlwaysComplete`, `StatisticsAlwaysAgree` | `Conversation`: `SizesAssumption`, `BoundsAssumption`, `SaidAssumption`, `NullAssumption`; `Dashboard`: `OutcomesAssumption`, `StepsAssumption`, `RowsAssumption` |

Each holds for every value of the constants that satisfies the assumptions: any number
of callers, requests, users, starts, any limits, routes and faults.

### `TokenBucket_proofs`

`NoFreeTokens` (level plus spending is at most the initial capacity plus the refills,
and the state is well typed) is inductive as it stands: every action that raises the
level raises `minted` by as much or lowers `spent`, and the caps of `refund`, the refill
and `reconfigure` only lower it.

### `Capacity_proofs`

    IInv == TypeOK /\ SlotsConserved /\ GaugesExact /\ RequestBooks /\ TokensPaced

None of its parts is inductive alone.  The ranges in `TypeOK` (`slots` at most
`MaxConcurrency` after a release, `queued` not negative after a departure) follow only
from what `SlotsConserved` and `GaugesExact` say *before* the step.  The request limit is
not inductive at all: it says nothing of what is in the bucket; `RequestBooks` adds that
level and spending balance the refills, and that spending covers the callers that have
paid (cancelled ones have paid and left).  `CallsArePaced` joins the two limits.

Each action has a lemma `...IInv`.  They share one argument: `MoveSets` says how moving
one caller changes the sets that the gauges and slots count, and `CountOne` that adding
or removing one caller changes a cardinality by one.  `NextIInv` combines them,
`Invariance` closes the induction.  `StepRefines` maps each step to `Arrive`, `Admit`,
`GiveUp`, `Depart` or a stutter of `ConcurrencyLimit`; the guard of `Admit` is where
`SlotsConserved` is needed.

`Books == Collected /\ TokensAccounted` is inductive on top of `IInv`: `Collected` says by
stage how much of a reservation is still to be taken, which is what the last chunk, a
cancellation and the refund of `Release` rest on.  `OneCharge` is the common step: one
caller's charge and the bucket's spending change by the same amount.  It needs that a sum
over the callers changes as one of its terms does (`SumChange`).  The sum is a recursive
function on sets, and the induction over their number of elements that it takes is done by
hand, with `NaturalsIn`, as the library's induction theorems cannot be instantiated.

### `Gateway_proofs`

There are four inductive invariants, the later ones resting on the first:

* `IInv == TypeOK /\ AtInRange /\ SlotsExact`.  `AtInRange` (a request under way is at one
  of its targets) is what makes `Current(r)`, where the slot is taken and given back, a
  runtime at all; the bound of `free` follows from `SlotsExact`.
* `GaugeInv` is `GaugeNeverOverstates`, and `GaugeExact` until the first reset.  The first
  half is inductive despite the clamp in `dec`, because the leaving request is still
  counted in the queue; the second is not, once a reset has happened.
* `TrailInv` adds to `FailoverInOrder` how many attempts a request has made by the time it
  is in each stage (one less than `at` until the last), without which the next attempt
  could be recorded at the wrong place.
* `LogInv` adds to `ForwardedIsLogged` that who saves attempts has or had a row, and that
  an answered request makes no further step.

`HoldersMove`, `QueueMove` and `WaitersMove` say how a step of one request changes the
sets that slots, gauge and limit count; `SlotTaken`, `SlotGiven`, `SlotsSame` and
`QuietMove` are the four ways a step treats the slots.  `LimitsAreKept` maps `JoinQueue`,
`Admit`, `AcquireFails` and every release to `Arrive`, `Admit`, `GiveUp` and `Depart` of
the runtime concerned, and everything else to a stutter.  Together with `ImplementsLimit`
it connects the two layers: the controller keeps the promise, and the request path relies
on nothing more.

### `Registry_proofs`

`Typed` and `Noted` hold however handlers interleave: types, never two defaults in the
tables, the registry or what a reload has read (`UpsertWrites`), and that what is known of
a runtime is no newer than its note.  `InTurn` speaks of operations that have neither
overlapped nor failed: one handler at most is in progress, and `Promises` says by its
stage what it may rely on - before it writes memory is what is stored and what it checked
still holds, what a reload has read is still stored, and it inherits health from the
registry in use.  `SwitchesKept`, the part about disabled providers, is among what they
share: `update_settings` relies on the default's flag in memory being the stored one
(`kept`).  `SavedIsAppliedInTurn` and `DefaultServes` follow at the stages where nobody is in
progress; `HealthNeverRegresses` is an action property, for checks of any kinds: the step
that ends a discovery is the only one that may replace newer information.

### `RequestLog_proofs`

`Base` is the types with the accounts of the pool.  `Counted` is the account itself;
`Connected` says who may hold a connection, and why the sampler, whose failed statement
need not roll anything back, never keeps one: the call that waits opened its transaction
itself.  `OnProgram` ties what is left of a job to the end of its program, so that
`Heads` can say what the next statement is.

`ErasedStaysErased` relates rows to what other tasks are still to do, and needs all of
`Safe`:

* `Fresh` and `Apart`: what a task has still to insert (`Pending`) is in nobody's rows,
  reports or pending inserts.  A row that `rows` does not have and nobody has pending can
  therefore never come back.  `Given` ties this to the sequence: ids above `next` are
  nobody's, which is why an insert that begins is new to all.
* `Erasing`: of what it will report, an eraser has deleted what is still stored in the
  tables it has passed.  A statement that waits keeps the rows it saw when it was sent,
  and `Meant` says these are enough: what others commit meanwhile is pending of theirs, so
  it adds nothing to what is to be reported.
* `Referring`: a reset reports attempts, but no statement names their table; they go with
  their request.  That the cascade misses none needs that an attempt is inserted under a
  lock on its request, that a locked request is deleted by nobody else (`Apart`), and that
  whoever deletes a request has all its stored attempts.  `AttemptsHaveRequests`, the first
  half of `PayloadsFindable`, follows from the same.

`PayloadsAlwaysFindable` adds the statistics.  `Findable` is its invariant: until a request
is logged during a reset or statistics expire before their payload, and if the purge keeps
up, `Sound` holds.

* `Paired` is the property; `Inserts` and `Sweeping` are why inserts and erasers keep it: an
  insert has both rows by its first commit, and an eraser, of the tables it has passed, has
  taken all that is stored of what it is after, and nothing else (`Takes` is what a task has
  deleted or waits to delete, `Left` the number of statements it has still to send).
* `Tidy` is why a purge does, whoever runs it.  It takes statistics only of payloads that are gone or
  that it takes as well (`TakesBoth`), because its earlier statements took the payloads of
  all statistics that are too old (`TakesOld`), and of those beyond the limit left only such
  as have few newer statistics (`TakesExcess`): too few for the limit of statistics to reach
  them, by counting ids (`StatsSpared`).  `Ages` is the order of expiry so far; two purges never
  delete at once, because of the advisory lock.
* `Ladder`, that no payload is left that is older than one missing while both have
  statistics, and `TakesInOrder`, its counterpart for a purge in progress, make one batch
  enough: what is beyond the limit is then the oldest (`Early`).

`PurgeKeepsUp` speaks of constants only.  Its first line is what `TakesOld` needs of the
first statement's batch, and its two cases are `AllFit`, where the limit of statistics never
bites, and `Prompt`, where the counting succeeds.  Without it TLC finds the payloads of
section 3 that lose their statistics, so it is no artifact of the proof.

`PurgeAlwaysSparesNewest` is the safety half of `RetentionHolds`.  Its invariant, `Sparing`,
says of every row the purge has taken or waits to take that it `MayGo`: it is too old, or
has as many newer ids as its table keeps.  A statement is chosen when it is sent and takes
effect later, at the commit even much later; that is sound because what is too old is fixed
when the transaction begins and the sequences only advance.  `ExcessMayGo` counts: every row
newer than one beyond the limit has an id that was handed out, so there are at least as many
ids after it.  It holds for all three tables, however far behind the purge is.

### `Access_proofs`

`Base` is `TypeOK` and `Accounts`: whoever is past the password has an account, whoever
has a request has a session, and who creates an account is not the one it is created for.
Each property has an invariant of its own on top of it:

* `Revocation`: the key of a call in `late` is revoked and stays so, and the call has got
  no further than its lookup.
* `AuthorityIsCurrent` is inductive: the row `ReadPrincipal` decides by is among `grounds`,
  and those only grow while the request is in progress.
* `Founding`: founders have a role, so that no login that begins to bootstrap after them
  sees nobody; and until two logins have been at the gate at once, the one that is there
  saw nobody only if there was no founder, and still is none.
* `Administration`: until two requests have overlapped or somebody has demoted himself under
  another spelling of his id, an administrator remains, *and*
  whoever is having a request for administrators handled still is one; it cannot demote
  itself (`KeepsOneself`), so whomever it demotes, it remains.
* `Audited`: every row and every key is backed by an operation of a recorded request
  (`RowBacked`, `KeyBacked`); `RecordedStays` says a record is not lost.
* `Bounded` is `GuessesBounded` without the types.  `BeginLogin` adds a login only while
  the failures are below the limit, and a login that is not under way is not counted;
  a failure moves one from the logins under way to the failures.

### `Startup_proofs`

    IInv == /\ TypeOK /\ Progress /\ Asked /\ Tables /\ Held /\ Merged /\ Found /\ Removed
            /\ SavedKeyServed /\ SeededKeyServed

`Progress` says, phase by phase, what the starting process is about to write; `Asked` what
a request is to write, that one at a time is for the settings, and that its address is in
their table before it is in the provider's; `Tables` that a default has an address, and
`AddressesAgree`; `Held` that, where no requests have overlapped, the row of a provider and
what a reload has read of it have the key intended for it, and a request that seals a key
again has that one in hand; `Merged` that a key seeded without a cipher is in memory, in no
row, and in what every reload has read; `Found` that no registry has a provider without a
row; and `Removed` the key in plain text.  The properties alone are not inductive, since they
speak of running processes and finished requests only; what a crash between two
transactions leaves, and the next start finds, is in these parts.  That an update of the
settings brings the addresses together whatever runs beside it is in `Asked` and
`UpsertProvider`: it makes its own provider the default with the address it has saved.

### `Conversions_proofs`: `Conversation`

    IInv == /\ Written /\ Streamed(reply, translator, accumulator)
            /\ \E m \in Nat : Assembled(reply.blocks, accumulator, m) /\ Numbered(m)

`StreamAgrees` compares two functions of a whole reply and says nothing of the translator,
so it is not inductive.  `Streamed` adds what one event leaves for the next: the tool table
knows the blocks that are calls, as many numbers as calls, and the number of the last one
(`Tabled`), and usage and finish reason are what was said of them (`Reported`).
`Assembled` says that content, reasoning and calls are those of the blocks so far, for the
message numbered m, which is the next one or, when the client has appended it, the last
reply it holds (`Numbered`).

Four things carry the argument.  An event changes just the fields that `Gathers` lists.
Only the last block of a reply gets fragments, so that it is a front and a block that grows
(`LastBlock`).  A fragment at the end of the last block of a type comes at the end of what
its type says (`SpokenAppend`), or of the arguments of the last call (`HeldGrows`), because
flattening joins a last text to what is before it.  And ascending numbers that a higher one
joins are the same sequence with the higher one appended (`AscendingAppend`).  The third is
about the recursive function in `FlattenSeq` and the fourth about a choice by rank: both are
shown by induction over the naturals with `NaturalsIn`, the existence and uniqueness of the
function included (`JoinsExist`, `JoinsUnique`).  The module sorts by rank (`Ascending`)
and selects by flattening (`Typed`) because the operators of the library that sort and
select cannot be expanded by the prover.

`RepliesAccepted` needs of the last reply the client sent back that its calls are those the
provider sent (`LastReturned`), and of each call that its arguments are JSON just if all
their fragments came (`PieceJson`).

`HistoryKept` is proved on top of `IInv` as `Accepted(payload) => Kept(payload)`.  The payload
only grows at its end (`StepAdds`), by messages that are `Fine`: they make calls and lack
content only as replies, and none of their texts is the "None" of a missing content, which
for a reply follows from `Assembled` (its fragments are those of a message numbered at least
one).  `SendsKept` says, for each role, what a message adds to the blocks that are sent,
`ConversationGrows` that the whole is what was sent before and this addition, and `KeptGrows`
puts the two together; images and results with their content are kept like texts and calls,
while a bare part makes no block (`PartBlocksKept`); a result comes after its call because the ids it may answer are those
of the calls already sent (`TypedFrom`).  All sums over a conversation are one function,
`Flat`, which joins what is made of each element; its laws are `FlatConcat`, `FlatNothing`
and `FlatEverything`.

The assumptions on `Null` say that a missing value is no number, reason, id or text, which
is true of `None`; the one on `Said` that the client writes messages of roles and parts
the model knows, and replies only by sending back what it received.

### `Conversions_proofs`: `Dashboard`

    DashInv == Logged /\ Reading /\ Charting /\ Alerting

`Logged` says what a log is: finitely many rows with ids of their own, none later than now
and none with an id that is yet to be given out.  `Reading` is what makes `PagesComplete`
inductive: ids come in order, and every row that was there when the reader began and still
is, is either read or older than the last row read, while there is more to read.  A request
that is logged meanwhile has an id above all of those; one that is deleted is not asked for;
and a page takes the newest of the rows below where it begins, so that a row it leaves out
is below its last one and the page is full (`NewestRows`, with `Foremost`, and `PageReads`).  That as many rows as
are newer come before a row, and that every place is taken, is `NewerPlaces`: the count of
newer rows is an injection into as many numbers as there are rows, and so onto them.

`StatisticsAgree` speaks of what was read statements ago, of rows that may be gone.
`Charting` keeps, for the reader of a chart, that its buckets cover its window
(`Covering`; for "all" because `CeilDiv` rounds up, `AllCovers`, for the presets by their
numbers), that nothing known when the oldest time was read is older than it, so that all of
it is in the window that was sized, and that the rows selected then are all of it unless a
clock was later; `AllExact` is its last line.  `Alerting` keeps that the counts add up to the
rows counted, each of a status that was asked for, and that every row that was in the window
throughout is among them.  `StatusOnce` compares the SQL conditions with `status_label` and
`chart_status_breakdown` case by case, a missing code included: as no row has two statuses,
no count has a row that an earlier one has, and after the third every row has had its turn.
`BucketsCount` says that the sum over buckets of the rows that fall into each is the number
of rows, provided each row falls into one of them: for a sum over any finite set, whose
recursive function exists and is unique by induction on the size of the set (`SumsUnique`).
`ChartedAll` applies it to the rows younger than the buckets cover (an age below
`count * size` is in one of `count` buckets, `BucketBelow`, and any other in none,
`BelowBucket`).

`OutcomesAssumption` says that a status code is one of HTTP, 100 to 599, or missing, and
that waits and delays are no negative numbers; `StepsAssumption` that the clock does not run
backwards and the database's is apart from it by a whole number of seconds, in either direction;
`RowsAssumption` that a page has room for a row.  The ids of rows are the database's, given
out in order.  `ConversionsConverse` and `ConversionsShow` say that the behaviours of
`MCConversions`, which TLC explores, are behaviours of the two specifications.

### What is only model-checked

Every liveness property: those the runs list, and `EndsWithinLimits`, the half of
`RetentionHolds` that says the purge catches up in the end.
Liveness under fairness and ENABLED are beyond the prover used here and stay with TLC.
Induction over data has no library theorem that the provers can use; where it is needed
(`Capacity_proofs`, `Conversions_proofs`) it is reduced to the well-foundedness of the
naturals, set by set.


## 6. What is not modelled

* `outbound.py` (address classification, DNS pinning), `pricing.py`, `sanitize.py` and
  `providers.py`: pure conversions and library calls, without state or interleaving.
* Validation and parsing of configuration and administrative input; the lists of models a
  provider offers; secret headers, save that a change of them seals the provider's key
  again; tool definitions, sampling and reasoning options, which
  the adapter passes on.
* CSRF, cookies, address parsing, session refresh and logout: their state is the external
  Auth service's.  The dashboard's retry after a refresh (`api.ts:36`) depends on its
  rotation of refresh tokens, of which the repository says nothing.
* SQL rewriting and value conversion in `database.py`, save for the time zone; averages,
  percentiles and costs, which are SQL aggregates; search filters and exports, which only
  read.
* Rendering in `src/frontend`, migrations and deployment; the constraints they declare are
  used.
* Two overlapping transactions of `Registry` that wait for each other's rows or are refused
  by the unique index; `Database` has row locks, and `Registry` is not built on it.
* Several instances of the program on one database.
