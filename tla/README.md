# A TLA+ model of the Xianyu AI service

What is specified here is the code of the repository at this commit: the model
gateway (module 11 of the architecture) that every other module will call for
its LLM requests, the routing configuration it is started from and what its
calls are estimated to cost, the database sessions, the FastAPI lifespan that
brings both up and down, and the time fields of the shared message types. Paths
below are relative to the repository root.

`tlc -config X.cfg M` checks a run, `tlapm M.tla` a module with proofs.


## 1. The system

### Components

| Component | Code | State | Operations | Model |
|---|---|---|---|---|
| Routing table and capability checks | `backend/app/modules/model_gateway/router.py`, `capabilities.py`, `schema.py`, `config/purpose_routing.yaml` | `_routing_table` | `load_routing_table`, `select`, `validate_routing_capabilities` | `Routing`, `Production` |
| Gateway startup | `model_gateway/gateway.py` (`initialize`) | `_initialized`, LiteLLM's callback lists, `os.environ` | `initialize` | `Startup` |
| `call_llm` | `model_gateway/gateway.py` (`call_llm`, `_attempt_call`), `errors.py`, `schema.py` | locals of a coroutine, kept across two awaits | one call, at most two attempts | `Gateway`, `CallContract` |
| Cost calculator | `model_gateway/cost_calculator.py` | none | `estimate_cost` | `Cost`, `Spend`, `Production` |
| Database sessions | `backend/app/db/session.py` | `_engine`, `_session_maker` | `get_engine`, `get_session_maker`, `get_session`, `dispose_engine` | `DbSession`, `UnitOfWork` |
| Application | `backend/app/main.py` | the lifespan's stage | startup, shutdown, `/health/db` (`/health` has no state) | `App` |
| Wire time | `backend/app/shared/types.py` | none | `_to_utc_datetime`, `_datetime_to_ms` | `WireTime` |
| Settings | `backend/app/config.py` | read once at import | none | a constant (`Configured`) |
| Enums | `backend/app/shared/enums.py` | none | none | `LLMPurpose` in `Production` |
| Migrations | `backend/migrations/` | the database's | one migration creating extensions | not modelled |
| Modules 1 to 10 and 12 | documents under `docs/` | no code yet | | not modelled |
| Development containers | `infra/docker/` | | | not modelled |

### How they interact

The FastAPI lifespan calls `initialize()` first and `get_engine()` second.
`initialize()` has the router read and validate the YAML and publish the table
in a module global, mirrors three settings into `os.environ`, assigns LiteLLM's
callback lists, and sets `_initialized`. `call_llm` reads the flag and the
table, synchronously, then awaits `litellm.acompletion` through
`asyncio.wait_for` once for the primary model and, if that fails, once for the
fallback. LiteLLM hands the metadata of each request to a Langfuse worker, which
reads it later. Database sessions do not touch the gateway; the health check
uses the session maker under a timeout of its own.

### Where it is hard, and what makes it correct

* **Routing.** A dozen checks that raise guard one assignment. Correct
  when the table that is published has passed all of them, and a failed load
  leaves the previous one in place. A fallback model that cannot serve its
  purpose would be met only in production, after its primary failed.
* **Startup.** The check of `_initialized` and its assignment are far apart,
  without a lock. The docstring says why that is tolerable: a racing caller
  repeats the work, and the result is the same. Correct when the flag never
  promises more than is there, whatever the other callers are doing.
* **`call_llm`.** Two awaits; a deadline for each; a caller that may cancel at
  any time, even while an expired attempt unwinds; an answer that comes after
  the deadline; exceptions told apart by the order of `except` clauses; a table
  that may be replaced between the attempts; a tag list shared with a worker
  that reads it later; a log line of what was spent that comes before the
  validation of what was bought. Correct when the caller gets the verdict its
  attempts justify, no request is sent that should not be, and every call ends.
* **Database sessions.** `dispose_engine` awaits between using the engine and
  forgetting it; `get_session` may meet an exception or a cancellation at each of
  its awaits, the rollback and the close included, and its `except` clause does
  not catch the cancellation. Correct when no caller finds a maker bound to a
  disposed engine, no engine is forgotten, no connection is lost, and each
  handler's writes end up committed or gone, as the caller was told.
* **Application.** A restarted lifespan in one process meets the flag still set,
  and an event loop other than the one the last engine was built in; requests
  and health checks share the pool and are cancelled at shutdown at any
  point. Correct when what is served has a gateway and an engine of its own
  loop, when a lifespan that is not cut short leaves nothing behind, and when what
  a health check waits for comes to an end.
* **Cost.** Pure, but what it protects is a relation: every model the router can
  publish has a price, and of the ways an estimate may depart from the bill, the tier
  above 128K tokens is warned of. (The others, `cost_calculator.py` says, are not.)
* **Wire time.** Doubles: `int(value.timestamp() * 1000)` truncates what two
  roundings may have left just below an integer.

`PROJECT.json` lists the hazards one by one, each at its line, with the
properties that watch over it.


## 2. The modules

    Routing --- Startup -+- Gateway ------ CallContract (refined by Gateway)
                         +- Spend --- Cost
                         +- App
    DbSession -----------+
        |
    UnitOfWork (refined by DbSession)          WireTime (on its own)

`Gateway`, `Spend` and `App` extend `Startup` as it is; `App` extends `DbSession`
too. `Production` holds the repository's tables. `MCStartup` (which checks `Spend` on
the tables of `Production`), `MCGateway`, `MCApp` and `MCWire` give constants their
values for TLC; `*_proofs` hold the theorems about the module they are named after.

### `Routing`: `router.py`, `capabilities.py`, `schema.RoutingEntry`

A *document* is what the file holds at the moment it is read: the first of the
early checks it fails (unreadable, not UTF-8, broken YAML, a scalar YAML cannot
construct, no mapping, no or a wrong version, no routes or no mapping of them) or,
when it passes these, its rows as parsed. A row is any record, and a number in it a
`Scalar` of the YAML type it was written in: pydantic's lax mode takes `3000`,
`3000.0`, `"3000"` and, as one, `true` alike (`IsWhole`, `IsNumber`), and
`model_validate` converts them. `RoutingEntry` is what it returns: exactly the five
fields, within their bounds. `Loadable` is the conjunction of the checks in the
code's order; `Table` is the dict it builds of converted rows; `LoadError` the class
of the exception otherwise, which for two early faults is not the router's
(`Escaping`). Left out: YAML parsing, the wording of
errors, and the lists of several problems some of them collect.

### `Production`

The tables the repository ships: `MODEL_CAPABILITIES`, `PURPOSE_REQUIREMENTS`,
and the seven rows of `purpose_routing.yaml`, temperatures in tenths.
`MCStartup` assumes, and TLC evaluates, that the shipped file is loadable, and so are
a retuned one and three whose numbers are written as a string or a boolean; thirteen
drifted ones beside them are refused by one check each, which
`TableReplacedByValid` or the type invariant would notice missing.

It also holds `MODEL_PRICES` and `_TIERED_MODELS`, in thousandths of a yuan per million
tokens: the Qwen rows as listed, DeepSeek's dollars at `USD_PER_CNY` (1/7.2).

### `Startup`: `initialize`

One action per point where another thread can see a difference:

| Action | Code |
|---|---|
| `initialize` | the test of `_initialized` |
| `load_routing_table` | reading and validating, in locals; a refused document raises |
| `publish` | `_routing_table = table` |
| `wire` | the environment and the two callback lists |
| `flag` | `_initialized = True` |

Any number of threads may do this. A call that finds the flag set returns at
once and is a stuttering step. `wire` merges the assignments to `os.environ`
and to LiteLLM's lists: nothing in the code reads one of them between the two.
`_reset_for_testing` is left out: only tests call it.

### `Gateway`: `call_llm` and `_attempt_call`

| Action | Code |
|---|---|
| `refuse` | the errors before any await: not initialized, images, and those of `select` |
| `begin` | from the entry of `call_llm` to the await of the primary |
| `succeed`, `reraise`, `fall_back`, `give_up` | what runs when a `wait_for` is over: the `except` clauses and the success path of `_attempt_call`, then those of `call_llm`, up to the next await or the end |
| `acompletion_ends` | external: the vendor replies |
| `deadline`, `unwind` | external: `wait_for` cancels the inner task and waits until it has ended, as it may, with a reply of its own |
| `cancel_pending`, `cancel_unwinding` | external: the caller's cancellation reaches the wait |
| `tick` | external: the event loop's clock |
| `report` | external: the Langfuse worker reads a request's tag list, at any time after its attempt |

`pc`, `args`, `entry`, `attempt`, `primary_error` and `tagged` are what the
coroutine keeps; `sent`, `seen`, `spend`, `traces`, `elapsed` and `verdict`
record what others see of it and what the properties speak about.

The `wait_for` of the model is that of CPython 3.11, which `pyproject.toml`
pins. It has three features a test would hardly reach: at the deadline it waits for the cancelled task, and takes the
task's result if it has one (which the docstring of the module denies: `finding_late`); a
cancellation that arrives when the result is
there is lost; and a second cancellation leaves at once, with the inner task
orphaned. `asyncio.TimeoutError` is the builtin `TimeoutError` since that
version.

Idealisations, each of them a premise of the timing properties only:

* a coroutine whose reply is there resumes before the clock ticks again;
* a cancelled `acompletion` takes at most `CancelLag` ticks to unwind. This is
  an assumption about LiteLLM, not something the code enforces.

Left out because they only pass through: messages, `response_format`, `tools`,
`max_tokens`, and the metadata other than the tag list. Latencies are logged and
not modelled.

### `CallContract`

What callers may rely on: refused up front, or the primary and then at most
once the fallback; an outage only when both were tried; every call that starts
ends. `Gateway` implements it under the mapping `stage`, `tried`, `outcome`.

### `Cost` and `Spend`: `cost_calculator.py`

`Cost` is `estimate_cost` as operators: which models are priced, placeholders, the
tier limit, the warning it logs and the amount. `Spend` sets it beside a running
`Startup`: `Routed` are the models the published table can send a call to, and
`list_price` (external) is what the vendor's price list asks, by the tier the prompt
falls into. An invoice is a third amount: the exchange rate of the day, the vendor's
rounding and prices changed since make it differ without a warning, as
`cost_calculator.py:4-8` and `28-31` say, and are not modelled.

### `DbSession`: `db/session.py`

An engine is a number, 0 is `None`, and a session maker is the engine it is bound
to. `get_engine` and `get_session_maker` run without an await, so each is part of
one step; every await of the file is a place between two steps.

| Action | Code |
|---|---|
| `get_engine`, `get_session_maker` | the two lazy singletons (parts of `open`, and of `App`'s steps) |
| `open` | `get_session_maker()` and entering `async with` |
| `execute` | external: the handler's first statement takes a connection, or waits (`HasRoom`) |
| `handler_returns`, `handler_raises` | what comes back at the `yield` |
| `committed`, `commit_raises` | `await session.commit()`; a failed commit may have taken effect on the server |
| `rolled_back`, `rollback_raises` | the `except` clause |
| `closed` | leaving `async with` |
| `cancel` | a `CancelledError` in the handler or one of the two awaits: not an `Exception`, so there is no rollback |
| `cancel_close`, `closed_late` | one that meets the shielded `close()`, which goes on without the coroutine |
| `dispose_engine`, `disposal_ends`, `disposal_fails` | up to its await; the reset of both globals; an await that raises, which keeps them |

`dispose()` gives the engine a new pool, and a connection checked out of the old one
neither counts against its limit nor comes back to it. Which pool a session of a disposed
engine has is left open: it may get a connection whatever the others hold.

### `UnitOfWork`

What `get_session` promises a handler: its writes are durable when the dependency
returns, gone when it raised or was cancelled at work, settled either way when
the commit itself was cut short, and no transaction stays open. `DbSession`
implements it under the mapping `phase`; the order of the clean-up, the
connection and the engine are not in it.

### `App`: `main.py`

| Action | Code |
|---|---|
| `boot`, `init_gateway`, `refused` | `lifespan` up to the end of `initialize()`, step by step as in `Startup`; an exception of it, or of `create_async_engine` |
| `prewarm` | `get_engine()`, and the `yield` |
| `shutdown`, `stopped` | `await dispose_engine()` |
| `dispose_raises` | the same raises or is cancelled: the globals stay |
| `broken_off` | an exception or a cancellation at the `yield`, which has no `try`/`finally`: `dispose_engine()` is not called |
| `loop_ends` | external: the event loop ends; the next lifespan has another |
| `ask` | `/health/db` up to the await of the statement |
| `connect`, `replies` | external: the pool and the database |
| `deadline`, `resume`, `answered` | `wait_for`, the two `except` clauses, closing the session |
| `interrupt` | external: the server's cancellation reaches the health check |
| `request` | any step of a use of `get_session`, or its cancellation |

The server is uvicorn, or the `TestClient` that runs several lifespans in one
process: it takes requests between startup and shutdown, and lets the lifespan end
when none is under way or after it has cancelled those that are (`doomed`: told,
but not yet resumed). `home` records the lifespan each engine was built in, `orphaned`
the engines that a lifespan broken off, or failed in its disposal, left in place: the
next lifespan of the process finds such an engine and serves from it, which is what the
properties allow it and no more.

### `WireTime`: `shared/types.py`

A time field is built from any value (`validate`), written (`dump`) and read again
(`read`), once per hop. `Lossy` is when `int(value.timestamp() * 1000)` falls one
millisecond short. For an instant of whole milliseconds, `timestamp()` rounds
sec + ms/1000 to a multiple of the spacing of doubles there, p / 2^52 for seconds in
[p, 2p); the product by 1000 is rounded in its turn, to a multiple of 512 p / 2^52
below 1024 p and of 1024 p / 2^52 above. What the first rounding dropped, at most
500 p / 2^52 after the multiplication, comes back unless it is more than half the
second spacing: never above the doubling, and below it when more than 256 is
missing. `BelowDoubling` and `Dropped` compute this with residues alone, so that no
number leaves TLC's 32 bits.


## 3. What is model-checked

| Run | Instance | States | Shows |
|---|---|---|---|
| `startup` | two threads, the shipped tables, bounds and prices, twenty-seven documents, twelve pairs of token counts | 3 328 | `InitializedMeansReady`, `TableReplacedByValid`, `StartupTypeOK`, `RoutedModelsArePriced`, `TierGapIsFlagged` |
| `gateway` | one call, two threads, two purposes, three documents, `CancelLag` 1 | about 2.1 million | the nine invariants of `Gateway`, and `CancelStopsCall` |
| `gateway_live` | one call, one thread, two documents, `CancelLag` 1 | about 61 500 | `EveryCallEnds`, and `ImplementsContract` with its liveness |
| `db_sessions` | two sessions, one disposer, one connection | 8 081 | the four invariants of `DbSession`, and `KeepsPromise` with its liveness |
| `app` | two lifespans, one handler, one health check, one connection | 132 199 | the six invariants of `App`, `TableIsFinal` and `ProbeDecided` |
| `wire` | every kind of value, nine seconds of every millisecond, seven hops | 295 506 | the three invariants of `WireTime`, and `DriftSettles` |
| `finding_*` | one call or one thread with `CancelLag` 0; the stamps of `wire` over one hop | | see section 5 |

The properties, in words:

* **`InitializedMeansReady`**: with the flag up there is a complete, validated
  table, the environment is set and a callback is registered, even while other
  callers fail or start again.
* **`TableReplacedByValid`**: the table only ever changes to one that passed
  every check.
* **`NoInternalRefusal`**: `RoutingConfigError` and `KeyError` of `select()` never
  leave `call_llm`.
* **`RequestsAreCapable`**: no model of either slot is sent a purpose it cannot
  serve.
* **`RequestsFollowOneRow`**: both attempts use the row read at the start, and
  the caller's temperature, 0.0 included, though another table is published
  during the first.
* **`FallbackOnlyAfterFailure`**: at most two requests; the second never after an
  answer, a 401 or a cancellation.
* **`VerdictMatchesAttempts`**: the caller gets what its last attempt came to, an
  outage, exactly when both models failed, with the error of the primary. What an
  attempt comes to is what `wait_for` returns or raises; that it should never return an
  answer after its deadline is the property of `finding_late`.
* **`SpendFollowsVerdict`**: an answer has the success line of its attempt, and no
  attempt is logged twice. Every other line is of an attempt whose completion came
  and was refused by `LLMResponse` after the line was written; that one was billed too,
  so a call whose primary was refused and whose fallback answered has two lines, rightly.
* **`WithinTwoBudgets`**: two budgets of the row and two unwindings, whatever
  the vendor does.
* **`TracesTagged`**: a trace is marked as a fallback exactly when it is one, also
  when it is reported after the fallback has begun.
* **`CancelStopsCall`**: once a cancellation has reached the wait, nothing more is
  sent and the call ends with `CancelledError`.
* **`EveryCallEnds`**: though the vendor may never answer.
* **`RoutedModelsArePriced`**: no call of a published table is logged as free.
* **`TierGapIsFlagged`**: an estimate is the list price, or less and then with the
  warning: from the token after the tier limit on, and not before. (Of the other reasons
  why a bill may differ this says nothing; see section 6.)
* **`MakerIsUsable`**: whatever runs during the await of `dispose_engine`, a maker in
  place is bound to the engine in place, and that one is not disposed of.
* **`NoEngineForgotten`**: with one task disposing at a time, each engine built is in
  place or disposed of, though a disposal may fail and be repeated. (Two
  overlapping calls can forget one; nothing in the code makes two.)
* **`NoConnectionLeaks`**: a transaction is open only while its session holds its
  connection, and a connection is held only by a coroutine or by a `close()`.
* **`KeepsPromise`**: `get_session` implements `UnitOfWork`.
* **`ServingIsReady`**, **`OneEnginePerLifespan`**, **`EnginesStayHome`**: in every
  lifespan of a process, what is served has a ready gateway and the one engine of
  its own event loop, or the one that a lifespan could not dispose of.
* **`NothingLeftBehind`**: between lifespans no connection, and no engine and no maker
  but those of a lifespan that was broken off or failed in its disposal.
* **`OnlyCancelledStrand`**: a connection outlives its engine's disposal only with a
  request whose cancellation is under way, and that one still has its `close()`.
* **`TableIsFinal`**: once up, the table of a process never changes; a second
  lifespan does not reread the YAML.
* **`ProbeDecided`**: what a health check awaits under `wait_for` comes to an end though
  handlers keep every connection and the database never answers, and one cut off by its
  deadline is to be a 503. That its answer then leaves needs `close()` to end, which
  nothing in the code bounds, and is not claimed.
* **`ExactInEra`**: from 3 November 2004 (1.024 * 2^30 s) to 2038 a stamp keeps its
  milliseconds over any number of hops.
* **`DriftIsBounded`**: earlier stamps drift towards the epoch, by five milliseconds at
  most and never out of their second.
* **`DriftSettles`**: after six hops a stamp is carried over every further one as it is.

Each has a mutant of a mapped definition, a bug someone could write (the flag
set first, a bound or a check dropped, `except BaseException`, a
check of the flag left out, a shared tag list, a second `select()`, an attempt awaited without `wait_for`,
the last error reported as the primary's, an engine rebuilt, a maker not reset, a rollback that swallows its exception, a
`close()` without a shield, an engine not prewarmed, a lifespan that does not dispose,
`execute()` awaited bare, `>=` for `>` at the tier, seconds truncated before they are
multiplied, half a millisecond taken off before `int()`), under which TLC finds it violated.

### Bounds, and why they are enough

* **One call.** Calls share the table and the flag and nothing else, and never
  write either; `Call` is a set in the model and in the proofs.
* **Two threads.** The races are between one caller that is inside
  `initialize()` and one that completes it; either may come back and start
  again after a failure. `Thread` is symmetric and a permutation does not change
  any property; the liveness run uses one thread and no symmetry.
* **Two purposes**, one that needs vision, and **three documents**: two loadable
  ones that differ in every field, and one whose fallback lacks vision.
* **Time.** Budgets of 1 and 2 ticks, `CancelLag` 0 or 1: enough for a reply
  before, at and after the deadline, in either attempt. The clock has no bound of
  its own: a call can only tick while it waits.
* **`Override = {0}`**: the value that is falsy in Python, against defaults of 1 and 2.
* **One connection** (`PoolLimit` 1, for the code's 10 + 20): what matters of the pool is
  whether it is exhausted, and with one connection every other user meets that.
* **Two sessions** in `db_sessions` share the singletons and the pool; a third shares
  nothing else. **One handler and one health check** in `app` are already two
  users of one connection; a second of either makes millions of states and no
  new pair. **Two lifespans**: the second is the one that meets what the first
  left, and a third meets the same.
* **Engines** have no bound: a new one is only built for a session or a lifespan, and
  these are bounded.
* **Seven hops** in `wire`: one cuts off what is below the millisecond, five may lose one
  each, and the seventh shows that it is over. For more hops there is `DriftEnds`. The nine
  seconds are spread over the binades below and above the start of the era, on
  both sides of the epoch. Seconds stay below 2^31 (2038).
* **Routing bounds.** In `startup` they are the code's own (100 to 60000 ms, 0 to
  5 retries, temperature up to 10 tenths), with rows at and just beyond them.

Deadlock is checked in every run: `Next` has a stuttering disjunct only for
the state where all callers have returned and all calls have ended.

### Fairness

`Spec` assumes `WF_vars(Progress(c))` for each call: its clock moves on, a deadline
that has passed fires, a cancelled task unwinds, and a coroutine whose await is
over is resumed. That is what asyncio's loop does as long as it runs. Nothing is
assumed of the vendor (`acompletion_ends`), of the caller (`begin`,
`cancel_*`), of the Langfuse worker, or of the threads in `initialize()`. In
`CallContract` the fairness is of `Advance` as a whole.

`DbSpec` assumes `WF(CleanUp(s))` for each session: a commit, rollback or close that was
asked for comes to an end, well or badly. Nothing is assumed of handlers, which
may never return. `AppSpec` assumes `WF(ProbeProgress(p))` for each health check: its
deadline fires, a cancelled statement unwinds, and what is ready is resumed.
Nothing is assumed of the database's replies otherwise, of the pool or of the
handlers, nor of the `close()` of a health check: `wait_for` covers the statement and
not the close (see the hazards).


## 4. What is proved

Every safety property of section 3 is a theorem: for any set of calls, threads, sessions and health checks, any purposes,
models, capabilities, prices and documents, any bounds. The assumptions are
evaluated by TLC in every run that uses them:

* `RoutingAssumption`: the bounds are naturals, the least timeout is positive, and
  `None` is no table.
* `GatewayAssumption`: `CancelLag` is a natural, and `None` is no override, reply or
  verdict.
* `CostAssumption`: prices and the tier limit are naturals.
* `PoolAssumption`, `AppAssumption`: the limits are naturals, and a health check is no
  use of `get_session`.
* `WireAssumption`: fields are built from `AnyValue`; `None` and `Beyond` are no instants.

Some theorems have hypotheses of their own, stated in them:

* `ModelsAreCharged` and `TierGapCarriesWarning`: the price table covers the capability table
  (`PricesAlign`, what `test_model_capabilities_and_prices_keys_align` asserts of the
  shipped ones). The second also takes the vendors' price lists to be what
  `cost_calculator.py` recorded of them on 2026-04-23 (`ListsAsVerified`: a tiered model at
  the code's rate up to the limit and dearer beyond, a flat one at the code's rate) and
  token counts to be naturals. It is about price lists, not about invoices.
  `MCStartup` has TLC evaluate these for the shipped tables.
* `RacesAreIdempotent`: the file stays as it is between the reads of racing callers.
* `NoEngineIsForgotten`: one disposer. `FirstTableStays`: one caller of `initialize()`.
  Both are what `main.py` does, and `App` has no other.

| Theorem | Says |
|---|---|
| `StartupTypes`, `StartupReady`, `ReplacedByValid` | the types and the three properties of `Startup` |
| `RacesAreIdempotent` | with an unchanged file no race replaces a published table |
| `GatewayTypes` | `GatewayTypeOK` |
| `NoInternalErrors`, `CapableRequests`, `OneRowPerCall`, `FallbackJustified`, `VerdictIsEarned`, `SpendIsAccounted`, `TwoBudgets`, `TracesAreTagged`, `CancelIsFinal` | the properties of `Gateway` |
| `KeepsContract`, `GatewayRunsStartup` | `SafeSpec => Contract!SafeSpec`; `SafeSpec => StartupSpec` |
| `ModelsAreCharged`, `TierGapCarriesWarning` | `RoutedModelsArePriced`; `TierGapIsFlagged` |
| `DbTypes`, `NoMakerOutlivesItsEngine`, `NoEngineIsForgotten`, `ConnectionsAreOwned` | the invariants of `DbSession` |
| `SessionIsUnitOfWork` | `DbSafeSpec => Promise!SafeSpec` |
| `HandlersAreToldTheTruth` | what `get_session` returned from is durable, what it discarded was reported as a failure, and settled work stays settled |
| `AppTypes`, `ReadyBeforeServing`, `OneEngineBuilt`, `EnginesBelong`, `LifespansAreClean`, `OnlyTheCancelledStrand`, `FirstTableStays` | the safety properties of `App` |
| `LifespanRunsStartup` | `AppSafeSpec => StartupSpec`, and with it all theorems of `Startup` |
| `DatabaseIsSoundUnderLifespan` | `MakerIsUsable`, `NoEngineForgotten` and `NoConnectionLeaks` under the lifespan |
| `RequestsAreUnitsOfWork` | `AppSafeSpec => Promise!SafeSpec`: the safety of `UnitOfWork` under the lifespan |
| `WireTypes`, `EraIsExact`, `DriftIsSmall`, `DriftEnds` | `WireTypeOK`, `ExactInEra`, `DriftIsBounded`, `DriftSettles` |

**`Startup_proofs`.** `InitializedMeansReady` is not inductive: it does not say
that what a thread has done so far stays done until it sets the flag.
`StartupInv` adds `Secured(t)`, what holds of the shared state at each place of a
thread inside `initialize()`: a validated table in hand at `publish`; a valid
table published from `wire` on; environment and callback set at `flag`. It is
stable because every step of another thread replaces a valid table by a valid
one and the other two by themselves. This is the docstring's argument, "the
work is idempotent", made precise. `RacesAreIdempotent` is the same for its literal
sense: every table in flight comes from the one file, so `publish` replaces a table by
itself.

**`Gateway_proofs`.** `TypeInv` is `StartupInv` with the types of the call's
variables and `Engaged`: a call that waits has its arguments and its row. On it
rest five invariants, each a predicate of one call:

* `Budget`: what has elapsed is paid for by the attempts that are over and by the
  age of the one in progress (`Used <= Allowed`);
* `Requested`: the requests sent so far are those of the row kept in `entry`, which
  serves the purpose; whether the table has changed since does not matter;
* `History`: how `sent`, `seen` and `primary_error` relate at each stage, and
  what they justify in the verdict;
* `Tagged`: the list of a slot holds the tag only if the slot is the fallback and
  it has been sent. That the base list never does is what lets a late report of
  the primary be right;
* `Spent`: while the fallback waits there is at most one success line, the primary's, and
  only if its completion was refused; at the end the lines are of distinct attempts
  (`LinesDiffer`), each refused or the answer.

The steps are not taken one action at a time in each proof. `StepsOfCall` reduces
a step of one call to the seven effects it can have (begin, refuse, end, fall back,
cancel while unwinding, wait, report), and `OtherCalls` says that the rest keep
theirs; the invariants are then proved preserved by effect. The refinement maps
`begin`, `refuse`, `fall_back` and the ends to the contract's actions and the rest
to stuttering, by `History`, which says which slots have been tried.
`GatewayRunsStartup` needs no invariant: no action of a call has a variable of the
startup in its effect.

**`DbSession_proofs`.** `MakerIsUsable` is inductive with the types: the one step that
could break it, the reset after the await, clears both globals at once, and a
disposal that is late resets a newer pair as well. `NoConnectionLeaks` needs
`Sound(s)`, which adds that only a finished coroutine has a lingering `close()`.
`Kept` strengthens `NoEngineForgotten`: what a disposer is waiting for is the engine
in place, which holds only while there is no second disposer to reset the globals
behind its back. The refinement takes the steps of a session one at a time; a
rollback, and a close that ends no transaction, are stutters of the unit of work.
`HandlersAreToldTheTruth` is then proved of `UnitOfWork` alone, by `PromiseInv`, and
comes down to `get_session` through the refinement.

**`Spend_proofs`.** That a published table names only models with listed capabilities
follows from `StartupInv`; the rest is arithmetic on naturals. For `TierGapCarriesWarning`
the tier a prompt falls into must exist: it is the least index with room for it
(`LeastIndex`, by the well-foundedness of `<`). That tier has the code's rate where there is
no warning and dearer input tokens where there is one (`PricedByTier`), and a prompt
beyond the limit is not empty, so the comparison is strict.

**`App_proofs`.** `AppInv` puts `StartupInv` and `DbInv` under the lifespan. `Lifecycle` says
what each stage has: outside `serving` and `stopping` no engine but an orphaned one, one
disposal, and only in `stopping`. So the one engine of a lifespan is built by `prewarm`
(`PrewarmBuildsInv`) or found by it (`PrewarmFindsInv`), and what first callers of
`get_session_maker` need is always there (`ServingBuildsNothing`). `Homes` keeps the
lifespans of the engines apart; a lifespan that breaks adds its engine to the orphaned ones
in the step that leaves it (`BreakInv`).
`SessionFate` and `ProbeFate` follow a request: while its lifespan is up it
has the engine in place, and from `shutdown` on it is about to be cancelled,
is being cancelled, or has its reply. With these, nothing can outlive the loop.
The composition then keeps what its parts promise. A step of the lifespan is one of
`initialize()` or none (`GatewayMoves`). `NoEngineForgotten`, which on its own needs the
hypothesis of one disposer, needs none here: `Lifecycle` has it. A step of a handler
is one of `DbSession` and refines `UnitOfWork` as there, since the lifespan and the
health checks leave the session's variables alone.

**`WireTime_proofs`.** `EraIsLossless` is the argument above at the doubling: from
1.024 * 2^30 seconds on, until 2^31, the product is above it.

Before the era a stamp goes down one millisecond per lossy hop, within its second: a
whole second is a double and loses nothing. How long
that goes on is a question about residues. In a binade, `Dropped` moves by a fixed
stride round a circle of 1000 from one millisecond to the next (`DroppedIsRound`), and
`Strides` evaluates the strides of all the binades: each is from 49 to 951. A lossy
residue lies within an arc of less than 250, and no such stride, either way round,
stays there for six in a row (`NoSixInARow`). So no six consecutive milliseconds are
lossy (`RunsAreShort`).

The bound alone is not inductive. `Carried(g, x, n)`, part of `WireInv`, says of the
instant `g` that was given and the stamp `x` after `n` hops that every millisecond
between them is lossy, and that `x` is not lossy itself unless each hop but the first
has lost one. With `RunsAreShort` the distance is then at most five, and after six hops
`x` is at rest. `ExactInEra` is the case that nothing in the era is lossy.

Only model-checked: the temporal properties under fairness (`EveryCallEnds`,
`ProbeDecided`, and the liveness of `ImplementsContract` and `KeepsPromise`), which
are beyond the prover; that the shipped YAML loads and that the shipped prices meet the
hypotheses on them, which are evaluations; and the findings.


## 5. Where the documents and the code disagree

Each is a run whose one property states what a document or a comment says, and
which TLC refutes with a behaviour of the code.

| Run | Said | Done |
|---|---|---|
| `finding_budget` | `schema.py:90`: `timeout_ms` is the total for one `call_llm`, "NOT per-attempt" (the YAML header says per attempt) | each of the two attempts gets all of it |
| `finding_late` | `gateway.py:21-22`: "On `wait_for` cancellation the attempt is over: no cost record, no partial `LLMResponse`" | on 3.11 a task that still delivers its completion after the deadline has cancelled it is a success: the cost is logged and the answer returned |
| `finding_auth` | `docs/modules/module_11.md:127-129`: on a 401, alert and degrade to the fallback model | the 401 is re-raised, as `gateway.py:25` intends |
| `finding_denied` | `gateway.py:25`: 401 and 403 are not failed over | a 403 is `PermissionDeniedError`, which is failed over |
| `finding_utf8` | `router.py:18`: any failure raises `RoutingConfigError` | a file that is not UTF-8 raises `UnicodeDecodeError`, one with the date 2026-02-30 a `ValueError` |
| `finding_wire` | `shared/types.py:16-17`: datetimes serialize to integer milliseconds since the epoch | `int()` truncates a double: 1970-01-01T00:00:01.001Z is dumped as 1000, and 1970-01-01T00:02:08.004Z as 128003 and, read and dumped again, as 128002 (exact from 3 November 2004 to 2038) |

The findings state facts about different statements of the repository; the first
three may well be resolved by correcting the document.

One more has no run. `gateway.py:184` and `228-230` say that `LLMTimeoutError` means an
expired budget and that a socket's `TimeoutError` is not caught with it; on 3.11 the two
are one class, and the reply `socket_timeout` of `Gateway` becomes `LLMTimeoutError` before
any deadline. Only the label differs: the fallback is tried either way.


## 6. Not modelled

* `_reset_for_testing` of the router and of the gateway: tests only.
* `Settings`: declarative. That only the `LANGFUSE_*` values reach `os.environ`, and a
  vendor key in `.env` alone does not, is a hazard on the other side of LiteLLM.
* Migrations, containers, and the modules that exist as documents only.
* Logging, other than the lines and warnings that carry a cost.
* `Decimal`'s 28 digits in `estimate_cost`: amounts are whole numbers of a small unit.
* What makes an invoice differ from its price list: the exchange rate of the day, the
  vendor's rounding, prices changed since they were recorded. `cost_calculator.py` gives
  them no warning, and there is nothing in the code to model.
* A row whose `temperature` is not a finite number (`.nan`, `.inf`): its bounds are tests
  on numbers here. Temperatures finer than a tenth are not among the documents either.
* FastAPI sends a response before or after `get_session`'s commit depending on its
  version; no route uses `get_session` at this commit, so `DbSession` ends where the
  dependency does.
* What happens to an engine used on another loop than its own: the model says when it can
  come to that (`orphaned`), not what the driver then does.
* `get_engine` from several threads: the application calls it from the event loop only,
  and without an await inside it two coroutines cannot be in it at once.
* Pool internals (recycling, pre-ping, the pool's own timeout): a waiter waits.
* `OverflowError` and `OSError` of far-away times are modelled, but no document says what
  a consumer may expect of them.
* The other enums and the record shapes of `shared/`: declarations without behaviour.


## 7. What remains

1. When a route uses `get_session`: the handler's response and its commit, in `App`.
2. When modules 1 to 10 exist: their use of `call_llm`, above `CallContract`.
