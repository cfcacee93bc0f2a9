# TLA+ models of asyncio-otlp-client

asyncio-otlp-client exports OpenTelemetry metrics, logs and traces over
OTLP/HTTP and OTLP/gRPC from an asyncio program. This directory holds TLA+
models of its behaviour, the TLC configurations that check them on small
instances, and proofs about them that TLAPS checks for every size. Paths below
are relative to `src/src/otlp_client/` unless they say otherwise.

## 1. Inventory

| Component | State | Operations | Interacts with |
|---|---|---|---|
| `BatchProcessor` (`processor.py`) | three bounded queues, five counters, `_wake`, `flushed`, `_closed`, `_task`, `_lock` | `submit_*`, `flush`, `_run` (background task), `__aenter__`, `__aexit__` | awaits `OTLPClient.export_*` under its lock; application tasks call it and may be cancelled in it |
| `OTLPClient._export` (`client.py`) | per export: `reauthed`; shared: transport, provider | `export_*`, `create`, `aclose` | credential provider, transport, retry loop |
| Retry engine (`retry.py`) | per export: `started`, `attempt` | `with_retry`, `parse_retry_after` | clock, sleep, the attempt it is given |
| Credential providers (`credentials.py`) | `OAuth2ClientCredentials`: `_token`, `_expires_at`, `_lock`, session | `headers`, `invalidate`, `_refresh`, `aclose`; `BearerToken` and `BasicAuth` keep no state | token endpoint; shared by concurrent exports and by several clients |
| Transports (`transport/http.py`, `transport/grpc.py`) | a session or channel | `create`, `send`, `aclose` | collector, encoder |
| Configuration (`config.py`) | none (frozen dataclass) | `__post_init__`, `from_env`, `endpoint_for`, `headers_for`, `timeout_for`, `compression_for` | environment |
| Encoders (`encoding/`) | none | `encode`, `decode_response` | data model |
| Data model (`model/`, `signals.py`, `outcomes.py`, `errors.py`) | none | constructors, builders (`gauge`, `sum_`, `log_record`, `span`, `span_flags`, `data_point_flags`) | all |

What is hard, and what makes each part correct:

- **Batch processor.** Everything shares one event loop but suspends inside
  `flush()`: submissions, other flushes, the timer, cancellations and the
  shutdown interleave with an export. Correct means: every submitted record is
  in exactly one account at all times; a flush that returns has settled what was
  submitted before it began; a full batch always has a wakeup coming; the lock
  is handed on whoever is cancelled; after the shutdown nothing is left.
- **Client and retry loop.** Correct means: an export ends, in bounded time;
  retries stay in their budget and never come earlier than the collector asks;
  re-authentication happens once per export; failures are the documented ones.
- **Token cache.** Correct means: one request to the token endpoint at a time
  and none without need; no request carries a dropped token; a failed or
  cancelled mint leaves the lock free and the cache as it was; whatever the
  endpoint answers, and whenever the provider is closed, the failure is the
  documented one; credentials read as they were given.
- **Transports and configuration.** Four protocols' worth of rules meet in one
  request. Correct means: a signal is sent with its most specific settings;
  nothing goes out in plaintext unasked; HTTP and gRPC give an answer of the same
  meaning the same outcome; a hint when to retry is a delay one can sleep; a
  session that belongs to others is never closed.
- **Processor over client.** Two locks nest, a cancellation of a flush is raised
  somewhere in the client, and an answer may be lost after the collector took a
  request. Correct means: what counts as exported did arrive; what was
  acknowledged is final; the client keeps what the processor assumes of it.
- **Encoders and data model.** Presence of fields differs between Python's truth, JSON and
  protobuf. Correct means: a collector reads the same message from either
  encoding, a measured zero is still there, and no default replaces what the
  application said.

## 2. Modules

- `Asyncio` - the part of asyncio the code relies on: one task runs at a time
  and gives the loop away only where it suspends (`running`, `Goto`,
  `Suspend`), `Task.cancel` (`cancelled`, `Interrupted`), and `asyncio.Lock`
  with its queue of waiters, its hand-over to the first of them and its fast
  path (`LockIsFree`, `WakeFirst`, `Release`, `LeaveWaiters`). Not code of the
  repository; modelled from its use.
- `BatchProcessor` - `processor.py`. Variables carry the names of the
  attributes; `pc`, `at` and `batch` are where each task is in `flush()`, the
  kind it has reached and the records it has drained. One action per stretch of
  code between two suspensions: `Submit` (`_submit`), `Acquire`/`Granted` (the
  lock), `DrainNext`, `ExportSucceeds`/`ExportPartial`/`ExportFails`/
  `CancelledInExport` (the four ways an export ends), `LeaveFlush`, the loop of
  `_run` (`BgTop`, `BgWakes`, `BgCancelled`), `Aenter`, `Aexit`, `JoinReturns`.
  A record is the number of its submission. `refused`, `lost`, `lastLoss`,
  `mark` and `watch` are history variables: they record what happened and guard
  nothing but `SubmitAndWait`, one consumer of the `flushed` event.
- `DeliveryLedger` - what a processor owes its records: accepted while it is
  open, queued, sent at most once in the one batch under way, then answered or
  lost for good. `BatchProcessor` implements it with `Fate` as the mapping.
- `OAuth2Provider` - the steps of `OAuth2ClientCredentials.headers`,
  `invalidate`, `_refresh` and `aclose`. A token is the number of the mint that
  made it; an answer of the endpoint is its status, whether its body has an
  access token, and `expires_in`, which `Refreshed` reads in the order of the
  code. `session` is none yet, given, the provider's own, or its own and closed.
- `Credentials` - how a provider presents what it was made of: the headers of
  `BearerToken` and `BasicAuth`, `_form` and `_auth_header` of
  `OAuth2ClientCredentials`, and, for comparison, how a server reads them. A text
  is a sequence of symbols so that quoting and the first colon can be told.
- `ExportClient` - `_export` and `with_retry` over `OAuth2Provider`: the call of
  the provider, the request, the one re-authentication, the backoff, and a
  discrete clock. A coroutine's locals are reset when it ends. The application
  may cancel an export anywhere and close the provider under it.
- `ExportPipeline` - instances of `BatchProcessor` and `ExportClient` joined where
  `flush()` awaits `_export`, the other clients that share the provider, and a
  collector. `StartExport` is `DrainNext` and `BeginExport` in one step and
  `ReturnToFlush` hands the result back, because neither suspends;
  `PassOnCancellation` makes a cancellation of the flush one of the export.
  `RequestAccepted`, `RequestRejected` and `RequestUnanswered` say what the
  collector has taken, which after a lost answer may be either. The processor's
  tasks and the other clients begin export after export.
- `WireFormat` - the OTLP schema, the constructors of generated protobuf classes
  and a reader of OTLP/JSON. Not code of the repository. A message is the
  function from its present fields to their values, which makes equality of two
  messages include presence.
- `Encoding` - `encoding/json.py`, `encoding/primitives.py` and
  `encoding/protobuf.py` side by side, one operator per function of the source:
  `Encode` gives an envelope to both encoders. Recursive, so model-checked only.
- `DataModel` - `model/*.py`: `NewX` is the constructor of class `X` with its
  defaults, the other operators are the builders.
- `ExportCalls` - `export_metrics`, `export_logs`, `export_traces` and
  `export_resource_*` of `client.py` between `DataModel` and `Encoding`: a call
  holds what a builder was told, the resource and scope of the call and those of
  the client.
- `Config` - `config.py` as operators: `FromEnv` with its parsers, `PostInit`,
  and the `*_for` methods.
- `Transports` - a transport from the environment and a credential provider to
  the outcome of a call.
  `ReadEnvironment`, `Adjust` and `Create` make a configuration and a transport
  of it; `Send`, `Compressed`, `HttpAnswer`, `GrpcAnswer`, `HttpFails`,
  `HeadersRefused` and `Aclose` are one call over it, with the decoders of an
  answer (`DecodeJson`, `DecodeProtobuf`) and the readers of a retry hint
  (`ParseRetryAfter`, `Pushback`). Its outcomes are the answers that
  `ExportClient` takes as inputs. A float of the code (a timeout, a delay, both
  in seconds) is an integer of thousandths, so that `Float` and `DividedBy1000`
  are two conversions: environment and gRPC trailer speak of milliseconds, the
  Retry-After header of seconds.
- `MCBatchProcessor`, `MCExportClient`, `MCExportPipeline`, `MCEncoding`,
  `MCTransports` - definitions for TLC.
- `AsyncioProofs`, `BatchProcessorProofs`, `BatchProcessorFlushProofs`,
  `BatchProcessorLedgerProofs`, `ExportClientProofs`, `ExportClientBoundProofs`,
  `ExportPipelineProofs`, `TransportsProofs` - theorems and their proofs (section
  4).

The definitions whose comment begins with "Mutant" are broken variants of the
definition that follows them. No specification uses them; each documents a bug
that one of the properties finds.

## 3. Runs

| Run | Configuration | What it shows |
|---|---|---|
| `processor` | `MCBatchProcessor.cfg` | `TypeOK`, `Accounting`, `LostOnce`, `OneFlushAtATime`, `NoLostWakeup`, `ShutdownIsFinal`, `FlushSettles` and the refinement of `DeliveryLedger` |
| `processor_live` | `MCBatchProcessorLive.cfg` | `NoRecordIsStuck`, `FlushReturns`, `ShutdownEnds` |
| `client` | `MCExportClient.cfg` | `TypeOK`, `SingleFlight`, `NoRedundantMint`, `NoEmptyToken`, `RaisesAsDocumented`, `FreshTokenAfterRejection`, `RetriesInBudget`, `HonoursRetryAfter`, `ExportIsBounded`, and of its steps `OneReauth` and `CachesWholeAnswers` |
| `pipeline` | `MCExportPipeline.cfg` | `AnsweredWasTaken`, `AcknowledgedIsFinal`, `ClientKeepsPromises` (seven invariants of `ExportClient`, here with exports that begin again and again) |
| `pipeline_live` | `MCExportPipelineLive.cfg` | `ExportsEndAsAssumed`, `OthersEnd` |
| `shutdown_order`, `flushed_event` | `MCBP_*.cfg` | two statements of the documentation the processor does not keep |
| `overflow` | `MCEC_RaisesOTLPErrors.cfg` | a statement about the failures of `export_*` that does not hold |
| `encoding` | `MCEncoding.cfg` | `EncodersAgree`, `OmitsEmptyParts`, `MeasurementsSurvive`, `EnvelopeOfTheCall`, `ToldIsReceived` |
| `non_finite` | `MCEN_SameMessage.cfg` | that `EncodersAgree` does not extend to NaN and the infinities |
| `transport` | `MCTransports.cfg` | `TypeOK`, `MostSpecificSetting`, `CredentialsReadAsGiven`, `PlaintextOnlyOnRequest`, `ReportsRejections`, `TransportsAgree`, `TimesAreUsable` (`PositiveTimeout` and `RetryDelayIsUsable`), `RaisesOnlyAsExplained` |
| `decode_overflow` | `MCTR_DecodingNeverRaises.cfg` | that an infinite rejected count is not tolerated |

### Bounds

`processor`: two callers of `flush()`, the background task and the closing task
are four tasks over one lock, enough for a holder, a woken waiter, a waiter
behind it and a cancellation of any of them. Three records over two of the three
queues with room for two each give overflow by a single call and by several, a
batch of two and a batch of one; the two queues make a flush pass one queue
while records arrive in it. A partial success rejects up to two records, more
than a batch of one holds. Behaviours are cut by `MaxRecords` alone: tasks flush
and are cancelled without limit.

`processor_live` has one caller, two records, room for two and a `MaxBatch` of
three, which no queue reaches: nothing but the timer drives the loop, alone or
with the caller's flush and the shutdown. Loops that the size trigger drives are
in `processor`, as `NoLostWakeup`, and, with a `MaxBatch` of one, in
`pipeline_live`.

`client`: two exports that may begin one tick apart. `MaxElapsed` 2 against
hints of 1 and 3 gives delays that fit the budget, exactly and not at all;
requests and mints take up to one tick; lifetimes of a token are negative or
three ticks with a skew of one, so that a token may be unusable at once, used
and expire during an export. `OverflowAt` stands for 1751, the first power of
1.5 a float cannot hold; with 1 the second retry already overflows, which keeps
the instance small and ends every behaviour. The endpoint answers in each way
`_refresh` tells apart, except with an integer no float can hold: that answer,
for which `headers()` raises `OverflowError` and which `RaisesAsDocumented`
excepts, is in `pipeline_live`. The provider creates its own session, so that closing
it matters. The violation runs use one task.

`pipeline`: two records one after the other, the background task, the shutdown,
and another client that exports again and again until `MaxMinted` (2) tokens have
been issued. So an export follows another of the same task, over a token kept,
rejected or expired meanwhile, and beside an export of the other client. Of the
hints 1 and 2 one fits the budget of 1 exactly and one does not; a request takes
up to one tick, a mint and a backoff without a hint take none (`client` has them
take time). The queues and the callers of `flush()` are in `processor`, the
answers of the token endpoint in `client`: here it issues tokens or fails to
answer. The provider was given its session.

`pipeline_live`: one record and one export of the other client, with every way in
which `headers()` can end. Liveness is why the instance is small. A closed
processor with nothing under way may stop, so deadlock is checked in neither.

`encoding`: the encoders look at one attribute of an object at a time, so every
object is tried at its defaults and with any two attributes altered, in envelopes
with no, one and two groups; a nested attribute value has depth two. `MaxU32`
1023 and `MaxU64` 2047 stand for the unsigned ranges: what matters is a number
inside, one that fits the wider field only, and one that fits none, and that the
flags of a span fit. A call of `export_*` has no item, one, or two with different
names in either order, of which `EnvelopeOfTheCall` reads the names. The arguments a builder has a default for are tried set,
empty or zero, and left out, and for one item of each signal every choice of resource and scope
is tried, empty ones included.

`transport`: `Varied` alters one setting of the environment at a time, in general
and for one signal together, over every reading a value can have (unset, empty,
garbage, NaN, negative, zero); protocol, endpoint, `insecure` and the signal's
endpoint, which choose the channel, vary together. Answers are every status and
code that is told apart, each with every hint. There is a provider of each kind,
whose secrets hold each symbol that quoting treats differently, and an
`extra_params` that tries to replace one, and one with a token no header may
hold. Rejected counts and dates are what a collector may send, the infinite and the
out of range included; the violation runs have the answers their one property is
about. Timeouts and budgets of NaN pass
`__post_init__`, since NaN is not `<= 0`, and `PositiveTimeout` admits them.

In `encoding` and `transport` a behaviour ends with its one call, so deadlock is not checked.
Neither has a clock: `ExportClient` has it.

### Fairness

`BatchProcessor!Fairness` assumes of the background task, of the joining task
and of every task inside `flush()` that a step that is ready again and again is
taken (strong fairness): asyncio's ready queue is first come first served, but
another task may hold the loop in between. It also assumes that an export ends.
Nothing is assumed of the application.

`ExportPipeline!Fairness` assumes the same of every task, between the steps of an
export too, but of an export only that each of its steps is taken, and that the
clock moves on; requests end by their deadlines because the transport and the
session have timeouts. `ExportsEndAsAssumed` is `BatchProcessor!Fairness` itself,
checked as a property: the client discharges what `processor_live` takes for
granted.

### What the violation runs show

1. `shutdown_order`: `__aexit__` cancels the background task (line 231) before
   the final flush (line 242); its docstring has the opposite order. The batch in
   flight is counted as dropped.
2. `flushed_event`: a flush under way when a consumer clears `flushed` and
   submits sets the event when it ends, with the new record still queued.
3. `overflow`: `multiplier**attempt` (`retry.py:88`) raises `OverflowError` after
   enough quick attempts, which `export_*` lets through.
4. `non_finite`: the JSON encoder hands floats to the serializer as they are
   (`encoding/json.py:102`): orjson makes null of NaN and of the infinities, the
   standard library a bare `NaN` no reader of JSON has to accept. The oracle test
   compares the encoders on finite floats only.
5. `decode_overflow`: `int()` of an infinite count raises `OverflowError`
   (`encoding/json.py:415`), which the `except` does not name, so a batch the
   collector has accepted counts as lost. A document nested more deeply than the
   parser goes does the same with a `RecursionError` (`encoding/json.py:400`).

More remarks found on the way have no run:

- An eviction (`processor.py:104`) does not touch `_last_error`, so it does not
  always tell "which kind of loss happened last" (`src/README.md:79-80`).
- `flush()` raises on every `CancelledError` of its export (`processor.py:159`) and
  `_run` catches `Exception` only. A gRPC call whose channel is closed under it
  raises one although no task was cancelled; the background task of an open
  processor then ends, against the comment "flush() must never kill this loop"
  (`processor.py:209`). `CancelledInExport` is either kind of cancellation: the batch
  is counted and the lock freed, the closing task does not wait for a loop that has
  ended, and `NoRecordIsStuck` promises nothing once it has.
- `parsedate_to_datetime` (`retry.py:53`) raises `OverflowError` for a date whose
  year is no C int, although the docstring of `parse_retry_after` says "None if
  unparseable" (`retry.py:43`), and `send()` does not catch it. The collector asked
  for a retry; the export ends with an undocumented exception
  (`RaisesOnlyAsExplained` lists it).
- A token or header with a newline, or over gRPC a key in capitals, makes `post()`
  or the call raise a `ValueError` or `TypeError` that `send()` does not catch.
- A negative `expires_in` is clamped to zero (`credentials.py:242`), which lies
  within `expiry_skew`, so such a token is minted again for every export although
  the comment above it wants to avoid that.
- An integer `expires_in` that no float holds makes `float()` raise
  `OverflowError` (`credentials.py:235`), which is not caught.
- "Using a provider after its `aclose()` raises a bare `RuntimeError`"
  (`src/README.md:251`) is so only where a session of its own exists and no usable
  token is cached. A provider closed before its first use creates a session later,
  which nobody closes.
- "`dropped` means 'records that never reached the collector'"
  (`processor.py:28`) cannot hold of a record whose answer was lost: in `pipeline`
  a record may be both taken and dropped. `AcknowledgedIsFinal` is what is left
  of it.
- `_consecutive_failures` is one counter for all signals: with one that fails and
  one that succeeds in every flush, every failure is the first of its run and is
  logged as a WARNING (`processor.py:188`).
- Attribute mappings are queued by reference; an application that changes one
  after `submit_*` changes what is exported.
- An attempt that begins within `max_elapsed` may end after it, so an export is
  bounded by `max_elapsed` and an attempt (`ExportIsBounded`), and a flush by three
  of those, not by `max_elapsed` alone as the docstring of `BatchProcessor` has it.

## 4. Proofs

Every theorem is proved for all values of the constants that the named
assumptions of the modules admit:

- `ConstantsAssumption` (`BatchProcessor`): the tasks are different, sizes and
  bounds are natural numbers. They may be zero, and the callers may be infinitely
  many.
- `ProviderAssumption` and `ClientAssumption` (`OAuth2Provider`, `ExportClient`):
  sizes and delays are natural numbers, `max_elapsed` and the timeout are not zero
  (`__post_init__` refuses that), what stands for no number is none, and exports
  are finitely many, without which the bound on an export is no number.
- `PipelineAssumption` (`ExportPipeline`): the processor's, the client's and the
  provider's, that the other clients are not its tasks, and that `MaxMinted` is a
  natural number.
- `ConfigAssumption` (`Config`): None, garbage, NaN and what stands for a refusal
  are different, no integers, and None is no text.
- `TransportsAssumption` (`Transports`): what `float()` makes of a timeout or a
  hint is a number, a NaN or none, and what stands for no bound and for a date out
  of range is none of these; an answer has a status over HTTP only; no environment,
  configuration, header, answer or transport is itself None. An endpoint is
  None or a URL: after a scheme and a host comes nothing, or a path or query that
  begins with its "/" or "?". A list of headers has entries of a key and a value,
  of one text without "=", or blank. User names, ids and secrets are texts of
  symbols none of which is an escape; "%3A" written by an application is three
  symbols. The style of a client's authentication is one of the two of the code.
  Nothing is assumed of the body of an answer.

TLC evaluates each of them in a run.

### The processor

`BatchProcessorProofs`

- `TypeCorrect`: `TypeOK`, which is inductive.
- `MutualExclusion`: `OneFlushAtATime`. It is not inductive; `LockInv` says that a
  task drains or exports exactly when it holds the lock, that a woken waiter
  implies a free lock and is in the queue, and that only the holder has a batch.
- `AccountsBalance`: `Accounting`, which needs `LockInv` because the one batch in
  the sum is the holder's.

`BatchProcessorFlushProofs`

- `FlushesSettle`: `FlushSettles`, a property of steps. `SettleInv` says that a
  queue a flush has passed holds only records submitted after the call. What
  another flush drained before this one had the lock is settled too, by `LockInv`:
  the task that leaves holds the only batch.
- `WakeupsAreKept`: `NoLostWakeup`, inductive together with `SettleInv`, which
  places every task outside the lock before its first queue.
- `ShutdownsAreFinal`: `ShutdownIsFinal`. `CloseInv` follows the closing task:
  behind its final flush a queue stays empty because `_closed` refuses records,
  and a caller that holds the lock after it can only find nothing.

`BatchProcessorLedgerProofs`

- `LossesAreCountedOnce`: `LostOnce`. `RecordsInv` says that queues, batch and
  `lost` hold different records, none twice, each with a number handed out
  already; so an eviction of n records adds n to both sides.
- `ProcessorKeepsLedger`: the processor implements `DeliveryLedger`. With
  `RecordsInv` each action is shown to be one action of the ledger or a stutter
  under `Fate`.

### The client

`ExportClientProofs` has one inductive invariant in six parts, `IInv`: `TypeOK`,
`TurnInv` (who is between two suspensions is the running task), `LockInv` (the
holder of the lock is the task that rechecks or mints), `MintInv` (tokens minted
against tokens wanted, and that a task mints only over an unusable cache),
`TokenInv` (the token in hand against the cached, the used and the rejected one)
and `TimeInv` (a deadline against the start of its export and the hint it was
given). The theorems are `ClientTypeCorrect`, `OneMintAtATime`, `MintsAreNeeded`,
`RequestsCarryTokens`, `RejectedTokensStayRejected`, `SleepsInBudget`,
`RetryAfterIsHonoured` and `HeadersRaiseOTLPErrors` for the invariants
`TypeOK`, `SingleFlight`, `NoRedundantMint`, `NoEmptyToken`,
`FreshTokenAfterRejection`, `RetriesInBudget`, `HonoursRetryAfter` and
`RaisesAsDocumented`, and `OneReauthPerExport` and `FailedMintsCacheNothing` for
the steps `OneReauth` and `CachesWholeAnswers`.

The lemmas behind them are about `AnyStep`: a step of `Next`, or a `CallerStep`, in
which whoever awaits an export cancels it, takes its result, or begins another.
`ExportClient` itself lets each export run once. The invariants do not need that,
and stated so they hold of a client inside a larger system too.

`ExportClientBoundProofs` proves `ExportsAreBounded`: `ExportIsBounded`. The
queue of the lock is the reason: a task that waits may wait for everyone before
it. `QueueInv` says that the waiters are different, are just the tasks suspended
in `acquire`, and that the first is woken when the lock is free or has been
cancelled; `BoundInv` bounds, for the waiter at position i, when it gets the lock
by when the lock is free at the latest (`Free`) and i mints. Positions of
different tasks are at most as many as the tasks, so one turn takes
`MintTime * Cardinality(Exports \ Anonymous)` at most. `AsyncioProofs` has the
lemmas about that queue, of taking an element out of a sequence of different
elements and of counting them.

### The pipeline

`ExportPipelineProofs`

- `PipelineImplementsProcessor`: a behaviour of the pipeline is one of
  `BatchProcessor`. The step that matters is `ReturnToFlush`: whatever result the
  client ends with, `flush()` goes on as one of the four ways in which
  `BatchProcessor` lets an export end.
- `PipelineKeepsLedger`, from that and `ProcessorKeepsLedger`: the proof takes the
  theorems about the processor through an instance of their module.
- `AnsweredRecordsWereTaken`: `AnsweredWasTaken`, and `AcknowledgementsAreFinal`:
  `AcknowledgedIsFinal`. `ControlInv` says that an export of a flush is under way
  exactly while its task is in `export`; `DeliveryInv` says that an
  acknowledged record was taken, waits nowhere and is not lost, that a batch is
  acknowledged as a whole and just when its export has returned, and that a
  submitted record waits, is sent, is lost or is acknowledged.
- `ClientKeepsPromisesInPipeline`: `ClientKeepsPromises`, the client's invariants
  about the token, the budget, the hint and the bound on an export, among exports
  that `flush()` begins again with each batch. The pipeline does not implement
  `ExportClient!Spec`, where an export runs once, so `StepsOfClient` shows instead
  that each of its steps is an `AnyStep` of the client: a step of the processor
  outside an export, which may cancel one, and the return of an export to whoever
  awaits it are `CallerStep`s, and an export that starts or goes on is a task step
  of the client. `ClientInv`, the invariant of `ExportClientBoundProofs`, is
  preserved by these; the lemmas are taken through an instance of that module.
  `RaisesAsDocumented` is not among the seven: it is about one call of
  `headers()` and the answer to it, to which the pipeline adds nothing.
- `PipelineTokenSteps`: the same for the steps `OneReauth` and
  `CachesWholeAnswers`.

### Transports

`TransportsProofs` has the invariants `ConfigInv` (a configuration is what
`from_env` or `replace` made of the environment, and passed `__post_init__`),
`TransportInv` (a transport is what `create` made of that configuration, and is
open unless its session or channel is its own) and `CallInv` (a call carries the timeout of
its signal, and one that has ended has the outcome its answer earns, or none
came).

- `TransportsTypeCorrect`: `TypeOK`; `PlaintextIsAsked`: `PlaintextOnlyOnRequest`;
  `CallTimesAreUsable`: `TimesAreUsable`, from a lemma for the timeouts and one for
  the hints; `RejectionsAreReported`: `ReportsRejections`.
- `TransportsTreatAlike`: `TransportsAgree`, over the units of the code. A hint of
  n seconds by HTTP and one of 1000 n milliseconds by gRPC are the same delay
  because `Pushback` divides; `WholeMilliseconds` is the arithmetic of it.
- `RaisesAreExplained`: `RaisesOnlyAsExplained`. That nothing but what it lists
  leaves `send()` follows from what each answer earns (`HttpClassified`,
  `GrpcClassified`), for every answer. Without the list the statement is false, as
  `decode_overflow` shows of one of its cases.
- `SettingsAreMostSpecific`: `MostSpecificSetting`, in four parts for the timeout,
  the compression, the URL and the headers. "The last entry of a key" and "the
  path before the first query" are the greatest and the least of a set of indices;
  that a set of naturals has them is `Least`, from the theorem that the naturals
  are well founded. What a selection holds is then a matter of indices and needs
  no induction over the list.
- `CredentialsAreRead`: `CredentialsReadAsGiven`. Quoting is a function of the
  symbol, so unquoting is its inverse symbol by symbol; a quoted text has no
  colon, so the first colon of the pair is the one `BasicAuth` put there.

### What is model-checked only

- The liveness properties, `ExportsEndAsAssumed` and `OthersEnd`: fairness is not
  within reach of the prover.
- `Encoding`, `ExportCalls` and their properties: the encoders are recursive, and
  attribute values are nested without bound, so every statement about them is an
  induction over data.
- The violation runs, which are counterexamples on small instances.

TLC checked the inductive invariants of the processor, the client and the pipeline
on instances like those of the runs before they were proved, and `ClientInv` on
the instance of `pipeline` as well; those of `Transports` were proved alone.

## 5. Plan

Every safety property that a passing run checks is proved, but for the five of the
encoders. What could be added:

1. The envelopes of flat attribute values, for which neither encoder recurses, in
   a module without recursion, to prove `EncodersAgree` of them.
2. A clock in `Transports`, so that the call it makes is the request of
   `ExportClient` by a refinement and not only by its outcomes.

## 6. Not modelled

TLS contexts and credential files, which are read from disk and handed to a
library; the text of messages and the level of log lines; the bytes of a payload
and gzip; `__init__.py`, which re-exports names. Entering one `BatchProcessor`
twice. Cancelling `send()` itself is a step of `ExportClient`, not of
`Transports`. A session that was passed in and is closed by its owner, and a
`max_elapsed` of NaN.
