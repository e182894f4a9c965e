# A verification of anolis-provider-sdk in TLA+

`anolis-provider-sdk` is the C++ library a device provider links to become an
ADPP process: the Anolis runtime starts the process, writes length-prefixed
protobuf requests to its standard input and reads responses from its standard
output. This directory holds TLA+ models of the library, the TLC configurations
that check them on small instances, and TLAPS proofs for every instance.
Paths below are relative to `src/anolis/provider_sdk/` in the repository.

## 1. The system

| component | files | state | operations |
| --- | --- | --- | --- |
| serving loop | `runtime.*` | `hello_completed`, `initialized`; the request and response in hand | read, start up, dispatch, serialize, write; five ways out, each through `ShutdownGuard` |
| framed stdio | `transport.*` | the two streams | `read_exact`, `read_frame`, `write_frame` |
| request handlers | `handlers.*` | none of their own; they question the provider's `ProviderRuntime` several times per request | one per request kind |
| call validation | `call_validation.*`, `values.hpp` | none | `validate_call_args`, typed getters |
| I2C bus | `i2c/i2c_bus.hpp`, `i2c/linux_i2c_bus.*` | open or not; retry budget | open, close, write, read, write_then_read |
| I/O counters | `i2c/io_stats.hpp` | per address: ok, failed, retried attempts, under a mutex | record, stats_for |
| fault injection | `i2c/fault_injecting_i2c_bus.*` | three operation counters, a map of injected failures | pre_op, mutate_read, io_stats_for |
| claims | `claims.*`, `i2c/claims.*` | a device's claim tag; the file system's symbolic links | claim_key(s), add_claim |
| host checks | `host_check.*`, `i2c/host_checks.*` | none; reads the host | check_host, exit_code, envelope, readiness_diagnostics |
| configuration schema | `config.*` | a declared schema tree | Field, Array, Object, Schema setters; JSON Schema emission |
| configuration validation | `config_validate.*` | none | validate, resolve scalars, as_* extraction |
| logging | `logging.*` | one atomic threshold, a mutex for the sink | init, set_level, log |
| reference provider | `examples/reference/reference_provider.cpp` (under `src/`) | per heater: power, energy, the time both were last brought up to date | `read`, `call`, `stop`; the verbs of `main` |
| data model | `result.hpp`, `signals.hpp`, `quality.hpp`, `device_adapter.hpp`, `device_spec.hpp` | none | factories and interfaces |

How they interact. The client and the loop share two pipes, both bounded. The
loop is one thread and blocks in reads and writes; it calls the handlers, and
they call the provider: `readiness`, `has_device`, `capabilities`, `read`,
`call` and the hooks `initialize`, `on_wait_ready`, `on_shutdown`. The provider
drives devices through the shared I2C bus, from its own threads (poller,
health snapshot, HTTP). The configuration, claim and host-check code runs
before the loop, in the provider's `main`, whose verbs print the schema or the host
check and exit; the reference provider shows all of it in one program.

What is hard, component by component, and what makes each correct:

- **Serving loop.** The client writes ahead, stops reading, closes or dies
  between any two steps; a response may sit in the stream's buffer; provider
  code may throw. Correct: answers are one for one, in order, with the request's
  id; start-up happens once, at the right request; the exit code tells what
  happened; `on_shutdown` is last; client and loop never block on each other.
- **handle_call.** Four questions to the provider and two looks at the wall
  clock, with the world moving between them; a client that retries. Correct:
  the answer tells whether the device acted; no double action; the device acts
  only on arguments its declaration allows.
- **I2C bus and counters.** Threads interleave; decorator counters race; retries
  and polls. Correct: counters account for every operation and attempt; budgets
  are kept; faults come on schedule.
- **Health, WaitReady, reads.** Live inventory and start-up report may disagree.
  Correct: one entry per device, worst state wins, no message contradicts it; a
  read is all or nothing; a freshness hint never hides a fault.
- **Configuration.** Two implementations of one schema: the validator and the
  emitted JSON Schema. Correct: they accept the same documents, up to the
  documented deviations; a validated document can be extracted.
- **Printed JSON.** Two hand-written writers and two recognisers of UTF-8, given texts
  from an author and from the host. Correct: what is printed parses, and reads back
  as what was said.
- **Claims and host checks.** Correct: two claims of one adapter meet; the exit
  code and the diagnostics agree.
- **Reference provider.** A heater's energy is integrated only when somebody asks, and
  a call has acted before its answer is built, found too large, found too late, or
  lost. Correct: no energy is lost or counted twice; the client can tell what its
  heaters may be doing; they are off when the process is gone.

`PROJECT.json` lists the hazards line by line, with the properties that cover
each one or the reason none does yet.

## 2. The modules

| module | models | kind |
| --- | --- | --- |
| `AdppProtocol` | frames, status codes, `initialize_budget` | vocabulary |
| `AdppSession` | what a session promises | abstract specification |
| `RunLoop` | `run_loop`, `read_frame`/`write_frame` as the loop sees them, the client and both pipes | component; implements `AdppSession` |
| `ReferenceProvider` | the heaters and what `read`, `call` and `stop` do with them | component |
| `ReferenceSession`, `MCReferenceSession` | the loop, the handlers, the heaters and a pipelining client together | composition of `RunLoop`, `CallValidation` and `ReferenceProvider`, and its instance |
| `ReferenceSession_proofs` | theorems about `RunLoop`, and about the composition | proofs |
| `CallValidation` | `validate_call_args`, the getters, and what an `ArgSpec` means | operators |
| `CallHandler`, `MCCallHandler` | `handle_call`, the clock, the provider, a retrying client | component and its instance |
| `CallHandler_proofs` | theorems about `CallHandler` and `CallValidation` | proofs |
| `ConfigScalars` | scalar resolution, `validate_field`, `canonical_value`, the extraction helpers | operators |
| `ConfigSchema` | `Field`'s setters, the checks of a declared tree, the emitted JSON Schema | operators |
| `JsonSchema` | the reader of the emitted schema, which is not part of the SDK | operators |
| `ConfigValidate`, `MCConfigValidate` | `validate`, between a provider's declaration and its parsed configuration | component; declarations and documents of its instance |
| `ConfigValidate_proofs` | theorems about `ConfigValidate` and the modules under it | proofs |
| `JsonText` | UTF-8, the two recognisers of it, the two JSON writers, and a reader of JSON, which is not part of the SDK | operators |
| `ProviderMain`, `MCProviderMain` | `--config-schema`, `--check-config`, `--check-host` around `ConfigValidate` | composition and its instance |
| `ProviderMain_proofs` | theorems about `JsonText` and `ProviderMain` | proofs |
| `BusSetup`, `MCBusSetup` | `check_host`, `exit_code`, `readiness_diagnostics`, `claim_key`, `claim_keys`, `add_claim` | component and its instance |
| `I2cBus`, `MCI2cBus` | `LinuxI2cBus`, `FaultInjectingI2cBus`, `FaultSpec::parse`, `IoStatsMap` | component and its instance |
| `Bus_proofs` | theorems about `I2cBus` and `BusSetup` | proofs |
| `HealthHandlers` | `handle_wait_ready`, `handle_list_devices`, `handle_get_health`, `make_provider_health`, `make_device_health` | component |
| `ReadHandler` | `handle_read_signals`, `handle_describe_device`, `apply_min_timestamp`, `quality_from`, `default_ids_from` | component |
| `Handlers_proofs` | theorems about `HealthHandlers` and `ReadHandler` | proofs |
| `DataLemmas` | induction; what `SetToSeq`, `FlattenSeq`, `SumFunctionOnSet` and the folds of `FoldLeft` compute | proofs |
| `FrameChannel` | a one-way channel of whole frames | abstract specification |
| `FramedStdio`, `MCFramedStdio` | `read_exact`, `read_frame`, `write_frame` byte by byte | component and its instance; implements `FrameChannel` |
| `FramedStdio_proofs` | the header encoding, the framing of a byte stream, and that it is a `FrameChannel` | proofs |

The modules meet where the code's parts do. `RunLoop` takes a frame as one step
that succeeds, ends or fails, and `FramedStdio` shows that frames are what the
bytes amount to. `RunLoop` takes a handler as one step with any of the codes it
can answer with, and `CallHandler`, `HealthHandlers` and `ReadHandler` open that
step up, with the provider's threads going on inside it. `ReferenceSession` joins the
step with what the handler and the provider do in it, so that a request, its effect
and its answer are followed from one end of the pipes to the other. `ConfigValidate`
puts the two readings of one declaration, `ConfigSchema`'s and `ConfigScalars`', side
by side, and `ProviderMain` puts the program around them.

### RunLoop

`pc` follows the loop: `read` (in `read_frame`), `serve` (a request is parsed),
`write` and `flush` (in `write_frame`), `exited`. `taken` counts frames read,
`response`/`buffered` are the response in hand and whether it is in the
ostream's buffer, `written` is what has reached the pipe. `hello_completed` and
`initialized` are the code's. `inits`, `ready` and `shutdowns` record hook calls.
`ReadFrame` covers `read_frame` and `ParseFromArray` (exits 2 and 3), `ReadEof`
the empty read (0, or 2 inside a frame), `ReadFails` a stream error,
`Initialize` lines 67-72, `Dispatch` the handler, `on_wait_ready`, and the
serialization with its fallback, `WriteFrame` and `Flush` the three writes of
`write_frame` (exit 5), `ProviderThrows` an exception out of provider code. A
frame is reduced to its kind, id and wait hint; the codes a handler can answer
with are a set (`HandlerCodes`). The client's steps are `BeginSend`,
`FinishSend` (which waits for room), `Receive`, `CloseStdin` (which may tear the
frame being written) and `HangUp`. SIGPIPE is taken to be ignored, so that a
write to a closed pipe fails; the SDK leaves that to the provider's `main`.

### ReferenceProvider and ReferenceSession

A step of `ReferenceSession` is a step of `RunLoop` joined with the provider's: `Serve`
is `Dispatch` with what `handle_call` or `handle_read_signals` does to the heaters,
`TakeIn`, `InputFails` and `GiveOut` are the loop's other steps with `OnShutdown`, which
stops the heaters when the loop is left; `Tick` is time. The handler's refusals are
in the code's order (`Refusal`); the response's code and size go to `RunLoop`, and what
it says besides (`detail`: a reset's count, or that a late call had side effects) is
kept at the same position as the response on the pipe (`details`). `Meaning` says what
the request of each id asks for, and `Oversize` which ids have an answer over the cap,
so that a call has acted and is answered RESOURCE_EXHAUSTED. The reference provider's
code does not throw.

A heater is `power_`, `energy_` and `at_`. Power is in levels of `0..Full` for 0.0 to
1.0, energy in what one level draws in one tick; the temperature is a closed formula
of the same numbers and is left out. `drawn` and `taken_out` record what was drawn in
fact and what resets took away.

### CallHandler

One action per check of `handle_call`: `CheckDevice`, `ResolveFunction`,
`CheckArguments`, `CheckDeadline`, `Call`, `Return`, `AnswerCall`. Between them
`Tick` and `SetBack` move the wall clock, and in `DeviceComesOrGoes` the device leaves
the provider's inventory or returns to it, any number of times. `gone` records that it
was away at some time since the request was taken, `listed` that `capabilities()` had
the function when the handler asked. `ProviderErrors` are the codes that the provider's
own call answers an error with, any of those that the `call_*` factories make.
The client starts a `NewOperation` with any device, function, argument map and
deadline, and may `Retry` it only after an answer that says nothing was done.
`effects` counts the times the device acted for the operation. Timestamps are
integers of one unit (seconds and nanoseconds compare as one number); a
timestamp out of range is the model value `Malformed`. In `CallValidation` an argument
has any of the six types; `Unset` stands for no type, and for one the SDK does not know,
which it lets pass unchecked. `get_arg` is the typed getter that a provider reads an
argument with.

### I2cBus

Each thread runs one operation at a time through the decorator (`LoadCounters`,
`StoreCounters`, `Decide`), the inner bus (`Enter`, `Attempt`, `Record`) and the
read mutation. The increments of the decorator's counters are a load and a
store, as the data race on them allows; the decision and the mutation each see
the counters as they are at that step. `IoStatsMap` is guarded by a mutex, so one
record or read of it is one step, and `io_stats_for` on the decorator is two
(`SnapshotInner`, `SnapshotInjected`). `wire` is what the adapter saw, kept to
compare the counters with. `bus` says which of the instance's buses a behaviour
is about: the threads that share it and the query that its `FaultSpec` is parsed from.

A value in a query is what `strtoul` and the checks around it tell apart: what leads it
(nothing, a blank, a minus, a blank and a minus), the number its digits denote (none,
if there are no digits) and whether other text follows. `Parses` and `Strtoul` are
`parse_u32` over it, with `U8`, `U32` and `ULong` for the sizes of the three types, so
that a number at each width is in the instance.

### HealthHandlers

A step is one question to the provider and what is done with the answer:
`AskReadiness`, `AskProviderHealth`, `AskDeviceIds`, then `AskDeviceHealth` for
each id in hand; `Begin` takes the next request. In between, `FinishStartup`,
`Appear` and `Disappear` change the inventory and the start-up result. A
provider's `style` says how it fills in its `ReadinessReport` (a count of
configured devices, a list of failed ones, or both), since the handlers look at
both. A provider is taken to list each failed device once. Device states worse
than OK are alike to the code and are `FAULT` here; texts, metrics and
`last_seen` are left out, except for which state the health message speaks of.
`present` and `appeared` record what was known all along and at some time since
the request was taken, `waited` what the last WaitReady said.

### ReadHandler

The provider polls its device into a cache on its own thread (`Poll`), and grades
a cached sample with `quality_from` when it is read. The handler's questions are
`CheckDevice` (`has_device`), `CheckSignals` (`capabilities`) and `Read`;
`Deliver` hands the answer back. Time is in ticks, and the comparison of
`apply_min_timestamp` is on seconds and nanoseconds as in the code, with
`TicksPerSecond` nanoseconds to a second.

### FramedStdio

Bytes have `Base` values, and a header is four of them. `write_frame` checks the
length (`CheckLength`), then puts the header and the payload into the ostream's
buffer (`WriteHeader`, `WritePayload`) and waits for it to empty (`Flush`).
`Drain` moves a byte into the bounded pipe at a moment of the system's choice,
`DrainFails` is a write to a pipe that nobody reads. `read_frame` is `ReadByte`
and the decisions after the first byte, the header and the payload; `ReadEnd`
and `ReadFails` end it where it stands. `Announce` is a client with an encoder of
its own that announces any length. In the refinement, a read that fails is the
channel's end "failed", about which the channel promises nothing.

### ConfigScalars, ConfigSchema, JsonSchema, ConfigValidate, ProviderMain

A behaviour of `ConfigValidate` is a provider's `main`: a field is built by calls of
its setters (`CallSetter`; one that throws ends in `threw`), placed in a tree and
given to `Schema` (`Declare`, with `check_object`), and then a document is loaded and
validated (`CheckConfig`). The order of the calls, the arguments, the tree and the
document are free. `ConfigSchema` emits the schema, and `JsonSchema` reads it as a JSON Schema 2020-12 validator does,
with the `x-anolis-*` keywords of `docs/config-schema.md`; it loads the YAML
document by the 1.2 core rules, with numbers that are exact. Objects, arrays,
conditionals and dependencies are given as finished trees, and `check_object` judges
the checks of their builder calls (`insert_member`, `when`, the setters of an array)
together with those of `Schema`: a declaration that any of them refuses ends in
`threw`.

A tree is a function from places to its parts, and a document one from places to
its nodes, a place being the sequence of positions that leads there; so there is no
recursion in the model. `Reached` is the set of pairs of a part and a node that
`validate()` gets to, `AppliedTo` the set of those that the schema's keywords are
applied to, each closed under its own steps; the emitted schema is a table from places
to functions from keywords to arguments.

The text of a scalar is a form and a number (`dec` 16, `hex` 16, `float` 3 for 1.5,
`word` 1), and numbers that may have a fraction are counted in halves. Integers
have `IntWidth` bits and doubles `Precision` significant ones, so that `RoundToDouble`
matters where it does at 64 and 53. Octal literals resolve as hexadecimal ones do
and are not instantiated.

The two readings are not the same everywhere, and `SchemaAndValidatorAgree` names
the differences. Documented: duplicate and deprecated keys are refused by the
validator only, integers at and beyond 2^63 are refused, `number` fields are
compared as doubles. Not documented, and exempt as `Misread`: a hexadecimal
literal beyond `int64` is a string to the validator; a literal that no double is
near to is taken for zero if its exponent is negative or, without an exponent, if
it starts with `0.`, and for infinite otherwise, so that a tiny `.000...1` is
refused as not finite.

`ProviderMain` goes on where `ConfigValidate` ends: `PrintSchema` from a declared
schema, `RefuseConfig`, `AcceptConfig` and `PrintHostCheck` from a validated document,
each with its exit code. What is printed is a sequence of bytes (`JsonText`). A number
above 255 in it is a fixed piece of plain ASCII, such as a key of an envelope, which
passes every writer unchanged; layout is left out. The author's texts are those of the
schema and its envelope, of any number of `String` fields (key, title, description,
placeholder, pattern, enum values) and of conditionals (key, const, and lists of
required and forbidden keys, where a key may come twice as it may in the code); what
`ConfigSchema`'s checks refuse for another reason is not among them
(`DeclaredAssumption`). `is_valid_utf8` and
`utf8_sequence_length` are each translated as they are written, and compared with
UTF-8 by its definition, the encodings of the scalar values. A loop over a text is a
table of how far it goes from each place: `Stop` is where it ends, `Joined` what it
appends on the way. The reader of JSON goes by the depth of nesting (`Reading`). It is a
strict one: it takes no unescaped control character, no invalid UTF-8, no trailing
text and no object with a key twice.

### BusSetup

`check_host` asks three questions, each a step: `Stat`, `Access`, `ReadClock`. A claim
is one step: `claim_keys` resolves its path once, and `add_claim` appends to the tag
that other code of the provider has filled before. In between, and between the
claims of two providers, device nodes come and go (`NodeComesOrGoes`) and an alias
is made to point elsewhere (`AliasMoves`). A path is a name and a spelling: `odd` is
another way to write an absolute path that the file system takes for the same (`//`,
`/./`). A name may have a space, in the configured path or in the one an alias leads to;
`claim_key` and `claim_keys` refuse both, at their place. A provider of an old release
publishes only the configured path, as `claim_key` does. A provider that claims again
on a descriptor it has adds to the tag, which keeps the keys of both.
`reached` records the bus that each claim's path led to.

## 3. The runs

| run | instance | shows |
| --- | --- | --- |
| `session` | 3 frames of 7 kinds, 2 ids, window 2, pipes of 1 | the safety properties of the loop and the refinement |
| `heaters` | 2 heaters with 2 levels of power beyond off; 4 frames, window 3, pipes of 1, clock 0..2, calls with and without a deadline, one answer over the cap | the client can tell what its heaters do, energy is accounted for, every frame is answered or ends the loop, closing stdin makes the outputs safe |
| `calls` | one function with a bounded double, an enumerated string and optional arguments of every other type, one the SDK does not know included, 35 argument maps, clock 0..3, two tries, 5 error codes of the provider's own, a device that comes and goes | the properties of `handle_call` |
| `i2c` | 2 threads, 3 operations, 1 retry; 1 thread, buffers of 0 and 2 bytes, 4 operations, every fault mode; 1 operation under each of the queries that name a field once or twice, with 11 values | counter accounting under races, snapshots, the fault schedule as the query's text says it, retry budgets |
| `health` | 2 configured devices, 1 synthetic, every style of report | coverage of the inventory, escalate-only, agreement with WaitReady, while devices come and go |
| `reads` | 2 signals, 1 in the default set, an undeclared id; 2 ticks to a second, clock 0..4 | a read is all or nothing; the quality that arrives is honest |
| `framing` | bytes of 2 values, cap 2, pipe of 3 bytes, 3 frames, 5 announced lengths | whole frames in order, ends classified, one cap, delivery |
| `config` | 5-bit integers, 3-bit significands; 5 kinds, 3 setter calls, 7 to 10 shapes of tree, documents of two items or keys (three for conditionals); texts of up to 5 bytes on either side of every limit of UTF-8, in every place of a schema of up to two fields and a conditional | schema and validator agree, extraction, promises of a declaration; what the verbs print reads back |
| `setup` | 3 nodes (one with a space), an alias, a scheme path; 3 changes, 2 claims each | the host check decides; claims collide exactly where they have to |
| `eof` | violation | a failing read of stdin is reported as a clean end |
| `flap` | violation | a device away when its capabilities are asked for and back for the call acts on arguments that were not checked |
| `i2c_wrap` | violation | a long drop window wraps in 32 bits and never opens |

Why the bounds are enough. In `session` three frames allow a rejected request or
Hello, a Hello and a served request in every order, with the pipe full (one frame in
it, one in the loop, one being written). `heaters` uses window = InCap + OutCap + 1:
with one more the client and the loop do deadlock, each in a write, as the code's
structure implies; the bound is what a client has to respect. Its four frames are a
Hello and three of: a call that turns a heater on and may be late, a reset that may be
late, a read, a call of a function that is not there, and a call whose answer is over
the cap. The call's deadline is 1 and the reset's is 2: a clock of 0..2 puts each of
them before and after its deadline, with energy drawn before a reset that is in time
and before one that turns late while it is answered. `calls` needs one tick before, at and after a deadline and one step
back, and two tries to act twice; its error codes are those the SDK answers refusals
with too, and two that it does not. In `i2c` two threads with three operations let one
thread finish a whole operation between another's load and store; the single thread's
four operations have each period come due at least once, alone and together with
another mode; the values of the queries are 0, 1, the last number of 32 bits, the
first beyond, one beyond `unsigned long`, no number, and 1 with each lead and with a
tail. `health` has a device that fails beside one that does not, both orders of their
start-up, and one that no report knows of. `reads` has a clock of two seconds and
more, so that the nanoseconds of a later time can be fewer, and a threshold of one
tick that a sample can be on both sides of. In `framing` the pipe is smaller than a
header, so that each header and frame arrives in pieces, and a length one over the cap
is both offered and announced; bytes of two values make every announced length up to
15 expressible. In `config` the integers are narrow and the doubles narrower, so that
there are integers between two doubles (9), doubles beyond the integers (16) and
decimal texts that round back into them (-17); three calls set both bounds and a
default, or a constraint and two values it may exclude. The bytes of its texts are the
least and greatest of each class that UTF-8 tells apart and their neighbours, so that
overlong forms, surrogates, numbers beyond the last character and cut-off sequences
all occur, alone and after other text. In `setup` three changes let a node go and come
back, or an alias be moved away and back, between any two questions or claims; a host
that keeps still (no change) is where the check's decision is compared with the facts.

Deadlock is checked in every run: the loop's exit is an explicit stuttering step
(`Exited`), and a bus that has used up its operations can still be opened, closed
and asked for its counters. In `framing` both processes may be through (`Stopped`,
a stutter), and so may a provider's `main` (`Exited`, or `Done` when it goes on to no
verb). `setup`
may really stop: its changes and claims are bounded.

Fairness, `framing`. Weak fairness of the reader's steps and of `write_frame`'s: both
processes run. Weak fairness of `Drain` only while `Flush` waits, since a byte may
otherwise stay in the ostream's buffer for ever. Closing, hanging up and failing are
not fair. Fairness, `heaters`: that of `RunLoop`. Weak fairness of the loop's steps:
its thread is scheduled and the provider's callbacks return. Weak fairness of
`FinishSend` and `Receive`: a client finishes the write it is in and reads what
arrives. Nothing obliges the client to send, close or hang up, and no failure is fair.

Every property of a passing run has a mutant in `PROJECT.json`: a plausible slip
in a mapped definition, defined next to it, under which TLC finds the property
violated.

## 4. What is proved

`ReferenceSession_proofs` proves of `RunLoop`, for every set of ids, hints and kinds,
every number of requests, window and pipe size:

- `TypeCorrect`, `AnswersCorrect`, `NothingSkippedCorrect`: `Spec => []P` for
  `TypeOK`, `AnswersMatchRequests`, `NothingSkipped`, from one inductive invariant
  (`LoopInvariant`): besides the types it says how `Len(written)`, `taken`, `pc` and
  `buffered` are related (a response in hand is the one for request `taken`, and is on
  the pipe exactly when it is in `flush` and no longer buffered), without which
  neither property is inductive.
- `StartupCorrect`: `StartupOnFirstRequest`, from `StartupInvariant`, which relates
  the two flags to history: `hello_completed` holds exactly when a good Hello was
  taken (and, in `serve`, not yet counted), `initialized` exactly when `inits` has its
  one entry, and no earlier request needed start-up.
- `ShutdownCorrect`: the action property `ShutdownIsLast`.
- `ReadyHookCorrect`: `ReadyHookAfterStartup`, from `ReadyInv`, which knows of the
  request being served that no hook has fired for it yet, and `FiredInv`: the entries
  of `ready` are the WaitReadys handled so far, no fewer and no more.
- `ExitCodeCorrect`: `ExitCodeExplains`, from `ExitInv`: the code is "running" until
  the loop is left, and a torn frame means that stdin is closed.
- `LoopImplementsSession`: `Spec => ImplementsSession`. The mapping reads `answers` as
  `written`, `started` as `Len(inits)`, `ended` as `shutdowns`; client sends map to
  `Ask`, `Initialize` to `Start`, the write or flush that moves a response onto the
  pipe to `Answer`, every exit to `End`, all else to a stutter.

and of the composition, for any heaters, levels, requests and pipes:

- `SessionImplementsLoop`: every behaviour of the composition is one of `RunLoop`, so
  that all that is proved there holds with the provider in place.
- `EnergyConserved`: `EnergyIsConserved`, from `HeaterInv`: a heater's count, what has
  accrued since it was moved, and what resets took out are together what it drew.
- `ClientAlwaysKnows`: `ClientKnowsTheLevels`, from `LevelInv`: a heater's level is
  what some `set_power` that was dispatched asked for (or 0 before any), and no later
  one is said to be done. That among the calls said to be done there is a last one is
  `MaxOfPositions`, from the well-foundedness of inclusion on finite sets.
- `EnergyAccounted`: `EnergyIsAccountedFor`, from `EnergyToldInv`: the sum of the counts
  told in answers to resets is at most what resets took out, and all of it unless an
  answer was withheld or abandoned. A dispatched reset adds one position to the set that
  is summed over, and one count to the sum (`SumTake`).

The assumptions are the modules' named ASSUMEs: types of the constants, `Nothing` not
being a frame or a response, and, in `MeaningAssumption`, that the client sets a value's
type tag: section 5 says what happens otherwise.

`CallHandler_proofs` proves, for every list of ArgSpecs, every set of argument maps
and deadlines, every clock and any number of tries:

- `ValidationExact`: `validate_call_args` answers OK exactly for the arguments that
  `ArgsConform` describes. That an argument is checked by the first rule it
  breaks goes through a least position, whose existence `MinOfPositions` derives
  from the well-foundedness of strict inclusion on finite sets.
- `CallInvariant`: the inductive invariant `IInv`. To the types it adds what is known
  at each `pc`: from `deadline` on the arguments conform if `capabilities()` listed the
  function, and if it did not, the function is not declared or the device was away
  (`ArgumentsSettled`); the deadline is a time once checked, the device has not acted before the call returns and at most once
  after it, a deadline seen to pass stays passed until the clock is set back.
- from it `CallTypeCorrect`, `AtMostOnceCorrect`, `AnswerCorrect`,
  `ActsOnConformingCorrect` and `LateCallCorrect`; and, with what the lookups
  establish (`LookupInv`), `RefusalsCorrect`: all the safety properties of run `calls`.
  What a getter returns of a conforming argument is a value its declaration allows, or
  the getter's default (`GettersReadWhatConforms`).

They assume of the codes a provider's own call returns (`ProviderErrors`) only that OK
and DEADLINE_EXCEEDED are not among them, which no `call_*` factory makes: a provider
that made up the latter would have its answer taken for the SDK's, and a client that
retries would act twice. INVALID_ARGUMENT, OUT_OF_RANGE and NOT_FOUND may come from the
provider as well as from the SDK, and the client cannot tell from whom: what
`RefusalsAreJust` says of them is about the SDK's own (`result = Unset`). What
`ActsOnConformingArguments` does not say of a device that was away is finding 2.

`Bus_proofs` proves of `I2cBus`, for any threads, addresses, queries and interleaving,
and any retry count, a negative one included:

- `BusTypeCorrect`, and `RetryBudgetCorrect` (`RetryBudgetKept`) from `BudgetOf`: the
  attempts of an operation are within its kind's budget, with one left while it is
  about to try.
- `SnapshotCorrect` (`SnapshotIsPlausible`) from `SnapshotInv`: records only grow, and
  what was read of the inner map still bounds it from below when the other is read.
- `CountersCorrect` (`CountersMatchTheWire`) from `CountInv`, an equation per address:
  what is recorded, and what the operations in flight there have still to record, is
  what was on the wire. A step moves one thread in or out of that set or changes its
  attempts, and the sum over the others stays (`SumTake`, `SumSame`).
- `ParsesWhatIsSaid`: the fold over a query of any length gives each field the last
  well-formed value the query has for it. By induction over the positions folded.
- `FaultsCorrect` (`FaultsOnSchedule`) from `FaultInv`: the plan is the one parsed, and
  on a bus of one thread the decorator's three counters are the number of operations,
  of write phases and of read phases in the log, with one more for an operation that is
  counted and not yet decided. From these the schedule follows.
  The property is about queries that are read as they are written, with a drop window
  that ends within 32 bits; finding 3 and `Misread` are the others.

and of `BusSetup` the three properties of run `setup`, for any nodes, links,
providers, addresses and users, and any number of changes and claims:

- `HostCheckCorrect` (`HostCheckDecides`) from `CheckInv`: what has been reported before
  each question, and, while nothing has changed, that the bus is there and open wherever
  the check goes on. That `host_unmet` names as many requirements as are unmet
  (`UnmetListed`) is an induction over the fold that makes the list.
- `SharedDeviceSeen` and `CollisionsReal` (`SharedDeviceIsSeen`, `CollisionsAreReal`)
  from `ClaimInv`: each tag is `Honest`, it holds the path as it is written and every
  bus the path was known to lead to, and nothing else. `ClaimsAdded` says of `add_claim`,
  folded over any list of keys, that it adds them all and repeats none.

`Handlers_proofs` proves of `ReadHandler` `ReadTypeCorrect`, `ReadCorrect`
(`ReadIsAllOrNothing`) and `QualityCorrect` (`QualityIsHonest`), for any signals, clocks and thresholds: the read
phase knows that its request is of a known device and of declared signals, and the
comparison of seconds and nanoseconds is that of times (`TimestampOrder`).

and of `HealthHandlers` `HealthTypeCorrect` and the four properties of run
`health`, `DevicesCoveredOnce`, `DevicesExplain`, `OverrideCorrect` and
`HealthRemembers`, for any devices and styles of report. Of a WaitReady that said
"degraded", and of one that said not with every device settled and listed, the last binds
every later GetHealth; of one that answered earlier, or for a provider that only counts
its devices, it says that a later DEGRADED has a device behind it that failed or has not
come up, since there the handlers look at different things (`handlers.cpp:61` and `:209`).
The handlers look at the
inventory and at the report at different times, so the invariant has to say what an
earlier look still tells: a device that is pending is not live; a report taken earlier
lists only failures that stay failures; a device known all along is live, or was in
that report. From these, the list in hand covers what was present, has nothing that
never appeared, and has nothing twice (`DataLemmas`: a finite set listed in any
order).

`FramedStdio_proofs` proves, for any number of values a byte has, any cap, payloads,
pipe and number of frames:

- `HeaderRoundTrip`: the header that `encode_u32_le` makes of a length that four bytes
  hold has four bytes, and `decode_u32_le` gives that length back.
- `FramingTypeCorrect`, from `WriterInv`: exactly one of the payloads offered is not yet
  written while `write_frame` runs, none otherwise.
- `EndClassifiedCorrect` and `CapsCorrect` (`EndIsClassified`, `CapsAgree`), from
  `FramingInv`: what ever entered the pipe and the buffer is a beginning of the frames
  offered (and of an announced header behind them), and the reader has taken the first
  frames of it, then a part of the next, with the rest of it in the pipe. A length the
  reader decodes is therefore one that the writer or the foreign client encoded.
- `FramingImplementsChannel` (`ImplementsChannel`): the initial states are a channel's,
  accepting a payload is a send, the byte that completes a frame a receive, an end the
  channel's end, and every other step a stutter.

`ConfigValidate_proofs` proves the three properties of run `config` that are about the
configuration, for any widths of integers and doubles (the doubles narrower, as
`WidthAssumption` has it), any declaration that can be built and any document:

- `DeclarationPromises` (`DeclarationsKeepPromises`): a field of a declaration that
  `Schema` took accepts the values it names itself (its default among them), and one
  declared unique is among those that some array compares.
- `ExtractionSucceeds` (`ExtractionCannotFail`): what `validate` accepted, the
  `as_*` helper of its kind extracts, and what it returns is what the document says (but
  for `Misread`, and a number that rounds to the least integer).
- `SchemaAgreement` (`SchemaAndValidatorAgree`): the two readings accept the same
  documents, up to the deviations named above.

They follow from `ConfigInvariant`, which is short (a declared tree passed `Schema`'s
checks; `errors` is what `validate` returned for the document); the weight is in the
operators. The argument for agreement goes from the inside out: where rounding to a
double lands outside the integers and at their limits (`RoundingIs`); each node is read alike by resolver and
core rules, or is one of the exempt ones; a field of each kind accepts what its
keywords accept; `Reached` is `AppliedTo` (`ReachedIsApplied`); arrays and objects at one
such place agree; so the documents do.

`ProviderMain_proofs` proves the other two, for any texts of an author, any bytes of a
host and any number of requirements and extra members:

- `Utf8Exact`: `is_valid_utf8` accepts exactly the sequences of encoded scalar values;
  of `utf8_sequence_length` the same is shown for the character at one place.
- `EscapeReadsBack`, `HostStringReadsBack`: a reader takes what `escape_json` makes of a
  text for that text, and what `json_string` makes of any bytes for their repair. Each
  escape is a unit that the reader takes for one character, and a literal is such
  units one after the other.
- `SchemaPrints` (`SchemaReadsBack`): `--config-schema` throws exactly when a text is no
  UTF-8 or a key is taken, empty or no member's. Otherwise what it prints, unless a
  conditional forbids a key twice (section 5), is a document that reads back as the texts
  of the schema, the envelope, the fields and the conditionals, in any number.
- `HostCheckPrints` (`HostCheckReadsBack`): the host check reads back as its
  requirements, and the exit code agrees with them.
- `MainKeepsConfig`: the three properties of the configuration hold with the verbs
  around it.

What is printed is read by the depth of its brackets. A value read at some depth is read at
every greater one (`AnyDepth`), and an array or object of values read at one depth is
read at the next (`ArrayValue`, `ObjectValue`): a literal, a field at 2, `properties`, an
`if` and a `then` at 3, a branch at 4, `allOf` at 5, the schema at 6, the envelope at 7.
An object reads back if its keys differ, which the declaration's checks ensure
(`FineMeans`) for every object but the one of forbidden keys. `MainInv` adds to `ConfigInv` that nothing is printed
without a verb, and that what a verb printed is its document.

Both assume the modules' named ASSUMEs only: the widths, that the values standing for
absence and failure are none of the others, that what the instance provides
(`CallsAssumption`, `TextsAssumption`, `ReportsAssumption`) is of its type, that the texts
are of declarations `ConfigSchema` does not refuse (`DeclaredAssumption`), and that the
fixed words of the envelopes are pieces of their own (`WordsAssumption`).

Induction over data (how many frames are concatenated, how many pairs a query has, how
many threads are summed over, where in a text a loop is, how deep a document nests)
goes through `NatSetInduction` in `DataLemmas`: the library's theorem about an operator
P(_) cannot be instantiated by the provers, but the well-foundedness of the naturals
can be cited, and says the same of a set. The modules compute with recursive functions
and folds, whose existence and uniqueness are lemmas; only `MCConfigValidate` has a
RECURSIVE operator, which builds the trees of the instance.

Only model-checked is liveness (`RequestsAnswered`, `OutputsGoSafe`, `WrittenArrives`),
which is out of the prover's reach.

## 5. Findings

1. A failing read of stdin exits 0 (`transport.cpp:44`), where
   `docs/writing-a-provider.md:127` promises 2 for a read error.
2. `docs/writing-a-provider.md:37` promises that `call` sees only arguments that match
   the function's declared `ArgSpec`s. Of a device that the provider has just lost,
   `capabilities()` lists no function, and `handle_call` goes on without checking any
   argument (`handlers.cpp:347`); a device that is back when `call` is made
   (`handlers.cpp:379`) acts on what the client sent.
3. `drop_after + drop_for` wraps in 32 bits (`i2c/fault_injecting_i2c_bus.cpp:118`),
   so a device meant to stay gone never goes.

Others that no run states, because the document can be read either way or there is
none. A fault injected on a closed bus is counted as failed I/O
(`i2c/fault_injecting_i2c_bus.cpp:131`), where `docs/metrics.md:46` excludes not-open
errors. The literals of `Misread` in `ConfigValidate` resolve to another value than
they denote. A query value of a blank, a minus and a number near 2^64 is taken for a
small number, since the check for a minus looks at the first character only and
`strtoul` skips the blank (`Misread` in `I2cBus`). `pad` adds nothing to a whole reply
of a bus that fills the buffer, as `LinuxI2cBus` does: only a short read leaves it
room. `readiness_diagnostics` sends the host's bytes as they are, where the envelope
repairs what is not UTF-8. A key that comes
twice inside the value of an unknown key of an Open object is not refused, since
`validate` does not go there, where `docs/config-schema.md:63` says that a duplicated
map key is rejected outright. A key that one conditional forbids twice passes
`check_object` (`config.cpp:426-436`) and is printed twice in one `properties`
(`config.cpp:726-731`), where `config.hpp:26` says that a declaration with duplicate keys
throws eagerly. An argument without a type tag passes `check_type` by its oneof field
(`call_validation.cpp:58`), and the getter asks for the tag (`values.hpp:55`): the
reference provider (`examples/reference/reference_provider.cpp:243`) then takes its
default, sets the power to 0 and answers OK.

## 6. Not modelled

- Protobuf's encoding and generated code, the wording of messages, the echo of ids and
  strings in answers (`echo_internal.hpp`), `device_info`, metrics and `last_seen`:
  data that no decision of the SDK depends on.
- Logging: one atomic threshold is read before a line and one mutex is held around it.
  Two threads can interleave only so that a line is stamped before and written after
  another's, or is kept or dropped by the threshold of an instant before; no document
  promises more, and nothing in the SDK calls it.
- The Windows and non-Linux stubs, which fail in one way; the version, a constant.
- `make_arg_spec`, `make_function_policy` and `make_signal_value`, which fill in messages; I2C
  message lengths of 2^16 and over; a read whose caller passes no `rx_received`, which
  `mutate_read` leaves as it is (`i2c/fault_injecting_i2c_bus.cpp:138`).
- Of the texts of a declaration: those of arrays and nested objects, of numeric and
  Boolean fields (defaults, bounds), deprecated keys and the values of `x-anolis-*`
  keywords, which go through the same `check_utf8` and `write_json` as those in
  `ProviderMain`. In `ConfigSchema`, whose emitted objects are functions, a key that
  a conditional forbids twice is one; `ProviderMain` prints both.
- Of the configuration: patterns other than as a set of texts, patterns that do not
  compile, keys of a document that are not scalars (refused, `config_validate.cpp:519`),
  and the order of the builder calls of objects and arrays, whose refusals are judged on
  the finished tree.
- Of claims and host checks: relative paths, a configured path that is empty (refused
  like one with a space, `i2c/claims.cpp:47`) or ends in a slash (the file system takes
  it for a directory, and it has no adapter name), the wording of details and remedies.
- Of the reference provider: a heater's temperature, a closed formula of its power and
  times, and its metadata.
- The disposition of SIGPIPE, which the provider's process sets up.

## 7. Plan

Done: the loop and its abstract session, the loop composed with a provider,
`handle_call` and validation, the I2C bus with its query, the reporting handlers,
reads, framed stdio, configuration, claims, host checks and what `main` prints; proofs
of every safety property that a passing run checks. What could still be added is the
composition of `I2cBus` with `ReadHandler`'s poller, so that a read's quality is traced
to the attempts on the wire.
