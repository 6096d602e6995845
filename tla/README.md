# A verification project for ChiseAI

ChiseAI is a Python trading platform: it finds trading signals, passes them
through gates, places orders on the Bybit exchange (or on paper) and watches over
itself. Most of it is numerical analysis, reporting and I/O. What can go wrong in
ways a test hardly reaches is its *control*: breakers, locks, idempotency marks,
kill switches, failover, signal intake. These modules model that control, TLC
checks it on small instances, and TLAPS proves the central properties for every
value of the constants.

Paths below are relative to `src/src/` unless they start with `tests/`, `docs/`
or `scripts/`.

## 1. The system

### 1.1 Components modelled so far

| component (code) | state it keeps | operations | talks to |
|---|---|---|---|
| Shared circuit breaker (`common/circuit_breaker.py`) | state, consecutive counters, HALF_OPEN slots, time of the last change | `can_execute`, `call`, `record_success/failure`, `force_open/close`, `reset` | every caller that protects a dependency; threads, under an RLock |
| Kill switch retry handler (`execution/kill_switch/retry_handler.py`) | the same in asyncio form, with its own counting rules | `can_execute`, `record_*`, `execute_with_retry` | the kill switch executor |
| Kill switch executor (`execution/kill_switch/executor.py`) | ARMED, TRIGGERED or DISABLED, two asyncio locks, the results of closing | `execute_kill_switch`, `arm`, `disable`, `reauthorize` | retry breaker, exchange connector, portfolio tracker |
| Order idempotency (`execution/order_idempotency.py`) and `place_order` (`data/exchange/bybit_connector.py`) | a key per order in Redis, a local store per process | check, mark, `validate_and_mark`, remove; check-send-mark | Redis, the exchange |
| Failover manager (`infrastructure/ha/failover.py`) | registered instances, health counters, active instance, state | register, unregister, health report, forced failover, failback | health checks, operators |
| Paper signal consumer (`execution/paper/signal_consumer.py`) | in Redis: processing locks, key status, processed set, stream; locally: a copy of the processed set | start, stop, poll | producers, Redis, the paper orchestrator's queue |
| Paper kill switch (`execution/paper/paper_kill_switch.py`) | a Redis key with a TTL, a cached status per manager | get status, activate, deactivate | the signal consumer, operators' CLI (`scripts/kill_switch_*.py`) |
| Paper orchestrator (`execution/paper/orchestrator.py`) with its tracker (`position_tracker.py`) and symbol registry (`symbol_registry.py`) | open and closed positions, a lock per position, the portfolio value, times of the last evaluations; in Redis: a key per symbol | process a signal, close a position, check SL/TP, start, stop | the signal queue and batches, the order connector, Redis, operators |

What is hard in each of them:

- **Circuit breaker.** The protected function runs outside the lock, so a result
  can arrive after the state has changed. HALF_OPEN has no timer: a slot that is
  not given back is gone. *Right means*: bounded probes, periods that start from
  clean counters, no blocking without somebody who can end it, and recovery.
- **Retry breaker.** The call that enters HALF_OPEN does not count against the
  slots, successes survive a failed HALF_OPEN, and a cancelled task reports
  nothing. *Right means* the same, at its tightest configuration.
- **Kill switch.** Two locks, queued operators, positions closed outside the
  locks, retried orders whose first answer was lost, orders acknowledged now and
  executed later. *Right means*: every position found open ordered closed or reported,
  none reversed, none closed in the books without an order, no deadlock.
- **Idempotency.** Check and mark are separated by a network call; two stores,
  of which a call consults one. *Right means*: no order sent again after it was
  accepted, no order refused that was not, reservations unique in the store that is used.
- **Failover.** Several methods change state, active instance and flags
  together; cooldown, thresholds and failback delay interact. *Right means*: the
  three agree, a failed instance is left, a healthy primary gets the service back.
- **Signal consumer.** Four records of one fact, written one after another, with
  crashes and lost replies in between; several instances. *Right means*: no record
  ahead of the queue, the lock excludes, a signal left behind is taken over.
- **Paper orchestrator.** A signal's call checks for positions, awaits a dozen things
  and only then orders; batches run five calls at once; the SL/TP loop, operators and
  opposite signals close the same positions; the registry key expires before the
  position, and is released by a GET and a DEL. *Right means*: one position per
  symbol, each profit booked once, no key without a reason, no stop loss ignored.
- **Paper kill switch.** A cache in front of a key that expires. *Right means*:
  polls stop within the cache's age.

### 1.2 Components not modelled

`PROJECT.json` lists every component with its reason. In short:

- *Planned* (control logic within reach): the rollback coordinator, the dead letter
  queue with retry coordinator and budget, incident management and self healing, and
  the event bus (all in `autonomous_control_plane/`); late fills and
  reconciliation of the paper orchestrator; the safety orchestrator; canary promotion and live gating; the process supervisor;
  connection pools; outcome persistence and reconciliation; the HA manager around
  the failover manager; the other breakers; the kill switch's bootstrap.
- *Not planned*: signal generation, market analysis, machine learning, portfolio
  valuation and risk limits (floating point arithmetic on market data, without a
  protocol); cognition and governance (heuristics and sequential file checks; their
  approval state machines may be added); API, dashboards, alerts, reports, storage
  and tooling (I/O and presentation).

The repository has 570,000 lines in 1,457 files; the modules stand for some 3,900 of
them. The share is small because most of the code is of the second kind, and because
the control a model can check sits in few places: the components above were chosen by
what an interleaving, a crash or a lost reply can do to them, not by their length.

### 1.3 Hazards

`hazards` in `PROJECT.json` names each hazard with its line and the properties that
cover it. The ones without a property say why.

## 2. The modules

| module | role |
|---|---|
| `Breaker` | what a circuit breaker promises; `CircuitBreaker`, `RetryBreakerCalls` and the exchange breaker inside `KillSwitch` implement it |
| `Liquidation` | what an emergency stop promises about positions; `KillSwitch` implements it |
| `OrderGate` | duplicate detection as one step; `OrderIdempotency` implements it under three conditions |
| `SignalIntake` | what taking in signals promises; `SignalConsumer` implements it |
| `PositionBook` | what an engine promises about its positions; `PaperOrchestrator` implements it |
| `CircuitBreaker` | the shared breaker and its callers |
| `RetryBreaker` | the retry handler's breaker as an object: variables and operations, no `Next` |
| `RetryBreakerCalls` | tasks that use a `RetryBreaker` as `execute_with_retry` does |
| `KillSwitch` | the executor, composed with a `RetryBreaker`, the exchange and the tracker |
| `OrderIdempotency` | the store, `place_order` and `validate_and_mark` |
| `Failover` | the failover manager under health reports, membership changes and operators |
| `PaperKillSwitch` | the Redis flag and the managers' caches as an object |
| `SignalConsumer` | instances of the consumer, composed with `PaperKillSwitch` |
| `SymbolRegistry` | the Redis key per symbol as an object |
| `PaperOrchestrator` | calls, SL/TP loop and operators over one tracker, composed with `SymbolRegistry` |
| `MC...` | the instances TLC checks |
| `...Proofs` | the theorems |

An operation of the code is one action with the operation's name; a condition or early
return is a conjunct or a disjunct of it. `map` gives the lines of each definition.
Three conventions recur.

**Steps.** In threaded code a method under a lock is one step. In asyncio code a step is
what a task does between two awaits that have to wait; a network command is one step,
taken when the server executes it. An await that only re-enters Python code does not
split a step.

**`env`.** A promise of the code often holds only under conditions (Redis answers, calls
do not overlap, one instance). `OrderIdempotency`, `Failover` and `SignalConsumer`
choose these conditions once, in `Init`, and keep them in the variable `env`
(`deployed` in `PaperOrchestrator`); each
property names the conditions it needs. A single run then checks every property
under every combination, and the theorems quantify over all of them.

**Operators ending in `_Something`**, commented "Mutant", are plausible mistakes in the
definition that follows them. Nothing in the specifications uses them; putting one in the
place of its definition makes TLC report the property that `mutants` names for it.

**Abstract specifications.** Five modules say what a component promises without its locks,
stores, queues and retries; the component states `X!Spec` under a refinement mapping, TLC
checks it on the run's instance and a theorem `Implements...` proves it for every value
of the constants. The simpler invariants that it implies are not checked by a run again;
they are stated and proved in the `...Proofs` modules, where the refinement uses them.

### 2.1 CircuitBreaker

`state`, `consecutiveSuccesses`, `consecutiveFailures` and `halfOpenCalls` are the fields
of the same names; `elapsed` is the time since the last state change, stopped at
`Timeout`; counters stop at the threshold they are compared with. `Admit`,
`RecordSuccess`, `RecordFailure`, `ForceOpen`, `ForceClose` and `Reset` are the methods;
`EndUnreported` is a call that ends without a report, by an exception outside
`expected_exception` or because its caller only asked `can_execute()`. `running` tells
what each thread executes outside the lock: a *probe* holds a slot of the current
HALF_OPEN period, everything else is a plain *call*, also a probe of an earlier period.
`lost` is a history variable: a probe of this period ended unreported.

### 2.2 RetryBreaker, RetryBreakerCalls and KillSwitch

`RetryBreaker` differs from the shared breaker where the code does: the entering call
sets the count to 0 without taking a slot, `_success_count` is not reset when a probe
fails, and the recovery time runs from the last failure. `KillSwitch` extends it, so
the exchange breaker that closing positions uses is the very one
`RetryBreakerCalls` studies with any callers.

In `KillSwitch` `triggerQueue` and `stateQueue` are the FIFO queues of the two
`asyncio.Lock`s, `stateWriter` a command that awaits its metrics write under the state lock,
`pc` the await a trigger call is at, `todo/current/attempt` the locals of closing positions,
`listed` and `failed` what the last call that set TRIGGERED found and reported, `tracked` the
tracker's status of each position, `market` what the exchange holds of it and `working` the
orders it has accepted and not executed.

An answer to a close order is an *acknowledgement*: `OrderAccepted` puts an order to work and
answers or loses the answer; `Book` closes the position in the tracker on the answer, as the
executor does without reading the order's status; `ExecuteOrder` comes at any time, also
before the answer, and closes the position or leaves a "rest" of it, up to all of it: the
quantity was rounded down to the lot, or the market did not take it. `ReduceOnly` is the flag
`close_position_market` sets; an order executed when nothing is held any more has no effect
because of it, and would reverse the position without it. A call may fail to send its
order (`RefusedByBreaker`, `NotSent` for a missing connector or an unexpected exception).

Positions appear at the exchange whatever the switch says (`EngineOpens`) and reach the
tracker by `HandlePositionUpdate`, late, again, or not at all: before, during and after the
listing. An update may set a booked position back to open. `OpenPositions` is what the tracker
calls open at the listing; a position it does not know or has as pending is not listed.

`Liquidation` has the switch, what the market holds of a position, the orders at work, what the
books say, and two sets: the positions a trigger still *owes* and those it has *reported*. The
mapping reads both from the call that set TRIGGERED, from its listing on: owed is what it has
still to do, reported what its results call FAILED. An owed position is settled by an accepted
order or an execution, or reported; nothing else takes it away. No execution reverses a
position, and the books close one only if it has been ordered closed. A call that a later
trigger has overtaken goes on closing its own list; what it reports goes to its own caller.

### 2.3 OrderIdempotency

`redis` and `local` are the two stores. `Placers` go through `PlaceCheck`, `Send`, the
exchange's decision and `PlaceMark` or `PlaceFail` (`remove`); `Reservers` go through
`Reserve`, and `FallbackCheck` and `FallbackMark` when Redis raises. A Redis command
answers, raises, or raises after it took effect; `env.redis` says whether all of them answer
("up"), some ("flaky") or none ("down"). The 24 hour TTL is longer than a
behaviour and is left out; `local` entries never expire, as nothing reads their expiry.

`OrderGate` is check, request and mark in one: a caller is *granted* an order that was not
accepted and that nobody else is sending, refused one that was accepted, and may ask
again for one that was rejected. `Phase` maps "checked" and "sent" to granted, "accepted"
and "failed", until the mark or the removal is done, to decided. `PlacesOnce` states the
refinement where calls for an order follow one another, Redis answers and no answer of
the exchange is lost; `idempotency_overlap` shows that it fails without the first.

### 2.4 Failover

`route` is (`_state`, `_active_instance_id`, the instances with `is_active`). `CheckHealth`
is `update_instance_health` with all it calls: counting, failover, failback. `Register`,
`Unregister`, `ForceFailover` and `ForceFailoverTo` are the other methods. `since` is
the time since the last failover; `lastCheck` flips with each report, so that a report
that changes nothing else is still a step that `ReportsKeepComing` can ask for.

### 2.5 SignalConsumer and PaperKillSwitch

`processed`, `consumed`, `locks` and `stream` are what Redis holds; `known` is an
instance's `_processed_signals`; `pc`, `batch` and `current` are where its poll is.
A keyed signal goes `ReadKey`, `Acquire`, `SubmitKeyed`, `MarkConsumed`,
`MarkProcessed`, `Release`; a message `SubmitMessage` (or `SkipMessage`),
`MarkProcessed`, `Acknowledge`, without a lock. `submissions` counts, up to two, what was
put on the orchestrator's queue. `Crash` ends an instance anywhere; `Stop` is the
cancellation that still runs the `finally` block which releases the lock. A lock
expires only when nobody is in its section: its TTL is a minute, the section a few
Redis commands.

`PaperKillSwitch` keeps the ticks until its key expires and each manager's cached
status with its age; `activeFor` is a history variable. A tick is longer than a round
trip to Redis. When Redis raises, the switch reads as inactive, as in the code.

Left out: signals that are invalid or of a symbol not allowed (the poll skips them),
the health marker, keys that hold JSON strings, `reset_processed_set`, the rescue key
`paper:kill_switch:global`, and the switch's asynchronous activation, which nothing in
the repository calls. One fact about the producers matters to a reader: `persist_signal`
writes neither a `status` to its JSON keys nor to the stream, and a message without
status "actionable" is acknowledged without being put
(`tests/integration/test_signal_stream_flow.py:316` says so). The model's signals are those
with the status, which `scripts/continuous_signal_generator.py` writes.

`SignalIntake` has, for each signal, how often it was put and whether it is recorded as
processed or as settled where it was found. *Processed* maps to the set in Redis together
with every instance's copy, *settled* to "consumed" and to acknowledged messages,
*remembers* to a single instance that can load the set and whose refused writes have no
effect, *handed out* to the signals that are only on the stream. A record follows a
put and is final; a signal handed out is put once; where the takers remember, a processed
one is not put again.

### 2.6 Breaker and its implementations

`Breaker` says what any circuit breaker promises: it opens at the threshold-th failure
in a row, admits nothing for the timeout, then at most `Slots` probes; a failure reopens
it, the `Needed`-th success closes it. It leaves open what the two implementations do
differently: whether successes of an earlier HALF_OPEN period count, and whether a
late failure starts the wait anew. Slots are counted by what was admitted, which no
implementation can take back.

The refinement mappings read the abstract counters only in the phase they belong
to: `failures` is the failure counter while CLOSED and 0 otherwise, `waited` the time
while OPEN, `granted` the slots while HALF_OPEN. In `RetryBreakerCalls` `granted` is
`halfOpenCalls + 1` and `Slots` is `HalfOpenMaxCalls + 1`: the call that enters HALF_OPEN is
one of the probes, which the code's counter leaves out. In `CircuitBreaker` operators'
`force_open`, `force_close` and `reset` are the abstract `Command`. `StepsOfBreaker` is the
refinement of the steps; the abstract liveness, `BlocksTemporarily`, is part of
`RecoversWithService` in one component and is `NeverBlockedForGood` in the other.

In `KillSwitch` the breaker's callers are trigger calls, which ask once and report once
for up to `MaxCloseRetries` orders of a position. `BreakerKept` is the refinement there.
No call of this component is cancelled, so every admitted call reports and none of the
exceptions that `RetryBreakerCalls` has to make is left: `RefusesOnlyMeanwhile`.

### 2.7 PaperOrchestrator and SymbolRegistry

A call of `process_signal` stands for its signal, its order and the position it may
open, as its correlation id does in the code. `pc` is the await it is at: the gates
(`Begin`, `Throttled`, `Refused`), the check for a position (`NoPosition`, `ToClose`,
`LockPosition` with the look under the lock), the registry (`AcquireSymbol`, `SymbolTaken`,
`AcquireFails`), the order (`OrderRaises`, `Filled`, `NotFilled`). Whoever closes a
position, a call, the SL/TP loop or an operator, goes through the same steps of
`close_position`: `CloseTracked` (or `CloseUnsaved`, `CloseMissing`), `ReadOwner`,
`DeleteKey` (or `ReleaseFails`), `Book`. `Stop` cancels the processing task, with the
call it runs, then `StopLoop` the loop; `Restart` forgets the tracker's positions, as the
code does, while the registry's keys live on in Redis.

`deployed` is how the orchestrator is used: *serial* (signals come through the queue
only), *cadence* (the evaluation interval is positive) or *registry* (a registry is
configured). In the code the first two usually hold together and the third is
configured in tests only; studying each alone shows that each is enough. Two facts about
time are assumed (`OrchestratorAssumption`): a call is shorter than the evaluation
interval (five minutes unless configured), and two calls are shorter than the
registry's TTL (an hour). Without the first two calls could overlap in spite of the
cadence; without the second a key could expire under the call that set it.

`troubled` and `exposed` are history variables. `troubled` has the calls that an exception, a
cancellation or a restart cut short; `exposed` the symbols on which an acquisition
failed open (the code then trades on) or a `DEL` removed a key that had changed hands
since the `GET`. The properties name them, so that what they except is visible.

`PositionBook` knows of a position only whether it is open, its profit *owed*, *booked* or
*lost*. The mapping calls a profit owed while some task is past the close and before the
booking of that position; a symbol is *exclusive* as long as a guard of the deployment keeps
it so (with the registry: until it is exposed), and a position may be lost only when it is
in `troubled`.

Left out: what the gates read (cooldown, kill switches, prices, the LLM, risk limits: a
call may be refused), directions and ages (a signal may close the position it finds or
be refused by it), partial and late fills, journal, notifications, outcome capture and
metrics (their exceptions are caught).

## 3. The runs

| run | instance | distinct states | question |
|---|---|---|---|
| `breaker` | 3 threads, 2 slots, threshold 2, timeout 2 | 660 | Do late results, operators and unreported probes break slots or counters? Is every step one of `Breaker`? Does the breaker keep admitting and recover? |
| `breaker_unreported` | the same | until the violation | Does it block only temporarily even if probes do not report? *No* |
| `retry` | 3 tasks, 1 slot, success threshold 2 | 415 | Is every step one of `Breaker`? Is a breaker that needs every call it admits ever stuck, or blocked for good, cancelled probes aside? |
| `kill` | 2 trigger calls, 1 position, 2 attempts, 2 orders at work, 1 queued operator, a breaker that opens at once | 559,912 | Is every step one of `Liquidation`, so that what is listed is ordered closed or reported? Are the books never closed without an order, are locks handed on, does the breaker refuse only for a time, does every call return? |
| `kill_disabled` | 1 trigger, 1 position | until the violation | Can a disabled switch trigger? *Yes* |
| `idempotency` | 2 placers and 3 reservers in 2 processes, 2 orders, all 12 conditions | 720,542 | Is placing an order one step of `OrderGate`? What else does the store promise, under which conditions? |
| `idempotency_overlap` | 2 placers, 1 order | until the violation | Are overlapping calls detected? *No* |
| `failover` | a primary that may come and go, 2 backups, all 4 conditions | 148,914 | Do state, active instance and flags agree; is a failed instance left, a healthy primary returned to? |
| `failover_stuck` | 2 instances that stay registered | until the violation | Is the service available again once all are healthy? *No* |
| `consumer` | 2 instances, a signal under a key and on the stream, one on the stream only, 6 conditions | 383,491 | Is every step one of `SignalIntake`? Does the lock exclude, is what was left behind taken over, does the switch stop polls? |
| `consumer_overlap` | the same, keyed signal off the stream | until the violation | Does the lock prevent double submission? *No* |
| `orchestrator` | 2 signals on a symbol, SL/TP loop, an operator, 3 deployments | 77,135 | Is every step one of `PositionBook`? Is there one position per symbol, does its key come free, is its stop loss acted on? |

Five runs find a disagreement between the code and what it, its tests or its documents
say; section 6 describes them.

### 3.1 Why the bounds are enough

- `breaker`: with one thread more than slots, a late result of an earlier period meets a
  period whose slots are all taken. Threshold and slots of 2 tell "first", "last" and
  "between" apart; a timeout of 2 has an instant before it and one after it.
- `retry`: success threshold = slots + 1 is the largest the uncounted entering call
  leaves reachable; anything larger is stuck by arithmetic, anything smaller has spare
  slots. `CHECK_DEADLOCK FALSE`: when every probe was cancelled the breaker and its tasks
  really have nothing left to do.
- `kill`: two calls that both find the position open are the smallest overlap; two
  attempts are the smallest retry. One queued operator command suffices to change the
  state between the two checks. `MaxWorking` = 2 lets the orders of both calls, or of both
  attempts, be at work together. Positions meet only in the breaker and in the order of the
  list; the run keeps one for its liveness check, and the theorems cover any numbers.
- `idempotency`: the placers are in different processes; two reservers share a process, so
  that its local store has to tell them apart, and the third is in the other, so that Redis has.
- `failover`: two backups, so that the choice by rank and a failover from backup to
  backup occur; recovery threshold 2 lets a success be interrupted.
- `consumer`: one condition at a time first, then those that act together; two instances
  are what a lock excludes. The signal that is both keyed and streamed is
  the one the two paths can both put. Switch TTL 3 is above cache age 2, so that
  a status can be stale while the switch is on and after it has expired.
- `orchestrator`: two signals on one symbol are the smallest that compete, and the
  second can also close the first one's position. Symbols do not interact. TTL 3 is the
  smallest above two calls of span 1, evaluation interval 2 the smallest above one. A
  stale `DEL` needs a third call to do damage: safety was also checked with three calls
  in the registry deployment (1.28 million states), and the theorems cover any
  number.

Bounds in guards or caps: `MaxWaiting` (queued operators), `UpTo(2, ...)` on
`submissions`, counters stopped at their thresholds, `elapsed` and `since` stopped at the
largest value they are compared with. Positions open once and streamed signals are
published once.

### 3.2 Fairness

- `breaker`, `retry`: time passes; callers keep calling; a running call ends,
  reporting or not. Nobody must report: the liveness properties carry `lost` instead.
- `kill`: the event loop runs every task that can go on; metrics writes and order
  requests end, if only by their client timeouts. Nobody has to call, and the exchange has to
  execute nothing. A step of a call always changes its place or its list, so fairness names
  these as the subscript, which is the same as all variables and quicker to check.
- `failover`: time passes, and that is all. Nothing in the repository keeps reporting health to
  the failover manager: `_periodic_check_loop` (`infrastructure/ha/health_check.py:148`) calls no
  callback, and the HA manager's callback passes the service's name, which is no instance's
  id (`infrastructure/ha/manager.py:144`). `LeavesFailedInstance`, `FailsBack` and
  `AvailableWhenHealthy` are therefore conditional on `ReportsKeepComing` (of the
  primary only, in `FailsBack`): they say what the manager does with reports if somebody makes
  them. `FailsBack` also supposes that failovers stop (`since # 0` for ever): each one restarts
  the failback delay.
- `consumer`: an instance that is up keeps polling; a lock's TTL runs out; time
  passes. Nobody has to start an instance or publish. `TakenOver` supposes that
  interruptions end with one instance up, that the switch stays off and that Redis
  answers.

- `orchestrator`: a call that has begun goes on, and so does whoever is closing a position;
  time passes. Strong fairness of `CheckPosition` and `Trigger` says that the loop comes
  back to a position again and again when its lock is free, and that a level which is
  reached at check after check is found reached: each pass visits every open position
  (`_sltp_monitoring_loop`), a lock is held only for one close, and without a price no
  loop could act. Nobody has to send signals, call `close_position`, stop or restart.

## 4. What is proved

Assumptions are the named `ASSUME`s of the modules: thresholds and TTLs are
positive naturals, thread sets finite, reserved values outside the sets. Nothing
bounds the number of threads, instances, positions, orders or signals.

**CircuitBreaker.** `TypeCorrect` is inductive as it stands, once a lemma shows the
probes finite. `CountersCorrect` proves `EvidenceIsFresh` and `FailsFast` together: each
needs the other, since the failures a HALF_OPEN period starts with come from the CLOSED one.
`ProbesAreBounded` and `NeverStuckHalfOpen` follow from `SlotInv`: outside HALF_OPEN there are
no probes; inside, the probes are at most the slots taken, and the slots taken at most
successes plus probes unless one was lost. The last inequality is the heart of it: a
slot always becomes a success that counts towards closing, a failure that reopens, or
a lost probe. `ImplementsBreaker`: each step is a step of `Breaker`, a command or a stutter;
it rests on the counters' invariant, since `Breaker` keeps no failures outside CLOSED.

**RetryBreakerCalls.** `Slots` is the same idea for the breaker whose entering call is
not counted: in HALF_OPEN the probes are at most `halfOpenCalls + 1`, and unless one was
cancelled `halfOpenCalls + 1` is at most successes plus probes, old successes included.
`ProbesAreBounded`, `NeverStuckHalfOpen` and `ImplementsBreaker` follow; the second uses that
success_threshold is at most half_open_max_calls + 1.

**KillSwitch.** `TypeCorrect` comes first, with the two facts about locks that the
rest needs: a call that hands the trigger lock on is at the head of its queue
(`HoldersLead`), so nobody else triggers while one writes the TRIGGERED state, and the writer
is the one that set it (`LoggerTriggered`). On these types rests one invariant, `Inv`:
no position is reversed; what is known, listed or ordered is there (`KnownIsThere`); a call works
on what its listing found, and what it takes for acknowledged has been ordered
(`ProgressInv`); then `BooksNotAhead` and `NoPositionEscapes` themselves. The heart of it is
`OrderedStays`: once an order for a position was accepted, either it is at work or it has left
its trace on the market, whoever sent it and whatever came after. `EveryPositionAccounted`,
`ClosesNeverReverse` and `BooksNeverAhead` are conjuncts. The breaker plays no part: the proof
holds whatever it answers.

`ImplementsLiquidation` reads the abstract lists off the same invariant: a step changes
`Owed` and `Reported` only as an abstract one may, and for most of its actions only the
call that triggered matters (`ListsKept`). A position that this call strikes off has an order
or is reported (`StrikeRefines`); one that an overtaken call strikes off is nobody's debt.
`LocksHandedOn` is an invariant of its own,
`LockInv`: no call stands
in a queue twice (`Distinct`; commands are not told apart), those of the trigger queue
behind its head are "queued",
and those of the state queue that are not commands are "waiting" and hold the trigger lock.
`JoinQueue` and `LeaveQueue` say what an append and a removal at the head do to such a queue.

Of the exchange breaker, `BreakerOperation` shows that each method, whoever calls it, is a
step of `Breaker` or a stutter, and `OneOperation` that each step of the executor is at most
one of them: together `ImplementsBreaker`. `RefusalsEnd` counts orders instead of probes: in
HALF_OPEN the calls admitted (`halfOpenCalls + 1`) are at most the successes plus the orders
under way (`AdmittedReport`). An order admitted before the breaker opened counts too, for its
success does; so the argument needs no memory of which call is a probe of which period.

**OrderIdempotency.** `NoDuplicates`: when calls for an order follow one another,
Redis answers and no reply is lost, an order between check and decision has not been
accepted, and an accepted order is marked or about to be. `RefusalsAreJustified`
needs that only placers of unreserved orders mark them (`Roles`) and holds under every
condition. `ImplementsGate` takes the invariant of `NoDuplicates` and adds only how each
step moves the phases (`PhaseMoves`). `ReservationsAreUnique` is about Redis up: nobody reaches
the fallback, and the one let through has left its key. `LocalStoreStandsIn` is about Redis
down: who was let through is in the local store of its process, who is about to be is not, and
there is one such call per order (`LocalInv`). Between the two, when an outage begins or
ends, each store ignores what the other holds, and nothing is claimed.

**Failover.** `TypeCorrect` includes that the active instance is registered.
`StateNamesActive` strengthens `StateMatchesActive` to a predicate on the route that each
internal method, alone or one after another within a report, preserves.

**SignalConsumer.** `TypeCorrect` needs `Placed`: which kind of signal an instance can have
at hand where it is. `LockIsExclusive` (`LInv`): whoever is in a section has its key in
Redis and is alone; a `DELETE` regardless of ownership is harmless because the lock cannot
expire under its holder. `RecordsFollowSubmission` (`RInv`) counts as a record also the
place of an instance that has put its signal. `MessagesPutOnce` (`SInv`): a message is in at most
one batch, and not put until its instance has it at hand. `ProcessedNotPutAgain` (`AInv`):
with one instance, the processed set is a subset of its copy, and what it is about to put
is outside both. These three are the guards of the abstract actions, so that
`ImplementsIntake` needs only one fact more, that no copy is ahead of the set (`KInv`).
`SwitchStopsBatches` (`WInv`): as long as Redis answers, an instance whose fresh cache says
"inactive" asked no longer ago than the switch has been on.

**PaperOrchestrator.** `OnePosition` has three arguments, one per deployment. *Serial* and
*cadence* share two parts of the invariant: `Exclusive` (calls on a symbol do not
overlap; with the cadence, because the time since the last evaluation is at most the
age of the call in flight, below the interval) and `Cleared` (a call past the check has
no open position in its way but the one it is about to close). *Registry* rests on
`Kept`: on a symbol that is not exposed, a call that is placing its order has the key
for at least the TTL less its age; and a call past the check that has a position in its
way cannot acquire the symbol, since that position's key, set while the call was under
way, outlives it. Nothing protects an open position after its key has expired, but by
then such a call is over and a later one finds the position. That is where
`2 * CallSpan < RegistryTtl` is used.
`ImplementsBook` reads the phase of each position off that invariant: the checks above are
what the abstract `Open` asks for, and the closing tasks' part of it makes "owed" last
until the one booking. `LostOnlyOwed` is the step that an interruption takes.
`ProfitsBooked` needs that of the tasks that hold a position only the one that took it
from the tracker goes on to book (`Settled`), locks or no locks. `KeysHaveReason` is
inductive together with the types.

**Failover** also has `OneIsServing`, and **OrderIdempotency** `AcceptedStaysMarked`, from the
same invariants.

Only model-checked is liveness under fairness, which is out of the prover's reach:
`RecoversWithService`, `NeverBlockedForGood`, `EveryCallReturns`, `LeavesFailedInstance`, `FailsBack`,
`TakenOver`, `SymbolComesFree` and `TriggersActed`. Every other property of a passing run
is stated by a theorem, and the safety that the liveness arguments lean on is proved:
`NeverStuckHalfOpen` and `RefusalsEnd` for the breakers, `LocksHandedOn` for the kill switch,
`KeysHaveReason` for the symbols, `LockIsExclusive` for the takeover.

## 5. What the properties do not say

A late result counts as the result of a probe (`common/circuit_breaker.py:302`), so an
old success can help to close the breaker: the code's choice, and no property forbids it.
`execute_kill_switch` returns `success=True` with failed positions in its result;
`NoPositionEscapes` asks that they be in it, not that they be tried again. It is about the
positions that were open in the tracker at the listing, and it excepts the rest that an executed
order left: the code never looks at either again. `BooksNotAhead` asks for an accepted
order, not for its execution, because the code does not wait for that.
`ReservedOncePerProcess` says nothing about reservations made before an outage or looked up after
it. `LeavesFailedInstance` and `FailsBack` say nothing when nobody reports health.
`StateMatchesActive` excepts operators that name a target. `TakenOver` is checked with a finite
stream, and a stream that never runs dry would keep the keys from being scanned
(`execution/paper/signal_consumer.py:480`); the group is created at "$" (137), so messages
published before there is a group are nobody's, and the model's are those after.
`TakesIn` says at most once of the stream: a message whose instance ends before it put the
signal stays pending, since the stream is read with ">" only. `OnePositionPerSymbol` excepts
symbols on which the registry failed open: the code proceeds "without symbol lock"
(`execution/paper/orchestrator.py:1500`). `KeepsBook` (through
`PositionBook`'s `Interrupt`) and `HeldForReason` except calls that were cut short: the profit of a position whose saving raised is not booked, and its
key stays until it expires (`SymbolComesFree` says that it does). `TriggersActed` says
nothing of positions that a restart forgot.

## 6. Where code and text disagree

1. **`breaker_unreported`**: `check_circuit_breaker` (`execution/safety_orchestrator.py:334`)
   takes a HALF_OPEN slot and reports nothing; so does `call` for exceptions outside
   `expected_exception`. When all slots are gone the breaker blocks until somebody resets it.
2. **`kill_disabled`**: `disable()` while a trigger waits for the state lock is overruled:
   the re-check under the lock (`execution/kill_switch/executor.py:284`) tests TRIGGERED only.
3. **`idempotency_overlap`**: two overlapping `place_order` calls both pass the check
   (`data/exchange/bybit_connector.py:782`).
4. **`failover_stuck`**: from UNAVAILABLE only a further failure of the active
   instance leads away (`infrastructure/ha/failover.py:128`).
5. **`consumer_overlap`**: the processed set and the status are read before the lock
   (`execution/paper/signal_consumer.py:528`) and not again after it.

Noted while reading, without a run of their own: the retry breaker admits
half_open_max_calls + 1 probes and keeps successes of a failed HALF_OPEN period
(`execution/kill_switch/retry_handler.py:144,170`); a lost reply makes `place_order` remove
the protection of an accepted order (`bybit_connector.py:850`); marks placed in an outage
are invisible after it (`order_idempotency.py:213`); each failover restarts the failback
delay (`failover.py:180`); `force_failover` to a named instance leaves `_state` as it
was (`failover.py:244`); the HA manager reports health under the service's name, not the
instance's id (`infrastructure/ha/manager.py:144`), and the periodic checks report to nobody
(`infrastructure/ha/health_check.py:148`); a message of a symbol that is not
allowed is logged as "will retry if symbol is later added to allowlist"
(`execution/paper/signal_consumer.py:636`), but it stays pending and ">" never reads it again.

Noted on the kill switch and its orders:

- An acknowledgement is taken for a closed position: the status ("Created") is never read
  (`execution/kill_switch/executor.py:554-602`), and the quantity was rounded down to the lot
  (`data/exchange/bybit_connector.py:790-810`). What is left of the position stays open with the books
  closed.
- A market order is answered with `"price": price or 0.0` (`bybit_connector.py:846`), so the
  tracker books such a close at price 0.
- Two overlapping triggers, or a later trigger after an update that reopened the position in
  the tracker, may book the same position twice: `close_position` does not ask for its status and
  adds the profit each time (`portfolio/state_management/tracker.py:556`).
- A position that the tracker learns of after the listing is closed by nobody, although the
  switch is TRIGGERED: `handle_position_update` (424) does not ask it, and further triggers are
  refused. A position that is pending in the tracker is not listed.
- An overtaken call clears nothing: it closes on after a reauthorization, with its old list.

Noted on the paper orchestrator:

- `release_symbol` "Verifies the position_id matches before releasing"
  (`execution/paper/symbol_registry.py:145`), but in a command of its own: a key that
  expires and is set anew in between is deleted. The TTL of an hour is shorter than
  positions may live, and `extend_ttl` has no caller. The model's `exposed` records it.
- A restart forgets open positions: `recover_from_persistence` (`position_tracker.py:326`)
  has no caller in the start-up path.
- `BybitDemoConnector.from_env` passes no Redis client, so `_is_duplicate_exec`
  (`execution/connectors/bybit_demo_connector.py:1737`) never finds a duplicate; its
  `_retry.execute(self.connector.place_order, ...)` (873) carries no client order id, so a
  retry after a lost answer is a new order to the exchange.
- An order still partly filled or pending when the polls end is "not filled" to the
  orchestrator; a fill that arrives later changes the order, not the tracker.
- The SL/TP loop's staleness check skips a price unchanged for a minute without
  renewing its time, so an unchanged price stays stale until it changes
  (`orchestrator.py:2375`).
- The kill switches are read several awaits before the order and not again.

## 7. Plan

Done, in this order: breakers, kill switch, idempotency, failover, signal intake, the paper
orchestrator; the abstract breaker, liquidation, order gate, signal intake and position book,
each with a proof that the component implements it. Next:

1. `RollbackCoordinator` (`autonomous_control_plane/components/rollback_coordinator.py`): an
   expiring lock released only by its owner, steps with timeouts, a deadline,
   scheduled rollbacks executed once. Time in five-second ticks; one run.
2. Late fills: the fill listener and the reconciliation monitor beside
   `PaperOrchestrator`; `PaperKillSwitch` composed with it.
3. Canary promotion and live gating; dead letter queue with retry coordinator and
   budget; incidents; the supervisor; outcome persistence; HA manager over `Failover`.
4. The other breakers (`llm/circuit_breaker.py`, `signal_inference/degradation.py`,
   `data_ingestion/ohlcv_fetcher.py`) as implementations of `Breaker`.
5. Proofs: an abstract specification of the failover manager that says when an active
   instance may change, by whom and how often; the composition of `RetryBreakerCalls` and
   `KillSwitch` as one theorem about any callers that report; the safety of what is added.
   The number of runs is kept small: a new component takes one run and shares its
   configuration with the conditions it studies, as `env` does here.
