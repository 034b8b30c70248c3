# Verification of Alpha-Whales

TLA+ models of the execution core of Alpha-Whales (a Rust program that copies
the trades of watched Solana wallets through Jito bundles), TLC runs over small
instances of them, and TLAPS proofs of the properties that matter most.

Paths below are relative to the repository. `aw` stands for
`alpha-whales/src`, `core` for `core/src`, `dbo` for `alpha-dbo/src`.

## 1. The system

One process runs a set of workers. Ingestion decodes swaps from the chain; a
webhook or the ingestion side turns a trade of a watched wallet into a
`WhaleSignal` and puts it on a bounded channel; a single **execution consumer**
takes signals off that channel and turns each into at most one buy bundle; every
accepted bundle gets a **handoff task** and then a **position watcher** of its
own, which reads prices from a broadcast and sells. A **bundle tracker** listens
to the block engine and tells the consumer what became of a bundle. An
**execution journal** on disk keeps a restart from buying twice. `BotState`
holds what all tasks share: position permits, mint locks, the circuit breaker.

| Component | Source | State | Operations | What makes it correct |
|---|---|---|---|---|
| Execution consumer and handoff | `aw/execution.rs` 1490-2303 | the signal at hand, the claims it holds | receive, gate, admit, lock, build, freshness, dedupe, reserve, submit, record, wait, hand off | one bundle per mint for ever; every claim released on every path; never wedged |
| Execution journal | `aw/execution.rs` 472-773 | the file, its lock file, reserved mints and capital in memory | load, reserve, record_acceptance, append | write-ahead of every send, over crashes; one writer; capital limit |
| Bot state | `core/state.rs` 35-180 | semaphore, `traded_mints`, shadow positions | try_acquire_position, try_lock_mint, unlock_mint | the cap on open positions; locks released |
| Circuit breaker | `core/state.rs` 203-248, `aw/exits.rs` 885-906 | streak counter, trip time | check, win, loss | a pause lasts its cooldown and ends |
| Bundle tracker | `core/bundle_tracker.rs` | records, notification, one subscription per region | register, poll, subscribe, process result, prune | first terminal status stands, is told once; records are served or expired |
| Exit watcher and sell pipeline | `aw/exits.rs` | price state, sale, attempts | tick, miss, deadline, sell, confirm | a close is a sale on chain; retries sell once; the watcher ends |
| Bundle dispatcher | `core/dispatcher.rs` | region clients, tip accounts, dedupe set | connect_all, fan_out_submit, take_tip_account, try_acquire | submitted and answered once; acknowledged only if held; tips rotate evenly; a fan-out ends |
| Tip engine | `core/tipping.rs` | telemetry and its age | calculate_tip | no bid on stale telemetry, bid within bounds |
| Telemetry database | `core/db.rs` | positions, bundles and trades tables | record_position, close_position, record_landed_bundle | no position row ahead of its trade; tables differ from the trades only by writes that failed |
| Swap ingestion | `core/websocket.rs` | subscription, stream epoch, bounded queue, broadcast | subscribe, decode, enqueue, reconnect | bounded; a gap in the prices changes the epoch; swaps are decoded as executed |
| Geyser stream | `core/geyser_stream.rs` | none | subscribe | nothing: it is never started |
| Pool resolution | `core/pool_cache.rs` | none (there is no cache behind the name: every call resolves anew) | list, look up, verify on chain | keys belong to the mint that asked and to the accounts on the chain |
| Configuration | `core/config.rs` | watchlist, lanes, live flags | load, hot reload | live only if both flags say so; the list never mixes two versions of the file |
| Webhook and signal channel | `aw/webhook.rs`, `aw/main.rs` | bounded channel of 16 | authorise, match, size, try_send | a matched trade of a readable body is queued or dropped, once, in order |
| Wiring | `dbo/main.rs` | the workers | start, heartbeat, joint end | one worker ends, all end |

`alpha-dbo` is outside the cargo workspace. Its `execution.rs`, `exits.rs` and
`webhook.rs` are near-duplicates of those of `alpha-whales`, and its `main.rs` is
the only place where all components are wired together: it is the reference for
the wiring, and `alpha-whales` for everything else.

### Hard behaviours

*Interleaving.* Consumer, handoff tasks, watchers, heartbeat, polling loop and
subscriptions run on a multi-threaded runtime and share `BotState`, the tracker's
map and atomics. Between any two awaits of one of them the others act.
*Failure.* Every await of the consumer can fail, and each failure path has its
own subset of claims to undo. *Crash.* A worker that returns ends the process;
the journal is all that survives. *Ambiguity.* A submission or a sale whose
answer is lost may have happened. *Time.* Mint locks, cooldown, signal age,
landing wait, confirmation polls, stale ticks and the four-hour deadline race
with the events they wait for. The list in `PROJECT.json` ("hazards") gives the
line at which each one bites and the properties that watch it.

## 2. Modules

| Module | Models | Checked by |
|---|---|---|
| `BuyOnce` | what the engine promises: reserve, then buy, each mint once | as a property of the two modules below |
| `WhaleExecution` | consumer, handoff and watcher tasks, process death, restart | `exec_safety`, `exec_dedupe`, TLAPS |
| `ExecutionJournal` | the journal at the level of lines, syncs and the lock file, one or more processes | `journal_safety`, TLAPS |
| `CircuitBreaker` | the check with its unlocked read, the streak updates, the clock | `breaker_reopens`, TLAPS |
| `BundleTracker` | polling loop, subscriptions, records, the consumer's wait, the block engine | `tracker_safety`, TLAPS |
| `ExitWatcher` | one watcher, its sell pipeline, the chain | `exit_safety`, TLAPS |
| `SubmitOnce` | what the consumer relies on when it submits: once, answered once, an acknowledgement is true | as a property of the module below |
| `Dispatcher` | the region clients, the fan-out, tip rotation and deduplication, and the consumer's use of them | `dispatch_safety`, TLAPS |
| `SwapFeed` | listener, queue, splitter, broadcast, adapter and mailbox of one position, and the shutdown | `swap_feed`, TLAPS |
| `SignalIntake` | webhook handlers, signal channel, watchlist and its hot reloader, live flags | `signal_intake`, TLAPS |
| `TelemetryDb` | the detached writes, the tables, the trades they speak of | `telemetry_db`, TLAPS |
| `Tipping` | the tip floor as parsed, the bid and its caps (operators) | through `SwapPreparation` |
| `RaydiumSwap` | the swap instruction as built and as decoded (operators) | through `SwapPreparation` |
| `PoolResolution` | the choice of a pool and the checks of its keys (operators) | through `SwapPreparation` |
| `SwapPreparation` | from an admitted signal to a signed bundle; what the feed makes of a transaction | `swap_preparation`, `swap_sentinel`, TLAPS |
| `*_proofs` | theorems and proofs about the module of that name, eight in all; `WhaleExecution_proofs` extends `CircuitBreaker` as well and `BundleTracker_proofs` extends `Dispatcher`, which is why those two have names of their own for `Init`, `Next` and the like | TLAPS |
| `MC*` | symmetry sets and constant values for TLC | |

Every module names its actions after the function or the step it stands for. The
definitions whose comment begins "Faulty variant of" are not part of any
specification: each is a bug the code could plausibly have, kept to show that a
property notices it.

### WhaleExecution

`pc` is the await the consumer has reached (`idle` is `signal_rx.recv()`). One
action is one stretch of code between two awaits at which another task can see
the difference: `BreakerGate`, `Admit` (journal check and permit), `LockMint`,
`Build` (tip gate, pool resolution or PumpPortal, blockhash, signing: succeed or
abandon), `CheckFresh`, `TakeDedupeKey`, `Reserve`, `Submit`, `RecordAcceptance`,
`SpawnHandoff`. `permits`, `mintLocks`, `dedupe`, `reserved`, `losses` and
`tripped` are the in-memory state; `journal` and `unloadable` are the file seen as
the set of mints it names and whether `load` would refuse it; `buys`, `inflight`
and `held` are what happened outside. `task[m]` is the task that owns the permit
of mint `m`. Because a bought mint stays reserved for ever there is at most one
task per mint.

Faults come in classes (`Faults`); `exec_safety` has all of them. Three history
variables keep what the code does not repair. `stranded` are the mints of the
staleness exit, which forgets its lock. `reported` are the mints whose handoff or
sale failed, in the step in which the code returns the permit and logs the mint
"for manual review" (`aw/execution.rs` 1896-1898). `left` are those a process that
ended had in hand, with nothing logged. `InHand` are the mints a task, or the
consumer between the acknowledgement and the spawn, still looks after. So
`NothingUnwatched` and `HeldWithinCap` speak of runs in which everything may fail,
and say that no token and no slot is let go of by any other step than these.

Time is abstracted: a lock may expire at any moment, the cooldown may
have run out at any check after the one that tripped.

Left out: amounts, slippage, lanes and transaction contents; the dry-run flag
(the consumer ignores it for buys); alerts and telemetry rows. A `panic!` in the
consumer (`aw/execution.rs` 1711) has the effect of `Crash`.

### ExecutionJournal

The file is a sequence of lines, `durable` of which are synced. `WriteLine` and
`SyncLine` are the two halves of `append`, `RemoveLock` and `Replay` the two
halves of `load`. `Kill` loses memory only, `PowerLoss` also cuts the file
anywhere behind `durable` and may tear the line it cuts. A torn tail has no
newline, so later lines are glued to it. `reserve` remembers a mint only after
the sync. A line that lost just its newline still parses; it is not distinguished
from a whole one, since the line appended next would make it a torn one. `incidents`
is the sequence of fault kinds that have struck, so that `RefusalsExplained` can
name the cause of each refusal of `load`: a torn line has a failed write or a power
failure behind it, a mint reserved twice or capital above the limit (`Overdrawn`) a
failed sync. The third refusal, a file above its size limit, needs no fault, since
nothing ever shortens the file; the run reaches it, and the property leaves it out.
Records with a wrong version or an empty field, which `load` refuses as well, are
not modelled: `append` does not write any. `Ledger` maps the journal to `BuyOnce`: a mint counts as reserved
if the durable prefix names it, and every mint does once that prefix would be
refused, since no successor then buys anything.

### CircuitBreaker

`LoadLosses` is the atomic load before `lock().await`; `Check` is the rest, under
the mutex and deciding by `seen`. `CloseTrade` is what `exits.rs` does to the
counter. `age` counts ticks since the trip, up to the cooldown.

### BundleTracker

`loop` follows `polling_loop` through its two waits, `sub[r]` the subscription
task of a region. `notified` is the single permit of `tokio::sync::Notify`.
`mail[r]` is what the block engine has sent on the open stream and the task has
not read. `engine[b]` is the block engine's own view and moves only forward.
`UpdateStatus` is `update_status`, used for results and for pruning. `Submit` and
`Register` are separate, since a result can arrive between them and finds no
record. Bundles are numbered in the order the consumer submits them. Left out:
slots, results without a variant (dropped by the code), `remove_bundle` and the
shutdown channel (nobody uses either), and duplicate registrations (a bundle id
is that of one transaction).

### ExitWatcher

Prices are integers in units of the entry price; the ratios of the code are
compared exactly. `Decision` runs the tests of `run_watcher` in their order:
panic, snap-back, scale-out, trailing stop. The moving average is not modelled:
the trail distance is any value the clamp allows. The threshold on the
log-return is the price ratio 0.87985. `viaPortal` says that the position has no
pool keys, so that each attempt asks PumpPortal for its transaction (`AskPortal`,
`PortalAnswers`) before it signs. `bundles` are the sell bundles ever sent,
the chain decides each (`Settle`) and cannot land one without the tokens. Left
out: dry-run, alerts, the shadow map (never filled), slippage and tips.

### Dispatcher

`phase` is the consumer: connecting to the regions one after the other, waiting
for a signal, building, deduplicated, submitting; `tried` counts the definitions it
has tried to connect. `TakeTip` is the rotation over regions and within a region,
`NoTip` the call that finds no region with an account; `turns` and `taken` count
what each region and each account has given (history). `FanOut` starts
a task per client; `Answered`, `Refused` and `SubmitTimesOut` are the outcomes
of `submit`, and `Arrive` moves a bundle from the wire to a block engine, also after
its sender gave up. `JoinAll` is `join_all` and the choice of the answer. The
consumer reads the bundle id of the acknowledgement only, so its region is not
kept. Labels of regions are taken to be distinct (`DefinitionsAssumption`), for which
`JITO_REGIONS` is not checked (`dbo/main.rs` 301-317). Left out: building and signing
(succeed or give up), `prune_dedupe` (no caller), the content of bundle ids.

### SwapFeed

Swaps are numbered in the order of the chain. `conn` is where `run_listener` is;
`Miss` is a swap that passes while it is not subscribed, `Notify` a transaction
whose swaps `EnqueueNext` then offers one by one to the bounded queue, without an
await in between. `QueueFull` drops the event and moves `STREAM_EPOCH` on, as does
every new subscription. `Split` is the splitter thread, `log` all it has
broadcast; `cursor` and `Lag` are the receiver of the adapter, which a full
broadcast overruns. `held` is the event on which the adapter awaits its watcher's
mailbox. `Shutdown` is the end of `main`: `abort_all`, the join of the listener and
of the monitor, which waits for the splitter. `lost`, `skipped` and `lagged` are
history. Left out: prices; what a watcher does with them is `ExitWatcher`. (The
maths loop that comments of `dbo/main.rs` name, 255-262, 437 and 518, does not exist.)

### SignalIntake

A body with one transaction that cannot be read is refused as a whole by the
extractor (`RefuseBody`, `aw/webhook.rs` 83). Another request is authorised or
refused, and its transactions are taken in turn:
`Skip` (no trade of a watched kind), `Match` (size and lane from the watchlist as
it is at that moment), `Send` or `Drop` (`try_send`), `Answer`. Requests are
handled concurrently. `phase` is the hot reloader: it polls, loads the file,
clears the list entry by entry and fills it entry by entry, and only then keeps
the time of the file it had noticed. A version of the file is the sequence of its
rows; `LaneOf` is the classification by win rate and profit factor. `Start` reads
the live flags: the consumer takes signals (`Receive`) only in live mode, in
shadow mode nobody does and the channel stays full once it is. Left out: the
wording of answers and the arithmetic of trade sizes.

### TelemetryDb

`stage[m]` is the one trade the process makes of a mint, and every step of it
issues the calls the code issues: the tracker's and the consumer's row of the
bundle, the position with its row in `open_positions`, the buy log, the close.
`called` collects them, `pending` are those whose detached task has not run, and
`Execute` runs any of them; opening and closing spawn a second write. A write has
three ends: it takes effect, its statement errs and is logged and lost
(`StatementErrs`), or there is no connection (`Unavailable`, when `init_db` failed;
only `dbo/main.rs` 238 calls it, in live mode). `failed` and `dropped` keep which. A
statement errs when SQLite refuses it, and up to `MaxErrors` others do for reasons of
their own. The one that is always refused is that of `record_position`, whose empty
bundle id has no row in `bundles`: the bundled SQLite enforces `REFERENCES` unless
told otherwise, and `enforced` may be either, for a library built without. `raced`
remembers the mints closed while their opening was still pending. `Crash` drops what
is pending and keeps the tables; the next process has a connection or not. Left out:
the whale history, the `get_*` queries and `record_failed_bundle`, which have no
callers, and the contents of rows.

### Tipping, RaydiumSwap, PoolResolution, SwapPreparation

The first three are operators for the algorithms: `ParseTipFloor` and
`CalculateTip`; `Construct`, `Protect` and, in the other direction, the decoding of
a transaction from its accounts and token balances in both account layouts; the
pool with the most liquidity and each check of its keys against the accounts on
the chain. A `Result` is a set of at most one element.

`SwapPreparation` lets them act. `Begin` is the tip gate on the snapshot that
`Refresh` and `RefreshFails` keep (the task of the tip engine); `Gather` answers the
four requests that `join!` runs concurrently, from a wallet that `WalletChanges` may
alter in between; `RejectAnswers`, `Sign` and `SignFails` check the answers and
build the instruction with its sentinel; `PumpSign`, `PumpFails` and `PumpPanics`
are the PumpPortal path. `free`, `fetched` and most fields of `bundle` are history.
`Notify` hands the feed a transaction together with the swaps it executed. What a
network does with swaps is said once, for the instance and the proofs: `Ledger` is
the balance of a vault as one swap after the other is executed, `Executes` relates
an instruction to its swap, and `TrafficAssumption` demands that the balances a
transaction reports are those of the ledger. Abstractions, each of which only
removes behaviours that cannot matter to the properties: the snapshot is refreshed
only until the gate has read it; the wallet changes only while requests are open;
the clock starts at 1; feed and consumer, which share nothing, do not act in one
behaviour. Left out: the rent request, the layout of account data (its fields have
names) and what PumpPortal puts in its transaction.

### How they fit together

`WhaleExecution` sees the journal as the set of mints it names and the dispatcher
as one step with four outcomes (acknowledged or not, landing or not).
`ExecutionJournal` and `Dispatcher` open these two steps up, and each is shown to
implement what the engine relies on: `BuyOnce` with the durable prefix as the
reservations, and `SubmitOnce`. `WhaleExecution` implements `BuyOnce` too, over its
abstract journal. `BundleTracker` opens up the landing wait and `ExitWatcher` the
position task after the handoff; `CircuitBreaker` opens up the gate;
`SwapPreparation` opens up the step `Build`, with `Tipping`, `PoolResolution` and
`RaydiumSwap` as its vocabulary. `SignalIntake` stands in front of `WhaleExecution`:
what it receives are the latter's signals. `SwapFeed` is the feed whose ticks,
silence and end `ExitWatcher` takes as given. `TelemetryDb` follows the calls of the
tracker, the consumer and the watcher; no one reads its tables back, so nothing
depends on it.

## 3. Runs

Passing runs (bounds in the `.cfg` files):

| Run | Shows | Bounds, and why they suffice |
|---|---|---|
| `exec_safety` | one buy per mint, permits conserved, early exits release their mint unless the signal went stale, cap and watch over what the wallet holds, `BuyOnce` implemented; the consumer returns and tasks end | all faults; 3 mints, 2 permits, 3 signals, 1 restart: contention for permits, a cap that could be passed by one, a repeated mint before and after a crash, two tasks and the consumer at once |
| `journal_safety` | write-ahead, one send per mint, capital limit, every refusal of `load` has its cause, the lock is ours, `BuyOnce` implemented | 3 mints, amounts 1 and 2 under a limit of 4, 3 faults of any kind: a failed sync, the retry, and a crash on top; a size limit of 5 lines, one less than three trades write |
| `breaker_reopens` | types; trading reopens | 2 callers, wins and losses, threshold and cooldown 3, 5 losses: past the threshold while tripped |
| `tracker_safety` | first status stands and is told once; subscriptions joined; the loop returns with a silent block engine | 3 bundles (the third registration is what wakes an idle loop), the region of a client and the label "ack-region" of the consumer, streams that fail, records that age, one kind of confirmation; any number of streams and all results are covered by the proofs. Traffic is finite: with results that never cease, each within the time-out, a round of the code need not end |
| `exit_safety` | books closed once for a sale; retries sell once; the watcher ends, unless PumpPortal stays silent | 8 prices around every threshold, 3 ticks, 5 attempts as in the code, 2 stale ticks |
| `dispatch_safety` | tips balanced, nothing left running, a fan-out ends, `SubmitOnce` implemented | 3 regions, each connected or not, with 0 or 2 tip accounts; 2 opportunities, up to 3 tips from each region: a region without accounts between two others, both accounts of one region and its wrap-around |
| `swap_feed` | the epoch marks every gap; a watcher misses only what its adapter was told; a stopping process returns | every capacity 1, so that each hop overflows; 4 swaps in transactions of up to 2, any of them of another pool or filtered; 2 epochs: drops within an epoch and across a reconnection |
| `signal_intake` | every matched trade is queued or counted as dropped, in order; the list never mixes two versions of the file; no purchase without both flags; edits are picked up | 2 requests at once on a channel of 1, each of three trades or of two, one of which cannot be read; 2 whales, of whom one changes lanes and then leaves; three versions of the file, so that an edit falls into the reload of another |
| `telemetry_db` | no position and no buy recorded ahead of its trade; drained tables differ from the trades only by what erred, was dropped or was overtaken | 2 mints whose writes interleave, all stages of both, one restart, with and without a connection in either process, references enforced or not, one statement that errs by chance (`MaxErrors`) on top of all that are refused |
| `swap_preparation` | signed for the pool the chain names, as quoted; no second bag; decoded as executed; the bid rests on a fresh floor | a sound pool, one that the API describes wrongly and a third for other traffic; wrong and unordered answers, and requests that fail; lamports small enough that each cap binds; transactions of one or two swaps over two pools in both layouts, in both directions, with and without the trailing account, executed or failed |

Deadlock checking is off where the system may really stop: signals, registrations,
tips and ticks are bounded, and a watcher or an unloadable journal ends for good.

Type invariants are proved (section 4), so that only `breaker_reopens` repeats one;
`ExecutionJournal!TypeOK` holds in `journal_safety` when it is added there.

Two runs are violated, each a disagreement between the code and its own comment, with
a finding in `PROJECT.json` that quotes the sentence:

| Run | What TLC shows |
|---|---|
| `exec_dedupe` | with two mints under a capital limit: a signal takes its dedupe key, its reservation is refused, and the same opportunity comes again and is turned away as a duplicate, though nothing was ever committed to it (`aw/execution.rs` 1782-1788, against 1753). The gate is never of use for the others: a mint that was committed to is refused at the top of the loop |
| `swap_sentinel` | the sentinel makes 18 accounts of 17, which is the length of the other layout: every account from the fifth on is read one place too late (`aw/execution.rs` 163, against 158-161). The feed, which tells the layouts apart by their length, takes such a swap for the other one (`core/websocket.rs` 382-390) |

The modules state further sentences of the docs that the code does not keep. They
belong to no run; TLC refutes each within a minute when it replaces the
properties of the run named, with its constants changed as shown.

| Statement | Refuted in | Why |
|---|---|---|
| `WhaleExecution!EarlyExitReleasesMint` without `stranded` | `exec_safety` | a signal that expires while it is built keeps its mint locked (`aw/execution.rs` 1738) |
| `WhaleExecution!HeldWithinCap` and `NothingUnwatched` without `reported` and `left` | `exec_safety` | permits come back while tokens are held (`aw/execution.rs` 1896), and a restart watches nothing |
| `WhaleExecution!ReentryAfterExpiry` | `exec_safety`, as a PROPERTY | the journal refuses a mint for ever, `core/state.rs` 56 says four hours |
| `ExecutionJournal!AtMostOneSend` | `journal_safety`, `Executors = {e1, e2}` | a starting executor deletes the lock file of a running one; both buy one mint (`aw/execution.rs` 508) |
| `CircuitBreaker!CooldownHonoured` | `breaker_reopens`, `Results = {"loss"}` | a check that read the streak before the mutex ends another one's pause (`core/state.rs` 211) |
| the same | `breaker_reopens`, `Callers = {heartbeat}` | a position opened before the trip closes with a win (`aw/exits.rs` 894) |
| `BundleTracker!PendingServed` | `tracker_safety`, `Faults = {}` | the idle wait swallows the wake-up of a registration (`core/bundle_tracker.rs` 303) |
| the same | `tracker_safety`, `Faults = {"silent"}`, `Bundles = {1}` | no new subscription after a stream ends (`core/bundle_tracker.rs` 342) |
| `BundleTracker!AgedExpires` | `tracker_safety`, `BundleRegions = {ack}`, `Faults = {"slow"}`, `Bundles = {1}` | the consumer registers the region "ack-region", and a round only follows a registration |
| `BundleTracker!TrackerRowsLanded` | `tracker_safety` | accepted counts as landed (`core/bundle_tracker.rs` 465) |
| `BundleTracker!ConsumerRowsLanded` | `tracker_safety`, `Results = {"accepted", "rejected"}` | any answer is recorded as landed (`aw/execution.rs` 1859) |
| `ExitWatcher!StopLossHolds` | `exit_safety` | before the profit lock neither a slow fall nor one of more than 15 % at once reaches an exit test (`aw/exits.rs` 544) |
| `ExitWatcher!ScaleOutReached` | `exit_safety`, as a PROPERTY | the snap-back test comes first and sells everything (`aw/exits.rs` 573) |
| `ExitWatcher!SalesAreRetried` | `exit_safety`, as a PROPERTY | the first connection error, and a Raydium instruction that cannot be built, end a sale at its first attempt (`aw/exits.rs` 974, comment 948) |
| `ExitWatcher!ExhaustionMeansOpen` | `exit_safety` | a sale that confirms late is reported as failed (`aw/exits.rs` 843) |
| `SignalIntake!OthersDoNotMatter` | `signal_intake` | the extractor refuses all of a body for one transaction (`aw/webhook.rs` 83) |
| `TelemetryDb!LandedRowsLanded` | `telemetry_db` | the consumer writes a landed row for any terminal status, a rejection or an expiry included (`aw/execution.rs` 1848-1865, `core/db.rs` 307) |
| `TelemetryDb!SoldIsUnlisted` | `telemetry_db` | a close that runs before its insert finds nothing to remove (`core/db.rs` 356) |
| `TelemetryDb!HeldIsListed` | `telemetry_db` | the position is inserted with an empty bundle id, which its foreign key refuses (`aw/execution.rs` 2141, comment 2135; `core/db.rs` 59) |
| `SwapFeed!WatchersToldFirst` | `swap_feed` | `main` returns as soon as its workers have; adapters and watchers are detached (comment `dbo/main.rs` 517-519) |
| `SwapPreparation!NoSecondBagPump` | `swap_preparation` | a wallet that holds the token fails the Raydium checks, and the failure leads to PumpPortal, which has none (`aw/execution.rs` 1694) |

Two sentences about the dispatcher (`core/dispatcher.rs` 346 and 428) describe
another order than the code has: regions are connected one after the other, not
concurrently, and the acknowledgement returned is the first in the order of the
regions, after all have answered, not the first to arrive. No property depends on it.

### Fairness

*WhaleExecution.* The consumer, once it has a signal, and each position task are
weakly fair: RPC calls, the PumpPortal request of a purchase (whose client has a
time-out, `dbo/main.rs` 214), `fan_out_submit` and the landing wait have time-outs, a
handoff is cut off after 30 s and a watcher after four hours. Signals, the chain,
crashes and restarts are not fair. *CircuitBreaker.* The clock runs, whoever is
inside the check gets the mutex, and the heartbeat calls the check every minute
(`dbo/main.rs` 462-503); the consumer is not assumed to. *BundleTracker.* The loop
and the subscriptions are weakly fair, since every read has
`STREAM_HEARTBEAT_TIMEOUT`; block engine and consumer are not. *ExitWatcher.* The
wait for a tick and the requests to Jito and to the RPC node time out. The request to
PumpPortal has no time-out (`aw/exits.rs` 1135-1158), so its answer is not fair, and
neither is the deadline: `WatcherEnds` says that only this request can hold a watcher
up to its deadline. *Dispatcher.* Only the timer of each
`submit` and the join are fair; the network and the block engines are not.
*SwapFeed.* A batch is enqueued without an await, the splitter is an
operating-system thread, and `main` polls its workers until they are gone;
connection, traffic, adapter and watcher are not fair. *SignalIntake.* The reloader
polls once a minute for ever; requests, edits and the consumer are not fair.

## 4. Proofs

All are for any values of the constants under the assumptions named in the modules
(`MintsAssumption`, ...), which TLC evaluates in every run. A theorem that needs more
says so in its ASSUME. Those of the journal do (`OneExecutor`): this stands for a
disagreement between code and intention, and section 3 lists what TLC refutes without
it. So does `SentinelAlwaysMisleads`, below. In each proof module
`IInv` is the inductive invariant, `InitEstablishes` (or `InitIInv`) and one lemma per
action or group of actions show that it is kept, and the theorems are read off it.

| Module | Theorems |
|---|---|
| `WhaleExecution_proofs` | `TypeCorrect`, `BoughtAtMostOnce` (`NoDuplicateBuy`), `PermitAccounting` (`PermitsConserved`), `EngineImplementsBuyOnce` |
| | `EarlyExitUnlocks` (`EarlyExitReleasesMint`), `EveryPositionWatched` (`NothingUnwatched`), `PositionsCapped` (`HeldWithinCap`), all for any faults |
| the same, on `CircuitBreaker` | `BreakerTypeCorrect` |
| `BundleTracker_proofs` | `TypeCorrect`, `FirstStatusStands` (`AnswerStands`), `RoundsAreJoined` (`SubscriptionsJoined`) |
| the same, on `Dispatcher` | `DispatcherTypeCorrect`, `TipsRotate` (`TipsBalanced`), `FanOutLeavesNothing` (`NothingLeftRunning`), `DispatcherImplementsSubmitOnce` |
| `ExecutionJournal_proofs` | `RestartKnowsSends` (`ReplayCoversSends`), and for one executor `NeverSentTwice` (`AtMostOneSend`), `LockNeverForeign` (`LockFileIsOurs`), `CapitalStaysWithinLimit` (`CapitalBounded`), `RefusalsHaveACause` (`RefusalsExplained`), `JournalImplementsBuyOnce` |
| `ExitWatcher_proofs` | `TypeCorrect`, `BooksCloseOnce` (`ClosedMeansSold`), `BagSoldOnce` (`RetrySellsOnce`) |
| `SwapFeed_proofs` | `TypeCorrect`, `NoHiddenGap` (`EpochMarksGaps`), `NothingLostSilently` (`FeedFaithful`) |
| `SignalIntake_proofs` | `TypeCorrect`, `VersionsNeverMix` (`ListIsFile`), `ShadowNeverConsumes` (`LiveNeedsBothFlags`), `EveryTradeAccounted` (`TradesAccounted`) |
| `TelemetryDb_proofs` | `TypeCorrect`, `RowsNeverAhead` (`RowsJustified`), `BooksAgreeWhenDrained` (`DrainedBooksAgree`) |
| `SwapPreparation_proofs` | `TypeCorrect`, `SecondBagRefused` (`NoSecondBag`), `BidsAreCapped` (`BidOnFreshFloor`), `SignedTradesVerifiedPool` (`SignedForVerifiedPool`), `DecodedFaithfully` (`DecodedAsExecuted`), `SentinelAlwaysMisleads` (the finding of `swap_sentinel`, for every pool) |

*WhaleExecution.* `NoDuplicateBuy` is not inductive: the reason a mint is not bought
again lies in the memory of the running process (`reserved`) or, after a crash, in
the file. The invariant therefore says that a bought mint is in the journal, that
the memory of a running consumer is covered by the journal and covers every bought
mint, that the consumer has reserved but not yet bought the mint it is about to
submit, and that tasks belong to bought mints other than the consumer's. Permit
accounting needs the last part (a new task takes over the consumer's permit
without counting twice) and facts on the cardinality of `Owned` when one element
joins or leaves. Refinement maps `journal` to `reserved`: `Reserve` maps to
`BuyOnce!Reserve`, `Submit` to `BuyOnce!Buy`, everything else, crashes and restarts
included, to a stutter.

A lock without a commitment exists only between `LockMint` and the end of the
execution, and every failure but staleness takes it back; staleness enters the mint in
`stranded`. `NothingUnwatched` follows a token from the wire to the wallet: the
consumer looks after it until the handoff task does, a task that ends without having
sold enters its mint in `reported`, and the end of the process enters all that is in
hand in `left`. What is on the wire may land later, so the invariant (`WatchInv`)
covers bundles in flight as well as tokens held. `HeldWithinCap` is then counting: what is held and
neither logged nor left is owned, at most one owner is the consumer, and the permits
bound the owners.

*BundleTracker.* The strengthening adds that a region without a subscription has no
unread mail and that a bundle the consumer has yet to register has no record.

*Dispatcher.* `TipsBalanced` compares regions, but a step sees one. Inductive is how
often each region has had its turn: those before `nextRegion` once more than those
behind it (`Passes`), and the same within a region for its accounts (`PassesOf`); a
region without accounts is passed over and has no part in it. The other half follows
an opportunity: its key is in the dedupe set before it is on a wire, a client has at
most one task, an acknowledgement comes from a block engine that holds the bundle.
So every step of the dispatcher is a step of `SubmitOnce` or none.

*ExecutionJournal.* A mint is `Safe` if the durable lines name it or hold a torn one:
whatever a power failure cuts off, `load` then either learns of the mint or refuses
the file. Before its sync a reservation is somewhere in the file (`InFile`), the
sync makes all of the file safe, and only then is the bundle sent. This holds for
any number of executors. That no mint is sent twice needs more: the memory of a
running executor knows every mint sent, and a mint on its way to the send was not
sent before. With two executors neither holds, and the property fails.

`load` sums what the lines reserve, a recursion over the file. What the proofs need
of it (a total, its step, its growth with every line) is derived from the
recursive function by induction on the set of lengths for which it holds. Capital is
then followed like the mints: what was sent, with what is on its way, is covered by
the durable lines or a torn one is among them, and what the memory of a running
executor counts is no less. The refinement adds nothing new: what is committed only
grows, since no power failure reaches behind `durable`. That every refusal has its cause
follows the two causes separately. A line can be torn only by a step that enters
`"write"` or `"power"` in `incidents`. As long as no sync has failed, the
memory of a running executor covers every reservation in the file but the one it is
about to sync, so no mint is in it twice and its capital is within the limit, torn
lines or not; kills cut nothing off, and a power failure only shortens the file.

*ExitWatcher.* A sale is always of the whole bag and final, since whatever price
would reach the scale-out test meets the snap-back test first (`EverySaleIsFinal`).
So there is one sale, all its bundles compete for the same tokens, at most one
lands, and the attempt number bounds them. A build that reached its scale-out would
have to be proved anew: two sales share one budget of attempts and one wallet.

*SwapFeed.* Every swap is enqueued, lost or left out in the order of the chain
(`InChainOrder`), and while the listener streams nothing was lost behind an event
that carries the current epoch (`UnbrokenNow`). An epoch that ends never comes back,
so what holds of it while it is current holds for ever. `FeedFaithful` walks along the
log: what the watcher got, its mailbox and the event the adapter holds are, one after
the other, the swaps between the handoff and the cursor that were wanted and not lagged
behind, and no hop changes their order.

*SignalIntake.* `ListIsFile` is inductive with the types. `LiveNeedsBothFlags` goes
through the mode: what was received was received in live mode, and that mode was
chosen by both flags. `TradesAccounted` looks at each request alone: the signals it
handed over, taken together from channel and consumer in their order, and the drops
it counted are the trades of its payload behind it, and the handlers that run next
to it add signals of other requests only.

*TelemetryDb.* A write sees only its call, so `CallsMade` says which calls each stage
of a trade has made, and `RowsLeft` that no row is ahead of its calls. Agreement of
drained tables needs to know, while writes are pending, what each executed one has
left behind: `LedgerOf` says it call by call, a call being pending, dropped, failed or
in effect (`Took`). The exception is the sale that overtakes an opening, which `raced`
records when it is made; without it the close is issued after both opening writes
have run, which is what `ClosedInOrder` keeps. The second process makes no call for
the mints of the first, so that what was true when it started stays true.

*SwapPreparation.* Each answer about the wallet was true at some moment since the
signal (`AnswersSeen`); a signature needs both, so the wallet was free of the token in
both respects, if not at one moment. Bids rest on `TelemetryFetched`: the snapshot
was fetched when it says so.

`SignedForVerifiedPool` rests on `AnswersVerified`: pool keys that were answered
passed every check against the chain for this very signal. The rest is computation
over any keys: no account of the instruction is the sentinel before it is appended,
the seventeen accounts in front of it are read in their own layout, the three that
name pool and vaults differ, and a threshold at or above the rounded minimum is within
the slippage. It assumes that the sentinel is an address nobody uses
(`SentinelAssumption`) and that the two programs have two addresses. The same keys
show why `SentinelIgnored` fails: with eighteen accounts the quote vault is read where
the base vault is expected, for every pool that passes the checks
(`SentinelAlwaysMisleads`; it takes the market's program to be no account of a pool).

`DecodedAsExecuted` is a fact about one transaction, of any number of swaps. If both
vaults that were read have balances, they were read in the layout the instruction
has: in the other one, a neighbour that is no token account would stand for a vault
(`VaultsMatch`). `Unambiguous` compares vaults as read, so by then vaults as used: no
other swap touches them (`Alone`). A balance that only one swap touches changes by
what that swap moves (`OneSwapMoves`, by induction along the ledger), which is what
`Delta` finds. It assumes `TrafficAssumption`: nothing but swaps moves tokens of the
vaults, so a deposit or withdrawal in the same transaction is outside the theorem
(section 5), and the accounts beside the vaults hold no tokens.

Only model-checked: all liveness, which rests on fairness (`ConsumerReturns`,
`TasksEnd`, `BreakerReopens`, `PollingReturns`, `WatcherEnds`, `FanOutReturns`,
`ShutdownCompletes`, `EditsPickedUp`).

## 5. Observations

Met while modelling. No property depends on them, either because nothing in the
repository says otherwise or because the data they concern is abstracted.

- The capital at risk of a reservation uses the configured tip, not the one that
  was bid (`aw/execution.rs` 632, 762-773).
- A bid may be zero, below what a block engine accepts: no cap has a lower bound
  (`core/tipping.rs`). `TIP_MAX_PROFIT_SHARE_BPS` has no upper bound.
- Any failure of the Raydium path, a failed check included, leads a pump.fun signal
  to PumpPortal (`aw/execution.rs` 1694). There `take_tip_account().await.unwrap()`
  ends the consumer, and with it the process, if no region has an account (1711).
- The last attempts of a sale whose minimum output rounds to 0 fail at once and are
  not retried (`aw/exits.rs` 1060).
- A sale whose protection cannot be applied is logged and sent without it
  (`aw/exits.rs` 1072).
- The market accounts of a pool are checked by their owner only
  (`core/pool_cache.rs` 480). A deposit into a pool's vaults in the transaction of a
  swap is counted as part of the swap (`core/websocket.rs` 588).
- `validate_bundle_protection` (`aw/execution.rs` 207) is called from code that
  nothing calls.
- The adapter of a watcher that has ended lives on for as long as its pool is silent
  (`aw/execution.rs` 2166).
- An edit of the watchlist before the reloader's first poll is never picked up
  (`core/config.rs` 255), and a file that cannot be read empties the list until the
  next edit (257). Trades of wallets outside the list are copied at the fallback size
  (`aw/webhook.rs` 178).

## 6. Plan

Done: the core (execution, journal, breaker, tracker, exits, dispatcher), then the
database, the signal path, the tip engine, the feed, pool resolution and the
preparation of a swap, each with a run, and proofs of every safety property the runs
check. What would add most next:

1. The invariants on which the liveness properties rest (what the measure of each is
   bounded by) as theorems, so that fairness alone is left to TLC.
2. `SwapFeed` and `ExitWatcher` composed: a watcher that is busy selling, its mailbox
   and the ticks it takes afterwards.
3. `SignalIntake` in front of `WhaleExecution`: signals that age in a full channel.

### Not modelled

- *Geyser stream.* Nothing starts it, and it could not start: its program id holds a
  character that is not base58 (`core/geyser_stream.rs` 10).
- *Telegram alerts.* The source is not in the tree; callers detach the alert and
  ignore its result.
- *`alpha-dbo` other than its `main.rs`.* Near-duplicates of the `alpha-whales` files,
  outside the workspace; the maintained copies are modelled.
- *Code without callers.* The shadow positions of `BotState`, `prune_dedupe`,
  `remove_bundle`, the queries and the whale history of the database, and the older
  build functions of `aw/execution.rs`.
- *Data.* Byte layouts, base58, JSON and instruction encoding, the maths of the price
  average, log and alert texts.
