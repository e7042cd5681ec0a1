# A TLA+ model of bloop

bloop watches wallets on several blockchains and publishes a message for every
deposit to and withdrawal from them. What it must never do is lose an event of
a watched wallet: pass over a block, or declare a block done whose events were
not published. This directory holds TLA+ modules of the parts that decide this,
the TLC configurations that check them on small instances, and TLAPS proofs of
what they show about the tracker, the processors of all networks, the EVM
client, the wallet index and the process, for every value of the constants.

Paths are relative to the repository, whose root is `src/` here
(`tracker.go` alone is `internal/blockchain/base/tracker.go`, `redis.go` and
`bloom.go` are in `internal/storage/`).

## 1. The system

| Component | State | Operations | Hard because |
|---|---|---|---|
| Base tracker, one per network (`tracker.go`) | two bounded channels, `inFlightBlocks`, requeue timers | poll, catch up, receive heads, enqueue, process a job, requeue | several goroutines meet the same block; queues fill up; each job is a dozen calls, any of which can fail or be the last before a crash |
| Redis progress (`redis.go`) | `last_processed_blocks` (the high-water mark), `processed_blocks` (bitmap windows with a TTL) | read, set, force-set, mark, test, advance | several commands where one would have to be atomic; windows expire |
| Wallet index (`redis.go`, `bloom.go`) | hash `watch:wallets:<network>`, one Bloom filter per network in memory | seed, add, remove, look up | two copies of one set, one of them built at start and written without a lock |
| EVM processor (`ethereum/processor.go`) | block cache, `block_progress` set | process a block: batches of goroutines behind a semaphore | concurrency inside a block, retries that must neither lose nor repeat |
| EVM RPC client (`ethereum/client.go`) | round-robin index, a circuit breaker per provider | pick, call with retry, health check | breakers change while calls are under way |
| UTXO processor and block APIs (`bitcoin/`) | a shared request counter | fetch with failover, scan inputs and outputs | change detection; answers that look like blocks and are not |
| TRON processor and client (`tron/`) | `block_progress`, a shared provider index | process a block, post with rounds over the providers | two requests per block, perhaps to different nodes; cancellation |
| Solana processor and client (`solana/`) | a shared URL counter | process a slot, call with failover | slots without a block, which are told by the text of an error; token movements read from instructions or from balances |
| Head subscriptions (`bitcoin/processor.go`, `solana/client.go`, `ethereum/processor.go`) | a websocket, a backoff, a channel | connect, read, reconnect | a goroutine nobody waits for, which has to survive every peer and end with the tracker |
| Publisher (`internal/messaging/publisher.go`) | one AMQP connection and channel | publish, close | no confirms; the connection is not reopened |
| Manager, API, `main` (`internal/blockchain/tracker.go`, `internal/api/`, `cmd/monitor/`) | trackers by network, a lock per tracker | start, stop, statistics, add and remove wallets | Stop cancels every call in the middle; everything must be through before the connections are closed |
| Configuration, metrics, types, TRON addresses, test listener | none that the others read back | | |

How they interact. `main` starts one tracker per network. Each tracker's
feeders read the height from the network's client and the mark from Redis and
put block numbers on a channel; its workers take them, ask Redis and the client
again, and call the network's processor. The processor fetches the block
through the client, asks the wallet index about addresses, calls the publisher
and records its progress in Redis. When it returns without an error the worker
sets the block's bit and advances the mark over contiguous bits. The API writes
the wallet index while the processors read it. A restart keeps what is in Redis
and nothing else.

What makes each part correct:

* the tracker and its progress: the mark covers no block that was not scanned;
  one worker at a time has a block; marked blocks are not scanned again, nor
  unconfirmed ones at all; every confirmed block is reached in the end;
* the wallet index: a watched wallet is found, one that is not watched is not;
* the processors: a marked block has had all its events published; a retry
  repeats as little as possible; every block is marked in the end;
* the clients: a provider that works is used, one that does not is avoided and
  comes back, and every call ends;
* the head subscriptions: they come back after every failure, at a bounded rate,
  and end with the tracker;
* the process: no more blocks at a time than configured, a mark only for events
  that were handed over, a shutdown that ends and loses nothing.

## 2. The modules

`PROJECT.json` maps every definition to its lines. In all modules a Redis
command, a request to a node and a publication are separate steps. A step that
can fail has an alternative guarded by `Fault(kind)`; `Faults` lists the kinds an
instance lets happen, `MaxFaults` bounds how often. A Redis command that fails
may have been applied or not, where that makes a difference. Definitions whose
comment begins with "Mutant of" are broken variants of the definition that
follows; they are not used by the specifications and show that the properties
can tell them from the code.

**BlockTracker** - `tracker.go` and the progress part of `redis.go`, for one
network. The chain is its height `tip`; blocks are numbers. `heads`, `rtq`,
`cuq` and `timers` are the channels and `time.AfterFunc` timers; `inFlight` is
`inFlightBlocks`; `hwm` and `processed` are what Redis holds.

* A worker's `pc` names its next call. `Dequeue` takes a block and claims it
  (`processBlockJob`); `CheckProcessed`, `CheckConfirmations`, `ScanBlock` and
  `MarkBlock` are the calls in their order, each with its early returns, all of
  which release the claim through `Finish`. `AdvanceRead`, `AdvanceScan`,
  `AdvanceCompare` and `AdvanceWrite` are `AdvanceHighWaterMark` and the
  compare-then-write of `SetLastProcessedBlock` it ends with.
* A feeder is the polling loop or the initial catchup: `ReadHeight`, `ReadLast`
  (`normalizeLastProcessed`), `ResetLast` (`ForceSetLastProcessedBlock`),
  `InitialRead`/`InitialWrite` (the first run), then `Enqueue` one block after
  the other, or `EnqueueTimeout` when the queue stays full.
* `NewBlock`, `ReceiveHead`, `TimerFires`, `WindowExpires` and `Restart` are the
  chain, the subscription (which may lose heads), the requeue timers, the TTL
  of a bitmap window and the death and restart of the process.
* A request to a node of the EVM may never end (fault `hang`): the worker or the
  feeder is at `hung` from then on, the worker with its claim.
* `InitialMark` is the mark an earlier life of the process has left behind; 0 is a
  network that was never tracked, whose first run chooses the starting point.
* `base`, `started` and `done` are history: where the first run put the mark,
  whether it has, and the blocks `ProcessBlock` reported as complete.

**ProgressLedger** - the abstract specification: a chain that grows, a set of
scanned blocks and a checkpoint that may be put, up or down, only where nothing
below it is missing. `BlockTracker!ImplementsLedger` says that every step of
every goroutine is a ledger step or invisible; the mapping is the identity on
`tip`, `base`, `started`, `done` and `hwm`, so that queues, claims, bits and
registers disappear.

**WalletIndex** - the wallet hash, the Bloom filters as arrays of words, API
requests that add (HSET, find or create the filter, then per bit a read and a
write of a word) and remove, and a processor that looks an address up (filter,
then HGET). `Key` is the normalisation of addresses, which differs per network.
`settled`, `seeded`, `clashed` and two fields of `lookup` are history.

**EvmBlock** - one block through `ProcessBlock` and to its mark. `bpc` is the
worker's place: cache, fetch (full or light mode), store, progress, then per
batch spawn and join, clear, mark. `tpc[t]` is the place of a transaction's
goroutine: semaphore, wallet lookups, receipt, transfers, progress. `FetchHangs`
and `ReceiptHangs` are requests that are not answered: the client has no timeout,
so that they end when Stop cancels the context and not before. `sent` counts
publications per event; `Owed`, the events users are owed, is defined from the
transactions alone.

**UtxoBlock** - the same for BTC and LTC: hash and block from the first block
API that answers, then inputs, withdrawal and deposits of each transaction.
Here an error anywhere ends the attempt. `start` is where the shared counter has a
request begin, `asked` how many clients it has gone on from, and `refused`, which is
history, the clients that have failed it. `hash` is the block whose hash the attempt
has, an orphan's where the explorer lists no block of the main chain (`OrphanHash`).
`Owed` says per transaction what each wallet put in and got out.

**TronBlock** - the same for TRON: block, progress, transaction infos, then the
contracts of each transaction and, for the first call of a configured token,
the logs of its info.

**SolanaSlot** - the same for a slot of Solana: the height, the block, then per
transaction the transfers of SOL (`native`) and those of tokens (`token`, from
instructions, or `delta`, from balance changes). `todo` holds what is left of
the phase, a transfer by its place among the instructions; who owns an account and
which token it holds is in `TokenAccountMetadata`, from the balances. Both requests go through `call`: `AskNext` is one more round of its
loop, `GetSlot` and `GetBlock` its end; `next` is the counter all calls share, a
number modulo `Counter` (2^32 in the code). `skipped`, whether the chain has a
block in the slot, and `down`, the URLs that never answer, are chosen once.

**BlockDelivery** - the abstract specification of a block that the four modules
above implement (`ImplementsDelivery` in each): the events a block owes are
published one after the other; the mark is set once, when all of them are out;
nothing of the block is published after it. `lossy` is the exception: the
failures in `Swallowed`, after which the code takes for handled what is not. The
refinement mapping forgets caches, progress sets, batches, goroutines, providers
and attempts, and keeps which events were published, the mark and whether a
swallowed failure has occurred.

**HeadFeed** - the subscription of one network (`kind`): `LoopHead`, `Wait`, `Dial`
and `Subscribe` are the reconnect loop, `Receive`, `ReadFails` and `Done` the read
loop, `CloserCloses` and `CloserEnds` the goroutine Bitcoin starts per
connection. A dial fails, connects, or stays at `handshake`: the dialers set no
handshake timeout, and Ethereum's takes no context. `Consume` and `LoopEnds` are
the tracker's side of the channel. The
delay is a number of `Width` bits in two's complement (64 in the code), so that
the shift overflows as it does there. `dials`, `waited` and `overflowed` are
history; the first two leave out Bitcoin's first retries (`FirstRetry`), of which the
code's comments say something else than the code (see 6).

**Service** - the process. `mpc` is where `main` is: `Boot`, `StartTracker`,
`StartOthers`, `Signal`, `StopServers`, `StopTracker` (flag, context), `JoinTracker`
(`wg.Wait`), `ClosePublisher`, `CloseStorage`. One tracker is there in detail,
with as many workers as `workerSplit` says; a worker is known by the block it has
in hand (`Take`, `Claim`, `Scan`, `Mark`, `Release`), and `hpc` are its other
goroutines. `request` is a statistics request that has the tracker's lock for
reading. `conn` is the connection to RabbitMQ, which may break (`Break`) before
anybody notices (`Notice`), `event` what became of a block's event: written to the
socket, dropped with the connection, or delivered. A scan may go on to the mark
without its event (`Overlooks`): for a failure that the network's processor does
not return, which the history variable `overlooked` keeps by block, or, on EVM and
TRON, because Stop has cancelled the context and the errors are only logged.

**RpcProviders** - the EVM client's pool: `getHealthyProvider` (`Choose`),
`executeWithRetry` (`Pick`, `Answer`), `updateProviderStatus` (`Failed`,
`Succeeded`) and `performHealthCheck` (`Tick`, `CheckProvider`, `ProbeAnswer`).
Providers are up, down, hanging, or too old for a transaction type. Time is the
number of health-check ticks since a failure; where that leaves open whether 30
or 60 seconds have passed, both happen.

**TronClient** - `post`: rounds over the providers, each try taking the next
one from the index all goroutines share, delays between rounds, cancellation.

**MC modules** - the constants that a `.cfg` cannot express: blocks,
hash functions.

How they fit together. `BlockTracker` treats `ProcessBlock` as one step that
works (`done`) or fails (`scan`); the three `...Block` modules and `SolanaSlot`
open that step for one block, whose claim the worker holds throughout. Their `marked` is the
block's bit in `processed`, and they rely on what `BlockTracker` shows: one
attempt at a time (`ExclusiveClaims`), none after the mark (`ScansUnmarked`),
and another one as long as it is not marked (`CatchesUp`). In the other
direction `done` means "every owed event published" because of
`ImplementsDelivery`. `HeadFeed` is behind `BlockTracker!NewBlock` and
`ReceiveHead`, whose heads may get lost. `Service` composes a tracker's
goroutines, reduced to what they hold, with `main`, the API and the publisher:
there "published" splits into written and delivered.
`WalletIndex` justifies `Watched` as a set in the processors; the clients'
modules justify fetches that fail only now and then.

## 3. The runs

`tlc -workers 2 -config <run>.cfg <module>` repeats a run.

| Run | Module | Checks | States |
|---|---|---|---|
| TrackerFaults | MCBlockTracker | `TypeOK`, `NoGap`, `ExclusiveClaims`, `ScansUnmarked`, `ConfirmedOnly`, `ImplementsLedger` | 2.6 million |
| TrackerLive | MCBlockTracker | `CatchesUp`, `ClaimsReleased` | 216 thousand |
| WalletIndex | MCWalletIndex | `WatchedIsSeen`, `UnwatchedIsNotSeen` | 2.6 million |
| EvmBlock | MCEvmBlock | `NoStrayGoroutine`, `RecordedNotRepeated`, `ImplementsDelivery`, `EventuallyMarked` | 169 thousand |
| RpcPool | MCRpcProviders | `ClosedBelowLimit`, `NobodyPassedOver`, `CallsReturn`, `Recovers` | 405 thousand |
| UtxoBlock | MCUtxoBlock | `NothingElse`, `FailsOver`, `ImplementsDelivery`, `EventuallyMarked` | 1.2 million |
| TronBlock | MCTronBlock | `RepeatedOnlyAfterFailure`, `RecordedNotRepeated`, `ImplementsDelivery`, `EventuallyMarked` | 425 thousand |
| TronClient | MCTronClient | `FailsOver`, `CallsReturn` | 55 thousand |
| SolanaSlot | MCSolanaSlot | `FailsOver`, `BalanceChangesReported`, `ImplementsDelivery`, `EventuallyMarked` | 548 thousand |
| HeadFeed | MCHeadFeed | `RateLimited`, `ConnectionClosed`, `StopsOnCancel`, `Listens` | 28 thousand |
| Service | MCService | `WithinLimit`, `QuietBeforeClose`, `MarkedIsDelivered`, `ShutdownCompletes` | 585 thousand |
| TrackerReadFailure | MCBlockTracker | `NoGap`, violated | |

Every module has a `TypeOK`. A run checks the tracker's; those of the modules with
proofs are proved, and the proofs rest on them.

What they show, and why their bounds are enough:

* **TrackerFaults** has one worker per queue and both feeders on a chain of up
  to three blocks, one confirmation, one failure of any kind and one crash,
  which can fall between any two calls. Out-of-order completion needs two
  blocks above the mark; a duplicate needs one block in both queues, in a timer
  and in a worker's hands; both happen. `MaxAdvance` is 1, so that the
  10000-block limit of the walk is reached, `WindowSize` is 2, so that the walk
  crosses a window. More workers than two are left to the theorems, which hold
  for any number. `ImplementsLedger`
  contains `NoGap`.
* **TrackerLive** starts with a mark at block 1 that an earlier process left and
  a chain of two blocks that grows to three, so that block 2, above the starting
  point, gets its confirmation while the run goes on and block 3 stays unconfirmed
  and goes round through the requeue timer. Two failures, a crash, lost
  heads and full queues all fall on block 2. The failures include the expiry of the
  window with its bit, which makes the block come back after it was marked, and a
  Redis command that was applied and reported as failed. Its realtime queue has two
  places: with one, a block that waits for its confirmations can be requeued into
  the only place at each poll and keep the poll's own block out forever; the code's
  realtime queue has at least 200. That blocks completed out of order leave no gap
  is TrackerFaults' subject. The two failures that are taken for a first run (a
  failed read of the mark and a height of 0, see 6) are in neither; the theorems
  without the hypothesis `NoFalseZero` cover them, and TrackerReadFailure shows what
  the first of them does.
* **WalletIndex** has two API requests at a time, two networks (one folds the
  case of addresses), two spellings whose hashes share a bit of the same word,
  seedings that fail at any network, and a restart.
* **EvmBlock** has five transactions in two batches of at most three behind a
  semaphore of two, one of each kind the code distinguishes, in light mode; two
  failures of any of ten kinds and a crash. **TronBlock** is similar, with four
  transactions and three failures. A lost event needs one failure and one
  retry, a repeated one needs two.
* **UtxoBlock** has 120 one-transaction blocks (eight lists of inputs by fifteen
  pairs of outputs of five kinds: to the first watched wallet, to a second one, to a
  stranger, of value 0, without an address) and a block of two transactions, three block APIs of different dialects,
  three failures and a crash. A request fails for good only with all three
  failures, wherever it begins.
* **RpcPool** has two providers, two callers and three changes of a provider's
  condition; a breaker opens after two failures in a row (three in the code).
  **TronClient** has two providers, two callers, two rounds.
* **SolanaSlot** has four transactions, one for each way an event comes about or
  does not (see the module), three URLs of which up to two never answer, a
  counter of eight values, so that it wraps around within a call and three does
  not divide it, one request of another goroutine, two failures of any of seven
  kinds and a crash. `BalanceChangesReported` compares the events with the
  balances the network vouches for, a source of its own wherever the code reads
  instructions.
* **HeadFeed** has durations of six bits with a base delay of 2 and a cap of 8:
  the shift overflows at the fifth failure in a row and yields 0 from the sixth
  on, so seven failures show the doubling, the cap, the negative delay and the
  zero. Failures fall on dials, handshakes, requests, pings and reads.
* **Service** has three blocks and two workers, which both a limit of 2 and one
  of 1 start (the point of `WithinLimit`): an EVM network with the former, which
  swallows publication errors and whose failed start is fatal, and a UTXO one with
  the latter, which does neither; TRON combines the two and is left out of the
  instance. One failure can be a connection that breaks, a start, a scan that
  ends, a scan that goes on without its event, a mark or a node that hangs. The signal can come with blocks in any state.

`ImplementsDelivery` is about blocks that no swallowed failure
touched. Each processor module names in `Swallowed` the failures after which the code takes a
transaction or a block for handled although it is not. The property says that
all the others, cancellation and crashes included, never cost an event; the
swallowed ones are in 6.

Fairness. Goroutines that can run do run (`WF` on each worker, each feeder, the
requeue timers; on the processor and on each transaction's goroutine; on `main`,
on the tracker's helpers and on the subscription). Requests end, by the HTTP client's timeout at the latest, except for the EVM client's,
which have none: there a request may hang, and no fairness ends it. `CatchesUp`,
`ClaimsReleased`, `EvmBlock!EventuallyMarked`, `CallsReturn` and `ShutdownCompletes`
state this exception: a worker, a feeder, a goroutine or a caller that is in such a
request for good. Likewise a websocket dial ends unless its handshake is never
answered, the exception of `StopsOnCancel` and `Listens`. TrackerLive does not look
for deadlocks, since with such requests every goroutine may come to rest;
TrackerFaults does. Of the requeue timers only some one is assumed to fire, which is
less than the code guarantees.
Ticker and health check go on. A `select` with several ready cases takes one at
random, so a cancelled context is noticed in the end beside any traffic: that is
`SF` on `WorkerExits` and `WF` on `Done` and `LoopEnds`. In HeadFeed a connection
that is not silent brings another height; a silent one is a failure of the
network and may stay so. In Service a node of the EVM that never answers is a
failure of its own (`NodeHangs`), and fairness does not end it. Nothing is
assumed of the chain, the subscription, API clients or providers. Failures and crashes are finite by
their bounds: a network that fails forever makes no progress in the code either.

## 4. The proofs

The module `XProofs` extends the module `X` and proves its theorems for all values
of the constants; TronProofs does so for `TronBlock` and `TronClient`,
ClientProofs for `RpcProviders` and `HeadFeed`, which is why the specifications of
`TronClient` and `HeadFeed` are called `ClientSpec` and `FeedSpec`. The
assumptions are those of `X`, which TLC evaluates on every run: types of the
constants, and where a number must not be 0 (a batch size, a number of providers),
for which the configuration has defaults. The bounds on failures and restarts are
any natural numbers. Every theorem of the form `Spec => []Inv` follows from an
inductive invariant that was model-checked on the instance of the module's run
before it was proved; the theorem `Inductive` states it (`TypeCorrect` for
`RpcProviders`, `ClientInductive`, `FeedInductive`).

| Property | Module | Theorem |
|---|---|---|
| `NoGap`, `ExclusiveClaims`, `ScansUnmarked`, `ConfirmedOnly`, `TypeOK`, `ImplementsLedger` | BlockTrackerProofs | see 4.1 |
| `ImplementsDelivery` | EvmBlockProofs, TronProofs, UtxoBlockProofs, SolanaSlotProofs | `Refinement` in each |
| `RecordedNotRepeated` | EvmBlockProofs, TronProofs | `RetriesOnlyUnrecorded` in each |
| `NoStrayGoroutine` | EvmBlockProofs | `NoGoroutineLeft` |
| `RepeatedOnlyAfterFailure` | TronProofs | `RepetitionBounded` |
| `NothingElse` | UtxoBlockProofs | `OnlyOwedPublished` |
| `FailsOver` | UtxoBlockProofs, SolanaSlotProofs, TronProofs | `AllClientsFailed`, `EveryURLAsked`, `AllProvidersFailed` |
| `BalanceChangesReported` | SolanaSlotProofs | `ChangesReported` |
| `ClosedBelowLimit`, `NobodyPassedOver` | ClientProofs | `BreakerOpensInTime`, `RoundRobinIsFair` |
| `RateLimited`, `ConnectionClosed` | ClientProofs | `DialsAreLimited`, `NoConnectionLeft` |
| `WatchedIsSeen`, `UnwatchedIsNotSeen` | WalletIndexProofs | `NoFalseNegative`, `NoFalsePositive` |
| `WithinLimit`, `QuietBeforeClose`, `MarkedIsDelivered` | ServiceProofs | `KeepsLimit`, `QuietShutdown`, `ShutdownLosesNothing` |

Each of the modules has a theorem `TypeCorrect` as well. A proof has one lemma
per part of the invariant and per group of actions, with one step per action, and
lemmas about the helpers of the model that several actions share.

### 4.1 The base tracker

`BlockTrackerProofs`: any number of workers, blocks, confirmations, queue sizes,
failures, restarts and timers.

| Theorem | States |
|---|---|
| `TypeCorrect` | `Spec => []TypeOK` |
| `ClaimsAreExclusive` | `Spec => []ExclusiveClaims` |
| `MarkedNotScanned` | `Spec => []ScansUnmarked` |
| `ScannedAreConfirmed` | `Spec => []ConfirmedOnly` |
| `Inductive` | `NoFalseZero => (Spec => []IndInv)` |
| `MarkHasNoGap` | `NoFalseZero => (Spec => []NoGap)` |
| `Refinement` | `NoFalseZero => (Spec => ImplementsLedger)` |

The assumptions are those of `BlockTracker`: the two kinds of workers are
disjoint, the numbers are natural numbers, the queues have at least one place.
`NoFalseZero` excludes the two failures after which `normalizeLastProcessed`
takes an existing mark for a first run; with them `NoGap` is false, as
TrackerReadFailure shows, so that the hypothesis is needed.

None of the properties is inductive by itself. `IndInv` adds what is on its way:

* `ClaimInv`: every block in a worker's hands is in `inFlightBlocks` and
  conversely, and an idle worker has none. `Claim` tests the set and not the
  workers, so exclusiveness needs both directions.
* `ScansUnmarked` needs `ClaimInv`: another worker could set the bit between
  this worker's check and its scan only by holding the same block.
* `ConfirmInv`: a worker that is about to scan has a confirmed block, a worker
  that is about to mark has a scanned one, and every bit belongs to a scanned
  block. The chain only grows, so a stale height errs on the safe side.
* `MarkInv`: the mark is free of gaps (`StoredMarkInv`), and so is every value a
  worker has read or walked to and may still write (`WorkerMarkInv`), and every
  value a feeder may still reset it to (`FeederMarkInv`). That is why the lost
  update in `SetLastProcessedBlock` does no harm: each of the racing values is a
  correct mark, and what was once gap-free stays so, as `done` only grows. A
  first run is under way only while there has been none.

The structure is one lemma per part of the invariant and per group of actions
(`TypeWorkerStep`, `ClaimWorkerStep`, `UnmarkedWorkerStep`, `ConfirmWorkerStep`,
`MarkWorkerStep`, `MarkFeederStep`, ...), each with one step per action. Helpers
of the model (`Finish`, `Goto`, `Claim`, `Stop`, `SendRange`, `Plan`) have lemmas
of their own. `LedgerStep` maps each action to a step of the ledger or to none.

### 4.2 The processors

That a marked block has had all its events published is not inductive: the mark
is the last step of an attempt, and the attempt must have published what it has
behind it. What "behind it" means is the heart of each invariant. `Lossy` is the
case in which a failure of a swallowed kind has happened; all of this is about
the others.

* **EVM.** `AttemptInv` says where the attempt is and that a goroutine belongs to
  the batch it waits for, which gives `NoStrayGoroutine`. `ProgressInv`: what
  Redis has recorded is in `skip`, the set read at the start, or in an earlier
  batch, so a goroutine is never started for a recorded transaction although
  `skip` is old by then. `RecordInv`: what is recorded has been published.
  `WorkInv`: so has everything in earlier batches, in goroutines that have ended,
  and the transfers before the one a goroutine is at. `RecordInv` survives a
  crash and a cancellation; `WorkInv` does not: under a cancelled context the
  attempt passes over transactions without their events, and only the context of
  the last command keeps the block from being marked.
* **TRON.** The same with one place instead of goroutines: `Passed(e)` says that
  the attempt has gone past event `e`, by transaction, contract and log.
  `CountInv` bounds how often an event was published by the number of
  interruptions, and by one more once the attempt has passed it. It needs that
  the logs of a transaction are walked once, which `AttemptInv` states.
* **UTXO.** No progress is kept, so what is passed counts from the beginning of
  the attempt. `AttemptInv` includes that the attempt works on a prefix of the
  block it has the hash of, which is the chain's short of an orphan. `RequestInv`
  says which clients have failed the request under way: the `asked` ones from
  `start` on, modulo their number. When `AskNext` gives up it has gone on from all
  of them, and as many consecutive numbers as there are clients have all
  remainders (`WholeRound`), which gives `FailsOver`. `NothingElse` is inductive by itself, with lemmas on which events
  `Withdraw` and the deposits of a transaction can be.
* **Solana.** As for UTXO, with what is left of a phase in `todo`. `CallInv`: as
  long as the counter goes up by one, the URLs asked are the remainders of its
  last `tries` values; N consecutive numbers have all remainders (`ModCover`),
  so that after N tries every URL was asked. `SkippedInv`: in a slot that was
  skipped nothing is published. Here `WorkInv` holds under a cancelled context
  too, as every error is returned. `ChangesReported` needs two things more.
  `MarkInv` carries `WorkInv` past the mark. `ChangeOwes` is about the block alone:
  a changed balance owes an event. If the transfers account for the change, what
  they bring to the wallet and what they take from it differ, so the two sets of
  transfers differ (`OneSided`), and a transfer in only one of them has the
  wallet on one side and a wallet that is not watched on the other. It is
  looked up as a transfer of the right token because of `MintsAgree`, the
  theorem's hypothesis: a transfer moves tokens between accounts of one mint,
  which is what the token programs see to and not this code. TLC evaluates it for
  the run's block.

The refinement maps `sent` and `marked` to those of `BlockDelivery`: each
publication is a step of it, the mark is allowed by the invariant, and every other
step is invisible.

### 4.3 The clients and the subscription

**EVM client.** `NobodyPassedOver` follows from `TurnInv`, which is about all
providers and not only those whose breaker is closed: how often a provider was
passed over and how far the index still is from it add up to at most N-1. A pick
that passes a provider over moves the index at least one nearer to it.
`ClosedBelowLimit` is inductive with the types: the counter and the state of a
breaker change under one lock.

**TRON client.** `RoundInv` counts backwards from the index: in a call during
which no other one moves the index, the providers it left behind in its last
`tries` steps are those that have failed the call, and after one round that is all
of them. The providers are a ring, so the proof is about `Ago(p)`, how many steps
back `p` is.

**Subscription.** `ConnInv`: the closing goroutine waits only while its connection
is read from, so that a connection is left on no way out of the loop. `RateInv` is an account of the dials: the waits so far pay for all of them
before a dial, for all but one after it, Bitcoin's first retries aside, and the delay the loop is about to wait
is at least the base unless the shift has overflowed. `BackoffFacts` computes the
latter for every width: a shift that does not reach the sign bit is a product.

### 4.4 The wallet index

`WatchedIsSeen` relates a lookup's answer to what was stored when it began.
`FilterInv` says why the filter has the bits: two additions at once are recorded in
`clashed`; without them the word a request has read is still the word it
overwrites, so that bits are only added; and a seeded filter has the bits of every
wallet whose addition has returned. `LookupInv` carries this through the two steps
of a lookup, between which wallets may come and go. The functions `Hash` and
`Canon` are arbitrary.

### 4.5 The process

`LifeInv` says what is left of the tracker at each place of `main`: `StopAll` is
passed only when the workers and helpers are through, and the connections close
after it. `EventInv` says what has become of the event of each block, from the
worker's hand to the broker. A block without its event comes to the mark with an
excuse (`Excused`: an overlooked failure of its own scan, or a broken connection
where the error of Publish is logged) or under a cancelled context; the latter is no
excuse, and the block is not marked, because the command that would write the mark
has the same context. Excuses stay (`ExcusesStay`), so that `ShutdownLosesNothing`
follows. `WorkersFacts` computes that `workerSplit` starts as
many workers as the limit says, and two below that, for every integer.

### 4.6 Induction over data

Powers of two and sums over sets are recursive functions, of which a prover knows
nothing but their definition, a `CHOOSE` that has a value only if a solution
exists. The proofs get by with the least number of which a claim is false
(`LeastNumber`, from the library's `WFMin` for the order of the naturals). In
ClientProofs it gives the powers up to every exponent (`PowersExist`), that
they agree (`PowersAgree`) and so that `PowerOf2` is what its definition says
(`PowerDefined`). In SolanaSlotProofs it gives a solution for the subsets with at
most k elements of a finite set (`SumsExist`), that the sum of naturals is a
natural (`SumIsNatural`), and that the last of some places in a sequence is one
of them (`LastPlace`).

## 5. What is only model-checked

Liveness (`CatchesUp`, `ClaimsReleased`, `EventuallyMarked`, `CallsReturn`,
`Recovers`, `Listens`, `StopsOnCancel`, `ShutdownCompletes`): the prover has no
support for fairness. Every invariant, action property and refinement of a passing
run has a theorem.

## 6. Where the code does not do what it says

One disagreement is a run that TLC must find violated:

* **A failed read of the mark is a first run** (`tracker.go:474`,
  TrackerReadFailure). `normalizeLastProcessed` returns 0 when Redis does not
  answer, `performInitialCatchup` takes 0 for a first run and moves the mark to
  the current block, over blocks nobody scanned. `release_notes.md:91`: "Advanced
  `last_processed` only through contiguous processed block markers."

The others, met while modelling. The modules contain the behaviour; the
properties above are stated so that they exclude exactly it, in the way given.

| Where | What happens | Excluded by |
|---|---|---|
| `tracker.go:503` | A height of 0 without an error (an empty TRON or null Solana answer) is below every mark; the mark is reset to 0, and a catchup that finds it there begins at the tip. Against `tracker.go:764`: "Advance high-water mark only via contiguous processed bits." | fault `zero`, `NoFalseZero` |
| `tracker.go:536` | The first run sets the mark to the current block, ahead of the safe head by the confirmations; the next poll takes it back. Against `tracker.go:483`: "Invariant: lastProcessed should never be ahead of safe head." | not claimed; `base` is where the first run put it |
| `tracker.go:529` | When the height cannot be read at the first start nothing sets the mark later, and polling scans from block 1. Against `tracker.go:535`: "First run: set HWM to the current block and persist it". | not claimed |
| `redis.go:117` | Comparison and write are two commands, so a slower worker lowers the mark. Against `redis.go:112`: "Do not move backwards". Harmless, see 4. | the ledger's checkpoint may go down |
| `bloom.go:80` | Without a filter `MaybeContains` answers yes - "no filter -> fall back to exact check" (`bloom.go:94`) - but after a failed seeding the first addition creates a filter that holds only its own address, and the wallets stored before are no longer found. | `seeded` in `WatchedIsSeen` |
| `bloom.go:85` | `AddString` runs outside the lock; two additions that set bits of the same word lose one, and a watched wallet is not found until the next start. | `clashed` in `WatchedIsSeen` |
| `ethereum/processor.go:729` | The "short-lived cache for retry scenarios" (line 723) stores the JSON of a `types.Block`, which has none of its transactions; a retry that hits it processes nothing, and the block is marked. | `Swallowed` (`soon`) |
| `ethereum/processor.go:348` | An error of one transaction, a failed publication included, is logged and the transaction recorded as processed. `release_notes.md:127`: "Publish failures now bubble up so the block is retried" (the bullet before it speaks of BTC). TRON does the same. | `Swallowed`, `overlooked` in `MarkedIsDelivered` |
| `ethereum/client.go:427` | In light mode a provider that lacks the block answers null, which decodes as a block without transactions and is marked. | `Swallowed` (`lag`) |
| `ethereum/processor.go:752`, `tracker.go:711` | The EVM client has no timeout and a worker's context no deadline: a request that is never answered keeps the worker, its block and the claim until Stop. | `Hung` in `CatchesUp`, `ClaimsReleased`, `EventuallyMarked` |
| `ethereum/client.go:199` | "Open circuit breaker after 3 failures" (line 198) applies to a closed breaker only; a half-open one stays so through any number of failures. | `ClosedBelowLimit` is about closed ones |
| `ethereum/client.go:225` | The ten seconds of a health check are shared by all providers; one that hangs uses them up, and the probe of a recovered one behind it fails at once and starts its minute again. | hypothesis of `Recovers` |
| `bitcoin/processor.go:372` | "treat outputs back to the same wallet as change" (lines 370-371), but only the wallet of the first watched input is remembered; with inputs of two watched wallets the output back to the second is published as a deposit. | `NothingElse` is about one spending wallet |
| `bitcoin/client.go:451` | The explorer client does not look at the HTTP status; the JSON of an error decodes as a block without transactions, which is marked. An empty page before the last ends the paging of the other APIs. | `Swallowed` |
| `bitcoin/client.go:415` | When the explorer lists no block of the main chain at a height, the first one listed is scanned and the height marked. | `Swallowed` (`orphan`) |
| `tron/processor.go:177` | Infos come from a request of their own, perhaps to a node that lacks them; a token call without its info is skipped. | `Swallowed` (`lag`) |
| `tron/client.go:155` | Each try takes the next provider from an index all goroutines share: two interleaved calls can each meet the same broken provider on every try and fail although another is up. | `alone` in `FailsOver` |
| `solana/processor.go:869` | Any error that contains "not available" passes for a skipped slot, also that of nodes which do not have the block yet; the slot is marked without its events. The debug line calls it "empty" (line 206). So does a `null` result. | `Swallowed` (`lag`, `null`) |
| `solana/client.go:202` | Each request takes the next URL from a counter all goroutines share; a call that another interrupts, or in which the counter wraps around, asks one URL twice and another not at all, and its last error decides whether the slot was skipped. | `alone` in `FailsOver` |
| `solana/processor.go:318` | Balances are consulted only if no instruction is a token transfer; next to one, a change by another instruction (a mint, a burn, the closing of an account) goes unreported. Between two watched wallets a transfer is reported to neither, while a balance change is reported to both. | `BalanceChangesReported` is about changes that the transfers account for, of one watched wallet |
| `bitcoin/processor.go:140`, `solana/client.go:115` | The shift has no bound: the 37th failure in a row (after about eight minutes) makes the delay negative and later ones zero, and the endpoint is dialled in a tight loop, against "back off exponentially up to a cap" (`bitcoin/processor.go:120`). | `overflowed` in `RateLimited` |
| `bitcoin/processor.go:139` | "the first retry is immediate" (lines 120 and 138): after the first failure, and after every connection that is lost, `attempt` is 1 and the loop waits 250 ms. | `FirstRetry` in `RateLimited`, which speaks of the other dials |
| `bitcoin/processor.go:122`, `solana/client.go:104`, `ethereum/processor.go:212` | The dialers have no handshake timeout, and `ethclient.Dial` no context: a peer that accepts the connection and never answers the upgrade keeps the goroutine, after Stop too. "This function only returns when the context is canceled" (`bitcoin/processor.go:121`), and then not always. | `Stuck` in `StopsOnCancel`, the handshake in `Listens` |
| `solana/client.go:165` | Nothing wakes the read when the tracker stops; a silent peer keeps goroutine and connection until the process ends. | `Stuck` in `StopsOnCancel` |
| `tracker.go:284`, `tracker.go:842` | `GetStats` and the health report ask a node without the tracker's context, the former with the lock. The EVM client sets no timeout, so a node that never answers keeps Stop, and a statistics request also the workers, waiting for good: "graceful shutdown" (`cmd/monitor/main.go:115`) does not end. | `Hung` in `ShutdownCompletes` |
| `tracker.go:164` | `MaxConcurrentBlocks` of 1 starts two workers. | `WithinLimit` allows two |
| `publisher.go:79` | "In production, implement reconnection logic here": after a broken connection every publication fails. UTXO networks and Solana mark nothing any more; EVM and TRON mark on, and their events are lost. Without confirms, so are the events on the wire. | `broken` in `MarkedIsDelivered` |
| `cmd/monitor/main.go:80`-91 | A TRON or Solana tracker that does not start is logged as "tracker started" after the error; nothing tries again. | not claimed |

## 7. The plan

Done: the base tracker with its progress, the wallet index, the processors of all
networks with the specification they share, the clients with state, the head
subscriptions, and the process with its publisher from start to end; proofs of all
their safety properties and refinements.

What could still be modelled: the pools of extra clients that fetch EVM receipts
in light mode (`ethereum/processor.go:191`), which only choose who is asked.

## 8. What is not modelled

* The counters for logs and metrics, `blockGapConsecutive` among them, and the
  health report's text: nothing reads them back.
* `TrackerManager.StopTracker`, which nothing calls, and a second Start of a
  tracker, which would need it.
* `queueCaps`: the sizes of the channels are CONSTANTS.
* The websocket of one network is modelled, not the several of a process, which
  share nothing.
* Amounts, decimals, message formats and TRON's address encodings: data no
  property here tells apart. Address normalisation is in `WalletIndex` as a
  function from spellings to keys.
* Configuration, metrics, logging, the read-only API and its authentication: no
  state that the trackers read back.
* Chain reorganisations: the code does not handle them beyond waiting for
  confirmations, and heights only grow here.
* Rate limiters and the delays of HTTP retries: they delay a step and change
  nothing else. The backoff of the subscriptions is in `HeadFeed`.
* Two data races whose outcome nothing depends on: `EthereumProcessor.wsClient`,
  which its goroutine closes in any case, and the manager's map of trackers,
  which `StopAll` replaces while a request left behind may read it.
