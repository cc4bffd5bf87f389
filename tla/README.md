# A TLA+ verification project for ini-node

ini-node is a Sugarchain full node written in Go: a fork of btcd
(`src/backend/`) with a desktop wallet in front of it (`src/frontend/`). The
fork keeps btcd's consensus code and replaces much of what surrounds it: chain
state is written to disk by an asynchronous queue, the UTXO cache keeps a hot
region across flushes, chain notifications go through a bus, headers live in a
bounded window, headers and blocks are downloaded in parallel, and a second
database indexes addresses. This project models those parts and the ones they
rest on, checks them with TLC, and proves with TLAPS the safety properties of
the write queue, the UTXO cache, the bus, the chain, the peers, the memory pool,
the database and the sugar index.

Paths below are relative to `src/backend/` unless they start with `src/`.

## 1. The system

### Components, their state and how they interact

| Component | State it keeps | Operations | Talks to |
|---|---|---|---|
| Chain core (`blockchain/chain.go`, `accept.go`, `process.go`) | block tree, best chain, best header, orphans, state snapshot, all under `chainLock` | connect, disconnect, reorganize, accept, invalidate, reconsider, roll back headers | calls the UTXO cache and the write queue; publishes on the bus with `chainLock` released |
| A3 write queue (`blockchain/writequeue.go`) | `items` channel, the writer's batch, `stopped`, `stopCh`; on disk rows, best state, marker, watermark | `enqueue`, `syncNow`, `syncNowBelow`, `stop`, writer loop | fed by `connectBlock`; waited on by every flush and disconnect; stopped by `server.Stop` |
| UTXO cache (`blockchain/utxocache.go`) | `cachedEntries` (a slice of maps), `dirtyOps`, `deltaPoints`, `hotFloor`, last flush; on disk the UTXO bucket and the consistency marker | fetch, connect transactions, take delta, full and incremental flush, purge, start-up replay | fed by the chain core; its rows are also written by the write queue and by `disconnectBlock` |
| Notification bus (`blockchain/notifications.go`) | `notifyChan`, quit and done channels, callbacks | send, dispatch, stop | chain core to RPC server and sync manager |
| Block index and header window (`blockchain/blockindex.go`, `coldread.go`, `chainview.go`) | nodes, dirty set, window boundary | add, evict, materialise, flush | chain core, sync manager |
| Sync manager (`netsync/manager.go`) | peers, header ranges, block slices, request window, timers, all owned by the block handler goroutine | messages of peers, stall sampling, rollback | chain core, mempool; consumes the bus |
| Sugar index and optional indexes (`sugarindex/`, `blockchain/indexers/`) | own database or buckets, index tip | connect, disconnect, catch up | called inside the chain's transactions |
| Memory pool, fee estimator (`mempool/`) | pool, outpoints, orphans; fee bins | accept, remove, orphans; register, rollback | sync manager, RPC, miner |
| Miner (`mining/`) | workers, template, quit channels | generate, submit, start, stop | chain core, sync manager |
| Connections (`connmgr/`, `internal/inbound/`, `peer/`, `addrmgr/`) | requests, slots, ban score, addresses | connect, retry, accept, admit | server |
| Server, RPC (`server.go`, `rpcserver.go`) | life cycle | start, `Stop` in a fixed order | everything |
| Wallet (`wallet/`), front end (`src/frontend/`) | encrypted keys | create, unlock, derive | RPC |
| Database (`database/ffldb/`) | block files, write cursor, metadata in a leveldb, a cache of two treaps before it | begin, store, delete, prune, commit, flush, reconcile at start | everything that is persistent but the sugar index |
| Scripts, wire format, cryptography, proof of work | none | pure functions | everything |

### What is hard about it

* **Two writers of one disk.** Best state, marker, rows and watermark are
  written by the queue's batches, by UTXO flushes and by disconnects, from
  different goroutines. Start-up compares them and must find a chain the node
  once had.
* **A lock that is let go in the middle.** `connectBlock` and `disconnectBlock`
  release `chainLock` to send their notification and go on afterwards with
  state captured before.
* **A shutdown beside a running node.** `server.Stop` stops the bus and the
  queue while the block handler still connects blocks.
* **A cache in front of a disk that lags.** A spent entry may leave the cache
  before its row leaves the disk; a flush keeps hot entries; maps overflow.
* **Crashes** between any two transactions, and a replay that must find every
  input exactly once.
* **Bounded channels** whose consumer may be their producer.
* **Two databases that do not commit together**: the sugar index is written in
  the middle of the chain's transactions.
* **Peers that answer late, never, twice or with another chain** while ranges
  and slices are handed out, taken back and handed out again, and the header
  chain itself is rolled back.
* **State that is spread over goroutines**: a connection is known to the
  connection manager, the admission, the server and the sync manager, and each
  learns of its end at another time. The memory pool hears of a block long
  after the chain has moved on.

`PROJECT.json` lists each hazard at its line with the properties that watch it.

### What makes each part correct

* Write queue: the disk is always a prefix of the chain; a barrier means
  durable; nothing is written twice, lost or written after it was detached; the
  lock is released, blocks become durable, the stop ends.
* UTXO cache: the rows are those of the marker's chain; what is unspent is
  found, what is spent or unknown is not; a restart always succeeds.
* Bus: events arrive in order, once, and all of them.
* Chain: the best chain has valid, stored blocks and most work, and the UTXO set
  is that of the chain, whatever the order blocks, headers and commands come in.
* Peers: a slot, a request and a list entry live exactly as long as the
  connection they stand for; limits hold.
* Header and block download: ranges, slices and requests belong to connected
  peers; the front is the next height; a download ends in spite of silent peers.
* Memory pool: its indexes are exact; once the notifications are handled a block
  could take the whole pool.
* Database: a committed block stays readable and is never overwritten; a commit
  is all or nothing; a start finds the last flushed state.
* Sugar index: its rows are those its chain implies.

## 2. Modules

| Module | What it models |
|---|---|
| `WriteQueue` | the queue, the writer, barriers, callers, `server.Stop` |
| `DurableChain` | the abstract promise of the queue: a growing durable prefix of a chain |
| `WriteQueueProofs` | theorems about `WriteQueue` |
| `UtxoCache` | the cache, its flushes, disconnect, purge, crash, replay |
| `UtxoCacheProofs` | theorems about `UtxoCache` |
| `NotifyBus` | publishers, queue, bus goroutine, subscribers, stop |
| `NotifyBusProofs` | theorems about `NotifyBus` |
| `ChainState` | block tree, acceptance, orphans, reorganization, operator commands, header rollback |
| `ChainStateProofs` | theorems about `ChainState` |
| `Peers` | connection manager, inbound admission, the server's peer handler, composed |
| `PeersProofs` | theorems about `Peers` |
| `HeaderSync` | parallel header download, votes, rollbacks, sync peer |
| `BlockSync` | parallel block download, stalls, re-issue, rotation |
| `TxPool` | memory pool, orphan pool, chain notifications |
| `TxPoolProofs` | theorems about `TxPool` |
| `Ffldb` | database driver: transactions, files, cache, crash, reconciliation |
| `AtomicStore` | the abstract promise of `Ffldb` for metadata |
| `FfldbProofs` | theorems about `Ffldb`: metadata, cursors, blocks |
| `SugarIndex` | the sugar index against the chain's transactions, crashes and restarts |
| `SugarIndexProofs` | theorems about `SugarIndex` |
| `MC...` | the constants of each module for TLC |

Definitions that a comment marks `Mutant` are deliberately wrong forms of the
definition after them, there to show that a property can fail.

The modules are composed by abstraction: each treats its neighbours as the
environment that their own module justifies. `UtxoCache` takes a barrier of
`WriteQueue` as one step; `HeaderSync` takes the block download, `BlockSync` the
headers, as given; `TxPool` receives the events of the chain in any order, which
`NotifyBus` shows to be that of the queue but for inline dispatch; `SugarIndex` uses the flushes of `Ffldb` and the batches of
`WriteQueue`; all the chain modules take a database transaction as atomic, which
`Ffldb` shows.

### WriteQueue

A block is a height and an identity. `chain` is the connected chain in memory;
`items`, `batch`, `kept` and `tail` are the channel, the writer's batch, the
slice a barrier collects and the slice `stop()` collects; `rows`, `best`,
`marker` and `watermark` are on disk. `op` is the operation of the goroutine
that holds `chainLock`, with the point it has reached: every place where the
code blocks (a full channel, `syncCh`, the done channel) or lets another
goroutine in is a step of its own. `owed` holds, per goroutine, the state of a
connect whose tail flush is still to come. `wpc` and `shut` are the program
points of the writer and of the shutdown.

* `BeginConnect`, `EnqueueCheck`, `EnqueueSend`, `EnqueueStopped`: `connectBlock`.
* `BeginTailFlush`, `BeginLoopFlush`, `BeginShutdown`, `FlushUpdate`: the three
  callers of a flush, and the flush.
* `BeginDisconnect`, `DisconnectUpdate`, `UpdateError`: `disconnectBlock`.
* `SyncSend`, `SyncReturn`, `Return`: `syncNowBelow` and returning.
* `WriterReceive` ... `WriterExit`: `writer()`, its barrier in five steps.
* `StopMark` ... `StopWait`: `stop()`, called by `server.Stop`. The block
  handler runs on until `stop()` has returned, then flushes and leaves.

A database transaction is atomic; a failing one changes nothing. `flushBatch`
swallows the failure, `disconnectBlock` returns it. `EnqueueSend` takes the send and
`SetTip` as one step: both are under `chainLock`. `outdated` is history: the marker
was last written by a flush whose state the chain has left.

### UtxoCache

An output is a model value; its row is the height of the block that created
it. A block spends and creates at most one output of interest. The identity of
a chain state is the sequence of its blocks, so marker and best state can be
compared with the chain by value. An entry is absent, an explicit nil, live or
spent, with its fresh and modified flags and whether it is in the first map.

`Connect` covers extension and attachment, with `Async` (pruning off: per-block
deltas go to `pending`) or without (chain state at once, UTXO rows by flushes;
a prune may force one inside the transaction). `TailFlush`, `FlushUtxoCache`,
`BatchCommit`, `Disconnect`, `Purge`, `Fetch`, `Crash` and `Replay` are the
other operations. Blocks offered are valid on the chain they extend; what the
node would make of an invalid one is what `Seen` finds, which
`NoPhantomOutput` and `NoDoubleSpend` speak about. `events` is history: a full flush
met a hot entry outside the first map (`"spilled"`), a flush wrote a state the chain
has left (`"outdated"`), a lookup read the row of a spent output (`"reread"`). How the queue batches is left to
`WriteQueue`: a barrier is one step here. Database errors are not modelled here.

### NotifyBus

An event is the number of the chain change it reports. `Change` is made under
the lock; sending is a separate step because the lock is released in between.
`Forward` and `Notify` are the two callbacks, one step each, so that an inline
dispatch and the bus interleave.

### ChainState

Blocks and their parents are constants of equal work, so work is height; `Bad`
holds the blocks `checkConnectBlock` rejects, `CheckHeight` is the height of the last
checkpoint. A block comes with flags: none, mined, or `BFFastAdd` when
`checkHeadersList` gives it that; its orphans are processed under the same flags.
The code refuses a fork below a checkpoint it has passed, the model does not. A block node is an object with an
identity: a block whose node a rollback removed gets a new one while others keep
pointers to the old. `lookup`, `par`, `data`, `valid`, `failed` and `invAnc` are
the index and its flags; `disk` and `rows` the stored payloads and the hash
index; `tip` and `htip` the two chain views; `orphans` and `oldest` the orphan
pool. `task` is what each of two goroutines, the block handler and an RPC
goroutine, is in the middle of, `lock` the holder of `chainLock`.

`ProcessBlock` and `ProcessOrphanBlock` check and file a block,
`maybeAcceptBlock`, `connectBestChain`, `verifyReorganizationValidity`,
`disconnectBlock`, `connectBlock` and `endReorganize` go through acceptance and
reorganization one critical section at a time, `finishAccept` and
`processOrphans` continue with what waited. `ProcessBlockHeader`,
`InvalidateBlock`, `ReconsiderBlock` and `InvalidateHeaderChain` are the other
entries. `events` is a history of what qualifies a property.

### Peers

`req` holds the connection requests with the point their goroutine has reached,
`pending` and `conns` the maps of `connHandler`, `removed` (history) the permanent
requests of peers the operator removed, `life` and `up` the lifecycle
goroutine and the socket of each peer, `lifecycle` the buffered channel to the
peer handler, `tracked`, `groups` and `synced` what the server and the sync
manager list, `slots` and `handshakes` the admission. Dialling fails or
succeeds, v2 negotiation falls back to v1, the remote side closes at any time,
and the operator adds, tries and removes nodes. Of the inbound admission the slots of a
source's handshakes are modelled (`AcquireSource`), and with them the listener's. The v2
half of `admission.go` is not: `V2Admission.Acquire` and its rate budget, `admitV2` with
its cancelled reservations, the channel of `acquireV2Slot`, the LRU of
`reserveV2Source`. They delay or refuse a handshake, which the model allows anyway, but
that they are released is not checked.

### HeaderSync

A header is named by the branches up to it, so a hash is a prefix of a sequence.
`hdrs` and `blocks` are the applied headers and the connected blocks, `hs` and
`range` a round and the range of each peer, `queue` the requests a peer will answer,
`window` the request window cache, `reorged` a notification that will reset it. Peers
answer late or never; the node may be on a block of its own. One action per message
handler (`handleHeadersMsg`, `handleNewPeerMsg`, `handleDonePeerMsg`, a connected block,
an orphan, a block submitted by the miner, the notification of a disconnected block), one
for the ticker (`handleStallSample`), each with everything it calls: `startSync`, the
launch and re-issue of ranges, votes, `maybeFastCutFront`, both rollbacks, pauses,
`abortHeaderSync` and the start of the block download. `HeadersRefused` is
`handleHeadersMsg` when `ProcessBlockHeader` refuses one of the headers, at any place of a
range and in each of the three ways the code tells apart. `hs.drifted` is history: part of
a refused range, or a connected block, has lengthened the header chain behind the front.

Abstractions: why a header is refused is a choice, and the status flags of header nodes are
left to `ChainState`; the height index in the database ends at the connected tip, and the
row of the tip may be that of a header until the writer has stored the block;
`InvalidateHeaderChain` succeeds; several peers of one host are left out. The slice and the
entry of `blockSync` that `dropHeaderPeer` releases belong to the block download, where
`BlockSync` releases them (`handleDonePeerMsg`).

### BlockSync

One chain, so a block is its height. `best`, `stored`, `orphans` are the chain,
the payloads and the orphan pool; `bs` and `slice` the download and the slice of
each peer; `req` and `preq` the two maps of requested blocks; `owed` what each
peer still answers. The ticker, blocks, `notfound`, headers, and peers that come
and go are the actions. A prompt peer answers within a tick.

Not modelled: announcements by inventory, several peers of one host, a block
download that starts while headers still run, blocks that break a rule and the
purge that follows, rollbacks after a divergence of orphans.

### TxPool

An outpoint is a transaction and an index; the chain is a sequence of blocks of
transactions and what is unspent follows from it. `mp` has the pool, `outpoints`,
`orphans` and `orphansByPrev`; `work` is the loop of `processOrphans`, which
holds `mp.mtx` but not `chainLock` between two lookups; `unsent`,
`events` and `handler` are the notifications of the chain's changes that are not sent yet,
those in the handler's queue and the one being handled. They are sent in any order, with
`chainLock` released and through the bus or past it; `overtaken` is history: one of them
was sent before an earlier one. Whether a
transaction is standard, final or pays enough is a choice where the answer may
change (`Fickle`), a constant where it may not.

### Ffldb and AtomicStore

A file is a sequence of units, a record a run of them that is readable only if
it is all there. `files` remembers how much of each was synced, `wc` is the write
cursor, `ldb` the leveldb, `cachedKeys` and `cachedRemove` the two treaps, `tx`
the writable transaction with its pending blocks and the point its commit has
reached, `reader` a snapshot taken in two steps. Any file or leveldb operation
may fail, a kill or a power failure may come between any two. `AtomicStore` says
what the metadata side promises: durable states are committed states, and a
start finds the last durable one.

### SugarIndex

`chain` is the chain as its transactions have left it, `disk` the part that is
flushed, `idx` the index and `safe` what a power failure would leave of it. `txn`
is the transaction in which the index is being updated: the index is written
before it commits. `boot` is `Init`: the wipe with its batches, then the workers
that hand in heights in any order and the consumer that takes them in order.
`held` and `off` in `idx` are history: the blocks whose rows the index was told
to hold, and why it may differ from the chain. A transaction may fail after the index was
told of its blocks (`ConnectFails`, `DisconnectFails`): without the queue the chain stays
where it was, with it the batch is lost and the chain in memory goes on above it, so
`best`, the last committed block, is behind `chain`. Blocks of a lost batch are still
disconnected with their journal, which is more than the code can do. The race of the
queue's stop is left to `WriteQueue`; `RecoverFile`, which may
keep a tip and lose rows, is not modelled.

## 3. Runs

| Run | Bounds | Shows |
|---|---|---|
| `wq_single` | channel 2, batch 2, 4 blocks, one caller | types; `ImplementsDurableChain`; `EventuallyDurable`: blocks become durable; `WaitsEnd`: the lock is released and the shutdown ends |
| `wq_races` | channel 2, batch 2, 3 blocks, two callers, one failing transaction | `PrefixBeforeStop`, `BarrierDurableNoError`, `NoResurrectionBeforeStop`, `MarkerAtBest`, and always `ExactlyOnce` |
| `utxo` | 2 outputs, first map of 1, height 3, 1 disconnect, 2 crashes, two callers, both modes | `DiskAtMarker`: rows are those of the marker's chain; `LookupsRight`: no lost output, a spent one found only while its deletion is queued; `RestartSucceeds` |
| `notify_bus` | queue 2, message channel 1, 4 events, two publishers | `DeliveredInOrder`: queued events in order and once; `BusDrains`: all of them, also across the stop, which returns |
| `chain` | 5 blocks in two branches, one bad, last checkpoint at height 1, 2 orphans, one command or rollback | `NoBadBlock`; `ChainBacked`: UTXO set and payloads are those of the chain; `AssertionsHold`; `MostWork`; `NothingLeftBehind`: no stuck orphan, header view leads; `OneBlockAtATime` |
| `peers` | 3 requests, 1 inbound peer, 2 addresses, 2 peers at most | `SlotsConserved`; `AccountsExact`: slots, handshakes, groups and limits; `OnePerAddress`; `NoGhostPeer`; `PermanentKept` |
| `headers` | 2 peers with 3 and 2 headers, slices of 2, one rollback in a row, six ways to start, one mishap (a silent or leaving peer, a refused header, a mined block) | `FrontApplied`: front and header chain agree; `RoundConsistent`: ranges and sync peer belong to the round and the connections; `CutsForMore`: blocks are given up only for a chain that promises more |
| `blocks` | 2 peers, one prompt, 4 blocks, slices of 3, window 4 | `RequestsConsistent`: requested is in flight from a connected peer; `WithinWindow`; `CatchesUp` (liveness) |
| `pool` | 4 transactions (a chain, a double spend, a replaceable one), 2 orphans, one too large for an orphan, 3 chain moves sent in any order, one missed event | `PoolConsistent`: indexes exact, one home; `PoolMinable`: the pool can be mined once settled |
| `db` | 2 blocks, files of 2 units, 3 files, 3 transactions, one failing operation, one crash | `BlocksKept`: committed blocks readable, never mixed up, refused only after a loss; `CursorSound`: nothing live ahead of the cursor, current file kept; `CommitAtomic`; `ImplementsAtomicStore` |
| `sugar` | branches of 2 and 3 blocks, 4 transactions in both, 3 chain transactions, 2 faults, one session without the index | `IndexExact`: rows are those of the chain; `StaysWithChain`: the index is at its tip; `InitSound`: an interrupted wipe is finished |
| `utxo_stale_read` | 2 outputs, height 3, write queue on | **violation**: a spent output is read back from disk before its batch commits |

Most invariants of a run are conjunctions of named parts, each with a comment of
its own in the module; the qualifications below name the parts.

Why the bounds are enough. Channel and batch of two are enough for a full
channel, a full batch, a partial batch and a batch that ends within the channel;
four blocks fill channel and batch at once. Two outputs give one output spent by
another's block and one created and spent in one block; height 3 with a hot
depth of 1 puts entries on both sides of `hotFloor`, and a first map of one entry makes
the second overflow. Two crashes let the second
interrupt the replay of the first. Two queued events and four in all let an
event overtake and the queue fill twice. In `chain` the longer branch has to be
reorganized to and fails at its third block; the first blocks of both are
below the checkpoint, so that what waits for them, the bad block too, may come in under
`BFFastAdd`; two orphans overflow the pool with a third. Three
requests let one be dialled, one be established and one replace it over two
addresses. Two header ranges of two
headers let the second arrive before the front one, with a peer to re-issue it
to; the starts have the header tip at, above, beside and a block below the connected tip.
Three headers on the network and one rollback in a row are enough for every detector to
fire and for a rollback to be declined. Four blocks in slices of three give a whole and a partial slice that fill
the window. Two orphans and four transactions fill the
orphan pool with a chain of descendants. Three files of two units with two
blocks have a full file, a current one and one to prune; one crash may come
between any two steps of a commit, a flush or a rollback. In `sugar` a
transaction is in both branches at the same height, another at different
heights, a third spends an output of its own block; two faults let a kill
interrupt the repair after a kill.

`CHECK_DEADLOCK FALSE` where a node may be down, a bound is used up or nothing is
left to do.

### Where properties are qualified, and what the qualification means

The qualifications mark where the code falls short of what its comments say or a
reader would expect; each was confirmed by dropping it and reading TLC's
counterexample, except the cases marked "by hand".

Write queue, UTXO cache, bus:

* `~closed` in `NoResurrectionBeforeStop`: with `stopCh` closed `syncNowBelow`
  returns without filtering, so a block disconnected during the stop is written
  back by the writer's last batch. For the same reason `PrefixBeforeStop` ends
  there: `stop()` may commit newer items before the writer commits its older
  batch.
* `NothingForgotten` counts the channel as a place: an `enqueue` that has passed
  the `stopped` check may send after `stop()` has drained the channel and the
  writer has left, so the item is held there and never written.
* `errors = 0` in `BarrierDurableNoError`: `flushBatch` only logs a failed
  transaction, and the barrier acknowledges all the same.
* `outdated` in `MarkerAtBest`, `"outdated"` in `Sane`: between the release of `chainLock`
  in `connectBlock` and its tail flush another caller may move the chain. The flush then
  puts the marker on a block disconnected meanwhile, ahead of the rows, and the replay
  after a crash fails. `MarkerAtBest` says "not above the watermark" because a disconnect
  does not lower the watermark, and ends at the first failed transaction, which
  `flushBatch` only logs.
* `"spilled"` in `Sane`: hot entries that have overflowed into a second map come back
  from a full flush as nil (utxocache.go:781-794) and are not found. Without the mark
  `NoLostOutput` fails, and with it the blocks that spend these outputs are refused.
* `NoDoubleSpend` allows the window in which a deletion is queued, and ends at `"reread"`:
  a lookup in that window brings the spent output back into the cache, where it outlives
  the row (`utxo_stale_read`). A restart clears it. Hot entries of a detached block stay in
  the cache after a full flush inside the disconnect.
* A block can be detached before the batch with its spend journal is committed
  when the barrier has bailed out.
* `QueuedInOrder` speaks of queued events: with the queue full an event is
  dispatched inline and overtakes them. An event sent after the bus has stopped
  is never read.

`ChainState`:

* `"overlap"`: `connectBlock` and `disconnectBlock` release `chainLock` for the
  notification in the middle of a reorganization (chain.go:1214), although
  chain.go:2537 calls `InvalidateBlock` safe for concurrent access. A block
  accepted there makes `disconnectBlock` fail its assertion or mixes two
  branches.
* `"misfire"`: `oldestOrphan` is reset only by an eviction (chain.go:517, 543).
  An orphan that was connected in the meantime is evicted in place of a waiting
  one, with its payload, against the comment at chain.go:477-479.
* `"bypass"`: the hash index has rows for header-only nodes, so an orphan's stored
  payload passes for a stored block (chain.go:360-362). With six blocks in a line a
  block above it is then taken for one whose parent is there, and an orphan stays
  stuck below the tip, or is connected while it is in the pool and loses its
  payload when it expires.
* `"halted"`: `processOrphans` returns at the first error. With two orphans of one
  parent, one of them bad, the other is left waiting for a block that is
  connected; the comment at process.go:141-144 has it repeat "until there are no
  more".
* `"unchecked"` in `NoBadBlock` and `AssertionsHold`: `ProcessBlock` hands its flags to the
  orphans of the delivered block (process.go:403, 185), so an orphan above the last
  checkpoint is connected under `BFFastAdd` without `checkConnectBlock`. The mark is set
  where such a block breaks a rule, and `NoBadBlock` says that there is no other way onto
  the best chain: a block that has to be reorganized to is always checked. A later
  reorganization may then fail at the blocks above it.
* `"unrolled"`: `InvalidateHeaderChain` sets the header view back before it
  detaches blocks; when that fails the header view stays below the tip.
* `commands = 0 \/ commands + rollbacks = 1` in `AssertionsHold`: after two
  commands an assertion can fail. A header-only block is invalidated, its payload
  arrives and it is connected, and `InvalidateBlock` for a block below it does not
  detach the node that is already invalid. `ReconsiderBlock` after a rollback can
  find no tip to reconsider and dereference nil; after `InvalidateHeaderChain`
  pointers to removed node objects remain, so `MainChainHasBlock` is wrong about
  them.
* `Undisturbed` in `ChainOnDisk`: a block that fails when it is resumed has its
  payload removed after `chainLock` is released; with two commands
  `ReconsiderBlock` connects it in between, and the payload of a block of the chain
  is gone. One command should do with a longer chain (eight or nine blocks, by
  hand; simulation with six found nothing), so the property claims nothing after
  one.
* `Undisturbed` in `MostWork` and `NoStuckOrphan`: `InvalidateBlock` tries only one
  other tip, header-only ones included; an invalidated header-only block is
  connected when its payload arrives, and resubmitted headers clear its flags
  (rpcserverhelp.go:581 describes the opposite). A rollback leaves the children
  of removed blocks on side branches, and blocks accepted above a payload that
  is lacking fail and leave their orphans waiting (by hand, nine blocks).
  `HeaderLeads` needs only that no command was given and no rollback has failed.

`Peers`:

* `ghost` in `PeerBudget`: an inbound peer that has already left can be evicted
  once more, which frees no slot, so one peer too many is let in.
* `extra` and `lost` in `SlotsConserved`: the end of an `addnode onetry` starts
  an automatic connection; permanent connections count towards the target, so a
  v1 fallback may be lost.
* `OneRequestPerAddress` speaks of the operator's requests: automatic ones are
  not compared. `addnode add` of an address that is pending or connected is dropped silently.

* `removed` in `PermanentKept`: `addnode remove` of a persistent peer disconnects it and
  does not tell the connection manager, which dials the request again, although
  docs/json_rpc_api.md:202 and rpcserverhelp.go:35 have "`remove` to remove a persistent
  peer". The property claims nothing of a removed request.

`HeaderSync`:

* `hs.drifted` in `FrontApplied`: when a header is refused after others of its range were
  applied, and the rollback is declined, `nextHeight` stays at the start of the range,
  behind the header chain; a block that extends the header chain during a round does the
  same. The front is then asked for again. It is never ahead of the header chain.
* `Promised` in `CutsForMore` has three cases: a connected peer advertises more; the header
  chain is longer and has left the connected one, for the detectors in the sample, at an
  orphan (manager.go:2326) and at a refused block of the miner (4659), which look at no
  peer; the rest of a round overtaken by blocks, where a late response still cuts.
  `MaxRollbacks` and the guard on taller peers hold for `rollbackFabricatedHeaderChain` only.

`HeaderSync` states no liveness, because there is a livelock: the checks of the
peer height and of ten minutes without a block roll a healthy chain back when
two samples pass without a block, again and again; at the genesis block
`blockMissingHeight` is 0 and the download counts as stalled at the first sample
(the comment at manager.go:1757-1766 says otherwise). Also: the lead of headers
over blocks is not limited when a single peer serves them (3017, against
165-170); a late answer to an earlier request can cut an honest chain
(3071-3079); `confirmed` is set at launch (1188) and never cleared, so the second
vote (3233-3243, 3319-3322) is dead code; after a lead pause the front range is
launched without advancing `nextAssign`, and may go to a peer that is too short.

`TxPool`:

* `unrestored` in `PoolMinable`: a disconnected transaction whose parents are
  gone is not an error (manager.go:4848-4854), so its descendants stay.
* `~overtaken`: a notification is sent after `chainLock` is released (chain.go:1024-1028,
  1217-1221), by the goroutine that moved the chain, and past the queue when that is full
  (notifications.go:102), so "disconnected" may arrive before the "connected" of the same
  block: its transactions are restored, then removed, and a child is left in the pool
  without its parent.
* `missed = 0`: a notification that is dropped or ignored (manager.go:5224-5236)
  is never made up for.
* A reinsertion does not look at orphans and fails when the transaction is one;
  `processOrphans` stops at the first error and leaves other orphans waiting.

`BlockSync`:

* `CatchesUp` holds while the download keeps its slices. The path without slices
  asks from the cursor on: an orphan whose hash has a row counts as a block, so
  the cursor may pass a missing height that is never asked for again; the good
  peer is then disconnected every three minutes.
* Slices can overlap (the comment at 427-432 says they never do); an honest peer
  that was asked twice is disconnected for an unrequested block (2792-2797); an
  idle honest sync peer is disconnected by the rotation; a re-issue can hand the
  front to the same silent peer; `ibdMode` stays set when the last block arrived
  as an orphan (2470-2482).
* `reconnectStoredBlocks` can connect an orphan: `dbPutOrphanBlock` writes its
  payload, so `BlockStored` (chain.go:360-362) is true of it once its hash has a
  row, although manager.go:2847-2853 says orphans are left out. It then stays in
  the orphan pool below the tip until it expires, so the type invariant bounds
  `stored` by the tip and not `orphans`. This needs five blocks; with `Start = 5`
  and `Window = 5` all three properties hold too (511437 states, too slow for
  the regular run).

`Ffldb`:

* `lost` in `BlocksReadable` and `RefusedOnlyAfterLoss`: `writeBlock` closes a
  full file without a sync and `syncBlocks` syncs the current file only
  (dbcache.go:494-498); pruned files are deleted before the commit, so a crash or
  a failed commit brings rows of missing files back.
* `stray` in `CurrentKept`: after a rollback that could not delete a newer file
  the current one is not the last, and pruning deletes it.
* `Snapshot()` takes the leveldb's snapshot before the roots of the cache
  (dbcache.go:398): with a flush in between it is a state the database never was
  in. Its rows are still sound, which is what the properties say.

`SugarIndex`:

* `"ahead"`: after a kill the index may be above the best block. `Init` keeps it
  ("a real reorg would surface via connectBlock instead", indexer.go:150). Told of
  the same blocks again it is exact again, which `IndexExact` covers;
  `connectBlock` compares nothing, so if the chain takes another branch the rows of
  both are mixed for good.
* `"mixed"`: an index that is ahead was told to take a block beside one it holds,
  to let go of one that is not its last, or a pruned block below one it holds was
  passed over by the catch-up. Without the second of these, TLC finds: a kill
  leaves the index at a2, the node runs without it onto b1, the index is kept as
  ahead, and the disconnect of b1 erases the rows of a transaction that a1 has at
  the same height; a power failure brings that copy back when a1 is pruned. Without
  the third: connecting the lower of two held blocks again puts back outputs that
  the higher one spends, that copy survives a power failure, and the catch-up
  skips the block, now pruned: a phantom unspent row.
* `"failed"`: a disconnect whose transaction fails has already been taken back
  in the index; a block connected next leaves a hole. A connect whose transaction fails
  leaves the index a block above the chain, a failed batch leaves the chain above blocks
  that are not on disk. Nothing is claimed then until the index is rebuilt.
* `power \/ disabled > 0` in `WipeFinished`: an interrupted wipe is noticed by its
  tip, which a session without the index can bring back onto the chain, and a
  power failure may undo the end of a wipe.
* `Chained` in `IndexExact`: `disconnectBlock` goes through the transactions
  forwards, so an output created and spent in one block is erased and then
  restored: a phantom unspent row, against the comment at indexer.go:495-497.
* Rows by timestamp and by transaction id are not erased by a disconnect, those
  by transaction id not by a wipe: `GetTxByHash` may return another transaction.
* Pruning may be combined with the index: the catch-up then skips the blocks that
  are gone, which is why `StaysWithChain` starts at `cut`.

### Fairness

`wq_single`, `notify_bus` and `blocks` state liveness.

* The writer, `stop()` and the holder of `chainLock` run when they can: weak
  fairness on their steps, since the Go scheduler does not starve a goroutine.
* The flush loop has a ticker of five minutes and the handler its tail flush
  and its exit; each of them contends for a mutex, which Go hands over to a
  waiter that has waited long enough: strong fairness.
* Nothing makes blocks arrive and nothing makes the server stop: no fairness.
* The bus goroutine, a publisher that has begun to publish and the block
  handler run when they can: weak fairness.
* `BlockSync`: a prompt peer answers and, when disconnected, is connected again
  by the connection manager; the ticker of the stall handler ticks; the server
  reports a disconnected peer. Weak fairness, spelled out with the guards of the
  actions. Nothing is assumed of the other peer.

## 4. Proofs

Each theorem holds for every value of the constants that the named assumptions
of its module allow: any set of goroutines, transactions, blocks or peers, any
capacity and any bound. The assumptions say only what a constant is (a number is
a natural number, a null value is none of the values), and facts of the system:
a transaction has inputs, and what is unspent before any block was not created by
a transaction that may still come (`TxPool`); blocks form a tree with the genesis
block at its root (`ChainState`, `SugarIndex`); on a branch a transaction occurs
once and an output is created before it is spent, and spent once, as the chain
has checked before the index is told (`SugarIndex`). Where a theorem needs more,
the theorem says so.

Hardly any property is inductive as it stands. What was missing is, in each
component, where a thing is while it is between the two places the property
speaks of.

`WriteQueueProofs`, in two invariants:

* `Inv` (`TypeInv /\ StopShape /\ QueueInv`), for `TypeCorrect`, `PrefixAlways`
  (`PrefixBeforeStop`) and `BarrierAlways` (`BarrierDurableNoError`): while no
  transaction has failed and `stopCh` is open, the best state is a durable prefix
  of the chain, and `kept`, `batch` and `items` in this order are the rest, except
  that a disconnect in progress has already lost, or is about to lose, the tip.
* `Flow`, for `ExactlyOnceAlways`, `NoResurrectionAlways` and the refinement
  `DurableChainImplemented`: `Inv` says nothing once a transaction has failed or
  `stop()` has begun, and those properties do. `Flow` gives up the exact prefix
  and keeps the custody of every block (in the chain, in one container, in rows or
  known to be lost), the order of the containers, and what the limit of a barrier
  implies.
* `MarkerAlways` (`MarkerAtBest`), for any callers: given `Inv` the property is itself
  inductive (`MarkerNext`). A flush whose captured state is still the tip writes what its
  barrier has made the best state; any other is marked `outdated`, and the next batch,
  disconnect or flush, which writes marker and best state together, clears the mark.

`UtxoCacheProofs`: `DiskAlways`, `RestartAlways` and `LookupsAlways`, from
`UtxoInv`. They have no hypotheses beyond the types of the constants: any number of callers, any
size of the first map. Each holds up to the first `"spilled"` or `"outdated"`, after which
the code does not keep these properties (section 3). The invariant
says what an entry of the cache may be given the row on disk and the chain
(`CacheOK`): a row that differs from the chain's has a modified entry, or an item
in the queue, one per block (`Queued`). The UTXO set of a chain is a function of
its sequence of blocks; the lemmas on it are by induction over the length, with
the least counterexample (`LeastNumber`).

`NotifyBusProofs`: `DeliveryAlways` (`DeliveredInOrder`), from `BusInv`. An event
is in the queue, in the hands of the bus, of a publisher that found the queue
full, or delivered (`Owned`, `NotYet`), and the RPC server has received exactly as
many queued events as the bus has taken, less the one in its hands (`Queue`).

`ChainStateProofs`. `TreeAssumption` says that the height of a block is defined,
so that a walk to the genesis block ends; `Line` is the set of blocks on it, and
`Falls` and `Rises` say of a list of nodes that it leads from the tip down to a
fork, and from the fork up. The invariants, each for what comes after it:

* `Typed`, for `ChainTypesAlways`: the flags and pointers of the node objects, what
  a goroutine may hold at each point of its operation, and who has the lock.
* `Safe`, for `NoBadAlways` (`NoBadBlock`: unless marked `"unchecked"`), `UtxoAlways` (the part of `ChainBacked`
  about outputs) and `OneBlockAlways` (`OneBlockAtATime`): what a goroutine is still
  to detach leads down from the tip and what it is to attach leads up from there,
  as long as the other goroutine has not moved the chain meanwhile; what is to be
  attached is checked, however often the lock was let go since.
* `Led`, for the part of `NothingLeftAlways` about headers: when the header view
  may be behind the tip.
* `Peace` and `Calm`, for `ChainBackedAlways`, `MostWorkAlways` and
  `NothingLeftAlways`: a block that the index calls stored has its payload and
  those below it; a payload is a stored block's, an orphan's, or that of the
  orphan in hand; no good stored block is higher than the one the handler is on
  its way to; the orphans of a stored block are in the handler's list. Only bad
  blocks, and what is above them, are blamed. That `Calm` fails without
  `events = {}` led to `"bypass"` and `"halted"` above.
* `Struck` and `Bounded`, for `AssertionsAlways` (`AssertionsHold`): what an
  invalidation detaches ends at the parent of the block it was given, and the
  index has a highest branch, so that a reconsideration finds a tip.

`PeersProofs`: `AccountsAlways`, `SlotsAlways`, `OnePerAddressAlways`,
`NoGhostAlways` and `PermanentAlways`, from `PeersInv`. A request, the lifecycle
goroutine of its peer, the events in the channel and the lists of the server are
four views of one connection that change at different times; `Skeleton` says how
far apart they can be. No count occurs in it. The counts (slots, handshakes,
groups, the target) are then the cardinalities of sets that an action changes by
one element.

`TxPoolProofs`, in two invariants:

* `PoolInv`, for `PoolAlways` (`PoolConsistent`) and its parts: the maps are sound,
  a transaction has one home, and what the handler has in hand is a transaction.
  One lemma for each of `DropOrphans`, `DropTxs`, `Accept` and `addOrphan`.
* `ChaseInv`, for `MinableAlways` (`PoolMinable`). The pool takes transactions
  that were checked against the chain as it is, and is told of blocks later, so
  in between it agrees neither with the chain nor with the chain as far as it was
  told. `Followed` says of each disagreement which notification will end it: a
  confirmed transaction of the pool, and one whose input is spent by the chain,
  wait for the block's notification (`Removed`, `Settling`); a parent that is
  neither confirmed nor in the pool comes back with a disconnected block
  (`Rooted`). They are about the notifications sent and unsent, and hold while none has
  overtaken another, because these have an order: the last one of a
  transaction agrees with the chain (`LastWord`), one that is no longer confirmed
  has its disconnection still to come (`Recalled`), and a confirmed transaction
  has its last notification not before that of its parents (`InTurn`). The last
  is what makes it safe that a client submits, in the middle of the handling of a
  block, a child of a transaction not yet removed.

`FfldbProofs`:

* `StoreInv`, for the refinement `AtomicStoreImplemented` and for
  `CommitsAreAtomic` (`CommitAtomic`): what is true between the steps of a flush.
* `CursorInv`, for `CursorAlways` (`CursorSound`): where the cursors in memory, in
  the cache and on disk may be at each step of a commit, a rollback and the
  reconciliation after a crash, and which files reach beyond them.
* `BlocksInv` (`CursorInv /\ Rows /\ Writing /\ Present /\ Down /\
  RefusedOnlyAfterLoss`), for `BlocksKeptAlways` (`BlocksKept`): a row is looked at
  not where it is read but wherever it may come back from, the leveldb, the
  cache, the transaction and the reader's snapshot. Each keeps its rows behind
  the committed cursor, and every change of a file keeps what is below one.

`SugarIndexProofs`: `StaysAlways` (`StaysWithChain`) and `InitAlways`
(`InitSound`), from `SugarInv`: each copy of the index, the one a power failure
would leave too, holds the branch of its own tip (`Sound`); the tip is where the
transaction in progress (`Up`) or the catch-up (`Catching`) has come to; an
unfinished wipe is one that the next start finds again (`Torn`). From
`ExactInv`: `IndexExactAlways` (`IndexExact`). The rows of a copy of the index are
compared not with the chain but with the blocks the copy holds and the one it was
last told of (`Exact`, `Told`), because a copy may be above both, and may return
after a power failure when the chain has moved on. What a disconnect restores was
created by a held block or by a pruned one, and on those all chains of the node
agree (`Low`, `Agree`). `Climbing` and `Filling` say where the index is inside a
transaction and inside the catch-up.

Some definitions are stated in the form a proof can use, with the same meaning:
`QueuedInOrder` with indexes, `Committed` with the last item that touches an
output, `txDescendants` and `txAncestors` as smallest closed sets, the batch of a
catch-up as the index it will write.

### What is only model-checked

* Liveness: `EventuallyDurable`, `WaitsEnd`, `BusDrains`, `CatchesUp`. Fairness is
  out of the prover's reach.
* `HeaderSync` (`FrontApplied`, `RoundConsistent`, `CutsForMore`) and `BlockSync`
  (`RequestsConsistent`, `WithinWindow`): their handlers repeat a step over all peers
  or ranges by folds and recursion, whose results the library can only reason
  about with operators as parameters.

## 5. What is not modelled

* Scripts, signatures, encodings, proof of work and the other consensus rules
  that are pure functions of their input; wallet cryptography; the front end and
  the command line tools; request handlers of the RPC server.
* The leveldb's own log: a transaction of it is atomic and durable.
* Code taken over unchanged from upstream with little state of its own: the
  peer's handshake, ping and stall handlers, the address manager, the optional
  indexes (rows in the chain's own database).
* The header window's eviction and cold reads, version bits, the fee estimator
  and the miner: candidates, see below.

## 6. Plan

Done: `WriteQueue`, `DurableChain`, `UtxoCache`, `NotifyBus`, `ChainState`, `Peers`,
`HeaderSync`, `BlockSync`, `TxPool`, `Ffldb`, `AtomicStore`, `SugarIndex` and the
proofs of section 4.

Next, in this order:

1. Proofs: `InFlightOwned` and `WithinWindow` of `BlockSync`, with one lemma per
   handler that a fold repeats; `FrontApplied` of `HeaderSync`. Both modules first
   need their recursion and folds replaced by functions.
2. `HeaderWindow`: eviction, cold reads, guarded height rows.
3. A composition of `WriteQueue` and `UtxoCache` for the shutdown, with failing
   transactions.
4. The fee estimator (register and rollback as inverse operations), version bits
   (the memoised state machine against its definition), the miner.
