----------------------------- MODULE WriteQueue -----------------------------
(***************************************************************************)
(* The asynchronous chain-state write queue of backend/blockchain (A3):    *)
(* blockchain/writequeue.go with the callers that feed it and wait on it.  *)
(*                                                                         *)
(* Goroutines.  Every goroutine that connects or disconnects blocks, or    *)
(* flushes the UTXO cache, does so under chainLock; the variable `op` is   *)
(* the operation of the goroutine holding it.  The writer goroutine and    *)
(* the stop() call of server.Stop run without it, and server.Stop comes    *)
(* first: the block handler goes on connecting blocks until stop() has     *)
(* returned and syncManager.Stop has closed its quit channel.              *)
(*                                                                         *)
(* Data.  A block is the record of its height and an identity; what its    *)
(* writeItem persists (node rows, best state, height index, spend journal, *)
(* index rows) is the membership of the block in `rows`.                   *)
(***************************************************************************)
EXTENDS Naturals, Sequences

CONSTANTS
    Cap,        \* writeQueueCap, capacity of the items channel
    BatchSize,  \* writeQueueBatchSize
    Handler,    \* the netsync block handler goroutine
    Rpc,        \* other goroutines that connect or disconnect blocks
    FlushLoop,  \* the utxoFlushLoop goroutine
    NoOne,      \* not a goroutine: chainLock is free
    Spending,   \* identities of the blocks that spend at least one output
    MaxBlocks,  \* bound: blocks connected in a behaviour
    MaxErrors   \* bound: failing database transactions in a behaviour

ASSUME QueueAssumption == /\ Cap \in Nat \ {0}
                          /\ BatchSize \in Nat \ {0}
                          /\ MaxBlocks \in Nat
                          /\ MaxErrors \in Nat
ASSUME GoroutineAssumption == /\ FlushLoop \notin Rpc \cup {Handler}
                              /\ NoOne \notin Rpc \cup {Handler, FlushLoop}
                              /\ Handler \notin Rpc

Callers == {Handler} \cup Rpc

VARIABLES
    chain,      \* the connected chain above genesis, in memory (bestChain)
    items,      \* contents of the q.items channel
    batch,      \* the writer's in-flight batch
    kept,       \* the slice (keep, then tail) a barrier is collecting
    tail,       \* the slice stop() is collecting
    rows,       \* blocks whose metadata rows are on disk
    best,       \* best state on disk
    marker,     \* UTXO consistency marker on disk
    watermark,  \* write watermark on disk
    op,         \* the operation of the chainLock holder
    owed,       \* per caller: state of a connect whose tail flush is due
    wpc,        \* control point of writer()
    below,      \* maxHeight of the barrier the writer serves; NoLimit if none
    done,       \* the current barrier's done channel is closed
    stopped,    \* q.stopped
    closed,     \* stopCh is closed
    shut,       \* control point of the shutdown: server.Stop, then the handler
    connected,  \* number of blocks connected so far; the last identity
    errors,     \* failed database transactions so far
    outdated    \* history: the marker was last written by a flush whose state
                \* was no longer the tip

memVars  == <<chain, owed, connected>>
diskVars == <<rows, best, marker, watermark, outdated>>
wrVars   == <<batch, kept, wpc, below>>
stopVars == <<tail, stopped, closed, shut>>
vars == <<memVars, diskVars, wrVars, stopVars, items, op, done, errors>>

\* Mutant: the barrier compares heights with the -1 of syncNow.
NoLimitAsHeight == 0
NoLimit == MaxBlocks + 1          \* syncNow: keep items of every height
Genesis == [height |-> 0, id |-> 0]
Blocks  == [height : 0 .. MaxBlocks, id : 0 .. MaxBlocks]

Tip    == IF chain = <<>> THEN Genesis ELSE chain[Len(chain)]
Parent == IF Len(chain) < 2 THEN Genesis ELSE chain[Len(chain) - 1]
Elems(s) == {s[i] : i \in DOMAIN s}

\* Mutant: one item too many fits the channel.
HasRoomOffByOne == Len(items) <= Cap
HasRoom == Len(items) < Cap

\* The barrier's height filter.
\* Mutant: the limit itself is dropped.
KeepsBelowLimit(b) == b.height < below
Keeps(b) == b.height <= below

\* bestChain.SetTip(node.parent)
Detach == SubSeq(chain, 1, Len(chain) - 1)

\* An operation: who holds chainLock, what for, how far it got, and the
\* best state it is going to persist.
Idle == [by |-> NoOne, kind |-> "none", at |-> "free", state |-> Genesis]
Op(c, k, a, s) == [by |-> c, kind |-> k, at |-> a, state |-> s]
Goto(a) == op' = [op EXCEPT !.at = a]

Init ==
    /\ chain = <<>> /\ owed = [c \in Callers |-> Genesis] /\ connected = 0
    /\ rows = {} /\ best = Genesis /\ marker = Genesis /\ watermark = 0
    /\ outdated = FALSE
    /\ batch = <<>> /\ kept = <<>> /\ wpc = "select" /\ below = NoLimit
    /\ tail = <<>> /\ stopped = FALSE /\ closed = FALSE /\ shut = "running"
    /\ items = <<>> /\ op = Idle /\ done = FALSE /\ errors = 0

-----------------------------------------------------------------------------
(* Database transactions.  flushBatch commits a whole batch or nothing; on *)
(* failure it only logs, so the batch is gone either way.                  *)

\* Mutant: the marker is left to the cache flush.
CommitWithoutMarker(b) ==
    IF b = <<>> THEN UNCHANGED diskVars
    ELSE /\ rows' = rows \cup Elems(b)
         /\ best' = b[Len(b)]
         /\ watermark' = b[Len(b)].height
         /\ outdated' = FALSE
         /\ UNCHANGED marker

Commit(b) ==
    IF b = <<>> THEN UNCHANGED diskVars
    ELSE /\ rows' = rows \cup Elems(b)
         /\ best' = b[Len(b)]
         /\ marker' = b[Len(b)]
         /\ watermark' = b[Len(b)].height
         /\ outdated' = FALSE

Fail(b) ==
    /\ b # <<>> /\ errors < MaxErrors
    /\ errors' = errors + 1
    /\ UNCHANGED diskVars

flushBatch(b) == (Commit(b) /\ UNCHANGED errors) \/ Fail(b)

-----------------------------------------------------------------------------
(* The chainLock holder.                                                   *)

\* A caller can start: chainLock is free, it owes no tail flush, and the
\* block handler has not left its message loop.
Ready(c) == /\ op = Idle
            /\ owed[c] = Genesis
            /\ c = Handler => shut \notin {"flushing", "flushed", "done"}

\* connectBlock up to the enqueue: snapshot taken, item built.
BeginConnect(c) ==
    /\ Ready(c)
    /\ connected < MaxBlocks
    /\ op' = Op(c, "connect", "check",
                [height |-> Len(chain) + 1, id |-> connected + 1])
    /\ UNCHANGED <<memVars, diskVars, wrVars, stopVars, items, done, errors>>

\* enqueue: the stopped flag is read under q.mu, before the select.
EnqueueCheck ==
    /\ op.at = "check"
    /\ IF stopped THEN op' = Idle ELSE Goto("send")
    /\ UNCHANGED <<memVars, diskVars, wrVars, stopVars, items, done, errors>>

\* enqueue sends the item; connectBlock sets the tip.  When the cache is
\* over its limit a flush is due, which runs once chainLock, released for
\* the notification, has been taken again.
EnqueueSend ==
    /\ op.at = "send"
    /\ HasRoom
    /\ items' = Append(items, op.state)
    /\ chain' = Append(chain, op.state)
    /\ connected' = connected + 1
    /\ \/ owed' = [owed EXCEPT ![op.by] = op.state]
       \/ UNCHANGED owed
    /\ op' = Idle
    /\ UNCHANGED <<diskVars, wrVars, stopVars, done, errors>>

\* enqueue finds stopCh closed: connectBlock returns an error.
EnqueueStopped ==
    /\ op.at = "send"
    /\ closed
    /\ op' = Idle
    /\ UNCHANGED <<memVars, diskVars, wrVars, stopVars, items, done, errors>>

\* Tail of connectBlock: syncNow, then a flush with the state captured
\* before chainLock was released.
BeginTailFlush(c) ==
    /\ op = Idle
    /\ owed[c] # Genesis
    /\ op' = Op(c, "flush", "sync", owed[c])
    /\ owed' = [owed EXCEPT ![c] = Genesis]
    /\ UNCHANGED <<chain, connected, diskVars, wrVars, stopVars, items, done, errors>>

\* FlushUtxoCache from the periodic loop.
BeginLoopFlush ==
    /\ op = Idle
    /\ shut # "done"
    /\ op' = Op(FlushLoop, "flush", "sync", Tip)
    /\ UNCHANGED <<memVars, diskVars, wrVars, stopVars, items, done, errors>>

\* server.Stop has returned from stop() and the quit signal has reached the
\* block handler, which leaves its loop and calls FlushUtxoCache.
BeginShutdown ==
    /\ Ready(Handler)
    /\ shut = "returned"
    /\ shut' = "flushing"
    /\ op' = Op(Handler, "flush", "sync", Tip)
    /\ UNCHANGED <<memVars, diskVars, wrVars, tail, stopped, closed, items, done, errors>>

\* The quit signal reaches the periodic loop too; SyncManager.Stop returns.
LoopExit ==
    /\ shut = "flushed"
    /\ op.by # FlushLoop
    /\ shut' = "done"
    /\ UNCHANGED <<memVars, diskVars, wrVars, tail, stopped, closed, items, op, done, errors>>

\* Mutant: disconnectBlock updates the disk without the barrier.
DisconnectAtOnce(c) ==
    /\ Ready(c)
    /\ chain # <<>>
    /\ Tip.id \in Spending => Tip \in rows
    /\ op' = Op(c, "disconnect", "update", Parent)
    /\ UNCHANGED <<memVars, diskVars, wrVars, stopVars, items, done, errors>>

\* reorganizeChain has read the tip's spend journal from disk; then
\* disconnectBlock starts.  A block that spends nothing needs no journal.
BeginDisconnect(c) ==
    /\ Ready(c)
    /\ chain # <<>>
    /\ Tip.id \in Spending => Tip \in rows
    /\ op' = Op(c, "disconnect", "sync", Parent)
    /\ UNCHANGED <<memVars, diskVars, wrVars, stopVars, items, done, errors>>

\* syncNowBelow hands its request to the writer over the unbuffered syncCh.
\* The disconnect path asks for items above the parent to be dropped.
SyncSend ==
    /\ op.at = "sync"
    /\ wpc = "select"
    /\ Goto("await")
    /\ done' = FALSE
    /\ wpc' = "filter"
    /\ below' = IF op.kind = "disconnect" THEN op.state.height ELSE NoLimit
    /\ UNCHANGED <<memVars, diskVars, batch, kept, stopVars, items, errors>>

\* Either select of syncNowBelow returns when stopCh is closed, the second
\* one also on the writer's ack.
SyncReturn ==
    /\ \/ op.at = "await" /\ done
       \/ op.at \in {"sync", "await"} /\ closed
    /\ Goto("update")
    /\ UNCHANGED <<memVars, diskVars, wrVars, stopVars, items, done, errors>>

\* After its shutdown flush, successful or not, the handler calls
\* StopWriteQueue a second time, which sync.Once makes a no-op.
Return == /\ op' = Idle
          /\ shut' = IF op.by = Handler /\ shut = "flushing"
                     THEN "flushed" ELSE shut

\* utxoCache.flush persists the marker.  FlushPeriodic writes nothing while
\* the interval has not elapsed and the cache has room.
FlushUpdate ==
    /\ op.at = "update" /\ op.kind = "flush"
    /\ \/ marker' = op.state /\ outdated' = (op.state # Tip)
       \/ op.by = FlushLoop /\ UNCHANGED <<marker, outdated>>
    /\ Return
    /\ UNCHANGED <<memVars, rows, best, watermark, wrVars, tail, stopped,
                   closed, items, done, errors>>

\* disconnectBlock's transaction: best state and marker go to the parent,
\* the block's rows are removed; then the tip moves.
DisconnectUpdate ==
    /\ op.at = "update" /\ op.kind = "disconnect"
    /\ best' = op.state
    /\ marker' = op.state
    /\ rows' = rows \ {Tip}
    /\ outdated' = FALSE
    /\ chain' = Detach
    /\ op' = Idle
    /\ UNCHANGED <<owed, connected, watermark, wrVars, stopVars, items, done, errors>>

\* The holder's transaction fails: the error is returned, memory stays.
UpdateError ==
    /\ op.at = "update"
    /\ errors < MaxErrors
    /\ errors' = errors + 1
    /\ Return
    /\ UNCHANGED <<memVars, diskVars, wrVars, tail, stopped, closed, items, done>>

-----------------------------------------------------------------------------
(* writer().  Its select picks any ready case; SyncSend is its syncCh case. *)

WriterReceive ==
    /\ wpc = "select"
    /\ items # <<>>
    /\ batch' = Append(batch, Head(items))
    /\ items' = Tail(items)
    /\ wpc' = IF Len(batch') >= BatchSize THEN "flush" ELSE "select"
    /\ UNCHANGED <<memVars, diskVars, kept, below, stopVars, op, done, errors>>

WriterFlush ==
    /\ wpc = "flush"
    /\ flushBatch(batch)
    /\ batch' = <<>>
    /\ wpc' = "select"
    /\ UNCHANGED <<memVars, kept, below, stopVars, items, op, done>>

\* One element of the in-flight batch goes through the height filter.
BarrierFilter ==
    /\ wpc = "filter"
    /\ batch # <<>>
    /\ kept' = IF Keeps(Head(batch))
               THEN Append(kept, Head(batch)) ELSE kept
    /\ batch' = Tail(batch)
    /\ UNCHANGED <<memVars, diskVars, wpc, below, stopVars, items, op, done, errors>>

BarrierFlush ==
    /\ wpc = "filter"
    /\ batch = <<>>
    /\ flushBatch(kept)
    /\ kept' = <<>>
    /\ wpc' = "drain"
    /\ UNCHANGED <<memVars, batch, below, stopVars, items, op, done>>

\* One element of the channel is drained through the same filter.
BarrierDrain ==
    /\ wpc = "drain"
    /\ items # <<>>
    /\ kept' = IF Keeps(Head(items))
               THEN Append(kept, Head(items)) ELSE kept
    /\ items' = Tail(items)
    /\ UNCHANGED <<memVars, diskVars, batch, wpc, below, stopVars, op, done, errors>>

\* Mutant: the barrier acks without draining the channel to the end.
BarrierStopsEarly ==
    /\ wpc = "drain"
    /\ wpc' = "ack"
    /\ UNCHANGED <<memVars, diskVars, batch, kept, below, stopVars, items, op, done, errors>>

\* The drain loop found the channel empty.
BarrierDrained ==
    /\ wpc = "drain"
    /\ items = <<>>
    /\ wpc' = "ack"
    /\ UNCHANGED <<memVars, diskVars, batch, kept, below, stopVars, items, op, done, errors>>

\* Mutant: the ack is a send that needs a receiver, not a close.
BarrierAckSends ==
    /\ wpc = "ack"
    /\ op.at = "await"
    /\ flushBatch(kept)
    /\ kept' = <<>>
    /\ done' = TRUE
    /\ below' = NoLimit
    /\ wpc' = "select"
    /\ UNCHANGED <<memVars, batch, stopVars, items, op>>

BarrierAck ==
    /\ wpc = "ack"
    /\ flushBatch(kept)
    /\ kept' = <<>>
    /\ done' = TRUE
    /\ below' = NoLimit
    /\ wpc' = "select"
    /\ UNCHANGED <<memVars, batch, stopVars, items, op>>

WriterStop ==
    /\ wpc = "select"
    /\ closed
    /\ wpc' = "exit"
    /\ UNCHANGED <<memVars, diskVars, batch, kept, below, stopVars, items, op, done, errors>>

\* Mutant: the writer exits without its last partial batch.
WriterExitAtOnce ==
    /\ wpc = "exit"
    /\ batch' = <<>>
    /\ wpc' = "returned"
    /\ UNCHANGED <<memVars, diskVars, kept, below, stopVars, items, op, done, errors>>

WriterExit ==
    /\ wpc = "exit"
    /\ flushBatch(batch)
    /\ batch' = <<>>
    /\ wpc' = "returned"
    /\ UNCHANGED <<memVars, kept, below, stopVars, items, op, done>>

-----------------------------------------------------------------------------
(* stop(), run by server.Stop without chainLock.                           *)

StopMark ==
    /\ shut = "running"
    /\ stopped' = TRUE
    /\ shut' = "close"
    /\ UNCHANGED <<memVars, diskVars, wrVars, tail, closed, items, op, done, errors>>

StopClose ==
    /\ shut = "close"
    /\ closed' = TRUE
    /\ shut' = "drain"
    /\ UNCHANGED <<memVars, diskVars, wrVars, tail, stopped, items, op, done, errors>>

StopDrain ==
    /\ shut = "drain"
    /\ items # <<>>
    /\ tail' = Append(tail, Head(items))
    /\ items' = Tail(items)
    /\ UNCHANGED <<memVars, diskVars, wrVars, stopped, closed, shut, op, done, errors>>

StopDrained ==
    /\ shut = "drain"
    /\ items = <<>>
    /\ shut' = "tail"
    /\ UNCHANGED <<memVars, diskVars, wrVars, tail, stopped, closed, items, op, done, errors>>

StopFlush ==
    /\ shut = "tail"
    /\ flushBatch(tail)
    /\ tail' = <<>>
    /\ shut' = "wait"
    /\ UNCHANGED <<memVars, wrVars, stopped, closed, items, op, done>>

StopWait ==
    /\ shut = "wait"
    /\ wpc = "returned"
    /\ shut' = "returned"
    /\ UNCHANGED <<memVars, diskVars, wrVars, tail, stopped, closed, items, op, done, errors>>

-----------------------------------------------------------------------------
HolderStep == \/ EnqueueCheck \/ EnqueueSend \/ EnqueueStopped
              \/ SyncSend \/ SyncReturn
              \/ FlushUpdate \/ DisconnectUpdate \/ UpdateError

WriterStep == \/ WriterReceive \/ WriterFlush
              \/ BarrierFilter \/ BarrierFlush \/ BarrierDrain
              \/ BarrierDrained \/ BarrierAck
              \/ WriterStop \/ WriterExit

StopStep == \/ StopMark \/ StopClose \/ StopDrain
            \/ StopDrained \/ StopFlush \/ StopWait

Next == \/ \E c \in Callers : \/ BeginConnect(c)
                              \/ BeginTailFlush(c)
                              \/ BeginDisconnect(c)
        \/ BeginLoopFlush
        \/ BeginShutdown
        \/ LoopExit
        \/ HolderStep
        \/ WriterStep
        \/ StopStep

Spec == Init /\ [][Next]_vars

(* Each goroutine keeps running.  The writer's select is fair between its  *)
(* ready cases, so a closed channel is chosen in the end (stopCh, quit);   *)
(* the periodic loop ticks until then, and Go's mutex starves neither it   *)
(* nor the block handler.  Nothing makes the node shut down.               *)
Fairness == /\ WF_vars(HolderStep)
            /\ WF_vars(WriterStep) /\ SF_vars(WriterStop)
            /\ WF_vars(stopped /\ StopStep)
            /\ WF_vars(BeginLoopFlush) /\ SF_vars(LoopExit)
            /\ SF_vars(BeginTailFlush(Handler)) /\ SF_vars(BeginShutdown)

FairSpec == Spec /\ Fairness

-----------------------------------------------------------------------------
(* Properties.                                                             *)

\* Items accepted by enqueue and not yet handed to a transaction, oldest
\* first, and the ones stop() took over.
Pending == kept \o batch \o items
Located == rows \cup Elems(Pending) \cup Elems(tail)

Controls ==
    [by : Callers \cup {FlushLoop, NoOne},
     kind : {"none", "connect", "flush", "disconnect"},
     at : {"free", "check", "send", "sync", "await", "update"},
     state : Blocks]

MemType == /\ chain \in Seq(Blocks)
           /\ owed \in [Callers -> Blocks]
           /\ connected \in 0 .. MaxBlocks
           /\ op \in Controls

DiskType == /\ rows \subseteq Blocks
            /\ best \in Blocks /\ marker \in Blocks
            /\ watermark \in 0 .. MaxBlocks
            /\ errors \in 0 .. MaxErrors /\ outdated \in BOOLEAN

QueueType == /\ items \in Seq(Blocks) /\ Len(items) <= Cap
             /\ batch \in Seq(Blocks) /\ Len(batch) <= BatchSize
             /\ kept \in Seq(Blocks)
             /\ tail \in Seq(Blocks)
             /\ below \in 0 .. NoLimit

ControlType ==
    /\ wpc \in {"select", "flush", "filter", "drain", "ack", "exit", "returned"}
    /\ shut \in {"running", "close", "drain", "tail", "wait", "returned",
                 "flushing", "flushed", "done"}
    /\ done \in BOOLEAN /\ stopped \in BOOLEAN /\ closed \in BOOLEAN

\* The shape of the state: queue within its capacity (back-pressure), a batch
\* never above writeQueueBatchSize, every block one that was connected.
TypeOK == MemType /\ DiskType /\ QueueType /\ ControlType

\* The disk holds the metadata of exactly the chain up to its best state: no
\* hole, no reordering, no block of a detached branch.
DurablePrefix ==
    /\ best.height <= Len(chain)
    /\ best = IF best.height = 0 THEN Genesis ELSE chain[best.height]
    /\ rows = {chain[i] : i \in 1 .. best.height}

\* ... at every moment until stop() closes stopCh, whatever the goroutines
\* around the queue do, as long as no database transaction fails.
PrefixBeforeStop == (errors = 0 /\ ~closed) => DurablePrefix

\* "syncNow blocks until every item enqueued so far is durably written and
\* the watermark advanced to the current tip" (writequeue.go:215).
BarrierDurable ==
    (op.kind = "flush" /\ op.at = "update" /\ ~closed)
        => best = Tip /\ (Tip # Genesis => Tip \in rows)

\* The same as long as no transaction of flushBatch has failed.
BarrierDurableNoError == errors = 0 => BarrierDurable

\* "items above maxHeight are dropped instead of flushed ... so metadata rows
\* for blocks just detached from the best chain are not resurrected by the
\* async writer" (writequeue.go:226): until stop() closes stopCh, no detached
\* block is on disk or on its way there.
NoResurrectionBeforeStop == ~closed => Located \subseteq Elems(chain)

\* No block is persisted twice or waits in two places, even when stop() and
\* the writer drain the channel at the same time.
AtMostOnce ==
    LET q == Pending \o tail IN
    /\ \A i, j \in DOMAIN q : i # j => q[i] # q[j]
    /\ Elems(q) \cap rows = {}

\* Every connected block is on disk or still held by the channel, the writer
\* or stop(); the tip may be missing while it is being disconnected.
NothingForgotten ==
    errors = 0 =>
        \A i \in 1 .. Len(chain) :
            \/ chain[i] \in Located
            \/ i = Len(chain) /\ op.kind = "disconnect"

\* "so the on-disk UTXO consistency marker never exceeds the metadata watermark"
\* (writequeue.go:217): whatever batches, flushes and disconnects of the callers
\* wrote it last, the marker stands at the best state, and that is not above the
\* watermark.  What remains is a tail flush that was overtaken by another caller
\* between the release of chainLock and its barrier (outdated), a failed
\* transaction of flushBatch, which is only logged, and the stop.
MarkerAtBest ==
    errors = 0 /\ ~closed =>
        (~outdated => marker = best) /\ best.height <= watermark

\* chainLock is always released again: neither back-pressure nor a barrier
\* blocks its holder for ever, also when stop() runs at the same time.
LockReleased == (op # Idle) ~> (op = Idle)

\* The shutdown completes: the writer exits, stop() returns, the handler gets
\* through its flush, and nobody waits on anybody.
StopReturns == stopped ~> (shut = "done")

\* A connected block reaches the disk or is disconnected again, or the node
\* shuts down, although the writer itself never flushes a partial batch.
EventuallyDurable ==
    \A n \in 1 .. MaxBlocks :
        (\E b \in Elems(chain) : b.id = n)
            ~> \/ \E b \in rows : b.id = n
               \/ ~ \E b \in Elems(chain) : b.id = n
               \/ stopped

\* The promise the queue keeps until stop() closes stopCh: it starts as an
\* empty DurableChain and every step is a step of it or leaves it unchanged.
Durable == INSTANCE DurableChain WITH Block <- Blocks, durable <- best.height
ImplementsDurableChain ==
    /\ Durable!Init
    /\ [][closed' \/ Durable!Next \/ UNCHANGED <<chain, best.height>>]_vars

\* Every connected block is in exactly one place, on disk or on its way there,
\* however enqueue, the writer's barrier and stop() take items from one another.
ExactlyOnce == AtMostOnce /\ NothingForgotten

\* Nobody waits for ever: connectBlock and every flush get chainLock back from
\* its holder, and server.Stop comes to its end.
WaitsEnd == LockReleased /\ StopReturns
=============================================================================
