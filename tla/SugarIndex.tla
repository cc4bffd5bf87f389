----------------------------- MODULE SugarIndex -----------------------------
(***************************************************************************)
(* The sugar index (src/backend/sugarindex): addresses, unspent and spent  *)
(* outputs, timestamps and transaction ids in a leveldb of its own, which  *)
(* is written in the middle of the transactions of the chain's database.   *)
(*                                                                         *)
(* The two databases do not commit together.  A write of the index stands  *)
(* as soon as it is made, and is lost only with the power; a transaction   *)
(* of the chain commits to a cache, which reaches the disk now and then    *)
(* and is lost whenever the process is killed (module Ffldb).  Init finds  *)
(* out at the next start, from the tip that the index names, whether the   *)
(* index belongs to the chain.                                             *)
(*                                                                         *)
(* A block is its place in a tree; a transaction has one output, with an   *)
(* address.  How the write queue makes its batches is left to WriteQueue.  *)
(* Transactions fail after the index was told of their blocks: in the      *)
(* write queue a failed batch is logged and the chain goes on above it.    *)
(***************************************************************************)
EXTENDS Integers, Sequences, FiniteSets, SequencesExt

CONSTANTS
    Blocks,
    Path,         \* [Blocks -> Seq(Blocks)]: from the genesis block on
    Txs,
    Body,         \* [Blocks -> SUBSET Txs]
    In,           \* [Txs -> SUBSET Txs]: the outputs a transaction spends
    Modes,        \* whether the node prunes
    RebuildBatch, \* rebuildBatchBlocks
    QueueBatch,   \* bound: blocks in one transaction of the write queue
    MaxMoves,     \* bound: transactions of the chain
    MaxFaults,    \* bound: kills, power failures, corruptions, failed commits
    MaxDisabled,  \* bound: sessions without the index
    None

Genesis == CHOOSE b \in Blocks : Len(Path[b]) = 1
On(b) == ToSet(Path[b])
Height(b) == IF b = None THEN -1 ELSE Len(Path[b]) - 1
At(b, h) == Path[b][h + 1]
Prev(b) == At(b, Height(b) - 1)
Above(a, b) == SubSeq(Path[b], Len(Path[a]) + 1, Len(Path[b]))

ASSUME SugarAssumption ==
    /\ Path \in [Blocks -> Seq(Blocks)] /\ None \notin Blocks
    /\ \A b \in Blocks : Len(Path[b]) > 0 /\ Last(Path[b]) = b
    /\ \A b \in Blocks : \A h \in 0 .. Height(b) :
          Path[At(b, h)] = SubSeq(Path[b], 1, h + 1)
    /\ Body \in [Blocks -> SUBSET Txs] /\ In \in [Txs -> SUBSET Txs]
    /\ Modes \subseteq BOOLEAN
    /\ \E b \in Blocks : Len(Path[b]) = 1
    /\ RebuildBatch \in Nat \ {0} /\ QueueBatch \in Nat \ {0}

VARIABLES
    chain,      \* tip of the chain that the next transaction builds on
    best,       \* best block of the last transaction that was committed
    disk,       \* tip of the chain the database has flushed
    header,     \* tip of the headers whose height rows it has flushed
    idx,        \* the index: its tables, its tip
    safe,       \* the index as a power failure would leave it
    txn,        \* the chain's transaction in progress
    status,     \* "down", "wipe", "catchup" (both in Init) or "up"
    boot,       \* Init in progress
    pruning,    \* the node prunes: no write queue
    cut,        \* blocks below this height are pruned
    moves, faults, disabled,
    power       \* history: the power has failed

vars == <<chain, best, disk, header, idx, safe, txn, status, boot, pruning, cut,
          moves, faults, disabled, power>>

NoTxn == [kind |-> "none", todo |-> <<>>, to |-> None]
\* held and off are history: the blocks whose rows the index was last told to
\* hold, and why it may differ from the chain: a transaction that it was told of
\* has failed, it was kept above the best block, what it was told does not fit
\* what it holds, or a wipe is not finished.
Empty == [addr |-> {}, unspent |-> <<>>, spent |-> <<>>, times |-> {},
          txids |-> <<>>, tip |-> None, held |-> {},
          off |-> {}]

\* batch is the leveldb.Batch, as the index it would leave; batched its blocks.
NoBoot == [left |-> <<>>, todo |-> {}, next |-> 0, pending |-> {},
           batch |-> Empty, batched |-> 0]

-----------------------------------------------------------------------------
(* The rows of a block.                                                    *)

Spent(b) == UNION {In[t] : t \in Body[b]}
Spender(b, o) == CHOOSE t \in Body[b] : o \in In[t]

\* The height an output was created at, on the chain up to b.
Born(b, o) == CHOOSE h \in 0 .. Height(b) : o \in Body[At(b, h)]

\* The blocks are valid on their branch (checkConnectBlock, before the index is
\* told of one): a transaction occurs once, an output is spent once, and what is
\* spent was created.
ASSUME ValidAssumption ==
    \A b \in Blocks :
        /\ \A x \in On(b) \ {b} : Body[x] \cap Body[b] = {} /\ Spent(x) \cap Spent(b) = {}
        /\ \A o \in Spent(b) : \E x \in On(b) : o \in Body[x]

\* Rows of f outside of s; f overwritten by g.
Without(f, s) == [x \in DOMAIN f \ s |-> f[x]]
Over(g, f) == [x \in DOMAIN f \cup DOMAIN g |-> IF x \in DOMAIN g THEN g[x] ELSE f[x]]

\* History: the index is told to take b beside a block that it holds, to let go
\* of b below or beside one, or nothing of the height h below one.
Beside(ix, b) == IF \A x \in ix.held : x \in On(b) \/ b \in On(x) THEN {} ELSE {"mixed"}
Astray(ix, b) == IF ix.held \subseteq On(b) THEN {} ELSE {"mixed"}
Skipped(ix, h) == IF \A x \in ix.held : Height(x) < h THEN {} ELSE {"mixed"}

\* connectBlockBatch: outputs first, then what the block spends.
Indexed(ix, b) ==
    [ix EXCEPT
       !.addr    = @ \cup {<<t, Height(b)>> : t \in Body[b]},
       !.unspent = Without(Over([o \in Body[b] |-> Height(b)], @), Spent(b)),
       !.spent   = Over([o \in Spent(b) |-> <<Spender(b, o), Height(b)>>], @),
       !.times   = @ \cup {b},
       !.txids   = Over([t \in Body[b] |-> Height(b)], @),
       !.held    = @ \cup {b},
       !.off     = @ \cup Beside(ix, b)]

\* Mutant: what the block spent is not restored.
UnindexedOnly(ix, b) ==
    [ix EXCEPT
       !.addr    = @ \ {<<t, Height(b)>> : t \in Body[b]},
       !.unspent = Without(@, Body[b]),
       !.spent   = Without(@, Spent(b)),
       !.tip     = Prev(b),
       !.held    = @ \ {b},
       !.off     = @ \cup Astray(ix, b)]

\* disconnectBlock: goes through the transactions from first to last, so the
\* outputs are erased before those the block itself has spent are restored;
\* rows by timestamp and by transaction id stay.
Unindexed(ix, b) ==
    [ix EXCEPT
       !.addr    = @ \ {<<t, Height(b)>> : t \in Body[b]},
       !.unspent = Over([o \in Spent(b) |-> Born(b, o)], Without(@, Body[b])),
       !.spent   = Without(@, Spent(b)),
       !.tip     = Prev(b),
       !.held    = @ \ {b},
       !.off     = @ \cup Astray(ix, b)]

WithTip(ix, b) == [ix EXCEPT !.tip = b]

-----------------------------------------------------------------------------
(* The chain's transactions.                                               *)

Idle == status = "up" /\ txn = NoTxn

\* flushBatch, or the transaction of connectBlock on a node that prunes: its
\* blocks follow the tip.
BeginConnect(b) ==
    /\ Idle /\ moves < MaxMoves
    /\ chain \in On(b) \ {b}
    /\ Height(b) - Height(chain) <= IF pruning THEN 1 ELSE QueueBatch
    /\ txn' = [kind |-> "connect", todo |-> Above(chain, b), to |-> b]
    /\ moves' = moves + 1
    /\ UNCHANGED <<chain, best, disk, header, idx, safe, status, boot, pruning,
                   cut, faults, disabled, power>>

\* ConnectBlock of the index, inside of the transaction.
ConnectBlock ==
    /\ status = "up" /\ txn.todo # <<>>
    /\ idx' = WithTip(Indexed(idx, Head(txn.todo)), Head(txn.todo))
    /\ txn' = [txn EXCEPT !.todo = Tail(@)]
    /\ UNCHANGED <<chain, best, disk, header, safe, status, boot, pruning, cut,
                   moves, faults, disabled, power>>

\* disconnectBlock up to and with DisconnectBlock of the index; the payloads
\* of the block and of its parent are read.
DisconnectBlock ==
    /\ Idle /\ moves < MaxMoves
    /\ Height(chain) > cut
    /\ idx' = Unindexed(idx, chain)
    /\ txn' = [kind |-> "disconnect", todo |-> <<>>, to |-> Prev(chain)]
    /\ moves' = moves + 1
    /\ UNCHANGED <<chain, best, disk, header, safe, status, boot, pruning, cut,
                   faults, disabled, power>>

\* The transaction commits: to the cache, or through it to the disk.  A node
\* that prunes may delete old blocks with it.
Commit ==
    /\ status = "up" /\ txn.kind # "none" /\ txn.todo = <<>>
    /\ chain' = txn.to /\ best' = txn.to
    /\ disk' \in {disk, txn.to}
    /\ cut' \in {cut} \cup
              {h \in cut .. Height(txn.to) :
                 pruning /\ txn.kind = "connect" /\ At(txn.to, h) \in On(disk')}
    /\ txn' = NoTxn
    /\ UNCHANGED <<header, idx, safe, status, boot, pruning, moves, faults,
                   disabled, power>>

\* The transaction of a connect fails, once the index was told of its block, or
\* of some or all blocks of a batch: connectBlock returns the error and the chain
\* is a block below the index; flushBatch logs it, the batch is lost, and the
\* chain in memory goes on above its blocks.
ConnectFails ==
    /\ status = "up" /\ txn.kind = "connect" /\ faults < MaxFaults
    /\ pruning => txn.todo = <<>>
    /\ chain' = IF pruning THEN chain ELSE txn.to
    /\ faults' = faults + 1
    /\ txn' = NoTxn
    /\ idx' = [idx EXCEPT !.off = @ \cup {"failed"}]
    /\ UNCHANGED <<best, disk, header, safe, status, boot, pruning, cut, moves,
                   disabled, power>>

\* The transaction of a disconnect fails to commit: the chain keeps the block,
\* the index has let it go.
DisconnectFails ==
    /\ status = "up" /\ txn.kind = "disconnect" /\ faults < MaxFaults
    /\ faults' = faults + 1
    /\ txn' = NoTxn
    /\ idx' = [idx EXCEPT !.off = @ \cup {"failed"}]
    /\ UNCHANGED <<chain, best, disk, header, safe, status, boot, pruning, cut,
                   moves, disabled, power>>

-----------------------------------------------------------------------------
(* Stop, kill, power failure.                                              *)

\* The operating system writes the leveldb's journal back; it is not synced.
Persist ==
    /\ safe # idx /\ safe' = idx
    /\ UNCHANGED <<chain, best, disk, header, idx, txn, status, boot, pruning, cut,
                   moves, faults, disabled, power>>

\* Header rows that may be on disk above the best block: those of a best
\* header chain the node has had while it was up.  Only the one at the height
\* of the index's tip is ever read.
Headers(top, ix) ==
    {top} \cup {b \in Blocks : Height(b) = Height(ix.tip) /\ Height(b) > Height(top)}

\* server.Stop: the queue is drained, the index closed, the database flushed.
Stop ==
    /\ Idle
    /\ status' = "down" /\ disk' = best /\ chain' = best /\ safe' = idx
    /\ header' \in Headers(best, idx)
    /\ UNCHANGED <<best, idx, txn, boot, pruning, cut, moves, faults,
                   disabled, power>>

Down(ix, p) ==
    /\ status # "down" /\ faults < MaxFaults
    /\ status' = "down" /\ txn' = NoTxn /\ boot' = NoBoot
    /\ chain' = disk /\ best' = disk /\ idx' = ix
    /\ header' \in IF status = "up" THEN Headers(disk, ix) ELSE {header}
    /\ faults' = faults + 1 /\ power' = (power \/ p)
    /\ UNCHANGED <<disk, safe, pruning, cut, moves, disabled>>

\* The process is killed, or Init is interrupted: what it wrote stays.
Kill == Down(idx, FALSE)

\* The power fails: the index loses the end of its journal.
PowerFails == safe # idx /\ Down(safe, TRUE)

\* The node runs without -sugarindex, and its chain moves on.
RunDisabled(b) ==
    /\ status = "down" /\ disabled < MaxDisabled
    /\ b # disk /\ Height(b) >= cut
    /\ \A h \in 0 .. cut - 1 : At(b, h) = At(disk, h)
    /\ disk' = b /\ best' = b /\ chain' = b
    /\ header' \in Headers(b, idx)
    /\ disabled' = disabled + 1
    /\ UNCHANGED <<idx, safe, txn, status, boot, pruning, cut, moves, faults,
                   power>>

-----------------------------------------------------------------------------
(* Manager.Init.                                                           *)

\* Catch-up of the index ix with the chain, from the height after its tip's.
CatchUp(ix) ==
    LET h == Height(ix.tip) IN
    IF h >= Height(chain)
    THEN status' = "up" /\ boot' = NoBoot
    ELSE status' = "catchup"
         /\ boot' = [NoBoot EXCEPT !.todo = h + 1 .. Height(chain), !.next = h + 1,
                                   !.batch = ix]

\* MainChainHashByHeight: a block of the chain, above the best block one of
\* the headers, or nothing.
RowAt(h) ==
    IF h <= Height(chain) THEN At(chain, h)
    ELSE IF h <= Height(header) THEN At(header, h) ELSE None

\* Mutant: compared only below the best block.
ReplacedBelow(tip) == tip # None /\ Height(tip) < Height(chain) /\ RowAt(Height(tip)) # tip

\* Another block has the height of the tip: the index is to be wiped.
Replaced(tip) == tip # None /\ RowAt(Height(tip)) \notin {None, tip}

\* The four tables, in the order of their keys.
Tables == <<"addr", "spent", "times", "unspent">>

StartWipe ==
    /\ status = "down" /\ Replaced(idx.tip)
    /\ status' = "wipe" /\ boot' = [NoBoot EXCEPT !.left = Tables]
    /\ safe' = idx
    /\ UNCHANGED <<chain, best, disk, header, idx, txn, pruning, cut, moves,
                   faults, disabled, power>>

\* The tip is on the chain, or at a height that has no row: the index is kept.
StartKeep ==
    /\ status = "down" /\ ~ Replaced(idx.tip)
    /\ CatchUp(idx)
    /\ idx' = IF Height(idx.tip) > Height(chain)
              THEN [idx EXCEPT !.off = @ \cup {"ahead"}] ELSE idx
    /\ safe' = idx'
    /\ UNCHANGED <<chain, best, disk, header, txn, pruning, cut, moves, faults,
                   disabled, power>>

\* The leveldb does not open: newServer puts an empty one in its place.
StartFresh ==
    /\ status = "down" /\ faults < MaxFaults /\ idx.tip # None
    /\ faults' = faults + 1
    /\ idx' = Empty /\ safe' = Empty
    /\ CatchUp(Empty)
    /\ UNCHANGED <<chain, best, disk, header, txn, pruning, cut, moves, disabled,
                   power>>

\* Mutant: the tip is deleted with the first keys.
ClearedWithTip(ix, table) == [ix EXCEPT ![table] = Empty[table], !.tip = None]

Cleared(ix, table) == [ix EXCEPT ![table] = Empty[table]]

\* wipeIndex has a full batch: the keys so far are deleted.
WipeBatch ==
    /\ status = "wipe" /\ boot.left # <<>>
    /\ idx' = [Cleared(idx, Head(boot.left)) EXCEPT !.off = @ \cup {"torn"}]
    /\ boot' = [boot EXCEPT !.left = Tail(@)]
    /\ UNCHANGED <<chain, best, disk, header, safe, txn, status, pruning, cut,
                   moves, faults, disabled, power>>

\* The last batch of wipeIndex: the keys left of the four tables, and the tip.
\* The rows by transaction id stay.
WipeEnd ==
    /\ status = "wipe"
    /\ idx' = [Empty EXCEPT !.txids = idx.txids]
    /\ CatchUp(idx')
    /\ UNCHANGED <<chain, best, disk, header, safe, txn, pruning, cut, moves,
                   faults, disabled, power>>

\* A worker hands in a block, or the error of a pruned one, in any order.
Fetched(h) ==
    /\ status = "catchup" /\ h \in boot.todo
    /\ boot' = [boot EXCEPT !.todo = @ \ {h}, !.pending = @ \cup {h}]
    /\ UNCHANGED <<chain, best, disk, header, idx, safe, txn, status, pruning, cut,
                   moves, faults, disabled, power>>

\* One round of the consumer: a block is added to the batch, and a full batch
\* or the last one is written with its tip; a missing block is passed over.
Full(n) == n >= RebuildBatch \/ boot.next = Height(chain)

Pass ==
    /\ boot.next < cut
    /\ boot' = [boot EXCEPT !.pending = @ \ {boot.next}, !.next = @ + 1,
                            !.batch.off = @ \cup Skipped(boot.batch, boot.next)]
    /\ UNCHANGED idx

Add(b) ==
    /\ boot.next >= cut /\ ~ Full(boot.batched + 1)
    /\ boot' = [boot EXCEPT !.pending = @ \ {boot.next}, !.next = @ + 1,
                            !.batch = Indexed(@, b), !.batched = @ + 1]
    /\ UNCHANGED idx

AddAndWrite(b) ==
    /\ boot.next >= cut /\ Full(boot.batched + 1)
    /\ idx' = WithTip(Indexed(boot.batch, b), b)
    /\ boot' = [boot EXCEPT !.pending = @ \ {boot.next}, !.next = @ + 1,
                            !.batch = idx', !.batched = 0]

Consume ==
    /\ status = "catchup" /\ boot.next \in boot.pending
    /\ Pass \/ Add(At(chain, boot.next)) \/ AddAndWrite(At(chain, boot.next))
    /\ UNCHANGED <<chain, best, disk, header, safe, txn, status, pruning, cut,
                   moves, faults, disabled, power>>

\* The workers are done and nothing is left to consume.
CaughtUp ==
    /\ status = "catchup" /\ boot.todo = {} /\ boot.next \notin boot.pending
    /\ status' = "up" /\ boot' = NoBoot
    /\ UNCHANGED <<chain, best, disk, header, idx, safe, txn, pruning, cut, moves,
                   faults, disabled, power>>

-----------------------------------------------------------------------------
Init ==
    /\ chain = Genesis /\ best = Genesis /\ disk = Genesis /\ header = Genesis
    /\ idx = Empty /\ safe = Empty
    /\ txn = NoTxn /\ boot = NoBoot /\ status = "down"
    /\ pruning \in Modes /\ cut = 0
    /\ moves = 0 /\ faults = 0 /\ disabled = 0 /\ power = FALSE

Next ==
    \/ \E b \in Blocks : BeginConnect(b)
    \/ ConnectBlock \/ DisconnectBlock \/ Commit \/ ConnectFails \/ DisconnectFails
    \/ Persist \/ Stop \/ Kill \/ PowerFails
    \/ \E b \in Blocks : RunDisabled(b)
    \/ StartWipe \/ StartKeep \/ StartFresh \/ WipeBatch \/ WipeEnd
    \/ \E h \in 0 .. Height(chain) : Fetched(h)
    \/ Consume \/ CaughtUp

Spec == Init /\ [][Next]_vars

-----------------------------------------------------------------------------
(* Properties.                                                             *)

\* Types, and what Init and the transactions leave behind.
TypeOK ==
    /\ chain \in Blocks /\ best \in Blocks /\ disk \in Blocks /\ header \in Blocks
    /\ \A ix \in {idx, safe} :
         /\ ix.addr \subseteq Txs \X {Height(b) : b \in Blocks}
         /\ DOMAIN ix.unspent \cup DOMAIN ix.spent \cup DOMAIN ix.txids \subseteq Txs
         /\ ix.off \subseteq {"failed", "ahead", "mixed", "torn"}
         /\ ix.times \cup ix.held \subseteq Blocks /\ ix.tip \in Blocks \cup {None}
    /\ txn.kind \in {"none", "connect", "disconnect"}
    /\ txn # NoTxn => status = "up"
    /\ status \in {"down", "wipe", "catchup", "up"}
    /\ boot # NoBoot => status \in {"wipe", "catchup"}
    /\ boot.batched < RebuildBatch
    /\ boot.todo \cup boot.pending \subseteq boot.next .. Height(chain)
    /\ cut \in 0 .. Height(disk) /\ power \in BOOLEAN

\* Outputs spent in the block that created them.
Chained == UNION {Body[b] \cap Spent(b) : b \in Blocks}
BornOn(s) == UNION {Body[b] : b \in s}
SpentOn(s) == UNION {Spent(b) : b \in s}

\* The index holds what the chain implies (indexer.go: ConnectBlock,
\* DisconnectBlock and the catch-up of Init).  Whenever the blocks the index
\* was last told to hold are blocks of the chain, also after it was ahead of it
\* or wiped to the end, its rows of addresses, spent and unspent outputs are
\* those of these blocks, no unspent row is left of a block that is gone,
\* and a transaction is found at its height.  The rows of an output spent in
\* the block that created it are excepted: see the order in Unindexed.
IndexExact ==
    (Idle /\ idx.off \subseteq {"ahead"} /\ idx.held \subseteq On(chain)) =>
      /\ idx.addr = UNION {Body[b] \X {Height(b)} : b \in idx.held}
      /\ DOMAIN idx.spent = SpentOn(idx.held)
      /\ \A b \in idx.held :
           /\ \A o \in Spent(b) : idx.spent[o] = <<Spender(b, o), Height(b)>>
           /\ \A o \in Body[b] \ (SpentOn(idx.held) \cup Chained) :
                o \in DOMAIN idx.unspent /\ idx.unspent[o] = Height(b)
           /\ \A t \in Body[b] : idx.txids[t] = Height(b)
      /\ DOMAIN idx.unspent \subseteq
           (BornOn(On(chain)) \ SpentOn(idx.held)) \cup Chained

\* An index stays with its chain (Init, indexer.go:107).  Unless Init has ever
\* accepted an index above the best block, or finds an unfinished wipe, or a
\* transaction has failed after the index was told of its blocks, it is at the
\* tip of the chain and holds all of its blocks that were not pruned: whatever
\* was killed, lost with the power or reorganized while the index was off.
StaysWithChain ==
    (Idle /\ idx.off \subseteq {"mixed"}) =>
      /\ idx.tip = chain
      /\ idx.held \subseteq On(chain)
      /\ \A h \in cut .. Height(chain) : At(chain, h) \in idx.held

\* A wipe that was cut short is finished (wipeIndex keeps the tip until its
\* last batch): a node that is up has not passed over one, unless the power
\* has failed, which may undo the wipe's end, or the node was run without the
\* index in between.
WipeFinished == (Idle /\ "torn" \in idx.off) => power \/ disabled > 0

\* Init goes through its states in order and leaves no wipe unfinished.
InitSound == TypeOK /\ WipeFinished
=============================================================================
