------------------------------ MODULE UtxoCache ------------------------------
(***************************************************************************)
(* The UTXO cache of backend/blockchain: utxocache.go, with the parts of   *)
(* chain.go, utxoviewpoint.go and writequeue.go that read it, change it    *)
(* and write the UTXO set on disk.                                         *)
(*                                                                         *)
(* Every action holds chainLock, except BatchCommit, which is the writer   *)
(* goroutine of the write queue; how that goroutine batches and stops is   *)
(* the subject of WriteQueue, so a barrier is one step here.               *)
(*                                                                         *)
(* Data.  An output is a model value; a UTXO row is the height of the      *)
(* block that created it, 0 where there is none.  A block creates and      *)
(* spends at most one output of interest (both may be the same one: an     *)
(* output spent by a later transaction of its block).  A chain state,      *)
(* which the code names by a hash, is the sequence of its blocks.          *)
(***************************************************************************)
EXTENDS Naturals, Sequences, FiniteSets

CONSTANTS
    Outs,       \* outputs
    None,       \* not an output
    Callers,    \* goroutines that connect and disconnect blocks
    Modes,      \* the settings of async a node may be started with
    FirstMap,   \* entries the first map of cachedEntries has room for
    HotDepth,   \* utxoHotDepth
    MaxHeight,  \* bound: length of the chain
    MaxReorgs,  \* bound: blocks disconnected in a behaviour
    MaxCrashes  \* bound: crashes in a behaviour

ASSUME UtxoAssumption == /\ None \notin Outs
                         /\ IsFiniteSet(Outs)
                         /\ Modes \subseteq BOOLEAN
                         /\ FirstMap \in Nat \ {0} /\ HotDepth \in Nat
                         /\ MaxHeight \in Nat
                         /\ MaxReorgs \in Nat /\ MaxCrashes \in Nat

VARIABLES
    async,      \* the write queue is on (pruneTarget = 0): trackDeltas
    chain,      \* the connected chain in memory (bestChain)
    cache,      \* cachedEntries, per output
    dirty,      \* dirtyOps
    floor,      \* hotFloor
    pending,    \* write items enqueued and not yet committed, oldest first
    disk,       \* the UTXO bucket: per output a height, 0 for no row
    marker,     \* the UTXO consistency marker: a chain state
    best,       \* best state on disk; journals exist for its blocks
    due,        \* per caller: the state its tail flush will persist, or <<>>
    status,     \* "up", "replay" (InitConsistentState) or "failed"
    upto,       \* blocks replayed so far
    events,     \* history: what has happened to this database that matters below
    reorgs, crashes

memVars  == <<chain, cache, dirty, floor, due>>
diskVars == <<disk, marker, best>>
vars == <<async, memVars, diskVars, pending, status, upto, events, reorgs, crashes>>

Heights == 0 .. MaxHeight
Keep    == MaxHeight + 1           \* a delta that does not touch the row
Blocks  == [spend : Outs \cup {None}, from : Heights, create : Outs \cup {None}]
Entries == [at : {"none", "nil", "live", "spent"}, height : Heights,
            fresh : BOOLEAN, modified : BOOLEAN, far : BOOLEAN]

NoEntry  == [at |-> "none", height |-> 0,
             fresh |-> FALSE, modified |-> FALSE, far |-> FALSE]
NilEntry == [NoEntry EXCEPT !.at = "nil"]
Loaded(h) == IF h = 0 THEN NilEntry
             ELSE [NoEntry EXCEPT !.at = "live", !.height = h]

Prefix(s, t) == Len(s) <= Len(t) /\ SubSeq(t, 1, Len(s)) = s

-----------------------------------------------------------------------------
(* mapSlice.  An entry lives in the first map or in a later one (far);     *)
(* put fills the first map first.                                          *)

InCache(c, o) == c[o].at # "none"
Room(c) == Cardinality({o \in Outs : InCache(c, o) /\ ~c[o].far}) < FirstMap
put(c, o, e) ==
    [c EXCEPT ![o] = [e EXCEPT !.far = IF InCache(c, o) THEN c[o].far
                                       ELSE ~Room(c)]]
delete(c, o) == [c EXCEPT ![o] = NoEntry]

\* fetchEntries: a miss is loaded from the database and cached, a missing
\* row as an explicit nil.
fetchEntries(c, o) == IF InCache(c, o) THEN c ELSE put(c, o, Loaded(disk[o]))

\* What fetchEntries answers: the height of an unspent entry, otherwise 0.
Seen(o) == IF InCache(cache, o)
           THEN IF cache[o].at = "live" THEN cache[o].height ELSE 0
           ELSE disk[o]

\* addTxOut
addTxOut(c, o, h) ==
    put(c, o, [NoEntry EXCEPT !.at = "live", !.height = h,
                              !.fresh = TRUE, !.modified = TRUE])

\* addTxIn: a fresh entry is deleted, any other stays as spent.
addTxIn(c, o) ==
    IF fetchEntries(c, o)[o].fresh
    THEN delete(c, o)
    ELSE [fetchEntries(c, o) EXCEPT ![o].at = "spent", ![o].modified = TRUE]

\* connectTransactions for a block at height h, on the cache and on dirtyOps.
connectTransactions(c, b, h) ==
    IF b.create # None /\ b.create = b.spend THEN delete(c, b.create)
    ELSE LET c1 == IF b.spend = None THEN c ELSE addTxIn(c, b.spend) IN
         IF b.create = None THEN c1 ELSE addTxOut(c1, b.create, h)

Dirtied(c, b) ==
    IF b.spend # None /\ (b.create = b.spend \/ fetchEntries(c, b.spend)[b.spend].fresh)
    THEN (dirty \ {b.spend}) \cup ({b.create} \ {None, b.spend})
    ELSE dirty \cup ({b.spend, b.create} \ {None})

\* takeDelta: the item's deltas, and the cache without the spent entry.
\* Mutant: an entry spent while fresh gets no tombstone.
takeDeltaNoTombstone(c, b) ==
    [o \in Outs |-> IF o = b.spend /\ cache[o].at # "live" THEN 0
                    ELSE IF o = b.create THEN c[o].height
                    ELSE Keep]
takeDelta(c, b) ==
    [o \in Outs |-> IF o = b.spend THEN 0
                    ELSE IF o = b.create THEN c[o].height
                    ELSE Keep]

-----------------------------------------------------------------------------
(* writeCache.                                                             *)

\* clearModified
clearModified(e) == [e EXCEPT !.modified = FALSE, !.fresh = FALSE]

Row(c, d, o) == IF c[o].at \in {"nil", "spent"} THEN 0
                ELSE IF c[o].at = "live" /\ c[o].modified THEN c[o].height
                ELSE d[o]

\* Full flush: rows of every entry; hot entries are kept.  deleteMaps has
\* dropped the later maps by the time the kept entries are looked up again,
\* so a hot entry from one of those is put back as nil.
Hot(c, o) == c[o].at = "live" /\ c[o].height >= floor
FullRows(c, d) == [o \in Outs |-> Row(c, d, o)]
FullCache(c) ==
    LET kept == [o \in Outs |-> IF Hot(c, o) /\ ~c[o].far
                                THEN clearModified(c[o]) ELSE NoEntry]
        room == Cardinality({o \in Outs : InCache(kept, o)}) < FirstMap
    IN  [o \in Outs |-> IF Hot(c, o) /\ c[o].far
                        THEN [NilEntry EXCEPT !.far = ~room] ELSE kept[o]]

\* History: a full flush finds a hot entry in a later map.
Spills(c) == \E o \in Outs : Hot(c, o) /\ c[o].far
Spilled(c) == IF Spills(c) THEN {"spilled"} ELSE {}

\* Incremental flush: only the outputs in dirtyOps.
DirtyRows(c, d) ==
    [o \in Outs |-> IF o \in dirty /\ InCache(c, o) THEN Row(c, d, o) ELSE d[o]]
DirtyCache(c) ==
    [o \in Outs |-> IF o \notin dirty THEN c[o]
                    ELSE IF c[o].at \in {"nil", "spent"} THEN NoEntry
                    ELSE clearModified(c[o])]

\* writeItemDeltas, item after item: the disk after the first n pending ones.
\* A row is what the last of them that touches it has written.
Touching(n, o) == {k \in 1 .. n : pending[k].delta[o] # Keep}
LastOf(w) == CHOOSE k \in w : \A j \in w : j <= k
Committed(n) ==
    [o \in Outs |-> IF Touching(n, o) = {} THEN disk[o]
                    ELSE pending[LastOf(Touching(n, o))].delta[o]]
StateAfter(n, state) == IF n = 0 THEN state ELSE pending[n].state

-----------------------------------------------------------------------------
(* Reference: the UTXO set of a chain.                                     *)

Created(s) == {s[i].create : i \in DOMAIN s} \ {None}
SpentBy(s) == {s[i].spend : i \in DOMAIN s} \ {None}
Utxo(s) ==
    [o \in Outs |->
        IF o \in Created(s) \ SpentBy(s)
        THEN CHOOSE i \in DOMAIN s : s[i].create = o
        ELSE 0]

-----------------------------------------------------------------------------
Init ==
    /\ async \in Modes
    /\ chain = <<>>
    /\ cache = [o \in Outs |-> NoEntry] /\ dirty = {} /\ floor = 0
    /\ due = [c \in Callers |-> <<>>]
    /\ disk = [o \in Outs |-> 0] /\ marker = <<>> /\ best = <<>>
    /\ pending = <<>> /\ status = "up" /\ upto = 0 /\ events = {}
    /\ reorgs = 0 /\ crashes = 0

\* FetchUtxoEntry, FetchUtxoView, PrefetchUtxos, or a block that is rejected.
\* History: a row that the chain has spent is read again from the disk, which
\* is behind the chain.
Fetch(o) ==
    /\ status = "up"
    /\ ~InCache(cache, o)
    /\ cache' = fetchEntries(cache, o)
    /\ events' = IF o \in SpentBy(chain) /\ disk[o] # 0
                 THEN events \cup {"reread"} ELSE events
    /\ UNCHANGED <<chain, dirty, floor, due, diskVars, pending,
                   status, upto, reorgs, crashes>>

\* connectBestChain or reorganizeChain, then connectBlock, for a block that is
\* valid on the chain: it spends an unspent output and its transaction is new.
\* Whether the checks ran on a view of the cache, on a view with the detached
\* blocks undone, or were skipped (fastAdd, KnownValid), an input the cache
\* holds as nil stops it.  With pruning on (~async) the block may delete block
\* files, which forces a flush inside its transaction.  The cache may be over
\* its limit: then a tail flush is due.
Connect(c, spend, create) ==
    LET h == Len(chain) + 1
        b == [spend |-> spend, create |-> create,
              from |-> IF spend = None THEN 0
                       ELSE IF spend = create THEN h
                       ELSE fetchEntries(cache, spend)[spend].height]
        after == connectTransactions(cache, b, h)
        state == Append(chain, b)
    IN
    /\ status = "up" /\ due[c] = <<>>
    /\ h <= MaxHeight
    /\ create \notin Created(chain)
    /\ spend \notin {None, create} =>
          /\ Utxo(chain)[spend] # 0
          /\ fetchEntries(cache, spend)[spend].at # "nil"
    /\ chain' = state
    /\ floor' = IF h > HotDepth THEN h - HotDepth ELSE 0
    /\ \/ due' = [due EXCEPT ![c] = state]
       \/ UNCHANGED due
    /\ \/ /\ async
          /\ pending' = Append(pending, [delta |-> takeDelta(after, b), state |-> state])
          /\ cache' = IF spend = None THEN after ELSE delete(after, spend)
          /\ dirty' = {}
          /\ UNCHANGED <<diskVars, events>>
       \/ /\ ~async
          /\ best' = state
          /\ cache' = after /\ dirty' = Dirtied(cache, b)
          /\ UNCHANGED <<disk, marker, pending, events>>
       \/ /\ ~async
          /\ best' = state /\ marker' = state
          /\ disk' = FullRows(after, disk)
          /\ cache' = FullCache(after) /\ dirty' = {}
          /\ events' = events \cup Spilled(after)
          /\ UNCHANGED pending
    /\ UNCHANGED <<status, upto, reorgs, crashes>>

\* flush, after the barrier, for the given state and in either form.  History:
\* the state is no longer that of the chain.
Outdated(state) == IF state # chain THEN {"outdated"} ELSE {}

\* Mutant: the consistency marker is not moved.
FlushWithoutMarker(state, full) ==
    LET d == Committed(Len(pending)) IN
    /\ disk' = IF full THEN FullRows(cache, d) ELSE DirtyRows(cache, d)
    /\ cache' = IF full THEN FullCache(cache) ELSE DirtyCache(cache)
    /\ dirty' = {}
    /\ best' = StateAfter(Len(pending), best)
    /\ pending' = <<>>
    /\ events' = events \cup Outdated(state) \cup (IF full THEN Spilled(cache) ELSE {})
    /\ UNCHANGED <<marker, chain, floor, status, upto, reorgs, crashes>>
Flush(state, full) ==
    LET d == Committed(Len(pending)) IN
    /\ disk' = IF full THEN FullRows(cache, d) ELSE DirtyRows(cache, d)
    /\ cache' = IF full THEN FullCache(cache) ELSE DirtyCache(cache)
    /\ dirty' = {}
    /\ marker' = state
    /\ best' = StateAfter(Len(pending), best)
    /\ pending' = <<>>
    /\ events' = events \cup Outdated(state) \cup (IF full THEN Spilled(cache) ELSE {})
    /\ UNCHANGED <<chain, floor, status, upto, reorgs, crashes>>

\* Tail of connectBlock, with the state captured before chainLock was
\* released for the notification; FlushIfNeeded skips a state just flushed.
TailFlush(c) ==
    /\ status = "up" /\ due[c] # <<>>
    /\ due' = [due EXCEPT ![c] = <<>>]
    /\ \/ async /\ Flush(due[c], TRUE)
       \/ ~async /\ marker # due[c] /\ Flush(due[c], TRUE)
       \/ /\ ~async /\ marker = due[c]
          /\ UNCHANGED <<chain, cache, dirty, floor, diskVars, pending,
                         status, upto, events, reorgs, crashes>>

\* FlushUtxoCache: full when required or when the cache is full, otherwise
\* incremental once the periodic interval has elapsed.
FlushUtxoCache ==
    /\ status = "up"
    /\ \E full \in BOOLEAN : Flush(chain, full)
    /\ UNCHANGED due

\* The writer commits a batch: the oldest pending items.
BatchCommit ==
    /\ \E n \in 1 .. Len(pending) :
          /\ disk' = Committed(n)
          /\ marker' = StateAfter(n, marker)
          /\ best' = StateAfter(n, best)
          /\ pending' = SubSeq(pending, n + 1, Len(pending))
    /\ UNCHANGED <<memVars, status, upto, events, reorgs, crashes>>

\* dbPutUtxoView of the view that undoes block b.
UndoneRows(d, b) ==
    [o \in Outs |-> IF o = b.create THEN 0 ELSE IF o = b.spend THEN b.from ELSE d[o]]

\* Mutant: the cache is not flushed before the rows are undone.
DisconnectUnflushed(c) ==
    LET tip == chain[Len(chain)]
        parent == SubSeq(chain, 1, Len(chain) - 1)
        n == IF Len(best) = Len(chain) THEN Len(pending) ELSE Len(pending) - 1
    IN
    /\ status = "up" /\ due[c] = <<>> /\ chain # <<>> /\ reorgs < MaxReorgs
    /\ tip.spend # None => best = chain
    /\ disk' = UndoneRows(Committed(n), tip)
    /\ marker' = parent /\ best' = parent /\ chain' = parent
    /\ pending' = <<>> /\ dirty' = {}
    /\ reorgs' = reorgs + 1
    /\ UNCHANGED <<cache, floor, due, status, upto, events, crashes>>

\* reorganizeChain detaches the tip.  Its spend journal must be on disk.
\* disconnectBlock's barrier drops the tip's item if it is still queued and
\* commits the others; its transaction then flushes the cache, undoes the
\* block's rows and moves marker and best state to the parent.
Disconnect(c) ==
    LET tip == chain[Len(chain)]
        parent == SubSeq(chain, 1, Len(chain) - 1)
        fetched == IF tip.spend \in {None, tip.create} THEN cache
                   ELSE fetchEntries(cache, tip.spend)
        n == IF Len(best) = Len(chain) THEN Len(pending) ELSE Len(pending) - 1
    IN
    /\ status = "up" /\ due[c] = <<>> /\ chain # <<>> /\ reorgs < MaxReorgs
    /\ tip.spend # None => best = chain
    /\ disk' = UndoneRows(FullRows(fetched, Committed(n)), tip)
    /\ cache' = FullCache(fetched) /\ dirty' = {}
    /\ events' = events \cup Spilled(fetched)
    /\ marker' = parent /\ best' = parent /\ chain' = parent
    /\ pending' = <<>>
    /\ reorgs' = reorgs + 1
    /\ UNCHANGED <<floor, due, status, upto, crashes>>

\* checkBIP0030 refuses a block for an output it finds unspent, although no
\* block of the chain created it.
Overwrites == \E o \in Outs \ Created(chain) : Seen(o) # 0

\* PurgeUtxosAboveHeight(tip height), the block handler's repair when the
\* overwrite check rejects a stored block.
Purge ==
    LET stale(h) == h > Len(chain) IN
    /\ status = "up"
    /\ Overwrites
    /\ cache' = [o \in Outs |-> IF cache[o].at = "live" /\ stale(cache[o].height)
                                THEN NoEntry ELSE cache[o]]
    /\ dirty' = {o \in dirty : ~(cache[o].at = "live" /\ stale(cache[o].height))}
    /\ disk' = [o \in Outs |-> IF stale(disk[o]) THEN 0 ELSE disk[o]]
    /\ UNCHANGED <<chain, floor, due, marker, best, pending,
                   status, upto, events, reorgs, crashes>>

-----------------------------------------------------------------------------
(* A crash loses the memory; initChainState loads the best state from disk *)
(* and InitConsistentState compares it with the marker.                    *)

\* forwardRebuildMainChainMetadata: a marker above the best state; the blocks
\* between them are indexed again and the best state on disk becomes the
\* marker's.  The tip that initChainState loaded stays what it was.
forwardRebuild == IF Prefix(best, marker) THEN marker ELSE best

Crash ==
    /\ status # "failed" /\ crashes < MaxCrashes
    /\ crashes' = crashes + 1
    /\ chain' = best
    /\ cache' = [o \in Outs |-> NoEntry] /\ dirty' = {} /\ floor' = 0
    /\ due' = [c \in Callers |-> <<>>] /\ pending' = <<>>
    /\ upto' = Len(marker)
    /\ status' = IF Len(marker) <= Len(best)
                 THEN IF marker = best THEN "up"
                      ELSE IF Prefix(marker, best) THEN "replay" ELSE "failed"
                 ELSE IF Prefix(best, marker) THEN "up" ELSE "failed"
    /\ best' = forwardRebuild
    /\ events' = events \ {"reread"}
    /\ UNCHANGED <<disk, marker, reorgs>>

\* One block of the replay: an input with no entry fails the start-up.  The
\* cache is flushed on the way if it is full.
Replay ==
    LET b == best[upto + 1]
        after == connectTransactions(cache, b, upto + 1)
    IN
    /\ status = "replay"
    /\ IF /\ b.spend \notin {None, b.create}
          /\ fetchEntries(cache, b.spend)[b.spend].at = "nil"
       THEN /\ status' = "failed"
            /\ UNCHANGED <<cache, dirty, disk, marker, upto, events>>
       ELSE /\ upto' = upto + 1
            /\ status' = IF upto' = Len(best) THEN "up" ELSE "replay"
            /\ \/ /\ cache' = after /\ dirty' = Dirtied(cache, b)
                  /\ UNCHANGED <<disk, marker, events>>
               \/ /\ cache' = FullCache(after) /\ dirty' = {}
                  /\ disk' = FullRows(after, disk)
                  /\ marker' = SubSeq(best, 1, upto')
                  /\ events' = events \cup Spilled(after)
    /\ UNCHANGED <<chain, floor, due, best, pending, reorgs, crashes>>

Next ==
    /\ \/ \E o \in Outs : Fetch(o)
       \/ \E c \in Callers :
             \/ \E spend, create \in Outs \cup {None} : Connect(c, spend, create)
             \/ TailFlush(c)
             \/ Disconnect(c)
       \/ FlushUtxoCache
       \/ BatchCommit
       \/ Purge
       \/ Crash
       \/ Replay
    /\ UNCHANGED async

Spec == Init /\ [][Next]_vars

-----------------------------------------------------------------------------
(* Properties.                                                             *)

TypeOK ==
    /\ async \in Modes
    /\ chain \in Seq(Blocks) /\ Len(chain) <= MaxHeight
    /\ marker \in Seq(Blocks) /\ best \in Seq(Blocks)
    /\ cache \in [Outs -> Entries] /\ dirty \subseteq Outs
    /\ disk \in [Outs -> Heights]
    /\ pending \in Seq([delta : [Outs -> Heights \cup {Keep}], state : Seq(Blocks)])
    /\ due \in [Callers -> Seq(Blocks)]
    /\ status \in {"up", "replay", "failed"}
    /\ floor \in Heights /\ upto \in Heights
    /\ events \subseteq {"spilled", "outdated", "reread"}
    /\ reorgs \in 0 .. MaxReorgs /\ crashes \in 0 .. MaxCrashes

\* Neither of the two mishaps has happened after which the UTXO set is wrong:
\* a full flush has found no hot entry in a later map, which it puts back as
\* an explicit nil (utxocache.go:781-794), and no goroutine has flushed under
\* a state that another one has moved the chain away from (chain.go:1055).
Sane == events \cap {"spilled", "outdated"} = {}

\* Unless one of these has happened, the UTXO rows on disk are at every moment
\* those of the chain the consistency marker names: what a crash leaves is
\* what InitConsistentState takes it for, whichever of batches, flushes,
\* disconnects and purges, of whichever goroutine, wrote last.
DiskAtMarker == Sane => disk = Utxo(marker)

\* An output that is unspent in the chain is found, at its height.
NoLostOutput ==
    status = "up" => \A o \in Outs :
        Utxo(chain)[o] # 0 => Seen(o) = Utxo(chain)[o]

\* "It returns nil if there is no entry for the outpoint in the UTXO set"
\* (utxocache.go:346): what is not in the UTXO set is not found.
NoPhantomOutput ==
    status = "up" => \A o \in Outs : Utxo(chain)[o] = 0 => Seen(o) = 0

\* An output that the chain has spent is found again only while its deletion
\* is queued, or, with the write queue on, once a lookup has read its row back
\* into the cache before that.
NoDoubleSpend ==
    status = "up" /\ "reread" \notin events =>
        \A o \in Created(chain) \cap SpentBy(chain) :
            Seen(o) # 0 => \E k \in DOMAIN pending : pending[k].delta[o] = 0

\* "an unclean shutdown can always be recovered by the forward-replay path"
\* (chain.go:1036): unless one of the two mishaps has happened,
\* InitConsistentState never fails.
RestartSucceeds == Sane => status # "failed"

\* What fetchEntries finds is the UTXO set of the chain: unless one of the two
\* mishaps has happened, no block is refused for an input that exists, in
\* whichever map and however the cache was flushed, and what is spent is found
\* again only in the window in which its deletion is queued.
LookupsRight == Sane => NoLostOutput /\ NoDoubleSpend
=============================================================================
