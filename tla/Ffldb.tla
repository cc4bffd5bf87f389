------------------------------- MODULE Ffldb -------------------------------
(***************************************************************************)
(* The database driver ffldb: flat files that hold the blocks, a leveldb   *)
(* that holds their locations and the write cursor, and the cache between  *)
(* transactions and the leveldb (src/backend/database/ffldb).              *)
(*                                                                         *)
(* One writable transaction at a time (writeLock) stores, deletes and      *)
(* prunes blocks; its commit deletes the pruned files, writes the blocks,  *)
(* and goes to the cache or, when a flush is due, through it to the        *)
(* leveldb.  A reader takes its snapshot in two steps beside it.  File     *)
(* operations may fail, the process may be killed (what it wrote stays) and *)
(* the power may fail (what was not synced may be lost) at any point; the  *)
(* next start reconciles the files with the write cursor of the leveldb.   *)
(*                                                                         *)
(* A file is a sequence of units and a record of BlockLen[b] units stands  *)
(* for network, length, block and checksum.  A record that is not all      *)
(* there fails its checksum.  The buckets of other packages, the cursors   *)
(* and the files open for reading are left out; a leveldb transaction is   *)
(* atomic and durable, and so are the creation and removal of a file.      *)
(***************************************************************************)
EXTENDS Naturals, Sequences, FiniteSets

CONSTANTS
    Blocks,       \* block hashes
    BlockLen,     \* [Blocks -> units of the record]
    MaxFileSize,  \* maxBlockFileSize
    PruneTarget,  \* targetSize of PruneBlocks
    MaxFileNum,   \* bound: number of the last file written
    MaxPending,   \* bound: blocks stored by one transaction
    MaxUpdates,   \* bound: writable transactions
    MaxFaults,    \* bound: operations that fail
    MaxCrashes    \* bound: kills and power failures

\* The write cursor's key of the metadata bucket, and a unit never written.
WriteLoc == "writeloc"
Hole     == <<"hole", 0>>

ASSUME FfldbAssumption ==
    /\ WriteLoc \notin Blocks
    /\ MaxFileSize \in Nat /\ MaxFileNum \in Nat /\ MaxPending \in Nat
    /\ MaxUpdates \in Nat /\ MaxFaults \in Nat /\ MaxCrashes \in Nat
    /\ BlockLen \in [Blocks -> 1..MaxFileSize]
    /\ PruneTarget \in Nat /\ PruneTarget >= MaxFileSize

VARIABLES
    files,         \* file number -> [data, synced]: the units and how many
                   \* of them are on the disk for good
    wc,            \* blockStore.writeCursor: [file, off, open]
    ldb,           \* the leveldb: key -> location
    cachedKeys,    \* dbCache.cachedKeys
    cachedRemove,  \* dbCache.cachedRemove
    tx,            \* the writable transaction and where its commit is
    reader,        \* a read-only transaction
    db,            \* "up", "down", or "refused": openDB found a corruption
    updates, faults, crashes, \* counted up to their bounds
    left, lost,    \* history: files that writeBlock moved on from without a
                   \* sync; files whose rows may lead nowhere: damaged ones
                   \* of those, pruned ones whose rows are back
    pruned, stray  \* history: files PruneBlocks has deleted; whether a
                   \* rollback could not delete a newer file

disk == <<files, ldb>>
cache == <<cachedKeys, cachedRemove>>
bounds == <<updates, faults, crashes>>
hist == <<left, lost, pruned, stray>>
vars == <<disk, wc, cache, tx, reader, db, bounds, hist>>

Empty == [k \in {} |-> 0]
Idle  == [st |-> "idle", keys |-> Empty, remove |-> {}, pend |-> <<>>,
          del |-> <<>>, old |-> [file |-> 0, off |-> 0]]
NoReader == [st |-> "idle", rows |-> Empty]

Record(b) == [i \in 1..BlockLen[b] |-> <<b, i>>]
Less(a, b) == a.file < b.file \/ (a.file = b.file /\ a.off < b.off)
At(c) == [file |-> c.file, off |-> c.off]
Smaller(i, j) == IF i < j THEN i ELSE j

---------------------------------------------------------------------------
(* Keys and values: treaps, transactions and the leveldb.                  *)

Merge(f, g) == [k \in DOMAIN f \cup DOMAIN g |->
                    IF k \in DOMAIN g THEN g[k] ELSE f[k]]
Minus(f, S) == [k \in DOMAIN f \ S |-> f[k]]

\* dbCacheSnapshot.Has and Get: removed keys, then cached ones, then leveldb.
Snap(d, keys, remove) == [k \in (DOMAIN d \cup DOMAIN keys) \ remove |->
                              IF k \in DOMAIN keys THEN keys[k] ELSE d[k]]

\* What a transaction that begins now reads.
View == Snap(ldb, cachedKeys, cachedRemove)

\* transaction.putKey and deleteKey.
putKey(t, k, v) == [t EXCEPT !.keys = Merge(@, [x \in {k} |-> v]), !.remove = @ \ {k}]
deleteKeys(t, S) == [t EXCEPT !.keys = Minus(@, S), !.remove = @ \cup S]

\* transaction.hasKey, in the transaction's own view.
TxView(t) == Snap(View, t.keys, t.remove)

\* Mutant: the deletions are forgotten.
PutsOnly(d, keys, remove) == Merge(d, keys)

\* commitTreaps: puts, then deletions, in one leveldb transaction.
commitTreaps(d, keys, remove) == Minus(Merge(d, keys), remove)

---------------------------------------------------------------------------
(* The block files.                                                        *)

\* os.File.WriteAt: a gap before the offset reads as zeros.
WriteAt(f, off, units) ==
    LET end == off + Len(units)
        top == IF Len(f.data) > end THEN Len(f.data) ELSE end
    IN  [data |-> [i \in 1..top |->
                     IF i > off /\ i <= end THEN units[i - off]
                     ELSE IF i <= Len(f.data) THEN f.data[i] ELSE Hole],
         synced |-> Smaller(f.synced, off)]

\* os.File.Truncate, which also extends.
Truncate(f, off) == [data |-> [i \in 1..off |->
                                 IF i <= Len(f.data) THEN f.data[i] ELSE Hole],
                     synced |-> Smaller(f.synced, off)]

Sync(f) == [f EXCEPT !.synced = Len(f.data)]

\* O_CREATE.
FileAt(fs, n) == IF n \in DOMAIN fs THEN fs[n] ELSE [data |-> <<>>, synced |-> 0]
Put(fs, n, f) == Merge(fs, [x \in {n} |-> f])

\* readBlock: the record, whole, at the row's location.
Reads(row, b) ==
    /\ row.file \in DOMAIN files
    /\ LET d == files[row.file].data
       IN  /\ row.off + BlockLen[b] <= Len(d)
           /\ \A i \in 1..BlockLen[b] : d[row.off + i] = <<b, i>>

\* writeBlock: the file and offset the next record of n units goes to.
NextLoc(n) == IF wc.off + n > MaxFileSize THEN [file |-> wc.file + 1, off |-> 0]
                                          ELSE At(wc)

\* writeBlock closes a full file without a sync.
MovedOn(loc) == IF loc.file # wc.file /\ wc.file \in DOMAIN files
                   /\ files[wc.file].synced < Len(files[wc.file].data)
                THEN {wc.file} ELSE {}

\* syncBlocks: the current file, if it is open.
syncBlocks == IF wc.open /\ wc.file \in DOMAIN files
              THEN Put(files, wc.file, Sync(files[wc.file])) ELSE files

\* handleRollback from cursor c to location to: newer files are deleted from
\* the last one on, the file of the location is opened, cut and synced.  The
\* first step that fails ends it (a file that is not there cannot be
\* deleted), and the cursor moves back all the same.  The outcomes, and
\* whether one took a fault.
handleRollback(c, to) ==
    LET Newer   == (to.file + 1)..c.file
        Missing == {n \in Newer : n \notin DOMAIN files}
        Reached == {n \in Newer \cup {to.file} : \A m \in Missing : n >= m}
        Kept(n) == Minus(files, {i \in Newer : i > n})
        file    == FileAt(files, to.file)
        cut     == Truncate(file, to.off)
        ends(f) == Put(Kept(to.file), to.file, f)
        out(fs, o, f) == [files |-> fs, open |-> o, fault |-> f]
        stops(f, N) == {out(Kept(n), c.open /\ c.file = to.file, f) : n \in N}
    IN  IF At(c) = to THEN {out(files, c.open, 0)}
        ELSE stops(1, Reached \ Missing) \cup
             IF Missing # {} THEN stops(0, Reached \cap Missing)
             ELSE {out(ends(file), TRUE, 1), out(ends(cut), TRUE, 1),
                   out(ends(Sync(cut)), TRUE, 0)}

\* The write cursor goes back to a location.
RollBack(c, to) ==
    \E r \in handleRollback(c, to) :
        /\ faults + r.fault <= MaxFaults
        /\ faults' = faults + r.fault
        /\ files' = r.files
        /\ wc' = [file |-> to.file, off |-> to.off, open |-> r.open]
        /\ left' = {n \in left \cap DOMAIN r.files :
                       r.files[n].synced < Len(r.files[n].data)}
        /\ stray' = (stray \/ \E n \in DOMAIN r.files : n > to.file)

\* scanBlockFiles: the end of the last file.
scanBlockFiles ==
    IF DOMAIN files = {} THEN [file |-> 0, off |-> 0, open |-> FALSE]
    ELSE LET last == CHOOSE n \in DOMAIN files : \A m \in DOMAIN files : m <= n
         IN  [file |-> last, off |-> Len(files[last].data), open |-> FALSE]

---------------------------------------------------------------------------
(* The writable transaction.                                               *)

Init ==
    /\ files = Empty
    /\ wc = [file |-> 0, off |-> 0, open |-> FALSE]
    /\ ldb = [k \in {WriteLoc} |-> [file |-> 0, off |-> 0]]
    /\ cachedKeys = Empty /\ cachedRemove = {}
    /\ tx = Idle /\ reader = NoReader
    /\ db = "up" /\ updates = 0 /\ faults = 0 /\ crashes = 0
    /\ left = {} /\ lost = {} /\ pruned = {} /\ stray = FALSE

\* db.Update: begin with the write lock.
Begin ==
    /\ db = "up" /\ tx.st = "idle"
    /\ updates < MaxUpdates /\ updates' = updates + 1
    /\ tx' = [Idle EXCEPT !.st = "open"]
    /\ UNCHANGED <<disk, wc, cache, reader, db, faults, crashes, hist>>

InTx(t) ==
    /\ db = "up" /\ tx.st = "open"
    /\ tx' = t
    /\ UNCHANGED <<disk, wc, cache, reader, db, bounds, hist>>

\* StoreBlock: ErrBlockExists for a block pending or stored.
StoreBlock(b) ==
    /\ b \notin {tx.pend[i] : i \in DOMAIN tx.pend}
    /\ b \notin DOMAIN TxView(tx)
    /\ Len(tx.pend) < MaxPending /\ wc.file + Len(tx.pend) < MaxFileNum
    /\ InTx([tx EXCEPT !.pend = Append(@, b)])

\* DeleteBlock: the row goes, if there is one; a block that the transaction
\* has stored stays pending.
DeleteBlock(b) == InTx(deleteKeys(tx, {b}))

\* The files to prune: the oldest ones, until the rest is within the target;
\* the last file on disk is never among them.
FirstFile == CHOOSE n \in DOMAIN files : \A m \in DOMAIN files : n <= m
OverTarget(n) ==
    LET last == scanBlockFiles
    IN  last.off + MaxFileSize * (last.file - n) > PruneTarget
Doomed == IF DOMAIN files = {} THEN {} ELSE
    {n \in FirstFile..(scanBlockFiles.file - 1) : OverTarget(n)}

\* PruneBlocks: their rows are deleted with the transaction, the files when it
\* is committed.
PruneBlocks ==
    LET view == TxView(tx)
        rows == {b \in DOMAIN view \ {WriteLoc} : view[b].file \in Doomed}
    IN  /\ tx.del = <<>> /\ Doomed # {}
        /\ InTx([deleteKeys(tx, rows) EXCEPT
                  !.del = [i \in 1..Cardinality(Doomed) |-> FirstFile + i - 1]])

\* The function of Update returns an error: nothing has been written.
Rollback == InTx(Idle)

\* The transaction is closed; what it wrote stays, unless rolled back.
Aborted ==
    /\ tx' = Idle
    /\ lost' = lost \cup ({View[b].file : b \in DOMAIN View} \cap pruned)
    /\ UNCHANGED <<left, pruned, stray>>

Fault == faults < MaxFaults /\ faults' = faults + 1

\* Commit calls writePendingAndCommit: the pruned files go first.
Commit == InTx([tx EXCEPT !.st = "delete"])

deleteFile ==
    /\ tx.st = "delete" /\ tx.del # <<>>
    /\ Head(tx.del) \in DOMAIN files
    /\ files' = Minus(files, {Head(tx.del)})
    /\ pruned' = pruned \cup {Head(tx.del)}
    /\ left' = left \ {Head(tx.del)}
    /\ lost' = lost \cup ({wc.file} \cap {Head(tx.del)})
    /\ tx' = [tx EXCEPT !.del = Tail(@)]
    /\ UNCHANGED <<ldb, wc, cache, reader, db, bounds, stray>>

\* A fault, or the file is not there.
deleteFileFails ==
    /\ tx.st = "delete" /\ tx.del # <<>>
    /\ faults' = IF Head(tx.del) \in DOMAIN files THEN faults + 1 ELSE faults
    /\ faults' <= MaxFaults
    /\ Aborted
    /\ UNCHANGED <<disk, wc, cache, reader, db, updates, crashes>>

\* Mutant: the cursor is not saved before the blocks are written.
SaveNothing ==
    /\ tx.st = "delete" /\ tx.del = <<>>
    /\ tx' = [tx EXCEPT !.st = "write"]
    /\ UNCHANGED <<disk, wc, cache, reader, db, bounds, hist>>

\* The position to roll back to.
SaveCursor ==
    /\ tx.st = "delete" /\ tx.del = <<>>
    /\ tx' = [tx EXCEPT !.st = "write", !.old = At(wc)]
    /\ UNCHANGED <<disk, wc, cache, reader, db, bounds, hist>>

\* writeBlock and the row of the block.
writeBlock ==
    LET b   == Head(tx.pend)
        loc == NextLoc(BlockLen[b])
    IN  /\ tx.st = "write" /\ tx.pend # <<>>
        /\ files' = Put(files, loc.file,
                        WriteAt(FileAt(files, loc.file), loc.off, Record(b)))
        /\ wc' = [file |-> loc.file, off |-> loc.off + BlockLen[b], open |-> TRUE]
        /\ tx' = putKey([tx EXCEPT !.pend = Tail(@)], b, loc)
        /\ left' = left \cup MovedOn(loc)
        /\ UNCHANGED <<ldb, cache, reader, db, bounds, lost, pruned, stray>>

\* A write that fails after n units, or the open of the file.
writeBlockFails ==
    LET b   == Head(tx.pend)
        loc == NextLoc(BlockLen[b])
    IN  /\ tx.st = "write" /\ tx.pend # <<>>
        /\ Fault
        /\ \/ /\ loc.file # wc.file \/ ~ wc.open
              /\ wc' = [file |-> loc.file, off |-> loc.off, open |-> FALSE]
              /\ UNCHANGED files
           \/ \E n \in 0..(BlockLen[b] - 1) :
                LET f == FileAt(files, loc.file)
                IN  /\ files' = Put(files, loc.file, IF n = 0 THEN f
                                    ELSE WriteAt(f, loc.off, SubSeq(Record(b), 1, n)))
                    /\ wc' = [file |-> loc.file, off |-> loc.off + n, open |-> TRUE]
        /\ tx' = [tx EXCEPT !.st = "undo"]
        /\ left' = left \cup MovedOn(loc)
        /\ UNCHANGED <<ldb, cache, reader, db, updates, crashes, lost, pruned, stray>>

\* The rollback closure, then the error is returned.
UndoWrites ==
    /\ tx.st = "undo"
    /\ RollBack(wc, tx.old)
    /\ tx' = Idle
    /\ lost' = lost \cup ({View[b].file : b \in DOMAIN View} \cap pruned)
    /\ UNCHANGED <<ldb, cache, reader, db, updates, crashes, pruned>>

\* Mutant: the cursor is not written with the blocks.
NoCursor(t) == t

\* The transaction with the row of the write cursor.
WithCursor(t) == putKey(t, WriteLoc, At(wc))

\* Mutant: a key put stays among the removed ones.
CachePutsBeside ==
    LET t == WithCursor(tx)
    IN  /\ tx.st = "write" /\ tx.pend = <<>>
        /\ cachedKeys' = Minus(Merge(cachedKeys, t.keys), t.remove)
        /\ cachedRemove' = cachedRemove \cup t.remove
        /\ tx' = Idle
        /\ UNCHANGED <<disk, wc, reader, db, bounds, hist>>

\* commitTx without a flush: the keys move to the cache.
commitToCache ==
    LET t == WithCursor(tx)
    IN  /\ tx.st = "write" /\ tx.pend = <<>>
        /\ cachedKeys' = Minus(Merge(cachedKeys, t.keys), t.remove)
        /\ cachedRemove' = (cachedRemove \ DOMAIN t.keys) \cup t.remove
        /\ tx' = Idle
        /\ UNCHANGED <<disk, wc, reader, db, bounds, hist>>

\* commitTx with a flush (needsFlush: time or size): sync, leveldb, clear the
\* cache, then the transaction's own keys.
flushSync ==
    /\ tx.st = "write" /\ tx.pend = <<>>
    /\ files' = syncBlocks
    /\ tx' = [WithCursor(tx) EXCEPT !.st = "flush"]
    /\ UNCHANGED <<ldb, wc, cache, reader, db, bounds, hist>>

flushTreaps ==
    /\ tx.st = "flush"
    /\ ldb' = commitTreaps(ldb, cachedKeys, cachedRemove)
    /\ tx' = [tx EXCEPT !.st = "clear"]
    /\ UNCHANGED <<files, wc, cache, reader, db, bounds, hist>>

flushClear ==
    /\ tx.st = "clear"
    /\ cachedKeys' = Empty /\ cachedRemove' = {}
    /\ tx' = [tx EXCEPT !.st = "direct"]
    /\ UNCHANGED <<disk, wc, reader, db, bounds, hist>>

commitDirect ==
    /\ tx.st = "direct"
    /\ ldb' = commitTreaps(ldb, tx.keys, tx.remove)
    /\ tx' = Idle
    /\ UNCHANGED <<files, wc, cache, reader, db, bounds, hist>>

\* The sync or a leveldb transaction fails: commitTx returns the error and
\* nobody rolls the block files back.
commitFails ==
    /\ tx.st \in {"flush", "direct"} \/ (tx.st = "write" /\ tx.pend = <<>>)
    /\ Fault
    /\ Aborted
    /\ UNCHANGED <<disk, wc, cache, reader, db, updates, crashes>>

---------------------------------------------------------------------------
(* A reader, shutdown, crashes and the next start.                         *)

\* dbCache.Snapshot: first the leveldb's snapshot, then the cache's roots.
ReaderLdb ==
    /\ db = "up" /\ reader.st = "idle"
    /\ reader' = [st |-> "ldb", rows |-> ldb]
    /\ UNCHANGED <<disk, wc, cache, tx, db, bounds, hist>>

ReaderRoots ==
    /\ reader.st = "ldb"
    /\ reader' = [st |-> "open", rows |-> Snap(reader.rows, cachedKeys, cachedRemove)]
    /\ UNCHANGED <<disk, wc, cache, tx, db, bounds, hist>>

ReaderEnd ==
    /\ reader.st = "open"
    /\ reader' = NoReader
    /\ UNCHANGED <<disk, wc, cache, tx, db, bounds, hist>>

\* The memory of the process is gone.
Forget ==
    /\ db' = "down"
    /\ wc' = [file |-> 0, off |-> 0, open |-> FALSE]
    /\ cachedKeys' = Empty /\ cachedRemove' = {}
    /\ tx' = Idle /\ reader' = NoReader

\* db.Close waits for every transaction and flushes the cache; when the
\* flush fails the database is closed all the same.
Close ==
    /\ db = "up" /\ tx.st = "idle" /\ reader.st = "idle"
    /\ files' = syncBlocks
    /\ ldb' = commitTreaps(ldb, cachedKeys, cachedRemove)
    /\ Forget
    /\ UNCHANGED <<bounds, hist>>

\* Rows of pruned files that the leveldb still has come back.
Reborn == {ldb[b].file : b \in DOMAIN ldb} \cap pruned

CloseFails ==
    /\ db = "up" /\ tx.st = "idle" /\ reader.st = "idle"
    /\ Fault
    /\ Forget
    /\ lost' = lost \cup Reborn
    /\ UNCHANGED <<disk, updates, crashes, left, pruned, stray>>

Kill ==
    /\ db = "up" /\ crashes < MaxCrashes
    /\ Forget
    /\ crashes' = crashes + 1
    /\ lost' = lost \cup Reborn
    /\ UNCHANGED <<disk, updates, faults, left, pruned, stray>>

\* What was not synced is there, or reads as zeros, or is cut off.
Unsynced == UNION {{<<n, i>> : i \in (files[n].synced + 1)..Len(files[n].data)} :
                     n \in DOMAIN files}
Survived(n, fate) ==
    LET cut == {i \in 1..Len(files[n].data) :
                  \E j \in (files[n].synced + 1)..i : fate[<<n, j>>] = "cut"}
        len == Len(files[n].data) - Cardinality(cut)
    IN  [data |-> [i \in 1..len |->
                     IF i > files[n].synced /\ fate[<<n, i>>] = "zero" THEN Hole
                     ELSE files[n].data[i]],
         synced |-> len]

PowerFailure ==
    /\ db # "refused" /\ crashes < MaxCrashes
    /\ Forget
    /\ crashes' = crashes + 1
    /\ \E fate \in [Unsynced -> {"kept", "zero", "cut"}] :
         LET fs == [n \in DOMAIN files |-> Survived(n, fate)]
         IN  /\ files' = fs
             /\ lost' = lost \cup Reborn
                         \cup {n \in left \cap DOMAIN fs : fs[n].data # files[n].data}
    /\ left' = {}
    /\ UNCHANGED <<ldb, updates, faults, pruned, stray>>

\* openDB, reconcileDB: files that go beyond the metadata are cut back,
\* files that end before it are a corruption.
openDB ==
    LET scan == scanBlockFiles
        meta == ldb[WriteLoc]
    IN  /\ db = "down"
        /\ \/ /\ Less(meta, scan)
              /\ RollBack(scan, meta)
              /\ db' = "up"
           \/ /\ At(scan) = meta
              /\ wc' = scan
              /\ db' = "up"
              /\ UNCHANGED <<files, left, stray, faults>>
           \/ /\ Less(scan, meta)
              /\ db' = "refused"
              /\ UNCHANGED <<files, wc, left, stray, faults>>
        /\ UNCHANGED <<ldb, cache, tx, reader, updates, crashes, lost, pruned>>

Next ==
    \/ Begin \/ Rollback \/ Commit \/ PruneBlocks
    \/ \E b \in Blocks : StoreBlock(b) \/ DeleteBlock(b)
    \/ deleteFile \/ deleteFileFails \/ SaveCursor
    \/ writeBlock \/ writeBlockFails \/ UndoWrites
    \/ commitToCache \/ flushSync \/ flushTreaps \/ flushClear
    \/ commitDirect \/ commitFails
    \/ ReaderLdb \/ ReaderRoots \/ ReaderEnd
    \/ Close \/ CloseFails \/ Kill \/ PowerFailure \/ openDB

Spec == Init /\ [][Next]_vars

---------------------------------------------------------------------------
(* Properties.                                                             *)

Locs == [file : Nat, off : Nat]
AreRows(f) == DOMAIN f \subseteq Blocks \cup {WriteLoc} /\ \A k \in DOMAIN f : f[k] \in Locs

\* The shape of the driver's state; the leveldb always has a write cursor.
TypeOK ==
    /\ DOMAIN files \subseteq 0..MaxFileNum
    /\ \A n \in DOMAIN files : files[n].synced \in 0..Len(files[n].data)
    /\ At(wc) \in Locs /\ wc.open \in BOOLEAN /\ stray \in BOOLEAN
    /\ \A f \in {ldb, cachedKeys, tx.keys, reader.rows} : AreRows(f)
    /\ WriteLoc \in DOMAIN ldb
    /\ cachedRemove \subseteq Blocks /\ tx.remove \subseteq Blocks
    /\ db \in {"up", "down", "refused"}

BlocksOf(rows) == DOMAIN rows \ {WriteLoc}

\* A stored block can be read back, by a transaction that begins now and by a
\* reader that is under way, through failed commits, rollbacks, kills and
\* power failures; unless its file has been pruned and the row is back (a
\* crash or a failed commit after the file was deleted, db.go:1695-1708), is
\* being pruned, or lost data that writeBlock left behind without a sync.
BlocksReadable ==
    /\ db = "up" =>
         \A b \in BlocksOf(View) :
            \/ Reads(View[b], b)
            \/ View[b].file \in lost
            \/ tx.st # "idle" /\ View[b].file \in pruned
    /\ \A b \in BlocksOf(reader.rows) :
            \/ Reads(reader.rows[b], b)
            \/ reader.rows[b].file \in lost \cup pruned

\* Whatever has failed or been lost, what is found at the location of a row is
\* its own record or zeros, never part of another block: readBlock compares
\* checksum and network, not the hash.
NeverAnotherBlock ==
    \A rows \in {View, reader.rows} : \A b \in BlocksOf(rows) :
        LET n == rows[b].file
            o == rows[b].off
        IN  n \in DOMAIN files => \A i \in 1..BlockLen[b] :
                o + i <= Len(files[n].data) =>
                    files[n].data[o + i] \in {<<b, i>>, Hole}

\* PruneBlocks spares the file being written ("the last file is never
\* deleted", db.go:1809), unless a rollback could not delete a newer one.
CurrentKept == stray \/ \A i \in DOMAIN tx.del : tx.del[i] # wc.file

\* Every committed record ends at or before the write cursor, in memory and in
\* the leveldb: the next write overwrites nothing that a row names.
NothingLiveAhead ==
    LET Ends(rows, b) == [file |-> rows[b].file, off |-> rows[b].off + BlockLen[b]]
    IN  /\ \A b \in BlocksOf(ldb) : ~ Less(ldb[WriteLoc], Ends(ldb, b))
        /\ db = "up" => \A b \in BlocksOf(View) : ~ Less(wc, Ends(View, b))

\* The database is refused as corrupt only when a power failure has taken what
\* writeBlock left behind without a sync: a kill, a failed write, a failed
\* rollback or pruning never gets there.
RefusedOnlyAfterLoss == db = "refused" => ldb[WriteLoc].file \in lost

\* A commit takes effect whole or not at all, whether it goes to the cache or
\* through a flush that fails half way; nothing else changes what is read.
CommitAtomic ==
    [][db = "up" /\ db' = "up" /\ View' # View => View' = TxView(WithCursor(tx))]_vars

\* The cache and the leveldb behave as one store whose durable state is always
\* a committed one, and a crash goes back to it.
Store == INSTANCE AtomicStore WITH committed <- View, durable <- ldb, up <- db = "up"
ImplementsAtomicStore == Store!Spec

\* What a row names is on disk: its own block, whole, unless one of the named
\* losses took its file, and a start refuses the database only after one.
BlocksKept == BlocksReadable /\ NeverAnotherBlock /\ RefusedOnlyAfterLoss

\* The write cursor is behind nothing that is alive, in the file it names.
CursorSound == TypeOK /\ NothingLiveAhead /\ CurrentKept
=============================================================================
