---------------------------- MODULE FfldbProofs ----------------------------
(***************************************************************************)
(* Proofs about the database: the cache and the leveldb implement          *)
(* AtomicStore, a commit is atomic, and the write cursor of the flat files *)
(* is where the files end.                                                 *)
(*                                                                         *)
(* The first two rest on what is true between the steps of a flush.  Once  *)
(* the cache has been written to the leveldb it hides nothing of it        *)
(* (Flushed), when the transaction's own keys are written the cache is     *)
(* empty, and by then they include the write cursor (Cursored).            *)
(*                                                                         *)
(* The last rests on CursorInv: where the cursors in memory, in the cache  *)
(* and on disk may be at each step of a commit, of a rollback and of the   *)
(* reconciliation after a crash, and which files reach beyond them.        *)
(***************************************************************************)
EXTENDS Ffldb, FiniteSetTheorems, WellFoundedInduction, TLAPS

NoCache == cachedKeys = Empty /\ cachedRemove = {}

TxShape == DOMAIN tx = {"st", "keys", "remove", "pend", "del", "old"}

Cursored == tx.st \in {"flush", "clear", "direct"} =>
    /\ WriteLoc \in DOMAIN tx.keys
    /\ tx.keys[WriteLoc] = At(wc)
    /\ WriteLoc \notin tx.remove

Flushed == /\ tx.st = "clear" => View = ldb
           /\ tx.st = "direct" => NoCache

Stopped == db # "up" => tx.st = "idle" /\ NoCache

\* The leveldb is a function on its domain.
IsRows == ldb = [k \in DOMAIN ldb |-> ldb[k]]

StoreInv == TxShape /\ Cursored /\ Flushed /\ Stopped /\ IsRows

\* An empty cache hides nothing: a snapshot is the leveldb.
LEMMA SnapEmpty ==
    ASSUME NEW D, D = [k \in DOMAIN D |-> D[k]]
    PROVE  Snap(D, Empty, {}) = D
BY DEF Snap, Empty

\* Writing the cache to the leveldb gives what was read through the cache.
LEMMA TreapsAreView ==
    ASSUME NEW D, NEW K, NEW R
    PROVE  commitTreaps(D, K, R) = Snap(D, K, R)
BY DEF commitTreaps, Snap, Merge, Minus

\* Reading the written state through the cache again makes no difference.
LEMMA SnapTwice ==
    ASSUME NEW D, NEW K, NEW R
    PROVE  Snap(Snap(D, K, R), K, R) = Snap(D, K, R)
BY DEF Snap

LEMMA SnapIsRows ==
    ASSUME NEW D, NEW K, NEW R
    PROVE  Snap(D, K, R) = [k \in DOMAIN Snap(D, K, R) |-> Snap(D, K, R)[k]]
BY DEF Snap

\* Moving a transaction's keys into the cache changes the view by exactly
\* those keys (dbCache.commitTx).
LEMMA CacheMerge ==
    ASSUME NEW D, NEW K, NEW R, NEW TK, NEW TR
    PROVE  Snap(D, Minus(Merge(K, TK), TR), (R \ DOMAIN TK) \cup TR)
             = Snap(Snap(D, K, R), TK, TR)
BY DEF Snap, Merge, Minus

---------------------------------------------------------------------------
\* The invariant holds in a new database.
LEMMA InitInv == Init => StoreInv
BY SnapEmpty DEF Init, StoreInv, TxShape, Cursored, Flushed, Stopped, IsRows,
   NoCache, Idle

\* Every action keeps the invariant.
LEMMA StepInv == StoreInv /\ [Next]_vars => StoreInv'
<1> SUFFICES ASSUME StoreInv, [Next]_vars PROVE StoreInv'
  OBVIOUS
<1> USE DEF StoreInv, TxShape, Cursored, Stopped, IsRows, NoCache
<1>0. CASE UNCHANGED vars
  BY <1>0 DEF vars, disk, cache, Flushed, View, At
<1>1. CASE Begin
  BY <1>1 DEF Begin, disk, cache, Flushed, Idle
<1>2. ASSUME NEW t, InTx(t), t.st \in {"idle", "open", "delete"},
             DOMAIN t = {"st", "keys", "remove", "pend", "del", "old"}
      PROVE  StoreInv'
  BY <1>2 DEF InTx, disk, cache, Flushed
<1>3. CASE Rollback
  BY <1>3, <1>2 DEF Rollback, Idle
<1>4. CASE Commit
  BY <1>4, <1>2 DEF Commit
<1>5. CASE PruneBlocks
  <2> DEFINE rows == {b \in DOMAIN TxView(tx) \ {WriteLoc} : TxView(tx)[b].file \in Doomed}
             t == [deleteKeys(tx, rows) EXCEPT
                     !.del = [i \in 1..Cardinality(Doomed) |-> FirstFile + i - 1]]
  <2>1. InTx(t)
    BY <1>5 DEF PruneBlocks
  <2>2. t.st = "open" /\ DOMAIN t = {"st", "keys", "remove", "pend", "del", "old"}
    BY <2>1 DEF InTx, deleteKeys
  <2> QED
    BY <2>1, <2>2, <1>2
<1>6. ASSUME NEW b \in Blocks, StoreBlock(b) PROVE StoreInv'
  BY <1>6, <1>2 DEF StoreBlock, InTx
<1>7. ASSUME NEW b \in Blocks, DeleteBlock(b) PROVE StoreInv'
  <2>1. deleteKeys(tx, {b}).st = "open"
          /\ DOMAIN deleteKeys(tx, {b}) = {"st", "keys", "remove", "pend", "del", "old"}
    BY <1>7 DEF DeleteBlock, InTx, deleteKeys
  <2> QED
    BY <2>1, <1>7, <1>2 DEF DeleteBlock
<1>8. CASE deleteFile
  BY <1>8 DEF deleteFile, cache, Flushed
<1>9. CASE deleteFileFails
  BY <1>9 DEF deleteFileFails, Aborted, Idle, disk, cache, Flushed
<1>10. CASE SaveCursor
  BY <1>10 DEF SaveCursor, disk, cache, Flushed
<1>11. CASE writeBlock
  BY <1>11 DEF writeBlock, putKey, cache, Flushed
<1>12. CASE writeBlockFails
  BY <1>12 DEF writeBlockFails, cache, Flushed
<1>13. CASE UndoWrites
  BY <1>13 DEF UndoWrites, Idle, cache, Flushed
<1>14. CASE commitToCache
  BY <1>14 DEF commitToCache, Idle, disk, Flushed
<1>15. CASE flushSync
  <2> DEFINE t == WithCursor(tx)
  <2>1. /\ tx' = [t EXCEPT !.st = "flush"] /\ tx.st = "write"
        /\ UNCHANGED <<ldb, wc, cachedKeys, cachedRemove, db>>
    BY <1>15 DEF flushSync, cache
  <2>2. /\ DOMAIN t = {"st", "keys", "remove", "pend", "del", "old"}
        /\ t.keys = Merge(tx.keys, [x \in {WriteLoc} |-> At(wc)])
        /\ t.remove = tx.remove \ {WriteLoc}
    BY DEF WithCursor, putKey
  <2>3. WriteLoc \in DOMAIN t.keys /\ t.keys[WriteLoc] = At(wc) /\ WriteLoc \notin t.remove
    BY <2>2 DEF Merge
  <2> QED
    BY <2>1, <2>2, <2>3 DEF Flushed, At
<1>16. CASE flushTreaps
  <2>1. /\ tx.st = "flush" /\ tx' = [tx EXCEPT !.st = "clear"]
        /\ UNCHANGED <<wc, cachedKeys, cachedRemove, db>>
        /\ ldb' = View
    BY <1>16, TreapsAreView DEF flushTreaps, cache, View
  <2>2. View' = ldb' /\ IsRows'
    BY <2>1, SnapTwice, SnapIsRows DEF View
  <2> QED
    BY <2>1, <2>2 DEF Flushed, At
<1>17. CASE flushClear
  BY <1>17 DEF flushClear, disk, Flushed, At
<1>18. CASE commitDirect
  <2>1. IsRows'
    BY <1>18, TreapsAreView, SnapIsRows DEF commitDirect
  <2> QED
    BY <1>18, <2>1 DEF commitDirect, Idle, cache, Flushed
<1>19. CASE commitFails
  BY <1>19 DEF commitFails, Aborted, Idle, disk, cache, Flushed
<1>20. CASE ReaderLdb
  BY <1>20 DEF ReaderLdb, disk, cache, Flushed, View, At
<1>21. CASE ReaderRoots
  BY <1>21 DEF ReaderRoots, disk, cache, Flushed, View, At
<1>22. CASE ReaderEnd
  BY <1>22 DEF ReaderEnd, disk, cache, Flushed, View, At
<1>23. CASE Close
  <2>1. IsRows'
    BY <1>23, TreapsAreView, SnapIsRows DEF Close
  <2> QED
    BY <1>23, <2>1 DEF Close, Forget, Idle, Flushed
<1>24. CASE CloseFails
  BY <1>24 DEF CloseFails, Forget, Idle, disk, Flushed
<1>25. CASE Kill
  BY <1>25 DEF Kill, Forget, Idle, disk, Flushed
<1>26. CASE PowerFailure
  BY <1>26 DEF PowerFailure, Forget, Idle, Flushed
<1>27. CASE openDB
  BY <1>27 DEF openDB, cache, Flushed
<1> QED
  BY <1>0, <1>1, <1>3, <1>4, <1>5, <1>6, <1>7, <1>8, <1>9, <1>10, <1>11, <1>12,
     <1>13, <1>14, <1>15, <1>16, <1>17, <1>18, <1>19, <1>20, <1>21, <1>22,
     <1>23, <1>24, <1>25, <1>26, <1>27 DEF Next

---------------------------------------------------------------------------
\* What a step can do to the view and the leveldb, by the kind of step.
Quiet == UNCHANGED <<ldb, cachedKeys, cachedRemove, db>>

\* All steps but these leave cache and leveldb alone.
LEMMA QuietSteps ==
    ASSUME [Next]_vars
    PROVE  \/ Quiet \/ commitToCache \/ flushTreaps \/ flushClear \/ commitDirect
           \/ Close \/ CloseFails \/ Kill \/ PowerFailure \/ openDB
BY DEF Quiet, Next, vars, disk, cache, Begin, Rollback, Commit, PruneBlocks, StoreBlock,
   DeleteBlock, InTx, deleteFile, deleteFileFails, Aborted, SaveCursor, writeBlock,
   writeBlockFails, UndoWrites, flushSync, commitFails, ReaderLdb, ReaderRoots, ReaderEnd

\* In every state a transaction that commits through a flush has flushed first.
THEOREM StoreInvariant == Spec => []StoreInv
<1>1. Init => StoreInv
  BY InitInv
<1>2. StoreInv /\ [Next]_vars => StoreInv'
  BY StepInv
<1> QED
  BY <1>1, <1>2, PTL DEF Spec

\* The cache and the leveldb together are a store whose durable state is a
\* committed one, and the state found after the process ends is the durable
\* one (dbcache.go and openDB).
THEOREM AtomicStoreImplemented == Spec => ImplementsAtomicStore
<1>1. Init => Store!Init
  BY SnapEmpty DEF Init, Store!Init, View
<1>2. StoreInv /\ StoreInv' /\ [Next]_vars => [Store!Next]_<<View, ldb, db = "up">>
  <2> SUFFICES ASSUME StoreInv, StoreInv', [Next]_vars
               PROVE  Store!Next \/ UNCHANGED <<View, ldb, db = "up">>
    OBVIOUS
  <2> USE DEF Store!Next
  <2>1. CASE Quiet
    BY <2>1 DEF Quiet, View
  <2>2. CASE commitToCache
    <3>1. UNCHANGED <<ldb, db>> /\ tx.st = "write"
      BY <2>2 DEF commitToCache, disk
    <3> QED
      BY <3>1 DEF Store!Commit, StoreInv, Stopped
  <2>3. CASE flushTreaps
    <3>1. ldb' = View /\ UNCHANGED <<cachedKeys, cachedRemove, db>> /\ tx.st = "flush"
      BY <2>3, TreapsAreView DEF flushTreaps, cache, View
    <3>2. View' = View
      BY <3>1, SnapTwice DEF View
    <3> QED
      BY <3>1, <3>2 DEF Store!Flush, StoreInv, Stopped
  <2>4. CASE flushClear
    <3>1. /\ UNCHANGED <<ldb, db>> /\ tx.st = "clear"
          /\ cachedKeys' = Empty /\ cachedRemove' = {}
      BY <2>4 DEF flushClear, disk
    <3>2. View' = ldb
      BY <3>1, SnapEmpty DEF View, StoreInv, IsRows
    <3> QED
      BY <3>1, <3>2 DEF StoreInv, Flushed
  <2>5. CASE commitDirect
    <3>1. /\ UNCHANGED <<cachedKeys, cachedRemove, db>> /\ tx.st = "direct"
      BY <2>5 DEF commitDirect, cache
    <3>2. NoCache /\ View = ldb /\ View' = ldb'
      BY <3>1, SnapEmpty DEF View, StoreInv, IsRows, Flushed, NoCache
    <3> QED
      BY <3>1, <3>2 DEF Store!CommitThrough, StoreInv, Stopped
  <2>6. ASSUME Forget PROVE View' = ldb' /\ db' = "down"
    BY <2>6, SnapEmpty DEF Forget, View, StoreInv, IsRows
  <2>7. CASE Close
    <3>1. ldb' = View /\ db = "up" /\ Forget
      BY <2>7, TreapsAreView DEF Close, View
    <3> QED
      BY <3>1, <2>6 DEF Store!Stop
  <2>8. CASE CloseFails \/ Kill
    <3>1. ldb' = ldb /\ db = "up" /\ Forget
      BY <2>8 DEF CloseFails, Kill, disk
    <3> QED
      BY <3>1, <2>6 DEF Store!Stop
  <2>9. CASE PowerFailure
    <3>1. ldb' = ldb /\ Forget
      BY <2>9 DEF PowerFailure
    <3>2. CASE db = "up"
      BY <3>1, <3>2, <2>6 DEF Store!Stop
    <3>3. CASE db # "up"
      <4>1. View = ldb
        BY <3>3, SnapEmpty DEF View, StoreInv, Stopped, NoCache, IsRows
      <4> QED
        BY <3>1, <3>3, <4>1, <2>6 DEF Store!Start
    <3> QED
      BY <3>2, <3>3
  <2>10. CASE openDB
    BY <2>10 DEF openDB, cache, View, Store!Start
  <2> QED
    BY <2>1, <2>2, <2>3, <2>4, <2>5, <2>7, <2>8, <2>9, <2>10, QuietSteps
<1> QED
  BY <1>1, <1>2, StoreInvariant, PTL DEF Spec, ImplementsAtomicStore, Store!Spec

\* What a transaction that begins now reads changes only by a commit, and then
\* by all of its keys (commitTx, with and without a flush).
THEOREM CommitsAreAtomic == Spec => CommitAtomic
<1>1. StoreInv /\ StoreInv' /\ [Next]_vars =>
        [db = "up" /\ db' = "up" /\ View' # View => View' = TxView(WithCursor(tx))]_vars
  <2> SUFFICES ASSUME StoreInv, StoreInv', [Next]_vars, db = "up", db' = "up"
               PROVE  View' = View \/ View' = TxView(WithCursor(tx))
    OBVIOUS
  <2>1. CASE Quiet
    BY <2>1 DEF Quiet, View
  <2>2. CASE commitToCache
    BY <2>2, CacheMerge DEF commitToCache, disk, View, TxView
  <2>3. CASE flushTreaps
    <3>1. ldb' = View /\ UNCHANGED <<cachedKeys, cachedRemove>>
      BY <2>3, TreapsAreView DEF flushTreaps, cache, View
    <3> QED
      BY <3>1, SnapTwice DEF View
  <2>4. CASE flushClear
    <3>1. /\ UNCHANGED ldb /\ tx.st = "clear"
          /\ cachedKeys' = Empty /\ cachedRemove' = {}
      BY <2>4 DEF flushClear, disk
    <3>2. View' = ldb
      BY <3>1, SnapEmpty DEF View, StoreInv, IsRows
    <3> QED
      BY <3>1, <3>2 DEF StoreInv, Flushed
  <2>5. CASE commitDirect
    <3>1. /\ ldb' = Snap(ldb, tx.keys, tx.remove) /\ tx.st = "direct"
          /\ UNCHANGED <<cachedKeys, cachedRemove>>
      BY <2>5, TreapsAreView DEF commitDirect, cache
    <3>2. View = ldb /\ View' = ldb'
      BY <3>1, SnapEmpty DEF View, StoreInv, IsRows, Flushed, NoCache
    <3>3. /\ WithCursor(tx).keys = Merge(tx.keys, [x \in {WriteLoc} |-> At(wc)])
          /\ WithCursor(tx).remove = tx.remove \ {WriteLoc}
      BY DEF WithCursor, putKey, StoreInv, TxShape
    <3>4. /\ WriteLoc \in DOMAIN tx.keys
          /\ tx.keys[WriteLoc] = At(wc)
          /\ WriteLoc \notin tx.remove
      BY <3>1 DEF StoreInv, Cursored
    <3>5. Snap(ldb, tx.keys, tx.remove)
            = Snap(ldb, Merge(tx.keys, [x \in {WriteLoc} |-> At(wc)]), tx.remove \ {WriteLoc})
      BY <3>4 DEF Snap, Merge
    <3> QED
      BY <3>1, <3>2, <3>3, <3>5 DEF TxView
  <2>6. CASE Close \/ CloseFails \/ Kill \/ PowerFailure
    BY <2>6 DEF Close, CloseFails, Kill, PowerFailure, Forget
  <2>7. CASE openDB
    BY <2>7 DEF openDB
  <2> QED
    BY <2>1, <2>2, <2>3, <2>4, <2>5, <2>6, <2>7, QuietSteps
<1> QED
  BY <1>1, StoreInvariant, PTL DEF Spec, CommitAtomic

---------------------------------------------------------------------------
(* The write cursor.                                                       *)

Units == (Blocks \X Nat) \cup {Hole}
Cursor == [file : Nat, off : Nat, open : BOOLEAN]
LE(a, b) == a.file < b.file \/ (a.file = b.file /\ a.off <= b.off)
EndOf(rows, b) == [file |-> rows[b].file, off |-> rows[b].off + BlockLen[b]]
Behind(rows, c) == \A b \in BlocksOf(rows) : LE(EndOf(rows, b), c)

\* A block file: its units, of which a prefix is synced.
IsFile(f) ==
    /\ f = [data |-> f.data, synced |-> f.synced]
    /\ f.data \in Seq(Units)
    /\ f.synced \in 0..Len(f.data)

Filed ==
    /\ DOMAIN files \subseteq 0..MaxFileNum
    /\ \A n \in DOMAIN files : IsFile(files[n])

\* The least-number principle, over sets, and its mirror image.
LEMMA LeastNumber ==
    ASSUME NEW S \in SUBSET Nat, S # {}
    PROVE  \E m \in S : \A n \in S : m <= n
<1>1. \E x \in S : \A y \in S : ~ (<<y, x>> \in OpToRel(<, Nat))
  BY WFMin, NatLessThanWellFounded, Zenon
<1>2. PICK x \in S : \A y \in S : ~ (<<y, x>> \in OpToRel(<, Nat))
  BY <1>1, Zenon
<1>3. \A y \in S : ~(y < x)
  BY <1>2 DEF OpToRel
<1> QED
  BY <1>3

LEMMA GreatestNumber ==
    ASSUME NEW k \in Nat, NEW S \in SUBSET (0..k), S # {}
    PROVE  \E m \in S : \A n \in S : n <= m
<1> DEFINE R == {k - n : n \in S}
<1>1. R \in SUBSET Nat
  OBVIOUS
<1>2. R # {}
  <2>1. PICK n \in S : TRUE
    OBVIOUS
  <2>2. k - n \in R
    BY <2>1
  <2> QED
    BY <2>2
<1>3. PICK r \in R : \A q \in R : r <= q
  <2> HIDE DEF R
  <2> QED
    BY <1>1, <1>2, LeastNumber
<1>4. PICK m \in S : r = k - m
  OBVIOUS
<1>5. ASSUME NEW n \in S PROVE n <= m
  <2>1. r <= k - n
    BY <1>3
  <2> QED
    BY <2>1, <1>4
<1> QED
  BY <1>5

LEMMA Constants ==
    /\ WriteLoc \notin Blocks /\ MaxFileSize \in Nat /\ MaxFileNum \in Nat
    /\ \A b \in Blocks : BlockLen[b] \in Nat /\ BlockLen[b] > 0 /\ BlockLen[b] <= MaxFileSize
BY FfldbAssumption

\* Reading rows through other rows, adding and removing some: still rows.
LEMMA SnapRows ==
    ASSUME NEW D, NEW K, NEW R, AreRows(D), AreRows(K)
    PROVE  AreRows(Snap(D, K, R))
BY DEF AreRows, Snap

LEMMA MergeRows ==
    ASSUME NEW K, NEW R, AreRows(K), AreRows(R)
    PROVE  AreRows(Merge(K, R))
BY DEF AreRows, Merge

LEMMA MinusRows ==
    ASSUME NEW K, NEW R, AreRows(K)
    PROVE  AreRows(Minus(K, R))
BY DEF AreRows, Minus

\* scanBlockFiles finds the last file and its length.
LEMMA ScanLast ==
    ASSUME Filed
    PROVE  /\ scanBlockFiles \in Cursor /\ scanBlockFiles.file <= MaxFileNum
           /\ \A n \in DOMAIN files : n <= scanBlockFiles.file
           /\ DOMAIN files = {} => scanBlockFiles.file = 0 /\ scanBlockFiles.off = 0
           /\ DOMAIN files # {} => /\ scanBlockFiles.file \in DOMAIN files
                                   /\ scanBlockFiles.off = Len(files[scanBlockFiles.file].data)
<1>1. CASE DOMAIN files = {}
  BY <1>1, Constants DEF scanBlockFiles, Cursor
<1>2. CASE DOMAIN files # {}
  <2> DEFINE last == CHOOSE n \in DOMAIN files : \A m \in DOMAIN files : m <= n
  <2>1. \E n \in DOMAIN files : \A m \in DOMAIN files : m <= n
    BY <1>2, GreatestNumber, Constants DEF Filed
  <2>2. last \in DOMAIN files /\ \A m \in DOMAIN files : m <= last
    BY <2>1
  <2>3. scanBlockFiles = [file |-> last, off |-> Len(files[last].data), open |-> FALSE]
    BY <1>2 DEF scanBlockFiles
  <2> HIDE DEF last
  <2>4. files[last].data \in Seq(Units)
    BY <2>2 DEF Filed, IsFile
  <2> QED
    BY <2>2, <2>3, <2>4, <1>2, Constants DEF Filed, Cursor
<1> QED
  BY <1>1, <1>2

---------------------------------------------------------------------------
(* What the file operations do to a file.                                  *)

LEMMA EmptyFile == IsFile([data |-> <<>>, synced |-> 0])
BY DEF IsFile

LEMMA FileAtFile ==
    ASSUME Filed, NEW n
    PROVE  IsFile(FileAt(files, n))
BY EmptyFile DEF Filed, FileAt

LEMMA TruncateFile ==
    ASSUME NEW f, IsFile(f), NEW off \in Nat
    PROVE  /\ IsFile(Truncate(f, off)) /\ Len(Truncate(f, off).data) = off
           /\ \A i \in 1..off : Truncate(f, off).data[i] =
                IF i <= Len(f.data) THEN f.data[i] ELSE Hole
           /\ Truncate(f, off).synced = Smaller(f.synced, off)
<1> DEFINE d == [i \in 1..off |-> IF i <= Len(f.data) THEN f.data[i] ELSE Hole]
<1>1. d \in Seq(Units) /\ Len(d) = off
  BY DEF IsFile, Units
<1>2. Truncate(f, off) = [data |-> d, synced |-> Smaller(f.synced, off)]
  BY DEF Truncate
<1>3. \A i \in 1..off : d[i] = IF i <= Len(f.data) THEN f.data[i] ELSE Hole
  OBVIOUS
<1>4. Smaller(f.synced, off) \in 0..off
  BY DEF Smaller, IsFile
<1> HIDE DEF d
<1> QED
  BY <1>1, <1>2, <1>3, <1>4 DEF IsFile

LEMMA SyncFile ==
    ASSUME NEW f, IsFile(f)
    PROVE  IsFile(Sync(f)) /\ Sync(f).data = f.data /\ Sync(f).synced = Len(f.data)
<1>1. Sync(f) = [data |-> f.data, synced |-> Len(f.data)]
  BY DEF IsFile, Sync
<1> QED
  BY <1>1 DEF IsFile

LEMMA WriteFile ==
    ASSUME NEW f, IsFile(f), NEW off \in Nat, NEW u \in Seq(Units)
    PROVE  /\ IsFile(WriteAt(f, off, u))
           /\ Len(WriteAt(f, off, u).data) >= off + Len(u)
           /\ Len(WriteAt(f, off, u).data) >= Len(f.data)
           /\ \A i \in 1..Len(WriteAt(f, off, u).data) : WriteAt(f, off, u).data[i] =
                IF i > off /\ i <= off + Len(u) THEN u[i - off]
                ELSE IF i <= Len(f.data) THEN f.data[i] ELSE Hole
           /\ WriteAt(f, off, u).synced = Smaller(f.synced, off)
<1> DEFINE end == off + Len(u)
           top == IF Len(f.data) > end THEN Len(f.data) ELSE end
           d == [i \in 1..top |-> IF i > off /\ i <= end THEN u[i - off]
                                  ELSE IF i <= Len(f.data) THEN f.data[i] ELSE Hole]
<1>1. end \in Nat /\ top \in Nat /\ top >= end /\ top >= Len(f.data) /\ end >= off
  BY DEF IsFile
<1>2. d \in Seq(Units) /\ Len(d) = top
  <2>1. \A i \in 1..top : d[i] \in Units
    <3> SUFFICES ASSUME NEW i \in 1..top PROVE d[i] \in Units
      OBVIOUS
    <3>1. CASE i > off /\ i <= end
      <4>1. i - off \in 1..Len(u)
        BY <3>1, <1>1
      <4>2. u[i - off] \in Units
        BY <4>1
      <4> QED
        BY <3>1, <4>2
    <3>2. CASE ~(i > off /\ i <= end)
      BY <3>2, <1>1 DEF IsFile, Units
    <3> QED
      BY <3>1, <3>2
  <2> HIDE DEF top, end
  <2> QED
    BY <2>1, <1>1
<1>3. WriteAt(f, off, u) = [data |-> d, synced |-> Smaller(f.synced, off)]
  BY DEF WriteAt
<1>4. \A i \in 1..top : d[i] = IF i > off /\ i <= end THEN u[i - off]
                               ELSE IF i <= Len(f.data) THEN f.data[i] ELSE Hole
  OBVIOUS
<1>5. Smaller(f.synced, off) \in 0..top
  <2> HIDE DEF top, end
  <2> QED
    BY <1>1 DEF Smaller, IsFile
<1> HIDE DEF d, top
<1> QED
  BY <1>1, <1>2, <1>3, <1>4, <1>5 DEF IsFile

\* A record is a sequence of units, and so is a part of it.
LEMMA RecordUnits ==
    ASSUME NEW b \in Blocks
    PROVE  /\ Record(b) \in Seq(Units) /\ Len(Record(b)) = BlockLen[b]
           /\ \A i \in 1..BlockLen[b] : Record(b)[i] = <<b, i>>
BY Constants DEF Record, Units

LEMMA PartOfRecord ==
    ASSUME NEW b \in Blocks, NEW n \in 0..BlockLen[b]
    PROVE  /\ SubSeq(Record(b), 1, n) \in Seq(Units) /\ Len(SubSeq(Record(b), 1, n)) = n
BY RecordUnits, Constants

\* A file of the map, with another one put in.
LEMMA PutFile ==
    ASSUME NEW fs, NEW n, NEW f
    PROVE  /\ DOMAIN Put(fs, n, f) = DOMAIN fs \cup {n}
           /\ Put(fs, n, f)[n] = f
           /\ \A m \in DOMAIN fs \ {n} : Put(fs, n, f)[m] = fs[m]
BY DEF Put, Merge

\* What is left of a file after a power failure: at most the file, and a unit
\* of it is the one that was there or zeros; a synced one is there.
LEMMA SurvivedFile ==
    ASSUME Filed, NEW n \in DOMAIN files, NEW fate
    PROVE  LET f == files[n]
               g == Survived(n, fate)
           IN  /\ IsFile(g) /\ Len(g.data) <= Len(f.data) /\ f.synced <= Len(g.data)
               /\ \A i \in 1..Len(g.data) : g.data[i] \in {f.data[i], Hole}
               /\ \A i \in 1..f.synced : g.data[i] = f.data[i]
               /\ g.synced = Len(g.data)
<1>1. PICK d0 \in Seq(Units), s \in Nat :
        s <= Len(d0) /\ files[n] = [data |-> d0, synced |-> s]
  BY DEF Filed, IsFile
<1>2. PICK L \in Nat : L = Len(d0) /\ s \in 0..L
  BY <1>1
<1> DEFINE cut == {i \in 1..L : \E j \in (s + 1)..i : fate[<<n, j>>] = "cut"}
           len == L - Cardinality(cut)
           d == [i \in 1..len |-> IF i > s /\ fate[<<n, i>>] = "zero" THEN Hole ELSE d0[i]]
<1>3. Survived(n, fate) = [data |-> d, synced |-> len]
  BY <1>1, <1>2 DEF Survived
<1>4. cut \in SUBSET ((s + 1)..L)
  <2> SUFFICES ASSUME NEW i \in cut PROVE i \in (s + 1)..L
    OBVIOUS
  <2>1. i \in 1..L /\ \E j \in (s + 1)..i : TRUE
    OBVIOUS
  <2>2. PICK j \in (s + 1)..i : TRUE
    BY <2>1
  <2> HIDE DEF cut
  <2> QED
    BY <2>1, <2>2
<1>5. IsFiniteSet((s + 1)..L) /\ Cardinality((s + 1)..L) = L - s
  <2>1. s + 1 \in Int /\ L \in Int /\ s \in Int /\ s <= L
    BY <1>2
  <2>2. /\ IsFiniteSet((s + 1)..L)
        /\ Cardinality((s + 1)..L) = IF s + 1 > L THEN 0 ELSE L - (s + 1) + 1
    BY <2>1, FS_Interval
  <2> QED
    BY <2>1, <2>2
<1>6. IsFiniteSet(cut) /\ Cardinality(cut) <= L - s
  <2> HIDE DEF cut
  <2> QED
    BY ZenonT(30), <1>4, <1>5, FS_Subset
<1>7. Cardinality(cut) \in Nat
  BY <1>6, FS_CardinalityType
<1>8. len \in Nat /\ len <= L /\ s <= len
  <2> HIDE DEF cut
  <2> QED
    BY <1>2, <1>6, <1>7
<1> HIDE DEF cut, len
<1>9. \A i \in 1..len : d0[i] \in Units /\ Hole \in Units
  BY <1>2, <1>8 DEF Units
<1>10. d \in Seq(Units) /\ Len(d) = len
  BY <1>8, <1>9
<1>11. \A i \in 1..len : d[i] \in {d0[i], Hole}
  OBVIOUS
<1>12. \A i \in 1..s : d[i] = d0[i]
  BY <1>2, <1>8
<1> HIDE DEF d
<1>13. IsFile(Survived(n, fate)) /\ Survived(n, fate).data = d /\ Survived(n, fate).synced = len
  BY <1>3, <1>8, <1>10 DEF IsFile
<1> QED
  BY <1>1, <1>2, <1>8, <1>10, <1>11, <1>12, <1>13

\* A rollback deletes only files after the location, and of the others it
\* touches the file of the location only, which it may cut there and sync.
LEMMA RollBackEffect ==
    ASSUME Filed, NEW c \in Cursor, NEW to, to \in Locs, to.file <= MaxFileNum, RollBack(c, to)
    PROVE  /\ Filed'
           /\ wc' \in Cursor /\ At(wc') = to
           /\ \A n \in DOMAIN files : n < to.file => n \in DOMAIN files'
           /\ \A n \in DOMAIN files' : n # to.file => n \in DOMAIN files /\ files'[n] = files[n]
           /\ to.file \in DOMAIN files => to.file \in DOMAIN files'
           /\ to.file \in DOMAIN files' =>
                LET f == FileAt(files, to.file)
                IN  files'[to.file] \in {f, Truncate(f, to.off), Sync(Truncate(f, to.off))}
           /\ At(c) = to => files' = files /\ wc'.open = c.open
           /\ wc'.open \/ ~(c.open /\ c.file = to.file)
           /\ stray' = (stray \/ \E n \in DOMAIN files' : n > to.file)
           /\ left' = {n \in left \cap DOMAIN files' :
                          files'[n].synced < Len(files'[n].data)}
<1>1. PICK r \in handleRollback(c, to) :
        /\ files' = r.files
        /\ wc' = [file |-> to.file, off |-> to.off, open |-> r.open]
        /\ left' = {n \in left \cap DOMAIN r.files :
                       r.files[n].synced < Len(r.files[n].data)}
        /\ stray' = (stray \/ \E n \in DOMAIN r.files : n > to.file)
  BY DEF RollBack
<1> DEFINE Newer == (to.file + 1)..c.file
           Kept(n) == Minus(files, {i \in Newer : i > n})
           f == FileAt(files, to.file)
           ends(g) == Put(Kept(to.file), to.file, g)
<1>0. to.file \in Nat /\ to.off \in Nat /\ c.file \in Nat /\ c.open \in BOOLEAN
  BY DEF Locs, Cursor
<1>2. \/ At(c) = to /\ r.files = files /\ r.open = c.open
      \/ /\ At(c) # to
         /\ \E n \in Newer \cup {to.file} : r.files = Kept(n)
         /\ r.open = (c.open /\ c.file = to.file)
      \/ /\ At(c) # to /\ r.open = TRUE
         /\ r.files \in {ends(f), ends(Truncate(f, to.off)),
                                 ends(Sync(Truncate(f, to.off)))}
  <2> DEFINE Missing == {n \in Newer : n \notin DOMAIN files}
             Reached == {n \in Newer \cup {to.file} : \A m \in Missing : n >= m}
             out(fs, o, k) == [files |-> fs, open |-> o, fault |-> k]
             stops(k, N) == {out(Kept(n), c.open /\ c.file = to.file, k) : n \in N}
  <2>1. CASE At(c) = to
    <3>1. r = out(files, c.open, 0)
      BY <2>1, <1>1 DEF handleRollback
    <3> QED
      BY <2>1, <3>1
  <2>2. CASE At(c) # to
    <3>1. r \in stops(1, Reached \ Missing) \cup
               (IF Missing # {} THEN stops(0, Reached \cap Missing)
                ELSE {out(ends(f), TRUE, 1), out(ends(Truncate(f, to.off)), TRUE, 1),
                      out(ends(Sync(Truncate(f, to.off))), TRUE, 0)})
      BY <2>2, <1>1 DEF handleRollback
    <3> HIDE DEF Kept, ends, f, Missing
    <3>2. \/ \E k \in {0, 1} : r \in stops(k, Newer \cup {to.file})
          \/ r \in {out(ends(f), TRUE, 1), out(ends(Truncate(f, to.off)), TRUE, 1),
                    out(ends(Sync(Truncate(f, to.off))), TRUE, 0)}
      BY <3>1
    <3>3. ASSUME NEW k \in {0, 1}, r \in stops(k, Newer \cup {to.file})
          PROVE  \E n \in Newer \cup {to.file} :
                   r.files = Kept(n) /\ r.open = (c.open /\ c.file = to.file)
      BY <3>3
    <3>4. ASSUME r \in {out(ends(f), TRUE, 1), out(ends(Truncate(f, to.off)), TRUE, 1),
                       out(ends(Sync(Truncate(f, to.off))), TRUE, 0)}
          PROVE  /\ r.open = TRUE
                 /\ r.files \in {ends(f), ends(Truncate(f, to.off)),
                                 ends(Sync(Truncate(f, to.off)))}
      BY <3>4
    <3> QED
      BY <2>2, <3>2, <3>3, <3>4
  <2> QED
    BY <2>1, <2>2
<1>3. IsFile(f) /\ IsFile(Truncate(f, to.off)) /\ IsFile(Sync(Truncate(f, to.off)))
  BY <1>0, FileAtFile, TruncateFile, SyncFile
<1>4. \A n \in Newer \cup {to.file} :
        /\ DOMAIN Kept(n) \subseteq DOMAIN files
        /\ \A m \in DOMAIN files : m <= to.file => m \in DOMAIN Kept(n)
        /\ \A m \in DOMAIN Kept(n) : Kept(n)[m] = files[m]
  BY <1>0 DEF Minus, Filed
<1>5. to.file \in DOMAIN files => f = files[to.file]
  BY DEF FileAt
<1>6. wc' \in Cursor /\ At(wc') = to /\ wc'.open = r.open
  <2>1. r.open \in BOOLEAN
    BY <1>0, <1>2
  <2>2. to = [file |-> to.file, off |-> to.off]
    BY DEF Locs
  <2> QED
    BY <1>0, <1>1, <2>1, <2>2 DEF Cursor, At
<1> HIDE DEF Kept, f
<1>7. CASE At(c) = to /\ r.files = files /\ r.open = c.open
  <2>1. files' = files
    BY <1>1, <1>7
  <2>2. Filed'
    BY <2>1 DEF Filed
  <2> QED
    BY <1>0, <1>1, <1>5, <1>6, <1>7, <2>1, <2>2 DEF f
<1>8. ASSUME At(c) # to, NEW n \in Newer \cup {to.file}, r.files = Kept(n),
             r.open = (c.open /\ c.file = to.file)
      PROVE  /\ Filed'
             /\ \A m \in DOMAIN files : m <= to.file => m \in DOMAIN files'
             /\ \A m \in DOMAIN files' : m \in DOMAIN files /\ files'[m] = files[m]
             /\ wc'.open \/ ~(c.open /\ c.file = to.file)
  <2>1. /\ \A m \in DOMAIN files : m <= to.file => m \in DOMAIN files'
        /\ \A m \in DOMAIN files' : m \in DOMAIN files /\ files'[m] = files[m]
    BY <1>1, <1>4, <1>8
  <2>2. Filed'
    BY <2>1 DEF Filed
  <2> QED
    BY <2>1, <2>2, <1>6, <1>8
<1>9. ASSUME At(c) # to, r.open = TRUE,
             NEW g \in {f, Truncate(f, to.off), Sync(Truncate(f, to.off))}, r.files = ends(g)
      PROVE  /\ Filed'
             /\ \A m \in DOMAIN files : m <= to.file => m \in DOMAIN files'
             /\ \A m \in DOMAIN files' : m # to.file => m \in DOMAIN files /\ files'[m] = files[m]
             /\ to.file \in DOMAIN files' /\ files'[to.file] = g
             /\ wc'.open
  <2>1. files' = Put(Kept(to.file), to.file, g)
    BY <1>1, <1>9
  <2>2. /\ DOMAIN files' = DOMAIN Kept(to.file) \cup {to.file}
        /\ files'[to.file] = g
        /\ \A m \in DOMAIN Kept(to.file) \ {to.file} : files'[m] = Kept(to.file)[m]
    BY <2>1 DEF Put, Merge
  <2>3. /\ \A m \in DOMAIN files : m <= to.file => m \in DOMAIN files'
        /\ \A m \in DOMAIN files' : m # to.file => m \in DOMAIN files /\ files'[m] = files[m]
    BY <2>2, <1>4
  <2>4. IsFile(g)
    BY <1>3
  <2>5. Filed'
    BY <2>2, <2>3, <2>4, <1>0, Constants DEF Filed
  <2> QED
    BY <2>2, <2>3, <2>5, <1>6, <1>9
<1>10. to.file <= to.file /\ \A n \in DOMAIN files : n < to.file => n <= to.file
  BY <1>0 DEF Filed
<1>11. \/ At(c) = to /\ r.files = files /\ r.open = c.open
       \/ At(c) # to /\ \E n \in Newer \cup {to.file} :
                           r.files = Kept(n) /\ r.open = (c.open /\ c.file = to.file)
       \/ At(c) # to /\ r.open = TRUE /\
            \E g \in {f, Truncate(f, to.off), Sync(Truncate(f, to.off))} : r.files = ends(g)
  BY <1>2
<1> HIDE DEF ends, Newer
<1>12. ASSUME At(c) # to, NEW n \in Newer \cup {to.file}, r.files = Kept(n),
             r.open = (c.open /\ c.file = to.file)
      PROVE  /\ to.file \in DOMAIN files => to.file \in DOMAIN files'
             /\ to.file \in DOMAIN files' => files'[to.file] = f
  <2>1. to.file \in DOMAIN files' => to.file \in DOMAIN files /\ files'[to.file] = files[to.file]
    BY <1>8, <1>12
  <2>2. to.file \in DOMAIN files => to.file \in DOMAIN files'
    BY <1>8, <1>12, <1>10
  <2> QED
    BY <2>1, <2>2, <1>5
<1> QED
  <2>1. CASE At(c) = to /\ r.files = files /\ r.open = c.open
    BY <2>1, <1>7
  <2>2. ASSUME At(c) # to, NEW n \in Newer \cup {to.file}, r.files = Kept(n),
             r.open = (c.open /\ c.file = to.file)
        PROVE  /\ Filed'
               /\ \A m \in DOMAIN files : m < to.file => m \in DOMAIN files'
               /\ \A m \in DOMAIN files' : m # to.file => m \in DOMAIN files /\ files'[m] = files[m]
               /\ to.file \in DOMAIN files => to.file \in DOMAIN files'
               /\ to.file \in DOMAIN files' => files'[to.file] = f
               /\ wc'.open \/ ~(c.open /\ c.file = to.file)
    BY <2>2, <1>8, <1>10, <1>12
  <2>3. ASSUME At(c) # to, r.open = TRUE,
             NEW g \in {f, Truncate(f, to.off), Sync(Truncate(f, to.off))}, r.files = ends(g)
        PROVE  /\ Filed'
               /\ \A m \in DOMAIN files : m < to.file => m \in DOMAIN files'
               /\ \A m \in DOMAIN files' : m # to.file => m \in DOMAIN files /\ files'[m] = files[m]
               /\ to.file \in DOMAIN files => to.file \in DOMAIN files'
               /\ to.file \in DOMAIN files' =>
                    files'[to.file] \in {f, Truncate(f, to.off), Sync(Truncate(f, to.off))}
               /\ wc'.open \/ ~(c.open /\ c.file = to.file)
    BY <2>3, <1>9, <1>10
  <2> QED
    BY <2>1, <2>2, <2>3, <1>11, <1>6, <1>1 DEF f

---------------------------------------------------------------------------
(* The invariant of the write cursor.  What is committed ends at or before *)
(* the cursor that is committed with it, which is at or before the cursor   *)
(* in memory and, while blocks are being written, before the position the  *)
(* transaction rolls back to (Cursors).  No file is newer than the one     *)
(* being written unless a rollback left it there, so that pruning, which   *)
(* spares the newest, spares this one (Deleting).                          *)

Typed ==
    /\ wc \in Cursor /\ stray \in BOOLEAN /\ db \in {"up", "down", "refused"}
    /\ AreRows(ldb) /\ AreRows(cachedKeys) /\ AreRows(tx.keys) /\ AreRows(reader.rows)
    /\ WriteLoc \in DOMAIN ldb /\ cachedRemove \subseteq Blocks /\ tx.remove \subseteq Blocks
    /\ tx.old \in Locs /\ tx.pend \in Seq(Blocks) /\ tx.del \in Seq(Nat)

Room ==
    /\ wc.file <= MaxFileNum /\ ldb[WriteLoc].file <= MaxFileNum /\ tx.old.file <= MaxFileNum
    /\ tx.st # "undo" => wc.file + Len(tx.pend) <= MaxFileNum

Cursors ==
    /\ Behind(ldb, ldb[WriteLoc])
    /\ db = "up" => Behind(View, View[WriteLoc]) /\ LE(View[WriteLoc], wc)
    /\ Behind(tx.keys, wc)
    /\ tx.st \in {"write", "undo"} => LE(View[WriteLoc], tx.old)

Deleting ==
    /\ tx.st \notin {"open", "delete"} => tx.del = <<>>
    /\ stray \/ \A i \in DOMAIN tx.del : tx.del[i] < wc.file
    /\ db = "up" /\ ~ stray => \A n \in DOMAIN files : n <= wc.file

CursorParts == Filed /\ Typed /\ Room /\ Cursors /\ Deleting
Closed == tx.st = "idle" => tx = Idle
CursorInv == StoreInv /\ Closed /\ CursorParts

LEMMA IdleRows ==
    /\ AreRows(Empty) /\ BlocksOf(Empty) = {} /\ DOMAIN Empty = {}
    /\ Idle.keys = Empty /\ Idle.remove = {} /\ Idle.st = "idle" /\ Idle.pend = <<>>
    /\ Idle.del = <<>> /\ Idle.old \in Locs /\ Idle.old.file = 0
    /\ Idle.pend \in Seq(Blocks) /\ Len(Idle.pend) = 0 /\ Idle.del \in Seq(Nat)
    /\ DOMAIN Idle.del = {}
<1>1. BlocksOf(Empty) = {} /\ DOMAIN Empty = {}
  BY DEF Empty, BlocksOf
<1>2. AreRows(Empty)
  BY <1>1 DEF AreRows
<1> QED
  BY <1>1, <1>2 DEF Idle, Locs

\* The committed state is made of rows and has a write cursor.
LEMMA ViewRows ==
    ASSUME Typed
    PROVE  AreRows(View) /\ WriteLoc \in DOMAIN View /\ View[WriteLoc] \in Locs
<1>1. AreRows(View)
  BY SnapRows DEF Typed, View
<1>2. WriteLoc \in DOMAIN View
  BY Constants DEF Typed, View, Snap
<1> QED
  BY <1>1, <1>2 DEF AreRows

LEMMA NotAfter ==
    ASSUME NEW a, NEW b, NEW c, a.file \in Nat, a.off \in Nat, b.file \in Nat, b.off \in Nat,
           c.file \in Nat, c.off \in Nat
    PROVE  /\ LE(a, a) /\ (LE(a, b) /\ LE(b, c) => LE(a, c))
           /\ ~Less(b, a) <=> LE(a, b)
BY DEF LE, Less

\* The end of a record is a location.
LEMMA EndIsLoc ==
    ASSUME NEW rows, AreRows(rows), NEW b \in BlocksOf(rows)
    PROVE  /\ b \in Blocks /\ rows[b] \in Locs
           /\ EndOf(rows, b).file = rows[b].file /\ EndOf(rows, b).off = rows[b].off + BlockLen[b]
           /\ EndOf(rows, b).file \in Nat /\ EndOf(rows, b).off \in Nat
<1>1. b \in Blocks /\ rows[b] \in Locs
  BY DEF AreRows, BlocksOf
<1>2. BlockLen[b] \in Nat
  BY <1>1, Constants
<1> QED
  BY <1>1, <1>2 DEF EndOf, Locs

LEMMA BehindFurther ==
    ASSUME NEW rows, AreRows(rows), NEW c, NEW d, Behind(rows, c), LE(c, d),
           c.file \in Nat, c.off \in Nat, d.file \in Nat, d.off \in Nat
    PROVE  Behind(rows, d)
<1> SUFFICES ASSUME NEW b \in BlocksOf(rows) PROVE LE(EndOf(rows, b), d)
  BY DEF Behind
<1>1. EndOf(rows, b).file \in Nat /\ EndOf(rows, b).off \in Nat
  BY EndIsLoc
<1>2. LE(EndOf(rows, b), c)
  BY DEF Behind
<1> HIDE DEF EndOf
<1> QED
  BY <1>1, <1>2, NotAfter

\* What is read through rows that are behind is behind.
LEMMA BehindSnap ==
    ASSUME NEW D, NEW K, NEW R, NEW c, Behind(D, c), Behind(K, c)
    PROVE  Behind(Snap(D, K, R), c)
BY DEF Behind, Snap, BlocksOf, EndOf

LEMMA BehindMinus ==
    ASSUME NEW K, NEW R, NEW c, Behind(K, c)
    PROVE  Behind(Minus(K, R), c)
BY DEF Behind, Minus, BlocksOf, EndOf

LEMMA BehindSame ==
    ASSUME NEW rows, NEW c, NEW d, Behind(rows, c), c.file = d.file, c.off = d.off
    PROVE  Behind(rows, d)
BY DEF Behind, LE

\* syncBlocks changes no unit, and every file it does not sync stays.
LEMMA SyncBlocks ==
    ASSUME Filed
    PROVE  /\ DOMAIN syncBlocks = DOMAIN files
           /\ \A n \in DOMAIN files : /\ IsFile(syncBlocks[n]) /\ syncBlocks[n].data = files[n].data
                                      /\ syncBlocks[n].synced >= files[n].synced
           /\ wc.open /\ wc.file \in DOMAIN files =>
                syncBlocks[wc.file].synced = Len(files[wc.file].data)
<1>1. CASE wc.open /\ wc.file \in DOMAIN files
  <2>1. syncBlocks = Put(files, wc.file, Sync(files[wc.file]))
    BY <1>1 DEF syncBlocks
  <2>2. /\ DOMAIN syncBlocks = DOMAIN files \cup {wc.file}
        /\ syncBlocks[wc.file] = Sync(files[wc.file])
        /\ \A m \in DOMAIN files \ {wc.file} : syncBlocks[m] = files[m]
    BY <2>1 DEF Put, Merge
  <2>3. \A n \in DOMAIN files : IsFile(files[n]) /\ files[n].synced <= Len(files[n].data)
          /\ files[n].synced >= files[n].synced
    BY DEF Filed, IsFile
  <2>4. /\ IsFile(Sync(files[wc.file])) /\ Sync(files[wc.file]).data = files[wc.file].data
        /\ Sync(files[wc.file]).synced = Len(files[wc.file].data)
    BY <1>1, <2>3, SyncFile
  <2>5. Sync(files[wc.file]).synced >= files[wc.file].synced
    BY <2>3, <2>4, <1>1 DEF IsFile
  <2> QED
    BY <1>1, <2>2, <2>3, <2>4, <2>5
<1>2. CASE ~(wc.open /\ wc.file \in DOMAIN files)
  BY <1>2 DEF syncBlocks, Filed, IsFile
<1> QED
  BY <1>1, <1>2

LEMMA SyncBlocksFiled ==
    ASSUME Filed, files' = syncBlocks
    PROVE  Filed' /\ DOMAIN files' = DOMAIN files
BY SyncBlocks DEF Filed

LEMMA CursorInit == Init => CursorParts
<1> SUFFICES ASSUME Init PROVE CursorParts
  OBVIOUS
<1> USE DEF Init
<1>1. Filed
  BY IdleRows DEF Filed
<1>2. AreRows(ldb) /\ BlocksOf(ldb) = {} /\ ldb[WriteLoc] = [file |-> 0, off |-> 0]
  BY DEF AreRows, BlocksOf, Locs
<1>3. Typed
  BY <1>2, IdleRows, Zenon DEF Typed, Cursor, NoReader
<1>4. Room
  BY <1>2, IdleRows, Constants DEF Room
<1>5. View = ldb
  BY SnapEmpty DEF View
<1>6. Cursors
  BY <1>2, <1>5, IdleRows DEF Cursors, Behind, LE
<1>7. Deleting
  BY IdleRows DEF Deleting
<1> QED
  BY <1>1, <1>3, <1>4, <1>6, <1>7 DEF CursorParts

\* A step of the transaction or of the reader that touches nothing else.
LEMMA TxOnly ==
    ASSUME CursorParts, AreRows(reader'.rows),
           UNCHANGED <<files, wc, ldb, cachedKeys, cachedRemove, db, stray>>,
           AreRows(tx'.keys), tx'.remove \subseteq Blocks, Behind(tx'.keys, wc),
           tx'.old \in Locs, tx'.pend \in Seq(Blocks), tx'.del \in Seq(Nat),
           tx'.old.file <= MaxFileNum,
           tx'.st # "undo" => wc.file + Len(tx'.pend) <= MaxFileNum,
           tx'.st \in {"write", "undo"} => LE(View[WriteLoc], tx'.old),
           tx'.st \notin {"open", "delete"} => tx'.del = <<>>,
           stray \/ \A i \in DOMAIN tx'.del : tx'.del[i] < wc.file
    PROVE  CursorParts'
<1> USE DEF CursorParts
<1>1. View' = View
  BY DEF View
<1>2. Filed'
  BY DEF Filed
<1>3. Typed'
  BY DEF Typed, AreRows
<1>4. Room'
  BY DEF Room
<1>5. Cursors'
  BY <1>1 DEF Cursors, Behind, LE, BlocksOf, EndOf
<1>6. Deleting'
  BY DEF Deleting
<1> QED
  BY <1>2, <1>3, <1>4, <1>5, <1>6

\* The transaction is closed and nothing else changes.
LEMMA TxClosed ==
    ASSUME CursorParts, tx' = Idle,
           UNCHANGED <<files, wc, ldb, cachedKeys, cachedRemove, reader, db, stray>>
    PROVE  CursorParts'
<1>1. Behind(Empty, wc)
  BY IdleRows DEF Behind
<1>2. wc.file + Len(Idle.pend) <= MaxFileNum /\ Idle.old.file <= MaxFileNum
  BY IdleRows, Constants DEF CursorParts, Typed, Room, Cursor
<1>3. AreRows(reader'.rows)
  BY DEF CursorParts, Typed
<1>4. /\ tx'.keys = Empty /\ tx'.remove = {} /\ tx'.st = "idle"
      /\ tx'.del = <<>> /\ tx'.old \in Locs /\ AreRows(tx'.keys)
      /\ tx'.pend \in Seq(Blocks) /\ tx'.del \in Seq(Nat) /\ DOMAIN tx'.del = {}
      /\ tx'.pend = Idle.pend /\ tx'.old = Idle.old
  BY IdleRows
<1>5. tx'.remove \subseteq Blocks /\ Behind(tx'.keys, wc)
  BY <1>1, <1>4
<1>6. /\ tx'.old.file <= MaxFileNum
      /\ tx'.st # "undo" => wc.file + Len(tx'.pend) <= MaxFileNum
      /\ tx'.st \in {"write", "undo"} => LE(View[WriteLoc], tx'.old)
      /\ tx'.st \notin {"open", "delete"} => tx'.del = <<>>
      /\ \A i \in DOMAIN tx'.del : tx'.del[i] < wc.file
  BY <1>2, <1>4
<1> QED
  BY <1>3, <1>4, <1>5, <1>6, TxOnly

\* What pruning has in mind is older than the last file.
LEMMA DoomedOlder ==
    ASSUME Filed, DOMAIN files # {}
    PROVE  LET del == [i \in 1..Cardinality(Doomed) |-> FirstFile + i - 1]
           IN  /\ del \in Seq(Nat) /\ FirstFile \in DOMAIN files
               /\ \A i \in DOMAIN del : del[i] < scanBlockFiles.file
<1>1. FirstFile \in DOMAIN files /\ \A n \in DOMAIN files : FirstFile <= n
  <2>1. DOMAIN files \in SUBSET Nat
    BY Constants DEF Filed
  <2>2. \E n \in DOMAIN files : \A m \in DOMAIN files : n <= m
    BY <2>1, LeastNumber
  <2> QED
    BY <2>2 DEF FirstFile
<1>2. PICK a \in Nat : a = FirstFile
  BY <1>1, Constants DEF Filed
<1>3. PICK z \in Nat : z = scanBlockFiles.file /\ a <= z
  BY <1>1, <1>2, ScanLast DEF Cursor
<1>4. Doomed \in SUBSET (a..(z - 1))
  BY <1>2, <1>3 DEF Doomed
<1>5. IsFiniteSet(a..(z - 1)) /\ Cardinality(a..(z - 1)) = z - a
  <2>1. /\ IsFiniteSet(a..(z - 1))
        /\ Cardinality(a..(z - 1)) = IF a > z - 1 THEN 0 ELSE (z - 1) - a + 1
    <3>1. a \in Int /\ z - 1 \in Int
      OBVIOUS
    <3> QED
      BY <3>1, FS_Interval
  <2> QED
    BY <2>1, <1>3
<1>6. IsFiniteSet(Doomed) /\ Cardinality(Doomed) <= z - a
  BY <1>4, <1>5, FS_Subset
<1>7. PICK k \in Nat : k = Cardinality(Doomed) /\ k <= z - a
  BY <1>6, FS_CardinalityType
<1>8. [i \in 1..k |-> a + i - 1] \in Seq(Nat)
  <2>1. \A i \in 1..k : a + i - 1 \in Nat
    OBVIOUS
  <2> QED
    BY <2>1
<1>9. \A i \in 1..k : a + i - 1 < z
  BY <1>3, <1>7
<1> QED
  BY <1>1, <1>2, <1>3, <1>7, <1>8, <1>9

LEMMA BeginCursor ==
    ASSUME CursorParts, TxShape, Begin
    PROVE  CursorParts'
<1>1. /\ tx' = [Idle EXCEPT !.st = "open"]
      /\ UNCHANGED <<files, wc, ldb, cachedKeys, cachedRemove, reader, db, stray>>
  BY DEF Begin, disk, cache, hist
<1>2. /\ tx'.keys = Empty /\ tx'.remove = {} /\ tx'.st = "open" /\ tx'.del = <<>>
      /\ tx'.old \in Locs /\ AreRows(tx'.keys) /\ tx'.old.file = 0
      /\ tx'.pend \in Seq(Blocks) /\ tx'.del \in Seq(Nat) /\ DOMAIN tx'.del = {}
      /\ Len(tx'.pend) = 0
  BY <1>1, IdleRows DEF Idle
<1>3. tx'.remove \subseteq Blocks /\ Behind(tx'.keys, wc) /\ AreRows(reader'.rows)
  BY <1>1, <1>2, IdleRows DEF Behind, CursorParts, Typed
<1>4. wc.file + Len(tx'.pend) <= MaxFileNum /\ tx'.old.file <= MaxFileNum
  BY <1>2, Constants DEF CursorParts, Typed, Room, Cursor
<1>5. /\ tx'.st # "undo" => wc.file + Len(tx'.pend) <= MaxFileNum
      /\ tx'.st \in {"write", "undo"} => LE(View[WriteLoc], tx'.old)
      /\ tx'.st \notin {"open", "delete"} => tx'.del = <<>>
      /\ \A i \in DOMAIN tx'.del : tx'.del[i] < wc.file
  BY <1>2, <1>4
<1> QED
  BY <1>1, <1>2, <1>3, <1>4, <1>5, TxOnly

\* A step inside the open transaction: its rows may only go away.
LEMMA InTxCursor ==
    ASSUME CursorParts, TxShape, NEW t, InTx(t),
           DOMAIN t = DOMAIN tx, t.st \in {"open", "delete"}, t.old = tx.old,
           AreRows(t.keys), Behind(t.keys, wc), t.remove \subseteq Blocks,
           t.pend \in Seq(Blocks), wc.file + Len(t.pend) <= MaxFileNum,
           t.del \in Seq(Nat), stray \/ \A i \in DOMAIN t.del : t.del[i] < wc.file
    PROVE  CursorParts'
<1>1. /\ tx' = t
      /\ UNCHANGED <<files, wc, ldb, cachedKeys, cachedRemove, reader, db, stray>>
  BY DEF InTx, disk, cache, hist
<1>2. AreRows(reader'.rows) /\ tx'.old \in Locs /\ tx'.old.file <= MaxFileNum
  BY <1>1 DEF CursorParts, Typed, Room
<1> QED
  BY <1>1, <1>2, TxOnly

LEMMA StoreCursor ==
    ASSUME CursorParts, TxShape, NEW b \in Blocks, StoreBlock(b)
    PROVE  CursorParts'
<1> DEFINE t == [tx EXCEPT !.pend = Append(@, b)]
<1>1. InTx(t) /\ tx.st = "open" /\ wc.file + Len(tx.pend) < MaxFileNum
  BY DEF StoreBlock, InTx
<1>2. /\ DOMAIN t = DOMAIN tx /\ t.st = tx.st /\ t.old = tx.old /\ t.keys = tx.keys
      /\ t.remove = tx.remove /\ t.del = tx.del /\ t.pend = Append(tx.pend, b)
  BY DEF TxShape
<1>3. tx.pend \in Seq(Blocks) /\ wc.file \in Nat
  BY DEF CursorParts, Typed, Cursor
<1>4. t.pend \in Seq(Blocks) /\ Len(t.pend) = Len(tx.pend) + 1
  BY <1>2, <1>3
<1>5. wc.file + Len(t.pend) <= MaxFileNum
  BY <1>1, <1>3, <1>4, Constants
<1>6. /\ AreRows(tx.keys) /\ Behind(tx.keys, wc) /\ tx.remove \subseteq Blocks
      /\ tx.del \in Seq(Nat)
      /\ stray \/ \A i \in DOMAIN tx.del : tx.del[i] < wc.file
  BY DEF CursorParts, Typed, Cursors, Deleting
<1> HIDE DEF t
<1> QED
  BY <1>1, <1>2, <1>4, <1>5, <1>6, InTxCursor

LEMMA DeleteCursor ==
    ASSUME CursorParts, TxShape, NEW S \in SUBSET Blocks, tx.st = "open",
           NEW del, del \in Seq(Nat), stray \/ \A i \in DOMAIN del : del[i] < wc.file,
           InTx([deleteKeys(tx, S) EXCEPT !.del = del])
    PROVE  CursorParts'
<1> DEFINE t == [deleteKeys(tx, S) EXCEPT !.del = del]
<1>1. /\ DOMAIN t = DOMAIN tx /\ t.st = tx.st /\ t.old = tx.old
      /\ t.keys = Minus(tx.keys, S) /\ t.remove = tx.remove \cup S
      /\ t.del = del /\ t.pend = tx.pend
  BY DEF TxShape, deleteKeys
<1>2. /\ AreRows(tx.keys) /\ Behind(tx.keys, wc) /\ tx.remove \subseteq Blocks
      /\ tx.pend \in Seq(Blocks) /\ wc.file + Len(tx.pend) <= MaxFileNum
  BY DEF CursorParts, Typed, Cursors, Deleting, Room
<1>3. AreRows(Minus(tx.keys, S)) /\ Behind(Minus(tx.keys, S), wc)
  BY <1>2, MinusRows, BehindMinus
<1> HIDE DEF t
<1>4. InTx(t)
  BY DEF t
<1> QED
  BY <1>1, <1>2, <1>3, <1>4, InTxCursor

LEMMA DeleteBlockCursor ==
    ASSUME CursorParts, TxShape, NEW b \in Blocks, DeleteBlock(b)
    PROVE  CursorParts'
<1>1. tx.st = "open" /\ InTx(deleteKeys(tx, {b}))
  BY DEF DeleteBlock, InTx
<1>2. deleteKeys(tx, {b}) = [deleteKeys(tx, {b}) EXCEPT !.del = tx.del]
  BY DEF deleteKeys, TxShape
<1>3. tx.del \in Seq(Nat) /\ (stray \/ \A i \in DOMAIN tx.del : tx.del[i] < wc.file)
  BY DEF CursorParts, Typed, Deleting
<1>4. {b} \in SUBSET Blocks
  OBVIOUS
<1> QED
  BY <1>1, <1>2, <1>3, <1>4, DeleteCursor

LEMMA PruneCursor ==
    ASSUME CursorParts, TxShape, PruneBlocks
    PROVE  CursorParts'
<1> DEFINE rows == {b \in DOMAIN TxView(tx) \ {WriteLoc} : TxView(tx)[b].file \in Doomed}
           del == [i \in 1..Cardinality(Doomed) |-> FirstFile + i - 1]
<1>1. /\ tx.st = "open" /\ db = "up" /\ Doomed # {}
      /\ InTx([deleteKeys(tx, rows) EXCEPT !.del = del])
  BY DEF PruneBlocks, InTx
<1>2. rows \in SUBSET Blocks
  <2>1. AreRows(TxView(tx))
    BY ViewRows, SnapRows DEF TxView, CursorParts, Typed
  <2> QED
    BY <2>1 DEF AreRows
<1>3. DOMAIN files # {} /\ Filed
  BY <1>1 DEF Doomed, CursorParts
<1>4. del \in Seq(Nat) /\ \A i \in DOMAIN del : del[i] < scanBlockFiles.file
  BY <1>3, DoomedOlder
<1>5. ~ stray => scanBlockFiles.file <= wc.file
  BY <1>1, <1>3, ScanLast DEF CursorParts, Deleting
<1> HIDE DEF del, rows
<1>6. stray \/ \A i \in DOMAIN del : del[i] < wc.file
  <2> SUFFICES ASSUME ~ stray, NEW i \in DOMAIN del PROVE del[i] < wc.file
    OBVIOUS
  <2>1. del[i] \in Nat /\ scanBlockFiles.file \in Nat /\ wc.file \in Nat
    BY <1>3, <1>4, ScanLast DEF CursorParts, Typed, Cursor
  <2> QED
    BY <1>4, <1>5, <2>1
<1> QED
  BY <1>1, <1>2, <1>4, <1>6, DeleteCursor

LEMMA CommitCursor ==
    ASSUME CursorParts, TxShape, Commit
    PROVE  CursorParts'
<1> DEFINE t == [tx EXCEPT !.st = "delete"]
<1>1. InTx(t) /\ tx.st = "open"
  BY DEF Commit, InTx
<1>2. /\ DOMAIN t = DOMAIN tx /\ t.st = "delete" /\ t.old = tx.old /\ t.keys = tx.keys
      /\ t.remove = tx.remove /\ t.del = tx.del /\ t.pend = tx.pend
  BY DEF TxShape
<1>3. /\ AreRows(tx.keys) /\ Behind(tx.keys, wc) /\ tx.remove \subseteq Blocks
      /\ tx.del \in Seq(Nat) /\ tx.pend \in Seq(Blocks) /\ wc.file + Len(tx.pend) <= MaxFileNum
      /\ stray \/ \A i \in DOMAIN tx.del : tx.del[i] < wc.file
  BY <1>1 DEF CursorParts, Typed, Cursors, Deleting, Room
<1> HIDE DEF t
<1> QED
  BY <1>1, <1>2, <1>3, InTxCursor

LEMMA SaveCursorCursor ==
    ASSUME CursorParts, TxShape, Stopped, SaveCursor
    PROVE  CursorParts'
<1>1. /\ tx.st = "delete" /\ tx.del = <<>>
      /\ tx' = [tx EXCEPT !.st = "write", !.old = At(wc)]
      /\ UNCHANGED <<files, wc, ldb, cachedKeys, cachedRemove, reader, db, stray>>
  BY DEF SaveCursor, disk, cache, hist
<1>2. /\ tx'.st = "write" /\ tx'.old = At(wc) /\ tx'.keys = tx.keys
      /\ tx'.remove = tx.remove /\ tx'.del = tx.del /\ tx'.pend = tx.pend
  BY <1>1 DEF TxShape
<1>3. db = "up" /\ LE(View[WriteLoc], wc)
  BY <1>1 DEF Stopped, CursorParts, Cursors
<1>4. At(wc) \in Locs /\ At(wc).file = wc.file /\ At(wc).off = wc.off
  BY DEF CursorParts, Typed, Cursor, At, Locs
<1>5. LE(View[WriteLoc], tx'.old)
  BY <1>2, <1>3, <1>4 DEF LE
<1>6. /\ AreRows(tx.keys) /\ Behind(tx.keys, wc) /\ tx.remove \subseteq Blocks
      /\ tx.del \in Seq(Nat) /\ tx.pend \in Seq(Blocks) /\ AreRows(reader'.rows)
      /\ wc.file + Len(tx.pend) <= MaxFileNum /\ wc.file <= MaxFileNum
  BY <1>1 DEF CursorParts, Typed, Cursors, Room
<1>7. \A i \in DOMAIN tx'.del : tx'.del[i] < wc.file
  BY <1>1, <1>2
<1> QED
  BY <1>1, <1>2, <1>4, <1>5, <1>6, <1>7, TxOnly

\* The parts that speak of the leveldb, the cache and the transaction.
LEMMA FilesOnly ==
    ASSUME CursorParts, Filed', DOMAIN files' \subseteq DOMAIN files,
           UNCHANGED <<wc, ldb, cachedKeys, cachedRemove, tx, reader, db, stray>>
    PROVE  CursorParts'
<1> USE DEF CursorParts
<1>1. View' = View
  BY DEF View
<1>2. Typed'
  BY DEF Typed, AreRows
<1>3. Room'
  BY DEF Room
<1>4. Cursors'
  BY <1>1 DEF Cursors, Behind, LE, BlocksOf, EndOf
<1>5. Deleting'
  BY DEF Deleting
<1> QED
  BY <1>2, <1>3, <1>4, <1>5

LEMMA DeleteFileCursor ==
    ASSUME CursorParts, TxShape, deleteFile
    PROVE  CursorParts'
<1>1. /\ tx.st = "delete" /\ tx.del # <<>> /\ tx' = [tx EXCEPT !.del = Tail(@)]
      /\ files' = Minus(files, {Head(tx.del)})
      /\ UNCHANGED <<wc, ldb, cachedKeys, cachedRemove, reader, db, stray>>
  BY DEF deleteFile, cache
<1>2. /\ tx'.st = tx.st /\ tx'.old = tx.old /\ tx'.keys = tx.keys
      /\ tx'.remove = tx.remove /\ tx'.del = Tail(tx.del) /\ tx'.pend = tx.pend
  BY <1>1 DEF TxShape
<1>3. DOMAIN files' \subseteq DOMAIN files /\ \A n \in DOMAIN files' : files'[n] = files[n]
  BY <1>1 DEF Minus
<1>4. View' = View
  BY <1>1 DEF View
<1>5. tx.del \in Seq(Nat) /\ Tail(tx.del) \in Seq(Nat)
  BY <1>1 DEF CursorParts, Typed
<1>6. \A i \in DOMAIN Tail(tx.del) : i + 1 \in DOMAIN tx.del /\ Tail(tx.del)[i] = tx.del[i + 1]
  BY <1>1, <1>5
<1> USE DEF CursorParts
<1>7. Filed'
  BY <1>3 DEF Filed
<1>8. Typed'
  BY <1>1, <1>2, <1>5 DEF Typed, AreRows
<1>9. Room'
  BY <1>1, <1>2 DEF Room
<1>10. Cursors'
  BY <1>1, <1>2, <1>4 DEF Cursors, Behind, LE, BlocksOf, EndOf
<1>11. Deleting'
  BY <1>1, <1>2, <1>3, <1>6 DEF Deleting
<1> QED
  BY <1>7, <1>8, <1>9, <1>10, <1>11

\* Where writeBlock writes: not before the cursor, in this file or the next.
LEMMA NextAhead ==
    ASSUME CursorParts, TxShape, tx.st = "write", tx.pend # <<>>
    PROVE  LET b == Head(tx.pend)
               loc == NextLoc(BlockLen[b])
           IN  /\ b \in Blocks /\ BlockLen[b] \in Nat /\ BlockLen[b] > 0
               /\ Tail(tx.pend) \in Seq(Blocks)
               /\ loc \in Locs /\ LE(wc, loc) /\ loc.file \in {wc.file, wc.file + 1}
               /\ loc.file + Len(Tail(tx.pend)) <= MaxFileNum
               /\ loc.file <= MaxFileNum
               /\ loc.file = wc.file => loc = At(wc)
<1>1. PICK b \in Blocks : b = Head(tx.pend)
  BY DEF CursorParts, Typed
<1>2. PICK q \in Seq(Blocks) : q = tx.pend /\ q # <<>>
  BY DEF CursorParts, Typed
<1>3. PICK k \in Nat : k = Len(Tail(q)) /\ Len(q) = k + 1 /\ Tail(q) \in Seq(Blocks)
  <2>1. Len(q) \in Nat /\ Len(q) # 0
    BY <1>2
  <2>2. Tail(q) \in Seq(Blocks) /\ Len(Tail(q)) = Len(q) - 1
    BY <1>2, <2>1
  <2>3. Len(Tail(q)) \in Nat /\ Len(q) = Len(Tail(q)) + 1
    BY <2>1, <2>2
  <2> QED
    BY <2>2, <2>3, Zenon
<1>4. PICK n \in Nat : n = BlockLen[b] /\ n > 0
  BY Constants
<1>5. /\ wc.file \in Nat /\ wc.off \in Nat /\ MaxFileNum \in Nat /\ MaxFileSize \in Nat
      /\ wc.file + (k + 1) <= MaxFileNum
  BY <1>2, <1>3, Constants DEF CursorParts, Typed, Cursor, Room
<1>6. /\ NextLoc(n) \in Locs /\ LE(wc, NextLoc(n)) /\ NextLoc(n).file \in {wc.file, wc.file + 1}
      /\ NextLoc(n).file = wc.file => NextLoc(n) = At(wc)
  BY SMTT(30), <1>4, <1>5 DEF NextLoc, At, Locs, LE
<1>7. NextLoc(n).file + k <= MaxFileNum /\ NextLoc(n).file <= MaxFileNum
  BY <1>5, <1>6
<1> QED
  BY <1>1, <1>2, <1>3, <1>4, <1>6, <1>7

LEMMA WriteCursor ==
    ASSUME CursorParts, TxShape, Stopped, writeBlock
    PROVE  CursorParts'
<1>1. PICK b \in Blocks : b = Head(tx.pend)
  BY NextAhead DEF writeBlock
<1>2. PICK loc \in Locs : loc = NextLoc(BlockLen[b])
  BY <1>1, NextAhead DEF writeBlock
<1>3. /\ tx.st = "write" /\ tx.pend # <<>>
      /\ files' = Put(files, loc.file,
                      WriteAt(FileAt(files, loc.file), loc.off, Record(b)))
      /\ wc' = [file |-> loc.file, off |-> loc.off + BlockLen[b], open |-> TRUE]
      /\ tx' = putKey([tx EXCEPT !.pend = Tail(@)], b, loc)
      /\ UNCHANGED <<ldb, cachedKeys, cachedRemove, reader, db, stray>>
  BY <1>1, <1>2 DEF writeBlock, cache
<1>4. /\ BlockLen[b] \in Nat /\ Tail(tx.pend) \in Seq(Blocks) /\ LE(wc, loc)
      /\ loc.file \in {wc.file, wc.file + 1}
      /\ loc.file + Len(Tail(tx.pend)) <= MaxFileNum /\ loc.file <= MaxFileNum
  BY <1>1, <1>2, <1>3, NextAhead
<1>5. /\ tx'.st = "write" /\ tx'.old = tx.old /\ tx'.remove = tx.remove \ {b}
      /\ tx'.keys = Merge(tx.keys, [x \in {b} |-> loc])
      /\ tx'.del = tx.del /\ tx'.pend = Tail(tx.pend)
  BY <1>3 DEF TxShape, putKey
<1>6. View' = View /\ db = "up"
  BY <1>3 DEF View, Stopped
<1>7. /\ wc.file \in Nat /\ wc.off \in Nat /\ loc.file \in Nat /\ loc.off \in Nat
      /\ wc'.file = loc.file /\ wc'.off = loc.off + BlockLen[b] /\ wc'.open = TRUE
      /\ wc'.file \in Nat /\ wc'.off \in Nat /\ wc' \in Cursor
  BY <1>3, <1>4 DEF CursorParts, Typed, Cursor, Locs
<1>8. LE(wc, wc')
  BY <1>4, <1>7 DEF LE
<1>9. Filed'
  <2>1. IsFile(FileAt(files, loc.file))
    BY FileAtFile DEF CursorParts
  <2>2. IsFile(WriteAt(FileAt(files, loc.file), loc.off, Record(b)))
    BY <2>1, <1>7, RecordUnits, WriteFile
  <2>3. /\ DOMAIN files' = DOMAIN files \cup {loc.file}
        /\ files'[loc.file] = WriteAt(FileAt(files, loc.file), loc.off, Record(b))
        /\ \A m \in DOMAIN files \ {loc.file} : files'[m] = files[m]
    BY <1>3 DEF Put, Merge
  <2> QED
    BY <2>2, <2>3, <1>4, <1>7, Constants DEF CursorParts, Filed
<1>10. AreRows(tx'.keys)
  BY <1>5 DEF CursorParts, Typed, AreRows, Merge
<1>11. Behind(tx'.keys, wc')
  <2>1. AreRows(tx.keys) /\ Behind(tx.keys, wc)
    BY DEF CursorParts, Typed, Cursors
  <2>2. Behind(tx.keys, wc')
    BY <2>1, <1>7, <1>8, BehindFurther
  <2>3. LE([file |-> loc.file, off |-> loc.off + BlockLen[b]], wc')
    BY <1>4, <1>7 DEF LE
  <2>4. ASSUME NEW x \in BlocksOf(tx'.keys) PROVE LE(EndOf(tx'.keys, x), wc')
    <3>1. CASE x = b
      BY <3>1, <2>3, <1>5 DEF EndOf, Merge
    <3>2. CASE x # b
      <4>1. x \in BlocksOf(tx.keys) /\ tx'.keys[x] = tx.keys[x]
        BY <3>2, <1>5 DEF BlocksOf, Merge
      <4>2. LE(EndOf(tx.keys, x), wc')
        BY <4>1, <2>2 DEF Behind
      <4> QED
        BY <4>1, <4>2 DEF EndOf
    <3> QED
      BY <3>1, <3>2
  <2> QED
    BY <2>4 DEF Behind
<1> USE DEF CursorParts
<1>12. Typed'
  BY <1>3, <1>4, <1>5, <1>7, <1>10 DEF Typed, AreRows
<1>13. Room'
  BY <1>3, <1>4, <1>5, <1>7 DEF Room
<1>14. LE(View[WriteLoc], wc')
  <2>1. View[WriteLoc].file \in Nat /\ View[WriteLoc].off \in Nat
    BY ViewRows DEF Locs
  <2>2. LE(View[WriteLoc], wc)
    BY <1>6 DEF Cursors
  <2> QED
    BY <2>1, <2>2, <1>7, <1>8, NotAfter
<1>15. Cursors'
  <2>1. Behind(ldb, ldb[WriteLoc])' /\ Behind(View, View[WriteLoc])'
    BY <1>3, <1>6 DEF Cursors, Behind, LE, BlocksOf, EndOf
  <2>2. LE(View'[WriteLoc], tx'.old)
    BY <1>3, <1>5, <1>6 DEF Cursors
  <2> QED
    BY <2>1, <2>2, <1>5, <1>6, <1>11, <1>14 DEF Cursors, Behind, LE, BlocksOf, EndOf
<1>16. Deleting'
  <2>1. tx'.del = <<>>
    BY <1>3, <1>5 DEF Deleting
  <2>2. DOMAIN files' = DOMAIN files \cup {loc.file}
    BY <1>3 DEF Put, Merge
  <2>3. \A n \in DOMAIN files : n \in Nat
    BY Constants DEF Filed
  <2> QED
    BY <2>1, <2>2, <2>3, <1>3, <1>4, <1>6, <1>7 DEF Deleting
<1> QED
  BY <1>9, <1>12, <1>13, <1>15, <1>16

LEMMA WriteFailsCursor ==
    ASSUME CursorParts, TxShape, Stopped, writeBlockFails
    PROVE  CursorParts'
<1>1. PICK b \in Blocks : b = Head(tx.pend)
  BY NextAhead DEF writeBlockFails
<1>2. PICK loc \in Locs : loc = NextLoc(BlockLen[b])
  BY <1>1, NextAhead DEF writeBlockFails
<1>3. /\ tx.st = "write" /\ tx.pend # <<>> /\ tx' = [tx EXCEPT !.st = "undo"]
      /\ UNCHANGED <<ldb, cachedKeys, cachedRemove, reader, db, stray>>
  BY DEF writeBlockFails, cache
<1>4. /\ BlockLen[b] \in Nat /\ LE(wc, loc) /\ loc.file \in {wc.file, wc.file + 1}
      /\ loc.file <= MaxFileNum
  BY <1>1, <1>2, <1>3, NextAhead
<1>5. /\ wc.file \in Nat /\ wc.off \in Nat /\ loc.file \in Nat /\ loc.off \in Nat
  BY DEF CursorParts, Typed, Cursor, Locs
<1>6. /\ Filed' /\ DOMAIN files' \subseteq DOMAIN files \cup {loc.file}
      /\ \E n \in Nat, o \in BOOLEAN : wc' = [file |-> loc.file, off |-> loc.off + n, open |-> o]
  <2>1. CASE wc' = [file |-> loc.file, off |-> loc.off, open |-> FALSE] /\ UNCHANGED files
    <3>0. loc.off + 0 = loc.off
      BY <1>5
    <3>1. wc' = [file |-> loc.file, off |-> loc.off + 0, open |-> FALSE] /\ 0 \in Nat
      BY <2>1, <3>0
    <3>2. Filed'
      BY <2>1 DEF CursorParts, Filed
    <3> QED
      BY <2>1, <3>1, <3>2
  <2>2. ASSUME NEW n \in 0..(BlockLen[b] - 1),
               LET f == FileAt(files, loc.file)
               IN  /\ files' = Put(files, loc.file, IF n = 0 THEN f
                                    ELSE WriteAt(f, loc.off, SubSeq(Record(b), 1, n)))
                   /\ wc' = [file |-> loc.file, off |-> loc.off + n, open |-> TRUE]
        PROVE  /\ Filed' /\ DOMAIN files' \subseteq DOMAIN files \cup {loc.file}
               /\ n \in Nat /\ wc' = [file |-> loc.file, off |-> loc.off + n, open |-> TRUE]
    <3>1. PICK g : files' = Put(files, loc.file, g) /\
                   g = IF n = 0 THEN FileAt(files, loc.file)
                       ELSE WriteAt(FileAt(files, loc.file), loc.off, SubSeq(Record(b), 1, n))
      BY <2>2
    <3>2. n \in Nat /\ n \in 0..BlockLen[b]
      BY <1>4
    <3>3. IsFile(FileAt(files, loc.file))
      BY FileAtFile DEF CursorParts
    <3>4. IsFile(WriteAt(FileAt(files, loc.file), loc.off, SubSeq(Record(b), 1, n)))
      BY <3>2, <3>3, <1>5, PartOfRecord, WriteFile
    <3>5. IsFile(g)
      BY <3>1, <3>3, <3>4
    <3>6. /\ DOMAIN files' = DOMAIN files \cup {loc.file} /\ files'[loc.file] = g
          /\ \A m \in DOMAIN files \ {loc.file} : files'[m] = files[m]
      BY <3>1 DEF Put, Merge
    <3>7. Filed'
      BY <3>5, <3>6, <1>4, <1>5, Constants DEF CursorParts, Filed
    <3> QED
      BY <2>2, <3>2, <3>6, <3>7
  <2> QED
    BY <2>1, <2>2, <1>1, <1>2 DEF writeBlockFails
<1>7. PICK n \in Nat, o \in BOOLEAN : wc' = [file |-> loc.file, off |-> loc.off + n, open |-> o]
  BY <1>6
<1>8. /\ wc' \in Cursor /\ wc'.file = loc.file /\ wc'.off = loc.off + n
      /\ wc'.file \in Nat /\ wc'.off \in Nat /\ wc'.file <= MaxFileNum
  BY <1>4, <1>5, <1>7 DEF Cursor
<1>9. LE(wc, wc')
  BY <1>4, <1>5, <1>8 DEF LE
<1>10. /\ tx'.st = "undo" /\ tx'.old = tx.old /\ tx'.keys = tx.keys /\ tx'.remove = tx.remove
       /\ tx'.del = tx.del /\ tx'.pend = tx.pend
  BY <1>3 DEF TxShape
<1>11. View' = View /\ db = "up"
  BY <1>3 DEF View, Stopped
<1> USE DEF CursorParts
<1>12. Typed'
  BY <1>3, <1>8, <1>10 DEF Typed, AreRows
<1>13. Room'
  BY <1>3, <1>8, <1>10 DEF Room
<1>14. LE(View[WriteLoc], wc') /\ Behind(tx.keys, wc')
  <2>1. View[WriteLoc].file \in Nat /\ View[WriteLoc].off \in Nat
    BY ViewRows DEF Locs
  <2>2. LE(View[WriteLoc], wc) /\ AreRows(tx.keys) /\ Behind(tx.keys, wc)
    BY <1>11 DEF Cursors, Typed
  <2>3. LE(View[WriteLoc], wc')
    BY <2>1, <2>2, <1>5, <1>8, <1>9, NotAfter
  <2> QED
    BY <2>2, <2>3, <1>5, <1>8, <1>9, BehindFurther
<1>15. Cursors'
  <2>1. Behind(ldb, ldb[WriteLoc])' /\ Behind(View, View[WriteLoc])'
    BY <1>3, <1>11 DEF Cursors, Behind, LE, BlocksOf, EndOf
  <2>2. LE(View'[WriteLoc], tx'.old)
    BY <1>3, <1>10, <1>11 DEF Cursors
  <2> QED
    BY <2>1, <2>2, <1>10, <1>11, <1>14 DEF Cursors, Behind, LE, BlocksOf, EndOf
<1>16. Deleting'
  <2>1. tx'.del = <<>>
    BY <1>3, <1>10 DEF Deleting
  <2>2. \A m \in DOMAIN files : m \in Nat
    BY Constants DEF Filed
  <2> QED
    BY <2>1, <2>2, <1>3, <1>4, <1>5, <1>6, <1>8, <1>11 DEF Deleting
<1> QED
  BY <1>6, <1>12, <1>13, <1>15, <1>16

LEMMA UndoCursor ==
    ASSUME CursorParts, TxShape, Stopped, UndoWrites
    PROVE  CursorParts'
<1>1. /\ tx.st = "undo" /\ RollBack(wc, tx.old) /\ tx' = Idle
      /\ UNCHANGED <<ldb, cachedKeys, cachedRemove, reader, db>>
  BY DEF UndoWrites, cache
<1>2. /\ Filed /\ wc \in Cursor /\ tx.old \in Locs /\ tx.old.file <= MaxFileNum
  BY DEF CursorParts, Typed, Room
<1>3. /\ Filed' /\ wc' \in Cursor /\ At(wc') = tx.old
      /\ stray' = (stray \/ \E n \in DOMAIN files' : n > tx.old.file)
  BY <1>1, <1>2, RollBackEffect
<1>4. wc'.file = tx.old.file /\ wc'.off = tx.old.off /\ wc'.file \in Nat
  BY <1>3 DEF At, Cursor
<1>5. View' = View /\ db = "up"
  BY <1>1 DEF View, Stopped
<1>6. /\ tx'.keys = Empty /\ tx'.remove = {} /\ tx'.st = "idle" /\ DOMAIN tx'.del = {}
      /\ tx'.del = <<>> /\ tx'.old \in Locs /\ AreRows(tx'.keys) /\ tx'.old.file = 0
      /\ tx'.pend \in Seq(Blocks) /\ tx'.del \in Seq(Nat) /\ Len(tx'.pend) = 0
  BY <1>1, IdleRows
<1> USE DEF CursorParts
<1>7. stray' \in BOOLEAN
  BY <1>3, Zenon DEF Typed
<1>8. Typed'
  BY <1>1, <1>3, <1>6, <1>7 DEF Typed, AreRows
<1>9. Room'
  BY <1>1, <1>2, <1>4, <1>6, Constants DEF Room
<1>10. LE(View'[WriteLoc], wc')
  BY <1>1, <1>4, <1>5 DEF Cursors, LE
<1>11. Cursors'
  <2>1. Behind(ldb, ldb[WriteLoc])' /\ Behind(View, View[WriteLoc])'
    BY <1>1, <1>5 DEF Cursors, Behind, LE, BlocksOf, EndOf
  <2>2. Behind(tx.keys, wc)'
    BY <1>6, IdleRows DEF Behind, BlocksOf
  <2> QED
    BY <2>1, <2>2, <1>6, <1>10 DEF Cursors
<1>12. Deleting'
  <2>1. ~ stray' => \A n \in DOMAIN files' : ~(n > wc'.file)
    BY <1>3, <1>4
  <2>2. \A n \in DOMAIN files' : n \in Nat
    BY <1>3, Constants DEF Filed
  <2>3. ~ stray' => \A n \in DOMAIN files' : n <= wc'.file
    BY <2>1, <2>2, <1>4
  <2> QED
    BY <2>3, <1>6 DEF Deleting
<1> QED
  BY <1>3, <1>8, <1>9, <1>11, <1>12

\* The transaction's rows with the write cursor.
LEMMA CursorAdded ==
    ASSUME CursorParts, TxShape
    PROVE  LET t == WithCursor(tx)
           IN  /\ DOMAIN t = DOMAIN tx /\ t.st = tx.st /\ t.old = tx.old
               /\ t.pend = tx.pend /\ t.del = tx.del
               /\ AreRows(t.keys) /\ t.remove \subseteq Blocks /\ Behind(t.keys, wc)
               /\ WriteLoc \in DOMAIN t.keys /\ t.keys[WriteLoc] = At(wc)
               /\ BlocksOf(t.keys) = BlocksOf(tx.keys)
               /\ \A b \in BlocksOf(tx.keys) : t.keys[b] = tx.keys[b]
               /\ t.remove = tx.remove
<1>1. /\ DOMAIN WithCursor(tx) = DOMAIN tx /\ WithCursor(tx).st = tx.st
      /\ WithCursor(tx).old = tx.old /\ WithCursor(tx).pend = tx.pend
      /\ WithCursor(tx).del = tx.del /\ WithCursor(tx).remove = tx.remove \ {WriteLoc}
      /\ WithCursor(tx).keys = Merge(tx.keys, [x \in {WriteLoc} |-> At(wc)])
  BY DEF WithCursor, putKey, TxShape
<1>2. PICK K : K = Merge(tx.keys, [x \in {WriteLoc} |-> At(wc)])
  OBVIOUS
<1>3. /\ WriteLoc \in DOMAIN K /\ K[WriteLoc] = At(wc) /\ BlocksOf(K) = BlocksOf(tx.keys)
      /\ \A b \in BlocksOf(tx.keys) : K[b] = tx.keys[b]
      /\ DOMAIN K = DOMAIN tx.keys \cup {WriteLoc}
  BY <1>2 DEF Merge, BlocksOf
<1>4. At(wc) \in Locs
  BY DEF CursorParts, Typed, Cursor, At, Locs
<1>5. AreRows(K)
  BY <1>3, <1>4 DEF AreRows, CursorParts, Typed, BlocksOf
<1>6. Behind(K, wc)
  BY <1>3 DEF Behind, CursorParts, Cursors, EndOf
<1>7. tx.remove \subseteq Blocks /\ tx.remove \ {WriteLoc} = tx.remove
  BY Constants DEF CursorParts, Typed
<1> QED
  BY <1>1, <1>2, <1>3, <1>5, <1>6, <1>7

\* What is committed, a transaction's rows and the cursor as it is: it all
\* ends before the cursor.
LEMMA CommittedBehind ==
    ASSUME CursorParts, TxShape, db = "up", NEW K, NEW R, AreRows(K), Behind(K, wc),
           WriteLoc \in DOMAIN K, K[WriteLoc] = At(wc), R \subseteq Blocks
    PROVE  LET V == Snap(View, K, R)
           IN  AreRows(V) /\ WriteLoc \in DOMAIN V /\ V[WriteLoc] = At(wc)
                 /\ Behind(V, V[WriteLoc]) /\ LE(V[WriteLoc], wc)
<1>1. AreRows(View) /\ View[WriteLoc] \in Locs
  BY ViewRows DEF CursorParts
<1>2. PICK V : V = Snap(View, K, R)
  OBVIOUS
<1>3. AreRows(V)
  BY <1>1, <1>2, SnapRows
<1>4. WriteLoc \in DOMAIN V /\ V[WriteLoc] = At(wc)
  BY <1>2, Constants DEF Snap
<1>5. Behind(View, View[WriteLoc]) /\ LE(View[WriteLoc], wc)
  BY DEF CursorParts, Cursors
<1>6. wc.file \in Nat /\ wc.off \in Nat /\ At(wc).file = wc.file /\ At(wc).off = wc.off
  BY DEF CursorParts, Typed, Cursor, At
<1>7. Behind(View, wc)
  BY <1>1, <1>5, <1>6, BehindFurther DEF Locs
<1>8. Behind(V, wc)
  BY <1>2, <1>7, BehindSnap
<1>9. Behind(V, At(wc)) /\ LE(At(wc), wc)
  BY <1>6, <1>8 DEF Behind, LE
<1> QED
  BY <1>2, <1>3, <1>4, <1>9

LEMMA ToCacheCursor ==
    ASSUME CursorParts, StoreInv, commitToCache
    PROVE  CursorParts'
<1> DEFINE t == WithCursor(tx)
<1>1. /\ tx.st = "write" /\ tx' = Idle
      /\ cachedKeys' = Minus(Merge(cachedKeys, t.keys), t.remove)
      /\ cachedRemove' = (cachedRemove \ DOMAIN t.keys) \cup t.remove
      /\ UNCHANGED <<files, ldb, wc, reader, db, stray>>
  BY DEF commitToCache, disk, hist
<1>2. TxShape /\ db = "up"
  BY <1>1 DEF StoreInv, Stopped
<1>3. /\ AreRows(t.keys) /\ t.remove \subseteq Blocks /\ Behind(t.keys, wc)
      /\ WriteLoc \in DOMAIN t.keys /\ t.keys[WriteLoc] = At(wc)
  BY <1>2, CursorAdded
<1> HIDE DEF t
<1>4. View' = Snap(View, t.keys, t.remove)
  BY <1>1, CacheMerge DEF View
<1>5. Behind(View', View'[WriteLoc]) /\ LE(View'[WriteLoc], wc)
  BY <1>2, <1>3, <1>4, CommittedBehind
<1>6. /\ tx'.keys = Empty /\ tx'.remove = {} /\ tx'.st = "idle" /\ DOMAIN tx'.del = {}
      /\ tx'.del = <<>> /\ tx'.old \in Locs /\ AreRows(tx'.keys) /\ tx'.old.file = 0
      /\ tx'.pend \in Seq(Blocks) /\ tx'.del \in Seq(Nat) /\ Len(tx'.pend) = 0
  BY <1>1, IdleRows
<1> USE DEF CursorParts
<1>7. AreRows(cachedKeys') /\ cachedRemove' \subseteq Blocks
  <2>1. AreRows(Merge(cachedKeys, t.keys))
    BY <1>3, MergeRows DEF Typed
  <2> QED
    BY <2>1, <1>1, <1>3, MinusRows DEF Typed
<1>8. Typed'
  BY <1>1, <1>6, <1>7 DEF Typed, AreRows
<1>9. Room'
  BY <1>1, <1>6, Constants DEF Room, Typed, Cursor
<1>10. Filed'
  BY <1>1 DEF Filed
<1>11. Cursors'
  <2>1. Behind(ldb, ldb[WriteLoc])'
    BY <1>1 DEF Cursors, Behind, LE, BlocksOf, EndOf
  <2>2. Behind(tx.keys, wc)'
    BY <1>6, IdleRows DEF Behind, BlocksOf
  <2> QED
    BY <2>1, <2>2, <1>1, <1>5, <1>6 DEF Cursors, Behind, LE, BlocksOf, EndOf
<1>12. Deleting'
  BY <1>1, <1>6 DEF Deleting
<1> QED
  BY <1>8, <1>9, <1>10, <1>11, <1>12

LEMMA FlushSyncCursor ==
    ASSUME CursorParts, StoreInv, flushSync
    PROVE  CursorParts'
<1> DEFINE t == WithCursor(tx)
<1>1. /\ tx.st = "write" /\ tx' = [t EXCEPT !.st = "flush"] /\ files' = syncBlocks
      /\ UNCHANGED <<ldb, cachedKeys, cachedRemove, wc, reader, db, stray>>
  BY DEF flushSync, cache, hist
<1>2. TxShape /\ db = "up"
  BY <1>1 DEF StoreInv, Stopped
<1>3. /\ AreRows(t.keys) /\ t.remove \subseteq Blocks /\ Behind(t.keys, wc)
      /\ DOMAIN t = DOMAIN tx /\ t.st = tx.st /\ t.old = tx.old
      /\ t.pend = tx.pend /\ t.del = tx.del
  BY <1>2, CursorAdded
<1> HIDE DEF t
<1>4. /\ tx'.st = "flush" /\ tx'.keys = t.keys /\ tx'.remove = t.remove /\ tx'.old = tx.old
      /\ tx'.pend = tx.pend /\ tx'.del = tx.del
  BY <1>1, <1>2, <1>3 DEF TxShape
<1>5. Filed' /\ DOMAIN files' = DOMAIN files
  BY <1>1, SyncBlocksFiled DEF CursorParts
<1>6. View' = View
  BY <1>1 DEF View
<1> USE DEF CursorParts
<1>7. Typed'
  BY <1>1, <1>3, <1>4 DEF Typed, AreRows
<1>8. Room'
  BY <1>1, <1>4 DEF Room
<1>9. Cursors'
  <2>1. Behind(tx.keys, wc)'
    BY <1>1, <1>3, <1>4 DEF Behind, LE, BlocksOf, EndOf
  <2> QED
    BY <2>1, <1>1, <1>4, <1>6 DEF Cursors, Behind, LE, BlocksOf, EndOf
<1>10. Deleting'
  BY <1>1, <1>4, <1>5 DEF Deleting
<1> QED
  BY <1>5, <1>7, <1>8, <1>9, <1>10

\* The leveldb takes on rows that are committed, and the rest stays.
LEMMA LdbCursor ==
    ASSUME CursorParts, TxShape, db = "up", NEW s \in {"clear", "idle"},
           tx' = [tx EXCEPT !.st = s] \/ tx' = Idle, tx.st \in {"flush", "direct"},
           tx'.st = s, View' = ldb', AreRows(ldb'), WriteLoc \in DOMAIN ldb',
           Behind(ldb', ldb'[WriteLoc]), LE(ldb'[WriteLoc], wc),
           UNCHANGED <<files, wc, cachedKeys, cachedRemove, reader, db, stray>>
    PROVE  CursorParts'
<1>1. /\ tx'.del \in Seq(Nat) /\ tx'.pend \in Seq(Blocks) /\ tx'.old \in Locs
      /\ AreRows(tx'.keys) /\ tx'.remove \subseteq Blocks /\ tx'.old.file <= MaxFileNum
      /\ tx'.del = <<>> /\ wc.file + Len(tx'.pend) <= MaxFileNum
      /\ Behind(tx'.keys, wc)
  <2>1. CASE tx' = Idle
    <3>1. Behind(Empty, wc)
      BY IdleRows DEF Behind
    <3> QED
      BY <2>1, <3>1, IdleRows, Constants DEF CursorParts, Typed, Room, Cursor
  <2>2. CASE tx' = [tx EXCEPT !.st = s]
    <3>1. /\ tx'.del = tx.del /\ tx'.pend = tx.pend /\ tx'.old = tx.old /\ tx'.keys = tx.keys
          /\ tx'.remove = tx.remove
      BY <2>2 DEF TxShape
    <3> QED
      BY <3>1 DEF CursorParts, Typed, Room, Deleting, Cursors
  <2> QED
    BY <2>1, <2>2
<1> USE DEF CursorParts
<1>2. Filed'
  BY DEF Filed
<1>3. Typed'
  BY <1>1 DEF Typed, AreRows
<1>4. Room'
  <2>1. ldb'[WriteLoc].file \in Nat /\ wc.file \in Nat
    BY DEF AreRows, Locs, Typed, Cursor
  <2>2. ldb'[WriteLoc].file <= wc.file
    BY <2>1 DEF LE
  <2>3. ldb'[WriteLoc].file <= MaxFileNum
    BY <2>1, <2>2, Constants DEF Room
  <2> QED
    BY <2>3, <1>1 DEF Room
<1>5. Cursors'
  BY <1>1 DEF Cursors, Behind, LE, BlocksOf, EndOf
<1>6. Deleting'
  <2>1. DOMAIN tx'.del = {}
    BY <1>1
  <2> QED
    BY <1>1, <2>1 DEF Deleting
<1> QED
  BY <1>2, <1>3, <1>4, <1>5, <1>6

LEMMA TreapsCursor ==
    ASSUME CursorParts, StoreInv, flushTreaps
    PROVE  CursorParts'
<1>1. /\ tx.st = "flush" /\ tx' = [tx EXCEPT !.st = "clear"] /\ ldb' = View
      /\ UNCHANGED <<files, wc, cachedKeys, cachedRemove, reader, db, stray>>
  BY TreapsAreView DEF flushTreaps, cache, hist, View
<1>2. TxShape /\ db = "up" /\ tx'.st = "clear"
  BY <1>1 DEF StoreInv, Stopped, TxShape
<1>3. View' = ldb'
  BY <1>1, SnapTwice DEF View
<1>4. AreRows(View) /\ WriteLoc \in DOMAIN View
  BY ViewRows DEF CursorParts
<1>5. Behind(View, View[WriteLoc]) /\ LE(View[WriteLoc], wc)
  BY <1>2 DEF CursorParts, Cursors
<1>6. /\ AreRows(ldb') /\ WriteLoc \in DOMAIN ldb' /\ Behind(ldb', ldb'[WriteLoc])
      /\ LE(ldb'[WriteLoc], wc)
  BY <1>1, <1>4, <1>5
<1> QED
  BY <1>1, <1>2, <1>3, <1>6, LdbCursor

LEMMA DirectCursor ==
    ASSUME CursorParts, StoreInv, commitDirect
    PROVE  CursorParts'
<1>1. /\ tx.st = "direct" /\ tx' = Idle /\ ldb' = Snap(ldb, tx.keys, tx.remove)
      /\ UNCHANGED <<files, wc, cachedKeys, cachedRemove, reader, db, stray>>
  BY TreapsAreView DEF commitDirect, cache, hist
<1>2. TxShape /\ db = "up" /\ tx'.st = "idle"
  BY <1>1, IdleRows DEF StoreInv, Stopped
<1>3. View = ldb /\ View' = ldb'
  <2>1. cachedKeys = Empty /\ cachedRemove = {} /\ IsRows
    BY <1>1 DEF StoreInv, Flushed, NoCache
  <2>2. IsRows'
    BY <1>1, SnapIsRows DEF IsRows
  <2> QED
    BY <2>1, <2>2, <1>1, SnapEmpty DEF View, IsRows
<1>4. /\ WriteLoc \in DOMAIN tx.keys /\ tx.keys[WriteLoc] = At(wc)
      /\ AreRows(tx.keys) /\ tx.remove \subseteq Blocks /\ Behind(tx.keys, wc)
  BY <1>1 DEF StoreInv, Cursored, CursorParts, Typed, Cursors
<1>5. /\ AreRows(ldb') /\ WriteLoc \in DOMAIN ldb' /\ Behind(ldb', ldb'[WriteLoc])
      /\ LE(ldb'[WriteLoc], wc)
  BY <1>1, <1>2, <1>3, <1>4, CommittedBehind
<1> QED
  BY <1>1, <1>2, <1>3, <1>5, LdbCursor

LEMMA ClearCursor ==
    ASSUME CursorParts, StoreInv, flushClear
    PROVE  CursorParts'
<1>1. /\ tx.st = "clear" /\ tx' = [tx EXCEPT !.st = "direct"]
      /\ cachedKeys' = Empty /\ cachedRemove' = {}
      /\ UNCHANGED <<files, ldb, wc, reader, db, stray>>
  BY DEF flushClear, disk, hist
<1>2. /\ tx'.st = "direct" /\ tx'.keys = tx.keys /\ tx'.remove = tx.remove /\ tx'.old = tx.old
      /\ tx'.pend = tx.pend /\ tx'.del = tx.del
  BY <1>1 DEF StoreInv, TxShape
<1>3. View' = View
  <2>1. View = ldb
    BY <1>1 DEF StoreInv, Flushed
  <2> QED
    BY <2>1, <1>1, SnapEmpty DEF View, StoreInv, IsRows
<1> USE DEF CursorParts
<1>4. Filed'
  BY <1>1 DEF Filed
<1>5. Typed'
  BY <1>1, <1>2, IdleRows DEF Typed, AreRows
<1>6. Room'
  BY <1>1, <1>2 DEF Room
<1>7. Cursors'
  BY <1>1, <1>2, <1>3 DEF Cursors, Behind, LE, BlocksOf, EndOf
<1>8. Deleting'
  BY <1>1, <1>2 DEF Deleting
<1> QED
  BY <1>4, <1>5, <1>6, <1>7, <1>8

LEMMA ReaderCursor ==
    ASSUME CursorParts, ReaderLdb \/ ReaderRoots \/ ReaderEnd
    PROVE  CursorParts'
<1>1. UNCHANGED <<files, ldb, wc, cachedKeys, cachedRemove, tx, db, stray>>
  BY DEF ReaderLdb, ReaderRoots, ReaderEnd, disk, cache, hist
<1>2. AreRows(reader'.rows)
  <2>1. CASE ReaderLdb
    BY <2>1 DEF ReaderLdb, CursorParts, Typed
  <2>2. CASE ReaderRoots
    <3>1. reader'.rows = Snap(reader.rows, cachedKeys, cachedRemove)
      BY <2>2 DEF ReaderRoots
    <3> QED
      BY <3>1, SnapRows DEF CursorParts, Typed
  <2>3. CASE ReaderEnd
    BY <2>3, IdleRows DEF ReaderEnd, NoReader
  <2> QED
    BY <2>1, <2>2, <2>3
<1> USE DEF CursorParts
<1>3. View' = View
  BY <1>1 DEF View
<1>4. Filed' /\ Deleting' /\ Room'
  BY <1>1 DEF Filed, Deleting, Room
<1>5. Typed'
  BY <1>1, <1>2 DEF Typed, AreRows
<1>6. Cursors'
  BY <1>1, <1>3 DEF Cursors, Behind, LE, BlocksOf, EndOf
<1> QED
  BY <1>4, <1>5, <1>6

\* The process is gone: what counts is the leveldb, and the files.
LEMMA ForgetCursor ==
    ASSUME CursorParts, Forget, Filed', stray' = stray, AreRows(ldb'), WriteLoc \in DOMAIN ldb',
           Behind(ldb', ldb'[WriteLoc]), ldb'[WriteLoc].file <= MaxFileNum
    PROVE  CursorParts'
<1>1. /\ db' = "down" /\ wc' = [file |-> 0, off |-> 0, open |-> FALSE]
      /\ cachedKeys' = Empty /\ cachedRemove' = {} /\ tx' = Idle /\ reader' = NoReader
  BY DEF Forget
<1>2. /\ tx'.keys = Empty /\ tx'.remove = {} /\ tx'.st = "idle" /\ DOMAIN tx'.del = {}
      /\ tx'.del = <<>> /\ tx'.old \in Locs /\ AreRows(tx'.keys) /\ tx'.old.file = 0
      /\ tx'.pend \in Seq(Blocks) /\ tx'.del \in Seq(Nat) /\ Len(tx'.pend) = 0
  BY <1>1, IdleRows
<1>3. wc' \in Cursor /\ wc'.file = 0 /\ reader'.rows = Empty
  BY <1>1 DEF Cursor, NoReader
<1> USE DEF CursorParts
<1>4. AreRows(Empty)
  BY IdleRows
<1>5. Typed'
  BY <1>1, <1>2, <1>3, <1>4 DEF Typed, AreRows
<1>6. Room'
  BY <1>2, <1>3, Constants DEF Room
<1>7. Cursors'
  <2>1. Behind(tx.keys, wc)'
    BY <1>2, IdleRows DEF Behind, BlocksOf
  <2> QED
    BY <2>1, <1>1, <1>2 DEF Cursors, Behind, LE, BlocksOf, EndOf
<1>8. Deleting'
  BY <1>1, <1>2 DEF Deleting
<1> QED
  BY <1>5, <1>6, <1>7, <1>8

LEMMA StopCursor ==
    ASSUME CursorParts, StoreInv, Close \/ CloseFails \/ Kill \/ PowerFailure
    PROVE  CursorParts'
<1>1. ASSUME Forget, Filed', stray' = stray, ldb' = ldb PROVE CursorParts'
  BY <1>1, ForgetCursor DEF CursorParts, Typed, Cursors, Room
<1>2. CASE CloseFails \/ Kill
  <2>1. Forget /\ files' = files /\ ldb' = ldb /\ stray' = stray
    BY <1>2 DEF CloseFails, Kill, disk
  <2>2. Filed'
    BY <2>1 DEF CursorParts, Filed
  <2> QED
    BY <1>1, <2>1, <2>2
<1>3. CASE PowerFailure
  <2>1. Forget /\ ldb' = ldb /\ stray' = stray
    BY <1>3 DEF PowerFailure
  <2>2. PICK fate : files' = [n \in DOMAIN files |-> Survived(n, fate)]
    BY <1>3 DEF PowerFailure
  <2>3. \A n \in DOMAIN files : IsFile(Survived(n, fate))
    BY SurvivedFile DEF CursorParts
  <2>4. DOMAIN files' = DOMAIN files /\ \A n \in DOMAIN files : files'[n] = Survived(n, fate)
    BY <2>2
  <2>5. Filed'
    BY <2>3, <2>4 DEF CursorParts, Filed
  <2> QED
    BY <1>1, <2>1, <2>5
<1>4. CASE Close
  <2>1. /\ Forget /\ ldb' = View /\ stray' = stray /\ files' = syncBlocks /\ db = "up"
    BY <1>4, TreapsAreView DEF Close, View, hist
  <2>2. Filed'
    BY <2>1, SyncBlocksFiled DEF CursorParts
  <2>3. AreRows(View) /\ WriteLoc \in DOMAIN View /\ View[WriteLoc] \in Locs
    BY ViewRows DEF CursorParts
  <2>4. Behind(View, View[WriteLoc]) /\ LE(View[WriteLoc], wc)
    BY <2>1 DEF CursorParts, Cursors
  <2>5. View[WriteLoc].file <= MaxFileNum
    BY <2>3, <2>4, Constants DEF LE, Locs, CursorParts, Room, Typed, Cursor
  <2> QED
    BY <2>1, <2>2, <2>3, <2>4, <2>5, ForgetCursor
<1> QED
  BY <1>2, <1>3, <1>4

LEMMA OpenCursor ==
    ASSUME CursorParts, StoreInv, Closed, openDB
    PROVE  CursorParts'
<1>1. db = "down" /\ UNCHANGED <<ldb, cachedKeys, cachedRemove, tx, reader>>
  BY DEF openDB, cache
<1>2. /\ ldb[WriteLoc] \in Locs /\ ldb[WriteLoc].file <= MaxFileNum
      /\ Filed /\ tx.st = "idle" /\ Behind(ldb, ldb[WriteLoc])
  BY <1>1 DEF CursorParts, Typed, AreRows, Room, StoreInv, Stopped, Cursors
<1>3. View = ldb /\ View' = ldb
  BY <1>1, SnapEmpty DEF View, StoreInv, Stopped, NoCache, IsRows
<1>4. tx.del = <<>>
  BY <1>2 DEF CursorParts, Deleting
<1> USE DEF CursorParts
<1>5. CASE db' = "refused" /\ UNCHANGED <<files, wc, left, stray, faults>>
  <2>1. Filed' /\ Typed' /\ Room' /\ Deleting'
    BY <1>1, <1>5 DEF Filed, Typed, AreRows, Room, Deleting
  <2>2. Cursors'
    BY <1>1, <1>5 DEF Cursors, Behind, LE, BlocksOf, EndOf, View
  <2> QED
    BY <2>1, <2>2
<1>6. ASSUME wc' \in Cursor, wc'.file = ldb[WriteLoc].file, wc'.off = ldb[WriteLoc].off,
             Filed', db' = "up", stray' \in BOOLEAN,
             ~ stray' => \A n \in DOMAIN files' : n <= wc'.file,
             BlocksOf(tx.keys) = {}, Len(tx.pend) = 0
      PROVE  CursorParts'
  <2>1. Typed'
    BY <1>1, <1>6 DEF Typed, AreRows
  <2>2. Room'
    BY <1>1, <1>2, <1>6 DEF Room, Cursor
  <2>3. Deleting'
    BY <1>1, <1>2, <1>4, <1>6 DEF Deleting
  <2>4. Behind(ldb', ldb'[WriteLoc]) /\ Behind(View', View'[WriteLoc])
    BY <1>1, <1>2, <1>3
  <2>5. LE(View'[WriteLoc], wc')
    <3>1. ldb[WriteLoc].file \in Nat /\ ldb[WriteLoc].off \in Nat
      BY <1>2 DEF Locs
    <3> QED
      BY <1>3, <1>6, <3>1 DEF LE
  <2>6. Behind(tx.keys, wc)'
    BY <1>1, <1>6 DEF Behind, BlocksOf
  <2>7. Cursors'
    BY <1>1, <1>2, <2>4, <2>5, <2>6 DEF Cursors, Behind, LE, BlocksOf, EndOf
  <2> QED
    BY <1>6, <2>1, <2>2, <2>3, <2>7
<1>7. BlocksOf(tx.keys) = {} /\ Len(tx.pend) = 0
  BY <1>2, IdleRows DEF Closed
<1>8. CASE RollBack(scanBlockFiles, ldb[WriteLoc]) /\ db' = "up"
  <2>1. /\ Filed' /\ wc' \in Cursor /\ At(wc') = ldb[WriteLoc]
        /\ stray' = (stray \/ \E n \in DOMAIN files' : n > ldb[WriteLoc].file)
    BY <1>2, <1>8, ScanLast, RollBackEffect
  <2>2. wc'.file = ldb[WriteLoc].file /\ wc'.off = ldb[WriteLoc].off /\ wc'.file \in Nat
    BY <2>1 DEF At, Cursor
  <2>3. stray' \in BOOLEAN
    BY <2>1, Zenon DEF Typed
  <2>4. ~ stray' => \A n \in DOMAIN files' : ~(n > wc'.file)
    BY <2>1, <2>2
  <2>5. ~ stray' => \A n \in DOMAIN files' : n <= wc'.file
    BY <2>1, <2>2, <2>4, Constants DEF Filed
  <2> QED
    BY <1>6, <1>7, <1>8, <2>1, <2>2, <2>3, <2>5
<1>9. CASE /\ At(scanBlockFiles) = ldb[WriteLoc] /\ wc' = scanBlockFiles /\ db' = "up"
           /\ UNCHANGED <<files, left, stray, faults>>
  <2>1. /\ wc' \in Cursor /\ \A n \in DOMAIN files' : n <= wc'.file
    BY <1>2, <1>9, ScanLast
  <2>2. wc'.file = ldb[WriteLoc].file /\ wc'.off = ldb[WriteLoc].off
    BY <1>9 DEF At
  <2>3. Filed' /\ stray' \in BOOLEAN
    BY <1>9 DEF Filed, Typed
  <2> QED
    BY <1>6, <1>7, <1>9, <2>1, <2>2, <2>3
<1> QED
  BY <1>5, <1>8, <1>9 DEF openDB

\* Between transactions nothing of the last one is left.
LEMMA ClosedStep ==
    ASSUME StoreInv, Closed, [Next]_vars
    PROVE  Closed'
<1> USE DEF Closed
<1>1. ASSUME tx'.st # "idle" PROVE Closed'
  BY <1>1
<1>2. ASSUME tx' = Idle PROVE Closed'
  BY <1>2
<1>3. ASSUME tx' = tx PROVE Closed'
  BY <1>3
<1>4. TxShape
  BY DEF StoreInv
<1>5. CASE Begin \/ Commit \/ (\E b \in Blocks : StoreBlock(b))
  BY <1>1, <1>4, <1>5 DEF Begin, Commit, StoreBlock, InTx, TxShape, Idle
<1>6. CASE PruneBlocks \/ (\E b \in Blocks : DeleteBlock(b))
  BY <1>1, <1>4, <1>6 DEF PruneBlocks, DeleteBlock, InTx, deleteKeys, TxShape
<1>7. CASE deleteFile \/ SaveCursor \/ writeBlock \/ writeBlockFails
  BY <1>1, <1>4, <1>7 DEF deleteFile, SaveCursor, writeBlock, writeBlockFails, putKey, TxShape
<1>8. CASE flushSync \/ flushTreaps \/ flushClear
  BY <1>1, <1>4, <1>8 DEF flushSync, flushTreaps, flushClear, WithCursor, putKey, TxShape
<1>9. CASE Rollback \/ deleteFileFails \/ UndoWrites \/ commitToCache \/ commitDirect \/ commitFails
  BY <1>2, <1>9 DEF Rollback, InTx, deleteFileFails, Aborted, UndoWrites, commitToCache,
     commitDirect, commitFails
<1>10. CASE Close \/ CloseFails \/ Kill \/ PowerFailure
  BY <1>2, <1>10 DEF Close, CloseFails, Kill, PowerFailure, Forget
<1>11. CASE ReaderLdb \/ ReaderRoots \/ ReaderEnd \/ openDB \/ UNCHANGED vars
  BY <1>3, <1>11 DEF ReaderLdb, ReaderRoots, ReaderEnd, openDB, vars
<1> QED
  BY <1>5, <1>6, <1>7, <1>8, <1>9, <1>10, <1>11 DEF Next

LEMMA CursorStep ==
    ASSUME CursorInv, [Next]_vars
    PROVE  CursorInv'
<1>1. StoreInv' /\ Closed'
  BY StepInv, ClosedStep DEF CursorInv
<1>2. StoreInv /\ TxShape /\ Stopped /\ Closed /\ CursorParts
  BY DEF CursorInv, StoreInv
<1> SUFFICES CursorParts'
  BY <1>1 DEF CursorInv
<1>3. CASE Begin
  BY <1>2, <1>3, BeginCursor
<1>4. CASE Rollback
  <2>1. tx' = Idle /\ UNCHANGED <<files, wc, ldb, cachedKeys, cachedRemove, reader, db, stray>>
    BY <1>4 DEF Rollback, InTx, disk, cache, hist
  <2> QED
    BY <1>2, <2>1, TxClosed
<1>5. CASE Commit \/ PruneBlocks \/ (\E b \in Blocks : StoreBlock(b) \/ DeleteBlock(b))
  BY <1>2, <1>5, CommitCursor, PruneCursor, StoreCursor, DeleteBlockCursor
<1>6. CASE deleteFile
  BY <1>2, <1>6, DeleteFileCursor
<1>7. CASE deleteFileFails \/ commitFails
  <2>1. tx' = Idle /\ UNCHANGED <<files, wc, ldb, cachedKeys, cachedRemove, reader, db, stray>>
    BY <1>7 DEF deleteFileFails, commitFails, Aborted, disk, cache
  <2> QED
    BY <1>2, <2>1, TxClosed
<1>8. CASE SaveCursor
  BY <1>2, <1>8, SaveCursorCursor
<1>9. CASE writeBlock \/ writeBlockFails \/ UndoWrites
  BY <1>2, <1>9, WriteCursor, WriteFailsCursor, UndoCursor
<1>10. CASE commitToCache \/ flushSync \/ flushTreaps \/ flushClear \/ commitDirect
  BY <1>2, <1>10, ToCacheCursor, FlushSyncCursor, TreapsCursor, ClearCursor, DirectCursor
<1>11. CASE ReaderLdb \/ ReaderRoots \/ ReaderEnd
  BY <1>2, <1>11, ReaderCursor
<1>12. CASE Close \/ CloseFails \/ Kill \/ PowerFailure
  BY <1>2, <1>12, StopCursor
<1>13. CASE openDB
  BY <1>2, <1>13, OpenCursor
<1>14. CASE UNCHANGED vars
  <2>1. UNCHANGED <<files, wc, ldb, cachedKeys, cachedRemove, tx, reader, db, stray>>
    BY <1>14 DEF vars, disk, cache, hist
  <2>2. Filed'
    BY <1>2, <2>1 DEF CursorParts, Filed
  <2> QED
    BY <1>2, <2>1, <2>2, FilesOnly
<1> QED
  BY <1>3, <1>4, <1>5, <1>6, <1>7, <1>8, <1>9, <1>10, <1>11, <1>12, <1>13, <1>14
  DEF Next

THEOREM CursorInvariant == Spec => []CursorInv
<1>1. Init => CursorInv
  BY InitInv, CursorInit DEF CursorInv, Init, Closed
<1>2. CursorInv /\ [Next]_vars => CursorInv'
  BY CursorStep
<1> QED
  BY <1>1, <1>2, PTL DEF Spec

\* Every committed record ends at or before the write cursor, in memory and in
\* the leveldb, so that writeBlock overwrites nothing that a row names; and
\* PruneBlocks never deletes the file being written, unless a rollback could
\* not delete a newer one.
THEOREM CursorAlways == Spec => []CursorSound
<1>1. CursorInv => CursorSound
  <2> SUFFICES ASSUME CursorInv PROVE CursorSound
    OBVIOUS
  <2>1. Filed /\ Typed /\ Cursors /\ Deleting
    BY DEF CursorInv, CursorParts
  <2>2. At(wc) \in Locs
    BY <2>1 DEF Typed, Cursor, At, Locs
  <2>3. TypeOK
    BY <2>1, <2>2 DEF TypeOK, Filed, IsFile, Typed, Cursor
  <2>4. CurrentKept
    <3>1. wc.file \in Nat
      BY <2>1 DEF Typed, Cursor
    <3> QED
      BY <2>1, <3>1 DEF CurrentKept, Deleting, Typed
  <2>5. ASSUME NEW rows, AreRows(rows), NEW c, c.file \in Nat, c.off \in Nat, Behind(rows, c),
               NEW b \in BlocksOf(rows)
        PROVE  ~ Less(c, [file |-> rows[b].file, off |-> rows[b].off + BlockLen[b]])
    <3>1. EndOf(rows, b) = [file |-> rows[b].file, off |-> rows[b].off + BlockLen[b]]
      BY DEF EndOf
    <3>2. EndOf(rows, b).file \in Nat /\ EndOf(rows, b).off \in Nat
      BY <2>5, EndIsLoc
    <3>3. LE(EndOf(rows, b), c)
      BY <2>5 DEF Behind
    <3>4. ~ Less(c, EndOf(rows, b))
      BY <2>5, <3>2, <3>3, NotAfter
    <3> QED
      BY <3>1, <3>4
  <2>6. /\ AreRows(ldb) /\ ldb[WriteLoc] \in Locs /\ Behind(ldb, ldb[WriteLoc])
        /\ AreRows(View) /\ wc.file \in Nat /\ wc.off \in Nat
    BY <2>1, ViewRows DEF Typed, AreRows, Cursors, Cursor
  <2>7. \A b \in BlocksOf(ldb) :
          ~ Less(ldb[WriteLoc], [file |-> ldb[b].file, off |-> ldb[b].off + BlockLen[b]])
    BY <2>5, <2>6 DEF Locs
  <2>8. db = "up" => Behind(View, wc)
    BY <2>1, <2>6, ViewRows, BehindFurther DEF Cursors, Locs
  <2>9. db = "up" => \A b \in BlocksOf(View) :
          ~ Less(wc, [file |-> View[b].file, off |-> View[b].off + BlockLen[b]])
    BY <2>5, <2>6, <2>8
  <2>10. NothingLiveAhead
    BY <2>7, <2>9 DEF NothingLiveAhead
  <2> QED
    BY <2>3, <2>4, <2>10 DEF CursorSound
<1> QED
  BY <1>1, CursorInvariant, PTL
-----------------------------------------------------------------------------
(***************************************************************************)
(* A stored block is kept: what a row names can be read, through failed    *)
(* writes and commits, rollbacks, pruning, kills, power failures and       *)
(* restarts, except for the losses that BlocksReadable names.              *)
(*                                                                         *)
(* A row is not looked at where it is read from but wherever it may come   *)
(* back from: the leveldb, the cache, the transaction and the snapshot of  *)
(* the reader.  Each of them keeps its rows behind the committed cursor,   *)
(* and every change of the files keeps what is below some cursor           *)
(* (KeepsBelow).  A row of the leveldb is synced, or in a file that was    *)
(* left without a sync; one of the cache may also be in the file that is   *)
(* open, which the next flush syncs before it writes the leveldb.          *)
(***************************************************************************)

EndAt(loc, n) == [file |-> loc.file, off |-> loc.off + n]

\* What is at the location is the block's own record or zeros.
OwnAt(loc, b) ==
    loc.file \in DOMAIN files => \A i \in 1..BlockLen[b] :
        loc.off + i <= Len(files[loc.file].data) =>
            files[loc.file].data[loc.off + i] \in {<<b, i>>, Hole}

Within(loc, n) == loc.file \in DOMAIN files /\ loc.off + n <= Len(files[loc.file].data)
Safe(loc, n) == loc.off + n <= files[loc.file].synced \/ loc.file \in left
Current(loc) == loc.file = wc.file /\ wc.open
Stored(loc, b) == Reads(loc, b) /\ Safe(loc, BlockLen[b])
Written(loc, b) == Reads(loc, b) /\ (Safe(loc, BlockLen[b]) \/ Current(loc))
StoredTo(c) == Within(c, 0) /\ Safe(c, 0)
WrittenTo(c) == Within(c, 0) /\ (Safe(c, 0) \/ Current(c))
Zero(c) == c.file = 0 /\ c.off = 0
Gone == lost \cup pruned

\* The rows that may come back, and the committed cursors.
Rows ==
    /\ \A b \in BlocksOf(ldb) :
         /\ OwnAt(ldb[b], b) /\ LE(EndOf(ldb, b), View[WriteLoc])
         /\ Stored(ldb[b], b) \/ ldb[b].file \in Gone
    /\ \A b \in BlocksOf(cachedKeys) :
         /\ OwnAt(cachedKeys[b], b) /\ LE(EndOf(cachedKeys, b), View[WriteLoc])
         /\ Written(cachedKeys[b], b) \/ cachedKeys[b].file \in Gone
    /\ \A b \in BlocksOf(reader.rows) :
         /\ OwnAt(reader.rows[b], b) /\ LE(EndOf(reader.rows, b), View[WriteLoc])
         /\ Reads(reader.rows[b], b) \/ reader.rows[b].file \in Gone
    /\ LE(ldb[WriteLoc], View[WriteLoc])
    /\ Zero(ldb[WriteLoc]) \/ StoredTo(ldb[WriteLoc]) \/ ldb[WriteLoc].file \in Gone
    /\ Zero(View[WriteLoc]) \/ WrittenTo(View[WriteLoc]) \/ View[WriteLoc].file \in Gone

\* The transaction's own rows, and the cursors of the process.
Writing ==
    /\ \A b \in BlocksOf(tx.keys) : Written(tx.keys[b], b)
    /\ tx.st \in {"open", "delete"} => BlocksOf(tx.keys) = {}
    /\ db = "up" /\ tx.st # "undo" => Zero(wc) \/ WrittenTo(wc) \/ wc.file \in lost
    /\ tx.st \in {"write", "undo"} =>
         LE(tx.old, wc) /\ (Zero(tx.old) \/ WrittenTo(tx.old) \/ tx.old.file \in lost)
    /\ tx.st \in {"flush", "clear", "direct"} /\ wc.open /\ wc.file \in DOMAIN files =>
         files[wc.file].synced = Len(files[wc.file].data)

\* What is read now, unless files are being deleted, and what will be read
\* when the transaction is committed.
Present ==
    /\ tx.st \in {"idle", "open"} =>
         /\ \A b \in BlocksOf(View) : Written(View[b], b) \/ View[b].file \in lost
         /\ Zero(View[WriteLoc]) \/ WrittenTo(View[WriteLoc]) \/ View[WriteLoc].file \in lost
    /\ \A b \in BlocksOf(TxView(tx)) :
         \/ /\ Written(TxView(tx)[b], b)
            /\ \A i \in DOMAIN tx.del : tx.del[i] # TxView(tx)[b].file
         \/ TxView(tx)[b].file \in lost

Down == db # "up" => ~ wc.open

BlockParts == Rows /\ Writing /\ Present /\ Down /\ RefusedOnlyAfterLoss
BlocksInv == CursorInv /\ BlockParts

---------------------------------------------------------------------------
(* What a change of the files keeps.                                       *)

\* The file g has what f has below the offset, or zeros beyond the end of f.
KeepsFile(f, g, off) ==
    /\ off <= Len(f.data) => off <= Len(g.data)
    /\ off > Len(f.data) => Len(f.data) <= Len(g.data)
    /\ \A i \in 1..Len(g.data) :
         i <= off => g.data[i] = IF i <= Len(f.data) THEN f.data[i] ELSE Hole
    /\ g.synced >= Smaller(f.synced, off)

KeepsBelow(c) ==
    /\ \A n \in DOMAIN files : n <= c.file => n \in DOMAIN files'
    /\ \A n \in DOMAIN files' : n < c.file => n \in DOMAIN files /\ files'[n] = files[n]
    /\ c.file \in DOMAIN files' => KeepsFile(FileAt(files, c.file), files'[c.file], c.off)
    /\ \A n \in left : n \in DOMAIN files' /\ n <= c.file =>
         n \in left' \/ files'[n].synced = Len(files'[n].data)
    /\ wc.open /\ wc.file <= c.file /\ wc.file \in DOMAIN files =>
         \/ wc'.file = wc.file /\ wc'.open
         \/ wc.file \in left'
         \/ files'[wc.file].synced = Len(files'[wc.file].data)

KeepsRow(loc, b) ==
    /\ OwnAt(loc, b) => OwnAt(loc, b)'
    /\ Reads(loc, b) => Reads(loc, b)'
    /\ Stored(loc, b) => Stored(loc, b)'
    /\ Written(loc, b) => Written(loc, b)'

KeepsCursor(c) ==
    /\ StoredTo(c) => StoredTo(c)'
    /\ WrittenTo(c) => WrittenTo(c)'

LEMMA ReadsWithin ==
    ASSUME NEW loc, NEW b \in Blocks
    PROVE  Reads(loc, b) <=> /\ Within(loc, BlockLen[b])
                             /\ \A i \in 1..BlockLen[b] :
                                  files[loc.file].data[loc.off + i] = <<b, i>>
BY DEF Reads, Within

\* A stretch of n units below c: it stays, its units stay, and what made it
\* safe does, too.
LEMMA StretchKept ==
    ASSUME Filed, Filed', wc \in Cursor, NEW c \in Locs, KeepsBelow(c),
           NEW loc \in Locs, NEW n \in Nat, LE(EndAt(loc, n), c)
    PROVE  /\ Within(loc, n) => Within(loc, n)'
           /\ Within(loc, n) => \A i \in 1..n :
                files'[loc.file].data[loc.off + i] = files[loc.file].data[loc.off + i]
           /\ loc.file \in DOMAIN files' => \A i \in 1..n :
                loc.off + i <= Len(files'[loc.file].data) =>
                  \/ files'[loc.file].data[loc.off + i] = Hole
                  \/ /\ loc.file \in DOMAIN files
                     /\ loc.off + i <= Len(files[loc.file].data)
                     /\ files'[loc.file].data[loc.off + i] = files[loc.file].data[loc.off + i]
           /\ Within(loc, n) /\ Safe(loc, n) => Safe(loc, n)'
           /\ Within(loc, n) /\ Current(loc) => Safe(loc, n)' \/ Current(loc)'
<1>1. PICK o \in Nat, k \in Nat : o = loc.off /\ k = loc.file
  BY DEF Locs
<1>2. PICK p \in Nat, m \in Nat : p = c.off /\ m = c.file
  BY DEF Locs
<1>3. k < m \/ (k = m /\ o + n <= p)
  BY <1>1, <1>2 DEF LE, EndAt
<1>4. k \in DOMAIN files => /\ Len(files[k].data) \in Nat /\ files[k].synced \in Nat
                            /\ files[k].synced <= Len(files[k].data)
  BY DEF Filed, IsFile
<1>5. k \in DOMAIN files' => /\ Len(files'[k].data) \in Nat /\ files'[k].synced \in Nat
                             /\ files'[k].synced <= Len(files'[k].data)
  BY DEF Filed, IsFile
<1>6. k \in DOMAIN files => k \in DOMAIN files'
  BY <1>2, <1>3 DEF KeepsBelow
<1>7. CASE k < m
  <2>1. k \in DOMAIN files' => k \in DOMAIN files /\ files'[k] = files[k]
    BY <1>2, <1>7 DEF KeepsBelow
  <2>2. k \in left /\ k \in DOMAIN files' => k \in left' \/ files'[k].synced = Len(files'[k].data)
    BY <1>2, <1>7 DEF KeepsBelow
  <2>3. k = wc.file /\ wc.open /\ k \in DOMAIN files =>
          (wc'.file = k /\ wc'.open) \/ k \in left' \/ files'[k].synced = Len(files'[k].data)
    BY <1>2, <1>7 DEF KeepsBelow
  <2> QED
    BY <1>1, <1>4, <1>5, <1>6, <2>1, <2>2, <2>3 DEF Within, Safe, Current
<1>8. CASE k = m
  <2>1. k \in DOMAIN files' => KeepsFile(FileAt(files, k), files'[k], p)
    BY <1>2, <1>8 DEF KeepsBelow
  <2>2. k \in DOMAIN files => FileAt(files, k) = files[k]
    BY DEF FileAt
  <2>3. k \notin DOMAIN files => Len(FileAt(files, k).data) = 0
    BY DEF FileAt
  <2>4. k \in left /\ k \in DOMAIN files' => k \in left' \/ files'[k].synced = Len(files'[k].data)
    BY <1>2, <1>8 DEF KeepsBelow
  <2>5. k = wc.file /\ wc.open /\ k \in DOMAIN files =>
          (wc'.file = k /\ wc'.open) \/ k \in left' \/ files'[k].synced = Len(files'[k].data)
    BY <1>2, <1>8 DEF KeepsBelow
  <2>6. \A i \in 1..n : o + i \in Nat /\ o + i > 0 /\ o + i <= p /\ o + i <= o + n
    BY <1>3, <1>8
  <2>7. ASSUME k \in DOMAIN files, o + n <= Len(files[k].data)
        PROVE  /\ k \in DOMAIN files' /\ o + n <= Len(files'[k].data)
               /\ \A i \in 1..n : files'[k].data[o + i] = files[k].data[o + i]
               /\ o + n <= files[k].synced => o + n <= files'[k].synced
    <3>1. KeepsFile(files[k], files'[k], p) /\ k \in DOMAIN files'
      BY <2>7, <1>6, <2>1, <2>2
    <3>2. o + n <= Len(files'[k].data)
      BY <3>1, <2>7, <1>3, <1>4, <1>5, <1>8 DEF KeepsFile
    <3>3. ASSUME NEW i \in 1..n PROVE files'[k].data[o + i] = files[k].data[o + i]
      <4>1. o + i \in 1..Len(files'[k].data) /\ o + i <= p /\ o + i <= Len(files[k].data)
        BY SMTT(30), <2>6, <2>7, <3>1, <3>2, <1>4, <1>5
      <4> QED
        BY <4>1, <3>1 DEF KeepsFile
    <3>4. o + n <= files[k].synced => o + n <= files'[k].synced
      BY <3>1, <2>7, <1>3, <1>4, <1>5, <1>8 DEF KeepsFile, Smaller
    <3> QED
      BY <3>1, <3>2, <3>3, <3>4
  <2>8. ASSUME k \in DOMAIN files', NEW i \in 1..n, o + i <= Len(files'[k].data)
        PROVE  \/ files'[k].data[o + i] = Hole
               \/ /\ k \in DOMAIN files /\ o + i <= Len(files[k].data)
                  /\ files'[k].data[o + i] = files[k].data[o + i]
    <3>1. o + i \in 1..Len(files'[k].data) /\ o + i <= p
      BY <2>6, <2>8, <1>5
    <3>2. files'[k].data[o + i] = IF o + i <= Len(FileAt(files, k).data)
                                  THEN FileAt(files, k).data[o + i] ELSE Hole
      BY <2>1, <2>8, <3>1 DEF KeepsFile
    <3>3. CASE k \in DOMAIN files
      BY <3>2, <3>3, <2>2
    <3>4. CASE k \notin DOMAIN files
      BY <3>1, <3>2, <3>4, <2>3
    <3> QED
      BY <3>3, <3>4
  <2> QED
    BY <1>1, <1>4, <1>5, <2>4, <2>5, <2>7, <2>8 DEF Within, Safe, Current
<1> QED
  BY <1>3, <1>7, <1>8

LEMMA RowKept ==
    ASSUME Filed, Filed', wc \in Cursor, NEW c \in Locs, KeepsBelow(c),
           NEW loc \in Locs, NEW b \in Blocks, LE(EndAt(loc, BlockLen[b]), c)
    PROVE  KeepsRow(loc, b)
<1>1. BlockLen[b] \in Nat
  BY Constants
<1>2. /\ Within(loc, BlockLen[b]) => Within(loc, BlockLen[b])'
      /\ Within(loc, BlockLen[b]) => \A i \in 1..BlockLen[b] :
           files'[loc.file].data[loc.off + i] = files[loc.file].data[loc.off + i]
      /\ loc.file \in DOMAIN files' => \A i \in 1..BlockLen[b] :
           loc.off + i <= Len(files'[loc.file].data) =>
             \/ files'[loc.file].data[loc.off + i] = Hole
             \/ /\ loc.file \in DOMAIN files
                /\ loc.off + i <= Len(files[loc.file].data)
                /\ files'[loc.file].data[loc.off + i] = files[loc.file].data[loc.off + i]
      /\ Within(loc, BlockLen[b]) /\ Safe(loc, BlockLen[b]) => Safe(loc, BlockLen[b])'
      /\ Within(loc, BlockLen[b]) /\ Current(loc) => Safe(loc, BlockLen[b])' \/ Current(loc)'
  BY <1>1, StretchKept
<1>3. OwnAt(loc, b) => OwnAt(loc, b)'
  BY <1>2 DEF OwnAt
<1>4. Reads(loc, b) => Within(loc, BlockLen[b]) /\ Reads(loc, b)'
  BY <1>2 DEF Reads, Within
<1> QED
  BY <1>2, <1>3, <1>4 DEF KeepsRow, Stored, Written

LEMMA CursorKept ==
    ASSUME Filed, Filed', wc \in Cursor, NEW c \in Locs, KeepsBelow(c),
           NEW d \in Locs, LE(d, c)
    PROVE  KeepsCursor(d)
<1>1. EndAt(d, 0) = d /\ 0 \in Nat
  <2>1. d.off + 0 = d.off /\ d = [file |-> d.file, off |-> d.off]
    BY DEF Locs
  <2> QED
    BY <2>1 DEF EndAt
<1>2. LE(EndAt(d, 0), c)
  BY <1>1
<1>3. /\ Within(d, 0) => Within(d, 0)'
      /\ Within(d, 0) /\ Safe(d, 0) => Safe(d, 0)'
      /\ Within(d, 0) /\ Current(d) => Safe(d, 0)' \/ Current(d)'
  BY <1>1, <1>2, StretchKept
<1> QED
  BY <1>3 DEF KeepsCursor, StoredTo, WrittenTo

LEMMA NothingMoved ==
    ASSUME UNCHANGED <<files, wc, left>>, NEW loc, NEW b
    PROVE  KeepsRow(loc, b) /\ KeepsCursor(loc)
BY DEF KeepsRow, KeepsCursor, OwnAt, Reads, Stored, Written, StoredTo, WrittenTo, Within,
   Safe, Current

LEMMA FileKeepsItself ==
    ASSUME NEW f, IsFile(f), NEW off \in Nat
    PROVE  KeepsFile(f, f, off)
BY DEF KeepsFile, IsFile, Smaller

LEMMA WriteKeeps ==
    ASSUME NEW f, IsFile(f), NEW off \in Nat, NEW u \in Seq(Units)
    PROVE  KeepsFile(f, WriteAt(f, off, u), off)
<1>1. PICK g : g = WriteAt(f, off, u) /\ IsFile(g)
                  /\ Len(g.data) >= off + Len(u) /\ Len(g.data) >= Len(f.data)
                  /\ g.synced = Smaller(f.synced, off)
  BY WriteFile
<1>2. ASSUME NEW i \in 1..Len(g.data)
      PROVE  g.data[i] = IF i > off /\ i <= off + Len(u) THEN u[i - off]
                         ELSE IF i <= Len(f.data) THEN f.data[i] ELSE Hole
  <2>1. i \in 1..Len(WriteAt(f, off, u).data)
    BY <1>1
  <2>2. WriteAt(f, off, u).data[i] = IF i > off /\ i <= off + Len(u) THEN u[i - off]
                                     ELSE IF i <= Len(f.data) THEN f.data[i] ELSE Hole
    BY <2>1, WriteFile, SMTT(60)
  <2> QED
    BY <1>1, <2>2
<1>3. /\ Len(g.data) \in Nat /\ Len(f.data) \in Nat /\ Len(u) \in Nat /\ f.synced \in Nat
  BY <1>1 DEF IsFile
<1>4. \A i \in 1..Len(g.data) :
        i <= off => g.data[i] = IF i <= Len(f.data) THEN f.data[i] ELSE Hole
  BY <1>2, <1>3
<1>5. g.synced >= Smaller(f.synced, off) /\ Len(f.data) <= Len(g.data) /\ off <= Len(g.data)
  BY <1>1, <1>3 DEF Smaller
<1> QED
  BY <1>1, <1>4, <1>5 DEF KeepsFile

LEMMA TruncateKeeps ==
    ASSUME NEW f, IsFile(f), NEW off \in Nat
    PROVE  /\ KeepsFile(f, Truncate(f, off), off)
           /\ KeepsFile(f, Sync(Truncate(f, off)), off)
           /\ Len(Truncate(f, off).data) = off
           /\ Sync(Truncate(f, off)).data = Truncate(f, off).data
           /\ Sync(Truncate(f, off)).synced = off
<1>1. PICK g : g = Truncate(f, off)
  OBVIOUS
<1>2. /\ IsFile(g) /\ Len(g.data) = off
      /\ \A i \in 1..off : g.data[i] = IF i <= Len(f.data) THEN f.data[i] ELSE Hole
      /\ g.synced = Smaller(f.synced, off)
  BY <1>1, TruncateFile
<1>3. Sync(g).data = g.data /\ Sync(g).synced = off
  BY <1>2, SyncFile
<1>4. Len(f.data) \in Nat /\ f.synced \in Nat /\ Smaller(f.synced, off) <= off
  BY DEF IsFile, Smaller
<1>5. Smaller(f.synced, off) \in Nat
  BY <1>4 DEF Smaller
<1>6. KeepsFile(f, g, off)
  BY <1>2, <1>4, <1>5 DEF KeepsFile
<1>7. KeepsFile(f, Sync(g), off)
  BY <1>2, <1>3, <1>4, <1>5 DEF KeepsFile
<1> QED
  BY <1>1, <1>2, <1>3, <1>6, <1>7

\* A rollback keeps what is below the location it goes back to.
LEMMA RollBackKeeps ==
    ASSUME Filed, NEW c \in Cursor, NEW to \in Locs, to.file <= MaxFileNum, RollBack(c, to),
           LE(to, c), wc.open => wc = c
    PROVE  KeepsBelow(to)
<1>1. /\ Filed'
      /\ wc' \in Cursor /\ At(wc') = to
      /\ \A n \in DOMAIN files : n < to.file => n \in DOMAIN files'
      /\ \A n \in DOMAIN files' : n # to.file => n \in DOMAIN files /\ files'[n] = files[n]
      /\ to.file \in DOMAIN files => to.file \in DOMAIN files'
      /\ to.file \in DOMAIN files' =>
           LET f == FileAt(files, to.file)
           IN  files'[to.file] \in {f, Truncate(f, to.off), Sync(Truncate(f, to.off))}
      /\ wc'.open \/ ~(c.open /\ c.file = to.file)
      /\ left' = {n \in left \cap DOMAIN files' : files'[n].synced < Len(files'[n].data)}
  BY RollBackEffect
<1>2. to.file \in Nat /\ to.off \in Nat /\ c.file \in Nat /\ wc'.file = to.file
  BY <1>1 DEF Locs, Cursor, At
<1>3. \A n \in DOMAIN files : n \in Nat
  BY Constants DEF Filed
<1>4. \A n \in DOMAIN files' : n \in Nat /\ Len(files'[n].data) \in Nat
          /\ files'[n].synced \in Nat /\ files'[n].synced <= Len(files'[n].data)
  BY <1>1, Constants DEF Filed, IsFile
<1>5. \A n \in DOMAIN files : n <= to.file => n \in DOMAIN files'
  BY <1>1, <1>2, <1>3
<1>6. \A n \in DOMAIN files' : n < to.file => n \in DOMAIN files /\ files'[n] = files[n]
  BY <1>1, <1>2, <1>4
<1>7. to.file \in DOMAIN files' => KeepsFile(FileAt(files, to.file), files'[to.file], to.off)
  <2>1. IsFile(FileAt(files, to.file))
    BY FileAtFile
  <2>2. /\ KeepsFile(FileAt(files, to.file), FileAt(files, to.file), to.off)
        /\ KeepsFile(FileAt(files, to.file), Truncate(FileAt(files, to.file), to.off), to.off)
        /\ KeepsFile(FileAt(files, to.file), Sync(Truncate(FileAt(files, to.file), to.off)), to.off)
    BY <2>1, <1>2, FileKeepsItself, TruncateKeeps
  <2> QED
    BY <1>1, <2>2
<1>8. \A n \in left : n \in DOMAIN files' /\ n <= to.file =>
        n \in left' \/ files'[n].synced = Len(files'[n].data)
  BY <1>1, <1>4
<1>9. wc.open /\ wc.file <= to.file /\ wc.file \in DOMAIN files => wc'.file = wc.file /\ wc'.open
  BY <1>1, <1>2 DEF LE
<1> QED
  BY <1>5, <1>6, <1>7, <1>8, <1>9 DEF KeepsBelow

\* So does a write, at or after the cursor, of what is below the cursor.
LEMMA WritingKeeps ==
    ASSUME Filed, wc \in Cursor, NEW loc \in Locs, LE(wc, loc),
           loc.file \in {wc.file, wc.file + 1}, loc.file = wc.file => loc = At(wc),
           left' = left \cup MovedOn(loc), wc'.file = loc.file,
           wc'.open \/ loc.file # wc.file \/ ~ wc.open,
           \/ files' = files
           \/ files' = Put(files, loc.file, FileAt(files, loc.file))
           \/ \E u \in Seq(Units) :
                files' = Put(files, loc.file, WriteAt(FileAt(files, loc.file), loc.off, u))
    PROVE  KeepsBelow(At(wc))
<1>1. /\ wc.file \in Nat /\ wc.off \in Nat /\ loc.file \in Nat /\ loc.off \in Nat
      /\ At(wc).file = wc.file /\ At(wc).off = wc.off
  BY DEF Cursor, Locs, At
<1>2. \A n \in DOMAIN files : /\ n \in Nat /\ IsFile(files[n]) /\ files[n].synced \in Nat
                              /\ Len(files[n].data) \in Nat
                              /\ files[n].synced <= Len(files[n].data)
  BY Constants DEF Filed, IsFile
<1>3. IsFile(FileAt(files, loc.file)) /\ IsFile(FileAt(files, wc.file))
  BY FileAtFile
<1> DEFINE Around ==
      /\ DOMAIN files \subseteq DOMAIN files'
      /\ DOMAIN files' \subseteq DOMAIN files \cup {loc.file}
      /\ \A n \in DOMAIN files : n # loc.file => files'[n] = files[n]
      /\ loc.file \in DOMAIN files' => KeepsFile(FileAt(files, loc.file), files'[loc.file], loc.off)
<1>4. Around
  <2>1. CASE files' = files
    <3>1. loc.file \in DOMAIN files => FileAt(files, loc.file) = files[loc.file]
      BY DEF FileAt
    <3> QED
      BY <2>1, <3>1, <1>1, <1>3, FileKeepsItself
  <2>2. ASSUME NEW g, files' = Put(files, loc.file, g),
               KeepsFile(FileAt(files, loc.file), g, loc.off)
        PROVE  Around
    <3>1. /\ DOMAIN files' = DOMAIN files \cup {loc.file} /\ files'[loc.file] = g
          /\ \A m \in DOMAIN files \ {loc.file} : files'[m] = files[m]
      BY <2>2 DEF Put, Merge
    <3> QED
      BY <2>2, <3>1
  <2>3. CASE files' = Put(files, loc.file, FileAt(files, loc.file))
    BY <2>2, <2>3, <1>1, <1>3, FileKeepsItself
  <2>4. ASSUME NEW u \in Seq(Units),
               files' = Put(files, loc.file, WriteAt(FileAt(files, loc.file), loc.off, u))
        PROVE  Around
    BY <2>2, <2>4, <1>1, <1>3, WriteKeeps
  <2> QED
    BY <2>1, <2>3, <2>4
<1>5. wc.file \in DOMAIN files' => KeepsFile(FileAt(files, wc.file), files'[wc.file], wc.off)
  <2>1. CASE loc.file = wc.file
    BY <2>1, <1>1, <1>4
  <2>2. CASE loc.file # wc.file
    <3>1. wc.file \in DOMAIN files' => wc.file \in DOMAIN files /\ files'[wc.file] = files[wc.file]
      BY <2>2, <1>4
    <3>2. wc.file \in DOMAIN files => FileAt(files, wc.file) = files[wc.file]
      BY DEF FileAt
    <3> QED
      BY <3>1, <3>2, <1>1, <1>3, FileKeepsItself
  <2> QED
    BY <2>1, <2>2
<1>6. \A n \in DOMAIN files' : n < wc.file => n \in DOMAIN files /\ files'[n] = files[n]
  BY <1>1, <1>2, <1>4
<1>7. wc.open /\ wc.file \in DOMAIN files =>
         \/ wc'.file = wc.file /\ wc'.open
         \/ wc.file \in left'
         \/ files'[wc.file].synced = Len(files'[wc.file].data)
  <2>1. CASE loc.file = wc.file
    BY <2>1
  <2>2. CASE loc.file # wc.file
    BY <2>2, <1>2, <1>4 DEF MovedOn
  <2> QED
    BY <2>1, <2>2
<1> QED
  BY <1>1, <1>4, <1>5, <1>6, <1>7 DEF KeepsBelow

---------------------------------------------------------------------------
(* What the parts of the invariant need of a step.                         *)

\* Locations of a set of rows that are behind a cursor.
LEMMA RowLoc ==
    ASSUME NEW rows, AreRows(rows), NEW b \in BlocksOf(rows)
    PROVE  /\ b \in Blocks /\ rows[b] \in Locs /\ b # WriteLoc /\ b \in DOMAIN rows
           /\ EndOf(rows, b) = EndAt(rows[b], BlockLen[b])
BY EndIsLoc DEF BlocksOf, EndOf, EndAt

LEMMA StoredWritten ==
    ASSUME NEW loc, NEW b \in Blocks
    PROVE  /\ Stored(loc, b) => Written(loc, b)
           /\ Written(loc, b) => Reads(loc, b)
           /\ Reads(loc, b) => OwnAt(loc, b)
           /\ StoredTo(loc) => WrittenTo(loc)
BY DEF Stored, Written, Reads, OwnAt, StoredTo, WrittenTo

\* A step that leaves leveldb, cache and reader alone and keeps what is below
\* the committed cursor, but for files that it prunes, keeps their rows.
LEMMA RowsKept ==
    ASSUME Typed, Rows, UNCHANGED <<ldb, cachedKeys, cachedRemove, reader>>,
           lost \subseteq lost', pruned \subseteq pruned',
           \A loc \in Locs, b \in Blocks :
              LE(EndAt(loc, BlockLen[b]), View[WriteLoc]) =>
                 /\ OwnAt(loc, b) => OwnAt(loc, b)'
                 /\ KeepsRow(loc, b) \/ loc.file \in pruned',
           \A d \in Locs : LE(d, View[WriteLoc]) => KeepsCursor(d) \/ d.file \in pruned'
    PROVE  Rows'
<1>1. View' = View
  BY DEF View
<1>2. /\ AreRows(ldb) /\ AreRows(cachedKeys) /\ AreRows(reader.rows)
      /\ ldb[WriteLoc] \in Locs /\ View[WriteLoc] \in Locs
  BY ViewRows DEF Typed, AreRows
<1>3. ASSUME NEW loc \in Locs, NEW b \in Blocks, LE(EndAt(loc, BlockLen[b]), View[WriteLoc])
      PROVE  /\ OwnAt(loc, b) => OwnAt(loc, b)'
             /\ Stored(loc, b) \/ loc.file \in Gone => Stored(loc, b)' \/ loc.file \in Gone'
             /\ Written(loc, b) \/ loc.file \in Gone => Written(loc, b)' \/ loc.file \in Gone'
             /\ Reads(loc, b) \/ loc.file \in Gone => Reads(loc, b)' \/ loc.file \in Gone'
  BY <1>3 DEF KeepsRow, Gone
<1>4. ASSUME NEW b \in BlocksOf(ldb)
      PROVE  /\ OwnAt(ldb[b], b)' /\ LE(EndOf(ldb, b), View[WriteLoc])'
             /\ Stored(ldb[b], b)' \/ ldb'[b].file \in Gone'
  <2>1. PICK loc \in Locs : loc = ldb[b] /\ b \in Blocks /\ EndOf(ldb, b) = EndAt(loc, BlockLen[b])
    BY <1>2, RowLoc
  <2>2. OwnAt(loc, b) /\ LE(EndAt(loc, BlockLen[b]), View[WriteLoc])
          /\ (Stored(loc, b) \/ loc.file \in Gone)
    BY <2>1 DEF Rows
  <2>3. OwnAt(loc, b)' /\ (Stored(loc, b)' \/ loc.file \in Gone')
    BY <2>1, <2>2, <1>3
  <2>4. loc = ldb'[b] /\ LE(EndOf(ldb, b), View[WriteLoc])'
    BY <2>1, <2>2, <1>1 DEF EndOf
  <2> QED
    BY <2>3, <2>4
<1>5. ASSUME NEW b \in BlocksOf(cachedKeys)
      PROVE  /\ OwnAt(cachedKeys[b], b)' /\ LE(EndOf(cachedKeys, b), View[WriteLoc])'
             /\ Written(cachedKeys[b], b)' \/ cachedKeys'[b].file \in Gone'
  <2>1. PICK loc \in Locs : /\ loc = cachedKeys[b] /\ b \in Blocks
                            /\ EndOf(cachedKeys, b) = EndAt(loc, BlockLen[b])
    BY <1>2, RowLoc
  <2>2. OwnAt(loc, b) /\ LE(EndAt(loc, BlockLen[b]), View[WriteLoc])
          /\ (Written(loc, b) \/ loc.file \in Gone)
    BY <2>1 DEF Rows
  <2>3. OwnAt(loc, b)' /\ (Written(loc, b)' \/ loc.file \in Gone')
    BY <2>1, <2>2, <1>3
  <2>4. loc = cachedKeys'[b] /\ LE(EndOf(cachedKeys, b), View[WriteLoc])'
    BY <2>1, <2>2, <1>1 DEF EndOf
  <2> QED
    BY <2>3, <2>4
<1>6. ASSUME NEW b \in BlocksOf(reader.rows)
      PROVE  /\ OwnAt(reader.rows[b], b)' /\ LE(EndOf(reader.rows, b), View[WriteLoc])'
             /\ Reads(reader.rows[b], b)' \/ reader'.rows[b].file \in Gone'
  <2>1. PICK loc \in Locs : /\ loc = reader.rows[b] /\ b \in Blocks
                            /\ EndOf(reader.rows, b) = EndAt(loc, BlockLen[b])
    BY <1>2, RowLoc
  <2>2. OwnAt(loc, b) /\ LE(EndAt(loc, BlockLen[b]), View[WriteLoc])
          /\ (Reads(loc, b) \/ loc.file \in Gone)
    BY <2>1 DEF Rows
  <2>3. OwnAt(loc, b)' /\ (Reads(loc, b)' \/ loc.file \in Gone')
    BY <2>1, <2>2, <1>3
  <2>4. loc = reader'.rows[b] /\ LE(EndOf(reader.rows, b), View[WriteLoc])'
    BY <2>1, <2>2, <1>1 DEF EndOf
  <2> QED
    BY <2>3, <2>4
<1>7. ASSUME NEW d \in Locs, LE(d, View[WriteLoc])
      PROVE  /\ StoredTo(d) \/ d.file \in Gone => StoredTo(d)' \/ d.file \in Gone'
             /\ WrittenTo(d) \/ d.file \in Gone => WrittenTo(d)' \/ d.file \in Gone'
  BY <1>7 DEF KeepsCursor, Gone
<1>8. /\ LE(ldb[WriteLoc], View[WriteLoc])'
      /\ (Zero(ldb[WriteLoc]) \/ StoredTo(ldb[WriteLoc]) \/ ldb[WriteLoc].file \in Gone)'
  <2>1. PICK d \in Locs : d = ldb[WriteLoc] /\ d = ldb'[WriteLoc]
    BY <1>2
  <2>2. LE(d, View[WriteLoc]) /\ (Zero(d) \/ StoredTo(d) \/ d.file \in Gone)
    BY <2>1 DEF Rows
  <2>3. Zero(d) \/ StoredTo(d)' \/ d.file \in Gone'
    BY <2>2, <1>7
  <2> QED
    BY <2>1, <2>2, <2>3, <1>1 DEF Zero
<1>9. (Zero(View[WriteLoc]) \/ WrittenTo(View[WriteLoc]) \/ View[WriteLoc].file \in Gone)'
  <2>1. PICK d \in Locs : d = View[WriteLoc] /\ d = View'[WriteLoc]
    BY <1>1, <1>2
  <2>2. LE(d, View[WriteLoc]) /\ (Zero(d) \/ WrittenTo(d) \/ d.file \in Gone)
    <3>1. LE(d, d)
      BY NotAfter DEF Locs
    <3> QED
      BY <2>1, <3>1 DEF Rows
  <2>3. Zero(d) \/ WrittenTo(d)' \/ d.file \in Gone'
    BY <2>2, <1>7
  <2> QED
    BY <2>1, <2>3 DEF Zero
<1>10. BlocksOf(ldb)' = BlocksOf(ldb) /\ BlocksOf(cachedKeys)' = BlocksOf(cachedKeys)
         /\ BlocksOf(reader.rows)' = BlocksOf(reader.rows)
  BY DEF BlocksOf
<1> QED
  BY <1>4, <1>5, <1>6, <1>8, <1>9, <1>10 DEF Rows

\* The same when no file is touched.
LEMMA RowsStill ==
    ASSUME Typed, Rows, UNCHANGED <<ldb, cachedKeys, cachedRemove, reader, files, wc, left>>,
           lost \subseteq lost', pruned \subseteq pruned'
    PROVE  Rows'
BY NothingMoved, RowsKept DEF KeepsRow

\* What a transaction with no rows of its own reads.
LEMMA IdleView ==
    ASSUME NEW V, V = [k \in DOMAIN V |-> V[k]]
    PROVE  Snap(V, Idle.keys, Idle.remove) = V
BY SnapEmpty, IdleRows

LEMMA ViewIsRows == View = [k \in DOMAIN View |-> View[k]]
BY SnapIsRows DEF View

\* Rows of a file that may have been pruned count as lost when an error or a
\* crash brings them back.
LEMMA ViewKept ==
    ASSUME Typed, Rows
    PROVE  /\ \A b \in BlocksOf(View) : Written(View[b], b) \/ View[b].file \in Gone
           /\ \A b \in BlocksOf(View) : OwnAt(View[b], b) /\ LE(EndOf(View, b), View[WriteLoc])
<1> SUFFICES ASSUME NEW b \in BlocksOf(View)
             PROVE  /\ Written(View[b], b) \/ View[b].file \in Gone
                    /\ OwnAt(View[b], b) /\ LE(EndOf(View, b), View[WriteLoc])
  OBVIOUS
<1>1. b \in Blocks
  BY ViewRows, RowLoc
<1>2. CASE b \in DOMAIN cachedKeys
  <2>1. View[b] = cachedKeys[b] /\ b \in BlocksOf(cachedKeys)
    BY <1>2 DEF View, Snap, BlocksOf
  <2> QED
    BY <2>1 DEF Rows, EndOf
<1>3. CASE b \notin DOMAIN cachedKeys
  <2>1. View[b] = ldb[b] /\ b \in BlocksOf(ldb)
    BY <1>3 DEF View, Snap, BlocksOf
  <2> QED
    BY <2>1, <1>1, StoredWritten DEF Rows, EndOf
<1> QED
  BY <1>2, <1>3

LEMMA Unpack ==
    ASSUME BlocksInv
    PROVE  /\ StoreInv /\ TxShape /\ Stopped /\ Closed /\ Filed /\ Typed /\ Room /\ Cursors
           /\ Deleting /\ Rows /\ Writing /\ Present /\ Down /\ RefusedOnlyAfterLoss
           /\ CursorParts /\ wc \in Cursor /\ At(wc) \in Locs
           /\ At(wc).file = wc.file /\ At(wc).off = wc.off
           /\ wc.file \in Nat /\ wc.off \in Nat
           /\ View[WriteLoc] \in Locs /\ View[WriteLoc].file \in Nat /\ View[WriteLoc].off \in Nat
<1>1. /\ StoreInv /\ TxShape /\ Stopped /\ Closed /\ Filed /\ Typed /\ Room /\ Cursors
      /\ Deleting /\ Rows /\ Writing /\ Present /\ Down /\ RefusedOnlyAfterLoss
      /\ CursorParts /\ wc \in Cursor
  BY DEF BlocksInv, BlockParts, CursorInv, CursorParts, StoreInv, Typed
<1>2. View[WriteLoc] \in Locs
  BY <1>1, ViewRows
<1> QED
  BY <1>1, <1>2 DEF Cursor, At, Locs

\* Before blocks are written, only the rows that the transaction reads matter.
LEMMA TxStep ==
    ASSUME BlocksInv, tx.st # "undo", BlocksOf(tx'.keys) = {}, tx'.st \in {"open", "delete"},
           UNCHANGED <<files, wc, left, lost, pruned, ldb, cachedKeys, cachedRemove, reader, db>>,
           tx'.st = "open" => tx.st \in {"idle", "open"},
           \A b \in BlocksOf(Snap(View, tx'.keys, tx'.remove)) :
              /\ b \in BlocksOf(TxView(tx))
              /\ Snap(View, tx'.keys, tx'.remove)[b] = TxView(tx)[b]
              /\ \/ \A i \in DOMAIN tx'.del : tx'.del[i] # TxView(tx)[b].file
                 \/ TxView(tx)[b].file \in lost
    PROVE  BlockParts'
<1>1. View' = View
  BY DEF View
<1>2. Rows'
  BY Unpack, RowsStill
<1>3. Writing'
  <2>1. (db = "up" => Zero(wc) \/ WrittenTo(wc) \/ wc.file \in lost)'
    BY Unpack DEF Writing, WrittenTo, Within, Safe, Current, Zero
  <2> QED
    BY <2>1 DEF Writing
<1>4. Present'
  <2>1. ASSUME tx'.st = "open"
        PROVE  /\ (\A b \in BlocksOf(View) : Written(View[b], b) \/ View[b].file \in lost)'
               /\ (\/ Zero(View[WriteLoc]) \/ WrittenTo(View[WriteLoc])
                   \/ View[WriteLoc].file \in lost)'
    <3>1. /\ \A b \in BlocksOf(View) : Written(View[b], b) \/ View[b].file \in lost
          /\ Zero(View[WriteLoc]) \/ WrittenTo(View[WriteLoc]) \/ View[WriteLoc].file \in lost
      BY <2>1, Unpack DEF Present
    <3> QED
      BY <1>1, <3>1 DEF Written, WrittenTo, Reads, Within, Safe, Current, Zero, BlocksOf
  <2>2. ASSUME NEW b \in BlocksOf(TxView(tx)')
        PROVE  \/ /\ Written(TxView(tx)[b], b)'
                  /\ \A i \in DOMAIN tx'.del : tx'.del[i] # TxView(tx)'[b].file
               \/ TxView(tx)'[b].file \in lost'
    <3>1. TxView(tx)' = Snap(View, tx'.keys, tx'.remove)
      BY <1>1 DEF TxView
    <3>2. PICK loc : /\ loc = TxView(tx)[b] /\ loc = TxView(tx)'[b] /\ b \in BlocksOf(TxView(tx))
                     /\ (\A i \in DOMAIN tx'.del : tx'.del[i] # loc.file) \/ loc.file \in lost
      BY <3>1
    <3>3. Written(loc, b) \/ loc.file \in lost
      BY <3>2, Unpack DEF Present
    <3>4. Written(loc, b) => Written(loc, b)'
      BY NothingMoved DEF KeepsRow
    <3> QED
      BY <3>2, <3>3, <3>4
  <2>3. (\A b \in BlocksOf(TxView(tx)) :
           \/ /\ Written(TxView(tx)[b], b)
              /\ \A i \in DOMAIN tx.del : tx.del[i] # TxView(tx)[b].file
           \/ TxView(tx)[b].file \in lost)'
    BY <2>2 DEF BlocksOf
  <2> QED
    BY <2>1, <2>3 DEF Present
<1>5. Down' /\ RefusedOnlyAfterLoss'
  BY Unpack DEF Down, RefusedOnlyAfterLoss
<1> QED
  BY <1>2, <1>3, <1>4, <1>5 DEF BlockParts

LEMMA BeginBlocks == ASSUME BlocksInv, Begin PROVE BlockParts'
<1>1. /\ tx.st = "idle" /\ tx' = [Idle EXCEPT !.st = "open"]
      /\ UNCHANGED <<files, wc, left, lost, pruned, ldb, cachedKeys, cachedRemove, reader, db>>
  BY DEF Begin, disk, cache, hist
<1>2. tx = Idle
  BY <1>1, Unpack DEF Closed
<1>3. /\ tx'.st = "open" /\ tx'.keys = tx.keys /\ tx'.remove = tx.remove /\ DOMAIN tx'.del = {}
      /\ BlocksOf(tx'.keys) = {}
  BY <1>1, <1>2, IdleRows DEF Idle
<1>4. Snap(View, tx'.keys, tx'.remove) = TxView(tx)
  BY <1>3 DEF TxView
<1> QED
  BY <1>1, <1>3, <1>4, TxStep

LEMMA StoreBlocks ==
    ASSUME BlocksInv, Commit \/ \E b \in Blocks : StoreBlock(b) PROVE BlockParts'
<1>1. /\ tx.st = "open" /\ tx'.keys = tx.keys /\ tx'.remove = tx.remove /\ tx'.del = tx.del
      /\ tx'.st \in {"open", "delete"}
      /\ UNCHANGED <<files, wc, left, lost, pruned, ldb, cachedKeys, cachedRemove, reader, db>>
  <2>1. TxShape
    BY Unpack
  <2>2. CASE Commit
    BY <2>1, <2>2 DEF Commit, InTx, disk, cache, hist, TxShape
  <2>3. CASE \E b \in Blocks : StoreBlock(b)
    BY <2>1, <2>3 DEF StoreBlock, InTx, disk, cache, hist, TxShape
  <2> QED
    BY <2>2, <2>3
<1>2. BlocksOf(tx'.keys) = {}
  BY <1>1, Unpack DEF Writing
<1>3. Snap(View, tx'.keys, tx'.remove) = TxView(tx)
  BY <1>1 DEF TxView
<1>4. \A b \in BlocksOf(TxView(tx)) :
        (\A i \in DOMAIN tx.del : tx.del[i] # TxView(tx)[b].file) \/ TxView(tx)[b].file \in lost
  BY Unpack DEF Present
<1> QED
  BY <1>1, <1>2, <1>3, <1>4, TxStep

LEMMA DeleteBlocks ==
    ASSUME BlocksInv, NEW b \in Blocks, DeleteBlock(b) PROVE BlockParts'
<1>1. /\ tx.st = "open" /\ tx' = deleteKeys(tx, {b})
      /\ UNCHANGED <<files, wc, left, lost, pruned, ldb, cachedKeys, cachedRemove, reader, db>>
  BY DEF DeleteBlock, InTx, disk, cache, hist
<1>2. /\ tx'.keys = Minus(tx.keys, {b}) /\ tx'.remove = tx.remove \cup {b} /\ tx'.del = tx.del
      /\ tx'.st = "open"
  BY <1>1, Unpack DEF deleteKeys, TxShape
<1>3. BlocksOf(tx'.keys) = {}
  BY <1>1, <1>2, Unpack DEF Writing, Minus, BlocksOf
<1>4. \A x \in BlocksOf(Snap(View, tx'.keys, tx'.remove)) :
        x \in BlocksOf(TxView(tx)) /\ Snap(View, tx'.keys, tx'.remove)[x] = TxView(tx)[x]
  BY <1>2 DEF TxView, Snap, Minus, BlocksOf
<1>5. \A x \in BlocksOf(TxView(tx)) :
        (\A i \in DOMAIN tx.del : tx.del[i] # TxView(tx)[x].file) \/ TxView(tx)[x].file \in lost
  BY Unpack DEF Present
<1> QED
  BY ZenonT(30), <1>1, <1>2, <1>3, <1>4, <1>5, TxStep

\* The files to prune are the oldest ones, without a gap.
LEMMA DoomedPrefix ==
    ASSUME Filed, Doomed # {}
    PROVE  \A i \in 1..Cardinality(Doomed) : FirstFile + i - 1 \in Doomed
<1>1. DOMAIN files # {}
  BY DEF Doomed
<1>2. PICK a \in Nat : a = FirstFile
  BY <1>1, DoomedOlder, Constants DEF Filed
<1>3. PICK z \in Nat, o \in Nat : z = scanBlockFiles.file /\ o = scanBlockFiles.off
  BY ScanLast DEF Cursor
<1>4. PICK M \in Nat, T \in Nat : M = MaxFileSize /\ T = PruneTarget
  BY FfldbAssumption
<1>5. Doomed = {n \in a..(z - 1) : o + M * (z - n) > T}
  BY <1>1, <1>2, <1>3, <1>4 DEF Doomed, OverTarget
<1>6. ASSUME NEW n \in a..(z - 1), NEW m \in a..n, o + M * (z - n) > T
      PROVE  o + M * (z - m) > T
  <2>1. PICK p \in Nat, q \in Nat : p = z - n /\ q = n - m
    OBVIOUS
  <2>2. z - m = p + q /\ M * (p + q) = M * p + M * q /\ M * q \in Nat /\ M * p \in Nat
    BY <2>1
  <2> QED
    BY <1>6, <2>1, <2>2
<1>7. Doomed \in SUBSET (0..z)
  BY <1>5
<1>8. PICK k \in Doomed : \A n \in Doomed : n <= k
  BY <1>7, GreatestNumber
<1>9. k \in a..(z - 1) /\ o + M * (z - k) > T
  BY <1>5
<1>10. Doomed = a..k
  <2>1. ASSUME NEW n \in a..k PROVE n \in Doomed
    BY <1>5, <1>6, <1>9
  <2>2. ASSUME NEW n \in Doomed PROVE n \in a..k
    BY <1>5, <1>8, <1>9
  <2> QED
    BY <2>1, <2>2
<1>11. Cardinality(a..k) = k - a + 1
  <2>1. a \in Int /\ k \in Int /\ a <= k
    BY <1>9
  <2> QED
    BY <2>1, FS_Interval
<1> QED
  BY <1>2, <1>9, <1>10, <1>11

LEMMA PruneBlocksBlocks == ASSUME BlocksInv, PruneBlocks PROVE BlockParts'
<1> DEFINE rows == {b \in DOMAIN TxView(tx) \ {WriteLoc} : TxView(tx)[b].file \in Doomed}
<1>1. /\ tx.st = "open" /\ Doomed # {}
      /\ tx' = [deleteKeys(tx, rows) EXCEPT
                  !.del = [i \in 1..Cardinality(Doomed) |-> FirstFile + i - 1]]
      /\ UNCHANGED <<files, wc, left, lost, pruned, ldb, cachedKeys, cachedRemove, reader, db>>
  BY DEF PruneBlocks, InTx, disk, cache, hist
<1>2. /\ tx'.keys = Minus(tx.keys, rows) /\ tx'.remove = tx.remove \cup rows /\ tx'.st = "open"
      /\ tx'.del = [i \in 1..Cardinality(Doomed) |-> FirstFile + i - 1]
  BY <1>1, Unpack DEF deleteKeys, TxShape
<1>3. BlocksOf(tx'.keys) = {}
  BY <1>1, <1>2, Unpack DEF Writing, Minus, BlocksOf
<1>4. \A i \in DOMAIN tx'.del : tx'.del[i] \in Doomed
  BY <1>1, <1>2, Unpack, DoomedPrefix
<1>5. \A x \in BlocksOf(Snap(View, tx'.keys, tx'.remove)) :
        /\ x \in BlocksOf(TxView(tx)) /\ Snap(View, tx'.keys, tx'.remove)[x] = TxView(tx)[x]
        /\ TxView(tx)[x].file \notin Doomed
  <2> SUFFICES ASSUME NEW x \in BlocksOf(Snap(View, tx'.keys, tx'.remove))
               PROVE  /\ x \in BlocksOf(TxView(tx))
                      /\ Snap(View, tx'.keys, tx'.remove)[x] = TxView(tx)[x]
                      /\ TxView(tx)[x].file \notin Doomed
    OBVIOUS
  <2>1. x \notin rows
    BY <1>2 DEF Snap, BlocksOf
  <2>2. x \in BlocksOf(TxView(tx)) /\ Snap(View, tx'.keys, tx'.remove)[x] = TxView(tx)[x]
    <3> HIDE DEF rows
    <3> QED
      BY <1>2, <2>1 DEF TxView, Snap, Minus, BlocksOf
  <2> QED
    BY <2>1, <2>2 DEF BlocksOf
<1> QED
  BY <1>1, <1>2, <1>3, <1>4, <1>5, TxStep

LEMMA SaveBlocks == ASSUME BlocksInv, SaveCursor PROVE BlockParts'
<1>1. /\ tx.st = "delete" /\ tx' = [tx EXCEPT !.st = "write", !.old = At(wc)]
      /\ UNCHANGED <<files, wc, left, lost, pruned, ldb, cachedKeys, cachedRemove, reader, db>>
  BY DEF SaveCursor, disk, cache, hist
<1>2. /\ tx'.st = "write" /\ tx'.old = At(wc) /\ tx'.keys = tx.keys /\ tx'.remove = tx.remove
      /\ tx'.del = tx.del
  BY <1>1, Unpack DEF TxShape
<1>3. View' = View /\ TxView(tx)' = TxView(tx)
  BY <1>1, <1>2 DEF View, TxView
<1>4. Rows'
  BY <1>1, Unpack, RowsStill
<1>5. db = "up" /\ BlocksOf(tx.keys) = {}
  BY <1>1, Unpack DEF Stopped, Writing
<1>6. Zero(wc) \/ WrittenTo(wc) \/ wc.file \in lost
  BY <1>1, <1>5, Unpack DEF Writing
<1>7. Writing'
  <2>1. (Zero(wc) \/ WrittenTo(wc) \/ wc.file \in lost)'
    BY <1>1, <1>6 DEF WrittenTo, Within, Safe, Current, Zero
  <2>2. LE(At(wc), wc)
    BY Unpack DEF LE
  <2>3. (Zero(tx.old) \/ WrittenTo(tx.old) \/ tx.old.file \in lost)'
    BY <1>1, <1>2, <1>6, Unpack DEF WrittenTo, Within, Safe, Current, Zero
  <2> QED
    BY <1>1, <1>2, <1>5, <2>1, <2>2, <2>3 DEF Writing
<1>8. Present'
  BY SMTT(30), <1>1, <1>2, <1>3, Unpack DEF Present, Written, Reads, Safe, Current, BlocksOf
<1>9. Down' /\ RefusedOnlyAfterLoss'
  BY <1>1, Unpack DEF Down, RefusedOnlyAfterLoss
<1> QED
  BY <1>4, <1>7, <1>8, <1>9 DEF BlockParts

\* The transaction is given up after its writes, if any, were undone.
LEMMA ClosedPresent ==
    ASSUME Typed', tx' = Idle,
           (\A b \in BlocksOf(View) : Written(View[b], b) \/ View[b].file \in lost)',
           (Zero(View[WriteLoc]) \/ WrittenTo(View[WriteLoc]) \/ View[WriteLoc].file \in lost)'
    PROVE  Present'
<1>1. TxView(tx)' = View'
  <2>1. PICK V : V = View'
    OBVIOUS
  <2>2. V = [k \in DOMAIN V |-> V[k]]
    BY <2>1, SnapIsRows DEF View
  <2>3. TxView(tx)' = Snap(V, Idle.keys, Idle.remove)
    BY <2>1 DEF TxView
  <2> QED
    BY <2>1, <2>2, <2>3, IdleView
<1>2. DOMAIN tx'.del = {} /\ tx'.st = "idle"
  BY IdleRows
<1>3. ASSUME NEW b \in BlocksOf(TxView(tx)')
      PROVE  Written(TxView(tx)[b], b)' \/ TxView(tx)'[b].file \in lost'
  <2>1. PICK loc : loc = TxView(tx)'[b] /\ loc = View'[b] /\ b \in BlocksOf(View')
    BY <1>1, <1>3
  <2>2. Written(loc, b)' \/ loc.file \in lost'
    BY <2>1 DEF BlocksOf
  <2> QED
    BY <2>1, <2>2
<1> QED
  BY <1>2, <1>3 DEF Present, BlocksOf

LEMMA IdleWriting ==
    ASSUME tx' = Idle, (db = "up" => Zero(wc) \/ WrittenTo(wc) \/ wc.file \in lost)'
    PROVE  Writing'
BY IdleRows DEF Writing

LEMMA AbortBlocks ==
    ASSUME BlocksInv, Rollback \/ deleteFileFails \/ commitFails PROVE BlockParts'
<1>1. /\ tx' = Idle /\ tx.st # "undo" /\ pruned' = pruned /\ lost \subseteq lost'
      /\ UNCHANGED <<files, wc, left, ldb, cachedKeys, cachedRemove, reader, db>>
  BY DEF Rollback, InTx, deleteFileFails, commitFails, Aborted, disk, cache, hist
<1>2. /\ \A b \in BlocksOf(View) : Written(View[b], b) \/ View[b].file \in lost'
      /\ Zero(View[WriteLoc]) \/ WrittenTo(View[WriteLoc]) \/ View[WriteLoc].file \in lost'
  <2>1. CASE Rollback
    <3>1. tx.st = "open"
      BY <2>1 DEF Rollback, InTx
    <3> QED
      BY <3>1, <1>1, Unpack DEF Present
  <2>2. CASE deleteFileFails \/ commitFails
    <3>1. lost' = lost \cup ({View[b].file : b \in DOMAIN View} \cap pruned)
      BY <2>2 DEF deleteFileFails, commitFails, Aborted
    <3>2. \A b \in BlocksOf(View) : Written(View[b], b) \/ View[b].file \in Gone
      BY Unpack, ViewKept
    <3>3. Zero(View[WriteLoc]) \/ WrittenTo(View[WriteLoc]) \/ View[WriteLoc].file \in Gone
      BY Unpack DEF Rows
    <3>4. WriteLoc \in DOMAIN View
      BY Unpack, ViewRows
    <3> QED
      BY <3>1, <3>2, <3>3, <3>4 DEF Gone, BlocksOf
  <2> QED
    BY <2>1, <2>2
<1>3. View' = View
  BY <1>1 DEF View
<1>4. Rows'
  BY <1>1, Unpack, RowsStill
<1>5. Writing'
  <2>1. (db = "up" => Zero(wc) \/ WrittenTo(wc) \/ wc.file \in lost)'
    BY <1>1, Unpack DEF Writing, WrittenTo, Within, Safe, Current, Zero
  <2> QED
    BY <1>1, <2>1, IdleWriting
<1>6. Present'
  <2>1. Typed'
    <3>1. UNCHANGED stray
      BY DEF Rollback, InTx, deleteFileFails, commitFails, Aborted, hist
    <3> QED
      BY <1>1, <3>1, Unpack, TxClosed DEF CursorParts
  <2>2. (\A b \in BlocksOf(View) : Written(View[b], b) \/ View[b].file \in lost)'
    BY <1>1, <1>2, <1>3 DEF Written, Reads, Safe, Current, BlocksOf
  <2>3. (Zero(View[WriteLoc]) \/ WrittenTo(View[WriteLoc]) \/ View[WriteLoc].file \in lost)'
    BY <1>1, <1>2, <1>3 DEF WrittenTo, Within, Safe, Current, Zero
  <2> QED
    BY <1>1, <2>1, <2>2, <2>3, ClosedPresent
<1>7. Down' /\ RefusedOnlyAfterLoss'
  BY <1>1, Unpack DEF Down, RefusedOnlyAfterLoss
<1> QED
  BY <1>4, <1>5, <1>6, <1>7 DEF BlockParts

\* A pruned file goes, and nothing else: the rows that the transaction leaves
\* are not in it.
LEMMA DeleteFileBlocks == ASSUME BlocksInv, deleteFile PROVE BlockParts'
<1>1. PICK h : h = Head(tx.del)
  OBVIOUS
<1>2. /\ tx.st = "delete" /\ tx.del # <<>> /\ tx' = [tx EXCEPT !.del = Tail(@)]
      /\ files' = Minus(files, {h}) /\ pruned' = pruned \cup {h} /\ left' = left \ {h}
      /\ lost' = lost \cup ({wc.file} \cap {h})
      /\ UNCHANGED <<ldb, wc, cachedKeys, cachedRemove, reader, db>>
  BY <1>1 DEF deleteFile, cache
<1>3. /\ tx'.st = "delete" /\ tx'.keys = tx.keys /\ tx'.remove = tx.remove
      /\ tx'.del = Tail(tx.del)
  BY <1>2, Unpack DEF TxShape
<1>4. DOMAIN files' = DOMAIN files \ {h} /\ \A n \in DOMAIN files \ {h} : files'[n] = files[n]
  BY <1>2 DEF Minus
<1>5. ASSUME NEW loc, NEW b, loc.file # h PROVE KeepsRow(loc, b) /\ KeepsCursor(loc)
  BY <1>2, <1>4, <1>5 DEF KeepsRow, KeepsCursor, OwnAt, Reads, Stored, Written, StoredTo,
     WrittenTo, Within, Safe, Current
<1>6. ASSUME NEW loc, NEW b, loc.file = h PROVE OwnAt(loc, b)' /\ loc.file \in pruned'
  BY <1>2, <1>4, <1>6 DEF OwnAt
<1>7. Rows'
  <2>1. \A loc \in Locs, b \in Blocks :
           /\ OwnAt(loc, b) => OwnAt(loc, b)'
           /\ KeepsRow(loc, b) \/ loc.file \in pruned'
    BY <1>5, <1>6 DEF KeepsRow
  <2>2. \A d \in Locs : KeepsCursor(d) \/ d.file \in pruned'
    BY <1>5, <1>6
  <2>3. lost \subseteq lost' /\ pruned \subseteq pruned'
    BY <1>2
  <2> QED
    BY <1>2, <2>1, <2>2, <2>3, Unpack, RowsKept
<1>8. View' = View /\ TxView(tx)' = TxView(tx)
  BY <1>2, <1>3 DEF View, TxView
<1>9. db = "up" /\ BlocksOf(tx.keys) = {}
  BY <1>2, Unpack DEF Stopped, Writing
<1>10. Writing'
  <2>1. Zero(wc) \/ WrittenTo(wc) \/ wc.file \in lost
    BY <1>2, <1>9, Unpack DEF Writing
  <2>2. PICK w : w = wc /\ w = wc'
    BY <1>2
  <2>3. Zero(w) \/ WrittenTo(w)' \/ w.file \in lost'
    BY <1>2, <1>5, <2>1, <2>2 DEF KeepsCursor
  <2>4. (Zero(wc) \/ WrittenTo(wc) \/ wc.file \in lost)'
    BY <2>2, <2>3 DEF Zero
  <2> QED
    BY <1>3, <1>9, <2>4 DEF Writing
<1>11. Present'
  <2>1. ASSUME NEW b \in BlocksOf(TxView(tx)')
        PROVE  \/ /\ Written(TxView(tx)[b], b)'
                  /\ \A i \in DOMAIN tx'.del : tx'.del[i] # TxView(tx)'[b].file
               \/ TxView(tx)'[b].file \in lost'
    <3>1. PICK loc : loc = TxView(tx)[b] /\ loc = TxView(tx)'[b]
      BY <1>8
    <3>2. \/ Written(loc, b) /\ \A i \in DOMAIN tx.del : tx.del[i] # loc.file
          \/ loc.file \in lost
      BY <1>8, <2>1, <3>1, Unpack DEF Present, BlocksOf
    <3>3. tx.del \in Seq(Nat)
      BY Unpack DEF Typed
    <3>4. 1 \in DOMAIN tx.del /\ h = tx.del[1]
      BY <1>1, <1>2, <3>3
    <3>5. \A i \in DOMAIN Tail(tx.del) : i + 1 \in DOMAIN tx.del /\ Tail(tx.del)[i] = tx.del[i + 1]
      BY <1>2, <3>3
    <3>6. CASE Written(loc, b) /\ \A i \in DOMAIN tx.del : tx.del[i] # loc.file
      <4>1. loc.file # h /\ \A i \in DOMAIN tx'.del : tx'.del[i] # loc.file
        BY <1>3, <3>4, <3>5, <3>6
      <4>2. Written(loc, b)'
        BY <1>5, <3>6, <4>1 DEF KeepsRow
      <4> QED
        BY <3>1, <4>1, <4>2
    <3>7. CASE loc.file \in lost
      BY <1>2, <3>1, <3>7
    <3> QED
      BY <3>2, <3>6, <3>7
  <2> QED
    BY <1>3, <2>1 DEF Present, BlocksOf
<1>12. Down' /\ RefusedOnlyAfterLoss'
  BY <1>2, <1>9, Unpack DEF Down, RefusedOnlyAfterLoss
<1> QED
  BY <1>7, <1>10, <1>11, <1>12 DEF BlockParts

---------------------------------------------------------------------------
(* Steps that change the files.                                            *)

LEMMA RowsBelow ==
    ASSUME Typed, Rows, Filed, Filed', NEW c \in Locs, KeepsBelow(c), LE(View[WriteLoc], c),
           UNCHANGED <<ldb, cachedKeys, cachedRemove, reader>>,
           lost \subseteq lost', pruned \subseteq pruned'
    PROVE  Rows'
<1>1. wc \in Cursor /\ View[WriteLoc] \in Locs
  BY ViewRows DEF Typed
<1>2. ASSUME NEW loc \in Locs, NEW b \in Blocks, LE(EndAt(loc, BlockLen[b]), View[WriteLoc])
      PROVE  KeepsRow(loc, b)
  <2>1. EndAt(loc, BlockLen[b]).file \in Nat /\ EndAt(loc, BlockLen[b]).off \in Nat
    BY Constants DEF EndAt, Locs
  <2>2. LE(EndAt(loc, BlockLen[b]), c)
    BY <1>1, <1>2, <2>1, NotAfter DEF Locs
  <2> QED
    BY <1>1, <2>2, RowKept
<1>3. ASSUME NEW d \in Locs, LE(d, View[WriteLoc]) PROVE KeepsCursor(d)
  <2>1. LE(d, c)
    BY <1>1, <1>3, NotAfter DEF Locs
  <2> QED
    BY <1>1, <2>1, CursorKept
<1>4. \A loc \in Locs, b \in Blocks :
         LE(EndAt(loc, BlockLen[b]), View[WriteLoc]) =>
            /\ OwnAt(loc, b) => OwnAt(loc, b)'
            /\ KeepsRow(loc, b) \/ loc.file \in pruned'
  BY <1>2 DEF KeepsRow
<1>5. \A d \in Locs : LE(d, View[WriteLoc]) => KeepsCursor(d) \/ d.file \in pruned'
  BY <1>3
<1> QED
  BY <1>4, <1>5, RowsKept

\* What the transaction reads is behind the cursor.
LEMMA TxRow ==
    ASSUME BlocksInv, db = "up"
    PROVE  /\ \A b \in BlocksOf(TxView(tx)) :
                b \in Blocks /\ TxView(tx)[b] \in Locs
                  /\ LE(EndAt(TxView(tx)[b], BlockLen[b]), wc)
           /\ \A b \in BlocksOf(tx.keys) :
                b \in Blocks /\ tx.keys[b] \in Locs /\ LE(EndAt(tx.keys[b], BlockLen[b]), wc)
           /\ AreRows(TxView(tx))
<1>1. AreRows(View) /\ AreRows(tx.keys) /\ Behind(tx.keys, wc)
  BY Unpack, ViewRows DEF Typed, Cursors
<1>2. Behind(View, wc)
  BY <1>1, Unpack, BehindFurther DEF Cursors
<1>3. AreRows(TxView(tx)) /\ Behind(TxView(tx), wc)
  BY <1>1, <1>2, SnapRows, BehindSnap DEF TxView
<1>4. \A b \in BlocksOf(TxView(tx)) :
        b \in Blocks /\ TxView(tx)[b] \in Locs /\ LE(EndAt(TxView(tx)[b], BlockLen[b]), wc)
  BY <1>3, RowLoc DEF Behind
<1>5. \A b \in BlocksOf(tx.keys) :
        b \in Blocks /\ tx.keys[b] \in Locs /\ LE(EndAt(tx.keys[b], BlockLen[b]), wc)
  BY <1>1, RowLoc DEF Behind
<1> QED
  BY <1>3, <1>4, <1>5

\* A write, finished or not, at the cursor.
LEMMA WriteRest ==
    ASSUME BlocksInv, tx.st = "write", Filed', KeepsBelow(At(wc)),
           UNCHANGED <<ldb, cachedKeys, cachedRemove, reader, db, lost, pruned>>,
           tx'.old = tx.old, LE(wc, wc'), wc' \in Cursor
    PROVE  /\ Rows' /\ View' = View /\ db = "up" /\ Down' /\ RefusedOnlyAfterLoss'
           /\ \A loc \in Locs, b \in Blocks :
                LE(EndAt(loc, BlockLen[b]), wc) => KeepsRow(loc, b)
           /\ LE(tx.old, wc)' /\ (Zero(tx.old) \/ WrittenTo(tx.old) \/ tx.old.file \in lost)'
<1>1. View' = View /\ db = "up"
  BY Unpack DEF View, Stopped
<1>2. ASSUME NEW d, LE(d, wc) PROVE LE(d, At(wc))
  BY <1>2, Unpack DEF LE
<1>3. LE(View[WriteLoc], At(wc))
  BY <1>1, <1>2, Unpack DEF Cursors
<1>4. Rows'
  BY <1>3, Unpack, RowsBelow
<1>5. \A loc \in Locs, b \in Blocks : LE(EndAt(loc, BlockLen[b]), wc) => KeepsRow(loc, b)
  BY <1>2, Unpack, RowKept
<1>6. PICK o \in Locs : o = tx.old /\ o = tx'.old
  BY Unpack DEF Typed
<1>7. LE(o, wc) /\ (Zero(o) \/ WrittenTo(o) \/ o.file \in lost)
  BY <1>6, Unpack DEF Writing
<1>8. KeepsCursor(o)
  BY <1>2, <1>7, Unpack, CursorKept
<1>9. LE(o, wc')
  BY <1>7, Unpack, NotAfter DEF Locs, Cursor
<1>10. Zero(o) \/ WrittenTo(o)' \/ o.file \in lost'
  BY <1>7, <1>8 DEF KeepsCursor
<1>11. LE(tx.old, wc)' /\ (Zero(tx.old) \/ WrittenTo(tx.old) \/ tx.old.file \in lost)'
  BY <1>6, <1>9, <1>10 DEF Zero
<1>12. Down' /\ RefusedOnlyAfterLoss'
  BY <1>1, Unpack DEF Down, RefusedOnlyAfterLoss
<1> QED
  BY <1>1, <1>4, <1>5, <1>11, <1>12

LEMMA WriteUnit ==
    ASSUME NEW f, IsFile(f), NEW off \in Nat, NEW u \in Seq(Units),
           NEW i \in Nat, i > off, i <= off + Len(u)
    PROVE  WriteAt(f, off, u).data[i] = u[i - off]
<1> DEFINE end == off + Len(u)
           top == IF Len(f.data) > end THEN Len(f.data) ELSE end
           d == [j \in 1..top |-> IF j > off /\ j <= end THEN u[j - off]
                                  ELSE IF j <= Len(f.data) THEN f.data[j] ELSE Hole]
<1>1. i \in 1..top
  BY DEF IsFile
<1>2. d[i] = u[i - off]
  BY <1>1
<1>3. WriteAt(f, off, u) = [data |-> d, synced |-> Smaller(f.synced, off)]
  BY DEF WriteAt
<1> HIDE DEF d
<1> QED
  BY <1>2, <1>3

LEMMA WriteBlocks == ASSUME BlocksInv, writeBlock PROVE BlockParts'
<1>0. CursorParts /\ TxShape /\ Stopped
  BY Unpack
<1>1. PICK b \in Blocks : b = Head(tx.pend)
  BY <1>0, NextAhead DEF writeBlock
<1>2. PICK loc \in Locs : loc = NextLoc(BlockLen[b])
  BY <1>0, <1>1, NextAhead DEF writeBlock
<1>3. /\ tx.st = "write" /\ tx.pend # <<>>
      /\ files' = Put(files, loc.file,
                      WriteAt(FileAt(files, loc.file), loc.off, Record(b)))
      /\ wc' = [file |-> loc.file, off |-> loc.off + BlockLen[b], open |-> TRUE]
      /\ tx' = putKey([tx EXCEPT !.pend = Tail(@)], b, loc)
      /\ left' = left \cup MovedOn(loc)
      /\ UNCHANGED <<ldb, cachedKeys, cachedRemove, reader, db, lost, pruned>>
  BY <1>1, <1>2 DEF writeBlock, cache
<1>4. /\ BlockLen[b] \in Nat /\ LE(wc, loc) /\ loc.file \in {wc.file, wc.file + 1}
      /\ loc.file = wc.file => loc = At(wc)
  BY <1>0, <1>1, <1>2, <1>3, NextAhead
<1>5. /\ tx'.st = "write" /\ tx'.old = tx.old /\ tx'.remove = tx.remove \ {b}
      /\ tx'.keys = Merge(tx.keys, [x \in {b} |-> loc]) /\ tx'.del = tx.del
  BY <1>0, <1>3 DEF TxShape, putKey
<1>6. /\ loc.file \in Nat /\ loc.off \in Nat /\ wc'.file = loc.file
      /\ wc'.off = loc.off + BlockLen[b] /\ wc'.open = TRUE /\ wc' \in Cursor
  BY <1>3, <1>4 DEF Cursor, Locs
<1>7. LE(wc, wc')
  BY <1>4, <1>6, Unpack DEF LE
<1>8. Filed'
  BY <1>0, WriteCursor DEF CursorParts
<1>9. Record(b) \in Seq(Units) /\ Len(Record(b)) = BlockLen[b]
        /\ \A i \in 1..BlockLen[b] : Record(b)[i] = <<b, i>>
  BY RecordUnits
<1>10. KeepsBelow(At(wc))
  BY <1>3, <1>4, <1>6, <1>9, Unpack, WritingKeeps
<1>11. /\ Rows' /\ View' = View /\ db = "up" /\ Down' /\ RefusedOnlyAfterLoss'
       /\ \A l \in Locs, x \in Blocks : LE(EndAt(l, BlockLen[x]), wc) => KeepsRow(l, x)
       /\ LE(tx.old, wc)' /\ (Zero(tx.old) \/ WrittenTo(tx.old) \/ tx.old.file \in lost)'
  BY <1>3, <1>5, <1>6, <1>7, <1>8, <1>10, WriteRest
<1>12. Within(loc, BlockLen[b])' /\ Reads(loc, b)'
  <2>0. PICK f : f = FileAt(files, loc.file) /\ IsFile(f)
    BY Unpack, FileAtFile
  <2>1. PICK g : g = WriteAt(f, loc.off, Record(b))
    OBVIOUS
  <2>2. loc.file \in DOMAIN files' /\ files'[loc.file] = g
    BY <1>3, <2>0, <2>1 DEF Put, Merge
  <2>3. IsFile(g) /\ Len(g.data) >= loc.off + BlockLen[b]
    BY <1>6, <1>9, <2>0, <2>1, WriteFile
  <2>4. Len(g.data) \in Nat
    BY <2>3 DEF IsFile
  <2>5. ASSUME NEW i \in 1..BlockLen[b] PROVE g.data[loc.off + i] = <<b, i>>
    <3>1. /\ loc.off + i \in 1..Len(g.data) /\ loc.off + i > loc.off
          /\ loc.off + i <= loc.off + BlockLen[b] /\ (loc.off + i) - loc.off = i
      BY <1>4, <1>6, <2>3, <2>4
    <3>2. PICK k \in Nat, o \in Nat, u \in Seq(Units) :
            /\ k = loc.off + i /\ o = loc.off /\ u = Record(b) /\ k > o /\ k <= o + Len(u)
            /\ k - o = i
      BY <1>6, <1>9, <3>1
    <3>3. WriteAt(f, o, u).data[k] = u[k - o]
      BY SMTT(30), <2>0, <3>2, WriteUnit
    <3>4. g.data[loc.off + i] = Record(b)[i]
      BY <2>1, <3>2, <3>3
    <3> QED
      BY <1>9, <3>4
  <2> QED
    BY <2>2, <2>3, <2>4, <2>5, <1>4, <1>6 DEF Within, Reads
<1>13. Written(loc, b)'
  BY <1>6, <1>12 DEF Written, Current
<1>14. WrittenTo(wc)'
  <2>1. wc'.off + 0 = wc'.off
    BY <1>4, <1>6
  <2> QED
    BY <1>6, <1>12, <2>1 DEF WrittenTo, Within, Current
<1>15. ASSUME NEW x \in BlocksOf(tx'.keys) PROVE Written(tx.keys[x], x)'
  <2>1. CASE x = b
    <3>1. loc = tx'.keys[x]
      BY <1>5, <2>1 DEF Merge
    <3> QED
      BY <1>13, <2>1, <3>1
  <2>2. CASE x # b
    <3>1. x \in BlocksOf(tx.keys) /\ tx'.keys[x] = tx.keys[x]
      BY <1>5, <2>2 DEF Merge, BlocksOf
    <3>2. PICK l \in Locs : /\ l = tx.keys[x] /\ l = tx'.keys[x] /\ x \in Blocks
                            /\ LE(EndAt(l, BlockLen[x]), wc)
      BY <1>11, <3>1, TxRow
    <3>3. Written(l, x)
      BY <3>1, <3>2, Unpack DEF Writing
    <3>4. Written(l, x)'
      BY <1>11, <3>2, <3>3 DEF KeepsRow
    <3> QED
      BY <3>2, <3>4
  <2> QED
    BY <2>1, <2>2
<1>16. Writing'
  BY <1>5, <1>11, <1>14, <1>15 DEF Writing, BlocksOf
<1>17. Present'
  <2>1. DOMAIN tx'.del = {}
    BY <1>3, <1>5, Unpack DEF Deleting
  <2>2. ASSUME NEW x \in BlocksOf(TxView(tx)')
        PROVE  Written(TxView(tx)[x], x)' \/ TxView(tx)'[x].file \in lost'
    <3>0. TxView(tx)' = Snap(View, tx'.keys, tx'.remove)
      BY <1>11 DEF TxView
    <3>1. CASE x = b
      <4>1. loc = TxView(tx)'[x]
        BY <1>5, <2>2, <3>0, <3>1 DEF Merge, Snap, BlocksOf
      <4> QED
        BY <1>13, <3>1, <4>1
    <3>2. CASE x # b
      <4>1. x \in BlocksOf(TxView(tx)) /\ TxView(tx)'[x] = TxView(tx)[x]
        BY <1>5, <2>2, <3>0, <3>2 DEF Merge, Snap, BlocksOf, TxView
      <4>2. PICK l \in Locs : /\ l = TxView(tx)[x] /\ l = TxView(tx)'[x] /\ x \in Blocks
                              /\ LE(EndAt(l, BlockLen[x]), wc)
        BY <1>11, <4>1, TxRow
      <4>3. Written(l, x) \/ l.file \in lost
        BY <4>1, <4>2, Unpack DEF Present
      <4>4. Written(l, x)' \/ l.file \in lost'
        BY <1>3, <1>11, <4>2, <4>3 DEF KeepsRow
      <4> QED
        BY <4>2, <4>4
    <3> QED
      BY <3>1, <3>2
  <2> QED
    BY <1>5, <2>1, <2>2 DEF Present, BlocksOf
<1> QED
  BY <1>11, <1>16, <1>17 DEF BlockParts

LEMMA WriteFailsBlocks == ASSUME BlocksInv, writeBlockFails PROVE BlockParts'
<1>0. CursorParts /\ TxShape /\ Stopped
  BY Unpack
<1>1. PICK b \in Blocks : b = Head(tx.pend)
  BY <1>0, NextAhead DEF writeBlockFails
<1>2. PICK loc \in Locs : loc = NextLoc(BlockLen[b])
  BY <1>0, <1>1, NextAhead DEF writeBlockFails
<1>3. /\ tx.st = "write" /\ tx.pend # <<>> /\ tx' = [tx EXCEPT !.st = "undo"]
      /\ left' = left \cup MovedOn(loc)
      /\ UNCHANGED <<ldb, cachedKeys, cachedRemove, reader, db, lost, pruned>>
  BY <1>1, <1>2 DEF writeBlockFails, cache
<1>4. /\ BlockLen[b] \in Nat /\ LE(wc, loc) /\ loc.file \in {wc.file, wc.file + 1}
      /\ loc.file = wc.file => loc = At(wc)
  BY <1>0, <1>1, <1>2, <1>3, NextAhead
<1>5. /\ tx'.st = "undo" /\ tx'.old = tx.old /\ tx'.remove = tx.remove
      /\ tx'.keys = tx.keys /\ tx'.del = tx.del
  BY <1>0, <1>3 DEF TxShape
<1>6. loc.file \in Nat /\ loc.off \in Nat
  BY DEF Locs
<1>7. Filed' /\ wc' \in Cursor
  BY <1>0, WriteFailsCursor DEF CursorParts, Typed
<1>8. /\ \/ files' = files
         \/ files' = Put(files, loc.file, FileAt(files, loc.file))
         \/ \E u \in Seq(Units) :
              files' = Put(files, loc.file, WriteAt(FileAt(files, loc.file), loc.off, u))
      /\ wc'.file = loc.file /\ wc'.off >= loc.off
      /\ wc'.open \/ loc.file # wc.file \/ ~ wc.open
  <2>1. CASE /\ loc.file # wc.file \/ ~ wc.open
             /\ wc' = [file |-> loc.file, off |-> loc.off, open |-> FALSE] /\ UNCHANGED files
    BY <1>6, <2>1
  <2>2. ASSUME NEW n \in 0..(BlockLen[b] - 1),
               LET f == FileAt(files, loc.file)
               IN  /\ files' = Put(files, loc.file, IF n = 0 THEN f
                                    ELSE WriteAt(f, loc.off, SubSeq(Record(b), 1, n)))
                   /\ wc' = [file |-> loc.file, off |-> loc.off + n, open |-> TRUE]
        PROVE  /\ \/ files' = Put(files, loc.file, FileAt(files, loc.file))
                  \/ \E u \in Seq(Units) :
                       files' = Put(files, loc.file, WriteAt(FileAt(files, loc.file), loc.off, u))
               /\ wc'.file = loc.file /\ wc'.off >= loc.off /\ wc'.open
    <3>1. n \in 0..BlockLen[b] /\ n \in Nat
      BY <1>4
    <3>2. SubSeq(Record(b), 1, n) \in Seq(Units)
      BY <3>1, PartOfRecord
    <3>3. wc'.file = loc.file /\ wc'.off >= loc.off /\ wc'.open
      BY <1>6, <2>2, <3>1
    <3>4. CASE n = 0
      <4>1. files' = Put(files, loc.file, FileAt(files, loc.file))
        BY <2>2, <3>4
      <4> QED
        BY <3>3, <4>1
    <3>5. CASE n # 0
      <4>1. files' = Put(files, loc.file,
                         WriteAt(FileAt(files, loc.file), loc.off, SubSeq(Record(b), 1, n)))
        BY <2>2, <3>5
      <4> QED
        BY <3>2, <3>3, <4>1
    <3> QED
      BY <3>4, <3>5
  <2> QED
    BY <2>1, <2>2, <1>1, <1>2 DEF writeBlockFails
<1>9. LE(wc, wc')
  BY <1>4, <1>6, <1>7, <1>8, Unpack DEF LE, Cursor
<1>10. KeepsBelow(At(wc))
  BY <1>3, <1>4, <1>8, Unpack, WritingKeeps
<1>11. /\ Rows' /\ View' = View /\ db = "up" /\ Down' /\ RefusedOnlyAfterLoss'
       /\ \A l \in Locs, x \in Blocks : LE(EndAt(l, BlockLen[x]), wc) => KeepsRow(l, x)
       /\ LE(tx.old, wc)' /\ (Zero(tx.old) \/ WrittenTo(tx.old) \/ tx.old.file \in lost)'
  BY <1>3, <1>5, <1>7, <1>9, <1>10, WriteRest
<1>12. ASSUME NEW x \in BlocksOf(tx'.keys) PROVE Written(tx.keys[x], x)'
  <2>1. x \in BlocksOf(tx.keys) /\ tx'.keys[x] = tx.keys[x]
    BY <1>5, <1>12
  <2>2. PICK l \in Locs : /\ l = tx.keys[x] /\ l = tx'.keys[x] /\ x \in Blocks
                          /\ LE(EndAt(l, BlockLen[x]), wc)
    BY <1>11, <2>1, TxRow
  <2>3. Written(l, x)
    BY <2>1, <2>2, Unpack DEF Writing
  <2>4. Written(l, x)'
    BY <1>11, <2>2, <2>3 DEF KeepsRow
  <2> QED
    BY <2>2, <2>4
<1>13. Writing'
  BY <1>5, <1>11, <1>12 DEF Writing, BlocksOf
<1>14. Present'
  <2>1. DOMAIN tx'.del = {}
    BY <1>3, <1>5, Unpack DEF Deleting
  <2>2. TxView(tx)' = TxView(tx)
    BY <1>5, <1>11 DEF TxView
  <2>3. ASSUME NEW x \in BlocksOf(TxView(tx)')
        PROVE  Written(TxView(tx)[x], x)' \/ TxView(tx)'[x].file \in lost'
    <3>1. x \in BlocksOf(TxView(tx))
      BY <2>2, <2>3
    <3>2. PICK l \in Locs : /\ l = TxView(tx)[x] /\ l = TxView(tx)'[x] /\ x \in Blocks
                            /\ LE(EndAt(l, BlockLen[x]), wc)
      BY <1>11, <2>2, <3>1, TxRow
    <3>3. Written(l, x) \/ l.file \in lost
      BY <3>1, <3>2, Unpack DEF Present
    <3>4. Written(l, x)' \/ l.file \in lost'
      BY <1>3, <1>11, <3>2, <3>3 DEF KeepsRow
    <3> QED
      BY <3>2, <3>4
  <2> QED
    BY <1>5, <2>1, <2>3 DEF Present, BlocksOf
<1> QED
  BY <1>11, <1>13, <1>14 DEF BlockParts

\* A rollback to a committed or an older cursor, with no transaction left.
LEMMA BackBlocks ==
    ASSUME BlocksInv, NEW c \in Cursor, NEW to \in Locs, RollBack(c, to), LE(to, c),
           to.file <= MaxFileNum, wc.open => wc = c, LE(View[WriteLoc], to), Typed',
           tx' = Idle, UNCHANGED <<ldb, cachedKeys, cachedRemove, reader, pruned>>,
           lost \subseteq lost', Zero(to) \/ WrittenTo(to) \/ to.file \in lost',
           \A b \in BlocksOf(View) : Written(View[b], b) \/ View[b].file \in lost',
           Zero(View[WriteLoc]) \/ WrittenTo(View[WriteLoc]) \/ View[WriteLoc].file \in lost'
    PROVE  Rows' /\ Writing' /\ Present'
<1>1. KeepsBelow(to)
  BY Unpack, RollBackKeeps
<1>2. Filed' /\ At(wc') = to
  BY Unpack, RollBackEffect
<1>3. View' = View
  BY DEF View
<1>4. Rows'
  BY <1>1, <1>2, Unpack, RowsBelow
<1>5. LE(to, to) /\ to.file \in Nat /\ to.off \in Nat /\ wc'.file = to.file /\ wc'.off = to.off
  BY <1>2 DEF LE, Locs, At
<1>6. KeepsCursor(to)
  BY <1>1, <1>2, <1>5, Unpack, CursorKept
<1>7. Zero(to) \/ WrittenTo(to)' \/ to.file \in lost'
  BY <1>6 DEF KeepsCursor
<1>8. Writing'
  <2>1. (Zero(wc) \/ WrittenTo(wc) \/ wc.file \in lost)'
    BY <1>5, <1>7 DEF Zero, WrittenTo, Within, Safe, Current
  <2> QED
    BY <2>1, IdleWriting
<1>9. ASSUME NEW b \in BlocksOf(View')
      PROVE  Written(View[b], b)' \/ View'[b].file \in lost'
  <2>1. b \in BlocksOf(View) /\ AreRows(View)
    BY <1>3, <1>9, Unpack, ViewRows
  <2>2. PICK l \in Locs : /\ l = View[b] /\ l = View'[b] /\ b \in Blocks
                          /\ EndOf(View, b) = EndAt(l, BlockLen[b])
    BY <1>3, <2>1, RowLoc
  <2>3. LE(EndAt(l, BlockLen[b]), View[WriteLoc])
    BY <2>1, <2>2, Unpack, ViewKept
  <2>4. EndAt(l, BlockLen[b]).file \in Nat /\ EndAt(l, BlockLen[b]).off \in Nat
    BY <2>2, Constants DEF EndAt, Locs
  <2>5. LE(EndAt(l, BlockLen[b]), to)
    BY <1>5, <2>3, <2>4, Unpack, NotAfter
  <2>6. KeepsRow(l, b)
    BY <1>1, <1>2, <2>2, <2>5, Unpack, RowKept
  <2>7. Written(l, b)' \/ l.file \in lost'
    BY <2>1, <2>2, <2>6 DEF KeepsRow
  <2> QED
    BY <2>2, <2>7
<1>10. (Zero(View[WriteLoc]) \/ WrittenTo(View[WriteLoc]) \/ View[WriteLoc].file \in lost)'
  <2>1. PICK d \in Locs : d = View[WriteLoc] /\ d = View'[WriteLoc]
    BY <1>3, Unpack
  <2>2. KeepsCursor(d)
    BY <1>1, <1>2, <2>1, Unpack, CursorKept
  <2>3. Zero(d) \/ WrittenTo(d)' \/ d.file \in lost'
    BY <2>1, <2>2 DEF KeepsCursor
  <2> QED
    BY <2>1, <2>3 DEF Zero
<1>11. Present'
  <2>1. (\A b \in BlocksOf(View) : Written(View[b], b) \/ View[b].file \in lost)'
    BY <1>9 DEF BlocksOf
  <2> QED
    BY <1>10, <2>1, ClosedPresent
<1> QED
  BY <1>4, <1>8, <1>11

LEMMA UndoBlocks == ASSUME BlocksInv, UndoWrites PROVE BlockParts'
<1>1. /\ tx.st = "undo" /\ RollBack(wc, tx.old) /\ tx' = Idle
      /\ lost' = lost \cup ({View[b].file : b \in DOMAIN View} \cap pruned)
      /\ UNCHANGED <<ldb, cachedKeys, cachedRemove, reader, db, pruned>>
  BY DEF UndoWrites, cache
<1>2. Typed'
  BY Unpack, UndoCursor DEF CursorParts
<1>3. /\ tx.old \in Locs /\ tx.old.file <= MaxFileNum /\ LE(tx.old, wc)
      /\ LE(View[WriteLoc], tx.old) /\ db = "up"
      /\ Zero(tx.old) \/ WrittenTo(tx.old) \/ tx.old.file \in lost
  BY <1>1, Unpack DEF Typed, Room, Writing, Cursors, Stopped
<1>4. \A b \in BlocksOf(View) : Written(View[b], b) \/ View[b].file \in lost'
  <2>1. \A b \in BlocksOf(View) : Written(View[b], b) \/ View[b].file \in Gone
    BY Unpack, ViewKept
  <2> QED
    BY <1>1, <2>1 DEF Gone, BlocksOf
<1>5. Zero(View[WriteLoc]) \/ WrittenTo(View[WriteLoc]) \/ View[WriteLoc].file \in lost'
  <2>1. Zero(View[WriteLoc]) \/ WrittenTo(View[WriteLoc]) \/ View[WriteLoc].file \in Gone
    BY Unpack DEF Rows
  <2>2. WriteLoc \in DOMAIN View
    BY Unpack, ViewRows
  <2> QED
    BY <1>1, <2>1, <2>2 DEF Gone
<1>6. wc \in Cursor /\ lost \subseteq lost'
  BY <1>1, Unpack
<1>7. Rows' /\ Writing' /\ Present'
  <2>1. PICK to \in Locs : to = tx.old
    BY <1>3
  <2> QED
    BY <1>1, <1>2, <1>3, <1>4, <1>5, <1>6, <2>1, BackBlocks
<1>8. Down' /\ RefusedOnlyAfterLoss'
  BY <1>1, <1>3, Unpack DEF Down, RefusedOnlyAfterLoss
<1> QED
  BY <1>7, <1>8 DEF BlockParts

---------------------------------------------------------------------------
(* Steps that move rows and leave the files alone.                         *)

\* The rows as they are after the step, judged by the files as they are.
LEMMA RowsFrom ==
    ASSUME UNCHANGED <<files, wc, left>>, lost \subseteq lost', pruned \subseteq pruned',
           NEW top, top = View'[WriteLoc],
           \A b \in BlocksOf(ldb') :
              /\ OwnAt(ldb'[b], b) /\ LE(EndOf(ldb', b), top)
              /\ Stored(ldb'[b], b) \/ ldb'[b].file \in Gone,
           \A b \in BlocksOf(cachedKeys') :
              /\ OwnAt(cachedKeys'[b], b) /\ LE(EndOf(cachedKeys', b), top)
              /\ Written(cachedKeys'[b], b) \/ cachedKeys'[b].file \in Gone,
           \A b \in BlocksOf(reader'.rows) :
              /\ OwnAt(reader'.rows[b], b) /\ LE(EndOf(reader'.rows, b), top)
              /\ Reads(reader'.rows[b], b) \/ reader'.rows[b].file \in Gone,
           LE(ldb'[WriteLoc], top),
           Zero(ldb'[WriteLoc]) \/ StoredTo(ldb'[WriteLoc]) \/ ldb'[WriteLoc].file \in Gone,
           Zero(top) \/ WrittenTo(top) \/ top.file \in Gone
    PROVE  Rows'
<1>1. Gone \subseteq Gone'
  BY DEF Gone
<1>2. ASSUME NEW l, NEW b PROVE KeepsRow(l, b) /\ KeepsCursor(l)
  BY NothingMoved
<1>3. ASSUME NEW b \in BlocksOf(ldb')
      PROVE  /\ OwnAt(ldb[b], b)' /\ LE(EndOf(ldb', b), top)
             /\ Stored(ldb[b], b)' \/ ldb'[b].file \in Gone'
  <2>1. PICK l : l = ldb'[b]
    OBVIOUS
  <2>2. OwnAt(l, b) /\ (Stored(l, b) \/ l.file \in Gone)
    BY <2>1
  <2>3. OwnAt(l, b)' /\ (Stored(l, b)' \/ l.file \in Gone')
    BY <1>1, <1>2, <2>2 DEF KeepsRow
  <2> QED
    BY <2>1, <2>3
<1>4. ASSUME NEW b \in BlocksOf(cachedKeys')
      PROVE  /\ OwnAt(cachedKeys[b], b)' /\ LE(EndOf(cachedKeys', b), top)
             /\ Written(cachedKeys[b], b)' \/ cachedKeys'[b].file \in Gone'
  <2>1. PICK l : l = cachedKeys'[b]
    OBVIOUS
  <2>2. OwnAt(l, b) /\ (Written(l, b) \/ l.file \in Gone)
    BY <2>1
  <2>3. OwnAt(l, b)' /\ (Written(l, b)' \/ l.file \in Gone')
    BY <1>1, <1>2, <2>2 DEF KeepsRow
  <2> QED
    BY <2>1, <2>3
<1>5. ASSUME NEW b \in BlocksOf(reader'.rows)
      PROVE  /\ OwnAt(reader.rows[b], b)' /\ LE(EndOf(reader'.rows, b), top)
             /\ Reads(reader.rows[b], b)' \/ reader'.rows[b].file \in Gone'
  <2>1. PICK l : l = reader'.rows[b]
    OBVIOUS
  <2>2. OwnAt(l, b) /\ (Reads(l, b) \/ l.file \in Gone)
    BY <2>1
  <2>3. OwnAt(l, b)' /\ (Reads(l, b)' \/ l.file \in Gone')
    BY <1>1, <1>2, <2>2 DEF KeepsRow
  <2> QED
    BY <2>1, <2>3
<1>6. (Zero(ldb[WriteLoc]) \/ StoredTo(ldb[WriteLoc]) \/ ldb[WriteLoc].file \in Gone)'
  <2>1. PICK l : l = ldb'[WriteLoc]
    OBVIOUS
  <2>2. Zero(l) \/ StoredTo(l) \/ l.file \in Gone
    BY <2>1
  <2>3. Zero(l) \/ StoredTo(l)' \/ l.file \in Gone'
    BY <1>1, <1>2, <2>2 DEF KeepsCursor
  <2> QED
    BY <2>1, <2>3 DEF Zero
<1>7. (Zero(View[WriteLoc]) \/ WrittenTo(View[WriteLoc]) \/ View[WriteLoc].file \in Gone)'
  <2>1. Zero(top) \/ WrittenTo(top)' \/ top.file \in Gone'
    BY <1>1, <1>2 DEF KeepsCursor
  <2> QED
    BY <2>1 DEF Zero
<1> QED
  BY <1>3, <1>4, <1>5, <1>6, <1>7 DEF Rows, EndOf, BlocksOf, LE

\* Everything but the reader stays.
LEMMA SameTx ==
    ASSUME BlocksInv, UNCHANGED <<files, wc, left, lost, ldb, cachedKeys, cachedRemove, tx, db>>
    PROVE  Writing' /\ Present' /\ Down' /\ RefusedOnlyAfterLoss'
<1>1. View' = View /\ TxView(tx)' = TxView(tx)
  BY DEF View, TxView
<1>2. Writing /\ Present /\ Down /\ RefusedOnlyAfterLoss
  BY Unpack
<1>3. Writing'
  BY <1>2 DEF Writing, Written, WrittenTo, Reads, Within, Safe, Current, Zero, BlocksOf
<1>4. ASSUME tx.st \in {"idle", "open"}
      PROVE  /\ (\A b \in BlocksOf(View) : Written(View[b], b) \/ View[b].file \in lost)'
             /\ (Zero(View[WriteLoc]) \/ WrittenTo(View[WriteLoc]) \/ View[WriteLoc].file \in lost)'
  <2>1. /\ \A b \in BlocksOf(View) : Written(View[b], b) \/ View[b].file \in lost
        /\ Zero(View[WriteLoc]) \/ WrittenTo(View[WriteLoc]) \/ View[WriteLoc].file \in lost
    BY <1>2, <1>4 DEF Present
  <2> QED
    BY <1>1, <2>1 DEF Written, WrittenTo, Reads, Within, Safe, Current, Zero, BlocksOf
<1>5. (\A b \in BlocksOf(TxView(tx)) :
         \/ /\ Written(TxView(tx)[b], b)
            /\ \A i \in DOMAIN tx.del : tx.del[i] # TxView(tx)[b].file
         \/ TxView(tx)[b].file \in lost)'
  <2>1. \A b \in BlocksOf(TxView(tx)) :
          \/ /\ Written(TxView(tx)[b], b)
             /\ \A i \in DOMAIN tx.del : tx.del[i] # TxView(tx)[b].file
          \/ TxView(tx)[b].file \in lost
    BY <1>2 DEF Present
  <2> QED
    BY <1>1, <2>1 DEF Written, Reads, Within, Safe, Current, BlocksOf
<1>6. Present'
  BY <1>4, <1>5 DEF Present
<1> QED
  BY <1>2, <1>3, <1>6 DEF Down, RefusedOnlyAfterLoss

LEMMA ReaderBlocks ==
    ASSUME BlocksInv, ReaderLdb \/ ReaderRoots \/ ReaderEnd PROVE BlockParts'
<1>1. UNCHANGED <<files, wc, left, lost, pruned, ldb, cachedKeys, cachedRemove, tx, db>>
  BY DEF ReaderLdb, ReaderRoots, ReaderEnd, disk, cache, hist
<1>2. PICK top : top = View[WriteLoc] /\ top = View'[WriteLoc]
  BY <1>1 DEF View
<1>3. \A b \in BlocksOf(ldb) :
         /\ OwnAt(ldb[b], b) /\ LE(EndOf(ldb, b), top)
         /\ Stored(ldb[b], b) \/ ldb[b].file \in Gone
         /\ Reads(ldb[b], b) \/ ldb[b].file \in Gone
  BY <1>2, Unpack DEF Rows, Stored
<1>4. \A b \in BlocksOf(cachedKeys) :
         /\ OwnAt(cachedKeys[b], b) /\ LE(EndOf(cachedKeys, b), top)
         /\ Written(cachedKeys[b], b) \/ cachedKeys[b].file \in Gone
         /\ Reads(cachedKeys[b], b) \/ cachedKeys[b].file \in Gone
  BY <1>2, Unpack DEF Rows, Written
<1>5. \A b \in BlocksOf(reader.rows) :
         /\ OwnAt(reader.rows[b], b) /\ LE(EndOf(reader.rows, b), top)
         /\ Reads(reader.rows[b], b) \/ reader.rows[b].file \in Gone
  BY <1>2, Unpack DEF Rows
<1>6. PICK R : R = reader'.rows
  OBVIOUS
<1>7. \A b \in BlocksOf(R) :
         /\ OwnAt(R[b], b) /\ LE(EndOf(R, b), top)
         /\ Reads(R[b], b) \/ R[b].file \in Gone
  <2>1. CASE ReaderLdb
    <3>1. R = ldb
      BY <1>6, <2>1 DEF ReaderLdb
    <3> QED
      BY <1>3, <3>1
  <2>2. CASE ReaderRoots
    <3>1. R = Snap(reader.rows, cachedKeys, cachedRemove)
      BY <1>6, <2>2 DEF ReaderRoots
    <3>2. ASSUME NEW b \in BlocksOf(R)
          PROVE  \/ b \in BlocksOf(cachedKeys) /\ R[b] = cachedKeys[b]
                 \/ b \in BlocksOf(reader.rows) /\ R[b] = reader.rows[b]
      BY <3>1 DEF Snap, BlocksOf
    <3> QED
      BY <1>4, <1>5, <3>2 DEF EndOf
  <2>3. CASE ReaderEnd
    <3>1. BlocksOf(R) = {}
      BY <1>6, <2>3, IdleRows DEF ReaderEnd, NoReader
    <3> QED
      BY <3>1
  <2> QED
    BY <2>1, <2>2, <2>3
<1>8. /\ LE(ldb[WriteLoc], top)
      /\ Zero(ldb[WriteLoc]) \/ StoredTo(ldb[WriteLoc]) \/ ldb[WriteLoc].file \in Gone
      /\ Zero(top) \/ WrittenTo(top) \/ top.file \in Gone
  BY <1>2, Unpack DEF Rows
<1>9. Rows'
  BY <1>1, <1>2, <1>3, <1>4, <1>6, <1>7, <1>8, RowsFrom
<1> QED
  BY <1>1, <1>9, SameTx DEF BlockParts

\* While the open file is synced, what is written is stored.
LEMMA SyncedWritten ==
    ASSUME Filed, wc.open /\ wc.file \in DOMAIN files =>
                    files[wc.file].synced = Len(files[wc.file].data)
    PROVE  /\ \A l, b : Written(l, b) => Stored(l, b)
           /\ \A d : WrittenTo(d) => StoredTo(d)
BY DEF Written, Stored, WrittenTo, StoredTo, Reads, Within, Safe, Current

\* A flush goes on: the files, the view and the transaction's rows stay.
LEMMA FlushRest ==
    ASSUME BlocksInv, tx.st \in {"flush", "clear"}, tx'.st \in {"clear", "direct"},
           tx'.keys = tx.keys, tx'.remove = tx.remove, tx'.del = tx.del, View' = View,
           UNCHANGED <<files, wc, left, lost, pruned, db>>
    PROVE  Writing' /\ Present' /\ Down' /\ RefusedOnlyAfterLoss'
<1>1. db = "up"
  BY Unpack DEF Stopped
<1>2. ASSUME NEW b \in BlocksOf(tx'.keys) PROVE Written(tx.keys[b], b)'
  <2>1. PICK l : l = tx.keys[b] /\ l = tx'.keys[b]
    OBVIOUS
  <2>2. Written(l, b)
    BY <2>1, Unpack DEF Writing
  <2> QED
    BY <2>1, <2>2, NothingMoved DEF KeepsRow
<1>3. (Zero(wc) \/ WrittenTo(wc) \/ wc.file \in lost)'
  <2>1. PICK w : w = wc /\ w = wc'
    OBVIOUS
  <2>2. Zero(w) \/ WrittenTo(w) \/ w.file \in lost
    BY <1>1, <2>1, Unpack DEF Writing
  <2>3. Zero(w) \/ WrittenTo(w)' \/ w.file \in lost'
    BY <2>2, NothingMoved DEF KeepsCursor
  <2> QED
    BY <2>1, <2>3 DEF Zero
<1>4. (wc.open /\ wc.file \in DOMAIN files => files[wc.file].synced = Len(files[wc.file].data))'
  BY Unpack DEF Writing
<1>5. Writing'
  BY <1>2, <1>3, <1>4 DEF Writing, BlocksOf
<1>6. TxView(tx)' = TxView(tx)
  BY DEF TxView
<1>7. ASSUME NEW b \in BlocksOf(TxView(tx)')
      PROVE  \/ /\ Written(TxView(tx)[b], b)'
                /\ \A i \in DOMAIN tx'.del : tx'.del[i] # TxView(tx)'[b].file
             \/ TxView(tx)'[b].file \in lost'
  <2>1. PICK l : l = TxView(tx)[b] /\ l = TxView(tx)'[b] /\ b \in BlocksOf(TxView(tx))
    BY <1>6, <1>7
  <2>2. \/ Written(l, b) /\ \A i \in DOMAIN tx.del : tx.del[i] # l.file
        \/ l.file \in lost
    BY <2>1, Unpack DEF Present
  <2>3. \/ Written(l, b)' /\ \A i \in DOMAIN tx'.del : tx'.del[i] # l.file
        \/ l.file \in lost'
    BY <2>2, NothingMoved DEF KeepsRow
  <2> QED
    BY <2>1, <2>3
<1>8. Present'
  BY <1>7 DEF Present, BlocksOf
<1> QED
  BY <1>1, <1>5, <1>8, Unpack DEF Down, RefusedOnlyAfterLoss

LEMMA TreapsBlocks == ASSUME BlocksInv, flushTreaps PROVE BlockParts'
<1>1. /\ tx.st = "flush" /\ tx' = [tx EXCEPT !.st = "clear"] /\ ldb' = View
      /\ UNCHANGED <<files, wc, left, lost, pruned, cachedKeys, cachedRemove, reader, db>>
  BY TreapsAreView DEF flushTreaps, cache, hist, View
<1>2. /\ tx'.st = "clear" /\ tx'.keys = tx.keys /\ tx'.remove = tx.remove /\ tx'.del = tx.del
  BY <1>1, Unpack DEF TxShape
<1>3. View' = View
  BY <1>1, SnapTwice DEF View
<1>5. /\ \A l, b : Written(l, b) => Stored(l, b)
      /\ \A d : WrittenTo(d) => StoredTo(d)
  BY <1>1, Unpack, SyncedWritten DEF Writing
<1>6. PICK V : V = View /\ V = View' /\ V = ldb'
  BY <1>1, <1>3
<1>7. PICK top \in Locs : top = V[WriteLoc]
  BY <1>6, Unpack
<1>8. \A b \in BlocksOf(V) : /\ OwnAt(V[b], b) /\ LE(EndOf(V, b), top)
                             /\ Stored(V[b], b) \/ V[b].file \in Gone
  BY <1>5, <1>6, <1>7, Unpack, ViewKept
<1>9. LE(top, top)
  BY NotAfter DEF Locs
<1>10. /\ Zero(top) \/ StoredTo(top) \/ top.file \in Gone
       /\ Zero(top) \/ WrittenTo(top) \/ top.file \in Gone
  BY <1>5, <1>6, <1>7, Unpack DEF Rows
<1>11. /\ \A b \in BlocksOf(cachedKeys) :
            /\ OwnAt(cachedKeys[b], b) /\ LE(EndOf(cachedKeys, b), top)
            /\ Written(cachedKeys[b], b) \/ cachedKeys[b].file \in Gone
       /\ \A b \in BlocksOf(reader.rows) :
            /\ OwnAt(reader.rows[b], b) /\ LE(EndOf(reader.rows, b), top)
            /\ Reads(reader.rows[b], b) \/ reader.rows[b].file \in Gone
  BY <1>6, <1>7, Unpack DEF Rows
<1>12. Rows'
  BY <1>1, <1>6, <1>7, <1>8, <1>9, <1>10, <1>11, RowsFrom
<1> QED
  BY <1>1, <1>2, <1>3, <1>12, FlushRest DEF BlockParts

LEMMA ClearBlocks == ASSUME BlocksInv, flushClear PROVE BlockParts'
<1>1. /\ tx.st = "clear" /\ tx' = [tx EXCEPT !.st = "direct"]
      /\ cachedKeys' = Empty /\ cachedRemove' = {}
      /\ UNCHANGED <<files, wc, left, lost, pruned, ldb, reader, db>>
  BY DEF flushClear, disk, hist
<1>2. /\ tx'.st = "direct" /\ tx'.keys = tx.keys /\ tx'.remove = tx.remove /\ tx'.del = tx.del
  BY <1>1, Unpack DEF TxShape
<1>3. View' = View
  <2>1. View = ldb
    BY <1>1, Unpack DEF StoreInv, Flushed
  <2> QED
    BY <2>1, <1>1, Unpack, SnapEmpty DEF View, StoreInv, IsRows
<1>5. PICK top : top = View[WriteLoc] /\ top = View'[WriteLoc]
  BY <1>3
<1>6. /\ \A b \in BlocksOf(ldb) :
           /\ OwnAt(ldb[b], b) /\ LE(EndOf(ldb, b), top)
           /\ Stored(ldb[b], b) \/ ldb[b].file \in Gone
      /\ \A b \in BlocksOf(reader.rows) :
           /\ OwnAt(reader.rows[b], b) /\ LE(EndOf(reader.rows, b), top)
           /\ Reads(reader.rows[b], b) \/ reader.rows[b].file \in Gone
      /\ LE(ldb[WriteLoc], top)
      /\ Zero(ldb[WriteLoc]) \/ StoredTo(ldb[WriteLoc]) \/ ldb[WriteLoc].file \in Gone
      /\ Zero(top) \/ WrittenTo(top) \/ top.file \in Gone
  BY <1>5, Unpack DEF Rows
<1>7. BlocksOf(cachedKeys') = {}
  BY <1>1, IdleRows
<1>8. Rows'
  BY <1>1, <1>5, <1>6, <1>7, RowsFrom
<1> QED
  BY <1>1, <1>2, <1>3, <1>8, FlushRest DEF BlockParts

\* The rows of the transaction are committed, with the cursor: what it read
\* is what is read from now on.
LEMMA CommitBlocks ==
    ASSUME BlocksInv, db = "up", tx.st # "undo", tx' = Idle, Typed',
           NEW K, NEW R, BlocksOf(K) = BlocksOf(tx.keys), R = tx.remove,
           \A b \in BlocksOf(K) : K[b] = tx.keys[b],
           WriteLoc \in DOMAIN K, K[WriteLoc] = At(wc), View' = Snap(View, K, R),
           UNCHANGED <<files, wc, left, lost, pruned, db>>
    PROVE  /\ Writing' /\ Present' /\ Down' /\ RefusedOnlyAfterLoss'
           /\ View'[WriteLoc] = At(wc)
           /\ Zero(At(wc)) \/ WrittenTo(At(wc)) \/ At(wc).file \in lost
           /\ LE(View[WriteLoc], At(wc))
           /\ \A b \in BlocksOf(K) : /\ OwnAt(K[b], b) /\ LE(EndOf(K, b), At(wc))
                                     /\ Written(K[b], b)
           /\ \A e : e.file \in Nat /\ e.off \in Nat /\ LE(e, View[WriteLoc]) => LE(e, At(wc))
<1>1. Zero(wc) \/ WrittenTo(wc) \/ wc.file \in lost
  BY Unpack DEF Writing
<1>2. Zero(At(wc)) \/ WrittenTo(At(wc)) \/ At(wc).file \in lost
  BY <1>1, Unpack DEF Zero, WrittenTo, Within, Safe, Current
<1>3. LE(View[WriteLoc], At(wc))
  BY Unpack DEF Cursors, LE
<1>4. \A e : e.file \in Nat /\ e.off \in Nat /\ LE(e, View[WriteLoc]) => LE(e, At(wc))
  BY <1>3, Unpack, NotAfter
<1>5. ASSUME NEW b \in BlocksOf(K)
      PROVE  OwnAt(K[b], b) /\ LE(EndOf(K, b), At(wc)) /\ Written(K[b], b)
  <2>1. K[b] = tx.keys[b] /\ b \in BlocksOf(tx.keys) /\ EndOf(K, b) = EndAt(tx.keys[b], BlockLen[b])
    BY DEF EndOf, EndAt
  <2>2. b \in Blocks /\ LE(EndAt(tx.keys[b], BlockLen[b]), wc)
    BY <2>1, TxRow
  <2>3. Written(tx.keys[b], b)
    BY <2>1, Unpack DEF Writing
  <2>4. LE(EndAt(tx.keys[b], BlockLen[b]), At(wc))
    BY <2>2, Unpack DEF LE
  <2> QED
    BY <2>1, <2>2, <2>3, <2>4, StoredWritten
<1>6. Writing'
  <2>1. (Zero(wc) \/ WrittenTo(wc) \/ wc.file \in lost)'
    BY <1>1 DEF Zero, WrittenTo, Within, Safe, Current
  <2> QED
    BY <2>1, IdleWriting
<1>7. WriteLoc \notin R /\ View'[WriteLoc] = At(wc)
  <2>1. WriteLoc \notin R
    BY Unpack, Constants DEF Typed
  <2> QED
    BY <2>1 DEF Snap
<1>8. Present'
  <2>1. ASSUME NEW b \in BlocksOf(View')
        PROVE  Written(View[b], b)' \/ View'[b].file \in lost'
    <3>1. b \in BlocksOf(TxView(tx)) /\ View'[b] = TxView(tx)[b]
      BY <2>1 DEF TxView, Snap, BlocksOf
    <3>2. PICK l : l = View'[b] /\ l = TxView(tx)[b]
      BY <3>1
    <3>3. Written(l, b) \/ l.file \in lost
      BY <3>1, <3>2, Unpack DEF Present
    <3>4. Written(l, b)' \/ l.file \in lost'
      BY <3>3, NothingMoved DEF KeepsRow
    <3> QED
      BY <3>2, <3>4
  <2>2. (Zero(View[WriteLoc]) \/ WrittenTo(View[WriteLoc]) \/ View[WriteLoc].file \in lost)'
    <3>1. PICK d : d = At(wc) /\ d = View'[WriteLoc]
      BY <1>7
    <3>2. Zero(d) \/ WrittenTo(d)' \/ d.file \in lost'
      BY <1>2, <3>1, NothingMoved DEF KeepsCursor
    <3> QED
      BY <3>1, <3>2 DEF Zero
  <2>3. (\A b \in BlocksOf(View) : Written(View[b], b) \/ View[b].file \in lost)'
    BY <2>1 DEF BlocksOf
  <2> QED
    BY <2>2, <2>3, ClosedPresent
<1>9. Down' /\ RefusedOnlyAfterLoss'
  BY Unpack DEF Down, RefusedOnlyAfterLoss
<1> QED
  BY <1>2, <1>3, <1>4, <1>5, <1>6, <1>7, <1>8, <1>9

LEMMA ToCacheBlocks == ASSUME BlocksInv, commitToCache PROVE BlockParts'
<1> DEFINE t == WithCursor(tx)
<1>1. /\ tx.st = "write" /\ tx' = Idle
      /\ cachedKeys' = Minus(Merge(cachedKeys, t.keys), t.remove)
      /\ cachedRemove' = (cachedRemove \ DOMAIN t.keys) \cup t.remove
      /\ UNCHANGED <<files, wc, left, lost, pruned, ldb, reader, db>>
  BY DEF commitToCache, disk, hist
<1>2. CursorParts /\ StoreInv /\ TxShape /\ db = "up"
  BY <1>1, Unpack DEF Stopped
<1>3. /\ WriteLoc \in DOMAIN t.keys /\ t.keys[WriteLoc] = At(wc)
      /\ BlocksOf(t.keys) = BlocksOf(tx.keys) /\ t.remove = tx.remove
      /\ \A b \in BlocksOf(tx.keys) : t.keys[b] = tx.keys[b]
  BY <1>2, CursorAdded
<1>4. PICK K, R : K = t.keys /\ R = t.remove
  OBVIOUS
<1> HIDE DEF t
<1>5. View' = Snap(View, K, R)
  BY <1>1, <1>4, CacheMerge DEF View
<1>6. Typed'
  BY <1>2, ToCacheCursor DEF CursorParts
<1>7. /\ Writing' /\ Present' /\ Down' /\ RefusedOnlyAfterLoss'
      /\ View'[WriteLoc] = At(wc)
      /\ Zero(At(wc)) \/ WrittenTo(At(wc)) \/ At(wc).file \in lost
      /\ LE(View[WriteLoc], At(wc))
      /\ \A b \in BlocksOf(K) : OwnAt(K[b], b) /\ LE(EndOf(K, b), At(wc)) /\ Written(K[b], b)
      /\ \A e : e.file \in Nat /\ e.off \in Nat /\ LE(e, View[WriteLoc]) => LE(e, At(wc))
  BY <1>1, <1>2, <1>3, <1>4, <1>5, <1>6, CommitBlocks
<1>8. PICK top : top = At(wc) /\ top = View'[WriteLoc]
  BY <1>7
<1>9. /\ AreRows(ldb) /\ AreRows(cachedKeys) /\ AreRows(reader.rows) /\ ldb[WriteLoc] \in Locs
  BY Unpack DEF Typed, AreRows
<1>10. \A b \in BlocksOf(ldb) : /\ OwnAt(ldb[b], b) /\ LE(EndOf(ldb, b), top)
                                /\ Stored(ldb[b], b) \/ ldb[b].file \in Gone
  BY <1>7, <1>8, <1>9, Unpack, EndIsLoc DEF Rows
<1>11. \A b \in BlocksOf(cachedKeys) :
          /\ OwnAt(cachedKeys[b], b) /\ LE(EndOf(cachedKeys, b), top)
          /\ Written(cachedKeys[b], b) \/ cachedKeys[b].file \in Gone
  BY <1>7, <1>8, <1>9, Unpack, EndIsLoc DEF Rows
<1>12. \A b \in BlocksOf(reader.rows) :
          /\ OwnAt(reader.rows[b], b) /\ LE(EndOf(reader.rows, b), top)
          /\ Reads(reader.rows[b], b) \/ reader.rows[b].file \in Gone
  BY <1>7, <1>8, <1>9, Unpack, EndIsLoc DEF Rows
<1>13. PICK C : C = cachedKeys'
  OBVIOUS
<1>14. \A b \in BlocksOf(C) : /\ OwnAt(C[b], b) /\ LE(EndOf(C, b), top)
                              /\ Written(C[b], b) \/ C[b].file \in Gone
  <2>1. C = Minus(Merge(cachedKeys, K), R)
    BY <1>1, <1>4, <1>13
  <2>2. ASSUME NEW b \in BlocksOf(C)
        PROVE  \/ b \in BlocksOf(K) /\ C[b] = K[b]
               \/ b \in BlocksOf(cachedKeys) /\ C[b] = cachedKeys[b]
    BY <2>1 DEF Minus, Merge, BlocksOf
  <2> QED
    BY <1>7, <1>8, <1>11, <2>2 DEF EndOf
<1>15. /\ LE(ldb[WriteLoc], top)
       /\ Zero(ldb[WriteLoc]) \/ StoredTo(ldb[WriteLoc]) \/ ldb[WriteLoc].file \in Gone
       /\ Zero(top) \/ WrittenTo(top) \/ top.file \in Gone
  BY <1>7, <1>8, <1>9, Unpack DEF Rows, Locs, Gone
<1>16. Rows'
  BY <1>1, <1>8, <1>10, <1>12, <1>13, <1>14, <1>15, RowsFrom
<1> QED
  BY <1>7, <1>16 DEF BlockParts

LEMMA DirectBlocks == ASSUME BlocksInv, commitDirect PROVE BlockParts'
<1>1. /\ tx.st = "direct" /\ tx' = Idle /\ ldb' = Snap(ldb, tx.keys, tx.remove)
      /\ UNCHANGED <<files, wc, left, lost, pruned, cachedKeys, cachedRemove, reader, db>>
  BY TreapsAreView DEF commitDirect, cache, hist
<1>2. CursorParts /\ StoreInv /\ TxShape /\ db = "up"
  BY <1>1, Unpack DEF Stopped
<1>3. View = ldb /\ View' = ldb'
  <2>1. cachedKeys = Empty /\ cachedRemove = {} /\ IsRows
    BY <1>1, <1>2 DEF StoreInv, Flushed, NoCache
  <2>2. IsRows'
    BY <1>1, SnapIsRows DEF IsRows
  <2> QED
    BY <2>1, <2>2, <1>1, SnapEmpty DEF View, IsRows
<1>4. WriteLoc \in DOMAIN tx.keys /\ tx.keys[WriteLoc] = At(wc)
  BY <1>1, <1>2 DEF StoreInv, Cursored
<1>5. PICK K, R : K = tx.keys /\ R = tx.remove
  OBVIOUS
<1>6. Typed'
  BY <1>2, DirectCursor DEF CursorParts
<1>7. /\ Writing' /\ Present' /\ Down' /\ RefusedOnlyAfterLoss'
      /\ View'[WriteLoc] = At(wc)
      /\ Zero(At(wc)) \/ WrittenTo(At(wc)) \/ At(wc).file \in lost
      /\ LE(View[WriteLoc], At(wc))
      /\ \A b \in BlocksOf(K) : OwnAt(K[b], b) /\ LE(EndOf(K, b), At(wc)) /\ Written(K[b], b)
      /\ \A e : e.file \in Nat /\ e.off \in Nat /\ LE(e, View[WriteLoc]) => LE(e, At(wc))
  BY <1>1, <1>2, <1>3, <1>4, <1>5, <1>6, CommitBlocks
<1>8. PICK top \in Locs : top = At(wc) /\ top = View'[WriteLoc] /\ top = ldb'[WriteLoc]
  BY <1>3, <1>7, Unpack
<1>9. /\ \A l, b : Written(l, b) => Stored(l, b)
      /\ \A d : WrittenTo(d) => StoredTo(d)
  BY <1>1, Unpack, SyncedWritten DEF Writing
<1>10. AreRows(ldb) /\ AreRows(reader.rows)
  BY Unpack DEF Typed
<1>11. \A b \in BlocksOf(ldb) : /\ OwnAt(ldb[b], b) /\ LE(EndOf(ldb, b), top)
                                /\ Stored(ldb[b], b) \/ ldb[b].file \in Gone
  BY <1>7, <1>8, <1>10, Unpack, EndIsLoc DEF Rows
<1>12. \A b \in BlocksOf(reader.rows) :
          /\ OwnAt(reader.rows[b], b) /\ LE(EndOf(reader.rows, b), top)
          /\ Reads(reader.rows[b], b) \/ reader.rows[b].file \in Gone
  BY <1>7, <1>8, <1>10, Unpack, EndIsLoc DEF Rows
<1>13. PICK D : D = ldb' /\ D = Snap(ldb, K, R)
  BY <1>1, <1>5
<1>14. \A b \in BlocksOf(D) : /\ OwnAt(D[b], b) /\ LE(EndOf(D, b), top)
                              /\ Stored(D[b], b) \/ D[b].file \in Gone
  <2>1. ASSUME NEW b \in BlocksOf(D)
        PROVE  \/ b \in BlocksOf(K) /\ D[b] = K[b]
               \/ b \in BlocksOf(ldb) /\ D[b] = ldb[b]
    BY <1>13 DEF Snap, BlocksOf
  <2> QED
    BY <1>7, <1>8, <1>9, <1>11, <2>1 DEF EndOf
<1>15. /\ LE(top, top)
       /\ Zero(top) \/ StoredTo(top) \/ top.file \in Gone
       /\ Zero(top) \/ WrittenTo(top) \/ top.file \in Gone
  BY <1>7, <1>8, <1>9, NotAfter DEF Locs, Gone
<1>16. BlocksOf(cachedKeys') = {}
  BY <1>1, <1>2, IdleRows DEF StoreInv, Flushed, NoCache
<1>17. Rows'
  BY <1>1, <1>8, <1>12, <1>13, <1>14, <1>15, <1>16, RowsFrom
<1> QED
  BY <1>7, <1>17 DEF BlockParts

\* A sync changes no unit.
LEMMA SyncKeeps ==
    ASSUME Filed, Filed', files' = syncBlocks, left' = left, NEW l, NEW b
    PROVE  /\ OwnAt(l, b) => OwnAt(l, b)'
           /\ Written(l, b) => Stored(l, b)'
           /\ Stored(l, b) => Stored(l, b)'
           /\ Reads(l, b) => Reads(l, b)'
           /\ StoredTo(l) => StoredTo(l)'
           /\ WrittenTo(l) => StoredTo(l)'
<1>1. /\ DOMAIN files' = DOMAIN files
      /\ \A n \in DOMAIN files : files'[n].data = files[n].data
      /\ wc.open /\ wc.file \in DOMAIN files => files'[wc.file].synced = Len(files[wc.file].data)
  BY SyncBlocks
<1>2. \A n \in DOMAIN files : files'[n] = files[n] \/ files'[n].synced = Len(files'[n].data)
  <2>1. CASE wc.open /\ wc.file \in DOMAIN files
    <3>1. files' = Put(files, wc.file, Sync(files[wc.file]))
      BY <2>1 DEF syncBlocks
    <3>2. \A n \in DOMAIN files \ {wc.file} : files'[n] = files[n]
      BY <3>1 DEF Put, Merge
    <3> QED
      BY <1>1, <2>1, <3>2
  <2>2. CASE ~(wc.open /\ wc.file \in DOMAIN files)
    BY <2>2 DEF syncBlocks
  <2> QED
    BY <2>1, <2>2
<1>3. OwnAt(l, b) => OwnAt(l, b)'
  BY <1>1 DEF OwnAt
<1>4. Reads(l, b) => Reads(l, b)'
  BY <1>1 DEF Reads
<1>5. Stored(l, b) => Stored(l, b)'
  BY <1>1, <1>2, <1>4 DEF Stored, Safe, Reads
<1>6. Written(l, b) => Stored(l, b)'
  BY <1>1, <1>2, <1>4 DEF Written, Stored, Safe, Current, Reads
<1>7. StoredTo(l) => StoredTo(l)'
  BY <1>1, <1>2 DEF StoredTo, Within, Safe
<1>8. WrittenTo(l) => StoredTo(l)'
  BY <1>1, <1>2 DEF WrittenTo, StoredTo, Within, Safe, Current
<1> QED
  BY <1>3, <1>4, <1>5, <1>6, <1>7, <1>8

LEMMA SyncBlocksBlocks == ASSUME BlocksInv, flushSync PROVE BlockParts'
<1> DEFINE t == WithCursor(tx)
<1>1. /\ tx.st = "write" /\ tx' = [t EXCEPT !.st = "flush"] /\ files' = syncBlocks
      /\ UNCHANGED <<ldb, cachedKeys, cachedRemove, wc, reader, db, left, lost, pruned>>
  BY DEF flushSync, cache, hist
<1>2. CursorParts /\ StoreInv /\ TxShape /\ db = "up"
  BY <1>1, Unpack DEF Stopped
<1>3. /\ BlocksOf(t.keys) = BlocksOf(tx.keys) /\ t.remove = tx.remove
      /\ \A b \in BlocksOf(tx.keys) : t.keys[b] = tx.keys[b]
      /\ DOMAIN t = DOMAIN tx /\ t.del = tx.del
  BY <1>2, CursorAdded
<1> HIDE DEF t
<1>4. /\ tx'.st = "flush" /\ tx'.keys = t.keys /\ tx'.remove = tx.remove /\ tx'.del = tx.del
  BY <1>1, <1>2, <1>3 DEF TxShape
<1>5. Filed'
  BY <1>1, Unpack, SyncBlocksFiled
<1>6. View' = View
  BY <1>1 DEF View
<1>7. ASSUME NEW l, NEW b PROVE KeepsRow(l, b) /\ KeepsCursor(l)
  <2>1. /\ OwnAt(l, b) => OwnAt(l, b)'
        /\ Written(l, b) => Stored(l, b)'
        /\ Stored(l, b) => Stored(l, b)'
        /\ Reads(l, b) => Reads(l, b)'
        /\ StoredTo(l) => StoredTo(l)'
        /\ WrittenTo(l) => StoredTo(l)'
    BY <1>1, <1>5, Unpack, SyncKeeps
  <2>2. (Stored(l, b)' => Written(l, b)') /\ (StoredTo(l)' => WrittenTo(l)')
    BY DEF Stored, Written, StoredTo, WrittenTo
  <2> QED
    BY <2>1, <2>2 DEF KeepsRow, KeepsCursor
<1>8. Rows'
  <2>1. lost \subseteq lost' /\ pruned \subseteq pruned'
    BY <1>1
  <2> QED
    BY <1>1, <1>7, <2>1, Unpack, RowsKept DEF KeepsRow
<1>9. ASSUME NEW b \in BlocksOf(tx'.keys) PROVE Written(tx.keys[b], b)'
  <2>1. PICK l : l = tx.keys[b] /\ l = tx'.keys[b] /\ b \in BlocksOf(tx.keys)
    BY <1>3, <1>4, <1>9
  <2>2. Written(l, b)
    BY <2>1, Unpack DEF Writing
  <2> QED
    BY <1>7, <2>1, <2>2 DEF KeepsRow
<1>10. (Zero(wc) \/ WrittenTo(wc) \/ wc.file \in lost)'
  <2>1. PICK w : w = wc /\ w = wc'
    BY <1>1
  <2>2. Zero(w) \/ WrittenTo(w) \/ w.file \in lost
    BY <1>1, <1>2, <2>1, Unpack DEF Writing
  <2>3. Zero(w) \/ WrittenTo(w)' \/ w.file \in lost'
    BY <1>1, <1>7, <2>2 DEF KeepsCursor
  <2> QED
    BY <2>1, <2>3 DEF Zero
<1>11. (wc.open /\ wc.file \in DOMAIN files => files[wc.file].synced = Len(files[wc.file].data))'
  BY <1>1, Unpack, SyncBlocks
<1>12. Writing'
  BY <1>4, <1>9, <1>10, <1>11 DEF Writing, BlocksOf
<1>13. ASSUME NEW b \in BlocksOf(TxView(tx)')
       PROVE  \/ /\ Written(TxView(tx)[b], b)'
                 /\ \A i \in DOMAIN tx'.del : tx'.del[i] # TxView(tx)'[b].file
              \/ TxView(tx)'[b].file \in lost'
  <2>0. TxView(tx)' = Snap(View, t.keys, tx.remove)
    BY <1>4, <1>6 DEF TxView
  <2>1. b \in BlocksOf(TxView(tx)) /\ TxView(tx)'[b] = TxView(tx)[b]
    BY <1>3, <1>13, <2>0 DEF TxView, Snap, BlocksOf
  <2>2. PICK l : l = TxView(tx)[b] /\ l = TxView(tx)'[b]
    BY <2>1
  <2>3. \/ Written(l, b) /\ \A i \in DOMAIN tx.del : tx.del[i] # l.file
        \/ l.file \in lost
    BY <2>1, <2>2, Unpack DEF Present
  <2>4. \/ Written(l, b)' /\ \A i \in DOMAIN tx'.del : tx'.del[i] # l.file
        \/ l.file \in lost'
    BY <1>1, <1>4, <1>7, <2>3 DEF KeepsRow
  <2> QED
    BY <2>2, <2>4
<1>14. Present'
  BY <1>4, <1>13 DEF Present, BlocksOf
<1> QED
  BY <1>1, <1>2, <1>8, <1>12, <1>14 DEF BlockParts, Down, RefusedOnlyAfterLoss

---------------------------------------------------------------------------
(* Shutdown, crashes and the next start.                                   *)

\* The process is gone: only the rows of the leveldb can come back.
LEMMA DownBlocks ==
    ASSUME Forget, CursorInv',
           (\A b \in BlocksOf(ldb) : /\ OwnAt(ldb[b], b)
                                     /\ Stored(ldb[b], b) \/ ldb[b].file \in lost)',
           (Zero(ldb[WriteLoc]) \/ StoredTo(ldb[WriteLoc]) \/ ldb[WriteLoc].file \in lost)'
    PROVE  BlockParts'
<1>1. /\ db' = "down" /\ wc' = [file |-> 0, off |-> 0, open |-> FALSE]
      /\ cachedKeys' = Empty /\ cachedRemove' = {} /\ tx' = Idle /\ reader' = NoReader
  BY DEF Forget
<1>2. /\ Typed' /\ IsRows' /\ Behind(ldb', ldb'[WriteLoc])
  BY DEF CursorInv, CursorParts, StoreInv, Cursors
<1>3. View' = ldb'
  BY <1>1, <1>2, SnapEmpty DEF View, IsRows
<1>4. BlocksOf(cachedKeys') = {} /\ BlocksOf(reader'.rows) = {}
  BY <1>1, IdleRows DEF NoReader
<1>5. PICK c \in Locs : c = ldb'[WriteLoc] /\ c = View'[WriteLoc]
  BY <1>2, <1>3 DEF Typed, AreRows
<1>6. LE(c, c)
  BY NotAfter DEF Locs
<1>7. \A b \in BlocksOf(ldb') : LE(EndOf(ldb', b), c)
  BY <1>2, <1>5 DEF Behind
<1>8. /\ (\A b \in BlocksOf(ldb) : Stored(ldb[b], b) \/ ldb[b].file \in Gone)'
      /\ (Zero(ldb[WriteLoc]) \/ StoredTo(ldb[WriteLoc]) \/ ldb[WriteLoc].file \in Gone)'
  BY DEF Gone
<1>9. (Zero(View[WriteLoc]) \/ WrittenTo(View[WriteLoc]) \/ View[WriteLoc].file \in lost)'
  BY <1>5 DEF Zero, WrittenTo, StoredTo, Within, Safe
<1>10. Rows'
  <2>1. (Zero(View[WriteLoc]) \/ WrittenTo(View[WriteLoc]) \/ View[WriteLoc].file \in Gone)'
    BY <1>9 DEF Gone
  <2>2. LE(ldb'[WriteLoc], View'[WriteLoc])
    BY <1>5, <1>6
  <2>3. ASSUME NEW b \in BlocksOf(ldb')
        PROVE  /\ OwnAt(ldb[b], b)' /\ LE(EndOf(ldb', b), View'[WriteLoc])
               /\ Stored(ldb[b], b)' \/ ldb'[b].file \in Gone'
    BY <1>5, <1>7, <1>8 DEF BlocksOf
  <2> QED
    BY <1>4, <1>8, <2>1, <2>2, <2>3 DEF Rows, EndOf, BlocksOf, LE
<1>11. Writing'
  <2>1. (db = "up" => Zero(wc) \/ WrittenTo(wc) \/ wc.file \in lost)'
    BY <1>1
  <2> QED
    BY <1>1, <2>1, IdleWriting
<1>12. Present'
  <2>1. ASSUME NEW b \in BlocksOf(View') PROVE Written(View[b], b)' \/ View'[b].file \in lost'
    <3>1. PICK l : l = View'[b] /\ l = ldb'[b] /\ b \in BlocksOf(ldb')
      BY <1>3, <2>1
    <3>2. Stored(l, b)' \/ l.file \in lost'
      BY <3>1 DEF BlocksOf
    <3>3. Written(l, b)' \/ l.file \in lost'
      BY <3>2 DEF Stored, Written
    <3> QED
      BY <3>1, <3>3
  <2>2. (\A b \in BlocksOf(View) : Written(View[b], b) \/ View[b].file \in lost)'
    BY <2>1 DEF BlocksOf
  <2> QED
    BY <1>1, <1>2, <1>9, <2>2, ClosedPresent
<1>13. Down' /\ RefusedOnlyAfterLoss'
  BY <1>1 DEF Down, RefusedOnlyAfterLoss
<1> QED
  BY <1>10, <1>11, <1>12, <1>13 DEF BlockParts

LEMMA KillBlocks == ASSUME BlocksInv, CloseFails \/ Kill, CursorInv' PROVE BlockParts'
<1>1. /\ Forget /\ lost' = lost \cup Reborn /\ UNCHANGED <<files, ldb, left, pruned>>
  BY DEF CloseFails, Kill, disk
<1>2. ASSUME NEW n, n \in Gone, \E k \in DOMAIN ldb : n = ldb[k].file PROVE n \in lost'
  BY <1>1, <1>2 DEF Gone, Reborn
<1>3. WriteLoc \in DOMAIN ldb
  BY Unpack DEF Typed
<1>4. ASSUME NEW b \in BlocksOf(ldb')
      PROVE  /\ OwnAt(ldb[b], b)'
             /\ Stored(ldb[b], b)' \/ ldb'[b].file \in lost'
  <2>1. PICK l : l = ldb[b] /\ l = ldb'[b] /\ b \in BlocksOf(ldb) /\ b \in DOMAIN ldb
    BY <1>1, <1>4 DEF BlocksOf
  <2>2. OwnAt(l, b) /\ (Stored(l, b) \/ l.file \in Gone)
    BY <2>1, Unpack DEF Rows
  <2>3. OwnAt(l, b)' /\ (Stored(l, b) => Stored(l, b)')
    BY <1>1, <2>2 DEF OwnAt, Stored, Reads, Safe
  <2>4. l.file \in Gone => l.file \in lost'
    BY <1>2, <2>1
  <2> QED
    BY <2>1, <2>2, <2>3, <2>4
<1>5. (Zero(ldb[WriteLoc]) \/ StoredTo(ldb[WriteLoc]) \/ ldb[WriteLoc].file \in lost)'
  <2>1. PICK l : l = ldb[WriteLoc] /\ l = ldb'[WriteLoc]
    BY <1>1
  <2>2. Zero(l) \/ StoredTo(l) \/ l.file \in Gone
    BY <2>1, Unpack DEF Rows
  <2>3. StoredTo(l) => StoredTo(l)'
    BY <1>1 DEF StoredTo, Within, Safe
  <2>4. l.file \in Gone => l.file \in lost'
    BY <1>2, <1>3, <2>1
  <2> QED
    BY <2>1, <2>2, <2>3, <2>4 DEF Zero
<1>6. (\A b \in BlocksOf(ldb) : /\ OwnAt(ldb[b], b)
                                /\ Stored(ldb[b], b) \/ ldb[b].file \in lost)'
  BY <1>4 DEF BlocksOf
<1> QED
  BY <1>1, <1>5, <1>6, DownBlocks

LEMMA CloseBlocks == ASSUME BlocksInv, Close, CursorInv' PROVE BlockParts'
<1>1. /\ Forget /\ ldb' = View /\ files' = syncBlocks /\ tx.st = "idle"
      /\ UNCHANGED <<left, lost, pruned>>
  BY TreapsAreView DEF Close, View, hist
<1>2. Filed'
  BY DEF CursorInv, CursorParts
<1>3. ASSUME NEW b \in BlocksOf(ldb')
      PROVE  /\ OwnAt(ldb[b], b)'
             /\ Stored(ldb[b], b)' \/ ldb'[b].file \in lost'
  <2>1. PICK l : l = View[b] /\ l = ldb'[b] /\ b \in BlocksOf(View)
    BY <1>1, <1>3
  <2>2. OwnAt(l, b)
    BY <2>1, Unpack, ViewKept
  <2>3. Written(l, b) \/ l.file \in lost
    BY <1>1, <2>1, Unpack DEF Present
  <2>4. OwnAt(l, b)' /\ (Written(l, b) => Stored(l, b)')
    BY <1>1, <1>2, <2>2, Unpack, SyncKeeps
  <2> QED
    BY <1>1, <2>1, <2>3, <2>4
<1>4. (Zero(ldb[WriteLoc]) \/ StoredTo(ldb[WriteLoc]) \/ ldb[WriteLoc].file \in lost)'
  <2>1. PICK l : l = View[WriteLoc] /\ l = ldb'[WriteLoc]
    BY <1>1
  <2>2. Zero(l) \/ WrittenTo(l) \/ l.file \in lost
    BY <1>1, <2>1, Unpack DEF Present
  <2>3. WrittenTo(l) => StoredTo(l)'
    BY <1>1, <1>2, Unpack, SyncKeeps
  <2> QED
    BY <1>1, <2>1, <2>2, <2>3 DEF Zero
<1>5. (\A b \in BlocksOf(ldb) : /\ OwnAt(ldb[b], b)
                                /\ Stored(ldb[b], b) \/ ldb[b].file \in lost)'
  BY <1>3 DEF BlocksOf
<1> QED
  BY <1>1, <1>4, <1>5, DownBlocks

\* A power failure takes what was not synced, of a file that writeBlock left
\* without a sync only what counts as lost from then on.
LEMMA PowerBlocks == ASSUME BlocksInv, PowerFailure, CursorInv' PROVE BlockParts'
<1>1. Forget /\ UNCHANGED <<ldb, pruned>> /\ left' = {}
  BY DEF PowerFailure
<1>2. PICK fate :
        /\ files' = [n \in DOMAIN files |-> Survived(n, fate)]
        /\ lost' = lost \cup Reborn
                    \cup {n \in left \cap DOMAIN files' : files'[n].data # files[n].data}
  BY DEF PowerFailure
<1>3. DOMAIN files' = DOMAIN files
  BY <1>2
<1>4. ASSUME NEW n \in DOMAIN files
      PROVE  /\ Len(files'[n].data) <= Len(files[n].data) /\ files[n].synced <= Len(files'[n].data)
             /\ \A i \in 1..Len(files'[n].data) : files'[n].data[i] \in {files[n].data[i], Hole}
             /\ \A i \in 1..files[n].synced : files'[n].data[i] = files[n].data[i]
             /\ files'[n].synced = Len(files'[n].data)
             /\ Len(files'[n].data) \in Nat /\ Len(files[n].data) \in Nat
             /\ files[n].synced \in Nat
  <2>1. files'[n] = Survived(n, fate)
    BY <1>2
  <2>2. IsFile(Survived(n, fate)) /\ IsFile(files[n])
    BY Unpack, SurvivedFile DEF Filed
  <2>3. /\ Len(Survived(n, fate).data) \in Nat /\ Len(files[n].data) \in Nat
        /\ files[n].synced \in Nat
    BY <2>2 DEF IsFile
  <2>4. /\ Len(Survived(n, fate).data) <= Len(files[n].data)
        /\ files[n].synced <= Len(Survived(n, fate).data)
        /\ \A i \in 1..Len(Survived(n, fate).data) :
             Survived(n, fate).data[i] \in {files[n].data[i], Hole}
        /\ \A i \in 1..files[n].synced : Survived(n, fate).data[i] = files[n].data[i]
        /\ Survived(n, fate).synced = Len(Survived(n, fate).data)
    BY Unpack, SurvivedFile
  <2> QED
    BY <2>1, <2>3, <2>4
<1>5. ASSUME NEW n, n \in Gone, \E k \in DOMAIN ldb : n = ldb[k].file PROVE n \in lost'
  BY <1>2, <1>5 DEF Gone, Reborn
<1>6. WriteLoc \in DOMAIN ldb /\ AreRows(ldb)
  BY Unpack DEF Typed
<1>7. ASSUME NEW l \in Locs, NEW b \in Blocks
      PROVE  /\ OwnAt(l, b) => OwnAt(l, b)'
             /\ Stored(l, b) => Stored(l, b)' \/ l.file \in lost'
  <2>1. PICK n \in Nat, o \in Nat, k \in Nat : n = l.file /\ o = l.off /\ k = BlockLen[b]
    BY Constants DEF Locs
  <2>2. \A i \in 1..k : o + i \in Nat /\ o + i > 0 /\ o + i <= o + k
    OBVIOUS
  <2>3. OwnAt(l, b) => OwnAt(l, b)'
    <3>1. ASSUME n \in DOMAIN files, NEW i \in 1..k, o + i <= Len(files'[n].data), OwnAt(l, b)
          PROVE  files'[n].data[o + i] \in {<<b, i>>, Hole}
      <4>1. o + i <= Len(files[n].data) /\ o + i \in 1..Len(files'[n].data)
        BY SMTT(30), <1>4, <2>2, <3>1
      <4>2. files[n].data[o + i] \in {<<b, i>>, Hole}
        BY <2>1, <3>1, <4>1 DEF OwnAt
      <4>3. files'[n].data[o + i] \in {files[n].data[o + i], Hole}
        BY <1>4, <3>1, <4>1
      <4> QED
        BY <4>2, <4>3
    <3> QED
      BY <1>3, <2>1, <3>1 DEF OwnAt
  <2>4. Stored(l, b) => Stored(l, b)' \/ l.file \in lost'
    <3> SUFFICES ASSUME Stored(l, b) PROVE Stored(l, b)' \/ l.file \in lost'
      OBVIOUS
    <3>1. /\ n \in DOMAIN files /\ o + k <= Len(files[n].data)
          /\ \A i \in 1..k : files[n].data[o + i] = <<b, i>>
          /\ o + k <= files[n].synced \/ n \in left
      BY <2>1 DEF Stored, Reads, Safe
    <3>2. CASE o + k <= files[n].synced
      <4>1. o + k <= Len(files'[n].data) /\ o + k <= files'[n].synced
        BY <1>4, <3>1, <3>2
      <4>2. ASSUME NEW i \in 1..k PROVE files'[n].data[o + i] = <<b, i>>
        <5>1. o + i \in 1..files[n].synced
          BY <1>4, <2>2, <3>1, <3>2
        <5> QED
          BY <1>4, <3>1, <5>1
      <4> QED
        BY <1>3, <2>1, <3>1, <4>1, <4>2 DEF Stored, Reads, Safe
    <3>3. CASE n \in left /\ files'[n].data = files[n].data
      <4>1. files'[n].synced = Len(files[n].data)
        BY <1>4, <3>1, <3>3
      <4> QED
        BY <1>3, <2>1, <3>1, <3>3, <4>1 DEF Stored, Reads, Safe
    <3>4. CASE n \in left /\ files'[n].data # files[n].data
      BY <1>2, <1>3, <2>1, <3>1, <3>4
    <3> QED
      BY <3>1, <3>2, <3>3, <3>4
  <2> QED
    BY <2>3, <2>4
<1>8. ASSUME NEW d \in Locs PROVE StoredTo(d) => StoredTo(d)' \/ d.file \in lost'
  <2> SUFFICES ASSUME StoredTo(d) PROVE StoredTo(d)' \/ d.file \in lost'
    OBVIOUS
  <2>1. PICK n \in Nat, o \in Nat : n = d.file /\ o = d.off + 0
    BY DEF Locs
  <2>2. /\ n \in DOMAIN files /\ o <= Len(files[n].data)
        /\ o <= files[n].synced \/ n \in left
    BY <2>1 DEF StoredTo, Within, Safe
  <2>3. CASE o <= files[n].synced
    BY <1>3, <1>4, <2>1, <2>2, <2>3 DEF StoredTo, Within, Safe
  <2>4. CASE n \in left /\ files'[n].data = files[n].data
    BY <1>3, <1>4, <2>1, <2>2, <2>4 DEF StoredTo, Within, Safe
  <2>5. CASE n \in left /\ files'[n].data # files[n].data
    BY <1>2, <1>3, <2>1, <2>2, <2>5
  <2> QED
    BY <2>2, <2>3, <2>4, <2>5
<1>9. ASSUME NEW b \in BlocksOf(ldb')
      PROVE  /\ OwnAt(ldb[b], b)'
             /\ Stored(ldb[b], b)' \/ ldb'[b].file \in lost'
  <2>0. b \in BlocksOf(ldb)
    BY <1>1, <1>9
  <2>1. PICK l \in Locs : l = ldb[b] /\ l = ldb'[b] /\ b \in DOMAIN ldb /\ b \in Blocks
    BY <1>1, <1>6, <2>0, RowLoc
  <2>2. OwnAt(l, b) /\ (Stored(l, b) \/ l.file \in Gone)
    BY <2>0, <2>1, Unpack DEF Rows
  <2>3. OwnAt(l, b)' /\ (Stored(l, b) => Stored(l, b)' \/ l.file \in lost')
    BY <1>7, <2>1, <2>2
  <2>4. l.file \in Gone => l.file \in lost'
    BY <1>5, <2>1
  <2> QED
    BY <2>1, <2>2, <2>3, <2>4
<1>10. (Zero(ldb[WriteLoc]) \/ StoredTo(ldb[WriteLoc]) \/ ldb[WriteLoc].file \in lost)'
  <2>1. PICK l \in Locs : l = ldb[WriteLoc] /\ l = ldb'[WriteLoc]
    BY <1>1, <1>6 DEF AreRows
  <2>2. Zero(l) \/ StoredTo(l) \/ l.file \in Gone
    BY <2>1, Unpack DEF Rows
  <2>3. StoredTo(l) => StoredTo(l)' \/ l.file \in lost'
    BY <1>8, <2>1
  <2>4. l.file \in Gone => l.file \in lost'
    BY <1>5, <1>6, <2>1
  <2> QED
    BY <2>1, <2>2, <2>3, <2>4 DEF Zero
<1>11. (\A b \in BlocksOf(ldb) : /\ OwnAt(ldb[b], b)
                                 /\ Stored(ldb[b], b) \/ ldb[b].file \in lost)'
  BY <1>9 DEF BlocksOf
<1> QED
  BY <1>1, <1>10, <1>11, DownBlocks

\* The next start.  It refuses the database when the files end before the
\* cursor of the leveldb, and then the cursor's file has lost something.
LEMMA OpenBlocks == ASSUME BlocksInv, openDB, CursorInv' PROVE BlockParts'
<1>1. db = "down" /\ UNCHANGED <<ldb, cachedKeys, cachedRemove, tx, reader, lost, pruned>>
  BY DEF openDB, cache
<1>2. tx.st = "idle" /\ tx = Idle /\ tx' = Idle /\ ~ wc.open
  BY <1>1, Unpack DEF Stopped, Closed, Down
<1>3. View = ldb /\ View' = View
  BY <1>1, Unpack, SnapEmpty DEF View, StoreInv, Stopped, NoCache, IsRows
<1>4. PICK meta \in Locs : /\ meta = ldb[WriteLoc] /\ meta = View[WriteLoc]
                           /\ meta = View'[WriteLoc] /\ meta.file <= MaxFileNum
  BY <1>3, Unpack DEF Room
<1>5. PICK scan \in Cursor : scan = scanBlockFiles
  BY Unpack, ScanLast
<1>6. /\ \A b \in BlocksOf(View) : Written(View[b], b) \/ View[b].file \in lost
      /\ Zero(meta) \/ WrittenTo(meta) \/ meta.file \in lost
  BY <1>2, <1>4, Unpack DEF Present
<1>7. Typed'
  BY DEF CursorInv, CursorParts
<1>8. /\ meta.file \in Nat /\ meta.off \in Nat /\ scan.file \in Nat /\ scan.off \in Nat
      /\ LE(meta, meta)
  BY <1>4, <1>5 DEF Locs, Cursor, LE
<1>9. CASE Less(meta, scan) /\ RollBack(scan, meta) /\ db' = "up"
  <2>1. LE(meta, scan)
    BY <1>8, <1>9 DEF Less, LE
  <2>2. Rows' /\ Writing' /\ Present'
    BY <1>1, <1>2, <1>4, <1>5, <1>6, <1>7, <1>8, <1>9, <2>1, BackBlocks
  <2> QED
    BY <1>9, <2>2 DEF BlockParts, Down, RefusedOnlyAfterLoss
<1>10. ASSUME NEW l, NEW b, UNCHANGED <<files, left>> PROVE KeepsRow(l, b) /\ KeepsCursor(l)
  BY <1>2, <1>10 DEF KeepsRow, KeepsCursor, OwnAt, Reads, Stored, Written, StoredTo, WrittenTo,
     Within, Safe, Current
<1>11. ASSUME UNCHANGED <<files, left>> PROVE Rows' /\ Present'
  <2>1. Rows'
    BY <1>1, <1>10, <1>11, Unpack, RowsKept DEF KeepsRow
  <2>2. ASSUME NEW b \in BlocksOf(View') PROVE Written(View[b], b)' \/ View'[b].file \in lost'
    <3>1. PICK l : l = View[b] /\ l = View'[b] /\ b \in BlocksOf(View)
      BY <1>3, <2>2
    <3>2. Written(l, b) \/ l.file \in lost
      BY <1>6, <3>1
    <3>3. Written(l, b)' \/ l.file \in lost'
      BY <1>1, <1>10, <1>11, <3>2 DEF KeepsRow
    <3> QED
      BY <3>1, <3>3
  <2>3. (Zero(View[WriteLoc]) \/ WrittenTo(View[WriteLoc]) \/ View[WriteLoc].file \in lost)'
    <3>1. Zero(meta) \/ WrittenTo(meta)' \/ meta.file \in lost'
      BY <1>1, <1>6, <1>10, <1>11 DEF KeepsCursor
    <3> QED
      BY <1>4, <3>1 DEF Zero
  <2>4. (\A b \in BlocksOf(View) : Written(View[b], b) \/ View[b].file \in lost)'
    BY <2>2 DEF BlocksOf
  <2> QED
    BY <1>2, <1>7, <2>1, <2>3, <2>4, ClosedPresent
<1>12. CASE At(scan) = meta /\ wc' = scan /\ db' = "up" /\ UNCHANGED <<files, left>>
  <2>1. wc'.file = meta.file /\ wc'.off = meta.off
    BY <1>12 DEF At
  <2>2. Zero(meta) \/ WrittenTo(meta)' \/ meta.file \in lost'
    BY <1>1, <1>6, <1>10, <1>12 DEF KeepsCursor
  <2>3. (Zero(wc) \/ WrittenTo(wc) \/ wc.file \in lost)'
    BY <2>1, <2>2 DEF Zero, WrittenTo, Within, Safe, Current
  <2>4. Writing'
    BY <1>2, <2>3, IdleWriting
  <2> QED
    BY <1>11, <1>12, <2>4 DEF BlockParts, Down, RefusedOnlyAfterLoss
<1>13. CASE Less(scan, meta) /\ db' = "refused" /\ UNCHANGED <<files, wc, left>>
  <2>1. Writing'
    <3>1. (db = "up" => Zero(wc) \/ WrittenTo(wc) \/ wc.file \in lost)'
      BY <1>13
    <3> QED
      BY <1>2, <3>1, IdleWriting
  <2>2. ~ Zero(meta)
    BY <1>8, <1>13 DEF Zero, Less
  <2>3. ~ WrittenTo(meta)
    <3>1. SUFFICES ASSUME WrittenTo(meta) PROVE FALSE
      OBVIOUS
    <3>2. meta.file \in DOMAIN files /\ meta.off <= Len(files[meta.file].data)
      BY <1>8, <3>1 DEF WrittenTo, Within
    <3>3. meta.file <= scan.file /\ DOMAIN files # {} /\ scan.off = Len(files[scan.file].data)
      BY <1>5, <3>2, Unpack, ScanLast
    <3> QED
      BY <1>8, <1>13, <3>2, <3>3 DEF Less
  <2>4. meta.file \in lost
    BY <1>6, <2>2, <2>3
  <2>5. Down' /\ RefusedOnlyAfterLoss'
    BY <1>1, <1>2, <1>4, <1>13, <2>4 DEF Down, RefusedOnlyAfterLoss
  <2> QED
    BY <1>11, <1>13, <2>1, <2>5 DEF BlockParts
<1> QED
  BY <1>4, <1>5, <1>9, <1>12, <1>13 DEF openDB

---------------------------------------------------------------------------
LEMMA BlocksInit == Init => BlocksInv
<1> SUFFICES ASSUME Init PROVE BlocksInv
  OBVIOUS
<1>1. CursorInv
  BY InitInv, CursorInit DEF CursorInv, Init, Closed
<1>2. /\ wc = [file |-> 0, off |-> 0, open |-> FALSE] /\ tx = Idle /\ reader = NoReader
      /\ ldb = [k \in {WriteLoc} |-> [file |-> 0, off |-> 0]]
      /\ cachedKeys = Empty /\ cachedRemove = {} /\ db = "up"
  BY DEF Init
<1>3. View = ldb
  BY <1>1, <1>2, SnapEmpty DEF View, CursorInv, StoreInv, IsRows
<1>4. /\ BlocksOf(ldb) = {} /\ BlocksOf(cachedKeys) = {} /\ BlocksOf(reader.rows) = {}
      /\ BlocksOf(tx.keys) = {} /\ ldb[WriteLoc].file = 0 /\ ldb[WriteLoc].off = 0
  BY <1>2, IdleRows DEF BlocksOf, NoReader
<1>5. Zero(ldb[WriteLoc]) /\ Zero(wc) /\ LE(ldb[WriteLoc], ldb[WriteLoc])
  BY <1>2, <1>4 DEF Zero, LE
<1>6. Rows
  BY <1>3, <1>4, <1>5 DEF Rows
<1>7. Writing
  BY <1>2, <1>4, <1>5, IdleRows DEF Writing
<1>8. Present
  <2>1. TxView(tx) = ldb
    <3>1. ldb = [k \in DOMAIN ldb |-> ldb[k]]
      BY <1>2
    <3> QED
      BY <1>2, <1>3, <3>1, IdleView DEF TxView
  <2> QED
    BY <1>3, <1>4, <1>5, <2>1 DEF Present
<1>9. Down /\ RefusedOnlyAfterLoss
  BY <1>2 DEF Down, RefusedOnlyAfterLoss
<1> QED
  BY <1>1, <1>6, <1>7, <1>8, <1>9 DEF BlocksInv, BlockParts

LEMMA BlocksStep ==
    ASSUME BlocksInv, [Next]_vars
    PROVE  BlocksInv'
<1>1. CursorInv'
  BY CursorStep DEF BlocksInv
<1> SUFFICES BlockParts'
  BY <1>1 DEF BlocksInv
<1>2. CASE Begin \/ Rollback \/ Commit \/ PruneBlocks
  BY <1>2, BeginBlocks, AbortBlocks, StoreBlocks, PruneBlocksBlocks
<1>3. CASE \E b \in Blocks : StoreBlock(b) \/ DeleteBlock(b)
  BY <1>3, StoreBlocks, DeleteBlocks
<1>4. CASE deleteFile \/ deleteFileFails \/ SaveCursor
  BY <1>4, DeleteFileBlocks, AbortBlocks, SaveBlocks
<1>5. CASE writeBlock \/ writeBlockFails \/ UndoWrites
  BY <1>5, WriteBlocks, WriteFailsBlocks, UndoBlocks
<1>6. CASE commitToCache \/ flushSync \/ flushTreaps \/ flushClear \/ commitDirect \/ commitFails
  BY <1>6, ToCacheBlocks, SyncBlocksBlocks, TreapsBlocks, ClearBlocks, DirectBlocks, AbortBlocks
<1>7. CASE ReaderLdb \/ ReaderRoots \/ ReaderEnd
  BY <1>7, ReaderBlocks
<1>8. CASE Close \/ CloseFails \/ Kill \/ PowerFailure
  BY <1>1, <1>8, CloseBlocks, KillBlocks, PowerBlocks
<1>9. CASE openDB
  BY <1>1, <1>9, OpenBlocks
<1>10. CASE UNCHANGED vars
  <2>1. UNCHANGED <<files, wc, left, lost, pruned, ldb, cachedKeys, cachedRemove, tx, reader, db>>
    BY <1>10 DEF vars, disk, cache, hist
  <2>2. Rows'
    BY <2>1, Unpack, RowsStill
  <2> QED
    BY <2>1, <2>2, SameTx DEF BlockParts
<1> QED
  BY <1>2, <1>3, <1>4, <1>5, <1>6, <1>7, <1>8, <1>9, <1>10 DEF Next

THEOREM BlocksInvariant == Spec => []BlocksInv
<1>1. Init => BlocksInv
  BY BlocksInit
<1>2. BlocksInv /\ [Next]_vars => BlocksInv'
  BY BlocksStep
<1> QED
  BY <1>1, <1>2, PTL DEF Spec

\* For any blocks, file sizes, prune target and number of faults, kills and
\* power failures: a stored block is read back whole, never part of another
\* one, unless its file was pruned and the row is back or lost what writeBlock
\* left without a sync; and openDB refuses the database only after such a loss.
THEOREM BlocksKeptAlways == Spec => []BlocksKept
<1>1. BlocksInv => BlocksKept
  <2> SUFFICES ASSUME BlocksInv PROVE BlocksKept
    OBVIOUS
  <2>1. /\ \A b \in BlocksOf(View) : Written(View[b], b) \/ View[b].file \in Gone
        /\ \A b \in BlocksOf(View) : OwnAt(View[b], b)
    BY Unpack, ViewKept
  <2>2. \A b \in BlocksOf(reader.rows) :
          /\ OwnAt(reader.rows[b], b)
          /\ Reads(reader.rows[b], b) \/ reader.rows[b].file \in Gone
    BY Unpack DEF Rows
  <2>3. tx.st = "idle" => \A b \in BlocksOf(View) : Written(View[b], b) \/ View[b].file \in lost
    BY Unpack DEF Present
  <2>4. BlocksReadable
    BY <2>1, <2>2, <2>3 DEF BlocksReadable, Written, Gone
  <2>5. NeverAnotherBlock
    <3>1. ASSUME NEW rows \in {View, reader.rows}, NEW b \in BlocksOf(rows)
          PROVE  OwnAt(rows[b], b)
      BY <2>1, <2>2
    <3> QED
      BY <3>1 DEF NeverAnotherBlock, OwnAt
  <2> QED
    BY <2>4, <2>5, Unpack DEF BlocksKept
<1> QED
  BY <1>1, BlocksInvariant, PTL
=============================================================================
