-------------------------- MODULE SugarIndexProofs --------------------------
(***************************************************************************)
(* Proofs about the sugar index, for any tree of valid blocks and any      *)
(* bounds: an index stays with its chain, Init leaves no wipe unfinished,  *)
(* and the rows are those that the chain implies.                          *)
(*                                                                         *)
(* The invariant follows what the index was last told to hold: each copy   *)
(* of it, the one a power failure would leave too, holds the branch of its *)
(* own tip (Sound); the one in use has its tip where the transaction in    *)
(* progress (Up) or the catch-up (Catching) has come to; and an unfinished *)
(* wipe is one that the next start finds again (Torn).  The rows have an   *)
(* invariant of their own (ExactInv, at the end of the module), which      *)
(* covers also an index that was kept above the best block.                *)
(***************************************************************************)
EXTENDS SugarIndex, SequenceTheorems, TLAPS

-----------------------------------------------------------------------------
(* The inductive invariant.                                                *)

Marks == {"failed", "ahead", "mixed", "torn"}
Fields == {"addr", "unspent", "spent", "times", "txids", "tip", "held", "off"}

IndexType(ix) ==
    /\ DOMAIN ix = Fields
    /\ ix.addr \subseteq Txs \X {Height(b) : b \in Blocks}
    /\ DOMAIN ix.unspent \subseteq Txs /\ DOMAIN ix.spent \subseteq Txs
    /\ DOMAIN ix.txids \subseteq Txs
    /\ ix.off \subseteq Marks
    /\ ix.times \subseteq Blocks /\ ix.held \subseteq Blocks
    /\ ix.tip \in Blocks \cup {None}

\* The types of all variables.
Shape ==
    /\ chain \in Blocks /\ disk \in Blocks /\ header \in Blocks
    /\ IndexType(idx) /\ IndexType(safe) /\ IndexType(boot.batch)
    /\ DOMAIN txn = {"kind", "todo", "to"}
    /\ txn.kind \in {"none", "connect", "disconnect"}
    /\ txn.kind = "none" => txn = NoTxn
    /\ txn.kind # "none" => status = "up"
    /\ status \in {"down", "wipe", "catchup", "up"}
    /\ DOMAIN boot = {"left", "todo", "next", "pending", "batch", "batched"}
    /\ boot.left \in Seq({"addr", "spent", "times", "unspent"})
    /\ status \in {"down", "up"} => boot = NoBoot
    /\ status = "wipe" => boot.todo = {} /\ boot.pending = {} /\ boot.batched = 0
    /\ power \in BOOLEAN /\ disabled \in Nat
    /\ cut \in Nat /\ cut <= Height(disk) /\ cut <= Height(chain)
    /\ status # "up" => chain = disk

\* No mark but that of two branches, which then is not there either.
Clean(ix) == ix.off \subseteq {"mixed"}

\* The index holds what is not pruned, from c on, of the branch of z.
Holds(ix, z, c) ==
    /\ ix.held \subseteq On(z)
    /\ \A h \in c .. Height(z) : At(z, h) \in ix.held

Sound(ix, c) ==
    Clean(ix) => IF ix.tip = None THEN ix.held = {} ELSE Holds(ix, ix.tip, c)

\* How far the transaction in progress has brought the index.
Up ==
    status = "up" =>
      /\ txn.kind = "none" => (Clean(idx) => idx.tip = chain)
      /\ txn.kind = "connect" =>
            /\ txn.to \in Blocks /\ chain \in On(txn.to) \ {txn.to}
            /\ \E z \in On(txn.to) :
                 txn.todo = Above(z, txn.to) /\ (Clean(idx) => idx.tip = z)
      /\ txn.kind = "disconnect" =>
            /\ txn.todo = <<>> /\ cut < Height(chain)
            /\ txn.to = Prev(chain) /\ (Clean(idx) => idx.tip = txn.to)

\* The index holds what is not pruned, from c on, of the branch of z below n.
Filled(ix, z, n, c) ==
    /\ \A x \in ix.held : \E h \in 0 .. n - 1 : x = At(z, h)
    /\ \A h \in c .. n - 1 : At(z, h) \in ix.held

Catching ==
    status = "catchup" =>
      /\ boot.next \in 0 .. Height(chain) + 1
      /\ boot.todo \cup boot.pending = boot.next .. Height(chain)
      /\ boot.todo \cap boot.pending = {}
      /\ boot.batched \in 0 .. RebuildBatch - 1
      /\ Clean(boot.batch) => Filled(boot.batch, chain, boot.next, cut)
      /\ boot.next > Height(chain) => (Clean(idx) => idx.tip = chain)
      /\ "torn" \in boot.batch.off => "torn" \in idx.off

\* A wipe goes on, or is started again, as long as the tip is another's.
Torn ==
    /\ status = "wipe" => Replaced(idx.tip)
    /\ ~ power /\ disabled = 0 /\ "torn" \in idx.off =>
          status \in {"wipe", "down"} /\ Replaced(idx.tip)

SugarInv ==
    /\ Shape
    /\ Sound(idx, cut) /\ Sound(safe, cut)
    /\ Up /\ Catching /\ Torn

\* The committed best block is the tip of the chain unless a batch of the write
\* queue was lost, and a node with a write queue does not prune.
Committed ==
    /\ best \in Blocks
    /\ best = chain \/ cut = 0
    /\ pruning \/ cut = 0

-----------------------------------------------------------------------------
(* The tree.                                                               *)

\* A block's path starts at height 0 and ends with the block itself.
LEMMA Heights ==
  ASSUME NEW b \in Blocks
  PROVE  /\ Height(b) \in Nat
         /\ Len(Path[b]) = Height(b) + 1 /\ Path[b] \in Seq(Blocks)
         /\ At(b, Height(b)) = b
         /\ b # None
<1>1. /\ Path[b] \in Seq(Blocks) /\ Len(Path[b]) > 0 /\ Last(Path[b]) = b
      /\ b # None
  BY SugarAssumption
<1>2. Len(Path[b]) \in Nat
  BY <1>1, LenProperties
<1>3. QED
  BY <1>1, <1>2 DEF Height, At, Last

\* The block at a height is a block with that height.
LEMMA OnPath ==
  ASSUME NEW b \in Blocks, NEW h \in 0 .. Height(b)
  PROVE  /\ At(b, h) \in Blocks /\ Height(At(b, h)) = h
         /\ Path[At(b, h)] = SubSeq(Path[b], 1, h + 1)
<1>1. Path[b] \in Seq(Blocks) /\ Len(Path[b]) = Height(b) + 1 /\ Height(b) \in Nat
  BY Heights
<1>2. h \in Nat /\ h <= Height(b) /\ h + 1 \in 1 .. Len(Path[b])
  BY <1>1
<1>3. At(b, h) \in Blocks
  BY <1>1, <1>2, ElementOfSeq DEF At
<1>4. Path[At(b, h)] = SubSeq(Path[b], 1, h + 1)
  BY SugarAssumption
<1>5. Len(SubSeq(Path[b], 1, h + 1)) = h + 1
  BY <1>1, <1>2
<1>6. Height(At(b, h)) = h
  BY <1>2, <1>3, <1>4, <1>5, SugarAssumption DEF Height
<1>7. QED
  BY <1>3, <1>4, <1>6

\* Two blocks of a branch have the same branch below the lower one.
LEMMA Under ==
  ASSUME NEW b \in Blocks, NEW h \in 0 .. Height(b), NEW i \in 0 .. h
  PROVE  At(At(b, h), i) = At(b, i)
<1>1. Path[b] \in Seq(Blocks) /\ Len(Path[b]) = Height(b) + 1 /\ Height(b) \in Nat
  BY Heights
<1>2. Path[At(b, h)] = SubSeq(Path[b], 1, h + 1)
  BY OnPath
<1>3. h \in Nat /\ i \in Nat /\ i <= h /\ h <= Height(b)
  BY <1>1
<1>4. SubSeq(Path[b], 1, h + 1)[i + 1] = Path[b][i + 1]
  BY <1>1, <1>3
<1>5. QED
  BY <1>2, <1>4 DEF At

\* The blocks of a branch are those at its heights.
LEMMA Branch ==
  ASSUME NEW b \in Blocks
  PROVE  /\ \A h \in 0 .. Height(b) : At(b, h) \in On(b)
         /\ \A z \in On(b) : z \in Blocks /\ Height(z) \in 0 .. Height(b)
                             /\ At(b, Height(z)) = z
         /\ b \in On(b)
<1>1. Path[b] \in Seq(Blocks) /\ Len(Path[b]) = Height(b) + 1 /\ Height(b) \in Nat
  BY Heights
<1>2. On(b) = {Path[b][i] : i \in 1 .. Height(b) + 1}
  BY <1>1 DEF On, ToSet
<1>3. ASSUME NEW h \in 0 .. Height(b) PROVE At(b, h) \in On(b)
  BY <1>1, <1>2 DEF At
<1>4. ASSUME NEW z \in On(b)
      PROVE  z \in Blocks /\ Height(z) \in 0 .. Height(b) /\ At(b, Height(z)) = z
  <2>1. PICK i \in 1 .. Height(b) + 1 : z = Path[b][i]
    BY <1>2, <1>4
  <2>2. i - 1 \in 0 .. Height(b) /\ z = At(b, i - 1)
    BY <1>1, <2>1 DEF At
  <2>3. z \in Blocks /\ Height(z) = i - 1
    BY <2>2, OnPath
  <2>4. QED
    BY <2>2, <2>3
<1>5. At(b, Height(b)) = b
  BY Heights
<1>6. b \in On(b)
  BY <1>1, <1>3, <1>5
<1>7. QED
  BY <1>3, <1>4, <1>6

\* The branch of a block of the branch is part of it.
LEMMA SubBranch ==
  ASSUME NEW b \in Blocks, NEW h \in 0 .. Height(b)
  PROVE  /\ \A x \in On(At(b, h)) : x \in On(b) /\ Height(x) <= h
         /\ \A x \in On(b) : Height(x) <= h => x \in On(At(b, h))
<1>1. Height(b) \in Nat
  BY Heights
<1>2. At(b, h) \in Blocks /\ Height(At(b, h)) = h
  BY OnPath
<1>3. \A i \in 0 .. h : At(At(b, h), i) = At(b, i)
  BY Under
<1>4. /\ \A i \in 0 .. Height(b) : At(b, i) \in On(b)
      /\ \A x \in On(b) : Height(x) \in 0 .. Height(b) /\ At(b, Height(x)) = x
  BY Branch
<1>5. /\ \A i \in 0 .. h : At(At(b, h), i) \in On(At(b, h))
      /\ \A x \in On(At(b, h)) : Height(x) \in 0 .. h /\ At(At(b, h), Height(x)) = x
  BY <1>2, Branch
<1>6. QED
  BY <1>1, <1>3, <1>4, <1>5

\* What is above a block of the branch is walked from its child on.
LEMMA Climb ==
  ASSUME NEW b \in Blocks, NEW z \in On(b)
  PROVE  /\ Above(z, b) = <<>> => z = b
         /\ Above(z, b) # <<>> =>
              /\ Height(z) + 1 \in 0 .. Height(b)
              /\ Head(Above(z, b)) = At(b, Height(z) + 1)
              /\ Tail(Above(z, b)) = Above(At(b, Height(z) + 1), b)
<1>1. /\ Path[b] \in Seq(Blocks) /\ Len(Path[b]) = Height(b) + 1
      /\ Height(b) \in Nat /\ At(b, Height(b)) = b
  BY Heights
<1>2. z \in Blocks /\ Height(z) \in 0 .. Height(b) /\ At(b, Height(z)) = z
  BY Branch
<1>3. Len(Path[z]) + 1 = Height(z) + 2
  BY <1>2, Heights
<1>4. Above(z, b) = SubSeq(Path[b], Height(z) + 2, Height(b) + 1)
  BY <1>1, <1>3, Zenon DEF Above
<1>5. ASSUME z # b PROVE Height(z) + 1 \in 0 .. Height(b)
  BY <1>1, <1>2, <1>5
<1>6. ASSUME z # b
      PROVE  /\ Head(Above(z, b)) = Path[b][Height(z) + 2]
             /\ Tail(Above(z, b)) = SubSeq(Path[b], Height(z) + 2 + 1, Height(b) + 1)
             /\ Above(z, b) # <<>>
  <2>1. /\ Height(z) + 2 \in 1 .. Len(Path[b])
        /\ Height(b) + 1 \in Height(z) + 2 .. Len(Path[b])
    BY <1>1, <1>2, <1>5, <1>6
  <2>2. /\ Head(Above(z, b)) = Path[b][Height(z) + 2]
        /\ Tail(Above(z, b)) = SubSeq(Path[b], Height(z) + 2 + 1, Height(b) + 1)
    BY ZenonT(30), <1>1, <1>4, <2>1, HeadTailOfSubSeq
  <2>3. \A i \in Height(z) + 2 .. Height(b) + 1 : Path[b][i] \in Blocks
    BY <1>1, <1>2, ElementOfSeq
  <2>4. Len(Above(z, b)) = Height(b) + 1 - (Height(z) + 2) + 1
    BY <1>1, <1>2, <1>4, <2>1, <2>3, SubSeqProperties
  <2>5. Len(Above(z, b)) # 0
    BY <1>1, <1>2, <1>5, <1>6, <2>4
  <2>6. QED
    BY <2>2, <2>5, EmptySeq
<1>7. ASSUME z = b PROVE Above(z, b) = <<>>
  <2>1. Height(b) + 1 < Height(z) + 2 /\ Height(z) + 2 \in Int /\ Height(b) + 1 \in Int
    BY <1>1, <1>7
  <2>2. QED
    BY <1>4, <2>1, SubSeqEmpty
<1>8. ASSUME z # b
      PROVE  /\ Head(Above(z, b)) = At(b, Height(z) + 1)
             /\ Tail(Above(z, b)) = Above(At(b, Height(z) + 1), b)
  <2>1. Height(At(b, Height(z) + 1)) = Height(z) + 1 /\ At(b, Height(z) + 1) \in Blocks
    BY <1>5, <1>8, OnPath
  <2>2. Len(Path[At(b, Height(z) + 1)]) + 1 = Height(z) + 2 + 1
    BY <1>2, <2>1, Heights
  <2>3. Above(At(b, Height(z) + 1), b) = SubSeq(Path[b], Height(z) + 2 + 1, Height(b) + 1)
    BY <1>1, <2>2, Zenon DEF Above
  <2>4. Height(z) + 1 + 1 = Height(z) + 2
    BY <1>2
  <2>5. Path[b][Height(z) + 2] = At(b, Height(z) + 1)
    BY <2>4 DEF At
  <2>6. QED
    BY <1>6, <1>8, <2>3, <2>5
<1>9. QED
  BY <1>5, <1>6, <1>7, <1>8

-----------------------------------------------------------------------------
(* The index.                                                              *)

LEMMA EmptyIndex ==
  IndexType(Empty) /\ Empty.tip = None /\ Empty.held = {} /\ Empty.off = {}
BY DEF IndexType, Empty, Fields, Marks

LEMMA RowDomains ==
  ASSUME NEW f, NEW g, NEW s
  PROVE  DOMAIN Over(g, f) = DOMAIN f \cup DOMAIN g /\ DOMAIN Without(f, s) = DOMAIN f \ s
BY DEF Over, Without

LEMMA Bodies ==
  ASSUME NEW b \in Blocks
  PROVE  /\ Body[b] \subseteq Txs /\ Spent(b) \subseteq Txs
         /\ {<<t, Height(b)>> : t \in Body[b]} \subseteq Txs \X {Height(c) : c \in Blocks}
<1>1. Body[b] \subseteq Txs /\ \A t \in Txs : In[t] \subseteq Txs
  BY SugarAssumption
<1>2. Spent(b) \subseteq Txs
  BY <1>1 DEF Spent
<1>3. QED
  BY <1>1, <1>2

\* Connecting a block adds it to what the index holds, and no mark but "mixed".
LEMMA IndexedFacts ==
  ASSUME NEW ix, IndexType(ix), NEW b \in Blocks
  PROVE  /\ IndexType(Indexed(ix, b))
         /\ Indexed(ix, b).held = ix.held \cup {b}
         /\ Indexed(ix, b).tip = ix.tip
         /\ ix.off \subseteq Indexed(ix, b).off
         /\ Indexed(ix, b).off \subseteq ix.off \cup {"mixed"}
         /\ Indexed(ix, b).off = ix.off \cup Beside(ix, b)
<1> DEFINE jx == Indexed(ix, b)
           us == Without(Over([o \in Body[b] |-> Height(b)], ix.unspent), Spent(b))
           sp == Over([o \in Spent(b) |-> <<Spender(b, o), Height(b)>>], ix.spent)
           ti == Over([t \in Body[b] |-> Height(b)], ix.txids)
<1>1. DOMAIN us \subseteq Txs /\ DOMAIN sp \subseteq Txs /\ DOMAIN ti \subseteq Txs
  <2>0. DOMAIN Over([o \in Body[b] |-> Height(b)], ix.unspent) = DOMAIN ix.unspent \cup Body[b]
    BY RowDomains
  <2>1. DOMAIN us = (DOMAIN ix.unspent \cup Body[b]) \ Spent(b)
    BY <2>0, RowDomains
  <2>2. DOMAIN sp = DOMAIN ix.spent \cup Spent(b)
    BY RowDomains
  <2>3. DOMAIN ti = DOMAIN ix.txids \cup Body[b]
    BY RowDomains
  <2>4. QED
    BY <2>1, <2>2, <2>3, Bodies DEF IndexType
<1> HIDE DEF us, sp, ti
<1>2. jx = [ix EXCEPT
              !.addr    = @ \cup {<<t, Height(b)>> : t \in Body[b]},
              !.unspent = us, !.spent = sp, !.times = @ \cup {b}, !.txids = ti,
              !.held    = @ \cup {b},
              !.off     = @ \cup Beside(ix, b)]
  BY DEF Indexed, us, sp, ti
<1>3. /\ DOMAIN jx = Fields
      /\ jx.addr = ix.addr \cup {<<t, Height(b)>> : t \in Body[b]}
      /\ jx.unspent = us /\ jx.spent = sp /\ jx.txids = ti
      /\ jx.times = ix.times \cup {b} /\ jx.held = ix.held \cup {b}
      /\ jx.tip = ix.tip
      /\ jx.off = ix.off \cup Beside(ix, b)
  BY <1>2 DEF IndexType, Fields
<1> HIDE DEF jx
<1>4. jx.off \subseteq ix.off \cup {"mixed"} /\ ix.off \subseteq jx.off
  BY <1>3 DEF Beside
<1>5. IndexType(jx)
  BY <1>1, <1>3, <1>4, Bodies DEF IndexType, Marks
<1>6. QED
  BY <1>3, <1>4, <1>5 DEF jx

\* Disconnecting a block takes it away, and leaves the tip at its parent.
LEMMA UnindexedFacts ==
  ASSUME NEW ix, IndexType(ix), NEW b \in Blocks, Prev(b) \in Blocks
  PROVE  /\ IndexType(Unindexed(ix, b))
         /\ Unindexed(ix, b).held = ix.held \ {b}
         /\ Unindexed(ix, b).tip = Prev(b)
         /\ Unindexed(ix, b).off = ix.off \cup Astray(ix, b)
<1> DEFINE jx == Unindexed(ix, b)
           us == Over([o \in Spent(b) |-> Born(b, o)], Without(ix.unspent, Body[b]))
           sp == Without(ix.spent, Spent(b))
<1>1. DOMAIN us \subseteq Txs /\ DOMAIN sp \subseteq Txs
  <2>0. DOMAIN Without(ix.unspent, Body[b]) = DOMAIN ix.unspent \ Body[b]
    BY RowDomains
  <2>a. PICK g : g = [o \in Spent(b) |-> Born(b, o)]
    OBVIOUS
  <2>b. DOMAIN g = Spent(b)
    BY <2>a
  <2>c. DOMAIN Over(g, Without(ix.unspent, Body[b])) =
           DOMAIN Without(ix.unspent, Body[b]) \cup DOMAIN g
    BY RowDomains
  <2>1. DOMAIN us = (DOMAIN ix.unspent \ Body[b]) \cup Spent(b)
    BY <2>0, <2>a, <2>b, <2>c
  <2>2. DOMAIN sp = DOMAIN ix.spent \ Spent(b)
    BY RowDomains
  <2>3. QED
    BY <2>1, <2>2, Bodies DEF IndexType
<1> HIDE DEF us, sp
<1>2. jx = [ix EXCEPT
              !.addr    = @ \ {<<t, Height(b)>> : t \in Body[b]},
              !.unspent = us, !.spent = sp, !.tip = Prev(b), !.held = @ \ {b},
              !.off     = @ \cup Astray(ix, b)]
  BY DEF Unindexed, us, sp
<1>3. /\ DOMAIN jx = Fields
      /\ jx.addr = ix.addr \ {<<t, Height(b)>> : t \in Body[b]}
      /\ jx.unspent = us /\ jx.spent = sp /\ jx.txids = ix.txids
      /\ jx.times = ix.times /\ jx.held = ix.held \ {b}
      /\ jx.tip = Prev(b) /\ jx.off = ix.off \cup Astray(ix, b)
  BY <1>2 DEF IndexType, Fields
<1> HIDE DEF jx
<1>4. IndexType(jx)
  BY <1>1, <1>3 DEF IndexType, Astray, Marks
<1>5. QED
  BY <1>3, <1>4 DEF jx

\* A pruned block is passed over: no mark but "mixed", and nothing else.
LEMMA SkippedFacts ==
  ASSUME NEW ix, IndexType(ix), NEW h, NEW jx, jx = [ix EXCEPT !.off = @ \cup Skipped(ix, h)]
  PROVE  /\ IndexType(jx) /\ jx.tip = ix.tip /\ jx.held = ix.held
         /\ jx.off = ix.off \cup Skipped(ix, h) /\ jx.off \subseteq ix.off \cup {"mixed"}
         /\ jx.addr = ix.addr /\ jx.spent = ix.spent /\ jx.unspent = ix.unspent
         /\ jx.txids = ix.txids
<1>1. /\ jx.off = ix.off \cup Skipped(ix, h) /\ DOMAIN jx = Fields
      /\ jx.addr = ix.addr /\ jx.spent = ix.spent /\ jx.unspent = ix.unspent
      /\ jx.txids = ix.txids /\ jx.tip = ix.tip /\ jx.held = ix.held /\ jx.times = ix.times
  BY DEF IndexType, Fields
<1>2. Skipped(ix, h) \subseteq {"mixed"}
  BY DEF Skipped
<1>3. QED
  BY <1>1, <1>2 DEF IndexType, Marks

LEMMA WithTipFacts ==
  ASSUME NEW ix, IndexType(ix), NEW b \in Blocks
  PROVE  /\ IndexType(WithTip(ix, b))
         /\ WithTip(ix, b).tip = b
         /\ WithTip(ix, b).held = ix.held /\ WithTip(ix, b).off = ix.off
BY DEF WithTip, IndexType, Fields

LEMMA MarkedFacts ==
  ASSUME NEW ix, IndexType(ix), NEW m \in Marks
  PROVE  /\ IndexType([ix EXCEPT !.off = @ \cup {m}])
         /\ [ix EXCEPT !.off = @ \cup {m}].tip = ix.tip
         /\ [ix EXCEPT !.off = @ \cup {m}].held = ix.held
         /\ [ix EXCEPT !.off = @ \cup {m}].off = ix.off \cup {m}
BY DEF IndexType, Fields

LEMMA ClearedFacts ==
  ASSUME NEW ix, IndexType(ix), NEW t \in {"addr", "spent", "times", "unspent"}
  PROVE  /\ IndexType(Cleared(ix, t))
         /\ Cleared(ix, t).tip = ix.tip /\ Cleared(ix, t).held = ix.held
<1>1. DOMAIN Cleared(ix, t) = Fields /\ \A f \in Fields \ {t} : Cleared(ix, t)[f] = ix[f]
  BY DEF Cleared, IndexType, Fields
<1>2. Cleared(ix, t)[t] = Empty[t]
  BY DEF Cleared, IndexType, Fields
<1>3. IndexType(Empty)
  BY EmptyIndex
<1>4. QED
  BY <1>1, <1>2, <1>3 DEF IndexType, Fields

-----------------------------------------------------------------------------
(* The initial state, and the transactions of the chain.                   *)

LEMMA NoBootFacts ==
  /\ DOMAIN NoBoot = {"left", "todo", "next", "pending", "batch", "batched"}
  /\ NoBoot.left = <<>> /\ NoBoot.todo = {} /\ NoBoot.pending = {}
  /\ NoBoot.next = 0 /\ NoBoot.batched = 0 /\ NoBoot.batch = Empty
BY DEF NoBoot

LEMMA NoTxnFacts ==
  /\ DOMAIN NoTxn = {"kind", "todo", "to"}
  /\ NoTxn.kind = "none" /\ NoTxn.todo = <<>>
BY DEF NoTxn

LEMMA SugarInit == ASSUME Init PROVE SugarInv
<1>1. Genesis \in Blocks
  BY SugarAssumption DEF Genesis
<1>2. Height(Genesis) \in Nat
  BY <1>1, Heights
<1>3. <<>> \in Seq({"addr", "spent", "times", "unspent"})
  OBVIOUS
<1>4. power \in BOOLEAN
  BY DEF Init
<1>5. Shape
  BY <1>1, <1>2, <1>3, <1>4, EmptyIndex, NoBootFacts, NoTxnFacts DEF Init, Shape
<1>6. Sound(idx, cut) /\ Sound(safe, cut)
  BY EmptyIndex DEF Init, Sound
<1>7. Up /\ Catching
  BY DEF Init, Up, Catching
<1>8. Torn
  BY EmptyIndex DEF Init, Torn
<1>9. QED
  BY <1>5, <1>6, <1>7, <1>8 DEF SugarInv

\* What Torn reads.
LEMMA TornStays ==
  ASSUME Torn, UNCHANGED <<chain, header, idx, status, power, disabled>>
  PROVE  Torn'
BY DEF Torn, Replaced, RowAt

\* While the node is up there is no unfinished wipe to be found.
LEMMA TornUp ==
  ASSUME Torn, status \notin {"wipe", "down"}, status' \notin {"wipe", "down"},
         "torn" \in idx'.off => "torn" \in idx.off, UNCHANGED <<power, disabled>>
  PROVE  Torn'
BY DEF Torn

\* What is held from a height on is held from a greater one on.
LEMMA SoundCut ==
  ASSUME NEW ix, NEW c \in Nat, NEW d \in Nat, c <= d, Sound(ix, c), IndexType(ix)
  PROVE  Sound(ix, d)
<1>1. ix.tip # None => Height(ix.tip) \in Nat
  BY Heights DEF IndexType
<1>2. QED
  BY <1>1 DEF Sound, Holds

LEMMA BeginConnectStep ==
  ASSUME SugarInv, NEW b \in Blocks, BeginConnect(b) PROVE SugarInv'
<1>1. /\ txn = NoTxn /\ status = "up" /\ chain \in On(b) \ {b}
      /\ txn' = [kind |-> "connect", todo |-> Above(chain, b), to |-> b]
      /\ UNCHANGED <<chain, disk, header, idx, safe, status, boot, cut, disabled, power>>
  BY DEF BeginConnect, Idle
<1>2. /\ txn'.kind = "connect" /\ txn'.todo = Above(chain, b) /\ txn'.to = b
      /\ DOMAIN txn' = {"kind", "todo", "to"}
  BY <1>1
<1>3. Shape'
  BY <1>1, <1>2 DEF SugarInv, Shape
<1>4. Sound(idx, cut)' /\ Sound(safe, cut)'
  BY <1>1 DEF SugarInv
<1>5. Up'
  BY <1>1, <1>2, NoTxnFacts DEF SugarInv, Up
<1>6. Catching'
  BY <1>1 DEF Catching
<1>7. Torn'
  BY <1>1, TornStays DEF SugarInv
<1>8. QED
  BY <1>3, <1>4, <1>5, <1>6, <1>7 DEF SugarInv

\* The index holds one more block of the branch.
LEMMA HoldsNext ==
  ASSUME NEW b \in Blocks, NEW h \in Nat, h + 1 \in 0 .. Height(b), NEW c \in Nat,
         NEW ix, NEW jx, Holds(ix, At(b, h), c),
         jx.held = ix.held \cup {At(b, h + 1)}
  PROVE  Holds(jx, At(b, h + 1), c)
<1>1. Height(b) \in Nat /\ h \in 0 .. Height(b)
  BY Heights
<1>2. Height(At(b, h)) = h /\ Height(At(b, h + 1)) = h + 1 /\ At(b, h + 1) \in Blocks
  BY <1>1, OnPath
<1>3. /\ \A i \in 0 .. h : At(At(b, h), i) = At(b, i)
      /\ \A i \in 0 .. h + 1 : At(At(b, h + 1), i) = At(b, i)
  BY <1>1, Under
<1>4. ASSUME NEW x \in ix.held PROVE x \in On(At(b, h + 1))
  <2>1. x \in On(At(b, h))
    BY <1>4 DEF Holds
  <2>2. x \in On(b) /\ Height(x) <= h
    BY <1>1, <2>1, SubBranch
  <2>3. Height(x) \in Int
    BY <2>2, Branch
  <2>4. Height(x) <= h + 1
    BY <2>2, <2>3
  <2>5. QED
    BY <2>2, <2>4, SubBranch
<1>5. At(b, h + 1) \in On(At(b, h + 1))
  BY <1>2, Branch
<1>6. ASSUME NEW i \in c .. h + 1 PROVE At(At(b, h + 1), i) \in jx.held
  <2>1. CASE i = h + 1
    BY <1>3, <2>1
  <2>2. CASE i # h + 1
    <3>1. i \in c .. h /\ i \in 0 .. h
      BY <1>6, <2>2
    <3>2. At(At(b, h), i) \in ix.held
      BY <1>2, <3>1 DEF Holds
    <3>3. QED
      BY <1>3, <3>1, <3>2
  <2>3. QED
    BY <2>1, <2>2
<1>7. QED
  BY <1>2, <1>4, <1>5, <1>6 DEF Holds

LEMMA ConnectBlockStep ==
  ASSUME SugarInv, ConnectBlock PROVE SugarInv'
<1>1. /\ status = "up" /\ txn.todo # <<>>
      /\ idx' = WithTip(Indexed(idx, Head(txn.todo)), Head(txn.todo))
      /\ txn' = [txn EXCEPT !.todo = Tail(@)]
      /\ UNCHANGED <<chain, disk, header, safe, status, boot, cut, disabled, power>>
  BY DEF ConnectBlock
<1>2. txn.kind = "connect" /\ DOMAIN txn = {"kind", "todo", "to"}
  BY <1>1, NoTxnFacts DEF SugarInv, Shape, Up
<1>3. PICK z \in On(txn.to) : txn.todo = Above(z, txn.to) /\ (Clean(idx) => idx.tip = z)
  BY <1>1, <1>2 DEF SugarInv, Up
<1>4. txn.to \in Blocks /\ chain \in On(txn.to) \ {txn.to}
  BY <1>1, <1>2 DEF SugarInv, Up
<1>5. PICK n : n = At(txn.to, Height(z) + 1)
  OBVIOUS
<1>6. /\ Height(z) + 1 \in 0 .. Height(txn.to)
      /\ Head(txn.todo) = n /\ Tail(txn.todo) = Above(n, txn.to)
  BY <1>1, <1>3, <1>4, <1>5, Climb
<1>7. n \in Blocks /\ n \in On(txn.to)
  BY <1>4, <1>5, <1>6, OnPath, Branch
<1>8. txn'.kind = "connect" /\ txn'.to = txn.to /\ txn'.todo = Above(n, txn.to)
      /\ DOMAIN txn' = {"kind", "todo", "to"}
  BY <1>1, <1>2, <1>6
<1>9. PICK jx : jx = Indexed(idx, n)
  OBVIOUS
<1>10. /\ IndexType(jx) /\ jx.held = idx.held \cup {n} /\ idx.off \subseteq jx.off
       /\ jx.off \subseteq idx.off \cup {"mixed"}
  BY <1>7, <1>9, IndexedFacts DEF SugarInv, Shape
<1>11. idx' = WithTip(jx, n)
  BY <1>1, <1>6, <1>9
<1>12. /\ IndexType(idx') /\ idx'.tip = n /\ idx'.held = idx.held \cup {n}
       /\ idx'.off = jx.off
  BY <1>7, <1>10, <1>11, WithTipFacts
<1>13. Clean(idx') => Clean(idx)
  BY <1>10, <1>12 DEF Clean
<1>14. Shape'
  BY <1>1, <1>2, <1>8, <1>12 DEF SugarInv, Shape
<1>15. Sound(idx', cut')
  <2>1. SUFFICES ASSUME Clean(idx') PROVE Holds(idx', n, cut)
    BY <1>1, <1>7, <1>12, Heights DEF Sound
  <2>2. z \in Blocks /\ Height(z) \in Nat /\ At(txn.to, Height(z)) = z
    BY <1>3, <1>4, Branch, Heights
  <2>3. idx.tip = z /\ z # None
    BY <1>3, <1>13, <2>1, <2>2, Heights
  <2>4. Holds(idx, z, cut)
    BY <1>13, <2>1, <2>3 DEF SugarInv, Sound
  <2>5. cut \in Nat
    BY DEF SugarInv, Shape
  <2>6. Holds(idx', At(txn.to, Height(z) + 1), cut)
    BY <1>4, <1>5, <1>6, <1>12, <2>2, <2>4, <2>5, HoldsNext
  <2>7. QED
    BY <1>5, <2>6
<1>16. Sound(safe, cut)'
  BY <1>1 DEF SugarInv
<1>17. Up'
  BY <1>1, <1>4, <1>7, <1>8, <1>12 DEF Up
<1>18. Catching'
  BY <1>1 DEF Catching
<1>19. Torn'
  <2>1. "torn" \in idx'.off => "torn" \in idx.off
    BY <1>10, <1>12
  <2>2. QED
    BY <1>1, <2>1, TornUp DEF SugarInv
<1>20. QED
  BY <1>14, <1>15, <1>16, <1>17, <1>18, <1>19 DEF SugarInv

\* The parent of a block that is not pruned.
LEMMA Parent ==
  ASSUME NEW b \in Blocks, Height(b) > 0
  PROVE  /\ Prev(b) \in Blocks /\ Prev(b) # None /\ Height(Prev(b)) = Height(b) - 1
         /\ \A x \in On(b) : x # b => x \in On(Prev(b))
         /\ \A h \in 0 .. Height(b) - 1 : At(Prev(b), h) = At(b, h) /\ At(b, h) # b
<1>1. Height(b) \in Nat /\ Height(b) - 1 \in 0 .. Height(b) /\ At(b, Height(b)) = b
  BY Heights
<1>2. Prev(b) \in Blocks /\ Height(Prev(b)) = Height(b) - 1
  BY <1>1, OnPath DEF Prev
<1>3. ASSUME NEW x \in On(b), x # b PROVE x \in On(Prev(b))
  <2>1. Height(x) \in 0 .. Height(b) /\ At(b, Height(x)) = x
    BY Branch
  <2>2. Height(x) <= Height(b) - 1
    BY <1>1, <1>3, <2>1
  <2>3. QED
    BY <1>1, <2>2, SubBranch DEF Prev
<1>4. ASSUME NEW h \in 0 .. Height(b) - 1
      PROVE  At(Prev(b), h) = At(b, h) /\ At(b, h) # b
  <2>1. At(Prev(b), h) = At(b, h)
    BY <1>1, Under DEF Prev
  <2>2. Height(At(b, h)) = h
    BY <1>1, OnPath
  <2>3. QED
    BY <1>1, <2>1, <2>2
<1>5. QED
  BY <1>2, <1>3, <1>4, Heights

LEMMA DisconnectBlockStep ==
  ASSUME SugarInv, DisconnectBlock PROVE SugarInv'
<1>1. /\ status = "up" /\ txn = NoTxn /\ Height(chain) > cut
      /\ idx' = Unindexed(idx, chain)
      /\ txn' = [kind |-> "disconnect", todo |-> <<>>, to |-> Prev(chain)]
      /\ UNCHANGED <<chain, disk, header, safe, status, boot, cut, disabled, power>>
  BY DEF DisconnectBlock, Idle
<1>2. chain \in Blocks /\ cut \in Nat /\ IndexType(idx) /\ Height(chain) \in Nat
  BY Heights DEF SugarInv, Shape
<1>3. /\ Prev(chain) \in Blocks /\ Prev(chain) # None
      /\ Height(Prev(chain)) = Height(chain) - 1
      /\ \A x \in On(chain) : x # chain => x \in On(Prev(chain))
      /\ \A h \in 0 .. Height(chain) - 1 :
           At(Prev(chain), h) = At(chain, h) /\ At(chain, h) # chain
  BY <1>1, <1>2, Parent
<1>4. /\ IndexType(idx') /\ idx'.held = idx.held \ {chain} /\ idx'.tip = Prev(chain)
      /\ idx'.off = idx.off \cup Astray(idx, chain)
  BY <1>1, <1>2, <1>3, UnindexedFacts
<1>5. /\ txn'.kind = "disconnect" /\ txn'.todo = <<>> /\ txn'.to = Prev(chain)
      /\ DOMAIN txn' = {"kind", "todo", "to"}
  BY <1>1
<1>6. Shape'
  BY <1>1, <1>4, <1>5 DEF SugarInv, Shape
<1>7. Sound(idx', cut')
  <2>1. SUFFICES ASSUME Clean(idx') PROVE Holds(idx', Prev(chain), cut)
    BY <1>1, <1>3, <1>4 DEF Sound
  <2>2. Clean(idx)
    BY <1>4, <2>1 DEF Clean
  <2>3. idx.tip = chain /\ chain # None
    BY <1>1, <1>2, <2>2, NoTxnFacts, Heights DEF SugarInv, Up
  <2>4. Holds(idx, chain, cut)
    BY <2>2, <2>3 DEF SugarInv, Sound
  <2>5. idx'.held \subseteq On(Prev(chain))
    BY <1>3, <1>4, <2>4 DEF Holds
  <2>6. ASSUME NEW h \in cut .. Height(chain) - 1 PROVE At(Prev(chain), h) \in idx'.held
    <3>1. h \in 0 .. Height(chain) - 1 /\ h \in cut .. Height(chain)
      BY <1>2, <2>6
    <3>2. At(chain, h) \in idx.held
      BY <2>4, <3>1 DEF Holds
    <3>3. QED
      BY <1>3, <1>4, <3>1, <3>2
  <2>7. QED
    BY <1>3, <2>5, <2>6 DEF Holds
<1>8. Sound(safe, cut)'
  BY <1>1 DEF SugarInv
<1>9. Up'
  BY <1>1, <1>4, <1>5 DEF Up
<1>10. Catching'
  BY <1>1 DEF Catching
<1>11. Torn'
  BY <1>1, <1>4, TornUp DEF SugarInv, Astray
<1>12. QED
  BY <1>6, <1>7, <1>8, <1>9, <1>10, <1>11 DEF SugarInv

LEMMA CommitStep ==
  ASSUME SugarInv, Commit PROVE SugarInv'
<1>1. /\ status = "up" /\ txn.kind # "none" /\ txn.todo = <<>>
      /\ chain' = txn.to /\ disk' \in {disk, txn.to} /\ txn' = NoTxn
      /\ cut' \in {cut} \cup
              {h \in cut .. Height(txn.to) :
                 pruning /\ txn.kind = "connect" /\ At(txn.to, h) \in On(disk')}
      /\ UNCHANGED <<header, idx, safe, status, boot, disabled, power>>
  BY DEF Commit
<1>2. /\ chain \in Blocks /\ cut \in Nat /\ Height(chain) \in Nat /\ disk \in Blocks
      /\ cut <= Height(chain) /\ cut <= Height(disk) /\ Height(disk) \in Nat
  BY Heights DEF SugarInv, Shape
<1>3. txn.to \in Blocks /\ cut <= Height(txn.to) /\ (Clean(idx) => idx.tip = txn.to)
  <2>1. CASE txn.kind = "connect"
    <3>1. PICK z \in On(txn.to) : txn.todo = Above(z, txn.to) /\ (Clean(idx) => idx.tip = z)
      BY <1>1, <2>1 DEF SugarInv, Up
    <3>2. txn.to \in Blocks /\ chain \in On(txn.to)
      BY <1>1, <2>1 DEF SugarInv, Up
    <3>3. z = txn.to
      BY <1>1, <3>1, <3>2, Climb
    <3>4. Height(chain) <= Height(txn.to) /\ Height(txn.to) \in Nat
      BY <3>2, Branch, Heights
    <3>5. QED
      BY <1>2, <3>1, <3>2, <3>3, <3>4
  <2>2. CASE txn.kind = "disconnect"
    <3>1. cut < Height(chain) /\ txn.to = Prev(chain) /\ (Clean(idx) => idx.tip = txn.to)
      BY <1>1, <2>2 DEF SugarInv, Up
    <3>2. txn.to \in Blocks /\ Height(txn.to) = Height(chain) - 1
      BY <1>2, <3>1, Parent
    <3>3. QED
      BY <1>2, <3>1, <3>2
  <2>3. QED
    BY <1>1, <2>1, <2>2 DEF SugarInv, Shape
<1>4. Height(txn.to) \in Nat /\ disk' \in Blocks /\ Height(disk') \in Nat
  BY <1>1, <1>2, <1>3, Heights
<1>5. cut' \in Nat /\ cut <= cut' /\ cut' <= Height(txn.to)
  BY <1>1, <1>2, <1>3, <1>4
<1>6. cut' <= Height(disk')
  <2>1. CASE cut' = cut
    BY <1>1, <1>2, <1>3, <2>1
  <2>2. CASE cut' # cut
    <3>1. At(txn.to, cut') \in On(disk')
      BY <1>1, <2>2
    <3>2. Height(At(txn.to, cut')) = cut'
      BY <1>3, <1>4, <1>5, OnPath
    <3>3. Height(At(txn.to, cut')) \in 0 .. Height(disk')
      BY <1>4, <3>1, Branch
    <3>4. QED
      BY <1>4, <3>2, <3>3
  <2>3. QED
    BY <2>1, <2>2
<1>7. Shape'
  BY <1>1, <1>3, <1>4, <1>5, <1>6, NoTxnFacts DEF SugarInv, Shape
<1>8. Sound(idx, cut)' /\ Sound(safe, cut)'
  BY <1>1, <1>2, <1>5, SoundCut DEF SugarInv, Shape
<1>9. Up'
  BY <1>1, <1>3, NoTxnFacts DEF Up
<1>10. Catching'
  BY <1>1 DEF Catching
<1>11. Torn'
  BY <1>1, TornUp DEF SugarInv
<1>12. QED
  BY <1>7, <1>8, <1>9, <1>10, <1>11 DEF SugarInv

LEMMA DisconnectFailsStep ==
  ASSUME SugarInv, DisconnectFails PROVE SugarInv'
<1>1. /\ status = "up" /\ txn' = NoTxn
      /\ idx' = [idx EXCEPT !.off = @ \cup {"failed"}]
      /\ UNCHANGED <<chain, disk, header, safe, status, boot, cut, disabled, power>>
  BY DEF DisconnectFails
<1>2. IndexType(idx') /\ idx'.off = idx.off \cup {"failed"}
  BY <1>1, MarkedFacts DEF SugarInv, Shape, Marks
<1>3. ~ Clean(idx')
  BY <1>2 DEF Clean
<1>4. Shape'
  BY <1>1, <1>2, NoTxnFacts DEF SugarInv, Shape
<1>5. Sound(idx, cut)' /\ Sound(safe, cut)'
  <2>1. Sound(idx', cut')
    BY <1>3 DEF Sound
  <2>2. QED
    BY <1>1, <2>1 DEF SugarInv
<1>6. Up'
  BY <1>1, <1>3, NoTxnFacts DEF Up
<1>7. Catching'
  BY <1>1 DEF Catching
<1>8. Torn'
  BY <1>1, <1>2, TornUp DEF SugarInv
<1>9. QED
  BY <1>4, <1>5, <1>6, <1>7, <1>8 DEF SugarInv

\* A failed transaction of a connect.
LEMMA ConnectFailsFacts ==
  ASSUME SugarInv, Committed, ConnectFails
  PROVE  /\ status = "up" /\ txn' = NoTxn /\ chain' \in Blocks
         /\ idx' = [idx EXCEPT !.off = @ \cup {"failed"}]
         /\ UNCHANGED <<best, disk, header, safe, status, boot, cut, disabled, power, pruning>>
         /\ chain' = chain \/ cut = 0
<1>1. chain \in Blocks /\ txn.to \in Blocks
  BY DEF ConnectFails, SugarInv, Shape, Up
<1>2. QED
  BY <1>1 DEF ConnectFails, Committed

LEMMA ConnectFailsStep ==
  ASSUME SugarInv, Committed, ConnectFails PROVE SugarInv'
<1>1. /\ status = "up" /\ txn' = NoTxn /\ chain' \in Blocks
      /\ idx' = [idx EXCEPT !.off = @ \cup {"failed"}]
      /\ UNCHANGED <<disk, header, safe, status, boot, cut, disabled, power>>
      /\ chain' = chain \/ cut = 0
  BY ConnectFailsFacts
<1>2. IndexType(idx') /\ idx'.off = idx.off \cup {"failed"}
  BY <1>1, MarkedFacts DEF SugarInv, Shape, Marks
<1>3. ~ Clean(idx')
  BY <1>2 DEF Clean
<1>4. Shape'
  <2>1. cut <= Height(chain')
    BY <1>1, Heights DEF SugarInv, Shape
  <2>2. QED
    BY <1>1, <1>2, <2>1, NoTxnFacts DEF SugarInv, Shape
<1>5. Sound(idx, cut)' /\ Sound(safe, cut)'
  <2>1. Sound(idx', cut')
    BY <1>3 DEF Sound
  <2>2. QED
    BY <1>1, <2>1 DEF SugarInv
<1>6. Up'
  BY <1>1, <1>3, NoTxnFacts DEF Up
<1>7. Catching'
  BY <1>1 DEF Catching
<1>8. Torn'
  BY <1>1, <1>2, TornUp DEF SugarInv
<1>9. QED
  BY <1>4, <1>5, <1>6, <1>7, <1>8 DEF SugarInv

-----------------------------------------------------------------------------
(* Stop, kill, power failure.                                              *)

LEMMA PersistStep ==
  ASSUME SugarInv, Persist PROVE SugarInv'
<1>1. /\ safe' = idx
      /\ UNCHANGED <<chain, disk, header, idx, txn, status, boot, cut, disabled, power>>
  BY DEF Persist
<1>2. Shape'
  BY <1>1 DEF SugarInv, Shape
<1>3. Sound(idx, cut)' /\ Sound(safe, cut)'
  BY <1>1 DEF SugarInv
<1>4. Up' /\ Catching'
  BY <1>1 DEF SugarInv, Up, Catching
<1>5. Torn'
  BY <1>1, TornStays DEF SugarInv
<1>6. QED
  BY <1>2, <1>3, <1>4, <1>5 DEF SugarInv

LEMMA HeadersType ==
  ASSUME NEW b \in Blocks, NEW ix, NEW x \in Headers(b, ix) PROVE x \in Blocks
BY DEF Headers

LEMMA StopStep ==
  ASSUME SugarInv, Committed, Stop PROVE SugarInv'
<1>1. /\ status = "up" /\ status' = "down" /\ disk' = best /\ chain' = best /\ safe' = idx
      /\ txn = NoTxn /\ header' \in Headers(best, idx)
      /\ UNCHANGED <<idx, txn, boot, cut, disabled, power>>
  BY DEF Stop, Idle
<1>2. header' \in Blocks /\ best \in Blocks
  BY <1>1, HeadersType DEF Committed
<1>3. Shape'
  <2>1. cut <= Height(best)
    BY <1>2, Heights DEF SugarInv, Shape, Committed
  <2>2. QED
    BY <1>1, <1>2, <2>1, NoTxnFacts DEF SugarInv, Shape
<1>4. Sound(idx, cut)' /\ Sound(safe, cut)'
  BY <1>1 DEF SugarInv
<1>5. Up' /\ Catching'
  BY <1>1 DEF Up, Catching
<1>6. Torn'
  BY <1>1 DEF SugarInv, Torn
<1>7. QED
  BY <1>3, <1>4, <1>5, <1>6 DEF SugarInv

LEMMA DownStep ==
  ASSUME SugarInv, NEW ix \in {idx, safe}, NEW p \in BOOLEAN, Down(ix, p),
         p \/ ix = idx
  PROVE  SugarInv'
<1>1. /\ status # "down" /\ status' = "down" /\ txn' = NoTxn /\ boot' = NoBoot
      /\ chain' = disk /\ idx' = ix /\ power' = (power \/ p)
      /\ header' \in IF status = "up" THEN Headers(disk, ix) ELSE {header}
      /\ UNCHANGED <<disk, safe, cut, disabled>>
  BY DEF Down
<1>2. header' \in Blocks
  BY <1>1, HeadersType DEF SugarInv, Shape
<1>3. power' \in BOOLEAN
  BY <1>1, Zenon DEF SugarInv, Shape
<1>4. <<>> \in Seq({"addr", "spent", "times", "unspent"})
  OBVIOUS
<1>5. Shape'
  <2>1. IndexType(idx')
    BY <1>1 DEF SugarInv, Shape
  <2>2. QED
    BY <1>1, <1>2, <1>3, <1>4, <2>1, NoTxnFacts, NoBootFacts, EmptyIndex DEF SugarInv, Shape
<1>6. Sound(idx, cut)' /\ Sound(safe, cut)'
  BY <1>1 DEF SugarInv
<1>7. Up' /\ Catching'
  BY <1>1 DEF Up, Catching
<1>8. Torn'
  <2>1. CASE p
    <3>1. power'
      BY <1>1, <2>1, Zenon
    <3>2. QED
      BY <1>1, <3>1 DEF Torn
  <2>2. CASE ~ p /\ ~ (~ power /\ disabled = 0 /\ "torn" \in idx.off)
    <3>1. ~ (~ power' /\ disabled' = 0 /\ "torn" \in idx'.off)
      <4>1. idx' = idx /\ disabled' = disabled
        BY <1>1, <2>2
      <4>2. power' = power
        BY <1>1, <2>2, Zenon DEF SugarInv, Shape
      <4>3. QED
        BY <2>2, <4>1, <4>2, Zenon
    <3>2. QED
      BY <1>1, <3>1 DEF Torn
  <2>3. CASE ~ p /\ ~ power /\ disabled = 0 /\ "torn" \in idx.off
    <3>1. status = "wipe" /\ Replaced(idx.tip)
      BY <1>1, <2>3 DEF SugarInv, Torn
    <3>2. header' = header /\ chain' = chain /\ idx' = idx
      BY <1>1, <2>3, <3>1 DEF SugarInv, Shape
    <3>3. Replaced(idx.tip)'
      BY <3>1, <3>2 DEF Replaced, RowAt
    <3>4. QED
      BY <1>1, <3>3 DEF Torn
  <2>4. QED
    BY <2>1, <2>2, <2>3, Zenon
<1>9. QED
  BY <1>5, <1>6, <1>7, <1>8 DEF SugarInv

LEMMA RunDisabledStep ==
  ASSUME SugarInv, NEW b \in Blocks, RunDisabled(b) PROVE SugarInv'
<1>1. /\ status = "down" /\ Height(b) >= cut /\ disk' = b /\ chain' = b
      /\ header' \in Headers(b, idx) /\ disabled' = disabled + 1
      /\ UNCHANGED <<idx, safe, txn, status, boot, cut, power>>
  BY DEF RunDisabled
<1>2. header' \in Blocks
  BY <1>1, HeadersType
<1>3. disabled' \in Nat /\ disabled' # 0
  BY <1>1 DEF SugarInv, Shape
<1>4. cut <= Height(b)
  BY <1>1, Heights DEF SugarInv, Shape
<1>5. Shape'
  BY <1>1, <1>2, <1>3, <1>4 DEF SugarInv, Shape
<1>6. Sound(idx, cut)' /\ Sound(safe, cut)'
  BY <1>1 DEF SugarInv
<1>7. Up' /\ Catching'
  BY <1>1 DEF Up, Catching
<1>8. Torn'
  BY <1>1, <1>3 DEF Torn
<1>9. QED
  BY <1>5, <1>6, <1>7, <1>8 DEF SugarInv

-----------------------------------------------------------------------------
(* Manager.Init.                                                           *)

LEMMA StartWipeStep ==
  ASSUME SugarInv, StartWipe PROVE SugarInv'
<1>1. /\ status = "down" /\ Replaced(idx.tip) /\ status' = "wipe"
      /\ boot' = [NoBoot EXCEPT !.left = Tables] /\ safe' = idx
      /\ UNCHANGED <<chain, disk, header, idx, txn, cut, disabled, power>>
  BY DEF StartWipe
<1>2. Tables \in Seq({"addr", "spent", "times", "unspent"})
  BY DEF Tables
<1>3. /\ DOMAIN boot' = {"left", "todo", "next", "pending", "batch", "batched"}
      /\ boot'.left = Tables /\ boot'.todo = {} /\ boot'.pending = {}
      /\ boot'.batched = 0 /\ boot'.batch = Empty
  BY <1>1, NoBootFacts
<1>4. Shape'
  BY <1>1, <1>2, <1>3, EmptyIndex, NoTxnFacts DEF SugarInv, Shape
<1>5. Sound(idx, cut)' /\ Sound(safe, cut)'
  BY <1>1 DEF SugarInv
<1>6. Up' /\ Catching'
  BY <1>1 DEF Up, Catching
<1>7. Torn'
  <2>1. Replaced(idx.tip)'
    BY <1>1 DEF Replaced, RowAt
  <2>2. QED
    BY <1>1, <2>1 DEF Torn
<1>8. QED
  BY <1>4, <1>5, <1>6, <1>7 DEF SugarInv

\* Where the catch-up of an index with a sound tip starts.
LEMMA CatchUpFacts ==
  ASSUME SugarInv, status # "up", NEW ix, IndexType(ix), idx' = ix, CatchUp(ix),
         ix.tip # None => (Clean(ix) => Height(ix.tip) <= Height(chain)
                                        /\ ix.tip = At(chain, Height(ix.tip))),
         Sound(ix, cut), UNCHANGED <<chain, disk, txn, cut, power, disabled>>,
         header' = header, IndexType(safe')
  PROVE  Shape' /\ Up' /\ Catching' /\ status' \in {"up", "catchup"}
<1>1. PICK h : h = Height(ix.tip)
  OBVIOUS
<1>2. chain \in Blocks /\ Height(chain) \in Nat /\ cut \in Nat /\ cut <= Height(chain)
  BY Heights DEF SugarInv, Shape
<1>3. h \in Int /\ h >= -1 /\ (ix.tip = None => h = -1)
  BY <1>1, Heights DEF IndexType, Height
<1>4. txn = NoTxn
  BY DEF SugarInv, Shape
<1>5. <<>> \in Seq({"addr", "spent", "times", "unspent"})
  OBVIOUS
<1>6. CASE h >= Height(chain)
  <2>1. status' = "up" /\ boot' = NoBoot
    BY <1>1, <1>6 DEF CatchUp
  <2>2. Shape'
    BY <1>4, <1>5, <2>1, NoBootFacts, NoTxnFacts, EmptyIndex DEF SugarInv, Shape
  <2>3. ASSUME Clean(ix) PROVE ix.tip = chain
    <3>1. ix.tip # None
      BY <1>2, <1>3, <1>6
    <3>2. h <= Height(chain) /\ ix.tip = At(chain, h)
      BY <1>1, <2>3, <3>1
    <3>3. h = Height(chain)
      BY <1>2, <1>3, <1>6, <3>2
    <3>4. QED
      BY <1>2, <3>2, <3>3, Heights
  <2>4. Up'
    BY <1>4, <2>1, <2>3, NoTxnFacts DEF Up
  <2>5. QED
    BY <2>1, <2>2, <2>4 DEF Catching
<1>7. CASE ~ (h >= Height(chain))
  <2>1. /\ status' = "catchup"
        /\ boot' = [NoBoot EXCEPT !.todo = h + 1 .. Height(chain), !.next = h + 1,
                                  !.batch = ix]
    BY <1>1, <1>7 DEF CatchUp
  <2>2. /\ DOMAIN boot' = {"left", "todo", "next", "pending", "batch", "batched"}
        /\ boot'.left = <<>> /\ boot'.todo = h + 1 .. Height(chain)
        /\ boot'.pending = {} /\ boot'.next = h + 1 /\ boot'.batch = ix
        /\ boot'.batched = 0
    BY <2>1, NoBootFacts
  <2>3. Shape'
    BY <1>4, <1>5, <2>1, <2>2, NoTxnFacts DEF SugarInv, Shape
  <2>4. ASSUME Clean(ix) PROVE Filled(ix, chain, h + 1, cut)
    <3>1. CASE ix.tip = None
      <4>1. ix.held = {} /\ h = -1
        BY <1>3, <2>4, <3>1 DEF Sound
      <4>2. QED
        BY <1>2, <4>1 DEF Filled
    <3>2. CASE ix.tip # None
      <4>1. ix.tip = At(chain, h) /\ Holds(ix, ix.tip, cut)
        BY <1>1, <2>4, <3>2 DEF Sound
      <4>2. h \in Nat /\ h \in 0 .. Height(chain)
        BY <1>1, <1>2, <1>3, <1>7, <3>2, Heights DEF IndexType
      <4>3. ASSUME NEW x \in ix.held PROVE \E i \in 0 .. h : x = At(chain, i)
        <5>1. x \in On(At(chain, h))
          BY <4>1, <4>3 DEF Holds
        <5>2. x \in On(chain) /\ Height(x) <= h
          BY <1>2, <4>2, <5>1, SubBranch
        <5>3. Height(x) \in 0 .. Height(chain) /\ At(chain, Height(x)) = x
          BY <1>2, <5>2, Branch
        <5>4. Height(x) \in 0 .. h
          BY <4>2, <5>2, <5>3
        <5>5. QED
          BY <5>3, <5>4
      <4>4. ASSUME NEW i \in cut .. h PROVE At(chain, i) \in ix.held
        <5>1. i \in 0 .. h /\ i \in cut .. Height(ix.tip)
          BY <1>1, <1>2, <4>2
        <5>2. At(ix.tip, i) \in ix.held
          BY <4>1, <5>1 DEF Holds
        <5>3. At(At(chain, h), i) = At(chain, i)
          BY <1>2, <4>2, <5>1, Under
        <5>4. QED
          BY <4>1, <5>2, <5>3
      <4>5. (h + 1) - 1 = h
        BY <4>2
      <4>6. /\ \A x \in ix.held : \E i \in 0 .. (h + 1) - 1 : x = At(chain, i)
            /\ \A i \in cut .. (h + 1) - 1 : At(chain, i) \in ix.held
        BY <4>3, <4>4, <4>5
      <4>7. QED
        BY <4>6, Zenon DEF Filled
    <3>3. QED
      BY <3>1, <3>2
  <2>5. Catching'
    <3>1. /\ boot'.next \in 0 .. Height(chain) + 1
          /\ boot'.todo \cup boot'.pending = boot'.next .. Height(chain)
          /\ boot'.todo \cap boot'.pending = {}
          /\ boot'.batched \in 0 .. RebuildBatch - 1
          /\ ~ (boot'.next > Height(chain))
      BY SMTT(30), <1>2, <1>3, <1>7, <2>2, SugarAssumption
    <3>2. QED
      BY <2>2, <2>4, <3>1 DEF Catching
  <2>6. QED
    BY <2>1, <2>3, <2>5 DEF Up
<1>8. QED
  BY <1>6, <1>7

LEMMA StartKeepStep ==
  ASSUME SugarInv, StartKeep PROVE SugarInv'
<1>1. /\ status = "down" /\ ~ Replaced(idx.tip) /\ CatchUp(idx)
      /\ idx' = IF Height(idx.tip) > Height(chain)
                THEN [idx EXCEPT !.off = @ \cup {"ahead"}] ELSE idx
      /\ safe' = idx'
      /\ UNCHANGED <<chain, disk, header, txn, cut, disabled, power>>
  BY DEF StartKeep
<1>2. /\ chain \in Blocks /\ Height(chain) \in Nat /\ IndexType(idx) /\ chain # None
      /\ cut \in Nat
  BY Heights DEF SugarInv, Shape
<1>3. /\ IndexType(idx') /\ idx'.tip = idx.tip /\ idx'.held = idx.held
      /\ idx'.off \subseteq idx.off \cup {"ahead"} /\ idx.off \subseteq idx'.off
      /\ Height(idx.tip) > Height(chain) => "ahead" \in idx'.off
  <2>1. CASE Height(idx.tip) > Height(chain)
    <3>1. idx' = [idx EXCEPT !.off = @ \cup {"ahead"}]
      BY <1>1, <2>1
    <3>2. QED
      BY ZenonT(30), <1>2, <3>1, MarkedFacts DEF Marks
  <2>2. CASE ~ (Height(idx.tip) > Height(chain))
    BY <1>1, <1>2, <2>2
  <2>3. QED
    BY <2>1, <2>2
<1>4. Clean(idx') => Clean(idx) /\ ~ (Height(idx.tip) > Height(chain))
  BY <1>3 DEF Clean
<1>5. Sound(idx', cut)
  BY <1>3, <1>4 DEF SugarInv, Sound, Holds
<1>6. ASSUME idx.tip # None, Clean(idx')
      PROVE  Height(idx.tip) <= Height(chain) /\ idx.tip = At(chain, Height(idx.tip))
  <2>1. Height(idx.tip) \in Nat
    BY <1>2, <1>6, Heights DEF IndexType
  <2>2. Height(idx.tip) <= Height(chain)
    BY <1>2, <1>4, <1>6, <2>1
  <2>3. RowAt(Height(idx.tip)) = At(chain, Height(idx.tip))
    BY <2>2 DEF RowAt
  <2>4. At(chain, Height(idx.tip)) \in Blocks
    BY <1>2, <2>1, <2>2, OnPath
  <2>5. At(chain, Height(idx.tip)) # None
    BY <2>4, Heights
  <2>6. QED
    BY <1>1, <1>6, <2>2, <2>3, <2>5 DEF Replaced
<1>7. Shape' /\ Up' /\ Catching' /\ status' \in {"up", "catchup"}
  <2>1. PICK ix : ix = idx'
    OBVIOUS
  <2>2. CatchUp(ix)
    <3>1. CASE Height(idx.tip) > Height(chain)
      <4>1. Height(idx.tip) >= Height(chain)
        BY <1>2, <3>1, Heights DEF IndexType, Height
      <4>2. QED
        BY <1>1, <1>3, <2>1, <4>1 DEF CatchUp
    <3>2. CASE ~ (Height(idx.tip) > Height(chain))
      BY <1>1, <2>1, <3>2
    <3>3. QED
      BY <3>1, <3>2
  <2>3. QED
    BY <1>1, <1>3, <1>5, <1>6, <2>1, <2>2, CatchUpFacts
<1>8. Sound(idx, cut)' /\ Sound(safe, cut)'
  BY <1>1, <1>5
<1>9. Torn'
  <2>1. "torn" \in idx'.off => "torn" \in idx.off
    BY <1>3
  <2>2. QED
    BY <1>1, <1>7, <2>1 DEF SugarInv, Torn
<1>10. QED
  BY <1>7, <1>8, <1>9 DEF SugarInv

LEMMA StartFreshStep ==
  ASSUME SugarInv, StartFresh PROVE SugarInv'
<1>1. /\ status = "down" /\ idx' = Empty /\ safe' = Empty /\ CatchUp(Empty)
      /\ UNCHANGED <<chain, disk, header, txn, cut, disabled, power>>
  BY DEF StartFresh
<1>2. \A c : Sound(Empty, c)
  BY EmptyIndex DEF Sound
<1>3. Shape' /\ Up' /\ Catching' /\ status' \in {"up", "catchup"}
  BY <1>1, <1>2, EmptyIndex, CatchUpFacts
<1>4. Torn'
  BY <1>1, <1>3, EmptyIndex DEF Torn
<1>5. QED
  BY <1>1, <1>2, <1>3, <1>4 DEF SugarInv

LEMMA WipeBatchStep ==
  ASSUME SugarInv, WipeBatch PROVE SugarInv'
<1>1. /\ status = "wipe" /\ boot.left # <<>>
      /\ idx' = [Cleared(idx, Head(boot.left)) EXCEPT !.off = @ \cup {"torn"}]
      /\ boot' = [boot EXCEPT !.left = Tail(@)]
      /\ UNCHANGED <<chain, disk, header, safe, txn, status, cut, disabled, power>>
  BY DEF WipeBatch
<1>2. /\ Head(boot.left) \in {"addr", "spent", "times", "unspent"}
      /\ Tail(boot.left) \in Seq({"addr", "spent", "times", "unspent"})
  BY <1>1, HeadTailProperties DEF SugarInv, Shape
<1>3. PICK cx : cx = Cleared(idx, Head(boot.left))
  OBVIOUS
<1>4. IndexType(cx) /\ cx.tip = idx.tip
  BY <1>2, <1>3, ClearedFacts DEF SugarInv, Shape
<1>5. IndexType(idx') /\ idx'.tip = idx.tip /\ "torn" \in idx'.off
  BY <1>1, <1>3, <1>4, MarkedFacts DEF Marks
<1>6. /\ DOMAIN boot' = DOMAIN boot /\ boot'.left = Tail(boot.left)
      /\ boot'.todo = boot.todo /\ boot'.pending = boot.pending
      /\ boot'.batched = boot.batched /\ boot'.batch = boot.batch
  BY <1>1 DEF SugarInv, Shape
<1>7. Shape'
  BY <1>1, <1>2, <1>5, <1>6 DEF SugarInv, Shape
<1>8. ~ Clean(idx')
  BY <1>5 DEF Clean
<1>9. Sound(idx, cut)' /\ Sound(safe, cut)'
  <2>1. Sound(idx', cut')
    BY <1>8 DEF Sound
  <2>2. QED
    BY <1>1, <2>1 DEF SugarInv
<1>10. Up' /\ Catching'
  BY <1>1 DEF Up, Catching
<1>11. Torn'
  <2>1. Replaced(idx.tip)
    BY <1>1 DEF SugarInv, Torn
  <2>2. Replaced(idx.tip)'
    BY <1>1, <1>5, <2>1 DEF Replaced, RowAt
  <2>3. QED
    BY <1>1, <2>2 DEF Torn
<1>12. QED
  BY <1>7, <1>9, <1>10, <1>11 DEF SugarInv

LEMMA WipeEndStep ==
  ASSUME SugarInv, WipeEnd PROVE SugarInv'
<1>1. /\ status = "wipe" /\ idx' = [Empty EXCEPT !.txids = idx.txids] /\ CatchUp(idx')
      /\ UNCHANGED <<chain, disk, header, safe, txn, cut, disabled, power>>
  BY DEF WipeEnd
<1>2. PICK ix : ix = idx'
  OBVIOUS
<1>3. IndexType(idx) /\ IndexType(safe)
  BY DEF SugarInv, Shape
<1>4. DOMAIN Empty = Fields
  BY DEF Empty, Fields
<1>5. /\ DOMAIN ix = Fields /\ ix.txids = idx.txids
      /\ \A f \in Fields \ {"txids"} : ix[f] = Empty[f]
  BY <1>1, <1>2, <1>4 DEF Fields
<1>6. IndexType(ix) /\ ix.tip = None /\ ix.held = {} /\ ix.off = {}
  BY <1>3, <1>5, EmptyIndex DEF IndexType, Fields
<1>7. Sound(ix, cut)
  BY <1>6 DEF Sound
<1>8. CatchUp(ix)
  BY <1>1, <1>2
<1>9. Shape' /\ Up' /\ Catching' /\ status' \in {"up", "catchup"}
  BY <1>1, <1>2, <1>3, <1>6, <1>7, <1>8, CatchUpFacts
<1>10. Sound(idx, cut)' /\ Sound(safe, cut)'
  BY <1>1, <1>2, <1>7 DEF SugarInv
<1>11. Torn'
  BY <1>2, <1>6, <1>9 DEF Torn
<1>12. QED
  BY <1>9, <1>10, <1>11 DEF SugarInv

LEMMA FetchedStep ==
  ASSUME SugarInv, NEW h \in 0 .. Height(chain), Fetched(h) PROVE SugarInv'
<1>1. /\ status = "catchup" /\ h \in boot.todo
      /\ boot' = [boot EXCEPT !.todo = @ \ {h}, !.pending = @ \cup {h}]
      /\ UNCHANGED <<chain, disk, header, idx, safe, txn, status, cut, disabled, power>>
  BY DEF Fetched
<1>2. /\ DOMAIN boot' = DOMAIN boot /\ boot'.left = boot.left
      /\ boot'.todo = boot.todo \ {h} /\ boot'.pending = boot.pending \cup {h}
      /\ boot'.next = boot.next /\ boot'.batch = boot.batch
      /\ boot'.batched = boot.batched
  BY <1>1 DEF SugarInv, Shape
<1>3. Shape'
  BY <1>1, <1>2 DEF SugarInv, Shape
<1>4. Sound(idx, cut)' /\ Sound(safe, cut)'
  BY <1>1 DEF SugarInv
<1>5. Up'
  BY <1>1 DEF Up
<1>6. Catching'
  <2>1. boot'.todo \cup boot'.pending = boot.todo \cup boot.pending
    BY <1>1, <1>2
  <2>2. boot'.todo \cap boot'.pending = {}
    BY <1>1, <1>2 DEF SugarInv, Catching
  <2>3. QED
    BY <1>1, <1>2, <2>1, <2>2 DEF SugarInv, Catching
<1>7. Torn'
  BY <1>1, TornStays DEF SugarInv
<1>8. QED
  BY <1>3, <1>4, <1>5, <1>6, <1>7 DEF SugarInv

\* One more block in the batch.
LEMMA FilledNext ==
  ASSUME NEW z \in Blocks, NEW n \in 0 .. Height(z), NEW c \in Nat, NEW ix, NEW jx,
         Filled(ix, z, n, c), jx.held = ix.held \cup {At(z, n)}
  PROVE  Filled(jx, z, n + 1, c) /\ Holds(jx, At(z, n), c)
<1>1. Height(z) \in Nat /\ n \in Nat /\ n <= Height(z)
  BY Heights
<1>2. At(z, n) \in Blocks /\ Height(At(z, n)) = n
  BY OnPath
<1>3. ASSUME NEW x \in jx.held PROVE \E i \in 0 .. n : x = At(z, i)
  <2>1. CASE x = At(z, n)
    BY <1>1, <2>1
  <2>2. CASE x \in ix.held
    <3>1. PICK i \in 0 .. n - 1 : x = At(z, i)
      BY <2>2 DEF Filled
    <3>2. i \in 0 .. n
      BY <1>1, <3>1
    <3>3. QED
      BY <3>1, <3>2
  <2>3. QED
    BY <1>3, <2>1, <2>2
<1>4. ASSUME NEW i \in c .. n PROVE At(z, i) \in jx.held
  <2>1. CASE i = n
    BY <2>1
  <2>2. CASE i # n
    <3>1. i \in c .. n - 1
      BY <1>1, <1>4, <2>2
    <3>2. QED
      BY <3>1 DEF Filled
  <2>3. QED
    BY <2>1, <2>2
<1>5. Filled(jx, z, n + 1, c)
  <2>1. (n + 1) - 1 = n
    BY <1>1
  <2>2. /\ \A x \in jx.held : \E i \in 0 .. (n + 1) - 1 : x = At(z, i)
        /\ \A i \in c .. (n + 1) - 1 : At(z, i) \in jx.held
    BY <1>3, <1>4, <2>1
  <2>3. QED
    BY <2>2, Zenon DEF Filled
<1>6. Holds(jx, At(z, n), c)
  <2>1. ASSUME NEW x \in jx.held PROVE x \in On(At(z, n))
    <3>1. PICK i \in 0 .. n : x = At(z, i)
      BY <1>3, <2>1
    <3>2. x = At(At(z, n), i)
      BY <1>1, <3>1, Under
    <3>3. QED
      BY <1>2, <3>1, <3>2, Branch
  <2>2. ASSUME NEW i \in c .. n PROVE At(At(z, n), i) \in jx.held
    <3>1. i \in 0 .. n
      BY <1>1, <2>2
    <3>2. QED
      BY <1>1, <1>4, <3>1, Under
  <2>3. QED
    BY <1>2, <2>1, <2>2 DEF Holds
<1>7. QED
  BY <1>5, <1>6

LEMMA BatchSize == RebuildBatch \in Nat /\ RebuildBatch > 0
BY SugarAssumption

\* What the three rounds of the consumer have in common.
LEMMA ConsumeFacts ==
  ASSUME SugarInv, Consume
  PROVE  /\ status = "catchup" /\ boot.next \in 0 .. Height(chain)
         /\ chain \in Blocks /\ Height(chain) \in Nat
         /\ At(chain, boot.next) \in Blocks
         /\ boot.todo \cup (boot.pending \ {boot.next}) = boot.next + 1 .. Height(chain)
         /\ boot.todo \cap (boot.pending \ {boot.next}) = {}
         /\ UNCHANGED <<chain, disk, header, safe, txn, status, cut, disabled, power>>
<1>1. /\ status = "catchup" /\ boot.next \in boot.pending
      /\ UNCHANGED <<chain, disk, header, safe, txn, status, cut, disabled, power>>
  BY DEF Consume
<1>2. chain \in Blocks /\ Height(chain) \in Nat
  BY Heights DEF SugarInv, Shape
<1>3. /\ boot.next \in 0 .. Height(chain) + 1
      /\ boot.todo \cup boot.pending = boot.next .. Height(chain)
  BY <1>1 DEF SugarInv, Catching
<1>4. boot.next \in 0 .. Height(chain)
  BY <1>1, <1>2, <1>3
<1>5. boot.todo \cap boot.pending = {}
  BY <1>1 DEF SugarInv, Catching
<1>6. boot.todo \cup (boot.pending \ {boot.next}) = boot.next + 1 .. Height(chain)
  <2>1. boot.todo \cup (boot.pending \ {boot.next}) = (boot.next .. Height(chain)) \ {boot.next}
    BY <1>1, <1>3, <1>5
  <2>2. (boot.next .. Height(chain)) \ {boot.next} = boot.next + 1 .. Height(chain)
    BY <1>2, <1>4
  <2>3. QED
    BY <2>1, <2>2
<1>7. QED
  BY <1>1, <1>2, <1>4, <1>5, <1>6, OnPath

LEMMA PassStep ==
  ASSUME SugarInv, Consume, Pass PROVE SugarInv'
<1>1. /\ boot.next < cut
      /\ boot' = [boot EXCEPT !.pending = @ \ {boot.next}, !.next = @ + 1,
                              !.batch.off = @ \cup Skipped(boot.batch, boot.next)]
      /\ UNCHANGED idx
  BY DEF Pass
<1>2. /\ status = "catchup" /\ boot.next \in 0 .. Height(chain)
      /\ chain \in Blocks /\ Height(chain) \in Nat
      /\ boot.todo \cup (boot.pending \ {boot.next}) = boot.next + 1 .. Height(chain)
      /\ boot.todo \cap (boot.pending \ {boot.next}) = {}
      /\ UNCHANGED <<chain, disk, header, safe, txn, status, cut, disabled, power>>
  BY ConsumeFacts
<1>3. PICK px : px = [boot.batch EXCEPT !.off = @ \cup Skipped(boot.batch, boot.next)]
  OBVIOUS
<1>4. /\ DOMAIN boot' = DOMAIN boot /\ boot'.left = boot.left
      /\ boot'.todo = boot.todo /\ boot'.pending = boot.pending \ {boot.next}
      /\ boot'.next = boot.next + 1 /\ boot'.batch = px
      /\ boot'.batched = boot.batched
  BY <1>3, <1>1 DEF SugarInv, Shape
<1>5. /\ IndexType(px) /\ px.held = boot.batch.held
      /\ px.off = boot.batch.off \cup Skipped(boot.batch, boot.next)
      /\ px.off \subseteq boot.batch.off \cup {"mixed"}
  BY <1>3, SkippedFacts DEF SugarInv, Shape
<1>6. cut \in Nat /\ cut <= Height(chain)
  BY DEF SugarInv, Shape
<1>7. Shape'
  BY <1>1, <1>2, <1>4, <1>5 DEF SugarInv, Shape
<1>8. Sound(idx, cut)' /\ Sound(safe, cut)'
  BY <1>1, <1>2 DEF SugarInv
<1>9. Up'
  BY <1>2 DEF Up
<1>10. Catching'
  <2>1. ASSUME Clean(px) PROVE Filled(px, chain, boot.next + 1, cut)
    <3>0. Clean(boot.batch)
      BY <1>5, <2>1 DEF Clean
    <3>1. Filled(boot.batch, chain, boot.next, cut)
      BY <1>2, <3>0 DEF SugarInv, Catching
    <3>2. PICK n \in Nat : n = boot.next
      BY <1>2
    <3>3. \A i \in 0 .. n - 1 : i \in 0 .. (n + 1) - 1
      BY <3>2
    <3>4. \A i \in cut .. (n + 1) - 1 : FALSE
      BY <1>1, <1>6, <3>2
    <3>5. QED
      BY <1>5, <3>1, <3>2, <3>3, <3>4 DEF Filled
  <2>2. boot'.next \in 0 .. Height(chain) + 1 /\ ~ (boot'.next > Height(chain))
    BY <1>1, <1>2, <1>4, <1>6
  <2>3. "torn" \in px.off => "torn" \in idx.off
    BY <1>2, <1>5 DEF SugarInv, Catching
  <2>4. QED
    BY <1>1, <1>2, <1>4, <2>1, <2>2, <2>3 DEF SugarInv, Catching
<1>11. Torn'
  BY <1>1, <1>2, TornStays DEF SugarInv
<1>12. QED
  BY <1>7, <1>8, <1>9, <1>10, <1>11 DEF SugarInv

LEMMA AddStep ==
  ASSUME SugarInv, Consume, Add(At(chain, boot.next)) PROVE SugarInv'
<1>1. /\ status = "catchup" /\ boot.next \in 0 .. Height(chain)
      /\ chain \in Blocks /\ Height(chain) \in Nat
      /\ At(chain, boot.next) \in Blocks
      /\ boot.todo \cup (boot.pending \ {boot.next}) = boot.next + 1 .. Height(chain)
      /\ boot.todo \cap (boot.pending \ {boot.next}) = {}
      /\ UNCHANGED <<chain, disk, header, safe, txn, status, cut, disabled, power>>
  BY ConsumeFacts
<1>2. PICK b : b = At(chain, boot.next)
  OBVIOUS
<1>3. /\ ~ Full(boot.batched + 1)
      /\ boot' = [boot EXCEPT !.pending = @ \ {boot.next}, !.next = @ + 1,
                              !.batch = Indexed(@, b), !.batched = @ + 1]
      /\ UNCHANGED idx
  BY <1>2 DEF Add
<1>4. PICK jx : jx = Indexed(boot.batch, b)
  OBVIOUS
<1>5. /\ IndexType(jx) /\ jx.held = boot.batch.held \cup {b}
      /\ boot.batch.off \subseteq jx.off /\ jx.off \subseteq boot.batch.off \cup {"mixed"}
  BY SMTT(30), <1>1, <1>2, <1>4, IndexedFacts DEF SugarInv, Shape
<1>6. /\ DOMAIN boot' = DOMAIN boot /\ boot'.left = boot.left
      /\ boot'.todo = boot.todo /\ boot'.pending = boot.pending \ {boot.next}
      /\ boot'.next = boot.next + 1 /\ boot'.batch = jx
      /\ boot'.batched = boot.batched + 1
  BY <1>3, <1>4 DEF SugarInv, Shape
<1>7. cut \in Nat /\ boot.batched \in 0 .. RebuildBatch - 1
  BY <1>1 DEF SugarInv, Shape, Catching
<1>8. Shape'
  BY <1>1, <1>3, <1>5, <1>6 DEF SugarInv, Shape
<1>9. Sound(idx, cut)' /\ Sound(safe, cut)'
  BY <1>1, <1>3 DEF SugarInv
<1>10. Up'
  BY <1>1 DEF Up
<1>11. Catching'
  <2>1. ASSUME Clean(jx) PROVE Filled(jx, chain, boot.next + 1, cut)
    <3>1. Clean(boot.batch)
      BY <1>5, <2>1 DEF Clean
    <3>2. Filled(boot.batch, chain, boot.next, cut)
      BY <1>1, <3>1 DEF SugarInv, Catching
    <3>3. QED
      BY <1>1, <1>2, <1>5, <1>7, <3>2, FilledNext
  <2>2. /\ boot'.next \in 0 .. Height(chain) + 1 /\ ~ (boot'.next > Height(chain))
        /\ boot'.batched \in 0 .. RebuildBatch - 1
    BY <1>1, <1>3, <1>6, <1>7, BatchSize DEF Full
  <2>3. "torn" \in jx.off => "torn" \in idx.off
    BY <1>1, <1>5 DEF SugarInv, Catching
  <2>4. QED
    BY <1>1, <1>3, <1>6, <2>1, <2>2, <2>3 DEF Catching
<1>12. Torn'
  BY <1>1, <1>3, TornStays DEF SugarInv
<1>13. QED
  BY <1>8, <1>9, <1>10, <1>11, <1>12 DEF SugarInv

LEMMA AddAndWriteStep ==
  ASSUME SugarInv, Consume, AddAndWrite(At(chain, boot.next)) PROVE SugarInv'
<1>1. /\ status = "catchup" /\ boot.next \in 0 .. Height(chain)
      /\ chain \in Blocks /\ Height(chain) \in Nat
      /\ At(chain, boot.next) \in Blocks
      /\ boot.todo \cup (boot.pending \ {boot.next}) = boot.next + 1 .. Height(chain)
      /\ boot.todo \cap (boot.pending \ {boot.next}) = {}
      /\ UNCHANGED <<chain, disk, header, safe, txn, status, cut, disabled, power>>
  BY ConsumeFacts
<1>2. PICK b : b = At(chain, boot.next)
  OBVIOUS
<1>3. /\ idx' = WithTip(Indexed(boot.batch, b), b)
      /\ boot' = [boot EXCEPT !.pending = @ \ {boot.next}, !.next = @ + 1,
                              !.batch = idx', !.batched = 0]
  BY <1>2 DEF AddAndWrite
<1>4. PICK jx : jx = Indexed(boot.batch, b)
  OBVIOUS
<1>5. /\ IndexType(jx) /\ jx.held = boot.batch.held \cup {b}
      /\ boot.batch.off \subseteq jx.off /\ jx.off \subseteq boot.batch.off \cup {"mixed"}
  BY SMTT(30), <1>1, <1>2, <1>4, IndexedFacts DEF SugarInv, Shape
<1>6. /\ IndexType(idx') /\ idx'.tip = b /\ idx'.held = boot.batch.held \cup {b}
      /\ idx'.off = jx.off
  BY <1>1, <1>2, <1>3, <1>4, <1>5, WithTipFacts
<1>7. /\ DOMAIN boot' = DOMAIN boot /\ boot'.left = boot.left
      /\ boot'.todo = boot.todo /\ boot'.pending = boot.pending \ {boot.next}
      /\ boot'.next = boot.next + 1 /\ boot'.batch = idx' /\ boot'.batched = 0
  BY <1>3 DEF SugarInv, Shape
<1>8. cut \in Nat
  BY DEF SugarInv, Shape
<1>9. ASSUME Clean(idx')
      PROVE  Filled(idx', chain, boot.next + 1, cut) /\ Holds(idx', b, cut)
  <2>1. Clean(boot.batch)
    BY <1>5, <1>6, <1>9 DEF Clean
  <2>2. Filled(boot.batch, chain, boot.next, cut)
    BY <1>1, <2>1 DEF SugarInv, Catching
  <2>3. QED
    BY <1>1, <1>2, <1>6, <1>8, <2>2, FilledNext
<1>10. Shape'
  BY <1>1, <1>6, <1>7 DEF SugarInv, Shape
<1>11. Sound(idx', cut')
  BY <1>1, <1>2, <1>6, <1>9, Heights DEF Sound
<1>12. Sound(safe, cut)'
  BY <1>1 DEF SugarInv
<1>13. Up'
  BY <1>1 DEF Up
<1>14. Catching'
  <2>1. /\ boot'.next \in 0 .. Height(chain) + 1 /\ boot'.batched \in 0 .. RebuildBatch - 1
        /\ boot'.next > Height(chain) => boot.next = Height(chain)
    BY <1>1, <1>7, BatchSize
  <2>2. boot.next = Height(chain) => b = chain
    BY <1>1, <1>2, Heights
  <2>3. QED
    BY <1>1, <1>6, <1>7, <1>9, <2>1, <2>2 DEF Catching
<1>15. Torn'
  <2>1. "torn" \in idx'.off => "torn" \in idx.off
    BY <1>1, <1>5, <1>6 DEF SugarInv, Catching
  <2>2. QED
    BY <1>1, <2>1, TornUp DEF SugarInv
<1>16. QED
  BY <1>10, <1>11, <1>12, <1>13, <1>14, <1>15 DEF SugarInv

LEMMA CaughtUpStep ==
  ASSUME SugarInv, CaughtUp PROVE SugarInv'
<1>1. /\ status = "catchup" /\ boot.todo = {} /\ boot.next \notin boot.pending
      /\ status' = "up" /\ boot' = NoBoot
      /\ UNCHANGED <<chain, disk, header, idx, safe, txn, cut, disabled, power>>
  BY DEF CaughtUp
<1>2. Height(chain) \in Nat /\ txn = NoTxn
  BY <1>1, Heights DEF SugarInv, Shape
<1>3. boot.next > Height(chain)
  BY <1>1, <1>2 DEF SugarInv, Catching
<1>4. Clean(idx) => idx.tip = chain
  BY <1>1, <1>3 DEF SugarInv, Catching
<1>5. <<>> \in Seq({"addr", "spent", "times", "unspent"})
  OBVIOUS
<1>6. Shape'
  BY <1>1, <1>2, <1>5, NoBootFacts, NoTxnFacts, EmptyIndex DEF SugarInv, Shape
<1>7. Sound(idx, cut)' /\ Sound(safe, cut)'
  BY <1>1 DEF SugarInv
<1>8. Up' /\ Catching'
  BY <1>1, <1>2, <1>4, NoTxnFacts DEF Up, Catching
<1>9. Torn'
  BY <1>1, TornUp DEF SugarInv
<1>10. QED
  BY <1>6, <1>7, <1>8, <1>9 DEF SugarInv

-----------------------------------------------------------------------------
(* The theorems.                                                           *)

LEMMA SugarNext == ASSUME SugarInv, Committed, [Next]_vars PROVE SugarInv'
<1>1. CASE \E b \in Blocks : BeginConnect(b)
  BY <1>1, BeginConnectStep
<1>2. CASE ConnectBlock \/ DisconnectBlock \/ Commit \/ ConnectFails \/ DisconnectFails
  BY <1>2, ConnectBlockStep, DisconnectBlockStep, CommitStep, ConnectFailsStep, DisconnectFailsStep
<1>3. CASE Persist \/ Stop
  BY <1>3, PersistStep, StopStep
<1>4. CASE Kill
  BY <1>4, DownStep DEF Kill
<1>5. CASE PowerFails
  BY <1>5, DownStep DEF PowerFails
<1>6. CASE \E b \in Blocks : RunDisabled(b)
  BY <1>6, RunDisabledStep
<1>7. CASE StartWipe \/ StartKeep \/ StartFresh \/ WipeBatch \/ WipeEnd
  BY <1>7, StartWipeStep, StartKeepStep, StartFreshStep, WipeBatchStep, WipeEndStep
<1>8. CASE \E h \in 0 .. Height(chain) : Fetched(h)
  BY <1>8, FetchedStep
<1>9. CASE Consume
  <2>1. Pass \/ Add(At(chain, boot.next)) \/ AddAndWrite(At(chain, boot.next))
    BY <1>9 DEF Consume
  <2>2. QED
    BY <1>9, <2>1, PassStep, AddStep, AddAndWriteStep
<1>10. CASE CaughtUp
  BY <1>10, CaughtUpStep
<1>11. CASE UNCHANGED vars
  BY <1>11 DEF vars, SugarInv, Shape, Up, Catching, Torn, Replaced, RowAt
<1>12. QED
  BY <1>1, <1>2, <1>3, <1>4, <1>5, <1>6, <1>7, <1>8, <1>9, <1>10, <1>11 DEF Next

LEMMA CommittedNext == ASSUME SugarInv, Committed, [Next]_vars PROVE Committed'
<1>1. CASE UNCHANGED <<chain, best, cut, pruning>>
  BY <1>1 DEF Committed
<1>2. CASE Commit
  <2>1. txn.to \in Blocks
    <3>1. txn.kind = "disconnect" => Prev(chain) \in Blocks
      <4>1. txn.kind = "disconnect" => cut < Height(chain) /\ cut \in Nat /\ chain \in Blocks
        BY <1>2 DEF Commit, SugarInv, Shape, Up
      <4>2. QED
        BY <4>1, Parent, Heights
    <3>2. QED
      BY <1>2, <3>1 DEF Commit, SugarInv, Shape, Up
  <2>2. best' = txn.to /\ chain' = txn.to /\ pruning' = pruning /\ (pruning \/ cut' = cut)
    BY <1>2 DEF Commit
  <2>3. QED
    BY <2>1, <2>2 DEF Committed
<1>3. CASE ConnectFails
  BY <1>3, ConnectFailsFacts DEF Committed
<1>4. CASE Stop
  BY <1>4 DEF Stop, Committed
<1>5. CASE Kill \/ PowerFails
  BY <1>5 DEF Kill, PowerFails, Down, Committed, SugarInv, Shape
<1>6. CASE \E b \in Blocks : RunDisabled(b)
  BY <1>6 DEF RunDisabled, Committed
<1>7. QED
  BY <1>1, <1>2, <1>3, <1>4, <1>5, <1>6
     DEF Next, vars, BeginConnect, ConnectBlock, DisconnectBlock, DisconnectFails, Persist, StartWipe,
         StartKeep, StartFresh, WipeBatch, WipeEnd, Fetched, Consume, CaughtUp

\* The invariant holds in every state (module SugarIndex, all actions).
THEOREM SugarInvariant == Spec => [](SugarInv /\ Committed)
<1>1. Init => SugarInv /\ Committed
  BY SugarInit, SugarAssumption DEF Init, Committed, Genesis
<1>2. SugarInv /\ Committed /\ [Next]_vars => SugarInv' /\ Committed'
  BY SugarNext, CommittedNext
<1>3. QED
  BY <1>1, <1>2, PTL DEF Spec

\* An index stays with its chain (Init, indexer.go:107): whatever was killed,
\* lost with the power or reorganized while the index was off, an index that is
\* up is at the tip of the chain and holds all its blocks that are not pruned,
\* unless one of the marks says why not.
THEOREM StaysAlways == Spec => []StaysWithChain
<1>1. ASSUME SugarInv PROVE StaysWithChain
  <2>1. SUFFICES ASSUME Idle, Clean(idx)
                 PROVE  /\ idx.tip = chain /\ idx.held \subseteq On(chain)
                        /\ \A h \in cut .. Height(chain) : At(chain, h) \in idx.held
    BY DEF StaysWithChain, Clean
  <2>2. idx.tip = chain
    BY <1>1, <2>1, NoTxnFacts DEF Idle, SugarInv, Up
  <2>3. chain # None
    BY <1>1, Heights DEF SugarInv, Shape
  <2>4. Holds(idx, chain, cut)
    BY <1>1, <2>1, <2>2, <2>3 DEF SugarInv, Sound
  <2>5. QED
    BY <2>2, <2>4 DEF Holds
<1>2. QED
  BY <1>1, SugarInvariant, PTL

\* Init leaves no wipe unfinished (wipeIndex, indexer.go): a node that is up has
\* not passed over one, however often it was killed in the middle, as long as
\* the power has not failed and the index was not switched off.
THEOREM InitAlways == Spec => []InitSound
<1>1. ASSUME SugarInv, Committed PROVE InitSound
  <2>1. TypeOK
    <3>1. \A ix \in {idx, safe} :
             /\ ix.addr \subseteq Txs \X {Height(b) : b \in Blocks}
             /\ DOMAIN ix.unspent \cup DOMAIN ix.spent \cup DOMAIN ix.txids \subseteq Txs
             /\ ix.off \subseteq {"failed", "ahead", "mixed", "torn"}
             /\ ix.times \cup ix.held \subseteq Blocks /\ ix.tip \in Blocks \cup {None}
      BY <1>1 DEF SugarInv, Shape, IndexType, Marks
    <3>2. txn # NoTxn => status = "up"
      BY <1>1 DEF SugarInv, Shape
    <3>3. boot # NoBoot => status \in {"wipe", "catchup"}
      BY <1>1 DEF SugarInv, Shape
    <3>4. boot.batched < RebuildBatch
      <4>1. boot.batched = 0 \/ boot.batched \in 0 .. RebuildBatch - 1
        BY <1>1, NoBootFacts DEF SugarInv, Shape, Catching
      <4>2. QED
        BY <4>1, BatchSize
    <3>5. boot.todo \cup boot.pending \subseteq boot.next .. Height(chain)
      BY <1>1, NoBootFacts DEF SugarInv, Shape, Catching
    <3>6. cut \in 0 .. Height(disk)
      BY <1>1, Heights DEF SugarInv, Shape
    <3>7. QED
      BY <1>1, <3>1, <3>2, <3>3, <3>4, <3>5, <3>6 DEF TypeOK, SugarInv, Shape, Committed
  <2>2. WipeFinished
    <3>1. SUFFICES ASSUME status = "up", "torn" \in idx.off, ~ power PROVE disabled > 0
      BY DEF WipeFinished, Idle
    <3>2. disabled \in Nat /\ disabled # 0
      BY <1>1, <3>1 DEF SugarInv, Shape, Torn
    <3>3. QED
      BY <3>2
  <2>3. QED
    BY <2>1, <2>2 DEF InitSound
<1>2. QED
  BY <1>1, SugarInvariant, PTL

-----------------------------------------------------------------------------
(* The rows.  An index that was told nothing beside what it held (Good)    *)
(* has the rows of the blocks it holds, whichever copy it is.  They may be *)
(* above its tip: an index that was ahead is told of them again, and until *)
(* then outputs that they spend may be unspent.  What a disconnect         *)
(* restores was created by a block that is held or by a pruned one (Low),  *)
(* on which all chains of the node agree.                                  *)

Good(ix) == ix.off \subseteq {"ahead"}

Low == {At(disk, h) : h \in 0 .. cut - 1}
Agree == \A h \in 0 .. cut - 1 : At(chain, h) = At(disk, h)

\* What the index holds up to the height of z, where it was last told.
Told(ix, z) == {x \in ix.held : Height(x) <= Height(z)}

Exact(ix, z, low) ==
    /\ ix.addr = UNION {Body[b] \X {Height(b)} : b \in ix.held}
    /\ DOMAIN ix.spent = SpentOn(ix.held)
    /\ \A b \in ix.held :
         /\ \A o \in Spent(b) : ix.spent[o] = <<Spender(b, o), Height(b)>>
         /\ \A o \in Body[b] \ (SpentOn(ix.held) \cup Chained) :
              o \in DOMAIN ix.unspent /\ ix.unspent[o] = Height(b)
         /\ \A t \in Body[b] : t \in DOMAIN ix.txids /\ ix.txids[t] = Height(b)
    /\ DOMAIN ix.unspent \subseteq (BornOn(ix.held \cup low) \ SpentOn(Told(ix, z))) \cup Chained

Rows(ix, z, low) == Good(ix) => Exact(ix, z, low)

\* The index holds what is not pruned of a branch through z.
Firm(ix, z, c) ==
    Good(ix) => IF z = None THEN ix.held = {}
                ELSE \E u \in Blocks : z \in On(u) /\ Holds(ix, u, c)

\* The index is at z, or was kept above it.
Reached(ix, z) == ix.tip = z \/ (ix.tip # None /\ Height(ix.tip) > Height(z))

Climbing ==
    status = "up" =>
      /\ txn.kind = "none" => (Good(idx) => Reached(idx, chain))
      /\ txn.kind = "connect" =>
            \E z \in On(txn.to) :
               /\ Height(z) >= Height(chain) /\ txn.todo = Above(z, txn.to)
               /\ Good(idx) => Reached(idx, z)
      /\ txn.kind = "disconnect" => (Good(idx) => idx.tip = txn.to)

\* The block the catch-up has come to.
Place == IF boot.next = 0 THEN None ELSE At(chain, boot.next - 1)

Filling ==
    status = "catchup" =>
      /\ Firm(boot.batch, Place, cut) /\ Rows(boot.batch, Place, Low)
      /\ boot.next > Height(chain) => (Good(idx) => idx.tip = chain)

ExactInv ==
    /\ Agree /\ Climbing /\ Filling
    /\ Firm(idx, idx.tip, cut) /\ Rows(idx, idx.tip, Low)
    /\ Firm(safe, safe.tip, cut) /\ Rows(safe, safe.tip, Low)

-----------------------------------------------------------------------------
(* The rows of one index.                                                  *)

\* On a branch a transaction occurs once, an output is created and spent once.
LEMMA ValidBranch ==
  ASSUME NEW b \in Blocks, NEW x \in On(b), NEW y \in On(b)
  PROVE  /\ x # y => Body[x] \cap Body[y] = {} /\ Spent(x) \cap Spent(y) = {}
         /\ \A o \in Spent(x) : \E z \in On(x) : o \in Body[z]
         /\ x # y => Height(x) # Height(y)
         /\ Height(y) <= Height(x) => y \in On(x)
<1>1. /\ x \in Blocks /\ Height(x) \in 0 .. Height(b) /\ At(b, Height(x)) = x
      /\ y \in Blocks /\ Height(y) \in 0 .. Height(b) /\ At(b, Height(y)) = y
      /\ Height(b) \in Nat
  BY Branch, Heights
<1>2. Height(y) <= Height(x) => y \in On(x)
  BY <1>1, SubBranch
<1>3. Height(x) <= Height(y) => x \in On(y)
  BY <1>1, SubBranch
<1>4. ASSUME x # y PROVE Body[x] \cap Body[y] = {} /\ Spent(x) \cap Spent(y) = {}
  <2>1. CASE y \in On(x)
    BY <1>1, <1>4, <2>1, ValidAssumption
  <2>2. CASE x \in On(y)
    BY <1>1, <1>4, <2>2, ValidAssumption
  <2>3. QED
    BY <1>1, <1>2, <1>3, <2>1, <2>2
<1>5. QED
  BY <1>1, <1>2, <1>4, ValidAssumption

\* What a block of a branch spends was created no higher than it.
LEMMA Created ==
  ASSUME NEW b \in Blocks, NEW x \in On(b), NEW y \in On(b), NEW o \in Spent(x), o \in Body[y]
  PROVE  y \in On(x)
<1>1. PICK z \in On(x) : o \in Body[z]
  BY ValidBranch
<1>2. x \in Blocks /\ Height(x) \in 0 .. Height(b) /\ At(b, Height(x)) = x
  BY Branch
<1>3. z \in On(b)
  BY <1>2, SubBranch
<1>4. z = y
  BY <1>1, <1>3, ValidBranch
<1>5. QED
  BY <1>1, <1>4

\* The tables after a block is connected.
LEMMA IndexedRows ==
  ASSUME NEW ix, IndexType(ix), NEW b \in Blocks
  PROVE  /\ Indexed(ix, b).addr = ix.addr \cup {<<t, Height(b)>> : t \in Body[b]}
         /\ DOMAIN Indexed(ix, b).spent = DOMAIN ix.spent \cup Spent(b)
         /\ \A o \in Spent(b) : Indexed(ix, b).spent[o] = <<Spender(b, o), Height(b)>>
         /\ \A o \in DOMAIN ix.spent \ Spent(b) : Indexed(ix, b).spent[o] = ix.spent[o]
         /\ DOMAIN Indexed(ix, b).unspent = (DOMAIN ix.unspent \cup Body[b]) \ Spent(b)
         /\ \A o \in Body[b] \ Spent(b) : Indexed(ix, b).unspent[o] = Height(b)
         /\ \A o \in DOMAIN ix.unspent \ (Body[b] \cup Spent(b)) :
              Indexed(ix, b).unspent[o] = ix.unspent[o]
         /\ DOMAIN Indexed(ix, b).txids = DOMAIN ix.txids \cup Body[b]
         /\ \A t \in Body[b] : Indexed(ix, b).txids[t] = Height(b)
         /\ \A t \in DOMAIN ix.txids \ Body[b] : Indexed(ix, b).txids[t] = ix.txids[t]
<1> DEFINE jx == Indexed(ix, b)
           us == Without(Over([o \in Body[b] |-> Height(b)], ix.unspent), Spent(b))
           sp == Over([o \in Spent(b) |-> <<Spender(b, o), Height(b)>>], ix.spent)
           ti == Over([t \in Body[b] |-> Height(b)], ix.txids)
<1>1. /\ DOMAIN us = (DOMAIN ix.unspent \cup Body[b]) \ Spent(b)
      /\ \A o \in Body[b] \ Spent(b) : us[o] = Height(b)
      /\ \A o \in DOMAIN ix.unspent \ (Body[b] \cup Spent(b)) : us[o] = ix.unspent[o]
  BY DEF Without, Over
<1>2. /\ DOMAIN sp = DOMAIN ix.spent \cup Spent(b)
      /\ \A o \in Spent(b) : sp[o] = <<Spender(b, o), Height(b)>>
      /\ \A o \in DOMAIN ix.spent \ Spent(b) : sp[o] = ix.spent[o]
  BY DEF Over
<1>3. /\ DOMAIN ti = DOMAIN ix.txids \cup Body[b]
      /\ \A t \in Body[b] : ti[t] = Height(b)
      /\ \A t \in DOMAIN ix.txids \ Body[b] : ti[t] = ix.txids[t]
  BY DEF Over
<1> HIDE DEF us, sp, ti
<1>4. jx = [ix EXCEPT
              !.addr    = @ \cup {<<t, Height(b)>> : t \in Body[b]},
              !.unspent = us, !.spent = sp, !.times = @ \cup {b}, !.txids = ti,
              !.held    = @ \cup {b},
              !.off     = @ \cup Beside(ix, b)]
  BY DEF Indexed, us, sp, ti
<1>5. /\ jx.addr = ix.addr \cup {<<t, Height(b)>> : t \in Body[b]}
      /\ jx.unspent = us /\ jx.spent = sp /\ jx.txids = ti
  BY <1>4 DEF IndexType, Fields
<1> HIDE DEF jx
<1>6. QED
  BY <1>1, <1>2, <1>3, <1>5 DEF jx

\* The tables after a block is disconnected.
LEMMA UnindexedRows ==
  ASSUME NEW ix, IndexType(ix), NEW b \in Blocks
  PROVE  /\ Unindexed(ix, b).addr = ix.addr \ {<<t, Height(b)>> : t \in Body[b]}
         /\ DOMAIN Unindexed(ix, b).spent = DOMAIN ix.spent \ Spent(b)
         /\ \A o \in DOMAIN ix.spent \ Spent(b) : Unindexed(ix, b).spent[o] = ix.spent[o]
         /\ DOMAIN Unindexed(ix, b).unspent = (DOMAIN ix.unspent \ Body[b]) \cup Spent(b)
         /\ \A o \in Spent(b) : Unindexed(ix, b).unspent[o] = Born(b, o)
         /\ \A o \in DOMAIN ix.unspent \ (Body[b] \cup Spent(b)) :
              Unindexed(ix, b).unspent[o] = ix.unspent[o]
         /\ Unindexed(ix, b).txids = ix.txids
<1> DEFINE jx == Unindexed(ix, b)
           us == Over([o \in Spent(b) |-> Born(b, o)], Without(ix.unspent, Body[b]))
           sp == Without(ix.spent, Spent(b))
<1>1. /\ DOMAIN us = (DOMAIN ix.unspent \ Body[b]) \cup Spent(b)
      /\ \A o \in Spent(b) : us[o] = Born(b, o)
      /\ \A o \in DOMAIN ix.unspent \ (Body[b] \cup Spent(b)) : us[o] = ix.unspent[o]
  BY DEF Without, Over
<1>2. /\ DOMAIN sp = DOMAIN ix.spent \ Spent(b)
      /\ \A o \in DOMAIN ix.spent \ Spent(b) : sp[o] = ix.spent[o]
  BY DEF Without
<1> HIDE DEF us, sp
<1>3. jx = [ix EXCEPT
              !.addr    = @ \ {<<t, Height(b)>> : t \in Body[b]},
              !.unspent = us, !.spent = sp, !.tip = Prev(b), !.held = @ \ {b},
              !.off     = @ \cup Astray(ix, b)]
  BY DEF Unindexed, us, sp
<1>4. /\ jx.addr = ix.addr \ {<<t, Height(b)>> : t \in Body[b]}
      /\ jx.unspent = us /\ jx.spent = sp /\ jx.txids = ix.txids
  BY <1>3 DEF IndexType, Fields
<1> HIDE DEF jx
<1>5. QED
  BY <1>1, <1>2, <1>4 DEF jx

\* Connecting a block of the branch that the index holds, or one above it, keeps
\* its rows exact.
LEMMA ExactIndexed ==
  ASSUME NEW ix, IndexType(ix), NEW low, NEW w \in Blocks, ix.held \subseteq On(w),
         NEW b \in On(w), NEW y, Height(y) \in Int, Height(y) >= Height(b) - 1, Exact(ix, y, low)
  PROVE  Exact(Indexed(ix, b), b, low)
<1> DEFINE jx == Indexed(ix, b)
<1>0. b \in Blocks /\ Height(b) \in 0 .. Height(w)
  BY Branch
<1>1. /\ jx.addr = ix.addr \cup {<<t, Height(b)>> : t \in Body[b]}
      /\ DOMAIN jx.spent = DOMAIN ix.spent \cup Spent(b)
      /\ \A o \in Spent(b) : jx.spent[o] = <<Spender(b, o), Height(b)>>
      /\ \A o \in DOMAIN ix.spent \ Spent(b) : jx.spent[o] = ix.spent[o]
      /\ DOMAIN jx.unspent = (DOMAIN ix.unspent \cup Body[b]) \ Spent(b)
      /\ \A o \in Body[b] \ Spent(b) : jx.unspent[o] = Height(b)
      /\ \A o \in DOMAIN ix.unspent \ (Body[b] \cup Spent(b)) : jx.unspent[o] = ix.unspent[o]
      /\ \A t \in Body[b] : jx.txids[t] = Height(b)
      /\ \A t \in DOMAIN ix.txids \ Body[b] : jx.txids[t] = ix.txids[t]
      /\ DOMAIN jx.txids = DOMAIN ix.txids \cup Body[b]
  BY <1>0, IndexedRows
<1>2. jx.held = ix.held \cup {b} /\ jx.held \subseteq On(w)
  BY <1>0, IndexedFacts
<1> HIDE DEF jx
<1>3. /\ ix.addr = UNION {Body[x] \X {Height(x)} : x \in ix.held}
      /\ DOMAIN ix.spent = SpentOn(ix.held)
      /\ \A x \in ix.held :
           /\ \A o \in Spent(x) : ix.spent[o] = <<Spender(x, o), Height(x)>>
           /\ \A o \in Body[x] \ (SpentOn(ix.held) \cup Chained) :
                o \in DOMAIN ix.unspent /\ ix.unspent[o] = Height(x)
           /\ \A t \in Body[x] : t \in DOMAIN ix.txids /\ ix.txids[t] = Height(x)
      /\ DOMAIN ix.unspent \subseteq (BornOn(ix.held \cup low) \ SpentOn(Told(ix, y))) \cup Chained
  BY DEF Exact
<1>4. SpentOn(jx.held) = SpentOn(ix.held) \cup Spent(b)
  BY <1>2 DEF SpentOn
<1>5. \A x \in ix.held : x # b => Body[x] \cap Body[b] = {} /\ Spent(x) \cap Spent(b) = {}
  BY <1>2, ValidBranch
<1>6. jx.addr = UNION {Body[x] \X {Height(x)} : x \in jx.held}
  BY <1>1, <1>2, <1>3
<1>7. DOMAIN jx.spent = SpentOn(jx.held)
  BY <1>1, <1>3, <1>4
<1>8. ASSUME NEW x \in jx.held, NEW o \in Spent(x)
      PROVE  jx.spent[o] = <<Spender(x, o), Height(x)>>
  <2>1. CASE x = b
    BY <1>1, <1>8, <2>1
  <2>2. CASE x # b
    <3>1. x \in ix.held /\ o \notin Spent(b)
      BY <1>2, <1>5, <1>8, <2>2
    <3>2. o \in DOMAIN ix.spent
      BY <1>3, <1>8, <3>1 DEF SpentOn
    <3>3. QED
      BY <1>1, <1>3, <1>8, <3>1, <3>2
  <2>3. QED
    BY <2>1, <2>2
<1>9. ASSUME NEW x \in jx.held, NEW o \in Body[x] \ (SpentOn(jx.held) \cup Chained)
      PROVE  o \in DOMAIN jx.unspent /\ jx.unspent[o] = Height(x)
  <2>0. o \notin Spent(b) /\ o \notin SpentOn(ix.held)
    BY <1>4, <1>9
  <2>1. CASE x = b
    BY <1>1, <1>9, <2>0, <2>1
  <2>2. CASE x # b
    <3>1. x \in ix.held /\ o \notin Body[b]
      BY <1>2, <1>5, <1>9, <2>2
    <3>2. o \in DOMAIN ix.unspent /\ ix.unspent[o] = Height(x)
      BY <1>3, <1>9, <2>0, <3>1
    <3>3. QED
      BY <1>1, <2>0, <3>1, <3>2
  <2>3. QED
    BY <2>1, <2>2
<1>10. ASSUME NEW x \in jx.held, NEW t \in Body[x]
       PROVE  t \in DOMAIN jx.txids /\ jx.txids[t] = Height(x)
  <2>1. CASE x = b
    BY <1>1, <1>10, <2>1
  <2>2. CASE x # b
    <3>1. x \in ix.held /\ t \notin Body[b]
      BY <1>2, <1>5, <1>10, <2>2
    <3>2. t \in DOMAIN ix.txids /\ ix.txids[t] = Height(x)
      BY <1>3, <1>10, <3>1
    <3>3. QED
      BY <1>1, <3>1, <3>2
  <2>3. QED
    BY <2>1, <2>2
<1>11. ASSUME NEW o \in DOMAIN jx.unspent, o \notin Chained
       PROVE  o \in BornOn(jx.held \cup low) /\ o \notin SpentOn(Told(jx, b))
  <2>1. o \notin Spent(b)
    BY <1>1, <1>11
  <2>2. CASE o \in Body[b]
    <3>1. o \in BornOn(jx.held \cup low)
      BY <1>2, <2>2 DEF BornOn
    <3>2. ASSUME o \in SpentOn(Told(jx, b)) PROVE FALSE
      <4>1. PICK x \in jx.held : o \in Spent(x) /\ Height(x) <= Height(b)
        BY <3>2 DEF SpentOn, Told
      <4>2. x \in On(w) /\ x \in Blocks
        BY <1>2, <4>1, Branch
      <4>3. b \in On(x)
        BY <2>2, <4>1, <4>2, Created
      <4>4. b = x
        <5>1. Height(b) \in 0 .. Height(x)
          BY <4>2, <4>3, Branch
        <5>2. Height(b) = Height(x)
          BY <1>0, <4>1, <4>2, <5>1, Heights
        <5>3. QED
          BY <4>2, <5>2, ValidBranch
      <4>5. QED
        BY <2>1, <4>1, <4>4
    <3>3. QED
      BY <3>1, <3>2
  <2>3. CASE o \notin Body[b]
    <3>1. o \in DOMAIN ix.unspent
      BY <1>1, <1>11, <2>3
    <3>2. o \in BornOn(ix.held \cup low) /\ o \notin SpentOn(Told(ix, y))
      BY <1>3, <1>11, <3>1
    <3>3. o \in BornOn(jx.held \cup low)
      BY <1>2, <3>2 DEF BornOn
    <3>4. ASSUME o \in SpentOn(Told(jx, b)) PROVE FALSE
      <4>1. PICK x \in jx.held : o \in Spent(x) /\ Height(x) <= Height(b)
        BY <3>4 DEF SpentOn, Told
      <4>2. x # b /\ x \in ix.held /\ x \in On(w)
        BY <1>2, <2>1, <4>1
      <4>3. Height(x) # Height(b) /\ Height(x) \in Int
        BY <4>2, ValidBranch, Branch
      <4>4. Height(x) <= Height(y)
        BY <1>0, <4>1, <4>3
      <4>5. QED
        BY <3>2, <4>1, <4>2, <4>4 DEF SpentOn, Told
    <3>5. QED
      BY <3>3, <3>4
  <2>4. QED
    BY <2>2, <2>3
<1>12. Exact(jx, b, low)
  BY <1>6, <1>7, <1>8, <1>9, <1>10, <1>11 DEF Exact
<1>13. QED
  BY <1>12 DEF jx

\* Disconnecting the highest block the index holds keeps its rows exact: what
\* it spent was created by a block that is held or one of low.
LEMMA ExactUnindexed ==
  ASSUME NEW ix, IndexType(ix), NEW b \in Blocks, NEW low, b \in ix.held, ix.held \subseteq On(b),
         Prev(b) \in Blocks, \A x \in On(b) : x \in ix.held \cup low, Exact(ix, b, low)
  PROVE  Exact(Unindexed(ix, b), Prev(b), low)
<1> DEFINE jx == Unindexed(ix, b)
<1>0. Told(ix, b) = ix.held
  <2>1. ASSUME NEW x \in ix.held PROVE Height(x) <= Height(b)
    BY <2>1, Branch
  <2>2. QED
    BY <2>1 DEF Told
<1>1. /\ jx.addr = ix.addr \ {<<t, Height(b)>> : t \in Body[b]}
      /\ DOMAIN jx.spent = DOMAIN ix.spent \ Spent(b)
      /\ \A o \in DOMAIN ix.spent \ Spent(b) : jx.spent[o] = ix.spent[o]
      /\ DOMAIN jx.unspent = (DOMAIN ix.unspent \ Body[b]) \cup Spent(b)
      /\ \A o \in Spent(b) : jx.unspent[o] = Born(b, o)
      /\ \A o \in DOMAIN ix.unspent \ (Body[b] \cup Spent(b)) : jx.unspent[o] = ix.unspent[o]
      /\ jx.txids = ix.txids
  BY UnindexedRows
<1>2. jx.held = ix.held \ {b} /\ b \in On(b)
  BY UnindexedFacts, Branch
<1> HIDE DEF jx
<1>3. /\ ix.addr = UNION {Body[x] \X {Height(x)} : x \in ix.held}
      /\ DOMAIN ix.spent = SpentOn(ix.held)
      /\ \A x \in ix.held :
           /\ \A o \in Spent(x) : ix.spent[o] = <<Spender(x, o), Height(x)>>
           /\ \A o \in Body[x] \ (SpentOn(ix.held) \cup Chained) :
                o \in DOMAIN ix.unspent /\ ix.unspent[o] = Height(x)
           /\ \A t \in Body[x] : t \in DOMAIN ix.txids /\ ix.txids[t] = Height(x)
      /\ DOMAIN ix.unspent \subseteq (BornOn(ix.held \cup low) \ SpentOn(ix.held)) \cup Chained
  BY <1>0 DEF Exact
<1>4. \A x \in On(b) : x # b => /\ Body[x] \cap Body[b] = {} /\ Spent(x) \cap Spent(b) = {}
                                /\ Height(x) # Height(b)
  BY <1>2, ValidBranch
<1>5. SpentOn(jx.held) = SpentOn(ix.held) \ Spent(b)
  BY <1>2, <1>4 DEF SpentOn
<1>6. jx.addr = UNION {Body[x] \X {Height(x)} : x \in jx.held}
  <2>1. ASSUME NEW r \in jx.addr PROVE \E x \in jx.held : r \in Body[x] \X {Height(x)}
    <3>1. PICK x \in ix.held : r \in Body[x] \X {Height(x)}
      BY <1>1, <1>3, <2>1
    <3>2. x # b
      BY <1>1, <2>1, <3>1
    <3>3. QED
      BY <1>2, <3>1, <3>2
  <2>2. ASSUME NEW x \in jx.held, NEW r \in Body[x] \X {Height(x)} PROVE r \in jx.addr
    <3>1. x \in ix.held /\ Height(x) # Height(b)
      BY <1>2, <1>4, <2>2
    <3>2. r \in ix.addr
      BY <1>3, <2>2, <3>1
    <3>3. QED
      BY <1>1, <2>2, <3>1, <3>2
  <2>3. QED
    BY <2>1, <2>2
<1>7. DOMAIN jx.spent = SpentOn(jx.held)
  BY <1>1, <1>3, <1>5
<1>8. ASSUME NEW x \in jx.held, NEW o \in Spent(x)
      PROVE  jx.spent[o] = <<Spender(x, o), Height(x)>>
  <2>1. x \in ix.held /\ o \notin Spent(b)
    BY <1>2, <1>4, <1>8
  <2>2. o \in DOMAIN ix.spent
    BY <1>3, <1>8, <2>1 DEF SpentOn
  <2>3. QED
    BY <1>1, <1>3, <1>8, <2>1, <2>2
<1>9. ASSUME NEW x \in jx.held, NEW o \in Body[x] \ (SpentOn(jx.held) \cup Chained)
      PROVE  o \in DOMAIN jx.unspent /\ jx.unspent[o] = Height(x)
  <2>1. x \in ix.held /\ x # b /\ x \in On(b) /\ o \notin Body[b]
    BY <1>2, <1>4, <1>9
  <2>2. CASE o \in Spent(b)
    <3>1. Born(b, o) = Height(x)
      <4>1. Height(x) \in 0 .. Height(b) /\ At(b, Height(x)) = x
        BY <2>1, Branch
      <4>2. ASSUME NEW h \in 0 .. Height(b), o \in Body[At(b, h)] PROVE h = Height(x)
        <5>1. At(b, h) \in On(b) /\ Height(At(b, h)) = h
          BY <4>2, OnPath, Branch
        <5>2. At(b, h) = x
          BY <1>9, <2>1, <4>2, <5>1, ValidBranch
        <5>3. QED
          BY <5>1, <5>2
      <4>3. QED
        BY <1>9, <4>1, <4>2 DEF Born
    <3>2. QED
      BY <1>1, <2>2, <3>1
  <2>3. CASE o \notin Spent(b)
    <3>1. o \notin SpentOn(ix.held)
      BY <1>5, <1>9, <2>3
    <3>2. o \in DOMAIN ix.unspent /\ ix.unspent[o] = Height(x)
      BY <1>3, <1>9, <2>1, <3>1
    <3>3. QED
      BY <1>1, <2>1, <2>3, <3>2
  <2>4. QED
    BY <2>2, <2>3
<1>10. \A x \in jx.held : \A t \in Body[x] : t \in DOMAIN jx.txids /\ jx.txids[t] = Height(x)
  BY <1>1, <1>2, <1>3
<1>11. ASSUME NEW o \in DOMAIN jx.unspent, o \notin Chained
       PROVE  o \in BornOn(jx.held \cup low) /\ o \notin SpentOn(jx.held)
  <2>0. o \notin Body[b] \cap Spent(b)
    BY <1>11 DEF Chained
  <2>1. CASE o \in Spent(b)
    <3>1. PICK x \in On(b) : o \in Body[x]
      BY <2>1, ValidAssumption
    <3>2. x # b /\ x \in jx.held \cup low
      BY <1>2, <2>0, <2>1, <3>1
    <3>3. QED
      BY <1>5, <2>1, <3>1, <3>2 DEF BornOn
  <2>2. CASE o \notin Spent(b)
    <3>1. o \in DOMAIN ix.unspent /\ o \notin Body[b]
      BY <1>1, <1>11, <2>2
    <3>2. o \in BornOn(ix.held \cup low) /\ o \notin SpentOn(ix.held)
      BY <1>3, <1>11, <3>1
    <3>3. PICK x \in ix.held \cup low : o \in Body[x]
      BY <3>2 DEF BornOn
    <3>4. x \in jx.held \cup low
      BY <1>2, <3>1, <3>3
    <3>5. QED
      BY <1>5, <3>2, <3>3, <3>4 DEF BornOn
  <2>3. QED
    BY <2>1, <2>2
<1>12. Exact(jx, Prev(b), low)
  <2>1. SpentOn(Told(jx, Prev(b))) \subseteq SpentOn(jx.held)
    BY DEF SpentOn, Told
  <2>2. QED
    BY <2>1, <1>6, <1>7, <1>8, <1>9, <1>10, <1>11 DEF Exact
<1>13. QED
  BY <1>12 DEF jx

\* What the tables are compared with.
LEMMA ExactSame ==
  ASSUME NEW ix, NEW jx, NEW z, NEW low, NEW all, low \subseteq all, Exact(ix, z, low),
         jx.addr = ix.addr, jx.spent = ix.spent, jx.unspent = ix.unspent,
         jx.txids = ix.txids, jx.held = ix.held
  PROVE  Exact(jx, z, all)
<1>1. BornOn(ix.held \cup low) \subseteq BornOn(ix.held \cup all)
  BY DEF BornOn
<1>2. Told(jx, z) = Told(ix, z)
  BY DEF Told
<1>3. QED
  BY <1>1, <1>2 DEF Exact

LEMMA ExactEmpty ==
  ASSUME NEW ix, NEW z, NEW low,
         ix.held = {}, ix.addr = {}, DOMAIN ix.spent = {}, DOMAIN ix.unspent = {}
  PROVE  Exact(ix, z, low)
BY DEF Exact, SpentOn

\* Rows are compared with more pruned blocks.
LEMMA RowsLow ==
  ASSUME NEW ix, NEW z, NEW low, NEW all, low \subseteq all, Rows(ix, z, low)
  PROVE  Rows(ix, z, all)
BY ExactSame DEF Rows

LEMMA FirmCut ==
  ASSUME NEW ix, NEW z, NEW c \in Nat, NEW d \in Nat, c <= d, Firm(ix, z, c)
  PROVE  Firm(ix, z, d)
<1>1. ASSUME NEW u \in Blocks, Holds(ix, u, c) PROVE Holds(ix, u, d)
  <2>1. Height(u) \in Nat
    BY Heights
  <2>2. \A h \in d .. Height(u) : h \in c .. Height(u)
    BY <2>1
  <2>3. QED
    BY <1>1, <2>2 DEF Holds
<1>2. QED
  BY <1>1 DEF Firm

\* The empty index.
LEMMA FreshIndex ==
  ASSUME NEW c, NEW z, NEW low PROVE Firm(Empty, None, c) /\ Rows(Empty, z, low)
<1>1. /\ Empty.held = {} /\ Empty.addr = {}
      /\ DOMAIN Empty.spent = {} /\ DOMAIN Empty.unspent = {}
  BY DEF Empty
<1>2. QED
  BY <1>1, ExactEmpty DEF Rows, Firm

\* An index is told to take a block next to where it was last told, or below it:
\* when nothing that it holds is beside the block, all of this lies on one
\* branch, and its rows stay exact.
LEMMA Taken ==
  ASSUME NEW ix, IndexType(ix), NEW b \in Blocks, NEW c \in Nat, c <= Height(b), NEW low,
         NEW y \in Blocks \cup {None},
         y = None => Height(b) = 0,
         y # None => Height(y) >= Height(b) \/ (Height(b) > 0 /\ y = Prev(b)),
         Firm(ix, y, c), Rows(ix, y, low)
  PROVE  Firm(Indexed(ix, b), b, c) /\ Rows(Indexed(ix, b), b, low)
<1>1. PICK jx : jx = Indexed(ix, b)
  OBVIOUS
<1>2. jx.held = ix.held \cup {b} /\ jx.off = ix.off \cup Beside(ix, b)
  BY <1>1, IndexedFacts
<1>3. Height(b) \in Nat /\ At(b, Height(b)) = b /\ b # None /\ b \in On(b)
  BY Heights, Branch
<1>4. ASSUME Good(jx)
      PROVE  /\ \E w \in Blocks : b \in On(w) /\ Holds(jx, w, c)
             /\ Exact(jx, b, low)
  <2>1. Good(ix) /\ \A x \in ix.held : x \in On(b) \/ b \in On(x)
    BY <1>2, <1>4 DEF Good, Beside
  <2>2. PICK w \in Blocks : b \in On(w) /\ ix.held \subseteq On(w) /\ Holds(jx, w, c)
    <3>1. CASE y = None
      <4>1. ix.held = {}
        BY <2>1, <3>1 DEF Firm
      <4>2. \A h \in c .. Height(b) : h = Height(b)
        BY <1>3, <3>1
      <4>3. Holds(jx, b, c)
        BY <1>2, <1>3, <4>1, <4>2 DEF Holds
      <4>4. QED
        BY <1>3, <4>1, <4>3
    <3>2. CASE y # None
      <4>1. PICK u \in Blocks : y \in On(u) /\ Holds(ix, u, c)
        BY <2>1, <3>2 DEF Firm
      <4>2. /\ Height(u) \in Nat /\ At(u, Height(u)) = u
            /\ y \in Blocks /\ Height(y) \in 0 .. Height(u) /\ At(u, Height(y)) = y
        BY <4>1, Heights, Branch
      <4>3. CASE Height(u) >= Height(b)
        <5>1. Height(u) \in c .. Height(u) /\ Height(b) \in c .. Height(u)
          BY <1>3, <4>2, <4>3
        <5>2. u \in ix.held
          BY <4>1, <4>2, <5>1 DEF Holds
        <5>3. b \in On(u)
          <6>1. CASE u \in On(b)
            <7>1. Height(u) \in 0 .. Height(b) /\ At(b, Height(u)) = u
              BY <6>1, Branch
            <7>2. Height(u) = Height(b)
              BY <1>3, <4>2, <4>3, <7>1
            <7>3. QED
              BY <1>3, <6>1, <7>1, <7>2
          <6>2. QED
            BY <2>1, <5>2, <6>1
        <5>4. At(u, Height(b)) = b
          BY <5>3, Branch
        <5>5. b \in ix.held
          BY <4>1, <5>1, <5>4 DEF Holds
        <5>6. jx.held = ix.held
          BY <1>2, <5>5
        <5>7. QED
          BY <4>1, <5>3, <5>6 DEF Holds
      <4>4. CASE ~ (Height(u) >= Height(b))
        <5>1. y = Prev(b) /\ Height(b) > 0
          BY <1>3, <3>2, <4>2, <4>4
        <5>2. Height(y) = Height(b) - 1
          BY <5>1, Parent
        <5>3. Height(u) = Height(y)
          BY <1>3, <4>2, <4>4, <5>2
        <5>4. u = y
          BY <4>2, <5>3
        <5>5. PICK h \in Nat : h + 1 = Height(b) /\ h = Height(b) - 1
          BY <1>3, <5>1
        <5>6. At(b, h) = y /\ At(b, h + 1) = b /\ h + 1 \in 0 .. Height(b)
          BY <1>3, <5>1, <5>5 DEF Prev
        <5>7. Holds(jx, b, c)
          BY <1>2, <4>1, <5>4, <5>5, <5>6, HoldsNext
        <5>8. QED
          BY <1>2, <1>3, <5>7 DEF Holds
      <4>5. QED
        BY <4>3, <4>4
    <3>3. QED
      BY <3>1, <3>2
  <2>3. Height(y) \in Int /\ Height(y) >= Height(b) - 1
    <3>1. CASE y = None
      <4>1. Height(None) = -1
        BY DEF Height
      <4>2. QED
        BY <3>1, <4>1
    <3>2. CASE y # None
      BY <1>3, <3>2, Heights, Parent
    <3>3. QED
      BY <3>1, <3>2
  <2>4. Exact(ix, y, low)
    BY <2>1 DEF Rows
  <2>5. Exact(jx, b, low)
    BY <1>1, <2>2, <2>3, <2>4, ExactIndexed
  <2>6. QED
    BY <2>2, <2>5
<1>5. Firm(jx, b, c) /\ Rows(jx, b, low)
  BY <1>3, <1>4 DEF Firm, Rows
<1>6. QED
  BY <1>1, <1>5

\* Its tip is written with it.
LEMMA TakenTip ==
  ASSUME NEW ix, IndexType(ix), NEW b \in Blocks, NEW c, NEW low, NEW jx,
         jx = WithTip(ix, b), Firm(ix, b, c), Rows(ix, b, low)
  PROVE  Firm(jx, b, c) /\ Rows(jx, b, low)
<1>1. /\ jx.held = ix.held /\ jx.off = ix.off /\ jx.addr = ix.addr /\ jx.spent = ix.spent
      /\ jx.unspent = ix.unspent /\ jx.txids = ix.txids
  BY DEF WithTip, IndexType, Fields
<1>2. Firm(jx, b, c)
  BY <1>1 DEF Firm, Good, Holds
<1>3. Rows(jx, b, low)
  BY <1>1, ExactSame DEF Rows, Good
<1>4. QED
  BY <1>2, <1>3

-----------------------------------------------------------------------------
(* Every action keeps the rows exact.                                      *)

LEMMA ExactInit == ASSUME Init PROVE ExactInv
<1>1. /\ Firm(Empty, Empty.tip, cut) /\ Rows(Empty, Empty.tip, Low)
  BY EmptyIndex, FreshIndex
<1>2. Agree /\ Climbing /\ Filling
  BY DEF Init, Agree, Climbing, Filling
<1>3. QED
  BY <1>1, <1>2 DEF Init, ExactInv

\* Steps that leave the chain and the indexes alone.
LEMMA Untouched ==
  ASSUME ExactInv, UNCHANGED <<chain, disk, cut, idx, safe>>
  PROVE  /\ Agree' /\ Firm(idx, idx.tip, cut)' /\ Firm(safe, safe.tip, cut)'
         /\ Rows(idx, idx.tip, Low)' /\ Rows(safe, safe.tip, Low)'
         /\ Low' = Low
BY DEF ExactInv, Agree, Firm, Rows, Low

LEMMA ExactBeginConnect ==
  ASSUME SugarInv, ExactInv, NEW b \in Blocks, BeginConnect(b) PROVE ExactInv'
<1>1. /\ txn = NoTxn /\ status = "up" /\ chain \in On(b) \ {b}
      /\ txn' = [kind |-> "connect", todo |-> Above(chain, b), to |-> b]
      /\ UNCHANGED <<chain, disk, cut, idx, safe, status, boot>>
  BY DEF BeginConnect, Idle
<1>2. txn'.kind = "connect" /\ txn'.todo = Above(chain, b) /\ txn'.to = b
  BY <1>1
<1>3. Height(chain) >= Height(chain)
  BY Heights DEF SugarInv, Shape
<1>4. Good(idx) => Reached(idx, chain)
  BY <1>1, NoTxnFacts DEF ExactInv, Climbing
<1>5. Climbing' /\ Filling'
  BY <1>1, <1>2, <1>3, <1>4 DEF Climbing, Filling
<1>6. QED
  BY <1>1, <1>5, Untouched DEF ExactInv

LEMMA ExactConnectBlock ==
  ASSUME SugarInv, ExactInv, ConnectBlock PROVE ExactInv'
<1>1. /\ status = "up" /\ txn.todo # <<>>
      /\ idx' = WithTip(Indexed(idx, Head(txn.todo)), Head(txn.todo))
      /\ txn' = [txn EXCEPT !.todo = Tail(@)]
      /\ UNCHANGED <<chain, disk, safe, status, boot, cut>>
  BY DEF ConnectBlock
<1>2. txn.kind = "connect" /\ DOMAIN txn = {"kind", "todo", "to"}
  BY <1>1, NoTxnFacts DEF SugarInv, Shape, Up
<1>3. PICK z \in On(txn.to) : /\ Height(z) >= Height(chain) /\ txn.todo = Above(z, txn.to)
                              /\ Good(idx) => Reached(idx, z)
  BY <1>1, <1>2 DEF ExactInv, Climbing
<1>4. txn.to \in Blocks
  BY <1>1, <1>2 DEF SugarInv, Up
<1>5. PICK n : n = At(txn.to, Height(z) + 1)
  OBVIOUS
<1>6. /\ Height(z) + 1 \in 0 .. Height(txn.to)
      /\ Head(txn.todo) = n /\ Tail(txn.todo) = Above(n, txn.to)
  BY <1>1, <1>3, <1>4, <1>5, Climb
<1>7. n \in Blocks /\ n \in On(txn.to) /\ Height(n) = Height(z) + 1 /\ n # None
  BY <1>4, <1>5, <1>6, OnPath, Branch, Heights
<1>8. txn'.kind = "connect" /\ txn'.to = txn.to /\ txn'.todo = Above(n, txn.to)
  BY <1>1, <1>2, <1>6
<1>9. z \in Blocks /\ Height(z) \in Nat /\ At(txn.to, Height(z)) = z
  BY <1>3, <1>4, Branch, Heights
<1>10. Height(chain) \in Nat /\ cut \in Nat /\ cut <= Height(chain) /\ IndexType(idx)
  BY Heights DEF SugarInv, Shape
<1>11. Prev(n) = z
  <2>1. Height(n) - 1 = Height(z) /\ Height(z) \in 0 .. Height(z) + 1
    BY <1>7, <1>9
  <2>2. At(n, Height(z)) = At(txn.to, Height(z))
    BY <1>4, <1>5, <1>6, <2>1, Under
  <2>3. QED
    BY <1>9, <2>1, <2>2 DEF Prev
<1>12. PICK jx : jx = Indexed(idx, n)
  OBVIOUS
<1>13. IndexType(jx) /\ jx.off = idx.off \cup Beside(idx, n)
  BY <1>7, <1>10, <1>12, IndexedFacts
<1>14. idx' = WithTip(jx, n) /\ idx'.tip = n /\ idx'.off = jx.off
  BY <1>1, <1>6, <1>7, <1>12, <1>13, WithTipFacts
<1>15. Firm(jx, n, cut) /\ Rows(jx, n, Low)
  <2>1. CASE Good(idx)
    <3>1. /\ idx.tip \in Blocks /\ idx.tip # None
          /\ Height(idx.tip) >= Height(n) \/ (Height(n) > 0 /\ idx.tip = Prev(n))
      <4>1. idx.tip \in Blocks \cup {None} /\ Reached(idx, z) /\ z # None
        BY <1>3, <1>9, <1>10, <2>1, Heights DEF IndexType
      <4>2. idx.tip \in Blocks /\ idx.tip # None /\ Height(idx.tip) \in Nat
        BY <1>9, <4>1, Heights DEF Reached
      <4>3. QED
        BY <1>7, <1>9, <1>11, <4>1, <4>2 DEF Reached
    <3>2. cut <= Height(n)
      BY <1>3, <1>7, <1>9, <1>10
    <3>3. QED
      BY <1>7, <1>10, <1>12, <3>1, <3>2, Taken DEF ExactInv
  <2>2. CASE ~ Good(idx)
    BY <1>13, <2>2 DEF Firm, Rows, Good
  <2>3. QED
    BY <2>1, <2>2
<1>16. Firm(idx', n, cut) /\ Rows(idx', n, Low)
  BY <1>7, <1>13, <1>14, <1>15, TakenTip
<1>17. Agree' /\ Firm(safe, safe.tip, cut)' /\ Filling' /\ Low' = Low
  BY <1>1 DEF ExactInv, Agree, Firm, Filling, Low
<1>18. Firm(idx, idx.tip, cut)' /\ Rows(idx, idx.tip, Low)' /\ Rows(safe, safe.tip, Low)'
  BY <1>1, <1>14, <1>16, <1>17 DEF ExactInv
<1>19. Climbing'
  <2>1. Height(n) >= Height(chain)
    BY <1>3, <1>7, <1>9, <1>10
  <2>2. QED
    BY <1>1, <1>7, <1>8, <1>14, <2>1 DEF Climbing, Reached
<1>20. QED
  BY <1>17, <1>18, <1>19 DEF ExactInv

LEMMA ExactDisconnectBlock ==
  ASSUME SugarInv, ExactInv, DisconnectBlock PROVE ExactInv'
<1>1. /\ status = "up" /\ txn = NoTxn /\ Height(chain) > cut
      /\ idx' = Unindexed(idx, chain)
      /\ txn' = [kind |-> "disconnect", todo |-> <<>>, to |-> Prev(chain)]
      /\ UNCHANGED <<chain, disk, safe, status, boot, cut>>
  BY DEF DisconnectBlock, Idle
<1>2. chain \in Blocks /\ cut \in Nat /\ IndexType(idx) /\ Height(chain) \in Nat /\ chain # None
  BY Heights DEF SugarInv, Shape
<1>3. /\ Prev(chain) \in Blocks /\ Prev(chain) # None
      /\ Height(Prev(chain)) = Height(chain) - 1
      /\ \A x \in On(chain) : x # chain => x \in On(Prev(chain))
      /\ \A h \in 0 .. Height(chain) - 1 :
           At(Prev(chain), h) = At(chain, h) /\ At(chain, h) # chain
  BY <1>1, <1>2, Parent
<1>4. /\ idx'.held = idx.held \ {chain} /\ idx'.tip = Prev(chain)
      /\ idx'.off = idx.off \cup Astray(idx, chain)
  BY <1>1, <1>2, <1>3, UnindexedFacts
<1>5. txn'.kind = "disconnect" /\ txn'.to = Prev(chain)
  BY <1>1
<1>6. ASSUME Good(idx')
      PROVE  Holds(idx', Prev(chain), cut) /\ Exact(idx', Prev(chain), Low)
  <2>1. Good(idx) /\ idx.held \subseteq On(chain)
    BY <1>4, <1>6 DEF Good, Astray
  <2>2. Reached(idx, chain)
    BY <1>1, <2>1, NoTxnFacts DEF ExactInv, Climbing
  <2>3. idx.tip \in Blocks /\ idx.tip # None /\ Height(idx.tip) >= Height(chain)
    BY <1>2, <2>2, Heights DEF Reached, IndexType
  <2>4. PICK u \in Blocks : idx.tip \in On(u) /\ Holds(idx, u, cut)
    BY <2>1, <2>3 DEF ExactInv, Firm
  <2>5. /\ Height(u) \in Nat /\ At(u, Height(u)) = u
        /\ Height(idx.tip) \in 0 .. Height(u) /\ At(u, Height(idx.tip)) = idx.tip
    BY <2>4, Heights, Branch
  <2>6. Height(u) \in cut .. Height(u)
    BY <1>1, <1>2, <2>3, <2>5
  <2>7. u \in On(chain)
    BY <2>1, <2>4, <2>5, <2>6 DEF Holds
  <2>8. /\ Height(u) \in 0 .. Height(chain) /\ At(chain, Height(u)) = u
        /\ At(chain, Height(chain)) = chain
    BY <1>2, <2>7, Branch, Heights
  <2>9. Height(u) = Height(chain) /\ Height(idx.tip) = Height(chain)
    BY <1>2, <2>3, <2>5, <2>8
  <2>10. u = chain /\ idx.tip = chain
    BY <2>5, <2>8, <2>9
  <2>11. Holds(idx, chain, cut) /\ chain \in idx.held
    BY <2>4, <2>5, <2>6, <2>10 DEF Holds
  <2>12. idx'.held \subseteq On(Prev(chain))
    BY <1>3, <1>4, <2>11 DEF Holds
  <2>13. ASSUME NEW h \in cut .. Height(chain) - 1 PROVE At(Prev(chain), h) \in idx'.held
    <3>1. h \in 0 .. Height(chain) - 1 /\ h \in cut .. Height(chain)
      BY <1>2, <2>13
    <3>2. At(chain, h) \in idx.held
      BY <2>11, <3>1 DEF Holds
    <3>3. QED
      BY <1>3, <1>4, <3>1, <3>2
  <2>14. ASSUME NEW x \in On(chain) PROVE x \in idx.held \cup Low
    <3>1. Height(x) \in 0 .. Height(chain) /\ At(chain, Height(x)) = x
      BY <1>2, <2>14, Branch
    <3>2. CASE Height(x) >= cut
      <4>1. Height(x) \in cut .. Height(chain)
        BY <1>2, <3>1, <3>2
      <4>2. QED
        BY <2>11, <3>1, <4>1 DEF Holds
    <3>3. CASE ~ (Height(x) >= cut)
      <4>1. Height(x) \in 0 .. cut - 1
        BY <1>2, <3>1, <3>3
      <4>2. x = At(disk, Height(x))
        BY <3>1, <4>1 DEF ExactInv, Agree
      <4>3. QED
        BY <4>1, <4>2 DEF Low
    <3>4. QED
      BY <3>2, <3>3
  <2>15. Exact(idx, chain, Low)
    BY <2>1, <2>10 DEF ExactInv, Rows
  <2>16. Exact(idx', Prev(chain), Low)
    BY <1>1, <1>2, <1>3, <2>1, <2>11, <2>14, <2>15, ExactUnindexed
  <2>17. QED
    BY <1>3, <2>12, <2>13, <2>16 DEF Holds
<1>7. Agree' /\ Firm(safe, safe.tip, cut)' /\ Filling' /\ Low' = Low
  BY <1>1 DEF ExactInv, Agree, Firm, Filling, Low
<1>8. Prev(chain) \in On(Prev(chain))
  BY <1>3, Branch
<1>9. Firm(idx, idx.tip, cut)' /\ Rows(idx, idx.tip, Low)'
  BY <1>1, <1>3, <1>4, <1>6, <1>7, <1>8 DEF Firm, Rows
<1>10. Rows(safe, safe.tip, Low)'
  BY <1>1, <1>7 DEF ExactInv, Rows
<1>11. Climbing'
  BY <1>1, <1>4, <1>5 DEF Climbing
<1>12. QED
  BY <1>7, <1>9, <1>10, <1>11 DEF ExactInv

\* Two branches with a block in common are the same below it.
LEMMA SameBelow ==
  ASSUME NEW b \in Blocks, NEW z \in On(b), NEW h \in 0 .. Height(z)
  PROVE  At(b, h) = At(z, h)
<1>1. Height(z) \in 0 .. Height(b) /\ At(b, Height(z)) = z
  BY Branch
<1>2. QED
  BY <1>1, Under

LEMMA ExactCommit ==
  ASSUME SugarInv, ExactInv, Commit PROVE ExactInv'
<1>1. /\ status = "up" /\ txn.kind # "none" /\ txn.todo = <<>>
      /\ chain' = txn.to /\ disk' \in {disk, txn.to} /\ txn' = NoTxn
      /\ cut' \in {cut} \cup
              {h \in cut .. Height(txn.to) :
                 pruning /\ txn.kind = "connect" /\ At(txn.to, h) \in On(disk')}
      /\ UNCHANGED <<idx, safe, status, boot>>
  BY DEF Commit
<1>2. /\ chain \in Blocks /\ cut \in Nat /\ Height(chain) \in Nat /\ disk \in Blocks
      /\ cut <= Height(chain) /\ cut <= Height(disk) /\ Height(disk) \in Nat
      /\ IndexType(idx) /\ IndexType(safe)
  BY Heights DEF SugarInv, Shape
<1>3. /\ txn.to \in Blocks /\ (Good(idx) => Reached(idx, txn.to))
      /\ \A h \in 0 .. cut - 1 : At(txn.to, h) = At(chain, h)
  <2>1. CASE txn.kind = "connect"
    <3>1. PICK z \in On(txn.to) : txn.todo = Above(z, txn.to) /\ (Good(idx) => Reached(idx, z))
      BY <1>1, <2>1 DEF ExactInv, Climbing
    <3>2. txn.to \in Blocks /\ chain \in On(txn.to)
      BY <1>1, <2>1 DEF SugarInv, Up
    <3>3. z = txn.to
      BY <1>1, <3>1, <3>2, Climb
    <3>4. \A h \in 0 .. Height(chain) : At(txn.to, h) = At(chain, h)
      BY <3>2, SameBelow
    <3>5. QED
      BY <1>2, <3>1, <3>2, <3>3, <3>4
  <2>2. CASE txn.kind = "disconnect"
    <3>1. cut < Height(chain) /\ txn.to = Prev(chain)
      BY <1>1, <2>2 DEF SugarInv, Up
    <3>2. Good(idx) => idx.tip = txn.to
      BY <1>1, <2>2 DEF ExactInv, Climbing
    <3>3. txn.to \in Blocks /\ \A h \in 0 .. Height(chain) - 1 : At(txn.to, h) = At(chain, h)
      BY <1>2, <3>1, Parent
    <3>4. QED
      BY <1>2, <3>1, <3>2, <3>3 DEF Reached
  <2>3. QED
    BY <1>1, <2>1, <2>2 DEF SugarInv, Shape
<1>4. Height(txn.to) \in Nat /\ disk' \in Blocks
  BY <1>1, <1>2, <1>3, Heights
<1>5. cut' \in Nat /\ cut <= cut'
  BY <1>1, <1>2, <1>4
<1>6. \A h \in 0 .. cut - 1 : At(chain, h) = At(disk, h)
  BY DEF ExactInv, Agree
<1>7. ASSUME NEW h \in 0 .. cut' - 1 PROVE At(txn.to, h) = At(disk', h)
  <2>1. CASE cut' = cut
    BY <1>1, <1>3, <1>6, <1>7, <2>1
  <2>2. CASE cut' # cut
    <3>1. cut' \in 0 .. Height(txn.to) /\ At(txn.to, cut') \in On(disk')
      BY <1>1, <1>2, <1>4, <2>2
    <3>2. At(txn.to, cut') \in Blocks /\ Height(At(txn.to, cut')) = cut'
      BY <1>3, <3>1, OnPath
    <3>3. h \in 0 .. cut'
      <4>1. \A c \in Nat : \A i \in 0 .. c - 1 : i \in 0 .. c
        OBVIOUS
      <4>2. QED
        BY <1>5, <1>7, <4>1
    <3>4. At(At(txn.to, cut'), h) = At(txn.to, h)
      BY <1>3, <3>1, <3>3, Under
    <3>5. At(disk', h) = At(At(txn.to, cut'), h)
      BY <1>4, <3>1, <3>2, <3>3, SameBelow
    <3>6. QED
      BY <3>4, <3>5
  <2>3. QED
    BY <2>1, <2>2
<1>8. Agree'
  BY <1>1, <1>7 DEF Agree
<1>9. Low \subseteq Low'
  <2>1. SUFFICES ASSUME NEW h \in 0 .. cut - 1
                 PROVE  h \in 0 .. cut' - 1 /\ At(disk, h) = At(disk', h)
    BY DEF Low
  <2>2. h \in 0 .. cut' - 1
    <3>1. \A c \in Nat, d \in Nat : c <= d => \A i \in 0 .. c - 1 : i \in 0 .. d - 1
      OBVIOUS
    <3>2. QED
      BY <1>2, <1>5, <2>1, <3>1
  <2>3. QED
    BY <1>3, <1>6, <1>7, <2>2
<1>10. Firm(idx, idx.tip, cut)' /\ Firm(safe, safe.tip, cut)'
  BY <1>1, <1>2, <1>5, FirmCut DEF ExactInv
<1>11. Rows(idx, idx.tip, Low)' /\ Rows(safe, safe.tip, Low)'
  BY <1>1, <1>9, RowsLow DEF ExactInv
<1>12. Climbing' /\ Filling'
  BY <1>1, <1>3, NoTxnFacts DEF Climbing, Filling
<1>13. QED
  BY <1>8, <1>10, <1>11, <1>12 DEF ExactInv

LEMMA ExactDisconnectFails ==
  ASSUME SugarInv, ExactInv, DisconnectFails PROVE ExactInv'
<1>1. /\ status = "up" /\ txn' = NoTxn
      /\ idx' = [idx EXCEPT !.off = @ \cup {"failed"}]
      /\ UNCHANGED <<chain, disk, safe, status, boot, cut>>
  BY DEF DisconnectFails
<1>2. idx'.off = idx.off \cup {"failed"}
  BY <1>1, MarkedFacts DEF SugarInv, Shape, Marks
<1>3. ~ Good(idx')
  BY <1>2 DEF Good
<1>4. Firm(idx', idx'.tip, cut') /\ Rows(idx', idx'.tip, Low')
  BY <1>3 DEF Firm, Rows
<1>5. Climbing'
  BY <1>1, <1>3, NoTxnFacts DEF Climbing
<1>6. Agree' /\ Filling' /\ Low' = Low
  BY <1>1 DEF ExactInv, Agree, Filling, Low
<1>7. Firm(safe, safe.tip, cut)' /\ Rows(safe, safe.tip, Low)'
  BY <1>1, <1>6 DEF ExactInv, Firm, Rows
<1>8. QED
  BY <1>4, <1>5, <1>6, <1>7 DEF ExactInv

LEMMA ExactConnectFails ==
  ASSUME SugarInv, Committed, ExactInv, ConnectFails PROVE ExactInv'
<1>1. /\ status = "up" /\ txn' = NoTxn
      /\ idx' = [idx EXCEPT !.off = @ \cup {"failed"}]
      /\ UNCHANGED <<disk, safe, status, boot, cut>>
      /\ chain' = chain \/ cut = 0
  BY ConnectFailsFacts
<1>2. idx'.off = idx.off \cup {"failed"}
  BY <1>1, MarkedFacts DEF SugarInv, Shape, Marks
<1>3. ~ Good(idx')
  BY <1>2 DEF Good
<1>4. Firm(idx', idx'.tip, cut') /\ Rows(idx', idx'.tip, Low')
  BY <1>3 DEF Firm, Rows
<1>5. Climbing'
  BY <1>1, <1>3, NoTxnFacts DEF Climbing
<1>6. Filling' /\ Low' = Low
  BY <1>1 DEF Filling, Low
<1>7. Agree'
  BY <1>1 DEF ExactInv, Agree
<1>8. Firm(safe, safe.tip, cut)' /\ Rows(safe, safe.tip, Low)'
  BY <1>1, <1>6 DEF ExactInv, Firm, Rows
<1>9. QED
  BY <1>4, <1>5, <1>6, <1>7, <1>8 DEF ExactInv

LEMMA ExactPersist ==
  ASSUME SugarInv, ExactInv, Persist PROVE ExactInv'
<1>1. safe' = idx /\ UNCHANGED <<chain, disk, idx, txn, status, boot, cut>>
  BY DEF Persist
<1>2. Agree' /\ Climbing' /\ Low' = Low
  BY <1>1 DEF ExactInv, Agree, Climbing, Low
<1>3. Filling'
  BY <1>1, <1>2 DEF ExactInv, Filling, Place
<1>4. QED
  BY <1>1, <1>2, <1>3 DEF ExactInv

\* The pruned blocks are the same on another chain of the node.
LEMMA ExactMoved ==
  ASSUME ExactInv, status' = "down", chain' = disk', UNCHANGED cut,
         \A h \in 0 .. cut - 1 : At(disk', h) = At(disk, h),
         idx' \in {idx, safe}, safe' \in {idx, safe}
  PROVE  ExactInv'
<1>1. Agree' /\ Low' = Low /\ Climbing' /\ Filling'
  BY DEF Agree, Low, Climbing, Filling
<1>2. /\ Firm(idx, idx.tip, cut)' /\ Firm(safe, safe.tip, cut)'
      /\ Rows(idx, idx.tip, Low)' /\ Rows(safe, safe.tip, Low)'
  BY <1>1 DEF ExactInv
<1>3. QED
  BY <1>1, <1>2 DEF ExactInv

LEMMA ExactStop ==
  ASSUME SugarInv, Committed, ExactInv, Stop PROVE ExactInv'
<1>1. /\ status' = "down" /\ disk' = best /\ chain' = best /\ safe' = idx /\ idx' = idx
      /\ cut' = cut
  BY DEF Stop
<1>2. \A h \in 0 .. cut - 1 : At(disk', h) = At(disk, h)
  BY <1>1 DEF ExactInv, Agree, Committed
<1>3. QED
  BY <1>1, <1>2, ExactMoved

LEMMA ExactDown ==
  ASSUME SugarInv, ExactInv, NEW ix \in {idx, safe}, NEW p \in BOOLEAN, Down(ix, p)
  PROVE  ExactInv'
<1>1. /\ status' = "down" /\ chain' = disk /\ idx' = ix
      /\ disk' = disk /\ safe' = safe /\ cut' = cut
  BY DEF Down
<1>2. QED
  BY <1>1, ExactMoved

LEMMA ExactRunDisabled ==
  ASSUME SugarInv, ExactInv, NEW b \in Blocks, RunDisabled(b) PROVE ExactInv'
<1>1. /\ status' = "down" /\ disk' = b /\ chain' = b /\ idx' = idx /\ safe' = safe
      /\ cut' = cut
      /\ \A h \in 0 .. cut - 1 : At(b, h) = At(disk, h)
  BY DEF RunDisabled
<1>2. QED
  BY <1>1, ExactMoved

LEMMA ExactStartWipe ==
  ASSUME SugarInv, ExactInv, StartWipe PROVE ExactInv'
<1>1. /\ status' = "wipe" /\ safe' = idx /\ UNCHANGED <<chain, disk, idx, cut>>
  BY DEF StartWipe
<1>2. Agree' /\ Low' = Low /\ Climbing' /\ Filling'
  BY <1>1 DEF ExactInv, Agree, Low, Climbing, Filling
<1>3. QED
  BY <1>1, <1>2 DEF ExactInv

\* The node is up, or catches up, after one of the starts: the tip of the index
\* is on the chain or above it.
LEMMA ExactStart ==
  ASSUME SugarInv, ExactInv, status # "up", UNCHANGED <<chain, disk, txn, cut>>,
         IndexType(idx'), CatchUp(idx'),
         idx'.tip # None /\ Height(idx'.tip) <= Height(chain) =>
            idx'.tip = At(chain, Height(idx'.tip)),
         Firm(idx', idx'.tip, cut), Rows(idx', idx'.tip, Low), safe' \in {safe, idx'}
  PROVE  ExactInv'
<1>1. PICK ix : ix = idx'
  OBVIOUS
<1>2. /\ IndexType(ix) /\ CatchUp(ix)
      /\ Firm(ix, ix.tip, cut) /\ Rows(ix, ix.tip, Low)
      /\ ix.tip # None /\ Height(ix.tip) <= Height(chain) => ix.tip = At(chain, Height(ix.tip))
  BY <1>1
<1>3. PICK h : h = Height(ix.tip)
  OBVIOUS
<1>4. chain \in Blocks /\ Height(chain) \in Nat /\ At(chain, Height(chain)) = chain /\ txn = NoTxn
  BY Heights DEF SugarInv, Shape
<1>5. h \in Int /\ h >= -1 /\ (ix.tip = None <=> h = -1)
  BY <1>2, <1>3, Heights DEF IndexType, Height
<1>6. Agree' /\ Low' = Low
  BY DEF ExactInv, Agree, Low
<1>7. /\ Firm(idx, idx.tip, cut)' /\ Firm(safe, safe.tip, cut)'
      /\ Rows(idx, idx.tip, Low)' /\ Rows(safe, safe.tip, Low)'
  BY <1>6 DEF ExactInv
<1>8. Climbing' /\ Filling'
  <2>1. CASE h >= Height(chain)
    <3>1. status' = "up"
      BY <1>2, <1>3, <2>1 DEF CatchUp
    <3>2. ix.tip # None
      BY <1>4, <1>5, <2>1
    <3>3. h = Height(chain) \/ h > Height(chain)
      BY <1>4, <1>5, <2>1
    <3>4. Reached(ix, chain)
      BY <1>2, <1>3, <1>4, <3>2, <3>3 DEF Reached
    <3>5. QED
      BY <1>1, <1>4, <3>1, <3>4, NoTxnFacts DEF Climbing, Filling
  <2>2. CASE ~ (h >= Height(chain))
    <3>1. /\ status' = "catchup"
          /\ boot' = [NoBoot EXCEPT !.todo = h + 1 .. Height(chain), !.next = h + 1,
                                    !.batch = ix]
      BY <1>2, <1>3, <2>2 DEF CatchUp
    <3>2. boot'.next = h + 1 /\ boot'.batch = ix
      BY <3>1, NoBootFacts
    <3>3. ~ (boot'.next > Height(chain))
      BY <1>4, <1>5, <2>2, <3>2
    <3>4. Place' = ix.tip
      <4>1. CASE h = -1
        BY <1>5, <3>2, <4>1 DEF Place
      <4>2. CASE h # -1
        <5>1. h + 1 # 0 /\ (h + 1) - 1 = h /\ h <= Height(chain)
          BY <1>4, <1>5, <2>2, <4>2
        <5>2. ix.tip = At(chain, h)
          BY <1>2, <1>3, <1>5, <4>2, <5>1
        <5>3. QED
          BY <3>2, <5>1, <5>2 DEF Place
      <4>3. QED
        BY <4>1, <4>2
    <3>5. QED
      BY <1>2, <1>6, <3>1, <3>2, <3>3, <3>4 DEF Climbing, Filling
  <2>3. QED
    BY <2>1, <2>2
<1>9. QED
  BY <1>6, <1>7, <1>8 DEF ExactInv

LEMMA ExactStartKeep ==
  ASSUME SugarInv, ExactInv, StartKeep PROVE ExactInv'
<1>1. /\ status = "down" /\ ~ Replaced(idx.tip) /\ CatchUp(idx)
      /\ idx' = IF Height(idx.tip) > Height(chain)
                THEN [idx EXCEPT !.off = @ \cup {"ahead"}] ELSE idx
      /\ safe' = idx'
      /\ UNCHANGED <<chain, disk, txn, cut>>
  BY DEF StartKeep
<1>2. chain \in Blocks /\ Height(chain) \in Nat /\ IndexType(idx)
  BY Heights DEF SugarInv, Shape
<1>3. /\ IndexType(idx') /\ idx'.tip = idx.tip /\ idx'.held = idx.held
      /\ Good(idx') => Good(idx)
      /\ idx'.addr = idx.addr /\ idx'.spent = idx.spent
      /\ idx'.unspent = idx.unspent /\ idx'.txids = idx.txids
  <2>1. CASE Height(idx.tip) > Height(chain)
    <3>1. idx' = [idx EXCEPT !.off = @ \cup {"ahead"}]
      BY <1>1, <2>1
    <3>2. /\ IndexType(idx') /\ idx'.tip = idx.tip /\ idx'.held = idx.held
          /\ idx'.off = idx.off \cup {"ahead"}
      BY ZenonT(30), <1>2, <3>1, MarkedFacts DEF Marks
    <3>3. /\ idx'.addr = idx.addr /\ idx'.spent = idx.spent
          /\ idx'.unspent = idx.unspent /\ idx'.txids = idx.txids
      BY <1>2, <3>1 DEF IndexType, Fields
    <3>4. QED
      BY <3>2, <3>3 DEF Good
  <2>2. CASE ~ (Height(idx.tip) > Height(chain))
    BY <1>1, <1>2, <2>2
  <2>3. QED
    BY <2>1, <2>2
<1>4. Firm(idx', idx'.tip, cut)
  BY <1>3 DEF ExactInv, Firm, Holds
<1>5. Rows(idx', idx'.tip, Low)
  BY <1>3, ExactSame DEF ExactInv, Rows
<1>6. ASSUME idx.tip # None, Height(idx.tip) <= Height(chain)
      PROVE  idx.tip = At(chain, Height(idx.tip))
  <2>1. Height(idx.tip) \in 0 .. Height(chain)
    BY <1>2, <1>6, Heights DEF IndexType
  <2>2. RowAt(Height(idx.tip)) = At(chain, Height(idx.tip))
    BY <1>6 DEF RowAt
  <2>3. At(chain, Height(idx.tip)) # None
    BY <1>2, <2>1, OnPath, Heights
  <2>4. QED
    BY <1>1, <1>6, <2>2, <2>3 DEF Replaced
<1>7. CatchUp(idx')
  <2>1. CASE Height(idx.tip) > Height(chain)
    <3>1. Height(idx.tip) >= Height(chain)
      BY <1>2, <2>1, Heights DEF IndexType, Height
    <3>2. status' = "up" /\ boot' = NoBoot
      BY <1>1, <3>1 DEF CatchUp
    <3>3. QED
      BY <1>3, <3>1, <3>2 DEF CatchUp
  <2>2. CASE ~ (Height(idx.tip) > Height(chain))
    BY <1>1, <2>2
  <2>3. QED
    BY <2>1, <2>2
<1>8. QED
  BY <1>1, <1>3, <1>4, <1>5, <1>6, <1>7, ExactStart

LEMMA ExactStartFresh ==
  ASSUME SugarInv, ExactInv, StartFresh PROVE ExactInv'
<1>1. /\ status = "down" /\ idx' = Empty /\ safe' = Empty /\ CatchUp(Empty)
      /\ UNCHANGED <<chain, disk, txn, cut>>
  BY DEF StartFresh
<1>2. /\ IndexType(Empty) /\ Empty.tip = None
      /\ Firm(Empty, None, cut) /\ Rows(Empty, None, Low)
  BY EmptyIndex, FreshIndex
<1>3. QED
  BY <1>1, <1>2, ExactStart

LEMMA ExactWipeBatch ==
  ASSUME SugarInv, ExactInv, WipeBatch PROVE ExactInv'
<1>1. /\ status = "wipe" /\ boot.left # <<>>
      /\ idx' = [Cleared(idx, Head(boot.left)) EXCEPT !.off = @ \cup {"torn"}]
      /\ UNCHANGED <<chain, disk, safe, status, cut>>
  BY DEF WipeBatch
<1>2. Head(boot.left) \in {"addr", "spent", "times", "unspent"}
  BY <1>1, HeadTailProperties DEF SugarInv, Shape
<1>3. PICK cx : cx = Cleared(idx, Head(boot.left))
  OBVIOUS
<1>4. IndexType(cx)
  BY <1>2, <1>3, ClearedFacts DEF SugarInv, Shape
<1>5. "torn" \in idx'.off
  BY <1>1, <1>3, <1>4, MarkedFacts DEF Marks
<1>6. ~ Good(idx')
  BY <1>5 DEF Good
<1>7. Firm(idx', idx'.tip, cut') /\ Rows(idx', idx'.tip, Low')
  BY <1>6 DEF Firm, Rows
<1>8. Agree' /\ Low' = Low /\ Climbing' /\ Filling'
  BY <1>1 DEF ExactInv, Agree, Low, Climbing, Filling
<1>9. QED
  BY <1>1, <1>7, <1>8 DEF ExactInv

LEMMA ExactWipeEnd ==
  ASSUME SugarInv, ExactInv, WipeEnd PROVE ExactInv'
<1>1. /\ status = "wipe" /\ idx' = [Empty EXCEPT !.txids = idx.txids] /\ CatchUp(idx')
      /\ UNCHANGED <<chain, disk, safe, txn, cut>>
  BY DEF WipeEnd
<1>2. PICK ix : ix = idx'
  OBVIOUS
<1>3. DOMAIN Empty = Fields
  BY DEF Empty, Fields
<1>4. /\ DOMAIN ix = Fields /\ ix.txids = idx.txids
      /\ \A f \in Fields \ {"txids"} : ix[f] = Empty[f]
  BY <1>1, <1>2, <1>3 DEF Fields
<1>5. IndexType(ix) /\ ix.tip = None /\ ix.held = {}
  BY <1>4, EmptyIndex DEF SugarInv, Shape, IndexType, Fields
<1>6. ix.addr = {} /\ DOMAIN ix.spent = {} /\ DOMAIN ix.unspent = {}
  <2>1. Empty.addr = {} /\ DOMAIN Empty.spent = {} /\ DOMAIN Empty.unspent = {}
    BY DEF Empty
  <2>2. QED
    BY <1>4, <2>1 DEF Fields
<1>7. Firm(ix, ix.tip, cut) /\ Rows(ix, ix.tip, Low)
  BY <1>5, <1>6, ExactEmpty DEF Firm, Rows
<1>8. QED
  BY <1>1, <1>2, <1>5, <1>7, ExactStart

LEMMA ExactFetched ==
  ASSUME SugarInv, ExactInv, NEW h \in 0 .. Height(chain), Fetched(h) PROVE ExactInv'
<1>1. /\ boot' = [boot EXCEPT !.todo = @ \ {h}, !.pending = @ \cup {h}]
      /\ UNCHANGED <<chain, disk, idx, safe, txn, status, cut>>
  BY DEF Fetched
<1>2. boot'.next = boot.next /\ boot'.batch = boot.batch
  BY <1>1 DEF SugarInv, Shape
<1>3. Place' = Place /\ Low' = Low
  BY <1>1, <1>2 DEF Place, Low
<1>4. Climbing' /\ Filling'
  BY <1>1, <1>2, <1>3 DEF ExactInv, Climbing, Filling
<1>5. QED
  BY <1>1, <1>4, Untouched DEF ExactInv

\* Where the catch-up stands, and where it goes next.
LEMMA PlaceFacts ==
  ASSUME SugarInv, Consume, NEW b, b = At(chain, boot.next)
  PROVE  /\ b \in Blocks /\ Height(b) = boot.next /\ Place \in Blocks \cup {None}
         /\ Place = None => Height(b) = 0
         /\ Place # None => Height(b) > 0 /\ Place = Prev(b)
         /\ Height(Place) = Height(b) - 1
         /\ \A n : n = boot.next + 1 => n # 0 /\ At(chain, n - 1) = b
<1>1. boot.next \in 0 .. Height(chain) /\ chain \in Blocks /\ Height(chain) \in Nat
  BY ConsumeFacts
<1>2. b \in Blocks /\ Height(b) = boot.next
  BY <1>1, OnPath
<1>3. PICK n \in Nat : n = boot.next
  BY <1>1
<1>4. n + 1 # 0 /\ (n + 1) - 1 = n
  BY <1>3
<1>5. CASE n = 0
  <2>1. Place = None /\ Height(None) = -1
    BY <1>3, <1>5 DEF Place, Height
  <2>2. QED
    BY <1>2, <1>3, <1>4, <1>5, <2>1
<1>6. CASE n # 0
  <2>1. Place = At(chain, n - 1) /\ n - 1 \in 0 .. Height(chain) /\ n - 1 \in 0 .. n
    BY <1>1, <1>3, <1>6 DEF Place
  <2>2. At(b, n - 1) = At(chain, n - 1)
    BY <1>1, <1>3, <2>1, Under
  <2>3. Place = Prev(b) /\ Height(b) > 0
    BY <1>2, <1>3, <1>6, <2>1, <2>2 DEF Prev
  <2>4. Place \in Blocks /\ Height(Place) = n - 1
    BY <1>1, <2>1, OnPath
  <2>5. QED
    BY <1>2, <1>3, <1>4, <2>3, <2>4, Heights
<1>7. QED
  BY <1>5, <1>6

LEMMA ExactPass ==
  ASSUME SugarInv, ExactInv, Consume, Pass PROVE ExactInv'
<1>1. /\ boot.next < cut
      /\ boot' = [boot EXCEPT !.pending = @ \ {boot.next}, !.next = @ + 1,
                              !.batch.off = @ \cup Skipped(boot.batch, boot.next)]
      /\ UNCHANGED idx
  BY DEF Pass
<1>2. /\ status = "catchup" /\ boot.next \in 0 .. Height(chain)
      /\ chain \in Blocks /\ Height(chain) \in Nat
      /\ UNCHANGED <<chain, disk, safe, txn, status, cut>>
  BY ConsumeFacts
<1>3. PICK px : px = [boot.batch EXCEPT !.off = @ \cup Skipped(boot.batch, boot.next)]
  OBVIOUS
<1>4. boot'.next = boot.next + 1 /\ boot'.batch = px
  BY <1>1, <1>3 DEF SugarInv, Shape
<1>5. cut \in Nat /\ cut <= Height(chain)
  BY DEF SugarInv, Shape
<1>6. PICK b : b = At(chain, boot.next)
  OBVIOUS
<1>7. /\ b \in Blocks /\ Height(b) = boot.next /\ Place \in Blocks \cup {None}
      /\ Place # None => Height(b) > 0 /\ Place = Prev(b)
      /\ Height(Place) = Height(b) - 1
      /\ \A n : n = boot.next + 1 => n # 0 /\ At(chain, n - 1) = b
  BY <1>6, PlaceFacts
<1>8. Place' = b /\ Low' = Low
  BY <1>2, <1>4, <1>7 DEF Place, Low
<1>9. /\ IndexType(boot.batch) /\ px.held = boot.batch.held
      /\ px.off = boot.batch.off \cup Skipped(boot.batch, boot.next)
      /\ px.addr = boot.batch.addr /\ px.spent = boot.batch.spent
      /\ px.unspent = boot.batch.unspent /\ px.txids = boot.batch.txids
  BY <1>3, SkippedFacts DEF SugarInv, Shape
<1>10. ASSUME Good(px) PROVE Holds(px, b, cut) /\ Exact(px, b, Low)
  <2>1. Good(boot.batch) /\ \A x \in px.held : Height(x) < boot.next
    BY <1>9, <1>10 DEF Good, Skipped
  <2>2. \A h \in cut .. Height(b) : FALSE
    BY <1>1, <1>2, <1>5, <1>7
  <2>3. ASSUME NEW x \in px.held PROVE x \in On(b) /\ Height(x) <= Height(Place)
    <3>1. Place # None
      BY <1>2, <1>9, <2>1, <2>3 DEF ExactInv, Filling, Firm
    <3>2. PICK u \in Blocks : Place \in On(u) /\ Holds(boot.batch, u, cut)
      BY <1>2, <2>1, <3>1 DEF ExactInv, Filling, Firm
    <3>3. x \in On(u)
      BY <1>9, <3>2 DEF Holds
    <3>4. x \in Blocks /\ Height(x) \in Nat /\ Place \in Blocks
      BY <1>7, <3>1, <3>3, Branch, Heights
    <3>5. Height(x) <= Height(Place)
      BY <1>2, <1>7, <2>1, <3>4
    <3>6. x \in On(Place)
      BY <3>2, <3>3, <3>5, ValidBranch
    <3>7. Height(b) - 1 \in 0 .. Height(b)
      BY <1>7, <3>1, Heights
    <3>8. x \in On(b)
      BY <1>7, <3>1, <3>6, <3>7, SubBranch DEF Prev
    <3>9. QED
      BY <3>5, <3>8
  <2>4. Exact(boot.batch, Place, Low)
    BY <1>2, <2>1 DEF ExactInv, Filling, Rows
  <2>5. Exact(px, Place, Low)
    BY <1>9, <2>4, ExactSame
  <2>6. Told(px, b) \subseteq Told(px, Place)
    BY <2>3 DEF Told
  <2>7. SpentOn(Told(px, b)) \subseteq SpentOn(Told(px, Place))
    BY <2>6 DEF SpentOn
  <2>8. Exact(px, b, Low)
    BY <2>5, <2>7 DEF Exact
  <2>9. QED
    BY <2>2, <2>3, <2>8 DEF Holds
<1>11. Firm(px, b, cut) /\ Rows(px, b, Low)
  BY <1>7, <1>10, Heights, Branch DEF Firm, Rows
<1>12. ~ (boot'.next > Height(chain))
  BY <1>1, <1>2, <1>4, <1>5
<1>13. Climbing' /\ Filling'
  BY <1>2, <1>4, <1>8, <1>11, <1>12 DEF Climbing, Filling
<1>14. QED
  BY <1>1, <1>2, <1>13, Untouched DEF ExactInv

\* The batch with one more block.
LEMMA ExactBatch ==
  ASSUME SugarInv, ExactInv, Consume, boot.next >= cut, NEW b, b = At(chain, boot.next)
  PROVE  /\ b \in Blocks /\ IndexType(Indexed(boot.batch, b))
         /\ Firm(Indexed(boot.batch, b), b, cut) /\ Rows(Indexed(boot.batch, b), b, Low)
         /\ \A n : n = boot.next + 1 => n # 0 /\ At(chain, n - 1) = b
<1>1. /\ b \in Blocks /\ Height(b) = boot.next /\ Place \in Blocks \cup {None}
      /\ Place = None => Height(b) = 0
      /\ Place # None => Height(b) > 0 /\ Place = Prev(b)
      /\ \A n : n = boot.next + 1 => n # 0 /\ At(chain, n - 1) = b
  BY PlaceFacts
<1>2. IndexType(boot.batch) /\ cut \in Nat /\ cut <= Height(b)
  BY <1>1, Heights DEF SugarInv, Shape
<1>3. Firm(boot.batch, Place, cut) /\ Rows(boot.batch, Place, Low)
  BY ConsumeFacts DEF ExactInv, Filling
<1>4. QED
  BY <1>1, <1>2, <1>3, IndexedFacts, Taken

LEMMA ExactAdd ==
  ASSUME SugarInv, ExactInv, Consume, Add(At(chain, boot.next)) PROVE ExactInv'
<1>1. /\ status = "catchup" /\ boot.next \in 0 .. Height(chain)
      /\ chain \in Blocks /\ Height(chain) \in Nat
      /\ UNCHANGED <<chain, disk, safe, txn, status, cut>>
  BY ConsumeFacts
<1>2. PICK b : b = At(chain, boot.next)
  OBVIOUS
<1>3. /\ boot.next >= cut /\ ~ Full(boot.batched + 1)
      /\ boot' = [boot EXCEPT !.pending = @ \ {boot.next}, !.next = @ + 1,
                              !.batch = Indexed(@, b), !.batched = @ + 1]
      /\ UNCHANGED idx
  BY <1>2 DEF Add
<1>4. PICK jx : jx = Indexed(boot.batch, b)
  OBVIOUS
<1>5. boot'.next = boot.next + 1 /\ boot'.batch = jx
  BY <1>3, <1>4 DEF SugarInv, Shape
<1>6. /\ Firm(jx, b, cut) /\ Rows(jx, b, Low)
      /\ \A n : n = boot.next + 1 => n # 0 /\ At(chain, n - 1) = b
  BY <1>2, <1>3, <1>4, ExactBatch
<1>7. Place' = b /\ Low' = Low
  BY <1>1, <1>5, <1>6 DEF Place, Low
<1>8. ~ (boot'.next > Height(chain))
  BY <1>1, <1>3, <1>5 DEF Full
<1>9. Climbing' /\ Filling'
  BY <1>1, <1>5, <1>6, <1>7, <1>8 DEF Climbing, Filling
<1>10. QED
  BY <1>1, <1>3, <1>9, Untouched DEF ExactInv

LEMMA ExactAddAndWrite ==
  ASSUME SugarInv, ExactInv, Consume, AddAndWrite(At(chain, boot.next)) PROVE ExactInv'
<1>1. /\ status = "catchup" /\ boot.next \in 0 .. Height(chain)
      /\ chain \in Blocks /\ Height(chain) \in Nat
      /\ UNCHANGED <<chain, disk, safe, txn, status, cut>>
  BY ConsumeFacts
<1>2. PICK b : b = At(chain, boot.next)
  OBVIOUS
<1>3. /\ boot.next >= cut
      /\ idx' = WithTip(Indexed(boot.batch, b), b)
      /\ boot' = [boot EXCEPT !.pending = @ \ {boot.next}, !.next = @ + 1,
                              !.batch = idx', !.batched = 0]
  BY <1>2 DEF AddAndWrite
<1>4. PICK jx : jx = Indexed(boot.batch, b)
  OBVIOUS
<1>5. /\ b \in Blocks /\ IndexType(jx) /\ Firm(jx, b, cut) /\ Rows(jx, b, Low)
      /\ \A n : n = boot.next + 1 => n # 0 /\ At(chain, n - 1) = b
  BY <1>2, <1>3, <1>4, ExactBatch
<1>6. idx'.tip = b /\ Firm(idx', b, cut) /\ Rows(idx', b, Low)
  BY <1>3, <1>4, <1>5, WithTipFacts, TakenTip
<1>7. boot'.next = boot.next + 1 /\ boot'.batch = idx'
  BY <1>3 DEF SugarInv, Shape
<1>8. Agree' /\ Low' = Low /\ Climbing' /\ Place' = b
  BY <1>1, <1>5, <1>7 DEF ExactInv, Agree, Low, Climbing, Place
<1>9. Filling'
  <2>1. boot'.next > Height(chain) => boot.next = Height(chain)
    BY <1>1, <1>7
  <2>2. boot.next = Height(chain) => b = chain
    BY <1>1, <1>2, Heights
  <2>3. QED
    BY <1>1, <1>6, <1>7, <1>8, <2>1, <2>2 DEF Filling
<1>10. QED
  BY <1>1, <1>6, <1>8, <1>9 DEF ExactInv

LEMMA ExactCaughtUp ==
  ASSUME SugarInv, ExactInv, CaughtUp PROVE ExactInv'
<1>1. /\ status = "catchup" /\ boot.todo = {} /\ boot.next \notin boot.pending
      /\ status' = "up"
      /\ UNCHANGED <<chain, disk, idx, safe, txn, cut>>
  BY DEF CaughtUp
<1>2. Height(chain) \in Nat /\ txn = NoTxn
  BY <1>1, Heights DEF SugarInv, Shape
<1>3. boot.next > Height(chain)
  BY <1>1, <1>2 DEF SugarInv, Catching
<1>4. Good(idx) => Reached(idx, chain)
  BY <1>1, <1>3 DEF ExactInv, Filling, Reached
<1>5. Climbing' /\ Filling'
  BY <1>1, <1>2, <1>4, NoTxnFacts DEF Climbing, Filling
<1>6. QED
  BY <1>1, <1>5, Untouched DEF ExactInv

LEMMA ExactNext == ASSUME SugarInv, Committed, ExactInv, [Next]_vars PROVE ExactInv'
<1>1. CASE \E b \in Blocks : BeginConnect(b)
  BY <1>1, ExactBeginConnect
<1>2. CASE ConnectBlock \/ DisconnectBlock \/ Commit \/ ConnectFails \/ DisconnectFails
  BY <1>2, ExactConnectBlock, ExactDisconnectBlock, ExactCommit, ExactConnectFails, ExactDisconnectFails
<1>3. CASE Persist \/ Stop
  BY <1>3, ExactPersist, ExactStop
<1>4. CASE Kill
  BY <1>4, ExactDown DEF Kill
<1>5. CASE PowerFails
  BY <1>5, ExactDown DEF PowerFails
<1>6. CASE \E b \in Blocks : RunDisabled(b)
  BY <1>6, ExactRunDisabled
<1>7. CASE StartWipe \/ StartKeep \/ StartFresh \/ WipeBatch \/ WipeEnd
  BY <1>7, ExactStartWipe, ExactStartKeep, ExactStartFresh, ExactWipeBatch, ExactWipeEnd
<1>8. CASE \E h \in 0 .. Height(chain) : Fetched(h)
  BY <1>8, ExactFetched
<1>9. CASE Consume
  <2>1. Pass \/ Add(At(chain, boot.next)) \/ AddAndWrite(At(chain, boot.next))
    BY <1>9 DEF Consume
  <2>2. QED
    BY <1>9, <2>1, ExactPass, ExactAdd, ExactAddAndWrite
<1>10. CASE CaughtUp
  BY <1>10, ExactCaughtUp
<1>11. CASE UNCHANGED vars
  <2>1. UNCHANGED <<chain, disk, cut, idx, safe, txn, status, boot>>
    BY <1>11 DEF vars
  <2>2. Climbing' /\ Place' = Place /\ Low' = Low
    BY <2>1 DEF ExactInv, Climbing, Place, Low
  <2>3. Filling'
    BY <2>1, <2>2 DEF ExactInv, Filling
  <2>4. QED
    BY <2>1, <2>2, <2>3, Untouched DEF ExactInv
<1>12. QED
  BY <1>1, <1>2, <1>3, <1>4, <1>5, <1>6, <1>7, <1>8, <1>9, <1>10, <1>11 DEF Next

\* The invariant about the rows holds in every state (module SugarIndex, all
\* actions).
THEOREM ExactInvariant == Spec => []ExactInv
<1>1. Init => ExactInv
  BY ExactInit
<1>2. SugarInv /\ Committed /\ ExactInv /\ [Next]_vars => ExactInv'
  BY ExactNext
<1>3. QED
  BY <1>1, <1>2, SugarInvariant, PTL DEF Spec

\* The index holds what the chain implies (ConnectBlock, DisconnectBlock and the
\* catch-up of Init, indexer.go): whenever the blocks it was told to hold are
\* blocks of the chain, its rows of addresses, spent and unspent outputs and
\* transaction ids are those of these blocks, after any sequence of connects,
\* disconnects, kills, power failures, wipes and sessions without the index; also
\* when a kill had left it above the best block and it was told of the same
\* blocks again.
THEOREM IndexExactAlways == Spec => []IndexExact
<1>1. ASSUME SugarInv, ExactInv PROVE IndexExact
  <2>1. SUFFICES ASSUME Idle, Good(idx), idx.held \subseteq On(chain)
                 PROVE  Exact(idx, idx.tip, On(chain)) /\ Told(idx, idx.tip) = idx.held
    <3>1. idx.held \subseteq On(chain) => idx.held \cup On(chain) = On(chain)
      OBVIOUS
    <3>2. QED
      BY <3>1 DEF IndexExact, Exact, Good
  <2>2. chain \in Blocks /\ cut \in Nat /\ cut <= Height(chain) /\ Height(chain) \in Nat
    BY <1>1, Heights DEF SugarInv, Shape
  <2>3. Low \subseteq On(chain)
    <3>1. SUFFICES ASSUME NEW h \in 0 .. cut - 1 PROVE At(disk, h) \in On(chain)
      BY DEF Low
    <3>2. At(disk, h) = At(chain, h) /\ h \in 0 .. Height(chain)
      BY <1>1, <2>2 DEF ExactInv, Agree
    <3>3. QED
      BY <2>2, <3>2, Branch
  <2>4. Exact(idx, idx.tip, Low)
    BY <1>1, <2>1 DEF ExactInv, Rows
  <2>5. Told(idx, idx.tip) = idx.held
    <3>1. Reached(idx, chain)
      BY <1>1, <2>1, NoTxnFacts DEF ExactInv, Climbing, Idle
    <3>2. Height(idx.tip) \in Int /\ Height(idx.tip) >= Height(chain)
      BY <1>1, <2>2, <3>1, Heights DEF SugarInv, Shape, IndexType, Reached
    <3>3. ASSUME NEW x \in idx.held PROVE Height(x) <= Height(idx.tip)
      <4>1. Height(x) \in 0 .. Height(chain)
        BY <2>1, <2>2, <3>3, Branch
      <4>2. QED
        BY <2>2, <3>2, <4>1
    <3>4. QED
      BY <3>3 DEF Told
  <2>6. QED
    BY <2>3, <2>4, <2>5, ExactSame
<1>2. QED
  BY <1>1, ExactInvariant, SugarInvariant, PTL
=============================================================================
