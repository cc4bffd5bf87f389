-------------------------- MODULE UtxoCacheProofs --------------------------
(***************************************************************************)
(* Proofs about the UTXO cache: the rows on disk are those of the chain the*)
(* consistency marker names, a restart never fails, and lookups are right. *)
(* For any outputs, heights, bounds, hot depth and size of the first map,  *)
(* any number of goroutines, with the write queue on or off.               *)
(*                                                                         *)
(* The invariant UtxoInv says what an entry of the cache may be (Entry),   *)
(* given the row on disk and the chain: the disk is behind the chain, and  *)
(* what it lacks is in the entries that are modified, or in the queue, one *)
(* item per block (Queued).                                                *)
(***************************************************************************)
EXTENDS UtxoCache, SequenceTheorems, FiniteSetTheorems, WellFoundedInduction, TLAPS

-----------------------------------------------------------------------------
(* The inductive invariant.                                                *)

\* Block i of a chain creates what no block before it has created, and spends
\* what one of them, or itself, has created and none of them has spent.
ValidAt(s, i) ==
    /\ s[i].create # None => \A j \in 1 .. i - 1 : s[j].create # s[i].create
    /\ s[i].spend \notin {None, s[i].create} =>
          /\ s[i].from \in 1 .. i - 1 /\ s[s[i].from].create = s[i].spend
          /\ \A j \in 1 .. i - 1 : s[j].spend # s[i].spend
Valid(s) == \A i \in DOMAIN s : ValidAt(s, i)

Upto(s, n) == SubSeq(s, 1, n)

\* The chain whose UTXO set the cache stands for.
Standing == IF status = "replay" THEN Upto(best, upto) ELSE chain

\* One entry of the cache (e), over the row on disk (r), for the chain s; u is
\* what the UTXO set of s has.  With the write queue (a) the disk is behind,
\* and a row that is spent may come back into the cache from it.
Entry(a, o, e, r, d, s, u) ==
    /\ e.fresh => e.modified
    /\ e.at \in {"none", "nil"} => ~ e.modified
    /\ e.at = "none" => (a /\ u = 0) \/ r = u
    /\ e.at = "nil" => u = 0 /\ (a \/ r = 0)
    /\ e.at = "live" =>
          /\ e.height # 0 /\ u \in {0, e.height}
          /\ e.modified => u = e.height /\ (a \/ o \in d)
          /\ \A i \in DOMAIN s : s[i].create = o => e.height = i
          /\ a \/ ~ e.modified => a \/ r = u
          /\ a \/ o \notin SpentBy(s)
          /\ e.fresh => a \/ r = 0
    /\ e.at = "spent" => ~ a /\ u = 0 /\ e.modified /\ ~ e.fresh /\ o \in d

CacheOK(a, c, r, d, s) == \A o \in Outs : Entry(a, o, c[o], r[o], d, s, Utxo(s)[o])

\* What takeDelta hands over for block b at height i.
Delta(b, i) ==
    [o \in Outs |-> IF o = b.spend THEN 0 ELSE IF o = b.create THEN i ELSE Keep]

Queued ==
    /\ ~ async => best = chain /\ pending = <<>>
    /\ async => /\ marker = best /\ status = "up" /\ dirty = {}
                /\ Len(chain) = Len(best) + Len(pending)
    /\ \A k \in 1 .. Len(pending) :
          /\ pending[k].state = Upto(chain, Len(best) + k)
          /\ pending[k].delta = Delta(chain[Len(best) + k], Len(best) + k)

Chains ==
    /\ Valid(chain)
    /\ Prefix(best, chain) /\ Prefix(marker, best)
    /\ status # "failed"
    /\ status = "replay" => upto \in Len(marker) .. Len(best) - 1

DiskRight == disk = Utxo(marker)

\* With the write queue on, no lookup has brought a spent entry back.
NotBack ==
    async /\ "reread" \notin events =>
        \A o \in Outs : cache[o].at = "live" => o \notin SpentBy(chain)

\* While neither mishap has happened:
UtxoInv ==
    /\ TypeOK
    /\ Chains
    /\ Queued
    /\ DiskRight
    /\ NotBack
    /\ CacheOK(async, cache, disk, dirty, Standing)

-----------------------------------------------------------------------------
(* Chains and their UTXO sets.                                             *)

LEMMA LeastNumber ==
    ASSUME NEW S \in SUBSET Nat, S # {}
    PROVE  \E m \in S : \A n \in S : m <= n
  <1>1. \E x \in S : \A y \in S : ~ (<<y, x>> \in OpToRel(<, Nat))
    BY WFMin, NatLessThanWellFounded, Zenon
  <1>2. PICK x \in S : \A y \in S : ~ (<<y, x>> \in OpToRel(<, Nat))
    BY <1>1, Zenon
  <1>3. \A y \in S : ~ (y < x)
    BY <1>2 DEF OpToRel
  <1> QED
    BY <1>3

\* A set of numbers up to n has a last one.
LEMMA LastNumber ==
    ASSUME NEW n \in Nat, NEW w \in SUBSET (1 .. n), w # {}
    PROVE  LastOf(w) \in w /\ \A j \in w : j <= LastOf(w)
  <1>1. PICK r \in {n - k : k \in w} : \A q \in {n - k : k \in w} : r <= q
    <2> DEFINE R == {n - k : k \in w}
    <2>1. R \in SUBSET Nat
      OBVIOUS
    <2>2. R # {}
      <3>1. PICK k \in w : TRUE
        OBVIOUS
      <3>2. n - k \in R
        OBVIOUS
      <3> QED
        BY <3>2
    <2>3. \E m \in R : \A q \in R : m <= q
      <3> HIDE DEF R
      <3> QED
        BY <2>1, <2>2, LeastNumber
    <2> QED
      BY <2>3
  <1>2. PICK m \in w : r = n - m
    BY <1>1
  <1>3. ASSUME NEW j \in w PROVE j <= m
    <2>1. r <= n - j
      BY <1>1
    <2> QED
      BY <2>1, <1>2
  <1> QED
    BY <1>2, <1>3 DEF LastOf

LEMMA UptoFacts ==
    ASSUME NEW s \in Seq(Blocks), NEW n \in 0 .. Len(s)
    PROVE  /\ Upto(s, n) \in Seq(Blocks) /\ Len(Upto(s, n)) = n
           /\ \A i \in 1 .. n : Upto(s, n)[i] = s[i]
  <1>1. \A i \in 1 .. n : s[i] \in Blocks
    OBVIOUS
  <1> QED
    BY <1>1, SubSeqProperties DEF Upto

\* Two chains are equal when their blocks are.
LEMMA SameChain ==
    ASSUME NEW s \in Seq(Blocks), NEW t \in Seq(Blocks), Len(s) = Len(t),
           \A i \in 1 .. Len(s) : s[i] = t[i]
    PROVE  s = t
  OBVIOUS

LEMMA PrefixFacts ==
    ASSUME NEW s \in Seq(Blocks), NEW t \in Seq(Blocks)
    PROVE  Prefix(s, t) <=> Len(s) <= Len(t) /\ \A i \in 1 .. Len(s) : s[i] = t[i]
  <1>1. ASSUME Len(s) <= Len(t)
        PROVE  /\ SubSeq(t, 1, Len(s)) \in Seq(Blocks)
               /\ Len(SubSeq(t, 1, Len(s))) = Len(s)
               /\ \A i \in 1 .. Len(s) : SubSeq(t, 1, Len(s))[i] = t[i]
    <2>1. Len(s) \in 0 .. Len(t)
      BY <1>1
    <2> QED
      BY <2>1, UptoFacts DEF Upto
  <1>2. ASSUME Prefix(s, t)
        PROVE  Len(s) <= Len(t) /\ \A i \in 1 .. Len(s) : s[i] = t[i]
    BY <1>1, <1>2 DEF Prefix
  <1>3. ASSUME Len(s) <= Len(t), \A i \in 1 .. Len(s) : s[i] = t[i]
        PROVE  Prefix(s, t)
    <2>1. SubSeq(t, 1, Len(s)) = s
      BY <1>1, <1>3, SameChain
    <2> QED
      BY <1>3, <2>1 DEF Prefix
  <1> QED
    BY <1>2, <1>3

LEMMA AppendFacts ==
    ASSUME NEW s \in Seq(Blocks), NEW b \in Blocks
    PROVE  /\ Append(s, b) \in Seq(Blocks) /\ Len(Append(s, b)) = Len(s) + 1
           /\ \A i \in 1 .. Len(s) : Append(s, b)[i] = s[i]
           /\ Append(s, b)[Len(s) + 1] = b
           /\ Upto(Append(s, b), Len(s)) = s
           /\ Prefix(s, Append(s, b))
  <1>1. /\ Append(s, b) \in Seq(Blocks) /\ Len(Append(s, b)) = Len(s) + 1
        /\ \A i \in 1 .. Len(s) : Append(s, b)[i] = s[i]
        /\ Append(s, b)[Len(s) + 1] = b
    OBVIOUS
  <1>2. Prefix(s, Append(s, b))
    <2>1. PICK t \in Seq(Blocks) : t = Append(s, b)
      BY <1>1
    <2>2. Len(s) <= Len(t) /\ \A i \in 1 .. Len(s) : s[i] = t[i]
      BY <1>1, <2>1
    <2> QED
      BY <2>1, <2>2, PrefixFacts
  <1> QED
    BY <1>1, <1>2 DEF Prefix, Upto

\* A prefix of a valid chain is valid.
LEMMA PrefixValid ==
    ASSUME NEW s \in Seq(Blocks), NEW t \in Seq(Blocks), Prefix(s, t), Valid(t)
    PROVE  Valid(s)
  <1>1. Len(s) <= Len(t) /\ \A i \in 1 .. Len(s) : s[i] = t[i]
    BY PrefixFacts
  <1>2. SUFFICES ASSUME NEW i \in 1 .. Len(s) PROVE ValidAt(s, i)
    BY DEF Valid
  <1>3. /\ ValidAt(t, i) /\ s[i] = t[i] /\ \A j \in 1 .. i - 1 : s[j] = t[j]
    BY <1>1 DEF Valid
  <1> QED
    BY <1>3 DEF ValidAt

LEMMA CreatedSpent ==
    ASSUME NEW s \in Seq(Blocks), NEW o \in Outs
    PROVE  /\ o \in Created(s) <=> \E i \in 1 .. Len(s) : s[i].create = o
           /\ o \in SpentBy(s) <=> \E i \in 1 .. Len(s) : s[i].spend = o
  BY UtxoAssumption DEF Created, SpentBy

\* In a valid chain an output has one creator, and is spent after it.
LEMMA OneCreator ==
    ASSUME NEW s \in Seq(Blocks), Valid(s), NEW o \in Outs,
           NEW i \in 1 .. Len(s), s[i].create = o,
           NEW j \in 1 .. Len(s), s[j].create = o
    PROVE  i = j
  <1>1. ValidAt(s, i) /\ ValidAt(s, j) /\ o # None
    BY UtxoAssumption DEF Valid
  <1> QED
    BY <1>1 DEF ValidAt

LEMMA SpentIsCreated ==
    ASSUME NEW s \in Seq(Blocks), Valid(s), NEW o \in Outs,
           NEW i \in 1 .. Len(s), s[i].spend = o
    PROVE  \E j \in 1 .. i : s[j].create = o
  <1>1. ValidAt(s, i) /\ o # None
    BY UtxoAssumption DEF Valid
  <1> QED
    BY <1>1 DEF ValidAt

\* The row of an output.
LEMMA UtxoRow ==
    ASSUME NEW s \in Seq(Blocks), Valid(s), NEW o \in Outs
    PROVE  /\ Utxo(s)[o] \in 0 .. Len(s)
           /\ o \notin Created(s) \/ o \in SpentBy(s) => Utxo(s)[o] = 0
           /\ \A i \in 1 .. Len(s) :
                 s[i].create = o /\ o \notin SpentBy(s) => Utxo(s)[o] = i
           /\ Utxo(s)[o] # 0 =>
                 /\ o \in Created(s) /\ o \notin SpentBy(s)
                 /\ s[Utxo(s)[o]].create = o
  <1>1. ASSUME o \in Created(s) \ SpentBy(s)
        PROVE  /\ Utxo(s)[o] \in 1 .. Len(s) /\ s[Utxo(s)[o]].create = o
               /\ \A i \in 1 .. Len(s) : s[i].create = o => Utxo(s)[o] = i
    <2>1. \E i \in DOMAIN s : s[i].create = o
      BY <1>1, CreatedSpent
    <2>2. Utxo(s)[o] = CHOOSE i \in DOMAIN s : s[i].create = o
      BY <1>1 DEF Utxo
    <2>3. Utxo(s)[o] \in DOMAIN s /\ s[Utxo(s)[o]].create = o
      BY <2>1, <2>2
    <2> QED
      BY <2>3, OneCreator
  <1>2. ASSUME o \notin Created(s) \ SpentBy(s) PROVE Utxo(s)[o] = 0
    BY <1>2 DEF Utxo
  <1>3. ASSUME NEW i \in 1 .. Len(s), s[i].create = o PROVE o \in Created(s)
    BY <1>3, CreatedSpent
  <1> QED
    BY <1>1, <1>2, <1>3

\* Blocks that do not touch an output leave its row alone.
LEMMA Untouched ==
    ASSUME NEW t \in Seq(Blocks), Valid(t), NEW s \in Seq(Blocks), Prefix(s, t),
           NEW o \in Outs,
           \A i \in Len(s) + 1 .. Len(t) : t[i].spend # o /\ t[i].create # o
    PROVE  Utxo(t)[o] = Utxo(s)[o]
  <1>1. Len(s) <= Len(t) /\ \A i \in 1 .. Len(s) : s[i] = t[i]
    BY PrefixFacts
  <1>2. Valid(s)
    BY PrefixValid
  <1>3. \A i \in 1 .. Len(t) : i \in 1 .. Len(s) \/ i \in Len(s) + 1 .. Len(t)
    BY <1>1
  <1>4. o \in Created(t) <=> o \in Created(s)
    BY <1>1, <1>3, CreatedSpent
  <1>5. o \in SpentBy(t) <=> o \in SpentBy(s)
    BY <1>1, <1>3, CreatedSpent
  <1>6. CASE o \in Created(s) \ SpentBy(s)
    <2>1. PICK i \in 1 .. Len(s) : s[i].create = o
      BY <1>6, CreatedSpent
    <2>2. i \in 1 .. Len(t) /\ t[i].create = o
      BY <2>1, <1>1
    <2> QED
      BY <2>1, <2>2, <1>2, <1>5, <1>6, UtxoRow
  <1>7. CASE o \notin Created(s) \ SpentBy(s)
    BY <1>2, <1>4, <1>5, <1>7, UtxoRow
  <1> QED
    BY <1>6, <1>7

\* A block that spends an unspent output and creates a new one keeps the chain
\* valid.
LEMMA BlockValid ==
    ASSUME NEW s \in Seq(Blocks), Valid(s), NEW b \in Blocks,
           b.create \notin Created(s),
           b.spend \notin {None, b.create} =>
              Utxo(s)[b.spend] # 0 /\ b.from = Utxo(s)[b.spend]
    PROVE  Valid(Append(s, b))
  <1>1. PICK t \in Seq(Blocks) : t = Append(s, b)
    BY AppendFacts
  <1>2. /\ Len(t) = Len(s) + 1 /\ \A i \in 1 .. Len(s) : t[i] = s[i]
        /\ t[Len(s) + 1] = b
    BY <1>1, AppendFacts
  <1>3. ASSUME NEW i \in 1 .. Len(s) PROVE ValidAt(t, i)
    <2>1. ValidAt(s, i) /\ s[i] = t[i] /\ \A j \in 1 .. i - 1 : s[j] = t[j]
      BY <1>2 DEF Valid
    <2> QED
      BY <2>1 DEF ValidAt
  <1>4. ValidAt(t, Len(s) + 1)
    <2>1. b.create # None => \A j \in 1 .. Len(s) : t[j].create # b.create
      BY ZenonT(30), <1>2, CreatedSpent DEF Blocks
    <2>2. ASSUME b.spend \notin {None, b.create}
          PROVE  /\ b.from \in 1 .. Len(s) /\ t[b.from].create = b.spend
                 /\ \A j \in 1 .. Len(s) : t[j].spend # b.spend
      <3>1. b.spend \in Outs
        BY <2>2 DEF Blocks
      <3>2. /\ Utxo(s)[b.spend] \in 1 .. Len(s)
            /\ s[Utxo(s)[b.spend]].create = b.spend /\ b.spend \notin SpentBy(s)
        BY <2>2, <3>1, UtxoRow
      <3> QED
        BY <1>2, <2>2, <3>1, <3>2, CreatedSpent
    <2> QED
      BY <1>2, <2>1, <2>2 DEF ValidAt
  <1> QED
    BY <1>1, <1>2, <1>3, <1>4 DEF Valid

\* The rows after a block, and the rows before it.
LEMMA BlockRows ==
    ASSUME NEW s \in Seq(Blocks), NEW t \in Seq(Blocks), Valid(t),
           Prefix(s, t), Len(t) = Len(s) + 1, NEW o \in Outs
    PROVE  /\ Utxo(t)[o] = IF o = t[Len(t)].spend THEN 0
                           ELSE IF o = t[Len(t)].create THEN Len(t)
                           ELSE Utxo(s)[o]
           /\ Utxo(s)[o] = IF o = t[Len(t)].create THEN 0
                           ELSE IF o = t[Len(t)].spend THEN t[Len(t)].from
                           ELSE Utxo(t)[o]
           /\ o = t[Len(t)].create => o \notin Created(s) /\ o \notin SpentBy(s)
           /\ o = t[Len(t)].spend /\ o # t[Len(t)].create => Utxo(s)[o] # 0
  <1>0. /\ Len(t) \in 1 .. Len(t) /\ Len(s) \in Nat /\ o # None
        /\ \A i \in 1 .. Len(t) : i \in 1 .. Len(s) \/ i = Len(t)
    BY UtxoAssumption
  <1>1. /\ \A i \in 1 .. Len(s) : s[i] = t[i] /\ i \in 1 .. Len(t)
    BY PrefixFacts
  <1>2. Valid(s) /\ ValidAt(t, Len(t))
    BY <1>0, PrefixValid DEF Valid
  <1>3. ASSUME o = t[Len(t)].create PROVE o \notin Created(s) /\ o \notin SpentBy(s)
    <2>1. \A j \in 1 .. Len(s) : s[j].create # o
      BY <1>0, <1>1, <1>2, <1>3 DEF ValidAt
    <2>2. o \notin Created(s)
      BY <2>1, CreatedSpent
    <2>3. ASSUME NEW i \in 1 .. Len(s), s[i].spend = o PROVE FALSE
      <3>1. PICK j \in 1 .. i : s[j].create = o
        BY <1>2, <2>3, SpentIsCreated
      <3> QED
        BY <2>1, <3>1
    <2> QED
      BY <2>2, <2>3, CreatedSpent
  <1>4. ASSUME o = t[Len(t)].spend PROVE Utxo(t)[o] = 0
    <2>1. o \in SpentBy(t)
      BY <1>0, <1>4, CreatedSpent
    <2> QED
      BY <2>1, UtxoRow
  <1>5. ASSUME o = t[Len(t)].create PROVE Utxo(s)[o] = 0
    BY <1>2, <1>3, <1>5, UtxoRow
  <1>6. ASSUME o = t[Len(t)].create, o # t[Len(t)].spend PROVE Utxo(t)[o] = Len(t)
    <2>1. o \notin SpentBy(s)
      BY <1>3, <1>6
    <2>2. o \notin SpentBy(t)
      BY <1>0, <1>1, <1>6, <2>1, CreatedSpent
    <2> QED
      BY <1>0, <1>6, <2>2, UtxoRow
  <1>7. ASSUME o = t[Len(t)].spend, o # t[Len(t)].create
        PROVE  Utxo(s)[o] = t[Len(t)].from /\ Utxo(s)[o] # 0
    <2>1. /\ t[Len(t)].from \in 1 .. Len(s) /\ t[t[Len(t)].from].create = o
          /\ \A j \in 1 .. Len(s) : t[j].spend # o
      BY <1>0, <1>2, <1>7 DEF ValidAt
    <2>2. s[t[Len(t)].from].create = o /\ \A j \in 1 .. Len(s) : s[j].spend # o
      BY <1>1, <2>1
    <2>3. o \notin SpentBy(s)
      BY <2>2, CreatedSpent
    <2>4. Utxo(s)[o] = t[Len(t)].from
      BY <1>2, <2>1, <2>2, <2>3, UtxoRow
    <2> QED
      BY <2>1, <2>4
  <1>8. ASSUME o # t[Len(t)].create, o # t[Len(t)].spend PROVE Utxo(t)[o] = Utxo(s)[o]
    <2>1. \A i \in Len(s) + 1 .. Len(t) : t[i].spend # o /\ t[i].create # o
      BY <1>0, <1>8
    <2> QED
      BY <2>1, Untouched
  <1> QED
    BY <1>3, <1>4, <1>5, <1>6, <1>7, <1>8

\* An output that is unspent at the end is unspent ever since it was created.
LEMMA UnspentBetween ==
    ASSUME NEW t \in Seq(Blocks), Valid(t), NEW m \in Seq(Blocks), Prefix(m, t),
           NEW s \in Seq(Blocks), Prefix(s, m), NEW o \in Outs,
           Utxo(s)[o] = Utxo(t)[o], Utxo(t)[o] # 0
    PROVE  Utxo(m)[o] = Utxo(t)[o]
  <1>1. /\ Len(s) <= Len(m) /\ \A i \in 1 .. Len(s) : s[i] = m[i]
        /\ Len(m) <= Len(t) /\ \A i \in 1 .. Len(m) : m[i] = t[i]
    BY PrefixFacts
  <1>2. Valid(m)
    BY PrefixValid
  <1>3. Valid(s)
    BY <1>2, PrefixValid
  <1>4. /\ Utxo(s)[o] \in 1 .. Len(s) /\ s[Utxo(s)[o]].create = o
        /\ o \notin SpentBy(t)
    BY <1>3, UtxoRow
  <1>5. o \notin SpentBy(m)
    BY <1>1, <1>4, CreatedSpent
  <1>6. Utxo(s)[o] \in 1 .. Len(m) /\ m[Utxo(s)[o]].create = o
    BY <1>1, <1>4
  <1> QED
    BY <1>2, <1>5, <1>6, UtxoRow

\* A row of a prefix is the height of the block that created the output.
LEMMA RowOfPrefix ==
    ASSUME NEW t \in Seq(Blocks), Valid(t), NEW s \in Seq(Blocks), Prefix(s, t),
           NEW o \in Outs
    PROVE  /\ Utxo(s)[o] \in 0 .. Len(t)
           /\ \A i \in 1 .. Len(t) : t[i].create = o /\ Utxo(s)[o] # 0 => Utxo(s)[o] = i
           /\ Utxo(s)[o] # 0 => Utxo(t)[o] \in {0, Utxo(s)[o]}
           /\ o \notin Created(t) => Utxo(s)[o] = 0
  <1>1. /\ Len(s) <= Len(t) /\ \A i \in 1 .. Len(s) : s[i] = t[i]
    BY PrefixFacts
  <1>2. Valid(s)
    BY PrefixValid
  <1>3. Utxo(s)[o] \in 0 .. Len(s)
    BY <1>2, UtxoRow
  <1>4. ASSUME Utxo(s)[o] # 0
        PROVE  Utxo(s)[o] \in 1 .. Len(t) /\ t[Utxo(s)[o]].create = o
    BY <1>1, <1>2, <1>3, <1>4, UtxoRow
  <1>5. ASSUME NEW i \in 1 .. Len(t), t[i].create = o, Utxo(s)[o] # 0
        PROVE  Utxo(s)[o] = i
    BY <1>4, <1>5, OneCreator
  <1>6. ASSUME Utxo(s)[o] # 0 PROVE Utxo(t)[o] \in {0, Utxo(s)[o]}
    <2>1. CASE o \in SpentBy(t)
      BY <2>1, UtxoRow
    <2>2. CASE o \notin SpentBy(t)
      BY <2>2, <1>4, <1>6, UtxoRow
    <2> QED
      BY <2>1, <2>2
  <1>7. ASSUME o \notin Created(t) PROVE Utxo(s)[o] = 0
    BY <1>4, <1>7, CreatedSpent
  <1> QED
    BY <1>1, <1>3, <1>5, <1>6, <1>7

-----------------------------------------------------------------------------
(* The operations of the cache.                                            *)

Near(c) == c \in [Outs -> Entries]

\* The same entry, in whichever map.
Alike(e, f) == /\ e.at = f.at /\ e.height = f.height
               /\ e.fresh = f.fresh /\ e.modified = f.modified

NewEntry(h) == [NoEntry EXCEPT !.at = "live", !.height = h,
                               !.fresh = TRUE, !.modified = TRUE]
SpentEntry(e) == [e EXCEPT !.at = "spent", !.modified = TRUE]

\* The rows are those of a chain that s goes on from.
Behind(r, s) == \E m \in Seq(Blocks) : Prefix(m, s) /\ r = Utxo(m)

LEMMA Bounds == MaxHeight \in Nat /\ Keep \notin Heights /\ 0 \in Heights
  BY UtxoAssumption DEF Keep, Heights

LEMMA EntryTypes ==
    /\ NoEntry \in Entries /\ NilEntry \in Entries
    /\ NoEntry.at = "none" /\ ~ NoEntry.far /\ ~ NoEntry.fresh /\ ~ NoEntry.modified
    /\ NilEntry.at = "nil" /\ ~ NilEntry.far /\ ~ NilEntry.fresh /\ ~ NilEntry.modified
    /\ \A h \in Heights : /\ Loaded(h) \in Entries /\ ~ Loaded(h).far
                          /\ ~ Loaded(h).fresh /\ ~ Loaded(h).modified
                          /\ h = 0 => Loaded(h).at = "nil"
                          /\ h # 0 => Loaded(h).at = "live" /\ Loaded(h).height = h
    /\ \A h \in Heights : /\ NewEntry(h) \in Entries /\ NewEntry(h).at = "live"
                          /\ NewEntry(h).height = h /\ NewEntry(h).fresh = TRUE
                          /\ NewEntry(h).modified = TRUE /\ NewEntry(h).far = FALSE
    /\ \A e \in Entries :
          /\ SpentEntry(e) \in Entries /\ SpentEntry(e).at = "spent"
          /\ SpentEntry(e).modified = TRUE
          /\ SpentEntry(e).fresh = e.fresh /\ SpentEntry(e).far = e.far
    /\ \A e \in Entries :
          /\ clearModified(e) \in Entries /\ clearModified(e).at = e.at
          /\ clearModified(e).height = e.height /\ clearModified(e).far = e.far
          /\ clearModified(e).fresh = FALSE /\ clearModified(e).modified = FALSE
  <1>1. NoEntry = [at |-> "none", height |-> 0, fresh |-> FALSE, modified |-> FALSE,
                   far |-> FALSE]
    BY DEF NoEntry
  <1>2. /\ NilEntry \in Entries /\ NilEntry.at = "nil" /\ NilEntry.far = FALSE
        /\ NilEntry.fresh = FALSE /\ NilEntry.modified = FALSE
    <2>1. NoEntry \in Entries
      BY <1>1, Bounds DEF Entries
    <2>2. NilEntry \in Entries
      BY <2>1 DEF NilEntry, Entries
    <2> QED
      BY <1>1, <2>2 DEF NilEntry
  <1>3. /\ Loaded(0) = NilEntry
        /\ \A h : h # 0 =>
              Loaded(h) = [at |-> "live", height |-> h, fresh |-> FALSE,
                           modified |-> FALSE, far |-> FALSE]
    BY DEF Loaded, NoEntry
  <1>4. /\ NoEntry \in Entries /\ NilEntry \in Entries
        /\ NoEntry.at = "none" /\ ~ NoEntry.far /\ ~ NoEntry.fresh /\ ~ NoEntry.modified
        /\ NilEntry.at = "nil" /\ ~ NilEntry.far /\ ~ NilEntry.fresh /\ ~ NilEntry.modified
    BY <1>1, <1>2, Bounds DEF Entries
  <1>5. ASSUME NEW h \in Heights
        PROVE  /\ Loaded(h) \in Entries /\ ~ Loaded(h).far
               /\ ~ Loaded(h).fresh /\ ~ Loaded(h).modified
               /\ h = 0 => Loaded(h).at = "nil"
               /\ h # 0 => Loaded(h).at = "live" /\ Loaded(h).height = h
    <2>1. CASE h = 0
      BY <1>3, <1>4, <2>1
    <2>2. CASE h # 0
      <3>1. Loaded(h) = [at |-> "live", height |-> h, fresh |-> FALSE,
                         modified |-> FALSE, far |-> FALSE]
        BY <1>3, <2>2
      <3> QED
        BY <3>1, <2>2 DEF Entries
    <2> QED
      BY <2>1, <2>2
  <1>6. ASSUME NEW h \in Heights
        PROVE  /\ NewEntry(h) \in Entries /\ NewEntry(h).at = "live"
               /\ NewEntry(h).height = h /\ NewEntry(h).fresh = TRUE
               /\ NewEntry(h).modified = TRUE /\ NewEntry(h).far = FALSE
    BY <1>1 DEF NewEntry, Entries
  <1>7. ASSUME NEW e \in Entries
        PROVE  /\ SpentEntry(e) \in Entries /\ SpentEntry(e).at = "spent"
               /\ SpentEntry(e).modified = TRUE
               /\ SpentEntry(e).fresh = e.fresh /\ SpentEntry(e).far = e.far
    BY DEF SpentEntry, Entries
  <1>8. ASSUME NEW e \in Entries
        PROVE  /\ clearModified(e) \in Entries /\ clearModified(e).at = e.at
               /\ clearModified(e).height = e.height /\ clearModified(e).far = e.far
               /\ clearModified(e).fresh = FALSE /\ clearModified(e).modified = FALSE
    BY DEF clearModified, Entries
  <1> QED
    BY <1>4, <1>5, <1>6, <1>7, <1>8

LEMMA PutHere ==
    ASSUME NEW c, Near(c), NEW o \in Outs, NEW e \in Entries
    PROVE  /\ Near(put(c, o, e)) /\ Alike(put(c, o, e)[o], e)
           /\ \A x \in Outs \ {o} : put(c, o, e)[x] = c[x]
  <1>1. PICK f \in BOOLEAN : f = IF InCache(c, o) THEN c[o].far ELSE ~ Room(c)
    <2>1. c[o].far \in BOOLEAN
      BY DEF Near, Entries
    <2>2. (~ Room(c)) \in BOOLEAN
      BY Zenon DEF Room
    <2> QED
      BY Zenon, <2>1, <2>2
  <1>2. PICK g : g = [e EXCEPT !.far = f]
    OBVIOUS
  <1>3. g \in Entries /\ Alike(g, e)
    BY <1>2 DEF Entries, Alike
  <1>4. put(c, o, e) = [c EXCEPT ![o] = g]
    BY <1>1, <1>2 DEF put
  <1> QED
    BY <1>3, <1>4 DEF Near

LEMMA FetchHere ==
    ASSUME disk \in [Outs -> Heights], NEW c, Near(c), NEW o \in Outs
    PROVE  /\ Near(fetchEntries(c, o))
           /\ InCache(c, o) => fetchEntries(c, o) = c
           /\ ~ InCache(c, o) => Alike(fetchEntries(c, o)[o], Loaded(disk[o]))
           /\ \A x \in Outs \ {o} : fetchEntries(c, o)[x] = c[x]
  <1>1. Loaded(disk[o]) \in Entries
    BY EntryTypes
  <1> QED
    BY <1>1, PutHere DEF fetchEntries

\* A lookup loads what the chain has, or what the queue has yet to delete.
LEMMA FetchKeeps ==
    ASSUME disk \in [Outs -> Heights], NEW c, Near(c), NEW o \in Outs,
           NEW a \in BOOLEAN, NEW d, NEW s \in Seq(Blocks), Valid(s),
           Behind(disk, s), CacheOK(a, c, disk, d, s)
    PROVE  /\ Near(fetchEntries(c, o))
           /\ CacheOK(a, fetchEntries(c, o), disk, d, s)
           /\ fetchEntries(c, o)[o].at # "none"
           /\ \A x \in Outs \ {o} : fetchEntries(c, o)[x] = c[x]
  <1>0. c \in [Outs -> Entries] /\ disk[o] \in Heights
    BY DEF Near
  <1>1. CASE InCache(c, o)
    <2>1. fetchEntries(c, o) = c /\ c[o].at # "none"
      BY <1>1, FetchHere DEF InCache
    <2> QED
      BY <2>1
  <1>2. CASE ~ InCache(c, o)
    <2>1. PICK f : f = fetchEntries(c, o)
      OBVIOUS
    <2>2. PICK e : e = f[o]
      OBVIOUS
    <2>3. Alike(e, Loaded(disk[o])) /\ c[o].at = "none" /\ Near(f)
      BY <1>2, <2>1, <2>2, FetchHere DEF InCache
    <2>4. f[o] = e /\ \A x \in Outs \ {o} : f[x] = c[x]
      BY <2>1, <2>2, <1>0, FetchHere
    <2>5. /\ e.fresh = FALSE /\ e.modified = FALSE
          /\ disk[o] = 0 => e.at = "nil"
          /\ disk[o] # 0 => e.at = "live" /\ e.height = disk[o]
      <3>1. PICK l \in Entries : l = Loaded(disk[o])
        BY <1>0, EntryTypes
      <3>2. /\ ~ l.fresh /\ ~ l.modified /\ l.fresh \in BOOLEAN /\ l.modified \in BOOLEAN
            /\ disk[o] = 0 => l.at = "nil"
            /\ disk[o] # 0 => l.at = "live" /\ l.height = disk[o]
        BY <1>0, <3>1, EntryTypes DEF Entries
      <3> QED
        BY <2>3, <3>1, <3>2 DEF Alike
    <2>6. PICK u : u = Utxo(s)[o]
      OBVIOUS
    <2>7. (a /\ u = 0) \/ disk[o] = u
      BY <2>3, <2>6 DEF Entry, CacheOK
    <2>8. /\ \A i \in DOMAIN s : s[i].create = o /\ disk[o] # 0 => disk[o] = i
          /\ u # 0 => o \notin SpentBy(s)
      BY <2>6, RowOfPrefix, UtxoRow DEF Behind
    <2>9. Entry(a, o, f[o], disk[o], d, s, Utxo(s)[o])
      BY <2>4, <2>5, <2>6, <2>7, <2>8 DEF Entry
    <2>10. \A x \in Outs : Entry(a, x, f[x], disk[x], d, s, Utxo(s)[x])
      BY <2>4, <2>9 DEF CacheOK
    <2> QED
      BY <2>1, <2>3, <2>4, <2>5, <2>10 DEF CacheOK
  <1> QED
    BY <1>1, <1>2

LEMMA DeleteHere ==
    ASSUME NEW c, Near(c), NEW o \in Outs
    PROVE  /\ Near(delete(c, o)) /\ delete(c, o)[o] = NoEntry
           /\ \A x \in Outs \ {o} : delete(c, o)[x] = c[x]
  BY EntryTypes DEF Near, delete

LEMMA AddHere ==
    ASSUME NEW c, Near(c), NEW o \in Outs, NEW h \in Heights
    PROVE  /\ Near(addTxOut(c, o, h)) /\ Alike(addTxOut(c, o, h)[o], NewEntry(h))
           /\ \A x \in Outs \ {o} : addTxOut(c, o, h)[x] = c[x]
  <1>1. NewEntry(h) \in Entries
    BY EntryTypes
  <1>2. addTxOut(c, o, h) = put(c, o, NewEntry(h))
    BY DEF addTxOut, NewEntry
  <1> QED
    BY <1>1, <1>2, PutHere

LEMMA SpendHere ==
    ASSUME disk \in [Outs -> Heights], NEW c, Near(c), NEW o \in Outs
    PROVE  /\ Near(addTxIn(c, o))
           /\ addTxIn(c, o)[o] = IF fetchEntries(c, o)[o].fresh THEN NoEntry
                                 ELSE SpentEntry(fetchEntries(c, o)[o])
           /\ \A x \in Outs \ {o} : addTxIn(c, o)[x] = c[x]
  <1>1. PICK f : f = fetchEntries(c, o)
    OBVIOUS
  <1>2. Near(f) /\ f \in [Outs -> Entries] /\ c \in [Outs -> Entries]
    BY <1>1, FetchHere DEF Near
  <1>3. \A x \in Outs \ {o} : f[x] = c[x]
    BY <1>1, <1>2, FetchHere
  <1>4. CASE f[o].fresh
    <2>1. addTxIn(c, o) = delete(c, o)
      BY <1>1, <1>4 DEF addTxIn
    <2> QED
      BY <1>1, <1>4, <2>1, DeleteHere
  <1>5. CASE ~ f[o].fresh
    <2>1. addTxIn(c, o) = [f EXCEPT ![o] = SpentEntry(f[o])]
      BY <1>1, <1>2, <1>5 DEF addTxIn, SpentEntry
    <2>2. SpentEntry(f[o]) \in Entries
      BY <1>2, EntryTypes DEF Near
    <2>3. Near([f EXCEPT ![o] = SpentEntry(f[o])])
      BY <1>2, <2>2 DEF Near
    <2> QED
      BY <1>1, <1>2, <1>3, <1>5, <2>1, <2>3
  <1> QED
    BY <1>4, <1>5

\* What a block leaves in the cache.
LEMMA ConnectHere ==
    ASSUME disk \in [Outs -> Heights], NEW c, Near(c),
           NEW b \in Blocks, NEW h \in Heights
    PROVE  /\ Near(connectTransactions(c, b, h))
           /\ \A o \in Outs : o = b.spend \/ o # b.create =>
                connectTransactions(c, b, h)[o] =
                IF o = b.spend
                THEN IF b.create = o \/ fetchEntries(c, o)[o].fresh THEN NoEntry
                     ELSE SpentEntry(fetchEntries(c, o)[o])
                ELSE c[o]
           /\ \A o \in Outs : o # b.spend /\ o = b.create =>
                Alike(connectTransactions(c, b, h)[o], NewEntry(h))
  <1>0. /\ b.spend \in Outs \cup {None} /\ b.create \in Outs \cup {None}
        /\ None \notin Outs
    BY UtxoAssumption DEF Blocks
  <1>1. CASE b.create # None /\ b.create = b.spend
    <2>1. connectTransactions(c, b, h) = delete(c, b.create)
      BY <1>1 DEF connectTransactions
    <2> QED
      BY <1>0, <1>1, <2>1, DeleteHere
  <1>2. CASE ~ (b.create # None /\ b.create = b.spend)
    <2>1. PICK f : f = IF b.spend = None THEN c ELSE addTxIn(c, b.spend)
      OBVIOUS
    <2>2. connectTransactions(c, b, h) =
             IF b.create = None THEN f ELSE addTxOut(f, b.create, h)
      BY <1>2, <2>1 DEF connectTransactions
    <2>3. /\ Near(f)
          /\ \A o \in Outs : f[o] =
                IF o = b.spend
                THEN IF fetchEntries(c, o)[o].fresh THEN NoEntry
                     ELSE SpentEntry(fetchEntries(c, o)[o])
                ELSE c[o]
      <3>1. CASE b.spend = None
        BY <1>0, <2>1, <3>1
      <3>2. CASE b.spend # None
        BY SMTT(30), <1>0, <2>1, <3>2, SpendHere
      <3> QED
        BY <3>1, <3>2
    <2>4. CASE b.create = None
      BY <1>0, <1>2, <2>2, <2>3, <2>4
    <2>5. CASE b.create # None
      <3>1. /\ Near(addTxOut(f, b.create, h))
            /\ Alike(addTxOut(f, b.create, h)[b.create], NewEntry(h))
            /\ \A x \in Outs \ {b.create} : addTxOut(f, b.create, h)[x] = f[x]
        BY ZenonT(30), <1>0, <2>3, <2>5, AddHere
      <3> QED
        BY <1>0, <1>2, <2>2, <2>3, <2>5, <3>1
    <2> QED
      BY <2>4, <2>5
  <1> QED
    BY <1>1, <1>2

\* The entry that a valid block spends is unspent, at its height.
LEMMA InputFound ==
    ASSUME disk \in [Outs -> Heights], NEW c, Near(c), NEW o \in Outs,
           NEW a \in BOOLEAN, NEW d, NEW s \in Seq(Blocks), Valid(s),
           Behind(disk, s), CacheOK(a, c, disk, d, s), Utxo(s)[o] # 0
    PROVE  LET e == fetchEntries(c, o)[o] IN
           /\ e \in Entries /\ e.at = "live" /\ e.height = Utxo(s)[o]
           /\ e.fresh => a \/ disk[o] = 0
  <1>1. PICK f : f = fetchEntries(c, o)
    OBVIOUS
  <1>2. Near(f) /\ CacheOK(a, f, disk, d, s) /\ f[o].at # "none"
    BY <1>1, FetchKeeps
  <1>3. f[o] \in Entries /\ Entry(a, o, f[o], disk[o], d, s, Utxo(s)[o])
    BY <1>2 DEF Near, CacheOK
  <1>4. f[o].at \in {"none", "nil", "live", "spent"}
    BY <1>3 DEF Entries
  <1>5. f[o].at = "live"
    BY <1>2, <1>3, <1>4 DEF Entry
  <1> QED
    BY <1>1, <1>3, <1>5 DEF Entry

\* An output the new block does not touch.
LEMMA OtherEntry ==
    ASSUME NEW s \in Seq(Blocks), NEW t \in Seq(Blocks), Prefix(s, t),
           Len(t) = Len(s) + 1, NEW o \in Outs, NEW a \in BOOLEAN, NEW e, NEW r,
           NEW d, NEW dd, o \in d => o \in dd, NEW u,
           o # t[Len(t)].spend, o # t[Len(t)].create,
           Entry(a, o, e, r, d, s, u)
    PROVE  Entry(a, o, e, r, dd, t, u)
  <1>1. \A i \in 1 .. Len(s) : s[i] = t[i]
    BY PrefixFacts
  <1>2. \A i \in 1 .. Len(t) : i \in 1 .. Len(s) \/ i = Len(t)
    OBVIOUS
  <1>3. \A i \in DOMAIN t : t[i].create = o => i \in DOMAIN s /\ s[i].create = o
    BY <1>1, <1>2
  <1>4. o \in SpentBy(t) => o \in SpentBy(s)
    BY <1>1, <1>2, CreatedSpent
  <1> QED
    BY <1>3, <1>4 DEF Entry

\* The output the new block creates.
LEMMA CreatedEntry ==
    ASSUME NEW s \in Seq(Blocks), NEW t \in Seq(Blocks), Valid(t), Prefix(s, t),
           Len(t) = Len(s) + 1, Len(t) \in Heights, NEW o \in Outs,
           NEW a \in BOOLEAN, NEW r, a \/ r = 0, NEW d, a \/ o \in d,
           o # t[Len(t)].spend, o = t[Len(t)].create,
           NEW e, Alike(e, NewEntry(Len(t)))
    PROVE  Entry(a, o, e, r, d, t, Utxo(t)[o])
  <1>1. Utxo(t)[o] = Len(t) /\ Len(t) # 0 /\ Len(t) \in 1 .. Len(t)
    BY BlockRows
  <1>2. o \notin SpentBy(t)
    BY <1>1, UtxoRow
  <1>3. \A i \in DOMAIN t : t[i].create = o => Len(t) = i
    BY <1>1, OneCreator
  <1>5. /\ e.at = "live" /\ e.height = Len(t) /\ e.fresh = TRUE /\ e.modified = TRUE
    BY EntryTypes DEF Alike
  <1> QED
    BY <1>1, <1>2, <1>3, <1>5 DEF Entry

\* A row that is not there for an output that is not there.
LEMMA AbsentRow ==
    ASSUME NEW s \in Seq(Blocks), Valid(s), NEW r, Behind(r, s), NEW o \in Outs,
           o \notin Created(s)
    PROVE  r[o] = 0
  BY RowOfPrefix DEF Behind

LEMMA NoEntryOK ==
    ASSUME NEW a \in BOOLEAN, NEW o, NEW r, NEW d, NEW s, NEW u,
           (a /\ u = 0) \/ r = u
    PROVE  Entry(a, o, NoEntry, r, d, s, u)
  BY EntryTypes DEF Entry

\* Connecting a block on a node that prunes, or replaying it.
LEMMA SyncConnect ==
    ASSUME disk \in [Outs -> Heights], NEW c, Near(c),
           NEW s \in Seq(Blocks), NEW t \in Seq(Blocks), Valid(t), Prefix(s, t),
           Len(t) = Len(s) + 1, Len(t) \in Heights, NEW b \in Blocks, b = t[Len(t)],
           Behind(disk, s), CacheOK(FALSE, c, disk, dirty, s)
    PROVE  /\ Near(connectTransactions(c, b, Len(t)))
           /\ CacheOK(FALSE, connectTransactions(c, b, Len(t)), disk, Dirtied(c, b), t)
           /\ b.spend \notin {None, b.create} =>
                 fetchEntries(c, b.spend)[b.spend].at # "nil"
  <1>0. /\ b.spend \in Outs \cup {None} /\ b.create \in Outs \cup {None}
        /\ None \notin Outs /\ Valid(s)
    BY UtxoAssumption, PrefixValid DEF Blocks
  <1>1. PICK g : g = connectTransactions(c, b, Len(t))
    OBVIOUS
  <1>2. PICK dd : dd = Dirtied(c, b)
    OBVIOUS
  <1>3. /\ Near(g)
        /\ \A o \in Outs : o = b.spend \/ o # b.create => g[o] =
                IF o = b.spend
                THEN IF b.create = o \/ fetchEntries(c, o)[o].fresh THEN NoEntry
                     ELSE SpentEntry(fetchEntries(c, o)[o])
                ELSE c[o]
        /\ \A o \in Outs : o # b.spend /\ o = b.create => Alike(g[o], NewEntry(Len(t)))
    BY <1>1, ConnectHere
  <1>4. /\ \A o \in dirty : o # b.spend => o \in dd
        /\ b.create \in Outs /\ b.create # b.spend => b.create \in dd
        /\ b.spend \in Outs /\ b.create # b.spend
           /\ ~ fetchEntries(c, b.spend)[b.spend].fresh => b.spend \in dd
    BY <1>0, <1>2 DEF Dirtied
  <1>5. ASSUME NEW o \in Outs, o = b.spend, o # b.create
        PROVE  LET e == fetchEntries(c, o)[o] IN
               /\ e \in Entries /\ e.at = "live"
               /\ e.fresh => disk[o] = 0
    <2>1. Utxo(s)[o] # 0
      BY <1>5, BlockRows
    <2> QED
      BY <1>0, <2>1, InputFound
  <1>6. ASSUME NEW o \in Outs PROVE Entry(FALSE, o, g[o], disk[o], dd, t, Utxo(t)[o])
    <2>1. CASE o = b.spend /\ o = b.create
      <3>1. o \notin Created(s) /\ Utxo(t)[o] = 0
        BY <2>1, BlockRows
      <3>2. disk[o] = 0 /\ g[o] = NoEntry
        BY <1>0, <1>3, <2>1, <3>1, AbsentRow
      <3> QED
        BY <3>1, <3>2, NoEntryOK
    <2>2. CASE o = b.spend /\ o # b.create
      <3>1. Utxo(t)[o] = 0
        BY <2>2, BlockRows
      <3>2. PICK e : e = fetchEntries(c, o)[o]
        OBVIOUS
      <3>3. e \in Entries /\ (e.fresh => disk[o] = 0)
        BY <1>5, <2>2, <3>2
      <3>4. CASE e.fresh
        <4>1. g[o] = NoEntry /\ disk[o] = 0
          BY <1>3, <2>2, <3>2, <3>3, <3>4
        <4> QED
          BY <3>1, <4>1, NoEntryOK
      <3>5. CASE ~ e.fresh
        <4>1. PICK f : f = SpentEntry(e)
          OBVIOUS
        <4>2. g[o] = f
          BY <1>3, <2>2, <3>2, <3>5, <4>1
        <4>3. f.at = "spent" /\ f.modified = TRUE /\ f.fresh = e.fresh
          BY <3>3, <4>1, EntryTypes
        <4>4. o \in dd
          BY <1>4, <2>2, <3>2, <3>5
        <4> QED
          BY <3>1, <3>3, <3>5, <4>2, <4>3, <4>4 DEF Entry
      <3> QED
        BY <3>4, <3>5
    <2>3. CASE o # b.spend /\ o = b.create
      <3>1. o \notin Created(s)
        BY <2>3, BlockRows
      <3>2. disk[o] = 0 /\ Alike(g[o], NewEntry(Len(t))) /\ o \in dd
        BY <1>0, <1>3, <1>4, <2>3, <3>1, AbsentRow
      <3> QED
        BY <2>3, <3>2, CreatedEntry
    <2>4. CASE o # b.spend /\ o # b.create
      <3>1. g[o] = c[o] /\ (o \in dirty => o \in dd)
        BY <1>3, <1>4, <2>4
      <3>2. Utxo(t)[o] = Utxo(s)[o]
        BY <2>4, BlockRows
      <3>3. Entry(FALSE, o, c[o], disk[o], dirty, s, Utxo(s)[o])
        BY DEF CacheOK
      <3> QED
        BY <2>4, <3>1, <3>2, <3>3, OtherEntry
    <2> QED
      BY <2>1, <2>2, <2>3, <2>4
  <1> QED
    BY <1>0, <1>1, <1>2, <1>3, <1>5, <1>6 DEF CacheOK

\* An entry that is live after the block was so before, or is the new one.
LiveFrom(f, c, b) ==
    \A o \in Outs : f[o].at = "live" => o # b.spend /\ (o = b.create \/ c[o].at = "live")

\* Connecting a block with the write queue on: what it spends is dropped.
LEMMA AsyncConnect ==
    ASSUME disk \in [Outs -> Heights], NEW c, Near(c),
           NEW s \in Seq(Blocks), NEW t \in Seq(Blocks), Valid(t), Prefix(s, t),
           Len(t) = Len(s) + 1, Len(t) \in Heights, NEW b \in Blocks, b = t[Len(t)],
           Behind(disk, s), CacheOK(TRUE, c, disk, {}, s),
           NEW g, g = connectTransactions(c, b, Len(t)),
           NEW f, f = IF b.spend = None THEN g ELSE delete(g, b.spend)
    PROVE  /\ Near(f) /\ CacheOK(TRUE, f, disk, {}, t)
           /\ takeDelta(g, b) = Delta(b, Len(t))
           /\ LiveFrom(f, c, b)
  <1>0. /\ b.spend \in Outs \cup {None} /\ b.create \in Outs \cup {None}
        /\ None \notin Outs /\ Valid(s)
    BY UtxoAssumption, PrefixValid DEF Blocks
  <1>1. /\ Near(g)
        /\ \A o \in Outs : o # b.spend /\ o # b.create => g[o] = c[o]
        /\ \A o \in Outs : o # b.spend /\ o = b.create => Alike(g[o], NewEntry(Len(t)))
    BY ConnectHere
  <1>2. /\ Near(f)
        /\ \A o \in Outs : /\ o = b.spend => f[o] = NoEntry
                           /\ o # b.spend /\ o # b.create => f[o] = c[o]
                           /\ o # b.spend /\ o = b.create => Alike(f[o], NewEntry(Len(t)))
    <2>1. CASE b.spend = None
      BY <1>0, <1>1, <2>1
    <2>2. CASE b.spend # None
      <3>1. f = delete(g, b.spend) /\ b.spend \in Outs
        BY <1>0, <2>2
      <3>2. /\ Near(f) /\ f[b.spend] = NoEntry
            /\ \A x \in Outs \ {b.spend} : f[x] = g[x]
        BY <1>1, <3>1, DeleteHere
      <3> QED
        BY <1>1, <3>2
    <2> QED
      BY <2>1, <2>2
  <1>3. ASSUME NEW o \in Outs PROVE Entry(TRUE, o, f[o], disk[o], {}, t, Utxo(t)[o])
    <2>1. CASE o = b.spend
      <3>1. Utxo(t)[o] = 0 /\ f[o] = NoEntry
        BY <1>2, <2>1, BlockRows
      <3> QED
        BY <3>1, NoEntryOK
    <2>2. CASE o # b.spend /\ o = b.create
      <3>1. Alike(f[o], NewEntry(Len(t)))
        BY <1>2, <2>2
      <3> QED
        BY <2>2, <3>1, CreatedEntry
    <2>3. CASE o # b.spend /\ o # b.create
      <3>1. f[o] = c[o] /\ Utxo(t)[o] = Utxo(s)[o]
        BY <1>2, <2>3, BlockRows
      <3>2. Entry(TRUE, o, c[o], disk[o], {}, s, Utxo(s)[o])
        BY DEF CacheOK
      <3> QED
        BY <2>3, <3>1, <3>2, OtherEntry
    <2> QED
      BY <2>1, <2>2, <2>3
  <1>4. \A o \in Outs : o # b.spend /\ o = b.create => g[o].height = Len(t)
    BY <1>1, EntryTypes DEF Alike
  <1>5. takeDelta(g, b) = Delta(b, Len(t))
    BY <1>4 DEF takeDelta, Delta
  <1>6. \A o \in Outs : f[o].at = "live" => o # b.spend /\ (o = b.create \/ c[o].at = "live")
    BY <1>2, EntryTypes
  <1> QED
    BY <1>2, <1>3, <1>5, <1>6 DEF CacheOK, LiveFrom

-----------------------------------------------------------------------------
(* writeCache, and the batches of the write queue.                         *)

\* What is due on disk, for the flush to have the rows of the chain: the rows
\* of the chain with the write queue, the rows as they are without.
LEMMA RowIsRight ==
    ASSUME NEW c, Near(c), NEW r, NEW d, NEW s, NEW a \in BOOLEAN,
           CacheOK(a, c, r, d, s), NEW q, NEW o \in Outs,
           a => q[o] = Utxo(s)[o], ~ a => q[o] = r[o]
    PROVE  /\ Row(c, q, o) = Utxo(s)[o]
           /\ o \notin d \/ ~ InCache(c, o) => q[o] = Utxo(s)[o]
  <1>1. Entry(a, o, c[o], r[o], d, s, Utxo(s)[o])
    BY DEF CacheOK
  <1>2. c[o].at \in {"none", "nil", "live", "spent"}
    BY DEF Near, Entries
  <1> QED
    BY <1>1, <1>2 DEF Row, Entry, InCache

LEMMA FullHere ==
    ASSUME NEW c, Near(c), ~ Spills(c)
    PROVE  /\ Near(FullCache(c))
           /\ \A o \in Outs : FullCache(c)[o] =
                 IF Hot(c, o) THEN clearModified(c[o]) ELSE NoEntry
  <1>1. \A o \in Outs : c[o] \in Entries /\ clearModified(c[o]) \in Entries
    BY EntryTypes DEF Near
  <1>2. FullCache(c) = [o \in Outs |-> IF Hot(c, o) THEN clearModified(c[o]) ELSE NoEntry]
    BY DEF FullCache, Spills
  <1> QED
    BY <1>1, <1>2, EntryTypes DEF Near

\* An entry that was written and kept.
LEMMA KeptEntry ==
    ASSUME NEW a \in BOOLEAN, NEW o, NEW e \in Entries, NEW r, NEW d, NEW s, NEW u,
           Entry(a, o, e, r, d, s, u), e.at = "live"
    PROVE  Entry(a, o, clearModified(e), u, {}, s, u)
  <1>1. PICK f : f = clearModified(e)
    OBVIOUS
  <1>2. /\ f.at = "live" /\ f.height = e.height
        /\ f.fresh = FALSE /\ f.modified = FALSE
    BY <1>1, EntryTypes
  <1> QED
    BY <1>1, <1>2 DEF Entry

\* A full flush: the rows are those of the chain, and the entries that are
\* kept agree with them.
LEMMA FullFlush ==
    ASSUME NEW c, Near(c), NEW r, NEW d, NEW s, NEW a \in BOOLEAN,
           CacheOK(a, c, r, d, s), NEW q,
           a => \A o \in Outs : q[o] = Utxo(s)[o], ~ a => q = r, ~ Spills(c)
    PROVE  /\ FullRows(c, q) = Utxo(s)
           /\ Near(FullCache(c)) /\ CacheOK(a, FullCache(c), Utxo(s), {}, s)
  <1>1. \A o \in Outs : Row(c, q, o) = Utxo(s)[o]
    BY RowIsRight
  <1>2. FullRows(c, q) = Utxo(s)
    BY <1>1 DEF FullRows, Utxo
  <1>3. ASSUME NEW o \in Outs
        PROVE  Entry(a, o, FullCache(c)[o], Utxo(s)[o], {}, s, Utxo(s)[o])
    <2>1. c[o] \in Entries /\ Entry(a, o, c[o], r[o], d, s, Utxo(s)[o])
      BY DEF Near, CacheOK
    <2>2. CASE Hot(c, o)
      <3>1. FullCache(c)[o] = clearModified(c[o]) /\ c[o].at = "live"
        BY <2>2, FullHere DEF Hot
      <3> QED
        BY <2>1, <3>1, KeptEntry
    <2>3. CASE ~ Hot(c, o)
      <3>1. FullCache(c)[o] = NoEntry
        BY <2>3, FullHere
      <3> QED
        BY <3>1, NoEntryOK
    <2> QED
      BY <2>2, <2>3
  <1> QED
    BY <1>2, <1>3, FullHere DEF CacheOK

LEMMA SyncFlush ==
    ASSUME NEW c, Near(c), ~ Spills(c), NEW r, NEW d, NEW s, CacheOK(FALSE, c, r, d, s)
    PROVE  /\ FullRows(c, r) = Utxo(s)
           /\ Near(FullCache(c)) /\ CacheOK(FALSE, FullCache(c), Utxo(s), {}, s)
  BY FullFlush

\* An incremental one.
LEMMA DirtyFlush ==
    ASSUME NEW c, Near(c), NEW r, NEW s, NEW a \in BOOLEAN,
           CacheOK(a, c, r, dirty, s), NEW q,
           a => \A o \in Outs : q[o] = Utxo(s)[o], ~ a => q = r, a => dirty = {}
    PROVE  /\ DirtyRows(c, q) = Utxo(s)
           /\ Near(DirtyCache(c)) /\ CacheOK(a, DirtyCache(c), Utxo(s), {}, s)
  <1>1. \A o \in Outs : /\ Row(c, q, o) = Utxo(s)[o]
                        /\ o \notin dirty \/ ~ InCache(c, o) => q[o] = Utxo(s)[o]
    BY RowIsRight
  <1>2. DirtyRows(c, q) = Utxo(s)
    BY <1>1 DEF DirtyRows, Utxo
  <1>3. ASSUME NEW o \in Outs
        PROVE  /\ DirtyCache(c)[o] \in Entries
               /\ Entry(a, o, DirtyCache(c)[o], Utxo(s)[o], {}, s, Utxo(s)[o])
    <2>1. /\ c[o] \in Entries /\ Entry(a, o, c[o], r[o], dirty, s, Utxo(s)[o])
          /\ c[o].at \in {"none", "nil", "live", "spent"}
      BY DEF Near, CacheOK, Entries
    <2>2. CASE o \notin dirty
      <3>1. DirtyCache(c)[o] = c[o]
        BY <2>2 DEF DirtyCache
      <3>2. Entry(a, o, c[o], Utxo(s)[o], {}, s, Utxo(s)[o])
        BY <2>1, <2>2 DEF Entry
      <3> QED
        BY <2>1, <3>1, <3>2
    <2>3. CASE o \in dirty /\ c[o].at \in {"nil", "spent"}
      <3>1. DirtyCache(c)[o] = NoEntry
        BY <2>3 DEF DirtyCache
      <3> QED
        BY <3>1, NoEntryOK, EntryTypes
    <2>4. CASE o \in dirty /\ c[o].at \in {"none", "live"}
      <3>1. DirtyCache(c)[o] = clearModified(c[o])
        BY <2>4 DEF DirtyCache
      <3>2. PICK f : f = clearModified(c[o])
        OBVIOUS
      <3>3. /\ f \in Entries /\ f.at = c[o].at /\ f.height = c[o].height
            /\ f.fresh = FALSE /\ f.modified = FALSE
        BY <2>1, <3>2, EntryTypes
      <3>4. CASE c[o].at = "live"
        BY <2>1, <3>1, <3>2, <3>3, <3>4, KeptEntry
      <3>5. CASE c[o].at = "none"
        <4>1. Entry(a, o, f, Utxo(s)[o], {}, s, Utxo(s)[o])
          BY <2>1, <3>3, <3>5 DEF Entry
        <4> QED
          BY <2>1, <3>1, <3>2, <3>3, <4>1
      <3> QED
        BY <2>4, <3>4, <3>5
    <2> QED
      BY <2>1, <2>2, <2>3, <2>4
  <1>4. Near(DirtyCache(c))
    BY <1>3 DEF Near, DirtyCache
  <1> QED
    BY <1>2, <1>3, <1>4 DEF CacheOK

LEMMA UptoPrefix ==
    ASSUME NEW s \in Seq(Blocks), NEW n \in 0 .. Len(s), NEW k \in 0 .. n
    PROVE  /\ Upto(s, n) \in Seq(Blocks) /\ Len(Upto(s, n)) = n
           /\ \A i \in 1 .. n : Upto(s, n)[i] = s[i]
           /\ Prefix(Upto(s, n), s) /\ Prefix(Upto(s, k), Upto(s, n))
  <1>1. PICK m \in 0 .. Len(s) : m = k
    OBVIOUS
  <1>2. PICK t \in Seq(Blocks) : t = Upto(s, n)
    BY UptoFacts
  <1>3. Len(t) = n /\ \A i \in 1 .. n : t[i] = s[i]
    BY <1>2, UptoFacts
  <1>4. PICK r \in Seq(Blocks) : r = Upto(s, m)
    BY UptoFacts
  <1>5. Len(r) = m /\ \A i \in 1 .. m : r[i] = s[i]
    BY <1>4, UptoFacts
  <1>6. Prefix(t, s)
    BY SMTT(30), <1>3, PrefixFacts
  <1>7. Prefix(r, t)
    BY <1>1, <1>3, <1>5, PrefixFacts
  <1> QED
    BY <1>1, <1>2, <1>3, <1>4, <1>6, <1>7

LEMMA PrefixIsUpto ==
    ASSUME NEW s \in Seq(Blocks), NEW t \in Seq(Blocks), Prefix(s, t)
    PROVE  s = Upto(t, Len(s)) /\ Len(s) \in 0 .. Len(t)
  BY DEF Prefix, Upto

\* What the queue holds: an item per block of the chain above the disk's.
Items ==
    /\ Len(chain) = Len(best) + Len(pending)
    /\ \A k \in 1 .. Len(pending) :
          /\ pending[k].state = Upto(chain, Len(best) + k)
          /\ pending[k].delta = Delta(chain[Len(best) + k], Len(best) + k)

\* The rows after the first n pending items are those of the chain up to the
\* last of them.
LEMMA CommittedRows ==
    ASSUME TypeOK, Valid(chain), Prefix(best, chain), Items, disk = Utxo(best),
           NEW n \in 0 .. Len(pending)
    PROVE  /\ Len(best) + n \in 0 .. Len(chain)
           /\ Committed(n) = Utxo(Upto(chain, Len(best) + n))
           /\ StateAfter(n, best) = Upto(chain, Len(best) + n)
  <1>0. /\ chain \in Seq(Blocks) /\ best \in Seq(Blocks) /\ Len(chain) <= MaxHeight
        /\ Len(pending) \in Nat /\ Len(best) \in Nat /\ Len(best) + n \in 0 .. Len(chain)
        /\ MaxHeight \in Nat
    BY Bounds DEF TypeOK, Items
  <1>1. PICK t \in Seq(Blocks) : t = Upto(chain, Len(best) + n)
    BY <1>0, UptoPrefix
  <1>2. /\ Len(t) = Len(best) + n /\ \A i \in 1 .. Len(t) : t[i] = chain[i]
        /\ Prefix(t, chain) /\ Valid(t)
    BY SMTT(30), <1>0, <1>1, UptoPrefix, PrefixValid
  <1>3. ASSUME NEW k \in 1 .. n, NEW o \in Outs
        PROVE  /\ Len(best) + k \in 1 .. Len(t)
               /\ pending[k].delta[o] = IF o = t[Len(best) + k].spend THEN 0
                                        ELSE IF o = t[Len(best) + k].create THEN Len(best) + k
                                        ELSE Keep
               /\ 0 # Keep /\ Len(best) + k # Keep
    <2>1. /\ k \in 1 .. Len(pending) /\ Len(best) + k \in 1 .. Len(t)
          /\ 0 # Keep /\ Len(best) + k # Keep
      BY <1>0, <1>2 DEF Keep
    <2>2. pending[k].delta = Delta(chain[Len(best) + k], Len(best) + k)
      BY <2>1 DEF Items
    <2>3. t[Len(best) + k] = chain[Len(best) + k]
      BY <1>2, <2>1
    <2> QED
      BY <2>1, <2>2, <2>3 DEF Delta
  <1>4. ASSUME NEW o \in Outs PROVE Committed(n)[o] = Utxo(t)[o]
    <2>1. PICK w : w = Touching(n, o)
      OBVIOUS
    <2>2. /\ w \in SUBSET (1 .. n)
          /\ \A k \in 1 .. n : k \notin w =>
                t[Len(best) + k].spend # o /\ t[Len(best) + k].create # o
      BY <2>1, <1>3 DEF Touching
    <2>3. CASE w = {}
      <3>1. Committed(n)[o] = Utxo(best)[o]
        BY <2>1, <2>3 DEF Committed
      <3>2. Prefix(best, t)
        BY <1>0, <1>1, PrefixIsUpto, UptoPrefix
      <3>3. ASSUME NEW i \in Len(best) + 1 .. Len(t) PROVE t[i].spend # o /\ t[i].create # o
        <4>1. i - Len(best) \in 1 .. n /\ Len(best) + (i - Len(best)) = i
          BY <1>0, <1>2
        <4> QED
          BY <2>2, <2>3, <4>1
      <3> QED
        BY <1>0, <1>2, <3>1, <3>2, <3>3, Untouched
    <2>4. CASE w # {}
      <3>1. PICK k \in 1 .. n : k = LastOf(w) /\ k \in w /\ \A j \in w : j <= k
        <4>1. n \in Nat
          BY <1>0
        <4>2. LastOf(w) \in w /\ \A j \in w : j <= LastOf(w)
          BY <2>2, <2>4, <4>1, LastNumber
        <4> QED
          BY <2>2, <4>2
      <3>2. Committed(n)[o] = pending[k].delta[o]
        BY <2>1, <2>4, <3>1 DEF Committed
      <3>3. PICK h \in 0 .. Len(chain), g \in 0 .. Len(chain) :
               h = Len(best) + k /\ g = h - 1 /\ g \in 0 .. h
        BY SMTT(30), <1>0
      <3>4. PICK r \in Seq(Blocks) : r = Upto(chain, Len(best) + k)
        BY <1>0, <3>3, UptoPrefix
      <3>5. /\ Len(r) = Len(best) + k /\ \A i \in 1 .. Len(r) : r[i] = chain[i]
            /\ Prefix(r, chain) /\ Valid(r)
        BY ZenonT(30), <1>0, <3>3, <3>4, UptoPrefix, PrefixValid
      <3>6. PICK p \in Seq(Blocks) : p = Upto(chain, g)
        BY <1>0, UptoFacts
      <3>7. Len(p) = g /\ Prefix(p, r)
        <4>1. Len(p) = g /\ \A i \in 1 .. g : p[i] = chain[i]
          BY <1>0, <3>6, UptoFacts
        <4>2. g \in Nat /\ Len(r) = g + 1
          BY <1>0, <3>3, <3>5
        <4>3. \A i \in 1 .. g : p[i] = r[i]
          <5> SUFFICES ASSUME NEW i \in 1 .. g PROVE p[i] = r[i]
            OBVIOUS
          <5>1. i \in 1 .. Len(r)
            BY <4>2
          <5> QED
            BY <3>5, <4>1, <5>1
        <4> QED
          BY SMTT(30), <4>1, <4>2, <4>3, PrefixFacts
      <3>8. Utxo(r)[o] = IF o = r[Len(r)].spend THEN 0
                         ELSE IF o = r[Len(r)].create THEN Len(r)
                         ELSE Utxo(p)[o]
        BY <1>0, <3>3, <3>5, <3>7, BlockRows
      <3>9. /\ r[Len(r)] = t[Len(best) + k]
            /\ o = t[Len(best) + k].spend \/ o = t[Len(best) + k].create
        <4>1. pending[k].delta[o] # Keep
          BY <2>1, <3>1 DEF Touching
        <4> QED
          <5>1. r[Len(best) + k] = chain[Len(best) + k]
            BY <1>0, <3>5
          <5>2. t[Len(best) + k] = chain[Len(best) + k]
            BY <1>2, <1>3
          <5> QED
            BY <1>3, <3>5, <4>1, <5>1, <5>2
      <3>10. Utxo(r)[o] = pending[k].delta[o]
        BY <1>3, <3>5, <3>8, <3>9
      <3>11. Prefix(r, t)
        <4>1. Len(best) + k \in 0 .. Len(best) + n
          BY <1>0
        <4> QED
          BY <1>0, <1>1, <3>4, <4>1, UptoPrefix
      <3>12. ASSUME NEW i \in Len(r) + 1 .. Len(t) PROVE t[i].spend # o /\ t[i].create # o
        <4>1. i - Len(best) \in 1 .. n /\ Len(best) + (i - Len(best)) = i /\ i - Len(best) > k
          BY <1>0, <1>2, <3>5
        <4>2. i - Len(best) \notin w
          BY <3>1, <4>1
        <4> QED
          BY <2>2, <4>1, <4>2
      <3> QED
        BY <1>2, <3>2, <3>10, <3>11, <3>12, Untouched
    <2> QED
      BY <2>3, <2>4
  <1>5. Committed(n) = Utxo(t)
    BY <1>4 DEF Committed, Utxo
  <1>6. StateAfter(n, best) = t
    <2>1. CASE n = 0
      BY <1>0, <1>1, <2>1, PrefixIsUpto DEF StateAfter
    <2>2. CASE n # 0
      BY <1>0, <1>1, <2>2 DEF StateAfter, Items
    <2> QED
      BY <2>1, <2>2
  <1> QED
    BY <1>0, <1>1, <1>5, <1>6

-----------------------------------------------------------------------------
(* The steps.                                                              *)

LEMMA PrefixTrans ==
    ASSUME NEW s \in Seq(Blocks), NEW t \in Seq(Blocks), NEW u \in Seq(Blocks),
           Prefix(s, t), Prefix(t, u)
    PROVE  Prefix(s, u)
  <1>1. /\ Len(s) <= Len(t) /\ \A i \in 1 .. Len(s) : s[i] = t[i]
        /\ Len(t) <= Len(u) /\ \A i \in 1 .. Len(t) : t[i] = u[i]
    BY PrefixFacts
  <1>2. \A i \in 1 .. Len(s) : i \in 1 .. Len(t)
    BY <1>1
  <1> QED
    BY <1>1, <1>2, PrefixFacts

LEMMA PrefixSelf ==
    ASSUME NEW s \in Seq(Blocks)
    PROVE  Prefix(s, s) /\ (Prefix(s, <<>>) => s = <<>>) /\ Prefix(<<>>, s)
  <1>1. Prefix(s, s)
    BY PrefixFacts
  <1>2. Prefix(<<>>, s)
    BY DEF Prefix
  <1>3. Prefix(s, <<>>) => s = <<>>
    BY DEF Prefix
  <1> QED
    BY <1>1, <1>2, <1>3

LEMMA UtxoRows ==
    ASSUME NEW s \in Seq(Blocks), Valid(s), Len(s) <= MaxHeight
    PROVE  Utxo(s) \in [Outs -> Heights]
  <1>1. \A o \in Outs : Utxo(s)[o] \in Heights
    BY UtxoRow, Bounds DEF Heights
  <1> QED
    BY <1>1 DEF Utxo

LEMMA Facts ==
    ASSUME UtxoInv
    PROVE  /\ chain \in Seq(Blocks) /\ best \in Seq(Blocks) /\ marker \in Seq(Blocks)
           /\ Len(chain) <= MaxHeight /\ MaxHeight \in Nat
           /\ Len(best) <= Len(chain) /\ Len(marker) <= Len(best)
           /\ Valid(chain) /\ Valid(best) /\ Valid(marker)
           /\ Prefix(best, chain) /\ Prefix(marker, best) /\ Prefix(marker, chain)
           /\ Near(cache) /\ disk \in [Outs -> Heights] /\ async \in BOOLEAN
           /\ dirty \subseteq Outs /\ disk = Utxo(marker)
           /\ status # "replay" =>
                 /\ Behind(disk, chain)
                 /\ CacheOK(async, cache, disk, dirty, chain)
  <1>1. /\ chain \in Seq(Blocks) /\ best \in Seq(Blocks) /\ marker \in Seq(Blocks)
        /\ Len(chain) <= MaxHeight /\ MaxHeight \in Nat
        /\ disk \in [Outs -> Heights] /\ async \in BOOLEAN /\ dirty \subseteq Outs
        /\ cache \in [Outs -> Entries]
    BY UtxoAssumption DEF UtxoInv, TypeOK
  <1>2. /\ Valid(chain) /\ Prefix(best, chain) /\ Prefix(marker, best)
        /\ disk = Utxo(marker)
    BY DEF UtxoInv, Chains, DiskRight
  <1>3. Prefix(marker, chain) /\ Valid(best)
    BY <1>1, <1>2, PrefixTrans, PrefixValid
  <1>4. Valid(marker) /\ Len(best) <= Len(chain) /\ Len(marker) <= Len(best)
    BY <1>1, <1>2, <1>3, PrefixFacts, PrefixValid
  <1>5. Near(cache)
    BY <1>1 DEF Near
  <1>6. ASSUME status # "replay"
        PROVE  Behind(disk, chain) /\ CacheOK(async, cache, disk, dirty, chain)
    BY <1>1, <1>2, <1>3, <1>6 DEF UtxoInv, Standing, Behind
  <1> QED
    BY <1>1, <1>2, <1>3, <1>4, <1>5, <1>6

\* What a barrier leaves on disk.
LEMMA BarrierRows ==
    ASSUME UtxoInv
    PROVE  /\ async => Committed(Len(pending)) = Utxo(chain)
           /\ ~ async => Committed(Len(pending)) = disk
           /\ StateAfter(Len(pending), best) = chain
  <1>1. CASE async
    <2>1. Items /\ disk = Utxo(best) /\ TypeOK
      BY <1>1 DEF UtxoInv, Queued, Items, DiskRight
    <2>2. Len(pending) \in 0 .. Len(pending) /\ Len(best) + Len(pending) = Len(chain)
      BY <2>1 DEF Items, TypeOK
    <2>3. chain = Upto(chain, Len(chain))
      BY Facts, PrefixSelf, PrefixIsUpto
    <2> QED
      BY <1>1, <2>1, <2>2, <2>3, Facts, CommittedRows
  <1>2. CASE ~ async
    <2>1. pending = <<>> /\ best = chain /\ Len(pending) = 0
      BY <1>2 DEF UtxoInv, Queued
    <2>2. \A o \in Outs : Touching(0, o) = {}
      BY DEF Touching
    <2>3. Committed(0) = disk
      BY <2>2, Facts DEF Committed
    <2> QED
      BY <1>2, <2>1, <2>3 DEF StateAfter
  <1> QED
    BY <1>1, <1>2

\* The marks are only added, but for the one a crash takes back.
LEMMA SaneBefore ==
    ASSUME [Next]_vars, Sane'
    PROVE  Sane
  <1>1. SUFFICES events' = events \/ events \subseteq events' \/ events' = events \ {"reread"}
    BY DEF Sane
  <1>2. CASE UNCHANGED vars
    BY <1>2 DEF vars
  <1>3. CASE \E o \in Outs : Fetch(o)
    BY <1>3 DEF Fetch
  <1>4. CASE \E c \in Callers, spend, create \in Outs \cup {None} : Connect(c, spend, create)
    BY <1>4 DEF Connect
  <1>5. CASE \E c \in Callers : TailFlush(c)
    BY <1>5 DEF TailFlush, Flush
  <1>6. CASE \E c \in Callers : Disconnect(c)
    BY <1>6 DEF Disconnect
  <1>7. CASE FlushUtxoCache
    BY <1>7 DEF FlushUtxoCache, Flush
  <1>8. CASE BatchCommit
    BY <1>8 DEF BatchCommit
  <1>9. CASE Purge
    BY <1>9 DEF Purge
  <1>10. CASE Crash
    BY <1>10 DEF Crash
  <1>11. CASE Replay
    BY <1>11 DEF Replay
  <1> QED
    BY <1>2, <1>3, <1>4, <1>5, <1>6, <1>7, <1>8, <1>9, <1>10, <1>11 DEF Next

\* A step that spills nothing.
LEMMA NoSpill ==
    ASSUME Sane', NEW c, NEW w, events' = w \cup Spilled(c)
    PROVE  ~ Spills(c)
  BY DEF Sane, Spilled

LEMMA SpilledType == \A c : Spilled(c) \subseteq {"spilled", "outdated", "reread"}
  BY DEF Spilled

\* No step but a lookup and a new block makes an entry live.
LEMMA NothingBack ==
    ASSUME UtxoInv, async' = async, chain' = chain, events \subseteq events',
           \A o \in Outs : cache'[o].at = "live" => cache[o].at = "live"
    PROVE  NotBack'
  BY Zenon DEF NotBack, UtxoInv

LEMMA FetchStep ==
    ASSUME UtxoInv, NEW o \in Outs, Fetch(o), UNCHANGED async
    PROVE  UtxoInv'
  <1>1. /\ status = "up" /\ cache' = fetchEntries(cache, o)
        /\ UNCHANGED <<chain, dirty, floor, due, disk, marker, best, pending,
                       status, upto, reorgs, crashes, async>>
    BY DEF Fetch, diskVars
  <1>2. Near(cache') /\ CacheOK(async, cache', disk, dirty, chain)
    BY <1>1, Facts, FetchKeeps
  <1>3. CacheOK(async, cache, disk, dirty, Standing)'
    BY <1>1, <1>2 DEF Standing
  <1>4. TypeOK'
    <2>1. events' \subseteq {"spilled", "outdated", "reread"}
      BY DEF Fetch, UtxoInv, TypeOK
    <2> QED
      BY <1>1, <1>2, <2>1 DEF TypeOK, UtxoInv, Near
  <1>5. Chains' /\ Queued' /\ DiskRight'
    BY <1>1 DEF UtxoInv, Chains, Queued, DiskRight
  <1>6. NotBack'
    <2>1. SUFFICES ASSUME async, "reread" \notin events', NEW x \in Outs,
                          cache'[x].at = "live"
                   PROVE  x \notin SpentBy(chain)
      BY <1>1 DEF NotBack
    <2>2. "reread" \notin events /\ ~ (o \in SpentBy(chain) /\ disk[o] # 0)
      BY <2>1 DEF Fetch
    <2>3. CASE x # o
      <3>1. cache'[x] = cache[x]
        BY <1>1, <2>3, Facts, FetchHere
      <3> QED
        BY <2>1, <2>2, <3>1 DEF UtxoInv, NotBack
    <2>4. CASE x = o
      <3>1. Alike(cache'[o], Loaded(disk[o])) /\ disk[o] \in Heights
        BY <1>1, Facts, FetchHere DEF Fetch
      <3>2. disk[o] # 0
        BY <2>1, <2>4, <3>1, EntryTypes DEF Alike
      <3> QED
        BY <2>2, <2>4, <3>2
    <2> QED
      BY <2>3, <2>4
  <1> QED
    BY <1>3, <1>4, <1>5, <1>6 DEF UtxoInv

\* A flush of the chain as it is.
LEMMA FlushStep ==
    ASSUME UtxoInv, NEW full \in BOOLEAN, Flush(chain, full), status = "up",
           due' \in [Callers -> Seq(Blocks)], Sane', UNCHANGED async
    PROVE  UtxoInv'
  <1>1. PICK q : q = Committed(Len(pending))
    OBVIOUS
  <1>2. /\ disk' = IF full THEN FullRows(cache, q) ELSE DirtyRows(cache, q)
        /\ cache' = IF full THEN FullCache(cache) ELSE DirtyCache(cache)
        /\ dirty' = {} /\ marker' = chain
        /\ best' = StateAfter(Len(pending), best) /\ pending' = <<>>
        /\ events' = events \cup Outdated(chain) \cup (IF full THEN Spilled(cache) ELSE {})
        /\ UNCHANGED <<chain, floor, status, upto, reorgs, crashes, async>>
    BY <1>1 DEF Flush
  <1>3. best' = chain /\ (async => q = Utxo(chain)) /\ (~ async => q = disk)
    BY <1>1, <1>2, BarrierRows
  <1>4. /\ CacheOK(async, cache, disk, dirty, chain) /\ Near(cache)
        /\ async => dirty = {}
    BY Facts DEF UtxoInv, Queued
  <1>5. disk' = Utxo(chain) /\ Near(cache') /\ CacheOK(async, cache', Utxo(chain), {}, chain)
    <2>1. CASE full
      <3>1. ~ Spills(cache)
        BY <1>2, <2>1, NoSpill
      <3> QED
        BY <1>2, <1>3, <1>4, <2>1, <3>1, Facts, FullFlush
    <2>2. CASE ~ full
      BY <1>2, <1>3, <1>4, <2>2, Facts, DirtyFlush
    <2> QED
      BY <2>1, <2>2
  <1>6. CacheOK(async, cache, disk, dirty, Standing)'
    BY <1>2, <1>5 DEF Standing
  <1>7. TypeOK'
    <2>1. events' \subseteq {"spilled", "outdated", "reread"}
      BY <1>2, SpilledType DEF UtxoInv, TypeOK, Outdated
    <2> QED
      BY <1>2, <1>3, <1>5, <2>1, Facts, UtxoRows DEF TypeOK, UtxoInv, Near
  <1>8. Prefix(chain, chain)
    BY Facts, PrefixSelf
  <1>9. Chains'
    BY <1>2, <1>3, <1>8, Facts DEF Chains
  <1>10. Queued'
    BY <1>2, <1>3, Facts DEF Queued
  <1>11. DiskRight'
    BY <1>2, <1>5 DEF DiskRight
  <1>12. NotBack'
    <2>1. ASSUME NEW o \in Outs, cache'[o].at = "live" PROVE cache[o].at = "live"
      <3>1. CASE full
        <4>1. cache'[o] = IF Hot(cache, o) THEN clearModified(cache[o]) ELSE NoEntry
          <5>1. ~ Spills(cache)
            BY <1>2, <3>1, NoSpill
          <5> QED
            BY <1>2, <1>4, <3>1, <5>1, FullHere
        <4> QED
          BY <2>1, <4>1, EntryTypes DEF Hot
      <3>2. CASE ~ full
        <4>1. cache'[o] \in {cache[o], NoEntry, clearModified(cache[o])}
          BY <1>2, <3>2 DEF DirtyCache
        <4>2. cache[o] \in Entries
          BY <1>4 DEF Near
        <4> QED
          BY <2>1, <4>1, <4>2, EntryTypes
      <3> QED
        BY <3>1, <3>2
    <2> QED
      BY <1>2, <2>1, NothingBack
  <1> QED
    BY <1>6, <1>7, <1>9, <1>10, <1>11, <1>12 DEF UtxoInv

LEMMA FlushUtxoCacheStep ==
    ASSUME UtxoInv, FlushUtxoCache, Sane', UNCHANGED async
    PROVE  UtxoInv'
  <1>1. PICK full \in BOOLEAN : Flush(chain, full)
    BY DEF FlushUtxoCache
  <1>2. status = "up" /\ due' = due
    BY DEF FlushUtxoCache
  <1>3. due' \in [Callers -> Seq(Blocks)]
    BY <1>2 DEF UtxoInv, TypeOK
  <1> QED
    BY <1>1, <1>2, <1>3, FlushStep

LEMMA TailFlushStep ==
    ASSUME UtxoInv, NEW c \in Callers, TailFlush(c), Sane', UNCHANGED async
    PROVE  UtxoInv'
  <1>1. /\ status = "up"
        /\ due \in [Callers -> Seq(Blocks)] /\ due' = [due EXCEPT ![c] = <<>>]
    BY DEF TailFlush, UtxoInv, TypeOK
  <1>2. due' \in [Callers -> Seq(Blocks)]
    BY <1>1
  <1>3. CASE Flush(due[c], TRUE)
    <2>1. due[c] = chain
      BY <1>3 DEF Flush, Outdated, Sane
    <2> QED
      BY <1>1, <1>2, <1>3, <2>1, FlushStep
  <1>4. CASE UNCHANGED <<chain, cache, dirty, floor, diskVars, pending,
                         status, upto, events, reorgs, crashes>>
    <2>1. UNCHANGED <<chain, cache, dirty, floor, disk, marker, best, pending,
                      status, upto, events, reorgs, crashes, async>>
      BY <1>4 DEF diskVars
    <2>2. TypeOK'
      BY <1>2, <2>1 DEF TypeOK, UtxoInv
    <2>3. Chains'
      BY <1>2, <2>1 DEF Chains, UtxoInv
    <2>4. Queued' /\ DiskRight'
      BY <2>1 DEF UtxoInv, Queued, DiskRight
    <2>5. CacheOK(async, cache, disk, dirty, Standing)'
      BY <2>1 DEF UtxoInv, Standing
    <2>6. NotBack'
      BY <2>1, NothingBack
    <2> QED
      BY <2>2, <2>3, <2>4, <2>5, <2>6 DEF UtxoInv
  <1> QED
    BY <1>3, <1>4 DEF TailFlush

\* A batch: the disk moves on along the chain, and an unspent output that is
\* not cached is not among what the batch changes.
LEMMA BatchStep ==
    ASSUME UtxoInv, BatchCommit, UNCHANGED async
    PROVE  UtxoInv'
  <1>1. PICK n \in 1 .. Len(pending) :
          /\ disk' = Committed(n) /\ marker' = StateAfter(n, marker)
          /\ best' = StateAfter(n, best)
          /\ pending' = SubSeq(pending, n + 1, Len(pending))
    BY DEF BatchCommit
  <1>2. UNCHANGED <<chain, cache, dirty, floor, due, status, upto, events, reorgs, crashes,
                    async>>
    BY DEF BatchCommit, memVars
  <1>3. /\ async /\ Len(pending) \in Nat /\ n \in 0 .. Len(pending)
        /\ pending \in Seq([delta : [Outs -> Heights \cup {Keep}], state : Seq(Blocks)])
    BY DEF UtxoInv, TypeOK, Queued
  <1>4. Items /\ disk = Utxo(best) /\ TypeOK /\ marker = best /\ status = "up" /\ dirty = {}
    BY <1>3 DEF UtxoInv, Queued, Items, DiskRight
  <1>5. PICK h \in 0 .. Len(chain) : h = Len(best) + n
    BY <1>3, <1>4, Facts, CommittedRows
  <1>6. disk' = Utxo(Upto(chain, h)) /\ best' = Upto(chain, h) /\ marker' = Upto(chain, h)
    BY <1>1, <1>3, <1>4, <1>5, Facts, CommittedRows DEF StateAfter
  <1>7. PICK t \in Seq(Blocks) : t = Upto(chain, h)
    BY Facts, UptoFacts
  <1>8. /\ Len(t) = h /\ Prefix(t, chain) /\ Valid(t) /\ Prefix(best, t) /\ Prefix(t, t)
    <2>1. Len(best) \in 0 .. h /\ best = Upto(chain, Len(best))
      BY <1>3, <1>5, Facts, PrefixIsUpto
    <2>2. Len(t) = h /\ Prefix(t, chain) /\ Prefix(best, t)
      BY <1>7, <2>1, Facts, UptoPrefix
    <2> QED
      BY <2>2, Facts, PrefixValid, PrefixSelf
  <1>9. /\ Len(pending') = Len(pending) - n
        /\ pending' \in Seq([delta : [Outs -> Heights \cup {Keep}], state : Seq(Blocks)])
        /\ \A k \in 1 .. Len(pending) - n : pending'[k] = pending[n + k]
    <2> DEFINE I == [delta : [Outs -> Heights \cup {Keep}], state : Seq(Blocks)]
    <2>0. pending \in Seq(I)
      BY <1>3
    <2> HIDE DEF I
    <2>1. \A i \in n + 1 .. Len(pending) : pending[i] \in I
      BY <1>3, <2>0
    <2>2. n + 1 \in Int /\ Len(pending) \in Int /\ n <= Len(pending)
      BY <1>3
    <2>3. /\ SubSeq(pending, n + 1, Len(pending)) \in Seq(I)
          /\ Len(SubSeq(pending, n + 1, Len(pending))) =
                IF n + 1 <= Len(pending) THEN Len(pending) - (n + 1) + 1 ELSE 0
          /\ \A i \in 1 .. Len(pending) - (n + 1) + 1 :
                SubSeq(pending, n + 1, Len(pending))[i] = pending[n + 1 + i - 1]
      BY <2>1, <2>2, SubSeqProperties
    <2>4. Len(pending') = Len(pending) - n /\ pending' \in Seq(I)
      BY <1>1, <1>3, <2>3
    <2>5. ASSUME NEW k \in 1 .. Len(pending) - n PROVE pending'[k] = pending[n + k]
      <3>1. k \in 1 .. Len(pending) - (n + 1) + 1 /\ n + 1 + k - 1 = n + k
        BY <1>3
      <3> QED
        BY <1>1, <2>3, <3>1
    <2> QED
      BY <2>4, <2>5 DEF I
  <1>10. ASSUME NEW o \in Outs
         PROVE  Entry(TRUE, o, cache[o], Utxo(t)[o], {}, chain, Utxo(chain)[o])
    <2>1. Entry(TRUE, o, cache[o], disk[o], {}, chain, Utxo(chain)[o])
      BY <1>3, <1>4, Facts DEF CacheOK
    <2>2. disk[o] = Utxo(chain)[o] /\ Utxo(chain)[o] # 0 => Utxo(t)[o] = Utxo(chain)[o]
      BY <1>4, <1>8, Facts, UnspentBetween
    <2> QED
      BY <2>1, <2>2 DEF Entry
  <1>11. CacheOK(async, cache, disk, dirty, Standing)'
    <2>1. CacheOK(TRUE, cache, Utxo(t), {}, chain)
      BY <1>10 DEF CacheOK
    <2>2. async = TRUE
      BY <1>3, Facts
    <2> QED
      BY <1>2, <1>4, <1>6, <1>7, <2>1, <2>2 DEF Standing
  <1>12. TypeOK'
    <2>1. disk' \in [Outs -> Heights]
      BY <1>6, <1>7, <1>8, Facts, UtxoRows
    <2> QED
      BY <1>2, <1>4, <1>6, <1>7, <1>9, <2>1 DEF TypeOK
  <1>13. Chains'
    BY <1>2, <1>4, <1>6, <1>7, <1>8 DEF Chains, UtxoInv
  <1>14. Queued'
    <2>1. Len(chain) = Len(t) + Len(pending')
      BY <1>3, <1>4, <1>5, <1>8, <1>9, Facts DEF Items
    <2>2. ASSUME NEW k \in 1 .. Len(pending')
          PROVE  /\ pending'[k].state = Upto(chain, Len(t) + k)
                 /\ pending'[k].delta = Delta(chain[Len(t) + k], Len(t) + k)
      <3>1. /\ n + k \in 1 .. Len(pending) /\ pending'[k] = pending[n + k]
            /\ Len(best) + (n + k) = Len(t) + k
        BY <1>3, <1>5, <1>8, <1>9, Facts
      <3>2. /\ pending[n + k].state = Upto(chain, Len(best) + (n + k))
            /\ pending[n + k].delta =
                  Delta(chain[Len(best) + (n + k)], Len(best) + (n + k))
        BY <1>4, <3>1 DEF Items
      <3> QED
        BY <3>1, <3>2
    <2> QED
      BY <1>2, <1>3, <1>4, <1>6, <1>7, <2>1, <2>2 DEF Queued
  <1>15. DiskRight'
    BY <1>6 DEF DiskRight
  <1>16. NotBack'
    BY <1>2, NothingBack
  <1> QED
    BY <1>11, <1>12, <1>13, <1>14, <1>15, <1>16 DEF UtxoInv

\* A purge takes away nothing that is in the UTXO set of the chain.
LEMMA PurgeStep ==
    ASSUME UtxoInv, Purge, UNCHANGED async
    PROVE  UtxoInv'
  <1>1. /\ status = "up"
        /\ cache' = [o \in Outs |-> IF cache[o].at = "live" /\ cache[o].height > Len(chain)
                                    THEN NoEntry ELSE cache[o]]
        /\ dirty' = {o \in dirty : ~ (cache[o].at = "live" /\ cache[o].height > Len(chain))}
        /\ disk' = [o \in Outs |-> IF disk[o] > Len(chain) THEN 0 ELSE disk[o]]
        /\ UNCHANGED <<chain, floor, due, marker, best, pending,
                       status, upto, events, reorgs, crashes, async>>
    BY DEF Purge
  <1>2. disk' = disk
    <2>1. \A o \in Outs : disk[o] \in 0 .. Len(chain)
      BY Facts, UtxoRow
    <2> QED
      BY <1>1, <2>1, Facts
  <1>3. ASSUME NEW o \in Outs
        PROVE  /\ cache'[o] \in Entries
               /\ Entry(async, o, cache'[o], disk[o], dirty', chain, Utxo(chain)[o])
    <2>1. /\ Entry(async, o, cache[o], disk[o], dirty, chain, Utxo(chain)[o])
          /\ cache[o] \in Entries
      BY <1>1, Facts DEF CacheOK, Near
    <2>2. CASE cache[o].at = "live" /\ cache[o].height > Len(chain)
      <3>1. cache'[o] = NoEntry
        BY <1>1, <2>2
      <3>2. Utxo(chain)[o] \in 0 .. Len(chain)
        BY Facts, UtxoRow
      <3>3. Utxo(chain)[o] = 0 /\ (async \/ disk[o] = Utxo(chain)[o])
        BY <2>1, <2>2, <3>2, Facts DEF Entry
      <3>4. Entry(async, o, NoEntry, disk[o], dirty', chain, Utxo(chain)[o])
        BY <3>3, Facts, NoEntryOK
      <3> QED
        BY <3>1, <3>4, EntryTypes
    <2>3. CASE ~ (cache[o].at = "live" /\ cache[o].height > Len(chain))
      <3>1. cache'[o] = cache[o] /\ (o \in dirty => o \in dirty')
        BY <1>1, <2>3
      <3>2. Entry(async, o, cache[o], disk[o], dirty', chain, Utxo(chain)[o])
        BY <2>1, <3>1 DEF Entry
      <3> QED
        BY <2>1, <3>1, <3>2
    <2> QED
      BY <2>2, <2>3
  <1>4. CacheOK(async, cache, disk, dirty, Standing)'
    <2>1. CacheOK(async, cache', disk, dirty', chain)
      BY <1>3 DEF CacheOK
    <2> QED
      BY <1>1, <1>2, <2>1 DEF Standing
  <1>5. cache' \in [Outs -> Entries] /\ dirty' \subseteq Outs
    BY <1>1, <1>3, Facts
  <1>6. TypeOK'
    BY <1>1, <1>2, <1>5 DEF TypeOK, UtxoInv
  <1>7. Chains' /\ DiskRight'
    BY <1>1, <1>2 DEF UtxoInv, Chains, DiskRight
  <1>8. async => dirty' = {}
    BY <1>1 DEF UtxoInv, Queued
  <1>9. Queued'
    BY <1>1, <1>8 DEF UtxoInv, Queued
  <1>10. NotBack'
    <2>1. \A o \in Outs : cache'[o].at = "live" => cache[o].at = "live"
      BY <1>1, EntryTypes
    <2> QED
      BY <1>1, <2>1, NothingBack
  <1> QED
    BY <1>4, <1>6, <1>7, <1>9, <1>10 DEF UtxoInv

LEMMA EmptyCache ==
    ASSUME NEW a \in BOOLEAN, NEW s, NEW c, c = [o \in Outs |-> NoEntry], NEW d
    PROVE  Near(c) /\ CacheOK(a, c, Utxo(s), d, s)
  <1>1. \A o \in Outs : Entry(a, o, c[o], Utxo(s)[o], d, s, Utxo(s)[o])
    BY NoEntryOK
  <1> QED
    BY <1>1, EntryTypes DEF Near, CacheOK

\* A crash: the marker is at or below the best state, so the start-up goes on
\* or replays.
LEMMA CrashStep ==
    ASSUME UtxoInv, Crash, UNCHANGED async
    PROVE  UtxoInv'
  <1>1. /\ chain' = best /\ cache' = [o \in Outs |-> NoEntry] /\ dirty' = {} /\ floor' = 0
        /\ due' = [c \in Callers |-> <<>>] /\ pending' = <<>> /\ upto' = Len(marker)
        /\ UNCHANGED <<disk, marker, reorgs, async>>
    BY DEF Crash
  <1>2. crashes' \in 0 .. MaxCrashes
    BY UtxoAssumption DEF Crash, UtxoInv, TypeOK
  <1>3. status' = IF marker = best THEN "up" ELSE "replay"
    BY Facts DEF Crash
  <1>4. best' = best
    <2>1. Prefix(best, marker) => best = marker
      BY Facts, PrefixFacts, SameChain
    <2> QED
      BY <2>1 DEF Crash, forwardRebuild
  <1>5. marker # best => Len(marker) < Len(best)
    BY Facts, PrefixFacts, SameChain
  <1>6. Near(cache') /\ CacheOK(async, cache', disk, {}, marker)
    BY <1>1, Facts, EmptyCache
  <1>7. Standing' = marker
    <2>1. CASE marker = best
      BY <1>1, <1>3, <2>1 DEF Standing
    <2>2. CASE marker # best
      <3>1. Upto(best, Len(marker)) = marker
        BY Facts, PrefixIsUpto
      <3> QED
        BY <1>1, <1>3, <1>4, <2>2, <3>1 DEF Standing
    <2> QED
      BY <2>1, <2>2
  <1>8. CacheOK(async, cache, disk, dirty, Standing)'
    BY <1>1, <1>6, <1>7
  <1>9. TypeOK'
    <2>1. /\ upto' \in Heights /\ floor' \in Heights
          /\ events' \subseteq {"spilled", "outdated", "reread"}
      BY <1>1, Facts, Bounds DEF Heights, Crash, UtxoInv, TypeOK
    <2> QED
      BY <1>1, <1>2, <1>3, <1>4, <1>6, <2>1, Facts DEF TypeOK, UtxoInv, Near
  <1>10. Chains'
    BY <1>1, <1>3, <1>4, <1>5, Facts, PrefixSelf DEF Chains
  <1>11. Queued'
    <2>1. async => marker = best
      BY DEF UtxoInv, Queued
    <2> QED
      BY <1>1, <1>3, <1>4, <2>1, Facts DEF Queued
  <1>12. DiskRight'
    BY <1>1, Facts DEF DiskRight
  <1>13. NotBack'
    BY <1>1, EntryTypes DEF NotBack
  <1> QED
    BY <1>8, <1>9, <1>10, <1>11, <1>12, <1>13 DEF UtxoInv

\* What a flush has kept stands for every chain the flushed one goes on from.
LEMMA KeptBelow ==
    ASSUME NEW t \in Seq(Blocks), Valid(t), NEW s \in Seq(Blocks), Prefix(s, t),
           NEW a \in BOOLEAN, NEW c, Near(c), ~ Spills(c), NEW r, NEW d, CacheOK(a, c, r, d, t)
    PROVE  Near(FullCache(c)) /\ CacheOK(a, FullCache(c), Utxo(s), {}, s)
  <1>1. /\ Len(s) <= Len(t) /\ \A i \in 1 .. Len(s) : s[i] = t[i]
        /\ \A i \in 1 .. Len(s) : i \in 1 .. Len(t)
    BY PrefixFacts
  <1>2. Valid(s)
    BY PrefixValid
  <1>3. ASSUME NEW o \in Outs
        PROVE  Entry(a, o, FullCache(c)[o], Utxo(s)[o], {}, s, Utxo(s)[o])
    <2>1. CASE ~ Hot(c, o)
      <3>1. FullCache(c)[o] = NoEntry
        BY <2>1, FullHere
      <3> QED
        BY <3>1, NoEntryOK
    <2>2. CASE Hot(c, o)
      <3>1. /\ c[o] \in Entries /\ c[o].at = "live"
            /\ Entry(a, o, c[o], r[o], d, t, Utxo(t)[o])
        BY <2>2 DEF Near, CacheOK, Hot
      <3>2. PICK f : f = FullCache(c)[o]
        OBVIOUS
      <3>3. /\ f.at = "live" /\ f.height = c[o].height
            /\ f.fresh = FALSE /\ f.modified = FALSE
        BY <2>2, <3>1, <3>2, FullHere, EntryTypes
      <3>4. \A i \in DOMAIN s : s[i].create = o => c[o].height = i
        BY <1>1, <3>1 DEF Entry
      <3>5. Utxo(s)[o] \in {0, c[o].height}
        BY <1>2, <3>4, UtxoRow
      <3>6. a \/ o \notin SpentBy(s)
        BY <1>1, <3>1, CreatedSpent DEF Entry
      <3> QED
        BY <3>1, <3>2, <3>3, <3>4, <3>5, <3>6 DEF Entry
    <2> QED
      BY <2>1, <2>2
  <1> QED
    BY <1>3, FullHere DEF CacheOK

\* One block of the replay.
LEMMA ReplayStep ==
    ASSUME UtxoInv, Replay, Sane', UNCHANGED async
    PROVE  UtxoInv'
  <1>1. /\ status = "replay"
        /\ UNCHANGED <<chain, floor, due, best, pending, reorgs, crashes, async>>
    BY DEF Replay
  <1>2. /\ async = FALSE /\ upto \in Len(marker) .. Len(best) - 1
        /\ best = chain /\ pending = <<>>
    BY <1>1, Facts DEF UtxoInv, Chains, Queued
  <1>3. PICK h \in 0 .. Len(best), g \in 0 .. Len(best) :
           h = upto + 1 /\ g = upto /\ g \in 0 .. h /\ h \in Heights /\ h # 0
    BY <1>2, Facts DEF Heights
  <1>4. PICK s \in Seq(Blocks) : s = Upto(best, g)
    BY Facts, UptoFacts
  <1>5. PICK t \in Seq(Blocks) : t = Upto(best, h)
    BY Facts, UptoFacts
  <1>6. /\ Len(t) = h /\ Len(s) = g /\ Prefix(s, t) /\ Prefix(t, best)
        /\ \A i \in 1 .. h : t[i] = best[i]
    BY <1>3, <1>4, <1>5, Facts, UptoPrefix, UptoFacts
  <1>7. Valid(t) /\ Len(t) = Len(s) + 1
    BY <1>3, <1>6, Facts, PrefixValid
  <1>8. PICK b \in Blocks : b = best[upto + 1] /\ b = t[Len(t)]
    BY <1>3, <1>6, Facts
  <1>9. Prefix(marker, s)
    <2>1. marker = Upto(best, Len(marker)) /\ Len(marker) \in 0 .. g
      BY <1>2, <1>3, Facts, PrefixIsUpto
    <2> QED
      BY <1>4, <2>1, Facts, UptoPrefix
  <1>10. Behind(disk, s) /\ CacheOK(FALSE, cache, disk, dirty, s)
    BY <1>1, <1>2, <1>3, <1>4, <1>9, Facts DEF Behind, UtxoInv, Standing
  <1>11. PICK after : after = connectTransactions(cache, b, upto + 1)
    OBVIOUS
  <1>12. PICK dd : dd = Dirtied(cache, b)
    OBVIOUS
  <1>13. /\ Near(after) /\ CacheOK(FALSE, after, disk, dd, t)
         /\ b.spend \notin {None, b.create} =>
               fetchEntries(cache, b.spend)[b.spend].at # "nil"
    BY <1>3, <1>6, <1>7, <1>8, <1>10, <1>11, <1>12, Facts, SyncConnect
  <1>14. /\ upto' = h /\ status' = IF h = Len(best) THEN "up" ELSE "replay"
         /\ \/ cache' = after /\ dirty' = dd /\ UNCHANGED <<disk, marker, events>>
            \/ /\ cache' = FullCache(after) /\ dirty' = {}
               /\ disk' = FullRows(after, disk) /\ marker' = t
               /\ events' = events \cup Spilled(after)
    BY <1>3, <1>5, <1>8, <1>11, <1>12, <1>13 DEF Replay, Upto
  <1>15. Standing' = t
    <2>1. CASE h = Len(best)
      BY <1>1, <1>2, <1>5, <1>6, <1>14, <2>1, Facts, PrefixIsUpto, PrefixSelf DEF Standing
    <2>2. CASE h # Len(best)
      BY <1>1, <1>5, <1>14, <2>2 DEF Standing
    <2> QED
      BY <2>1, <2>2
  <1>16. dd \subseteq Outs
    BY <1>8, <1>12, Facts DEF Dirtied, Blocks
  <1>17. /\ Near(cache') /\ CacheOK(FALSE, cache', disk', dirty', t)
         /\ dirty' \subseteq Outs /\ marker' \in Seq(Blocks) /\ disk' = Utxo(marker')
         /\ Prefix(marker', t)
    <2>1. CASE cache' = after /\ dirty' = dd /\ UNCHANGED <<disk, marker, events>>
      BY <1>4, <1>6, <1>9, <1>13, <1>16, <2>1, Facts, PrefixTrans
    <2>2. CASE /\ cache' = FullCache(after) /\ dirty' = {}
               /\ disk' = FullRows(after, disk) /\ marker' = t
               /\ events' = events \cup Spilled(after)
      <3>0. ~ Spills(after)
        BY <2>2, NoSpill
      <3>1. /\ FullRows(after, disk) = Utxo(t)
            /\ Near(FullCache(after)) /\ CacheOK(FALSE, FullCache(after), Utxo(t), {}, t)
        BY <1>13, <3>0, SyncFlush
      <3>2. Prefix(t, t)
        BY PrefixSelf
      <3> QED
        BY <2>2, <3>1, <3>2
    <2> QED
      BY <1>14, <2>1, <2>2
  <1>18. CacheOK(async, cache, disk, dirty, Standing)'
    BY <1>1, <1>2, <1>15, <1>17
  <1>19. /\ Valid(marker') /\ Len(marker') <= h /\ Prefix(marker', best)
    BY <1>6, <1>7, <1>17, Facts, PrefixValid, PrefixTrans, PrefixFacts
  <1>20. TypeOK'
    <2>1. disk' \in [Outs -> Heights]
      BY <1>3, <1>17, <1>19, Facts, UtxoRows
    <2>2. events' \subseteq {"spilled", "outdated", "reread"}
      BY <1>14, SpilledType DEF UtxoInv, TypeOK
    <2> QED
      BY <1>1, <1>3, <1>14, <1>17, <2>1, <2>2 DEF TypeOK, UtxoInv, Near
  <1>21. Chains'
    <2>1. status' = "replay" => upto' \in Len(marker') .. Len(best) - 1
      BY <1>3, <1>14, <1>17, <1>19, Facts
    <2> QED
      BY <1>1, <1>14, <1>19, <2>1, Facts DEF Chains, UtxoInv
  <1>22. Queued'
    BY <1>1, <1>2, Facts DEF Queued
  <1>23. DiskRight'
    BY <1>17 DEF DiskRight
  <1>24. NotBack'
    BY <1>1, <1>2 DEF NotBack
  <1> QED
    BY <1>18, <1>20, <1>21, <1>22, <1>23, <1>24 DEF UtxoInv

\* A valid block is connected.
LEMMA ConnectStep ==
    ASSUME UtxoInv, NEW c \in Callers,
           NEW spend \in Outs \cup {None}, NEW create \in Outs \cup {None},
           Connect(c, spend, create), Sane', UNCHANGED async
    PROVE  UtxoInv'
  <1>1. PICK h \in Nat : h = Len(chain) + 1
    BY Facts
  <1>2. PICK b : b = [spend |-> spend, create |-> create,
                      from |-> IF spend = None THEN 0
                               ELSE IF spend = create THEN h
                               ELSE fetchEntries(cache, spend)[spend].height]
    OBVIOUS
  <1>3. PICK after : after = connectTransactions(cache, b, h)
    OBVIOUS
  <1>4. PICK state : state = Append(chain, b)
    OBVIOUS
  <1>5. /\ status = "up" /\ due[c] = <<>> /\ h <= MaxHeight
        /\ create \notin Created(chain)
        /\ spend \notin {None, create} => Utxo(chain)[spend] # 0
        /\ chain' = state
        /\ floor' = IF h > HotDepth THEN h - HotDepth ELSE 0
        /\ due' = [due EXCEPT ![c] = state] \/ due' = due
        /\ \/ /\ async
              /\ pending' = Append(pending, [delta |-> takeDelta(after, b), state |-> state])
              /\ cache' = IF spend = None THEN after ELSE delete(after, spend)
              /\ dirty' = {}
              /\ UNCHANGED <<disk, marker, best, events>>
           \/ /\ ~ async
              /\ best' = state
              /\ cache' = after /\ dirty' = Dirtied(cache, b)
              /\ UNCHANGED <<disk, marker, pending, events>>
           \/ /\ ~ async
              /\ best' = state /\ marker' = state
              /\ disk' = FullRows(after, disk)
              /\ cache' = FullCache(after) /\ dirty' = {}
              /\ events' = events \cup Spilled(after)
              /\ UNCHANGED pending
        /\ UNCHANGED <<status, upto, reorgs, crashes, async>>
    BY <1>1, <1>2, <1>3, <1>4 DEF Connect, diskVars
  <1>6. ASSUME spend \notin {None, create}
        PROVE  fetchEntries(cache, spend)[spend].height = Utxo(chain)[spend]
    <2>1. spend \in Outs /\ Utxo(chain)[spend] # 0
      BY <1>5, <1>6
    <2> QED
      BY <1>5, <2>1, Facts, InputFound
  <1>7. /\ b \in Blocks /\ b.spend = spend /\ b.create = create
        /\ spend \notin {None, create} => b.from = Utxo(chain)[spend]
    <2>1. h \in Heights /\ 0 \in Heights
      BY <1>1, <1>5, Bounds DEF Heights
    <2>2. ASSUME spend \notin {None, create} PROVE Utxo(chain)[spend] \in Heights
      BY <2>2, Facts, UtxoRows
    <2>3. b.from \in Heights
      BY <1>2, <1>6, <2>1, <2>2
    <2> QED
      BY <1>2, <1>6, <2>3 DEF Blocks
  <1>8. /\ state \in Seq(Blocks) /\ Len(state) = h /\ state[h] = b
        /\ Prefix(chain, state) /\ \A i \in 1 .. Len(chain) : state[i] = chain[i]
    BY <1>1, <1>4, <1>7, Facts, AppendFacts
  <1>9. Valid(state)
    BY <1>4, <1>5, <1>7, Facts, BlockValid
  <1>10. h \in Heights /\ Len(state) = Len(chain) + 1 /\ b = state[Len(state)]
    BY <1>1, <1>5, <1>8 DEF Heights
  <1>11. floor' \in Heights
    BY <1>1, <1>5, UtxoAssumption DEF Heights
  <1>12. /\ due' \in [Callers -> Seq(Blocks)]
         /\ events' \subseteq {"spilled", "outdated", "reread"}
    <2>1. due \in [Callers -> Seq(Blocks)]
      BY DEF UtxoInv, TypeOK
    <2>2. events' \subseteq {"spilled", "outdated", "reread"}
      BY <1>5, SpilledType DEF UtxoInv, TypeOK
    <2> QED
      BY <1>5, <1>8, <2>1, <2>2
  <1>13. CASE async
    <2>1. /\ pending' = Append(pending, [delta |-> takeDelta(after, b), state |-> state])
          /\ cache' = IF b.spend = None THEN after ELSE delete(after, b.spend)
          /\ dirty' = {} /\ UNCHANGED <<disk, marker, best, events>>
      BY <1>5, <1>7, <1>13
    <2>2. /\ async = TRUE /\ dirty = {} /\ Items
      BY <1>13, Facts DEF UtxoInv, Queued, Items
    <2>3. /\ Near(cache') /\ CacheOK(TRUE, cache', disk, {}, state)
          /\ takeDelta(after, b) = Delta(b, h)
          /\ LiveFrom(cache', cache, b)
      <3>1. CacheOK(TRUE, cache, disk, {}, chain)
        BY <1>5, <2>2, Facts
      <3>2. /\ Behind(disk, chain) /\ disk \in [Outs -> Heights] /\ Near(cache)
            /\ chain \in Seq(Blocks) /\ Len(state) \in Heights
            /\ after = connectTransactions(cache, b, Len(state))
        BY <1>3, <1>5, <1>8, <1>10, Facts
      <3>3. PICK f : f = cache'
        OBVIOUS
      <3>4. f = IF b.spend = None THEN after ELSE delete(after, b.spend)
        BY <2>1, <3>3
      <3>5. /\ Near(f) /\ CacheOK(TRUE, f, disk, {}, state)
            /\ takeDelta(after, b) = Delta(b, Len(state))
            /\ LiveFrom(f, cache, b)
        <4>1. /\ state \in Seq(Blocks) /\ Valid(state) /\ Prefix(chain, state)
              /\ Len(state) = Len(chain) + 1 /\ b \in Blocks /\ b = state[Len(state)]
          BY <1>7, <1>8, <1>9, <1>10
        <4> QED
          BY <3>1, <3>2, <3>4, <4>1, AsyncConnect
      <3> QED
        BY <1>8, <3>3, <3>5
    <2>4. CacheOK(async, cache, disk, dirty, Standing)'
      BY <1>5, <2>1, <2>2, <2>3 DEF Standing
    <2> DEFINE I == [delta : [Outs -> Heights \cup {Keep}], state : Seq(Blocks)]
    <2>5. PICK item \in I : item = [delta |-> Delta(b, h), state |-> state]
      <3>1. Delta(b, h) \in [Outs -> Heights \cup {Keep}]
        BY <1>10, Bounds DEF Delta
      <3> QED
        BY <1>8, <3>1
    <2>6. pending \in Seq(I)
      BY DEF UtxoInv, TypeOK
    <2>7. /\ pending' \in Seq(I) /\ Len(pending') = Len(pending) + 1
          /\ \A k \in 1 .. Len(pending) : pending'[k] = pending[k]
          /\ pending'[Len(pending) + 1] = item
      <3> HIDE DEF I
      <3>1. pending' = Append(pending, item)
        BY <2>1, <2>3, <2>5
      <3> QED
        BY <2>6, <3>1
    <2>8. TypeOK'
      BY <1>5, <1>8, <1>11, <1>12, <2>1, <2>3, <2>7 DEF TypeOK, UtxoInv, Near
    <2>9. Prefix(best, state)
      BY <1>8, Facts, PrefixTrans
    <2>10. Chains'
      BY <1>5, <1>9, <1>12, <2>1, <2>9 DEF Chains, UtxoInv
    <2>11. /\ Len(state) = Len(best) + Len(pending')
           /\ \A k \in 1 .. Len(pending') :
                 /\ pending'[k].state = Upto(state, Len(best) + k)
                 /\ pending'[k].delta = Delta(state[Len(best) + k], Len(best) + k)
      <3>1. Len(best) \in Nat /\ Len(pending) \in Nat /\ Len(chain) = Len(best) + Len(pending)
        BY <2>2, <2>6, Facts DEF Items
      <3>2. Len(state) = Len(best) + Len(pending')
        BY <1>10, <2>7, <3>1
      <3>3. ASSUME NEW k \in 1 .. Len(pending)
            PROVE  /\ pending'[k].state = Upto(state, Len(best) + k)
                   /\ pending'[k].delta = Delta(state[Len(best) + k], Len(best) + k)
        <4>1. /\ pending'[k].state = Upto(chain, Len(best) + k)
              /\ pending'[k].delta = Delta(chain[Len(best) + k], Len(best) + k)
          BY <2>2, <2>7 DEF Items
        <4>2. PICK j \in 0 .. Len(chain) :
                 j = Len(best) + k /\ j \in 0 .. Len(state) /\ j \in 1 .. Len(chain)
          BY <1>10, <3>1
        <4>3. Upto(chain, j) = Upto(state, j)
          <5>1. PICK p \in Seq(Blocks) : p = Upto(chain, j)
            BY Facts, UptoFacts
          <5>2. PICK q \in Seq(Blocks) : q = Upto(state, j)
            BY <1>8, <4>2, UptoFacts
          <5>3. Len(p) = j /\ \A i \in 1 .. j : p[i] = chain[i]
            BY <5>1, Facts, UptoFacts
          <5>4. Len(q) = j /\ \A i \in 1 .. j : q[i] = state[i]
            BY <1>8, <4>2, <5>2, UptoFacts
          <5>5. \A i \in 1 .. j : p[i] = q[i]
            BY <1>8, <4>2, <5>3, <5>4
          <5> QED
            BY <5>1, <5>2, <5>3, <5>4, <5>5, SameChain
        <4>4. chain[j] = state[j]
          BY <1>8, <4>2
        <4> QED
          BY <4>1, <4>2, <4>3, <4>4
      <3>4. /\ item.state = Upto(state, Len(best) + (Len(pending) + 1))
            /\ item.delta = Delta(state[Len(best) + (Len(pending) + 1)],
                                  Len(best) + (Len(pending) + 1))
        <4>1. Len(best) + (Len(pending) + 1) = Len(state) /\ h = Len(state)
          BY <1>8, <1>10, <3>1
        <4>2. Upto(state, Len(state)) = state
          BY <1>8, PrefixSelf, PrefixIsUpto
        <4> QED
          BY <1>10, <2>5, <4>1, <4>2
      <3>5. \A k \in 1 .. Len(pending') : k \in 1 .. Len(pending) \/ k = Len(pending) + 1
        BY <2>7, <3>1
      <3> QED
        BY <2>7, <3>2, <3>3, <3>4, <3>5
    <2>12. Queued'
      BY <1>5, <1>13, <2>1, <2>11 DEF Queued, UtxoInv
    <2>13. DiskRight'
      BY <2>1 DEF DiskRight, UtxoInv
    <2>14. NotBack'
      <3>1. SUFFICES ASSUME "reread" \notin events, NEW o \in Outs, cache'[o].at = "live"
                     PROVE  o \notin SpentBy(state)
        BY <1>5, <2>1 DEF NotBack
      <3>2. o # b.spend /\ (o = b.create \/ cache[o].at = "live")
        BY <2>3, <3>1 DEF LiveFrom
      <3>3. o \notin SpentBy(chain)
        <4>1. CASE o = b.create
          BY <1>8, <1>9, <1>10, <4>1, Facts, BlockRows
        <4>2. CASE cache[o].at = "live"
          BY <1>13, <3>1, <4>2 DEF NotBack, UtxoInv
        <4> QED
          BY <3>2, <4>1, <4>2
      <3>4. \A i \in 1 .. Len(state) : i \in 1 .. Len(chain) \/ i = Len(state)
        BY <1>10, Facts
      <3>5. ASSUME NEW i \in 1 .. Len(state) PROVE state[i].spend # o
        <4>1. CASE i = Len(state)
          BY <1>10, <3>2, <4>1
        <4>2. CASE i \in 1 .. Len(chain)
          BY <1>8, <3>3, <4>2, Facts, CreatedSpent
        <4> QED
          BY <3>4, <4>1, <4>2
      <3> QED
        BY <1>8, <3>5, CreatedSpent
    <2> QED
      BY <2>4, <2>8, <2>10, <2>12, <2>13, <2>14 DEF UtxoInv
  <1>14. CASE ~ async
    <2>1. async = FALSE /\ best = chain /\ pending = <<>>
      BY <1>14, Facts DEF UtxoInv, Queued
    <2>2. PICK dd : dd = Dirtied(cache, b)
      OBVIOUS
    <2>3. Near(after) /\ CacheOK(FALSE, after, disk, dd, state)
      BY <1>3, <1>5, <1>7, <1>8, <1>9, <1>10, <2>1, <2>2, Facts, SyncConnect
    <2>4. dd \subseteq Outs
      BY <1>7, <2>2, Facts DEF Dirtied
    <2>5. /\ Near(cache') /\ CacheOK(FALSE, cache', disk', dirty', state)
          /\ dirty' \subseteq Outs /\ marker' \in Seq(Blocks) /\ disk' = Utxo(marker')
          /\ Prefix(marker', state) /\ best' = state /\ pending' = <<>>
      <3>1. CASE cache' = after /\ dirty' = dd /\ UNCHANGED <<disk, marker, pending, events>>
                 /\ best' = state
        <4>1. Prefix(marker, state)
          BY <1>8, Facts, PrefixTrans
        <4> QED
          BY <2>1, <2>3, <2>4, <3>1, <4>1, Facts
      <3>2. CASE /\ best' = state /\ marker' = state /\ disk' = FullRows(after, disk)
                 /\ cache' = FullCache(after) /\ dirty' = {} /\ UNCHANGED pending
                 /\ events' = events \cup Spilled(after)
        <4>0. ~ Spills(after)
          BY <3>2, NoSpill
        <4>1. /\ FullRows(after, disk) = Utxo(state) /\ Near(FullCache(after))
              /\ CacheOK(FALSE, FullCache(after), Utxo(state), {}, state)
          BY <2>3, <4>0, SyncFlush
        <4>2. Prefix(state, state)
          BY <1>8, PrefixSelf
        <4> QED
          BY <1>8, <2>1, <3>2, <4>1, <4>2
      <3> QED
        BY <1>5, <1>14, <2>2, <3>1, <3>2
    <2>6. CacheOK(async, cache, disk, dirty, Standing)'
      BY <1>5, <2>1, <2>5 DEF Standing
    <2>7. Valid(marker') /\ Len(marker') <= MaxHeight
      BY <1>5, <1>8, <1>9, <2>5, PrefixValid, PrefixFacts, Facts
    <2>8. TypeOK'
      <3>1. disk' \in [Outs -> Heights]
        BY <2>5, <2>7, UtxoRows
      <3> QED
        BY SMTT(30), <1>5, <1>8, <1>11, <1>12, <2>5, <3>1 DEF TypeOK, UtxoInv, Near
    <2>9. Prefix(state, state)
      BY <1>8, PrefixSelf
    <2>10. Chains'
      BY <1>5, <1>9, <1>12, <2>5, <2>9 DEF Chains
    <2>11. Queued'
      BY <1>5, <2>1, <2>5 DEF Queued
    <2>12. DiskRight'
      BY <2>5 DEF DiskRight
    <2>13. NotBack'
      BY <1>5, <2>1 DEF NotBack
    <2> QED
      BY <2>6, <2>8, <2>10, <2>11, <2>12, <2>13 DEF UtxoInv
  <1> QED
    BY <1>13, <1>14

\* The tip is detached.
LEMMA DisconnectStep ==
    ASSUME UtxoInv, NEW c \in Callers, Disconnect(c), Sane', UNCHANGED async
    PROVE  UtxoInv'
  <1>1. PICK tip : tip = chain[Len(chain)]
    OBVIOUS
  <1>2. PICK parent : parent = SubSeq(chain, 1, Len(chain) - 1)
    OBVIOUS
  <1>3. PICK fetched : fetched = IF tip.spend \in {None, tip.create} THEN cache
                                 ELSE fetchEntries(cache, tip.spend)
    OBVIOUS
  <1>4. PICK n : n = IF Len(best) = Len(chain) THEN Len(pending) ELSE Len(pending) - 1
    OBVIOUS
  <1>5. /\ status = "up" /\ due[c] = <<>> /\ chain # <<>> /\ reorgs < MaxReorgs
        /\ tip.spend # None => best = chain
        /\ disk' = UndoneRows(FullRows(fetched, Committed(n)), tip)
        /\ cache' = FullCache(fetched) /\ dirty' = {}
        /\ events' = events \cup Spilled(fetched)
        /\ marker' = parent /\ best' = parent /\ chain' = parent
        /\ pending' = <<>> /\ reorgs' = reorgs + 1
        /\ UNCHANGED <<floor, due, status, upto, crashes, async>>
    BY <1>1, <1>2, <1>3, <1>4 DEF Disconnect
  <1>6. PICK h \in 0 .. Len(chain) : h = Len(chain) - 1 /\ h + 1 = Len(chain)
    <2>1. chain \in Seq(Blocks) /\ chain # <<>>
      BY <1>5, Facts
    <2>2. Len(chain) \in Nat /\ Len(chain) # 0
      BY <2>1
    <2> QED
      BY SMTT(30), <2>2
  <1>7. /\ parent \in Seq(Blocks) /\ Len(parent) = h /\ parent = Upto(chain, h)
        /\ Prefix(parent, chain) /\ Prefix(parent, parent) /\ Valid(parent)
    <2>1. parent = Upto(chain, h)
      BY <1>2, <1>6 DEF Upto
    <2>2. parent \in Seq(Blocks) /\ Len(parent) = h
      BY <2>1, Facts, UptoFacts
    <2>3. Prefix(parent, chain)
      BY <2>1, <2>2, Facts, UptoPrefix
    <2> QED
      BY <2>1, <2>2, <2>3, Facts, PrefixValid, PrefixSelf
  <1>8. tip \in Blocks /\ Len(chain) = Len(parent) + 1
    BY <1>1, <1>6, <1>7, Facts
  <1>9. Near(fetched) /\ CacheOK(async, fetched, disk, dirty, chain)
    <2>1. CASE tip.spend \in {None, tip.create}
      BY <1>3, <1>5, <2>1, Facts
    <2>2. CASE tip.spend \notin {None, tip.create}
      <3>1. tip.spend \in Outs /\ fetched = fetchEntries(cache, tip.spend)
        BY <1>3, <1>8, <2>2 DEF Blocks
      <3> QED
        BY <1>5, <3>1, Facts, FetchKeeps
    <2> QED
      BY <2>1, <2>2
  <1>10. Near(cache') /\ CacheOK(async, cache', Utxo(parent), {}, parent)
    <2>1. ~ Spills(fetched)
      BY <1>5, NoSpill
    <2> QED
      BY <1>5, <1>7, <1>9, <2>1, Facts, KeptBelow
  <1>11. PICK q : q = Committed(n)
    OBVIOUS
  <1>12. /\ ~ async => q = disk
         /\ async => \A o \in Outs : o # tip.create => q[o] = Utxo(chain)[o]
    <2>1. CASE best = chain
      <3>1. n = Len(pending)
        BY <1>4, <2>1
      <3> QED
        BY <1>11, <3>1, BarrierRows
    <2>2. CASE best # chain
      <3>1. async /\ tip.spend = None
        BY <1>5, <2>2 DEF UtxoInv, Queued
      <3>2. Items /\ disk = Utxo(best) /\ TypeOK
        BY <3>1 DEF UtxoInv, Queued, Items, DiskRight
      <3>3. Len(best) # Len(chain)
        BY <2>2, Facts, PrefixFacts, SameChain
      <3>4. n \in 0 .. Len(pending) /\ Len(best) + n = h
        BY <1>4, <1>6, <3>2, <3>3, Facts DEF Items, TypeOK
      <3>5. q = Utxo(parent)
        BY <1>7, <1>11, <3>2, <3>4, Facts, CommittedRows
      <3>6. ASSUME NEW o \in Outs, o # tip.create PROVE q[o] = Utxo(chain)[o]
        <4>1. o # tip.spend
          BY <3>1, UtxoAssumption
        <4> QED
          BY <1>1, <1>7, <1>8, <3>5, <3>6, <4>1, Facts, BlockRows
      <3> QED
        BY <3>1, <3>6
    <2> QED
      BY <2>1, <2>2
  <1>13. disk' = Utxo(parent)
    <2>1. ASSUME NEW o \in Outs, o # tip.create
          PROVE  FullRows(fetched, q)[o] = Utxo(chain)[o]
      <3>1. (async => q[o] = Utxo(chain)[o]) /\ (~ async => q[o] = disk[o])
        BY <1>12, <2>1
      <3>2. Row(fetched, q, o) = Utxo(chain)[o]
        BY <1>9, <3>1, Facts, RowIsRight
      <3> QED
        BY <3>2 DEF FullRows
    <2>2. ASSUME NEW o \in Outs
          PROVE  UndoneRows(FullRows(fetched, q), tip)[o] = Utxo(parent)[o]
      <3>1. Utxo(parent)[o] = IF o = tip.create THEN 0
                              ELSE IF o = tip.spend THEN tip.from
                              ELSE Utxo(chain)[o]
        BY <1>1, <1>7, <1>8, Facts, BlockRows
      <3> QED
        BY <2>1, <3>1 DEF UndoneRows
    <2>3. UndoneRows(FullRows(fetched, q), tip) = Utxo(parent)
      BY <2>2 DEF UndoneRows, Utxo
    <2> QED
      BY <1>5, <1>11, <2>3
  <1>14. CacheOK(async, cache, disk, dirty, Standing)'
    BY <1>5, <1>10, <1>13 DEF Standing
  <1>15. TypeOK'
    <2>1. disk' \in [Outs -> Heights] /\ Len(parent) <= MaxHeight
      BY <1>6, <1>7, <1>13, Facts, UtxoRows
    <2>2. reorgs' \in 0 .. MaxReorgs
      BY <1>5, UtxoAssumption DEF TypeOK, UtxoInv
    <2>3. events' \subseteq {"spilled", "outdated", "reread"}
      BY <1>5, SpilledType DEF TypeOK, UtxoInv
    <2> QED
      BY <1>5, <1>7, <1>10, <2>1, <2>2, <2>3 DEF TypeOK, UtxoInv, Near
  <1>16. Chains'
    BY <1>5, <1>7 DEF Chains
  <1>17. Queued'
    BY <1>5, <1>7 DEF Queued
  <1>18. DiskRight'
    BY <1>5, <1>13 DEF DiskRight
  <1>19. NotBack'
    <2>1. SUFFICES ASSUME async, "reread" \notin events, NEW o \in Outs,
                          cache'[o].at = "live"
                   PROVE  o \notin SpentBy(parent)
      BY <1>5 DEF NotBack
    <2>2. fetched[o].at = "live"
      <3>1. ~ Spills(fetched)
        BY <1>5, NoSpill
      <3>2. cache'[o] = IF Hot(fetched, o) THEN clearModified(fetched[o]) ELSE NoEntry
        BY <1>5, <1>9, <3>1, FullHere
      <3> QED
        BY <2>1, <3>2, EntryTypes DEF Hot
    <2>3. cache[o].at = "live" \/ o \notin SpentBy(chain)
      <3>1. CASE tip.spend \in {None, tip.create} \/ o # tip.spend
        <4>1. fetched[o] = cache[o]
          <5>1. CASE tip.spend \in {None, tip.create}
            BY <1>3, <5>1
          <5>2. CASE tip.spend \notin {None, tip.create}
            <6>1. tip.spend \in Outs /\ o \in Outs \ {tip.spend}
              BY <1>8, <3>1, <5>2 DEF Blocks
            <6> QED
              BY <1>3, <5>2, <6>1, Facts, FetchHere
          <5> QED
            BY <5>1, <5>2
        <4> QED
          BY <2>2, <4>1
      <3>2. CASE tip.spend \notin {None, tip.create} /\ o = tip.spend
        <4>1. best = chain /\ fetched = fetchEntries(cache, o)
          BY <1>3, <1>5, <3>2
        <4>2. disk[o] = 0
          <5>1. disk = Utxo(chain)
            BY <2>1, <4>1 DEF UtxoInv, Queued, DiskRight
          <5>2. Utxo(chain)[o] = 0
            BY <1>1, <1>7, <1>8, <3>2, Facts, BlockRows
          <5> QED
            BY <5>1, <5>2
        <4>3. InCache(cache, o)
          <5>1. SUFFICES ASSUME ~ InCache(cache, o) PROVE FALSE
            OBVIOUS
          <5>2. Alike(fetched[o], Loaded(0))
            BY <4>1, <4>2, <5>1, Facts, FetchHere
          <5>3. Loaded(0).at = "nil"
            BY EntryTypes, Bounds
          <5> QED
            BY <2>2, <5>2, <5>3 DEF Alike
        <4> QED
          BY <2>2, <4>1, <4>3, Facts, FetchHere
      <3> QED
        BY <3>1, <3>2
    <2>4. o \notin SpentBy(chain)
      BY <2>1, <2>3 DEF NotBack, UtxoInv
    <2>5. \A i \in 1 .. Len(parent) : parent[i] = chain[i] /\ i \in 1 .. Len(chain)
      BY <1>7, Facts, PrefixFacts
    <2> QED
      BY <1>7, <2>4, <2>5, Facts, CreatedSpent
  <1> QED
    BY <1>14, <1>15, <1>16, <1>17, <1>18, <1>19 DEF UtxoInv

-----------------------------------------------------------------------------
(* The theorems.                                                           *)

LEMMA UtxoStart ==
    ASSUME Init
    PROVE  UtxoInv
  <1>1. /\ chain = <<>> /\ best = <<>> /\ marker = <<>> /\ pending = <<>> /\ status = "up"
        /\ cache = [o \in Outs |-> NoEntry] /\ dirty = {} /\ floor = 0 /\ upto = 0
        /\ due = [c \in Callers |-> <<>>] /\ disk = [o \in Outs |-> 0]
        /\ reorgs = 0 /\ crashes = 0 /\ async \in BOOLEAN /\ async \in Modes /\ events = {}
    BY UtxoAssumption DEF Init
  <1>2. Valid(<<>>) /\ <<>> \in Seq(Blocks) /\ Prefix(<<>>, <<>>)
    BY DEF Valid, Prefix
  <1>3. Utxo(<<>>) = disk
    BY <1>1 DEF Utxo, Created
  <1>4. Near(cache) /\ CacheOK(async, cache, Utxo(<<>>), {}, <<>>)
    BY <1>1, EmptyCache
  <1>5. TypeOK
    BY <1>1, <1>2, <1>4, Bounds, UtxoAssumption DEF TypeOK, Near
  <1>6. Chains
    BY <1>1, <1>2 DEF Chains
  <1>7. Queued
    BY <1>1 DEF Queued
  <1>8. NotBack
    BY <1>1, EntryTypes DEF NotBack
  <1> QED
    BY <1>1, <1>3, <1>4, <1>5, <1>6, <1>7, <1>8 DEF UtxoInv, DiskRight, Standing

LEMMA UtxoStep ==
    ASSUME UtxoInv, Sane', [Next]_vars
    PROVE  UtxoInv'
  <1>1. CASE UNCHANGED vars
    <2>1. UNCHANGED <<async, chain, cache, dirty, floor, due, disk, marker, best, pending,
                      status, upto, events, reorgs, crashes>>
      BY <1>1 DEF vars, memVars, diskVars
    <2>2. TypeOK' /\ Chains' /\ Queued' /\ DiskRight'
      BY <2>1 DEF UtxoInv, TypeOK, Chains, Queued, DiskRight
    <2>3. CacheOK(async, cache, disk, dirty, Standing)'
      BY <2>1 DEF UtxoInv, Standing
    <2>4. NotBack'
      BY <2>1, NothingBack
    <2> QED
      BY <2>2, <2>3, <2>4 DEF UtxoInv
  <1>2. CASE Next
    <2>1. UNCHANGED async
      BY <1>2 DEF Next
    <2>2. CASE \E o \in Outs : Fetch(o)
      BY <2>1, <2>2, FetchStep
    <2>3. CASE \E c \in Callers, spend, create \in Outs \cup {None} : Connect(c, spend, create)
      BY <2>1, <2>3, ConnectStep
    <2>4. CASE \E c \in Callers : TailFlush(c)
      BY <2>1, <2>4, TailFlushStep
    <2>5. CASE \E c \in Callers : Disconnect(c)
      BY <2>1, <2>5, DisconnectStep
    <2>6. CASE FlushUtxoCache
      BY <2>1, <2>6, FlushUtxoCacheStep
    <2>7. CASE BatchCommit
      BY <2>1, <2>7, BatchStep
    <2>8. CASE Purge
      BY <2>1, <2>8, PurgeStep
    <2>9. CASE Crash
      BY <2>1, <2>9, CrashStep
    <2>10. CASE Replay
      BY <2>1, <2>10, ReplayStep
    <2> QED
      BY <1>2, <2>2, <2>3, <2>4, <2>5, <2>6, <2>7, <2>8, <2>9, <2>10 DEF Next
  <1> QED
    BY <1>1, <1>2

\* The inductive invariant holds for as long as neither mishap has happened,
\* for any outputs, heights, hot depth, size of the first map, number of
\* goroutines, reorganizations and crashes, with the write queue on or off.
THEOREM UtxoInvariant == Spec => [](Sane => UtxoInv)
  <1>1. Init => (Sane => UtxoInv)
    BY UtxoStart
  <1>2. (Sane => UtxoInv) /\ [Next]_vars => (Sane => UtxoInv)'
    BY SaneBefore, UtxoStep
  <1> QED
    BY <1>1, <1>2, PTL DEF Spec

\* Unless a full flush has found a hot entry in a later map, or a goroutine has
\* flushed under a state the chain has left, the UTXO rows on disk are at every
\* moment those of the chain that the consistency marker names, whatever
\* batches, flushes, disconnects, purges and crashes there are (flushBatch,
\* writeCache, disconnectBlock).
THEOREM DiskAlways == Spec => []DiskAtMarker
  <1>1. (Sane => UtxoInv) => DiskAtMarker
    BY DEF UtxoInv, DiskRight, DiskAtMarker
  <1> QED
    BY <1>1, UtxoInvariant, PTL

\* Under the same condition InitConsistentState never fails: after any crash
\* the marker is at or below the best state, and no block of the replay misses
\* an input.
THEOREM RestartAlways == Spec => []RestartSucceeds
  <1>1. (Sane => UtxoInv) => RestartSucceeds
    BY DEF UtxoInv, Chains, RestartSucceeds
  <1> QED
    BY <1>1, UtxoInvariant, PTL

\* Under the same condition fetchEntries finds every unspent output of the
\* chain at its height, and, until a lookup has read a spent row back, a spent
\* output only while its deletion is queued.
THEOREM LookupsAlways == Spec => []LookupsRight
  <1>1. ASSUME UtxoInv PROVE NoLostOutput /\ NoDoubleSpend
    <2>1. ASSUME status = "up", NEW o \in Outs
          PROVE  /\ Utxo(chain)[o] # 0 => Seen(o) = Utxo(chain)[o]
                 /\ ~ async /\ o \in SpentBy(chain) => Seen(o) = 0
                 /\ /\ async /\ "reread" \notin events
                    /\ o \in SpentBy(chain) /\ Seen(o) # 0
                    => Seen(o) = disk[o]
      <3>1. /\ Entry(async, o, cache[o], disk[o], dirty, chain, Utxo(chain)[o])
            /\ cache[o].at \in {"none", "nil", "live", "spent"}
        BY <1>1, <2>1, Facts DEF CacheOK, Near, Entries
      <3>2. o \in SpentBy(chain) => Utxo(chain)[o] = 0
        BY <1>1, Facts, UtxoRow
      <3>3. async /\ "reread" \notin events /\ cache[o].at = "live" => o \notin SpentBy(chain)
        BY <1>1 DEF UtxoInv, NotBack
      <3> QED
        BY <3>1, <3>2, <3>3 DEF Entry, Seen, InCache
    <2>2. NoLostOutput
      BY <2>1 DEF NoLostOutput
    <2>3. ASSUME NEW o \in Created(chain), o \in SpentBy(chain) PROVE o \in Outs
      <3>1. PICK i \in DOMAIN chain : o = chain[i].create /\ o # None
        BY DEF Created
      <3>2. chain[i] \in Blocks
        BY <1>1, <3>1, Facts
      <3> QED
        BY <3>1, <3>2 DEF Blocks
    \* A row that is still there is that of the chain on disk: the spender is
    \* above it, and so is its item.
    <2>4. ASSUME async, NEW o \in Outs, o \in SpentBy(chain), disk[o] # 0
          PROVE  \E k \in DOMAIN pending : pending[k].delta[o] = 0
      <3>1. /\ disk = Utxo(best) /\ Items
            /\ chain \in Seq(Blocks) /\ best \in Seq(Blocks) /\ Valid(best)
            /\ Len(best) <= Len(chain) /\ \A i \in 1 .. Len(best) : best[i] = chain[i]
        BY <1>1, <2>4, Facts, PrefixFacts DEF UtxoInv, Queued, DiskRight, Items
      <3>2. PICK i \in 1 .. Len(chain) : chain[i].spend = o
        BY <2>4, <3>1, CreatedSpent
      <3>3. i \notin 1 .. Len(best)
        <4>1. SUFFICES ASSUME i \in 1 .. Len(best) PROVE FALSE
          OBVIOUS
        <4>2. o \in SpentBy(best)
          BY <3>1, <3>2, <4>1, CreatedSpent
        <4> QED
          BY <2>4, <3>1, <4>2, UtxoRow
      <3>4. PICK k \in 1 .. Len(pending) : Len(best) + k = i
        <4>1. Len(pending) \in Nat
          BY <1>1 DEF UtxoInv, TypeOK
        <4>2. i - Len(best) \in 1 .. Len(pending) /\ Len(best) + (i - Len(best)) = i
          BY <3>1, <3>2, <3>3, <4>1 DEF Items
        <4> QED
          BY <4>2
      <3>5. pending[k].delta = Delta(chain[i], i)
        BY <3>1, <3>4 DEF Items
      <3>6. k \in DOMAIN pending
        BY <1>1, <3>4 DEF UtxoInv, TypeOK
      <3> QED
        BY <3>2, <3>5, <3>6 DEF Delta
    <2>5. NoDoubleSpend
      <3>1. SUFFICES ASSUME status = "up", "reread" \notin events,
                            NEW o \in Created(chain), o \in SpentBy(chain), Seen(o) # 0
                     PROVE  \E k \in DOMAIN pending : pending[k].delta[o] = 0
        BY DEF NoDoubleSpend
      <3>2. o \in Outs
        BY <2>3, <3>1
      <3>3. async /\ disk[o] # 0
        BY <2>1, <3>1, <3>2
      <3> QED
        BY <2>4, <3>1, <3>2, <3>3
    <2> QED
      BY <2>2, <2>5
  <1>2. (Sane => UtxoInv) => LookupsRight
    BY <1>1 DEF LookupsRight
  <1> QED
    BY <1>2, UtxoInvariant, PTL
=============================================================================
