---------------------------- MODULE TxPoolProofs ----------------------------
(***************************************************************************)
(* The maps of the memory pool stay consistent, and the pool can be mined  *)
(* once it has heard of all blocks, for every set of transactions, peers   *)
(* and blocks, and for every limit on orphans.                             *)
(*                                                                         *)
(* Every operation of TxPool changes the maps through four operators:      *)
(* DropOrphans, DropTxs, addTransaction and addOrphan.  Each has a lemma   *)
(* that it keeps the maps consistent; the proof for an action only has to  *)
(* show under which conditions the action calls them.                      *)
(***************************************************************************)
EXTENDS TxPool, FiniteSetTheorems, SequenceTheorems, TLAPS

-----------------------------------------------------------------------------
(* The inductive invariant.                                                *)

PoolType ==
    [pool : SUBSET Txs, outpoints : [OutPoints -> Txs \cup {None}],
     orphans : [Txs -> Tags \cup {None}], orphansByPrev : SUBSET (OutPoints \X Txs)]

ExactOutpoints(m) ==
    \A op \in OutPoints : \A t \in Txs :
        t \in m.pool /\ op \in TxIn[t] <=> m.outpoints[op] = t

ExactOrphans(m) ==
    \A op \in OutPoints : \A t \in Txs :
        <<op, t>> \in m.orphansByPrev <=> t \in Orphans(m) /\ op \in TxIn[t]

Separate(m) == m.pool \cap Orphans(m) = {}

Bounded(m) == Cardinality(Orphans(m)) <= MaxOrphanTxs

\* The maps agree, but for a transaction that may be accepted and an orphan.
Sound(m) == m \in PoolType /\ ExactOutpoints(m) /\ ExactOrphans(m) /\ Bounded(m)

Bodies == Seq(Txs) \ {<<>>}

Kinds == {"connected", "disconnected"}
Points == {"remove", "conflicts", "orphan", "process", "reinsert", "purge"}
Events == [kind : Kinds, txs : Bodies]
Handling == [kind : Kinds, txs : Bodies, pc : Points]

\* What the handler takes from a notification is a transaction.
Flow ==
    /\ chain \in Seq(Bodies) /\ events \in Seq(Events) /\ unsent \in Seq(Events)
    /\ handler = NoEvent \/ handler \in Handling

PoolInv == Sound(mp) /\ Separate(mp) /\ rejected \subseteq Txs /\ Flow

-----------------------------------------------------------------------------
(* The operators.                                                          *)

\* The inputs of a transaction are outpoints.
LEMMA InputsAreOutpoints == \A t \in Txs : TxIn[t] \subseteq OutPoints
  BY DEF OutPoints

\* Removing orphans, whichever they are, keeps the maps consistent, adds no
\* orphan and leaves the pool alone.
LEMMA DropOrphansSound ==
  ASSUME NEW m, Sound(m), NEW ts
  PROVE  /\ Sound(DropOrphans(m, ts))
         /\ Orphans(DropOrphans(m, ts)) = Orphans(m) \ ts
         /\ DropOrphans(m, ts).pool = m.pool
<1> DEFINE n == DropOrphans(m, ts)
<1>1. m \in PoolType
  BY DEF Sound
<1>2. /\ n \in PoolType
      /\ n.pool = m.pool /\ n.outpoints = m.outpoints
      /\ n.orphans = [t \in Txs |-> IF t \in ts THEN None ELSE m.orphans[t]]
      /\ n.orphansByPrev = {e \in m.orphansByPrev : e[2] \notin ts}
  BY <1>1 DEF DropOrphans, PoolType
<1>3. Orphans(n) = Orphans(m) \ ts
  BY <1>2 DEF Orphans
<1>4. ExactOutpoints(n)
  BY <1>2 DEF Sound, ExactOutpoints
<1>5. ExactOrphans(n)
  <2> SUFFICES ASSUME NEW op \in OutPoints, NEW t \in Txs
               PROVE  <<op, t>> \in n.orphansByPrev
                          <=> t \in Orphans(n) /\ op \in TxIn[t]
    BY DEF ExactOrphans
  <2>1. <<op, t>> \in m.orphansByPrev <=> t \in Orphans(m) /\ op \in TxIn[t]
    BY DEF Sound, ExactOrphans
  <2>2. <<op, t>> \in n.orphansByPrev <=> <<op, t>> \in m.orphansByPrev /\ t \notin ts
    BY <1>2
  <2> QED
    BY <2>1, <2>2, <1>3
<1>6. Bounded(n)
  <2>1. IsFiniteSet(Orphans(m))
    BY PoolAssumption, FS_Subset DEF Orphans
  <2>2. Cardinality(Orphans(n)) <= Cardinality(Orphans(m))
        /\ Cardinality(Orphans(n)) \in Nat /\ Cardinality(Orphans(m)) \in Nat
    BY <2>1, <1>3, FS_Subset, FS_CardinalityType
  <2> QED
    BY <2>2, PoolAssumption DEF Sound, Bounded
<1> QED
  BY <1>2, <1>3, <1>4, <1>5, <1>6 DEF Sound

\* Removing transactions from the pool, whichever they are, keeps the maps
\* consistent: an outpoint that is forgotten had no other spender.
LEMMA DropTxsSound ==
  ASSUME NEW m, Sound(m), NEW ts
  PROVE  /\ Sound(DropTxs(m, ts))
         /\ DropTxs(m, ts).pool = m.pool \ ts
         /\ Orphans(DropTxs(m, ts)) = Orphans(m)
<1> DEFINE gone == ts \cap m.pool
           n == DropTxs(m, ts)
<1>1. m \in PoolType
  BY DEF Sound
<1>2. /\ n \in PoolType
      /\ n.pool = m.pool \ ts
      /\ n.outpoints = [op \in OutPoints |->
             IF op \in UNION {TxIn[t] : t \in gone} THEN None ELSE m.outpoints[op]]
      /\ n.orphans = m.orphans /\ n.orphansByPrev = m.orphansByPrev
  BY <1>1 DEF DropTxs, PoolType
<1>3. Orphans(n) = Orphans(m)
  BY <1>2 DEF Orphans
<1>4. ExactOutpoints(n)
  <2> SUFFICES ASSUME NEW op \in OutPoints, NEW t \in Txs
               PROVE  t \in n.pool /\ op \in TxIn[t] <=> n.outpoints[op] = t
    BY DEF ExactOutpoints
  <2>1. \A u \in Txs : u \in m.pool /\ op \in TxIn[u] <=> m.outpoints[op] = u
    BY DEF Sound, ExactOutpoints
  <2>2. m.pool \subseteq Txs
    BY <1>1 DEF PoolType
  <2>3. CASE op \in UNION {TxIn[u] : u \in gone}
    <3>1. PICK u \in gone : op \in TxIn[u]
      BY <2>3
    <3>2. m.outpoints[op] = u
      BY <3>1, <2>1, <2>2
    <3>3. n.outpoints[op] = None
      BY <2>3, <1>2
    <3> QED
      BY <3>1, <3>2, <3>3, <2>1, <1>2, PoolAssumption
  <2>4. CASE op \notin UNION {TxIn[u] : u \in gone}
    <3>1. n.outpoints[op] = m.outpoints[op]
      BY <2>4, <1>2
    <3>2. op \in TxIn[t] /\ t \in m.pool => t \in n.pool
      BY <2>4, <1>2
    <3> QED
      BY <3>1, <3>2, <2>1, <1>2
  <2> QED
    BY <2>3, <2>4
<1>5. ExactOrphans(n) /\ Bounded(n)
  BY <1>2, <1>3 DEF Sound, ExactOrphans, Bounded
<1> QED
  BY <1>2, <1>3, <1>4, <1>5 DEF Sound

\* The transactions named by outpoints for a transaction's inputs are in pool.
LEMMA SpendersInPool ==
  ASSUME NEW m, Sound(m), NEW t \in Txs
  PROVE  Spenders(m, t) \subseteq m.pool
<1> SUFFICES ASSUME NEW op \in TxIn[t], m.outpoints[op] # None
             PROVE  m.outpoints[op] \in m.pool
  BY DEF Spenders
<1>1. op \in OutPoints
  BY InputsAreOutpoints
<1>2. m.outpoints[op] \in Txs
  BY <1>1 DEF Sound, PoolType
<1> QED
  BY <1>1, <1>2 DEF Sound, ExactOutpoints

\* Accepting a transaction, with or without replacement, leaves one spender of
\* each outpoint: what conflicts with it is gone before it is added.
LEMMA AcceptSound ==
  ASSUME NEW m, Sound(m), NEW t \in Txs
  PROVE  /\ Sound(Accept(m, t))
         /\ Accept(m, t).pool \subseteq m.pool \cup {t}
         /\ Orphans(Accept(m, t)) = Orphans(m)
<1> DEFINE ts == IF Spenders(m, t) = {} THEN {} ELSE txConflicts(m, t)
           d == DropTxs(m, ts)
           n == Accept(m, t)
<1>1. Spenders(m, t) \subseteq ts
  BY SpendersInPool DEF Sound, PoolType, txConflicts, txDescendants
<1>2. Sound(d) /\ d.pool = m.pool \ ts /\ Orphans(d) = Orphans(m)
  BY DropTxsSound
<1>3. n = addTransaction(d, t)
  BY DEF Accept
<1> HIDE DEF d, n
<1>4. d \in PoolType
  BY <1>2 DEF Sound
<1>5. /\ n \in PoolType
      /\ n.pool = d.pool \cup {t}
      /\ n.outpoints = [op \in OutPoints |->
                            IF op \in TxIn[t] THEN t ELSE d.outpoints[op]]
      /\ n.orphans = d.orphans /\ n.orphansByPrev = d.orphansByPrev
  BY <1>3, <1>4 DEF addTransaction, PoolType
<1>6. Orphans(n) = Orphans(d)
  BY <1>5 DEF Orphans
<1>7. \A u \in d.pool : TxIn[u] \cap TxIn[t] = {}
  <2> SUFFICES ASSUME NEW u \in d.pool, NEW op \in TxIn[u], op \in TxIn[t]
               PROVE  FALSE
    OBVIOUS
  <2>1. u \in m.pool /\ u \in Txs /\ op \in OutPoints
    BY <1>2, InputsAreOutpoints DEF Sound, PoolType
  <2>2. m.outpoints[op] = u
    BY <2>1 DEF Sound, ExactOutpoints
  <2>3. u \in Spenders(m, t)
    BY <2>1, <2>2, PoolAssumption DEF Spenders
  <2> QED
    BY <2>3, <1>1, <1>2
<1>8. ExactOutpoints(n)
  <2> SUFFICES ASSUME NEW op \in OutPoints, NEW u \in Txs
               PROVE  u \in n.pool /\ op \in TxIn[u] <=> n.outpoints[op] = u
    BY DEF ExactOutpoints
  <2>1. u \in d.pool /\ op \in TxIn[u] <=> d.outpoints[op] = u
    BY <1>2 DEF Sound, ExactOutpoints
  <2>2. CASE op \in TxIn[t]
    BY <2>2, <1>5, <1>7
  <2>3. CASE op \notin TxIn[t]
    BY <2>3, <2>1, <1>5
  <2> QED
    BY <2>2, <2>3
<1>9. ExactOrphans(n) /\ Bounded(n)
  BY <1>2, <1>5, <1>6 DEF Sound, ExactOrphans, Bounded
<1> QED
  BY <1>2, <1>5, <1>6, <1>8, <1>9 DEF Sound, n

\* Adding an orphan makes room first: whatever has expired, and whichever
\* orphan is evicted, the limit holds afterwards.
LEMMA AddOrphanSound ==
  ASSUME NEW m, Sound(m), NEW t \in Txs, NEW tag \in Tags,
         NEW n \in addOrphan(m, t, tag)
  PROVE  /\ Sound(n) /\ n.pool = m.pool
         /\ Orphans(n) \subseteq Orphans(m) \cup {t}
<1>1. CASE MaxOrphanTxs = 0
  BY <1>1 DEF addOrphan
<1>2. CASE MaxOrphanTxs # 0
  <2>0. PICK expired \in SUBSET Orphans(m) :
          \E r \in limitNumOrphans(m, expired) :
              n = [r EXCEPT !.orphans[t] = tag,
                            !.orphansByPrev = @ \cup {<<op, t>> : op \in TxIn[t]}]
    BY <1>2 DEF addOrphan
  <2>1. PICK r \in limitNumOrphans(m, expired) :
          n = [r EXCEPT !.orphans[t] = tag,
                        !.orphansByPrev = @ \cup {<<op, t>> : op \in TxIn[t]}]
    BY <2>0
  <2> DEFINE e == DropOrphans(m, OrphanRedeemers(m, expired))
  <2>2. Sound(e) /\ e.pool = m.pool /\ Orphans(e) \subseteq Orphans(m)
    BY DropOrphansSound
  <2>3. /\ IsFiniteSet(Orphans(e)) /\ Cardinality(Orphans(e)) \in Nat
        /\ MaxOrphanTxs \in Nat
    BY PoolAssumption, FS_Subset, FS_CardinalityType DEF Orphans
  <2>4. /\ Sound(r) /\ r.pool = m.pool /\ Orphans(r) \subseteq Orphans(m)
        /\ Cardinality(Orphans(r)) + 1 <= MaxOrphanTxs
    <3>1. CASE Cardinality(Orphans(e)) + 1 <= MaxOrphanTxs
      <4>1. r = e
        BY <2>1, <3>1 DEF limitNumOrphans
      <4> QED
        BY <4>1, <2>2, <3>1
    <3>2. CASE ~(Cardinality(Orphans(e)) + 1 <= MaxOrphanTxs)
      <4>1. PICK u \in Orphans(e) : r = DropOrphans(e, {u})
        BY <2>1, <3>2 DEF limitNumOrphans
      <4>2. Sound(r) /\ Orphans(r) = Orphans(e) \ {u} /\ r.pool = e.pool
        BY <4>1, <2>2, DropOrphansSound
      <4>3. Cardinality(Orphans(r)) = Cardinality(Orphans(e)) - 1
        <5> HIDE DEF e
        <5>1. Cardinality(Orphans(e) \ {u}) = Cardinality(Orphans(e)) - 1
          BY <4>1, <2>3, FS_RemoveElement
        <5> QED
          BY <5>1, <4>2
      <4>4. Cardinality(Orphans(e)) <= MaxOrphanTxs
        BY <2>2 DEF Sound, Bounded
      <4> QED
        BY <4>2, <4>3, <4>4, <2>2, <2>3
    <3> QED
      BY <3>1, <3>2
  <2>5. r \in PoolType
    BY <2>4 DEF Sound
  <2>6. /\ n \in PoolType
        /\ n.pool = r.pool /\ n.outpoints = r.outpoints
        /\ n.orphans = [r.orphans EXCEPT ![t] = tag]
        /\ n.orphansByPrev = r.orphansByPrev \cup {<<op, t>> : op \in TxIn[t]}
    <3>1. /\ n.pool = r.pool /\ n.outpoints = r.outpoints
          /\ n.orphans = [r.orphans EXCEPT ![t] = tag]
          /\ n.orphansByPrev = r.orphansByPrev \cup {<<op, t>> : op \in TxIn[t]}
      BY <2>1, <2>5 DEF PoolType
    <3>2. {<<op, t>> : op \in TxIn[t]} \subseteq OutPoints \X Txs
      BY InputsAreOutpoints
    <3>3. n \in PoolType
      BY <2>1, <2>5, <3>2 DEF PoolType
    <3> QED
      BY <3>1, <3>3
  <2>7. Orphans(n) = Orphans(r) \cup {t}
    BY <2>5, <2>6, PoolAssumption DEF Orphans, PoolType
  <2>8. Bounded(n)
    <3>1. IsFiniteSet(Orphans(r)) /\ Cardinality(Orphans(r)) \in Nat
      BY PoolAssumption, FS_Subset, FS_CardinalityType DEF Orphans
    <3>2. Cardinality(Orphans(n)) \in {Cardinality(Orphans(r)), Cardinality(Orphans(r)) + 1}
      BY <2>7, <3>1, FS_AddElement
    <3> QED
      BY <3>1, <3>2, <2>3, <2>4 DEF Bounded
  <2>9. ExactOutpoints(n)
    BY <2>4, <2>6 DEF Sound, ExactOutpoints
  <2>10. ExactOrphans(n)
    <3> SUFFICES ASSUME NEW op \in OutPoints, NEW u \in Txs
                 PROVE  <<op, u>> \in n.orphansByPrev
                            <=> u \in Orphans(n) /\ op \in TxIn[u]
      BY DEF ExactOrphans
    <3>1. <<op, u>> \in r.orphansByPrev <=> u \in Orphans(r) /\ op \in TxIn[u]
      BY <2>4 DEF Sound, ExactOrphans
    <3>2. <<op, u>> \in n.orphansByPrev
              <=> <<op, u>> \in r.orphansByPrev \/ (u = t /\ op \in TxIn[t])
      BY <2>6
    <3> QED
      BY <3>1, <3>2, <2>7
  <2> QED
    BY <2>4, <2>6, <2>7, <2>8, <2>9, <2>10 DEF Sound
<1> QED
  BY <1>1, <1>2

\* removeOrphan, with or without what redeems the orphan.
LEMMA RemoveOrphanSound ==
  ASSUME NEW m, Sound(m), NEW t, NEW b \in BOOLEAN
  PROVE  /\ Sound(removeOrphan(m, t, b))
         /\ removeOrphan(m, t, b).pool = m.pool
         /\ Orphans(removeOrphan(m, t, b)) \subseteq Orphans(m) \ {t}
<1>1. CASE t \notin Orphans(m)
  BY <1>1 DEF removeOrphan
<1>2. CASE t \in Orphans(m)
  <2> DEFINE ts == IF b THEN OrphanRedeemers(m, {t}) ELSE {t}
  <2>1. removeOrphan(m, t, b) = DropOrphans(m, ts)
    BY <1>2 DEF removeOrphan
  <2>2. t \in ts
    BY DEF OrphanRedeemers
  <2> HIDE DEF ts
  <2>3. Sound(DropOrphans(m, ts)) /\ DropOrphans(m, ts).pool = m.pool
        /\ Orphans(DropOrphans(m, ts)) = Orphans(m) \ ts
    BY DropOrphansSound
  <2> QED
    BY <2>1, <2>2, <2>3
<1> QED
  BY <1>1, <1>2

\* A transaction is accepted or stored as an orphan only if the pool does not
\* have it; a copy among the orphans counts unless the caller is their loop.
LEMMA VerdictNew ==
  ASSUME NEW m, NEW t, NEW b \in BOOLEAN, NEW r \in BOOLEAN,
         checkMempoolAcceptance(m, t, b, r) \in {"accepted", "missing"}
  PROVE  t \notin m.pool /\ (b => t \notin Orphans(m))
  BY DEF checkMempoolAcceptance, HaveTransaction

-----------------------------------------------------------------------------
(* The actions.                                                            *)

\* ProcessTransaction, from a peer or from an RPC client.
LEMMA ProcessTransactionSound ==
  ASSUME Sound(mp), Separate(mp), NEW t \in Txs, NEW allowOrphan \in BOOLEAN,
         NEW tag, allowOrphan => tag \in Tags, NEW r \in BOOLEAN,
         ProcessTransaction(t, allowOrphan, tag, checkMempoolAcceptance(mp, t, TRUE, r))
  PROVE  Sound(mp') /\ Separate(mp')
<1> DEFINE v == checkMempoolAcceptance(mp, t, TRUE, r)
<1>1. v \in {"accepted", "missing"} => t \notin mp.pool /\ t \notin Orphans(mp)
  BY VerdictNew
<1> HIDE DEF v
<1>2. CASE v = "accepted" /\ mp' = Accept(mp, t)
  <2>1. Sound(mp') /\ mp'.pool \subseteq mp.pool \cup {t} /\ Orphans(mp') = Orphans(mp)
    BY <1>2, AcceptSound, Zenon
  <2> QED
    BY <2>1, <1>1, <1>2 DEF Separate
<1>3. CASE v = "missing" /\ allowOrphan /\ mp' \in addOrphan(mp, t, tag)
  <2>1. Sound(mp') /\ mp'.pool = mp.pool /\ Orphans(mp') \subseteq Orphans(mp) \cup {t}
    BY <1>3, AddOrphanSound, Zenon
  <2> QED
    BY <2>1, <1>1, <1>3 DEF Separate
<1>4. CASE mp' = mp
  BY <1>4
<1> QED
  BY <1>2, <1>3, <1>4 DEF ProcessTransaction, v

\* MaybeAcceptTransaction for a transaction that is not an orphan.
LEMMA AcceptSeparate ==
  ASSUME NEW m, Sound(m), Separate(m), NEW t \in Txs, t \notin Orphans(m)
  PROVE  Sound(Accept(m, t)) /\ Separate(Accept(m, t))
<1>1. /\ Sound(Accept(m, t)) /\ Accept(m, t).pool \subseteq m.pool \cup {t}
      /\ Orphans(Accept(m, t)) = Orphans(m)
  BY AcceptSound
<1> QED
  BY <1>1 DEF Separate

\* Removing orphans or transactions cannot give a transaction a second home.
LEMMA DropSeparate ==
  ASSUME NEW m, Sound(m), Separate(m), NEW ts
  PROVE  /\ Sound(DropOrphans(m, ts)) /\ Separate(DropOrphans(m, ts))
         /\ Sound(DropTxs(m, ts)) /\ Separate(DropTxs(m, ts))
  BY DropOrphansSound, DropTxsSound DEF Separate

\* The loop of processOrphans: an orphan that is accepted leaves the orphans.
LEMMA TryOrphanSound ==
  ASSUME Sound(mp), Separate(mp), NEW t \in Txs, TryOrphan(t)
  PROVE  Sound(mp') /\ Separate(mp')
<1>1. \/ mp' = removeOrphan(mp, t, TRUE)
      \/ mp' = mp
      \/ mp' = removeOrphan(Accept(mp, t), t, FALSE)
  BY DEF TryOrphan
<1>2. CASE mp' = removeOrphan(mp, t, TRUE)
  BY <1>2, RemoveOrphanSound DEF Separate
<1>3. CASE mp' = removeOrphan(Accept(mp, t), t, FALSE)
  <2>1. /\ Sound(Accept(mp, t)) /\ Accept(mp, t).pool \subseteq mp.pool \cup {t}
        /\ Orphans(Accept(mp, t)) = Orphans(mp)
    BY AcceptSound
  <2>2. /\ Sound(mp') /\ mp'.pool = Accept(mp, t).pool
        /\ Orphans(mp') \subseteq Orphans(Accept(mp, t)) \ {t}
    <3> DEFINE a == Accept(mp, t)
    <3> HIDE DEF a
    <3>1. Sound(a) => /\ Sound(removeOrphan(a, t, FALSE))
                      /\ removeOrphan(a, t, FALSE).pool = a.pool
                      /\ Orphans(removeOrphan(a, t, FALSE)) \subseteq Orphans(a) \ {t}
      BY RemoveOrphanSound
    <3> QED
      BY <3>1, <2>1, <1>3 DEF a
  <2> QED
    BY <2>1, <2>2 DEF Separate
<1> QED
  BY <1>1, <1>2, <1>3

\* What a notification carries stays a sequence of transactions.
LEMMA FlowStep ==
  ASSUME Flow, Next
  PROVE  Flow'
<1> USE DEF Flow
<1>1. ASSUME NEW body \in Blocks, ConnectBlock(body)
      PROVE  Flow'
  <2>1. body \in Bodies
    BY PoolAssumption DEF Bodies
  <2>2. [kind |-> "connected", txs |-> body] \in Events
    BY <2>1 DEF Events, Kinds
  <2>3. chain' \in Seq(Bodies)
    BY <1>1, <2>1 DEF ConnectBlock
  <2>4. unsent' \in Seq(Events) /\ events' = events
    BY <1>1, <2>2 DEF ConnectBlock
  <2> QED
    BY <1>1, <2>3, <2>4 DEF ConnectBlock
<1>2. ASSUME DisconnectBlock
      PROVE  Flow'
  <2>1. Last(chain) \in Bodies /\ Front(chain) \in Seq(Bodies)
    BY <1>2 DEF DisconnectBlock, Last, Front
  <2>2. [kind |-> "disconnected", txs |-> Last(chain)] \in Events
    BY <2>1 DEF Events, Kinds
  <2>3. unsent' \in Seq(Events) /\ events' = events
    BY <1>2, <2>2 DEF DisconnectBlock
  <2> QED
    BY <1>2, <2>1, <2>3 DEF DisconnectBlock
<1>3. ASSUME NEW behind \in BOOLEAN, TakeEvent(behind)
      PROVE  Flow'
  <2>1. Head(events) \in Events /\ Tail(events) \in Seq(Events)
    BY <1>3 DEF TakeEvent
  <2>2. handler' = NoEvent \/ handler' \in Handling
    BY <1>3, <2>1 DEF TakeEvent, Events, Handling, Points
  <2> QED
    BY <1>3, <2>1, <2>2 DEF TakeEvent
<1>4. ASSUME NEW pc \in Points, HandlerStep(pc)
      PROVE  handler \in Handling /\ handler # NoEvent
  BY <1>4 DEF HandlerStep, NoEvent, Points, Handling
<1>5. ASSUME ProcessOrphans \/ Reinsert \/ Purge
      PROVE  Flow'
  <2>1. handler \in Handling
    BY <1>4, <1>5 DEF ProcessOrphans, Reinsert, Purge, Points
  <2>2. NextTx(handler) = NoEvent \/ NextTx(handler) \in Handling
    <3>1. CASE Len(handler.txs) = 1
      BY <3>1 DEF NextTx
    <3>2. CASE Len(handler.txs) # 1
      <4>1. handler.txs \in Seq(Txs) /\ handler.txs # <<>>
        BY <2>1 DEF Handling, Bodies
      <4>2. Tail(handler.txs) \in Bodies
        <5> DEFINE s == handler.txs
        <5> HIDE DEF s
        <5>1. s \in Seq(Txs) /\ s # <<>> /\ Len(s) # 1
          BY <4>1, <3>2 DEF s
        <5>2. Tail(s) \in Seq(Txs) /\ Len(Tail(s)) = Len(s) - 1
          BY <5>1
        <5>3. Len(Tail(s)) # 0
          BY <5>1, <5>2
        <5>4. \A q \in Seq(Txs) : Len(q) # 0 => q \in Bodies
          BY DEF Bodies
        <5>5. Tail(s) \in Bodies
          BY <5>2, <5>3, <5>4
        <5> QED
          BY <5>5 DEF s
      <4> QED
        BY <2>1, <3>2, <4>2 DEF NextTx, Handling, Points
    <3> QED
      BY <3>1, <3>2
  <2>3. handler' = NextTx(handler) \/ handler' = [handler EXCEPT !.pc = "purge"]
    BY <1>5 DEF ProcessOrphans, Reinsert, Purge
  <2>4. [handler EXCEPT !.pc = "purge"] \in Handling
    BY <2>1 DEF Handling, Points
  <2>5. UNCHANGED <<chain, unsent, events>>
    BY <1>5 DEF ProcessOrphans, Reinsert, Purge, Quiet
  <2> QED
    BY <2>2, <2>3, <2>4, <2>5
<1>11. ASSUME RemoveTransaction \/ RemoveConflicts \/ RemoveOrphan
       PROVE  Flow'
  <2>1. handler \in Handling
    BY <1>4, <1>11 DEF RemoveTransaction, RemoveConflicts, RemoveOrphan, Points
  <2>2. handler' \in Handling
    BY <1>11, <2>1 DEF RemoveTransaction, RemoveConflicts, RemoveOrphan, Handling, Points
  <2> QED
    BY <1>11, <2>2 DEF RemoveTransaction, RemoveConflicts, RemoveOrphan, Quiet
<1>6. ASSUME UNCHANGED <<chain, unsent, events, handler>>
      PROVE  Flow'
  BY <1>6
<1>7. ASSUME NEW t \in Txs, SendRawTransaction(t) \/ TryOrphan(t)
      PROVE  UNCHANGED <<chain, unsent, events, handler>>
  BY <1>7 DEF SendRawTransaction, TryOrphan
<1>8. ASSUME NEW t \in Txs, NEW tag \in Tags, handleTxMsg(t, tag)
      PROVE  UNCHANGED <<chain, unsent, events, handler>>
  BY <1>8 DEF handleTxMsg
<1>9. ASSUME NextOutpoint \/ EndOrphans
      PROVE  UNCHANGED <<chain, unsent, events, handler>>
  BY <1>9 DEF NextOutpoint, EndOrphans
<1>10. ASSUME NEW tag \in Tags, RemoveOrphansByTag(tag)
       PROVE  UNCHANGED <<chain, unsent, events, handler>>
  BY <1>10 DEF RemoveOrphansByTag
<1>12. ASSUME NEW i \in DOMAIN unsent, NEW dropped \in BOOLEAN, Notify(i, dropped)
       PROVE  Flow'
  <2>1. unsent[i] \in Events /\ Append(events, unsent[i]) \in Seq(Events)
    BY <1>12
  <2>2. RemoveAt(unsent, i) \in Seq(Events)
    <3>1. SubSeq(unsent, 1, i - 1) \in Seq(Events) /\ SubSeq(unsent, i + 1, Len(unsent)) \in Seq(Events)
      BY <1>12
    <3> QED
      BY <3>1 DEF RemoveAt
  <2> QED
    BY <1>12, <2>1, <2>2 DEF Notify
<1> QED
  BY <1>1, <1>2, <1>3, <1>5, <1>11, <1>6, <1>7, <1>8, <1>9, <1>10, <1>12 DEF Next

\* Every step of the pool and of the handler keeps the maps consistent.
LEMMA MapsStep ==
  ASSUME PoolInv, Next
  PROVE  Sound(mp') /\ Separate(mp') /\ rejected' \subseteq Txs
<1> USE DEF PoolInv
<1>1. ASSUME NEW t \in Txs, SendRawTransaction(t)
      PROVE  Sound(mp') /\ Separate(mp') /\ rejected' \subseteq Txs
  <2>1. PICK r \in Verdicts(t) :
          ProcessTransaction(t, FALSE, None, checkMempoolAcceptance(mp, t, TRUE, r))
    BY <1>1 DEF SendRawTransaction
  <2>2. r \in BOOLEAN
    BY <2>1 DEF Verdicts
  <2>3. Sound(mp') /\ Separate(mp')
    BY <2>1, <2>2, ProcessTransactionSound
  <2> QED
    BY <1>1, <2>3 DEF SendRawTransaction
<1>2. ASSUME NEW t \in Txs, NEW tag \in Tags, handleTxMsg(t, tag)
      PROVE  Sound(mp') /\ Separate(mp') /\ rejected' \subseteq Txs
  <2>1. PICK r \in Verdicts(t) :
          ProcessTransaction(t, TRUE, tag, checkMempoolAcceptance(mp, t, TRUE, r))
    BY <1>2 DEF handleTxMsg
  <2>2. r \in BOOLEAN
    BY <2>1 DEF Verdicts
  <2>3. Sound(mp') /\ Separate(mp')
    BY <2>1, <2>2, ProcessTransactionSound
  <2>4. rejected' \subseteq rejected \cup {t}
    BY <1>2 DEF handleTxMsg
  <2> QED
    BY <2>3, <2>4
<1>3. ASSUME NEW t \in Txs, TryOrphan(t)
      PROVE  Sound(mp') /\ Separate(mp') /\ rejected' \subseteq Txs
  <2>1. rejected' = rejected
    BY <1>3 DEF TryOrphan
  <2> QED
    BY <1>3, <2>1, TryOrphanSound
<1>4. ASSUME NEW tag \in Tags, RemoveOrphansByTag(tag)
      PROVE  Sound(mp') /\ Separate(mp') /\ rejected' \subseteq Txs
  BY <1>4, DropSeparate DEF RemoveOrphansByTag
<1>5. CASE EndOrphans
  BY <1>5, DropSeparate DEF EndOrphans, removeOrphanDoubleSpends
<1>6. CASE RemoveTransaction \/ RemoveConflicts \/ Purge
  BY <1>6, DropSeparate
     DEF RemoveTransaction, RemoveConflicts, Purge, Quiet, removeTransaction,
         RemoveDoubleSpends
<1>7. CASE RemoveOrphan
  <2>1. mp' = removeOrphan(mp, Head(handler.txs), FALSE) /\ rejected' = rejected
    BY <1>7 DEF RemoveOrphan, Quiet
  <2> QED
    BY <2>1, RemoveOrphanSound DEF Separate
<1>8. CASE Reinsert
  <2> DEFINE t == Head(handler.txs)
  <2>1. t \in Txs
    BY <1>8 DEF Reinsert, HandlerStep, NoEvent, Flow, Bodies, Handling
  <2>2. PICK r \in Verdicts(t) :
          mp' = IF checkMempoolAcceptance(mp, t, TRUE, r) = "accepted"
                THEN Accept(mp, t) ELSE mp
    BY <1>8 DEF Reinsert
  <2>3. r \in BOOLEAN
    BY <2>2 DEF Verdicts
  <2>4. rejected' = rejected
    BY <1>8 DEF Reinsert, Quiet
  <2> HIDE DEF t
  <2>5. CASE checkMempoolAcceptance(mp, t, TRUE, r) = "accepted"
    <3>1. t \notin Orphans(mp)
      BY <2>3, <2>5, VerdictNew
    <3> QED
      BY <2>1, <2>2, <2>4, <2>5, <3>1, AcceptSeparate
  <2>6. CASE checkMempoolAcceptance(mp, t, TRUE, r) # "accepted"
    BY <2>2, <2>4, <2>6
  <2> QED
    BY <2>5, <2>6
<1>9. CASE NextOutpoint \/ ProcessOrphans
  BY <1>9 DEF NextOutpoint, ProcessOrphans, Quiet
<1>10. ASSUME NEW body \in Blocks, ConnectBlock(body)
       PROVE  Sound(mp') /\ Separate(mp') /\ rejected' \subseteq Txs
  BY <1>10 DEF ConnectBlock
<1>11. ASSUME DisconnectBlock
       PROVE  Sound(mp') /\ Separate(mp') /\ rejected' \subseteq Txs
  BY <1>11 DEF DisconnectBlock
<1>12. ASSUME NEW behind \in BOOLEAN, TakeEvent(behind)
       PROVE  Sound(mp') /\ Separate(mp') /\ rejected' \subseteq Txs
  BY <1>12 DEF TakeEvent
<1>13. ASSUME NEW i \in DOMAIN unsent, NEW dropped \in BOOLEAN, Notify(i, dropped)
       PROVE  Sound(mp') /\ Separate(mp') /\ rejected' \subseteq Txs
  BY <1>13 DEF Notify
<1> QED
  BY <1>1, <1>2, <1>3, <1>4, <1>5, <1>6, <1>7, <1>8, <1>9, <1>10, <1>11, <1>12, <1>13 DEF Next

-----------------------------------------------------------------------------
(* The theorems about the maps.                                            *)

\* An empty pool is consistent.
LEMMA InitPool ==
  ASSUME Init
  PROVE  PoolInv
<1>1. /\ mp \in PoolType
      /\ mp.pool = {} /\ mp.outpoints = [op \in OutPoints |-> None]
      /\ mp.orphans = [t \in Txs |-> None] /\ mp.orphansByPrev = {}
  BY DEF Init, PoolType
<1>2. Orphans(mp) = {}
  BY <1>1 DEF Orphans
<1>3. ExactOutpoints(mp) /\ ExactOrphans(mp)
  BY <1>1, <1>2, PoolAssumption DEF ExactOutpoints, ExactOrphans
<1>4. Bounded(mp)
  BY <1>2, FS_EmptySet, PoolAssumption DEF Bounded
<1>5. Flow /\ rejected = {}
  BY DEF Init, Flow
<1> QED
  BY <1>1, <1>2, <1>3, <1>4, <1>5 DEF PoolInv, Sound, Separate

\* The maps of the pool (mempool.go) are consistent at all times.
THEOREM PoolInvariant == Spec => []PoolInv
<1>1. PoolInv /\ [Next]_vars => PoolInv'
  <2> SUFFICES ASSUME PoolInv, [Next]_vars PROVE PoolInv'
    OBVIOUS
  <2>1. CASE Next
    <3>1. Flow'
      BY <2>1, FlowStep DEF PoolInv
    <3>2. Sound(mp') /\ Separate(mp') /\ rejected' \subseteq Txs
      BY <2>1, MapsStep
    <3> QED
      BY <3>1, <3>2 DEF PoolInv, Sound, Separate, PoolType, ExactOutpoints,
                        ExactOrphans, Bounded, Orphans
  <2>2. CASE UNCHANGED vars
    BY <2>2 DEF vars, PoolInv, Sound, Separate, PoolType, ExactOutpoints,
                ExactOrphans, Bounded, Orphans, Flow
  <2> QED
    BY <2>1, <2>2
<1> QED
  BY <1>1, InitPool, PTL DEF Spec

\* TypeOK of TxPool: in particular addOrphan never exceeds MaxOrphanTxs.
THEOREM PoolTypeCorrect == Spec => []TypeOK
<1>1. PoolInv => TypeOK
  BY DEF PoolInv, Sound, PoolType, Bounded, TypeOK
<1> QED
  BY <1>1, PoolInvariant, PTL

\* OutpointsExact of TxPool: no double spend in the pool, no stale entry of
\* mp.outpoints, through acceptance, replacement, confirmation, reinsertion.
THEOREM OutpointsAlways == Spec => []OutpointsExact
<1>1. PoolInv => OutpointsExact
  BY DEF PoolInv, Sound, ExactOutpoints, OutpointsExact
<1> QED
  BY <1>1, PoolInvariant, PTL

\* OrphanIndexExact of TxPool: mp.orphansByPrev leads to exactly the orphans.
THEOREM OrphansAlways == Spec => []OrphanIndexExact
<1>1. PoolInv => OrphanIndexExact
  BY DEF PoolInv, Sound, ExactOrphans, OrphanIndexExact
<1> QED
  BY <1>1, PoolInvariant, PTL

\* OneHome of TxPool: nothing is in the pool and an orphan at once.
THEOREM OneHomeAlways == Spec => []OneHome
<1>1. PoolInv => OneHome
  BY DEF PoolInv, Separate, OneHome
<1> QED
  BY <1>1, PoolInvariant, PTL

\* PoolConsistent of TxPool: the four maps of mempool.go agree, for any set of
\* transactions, blocks and clients.
THEOREM PoolAlways == Spec => []PoolConsistent
<1>1. TypeOK /\ OutpointsExact /\ OrphanIndexExact /\ OneHome => PoolConsistent
  BY DEF PoolConsistent
<1> QED
  BY <1>1, PoolTypeCorrect, OutpointsAlways, OrphansAlways, OneHomeAlways, PTL

-----------------------------------------------------------------------------
(***************************************************************************)
(* The pool can be mined (PoolMinable).                                    *)
(*                                                                         *)
(* The pool follows the chain at a distance, and takes transactions that   *)
(* are checked against the chain as it is: so it agrees neither with the   *)
(* chain nor with the chain as far as it was told.  The invariant says of  *)
(* each disagreement which notification on its way will end it.  It holds  *)
(* until a notification is missed or overtakes another.  Pending are those *)
(* on their way, in the order of the chain's changes.                      *)
(***************************************************************************)

Pending == events \o unsent

\* The transactions of the notifications from the k-th on.
Later(ev, k) == UNION {ToSet(ev[j].txs) : j \in k .. Len(ev)}

Rest(h, i) == {h.txs[j] : j \in i .. Len(h.txs)}

\* What the handler has still to remove, and still to remove the conflicts of.
ToRemove(h) == Rest(h, IF h.pc \in {"conflicts", "orphan", "process"} THEN 2 ELSE 1)
ToSettle(h) == Rest(h, IF h.pc \in {"orphan", "process"} THEN 2 ELSE 1)

\* The chain is one: no transaction twice, none before what it spends.
Grown(c) ==
    /\ \A k \in DOMAIN c : \A t \in ToSet(c[k]) : \A op \in TxIn[t] :
          op \in Coins \/ \E j \in 1 .. k : \E u \in ToSet(c[j]) : op \in Outputs(u)
    /\ \A j, k \in DOMAIN c : j < k => ToSet(c[j]) \cap ToSet(c[k]) = {}

\* The body of a connected block has no transaction before what it spends.
InOrder(body) ==
    \A i, j \in DOMAIN body : j <= i => TxIn[body[j]] \cap Outputs(body[i]) = {}

Sorted(ev) == \A k \in DOMAIN ev : ev[k].kind = "connected" => InOrder(ev[k].txs)

\* Blocks are removed from the pool, disconnected ones come back.
Phases(h) ==
    h # NoEvent =>
      (h.kind = "connected" <=> h.pc \in {"remove", "conflicts", "orphan", "process"})

\* The last notification of a transaction says whether it is in the chain.
LastWord(c, ev, h) ==
    /\ \A k \in DOMAIN ev : \A t \in ToSet(ev[k].txs) \ Later(ev, k + 1) :
          ev[k].kind = "connected" <=> t \in Confirmed(c)
    /\ \A t \in Rest(h, 1) \ Later(ev, 1) : h.kind = "connected" <=> t \in Confirmed(c)

\* What is no longer confirmed is going to be disconnected.
Recalled(c, ev, h) ==
    /\ \A k \in DOMAIN ev : ev[k].kind = "connected" =>
          \A t \in ToSet(ev[k].txs) \ Confirmed(c) : \E j \in DOMAIN ev :
             j > k /\ ev[j].kind = "disconnected" /\ t \in ToSet(ev[j].txs)
    /\ h.kind = "connected" =>
          \A t \in Rest(h, 1) \ Confirmed(c) : \E j \in DOMAIN ev :
             ev[j].kind = "disconnected" /\ t \in ToSet(ev[j].txs)

\* A confirmed transaction has its last notification not before its parents'.
InTurn(c, ev, h) ==
    \A t \in Confirmed(c) : \A u \in Txs : TxIn[t] \cap Outputs(u) # {} =>
      /\ \A k \in DOMAIN ev : u \in ToSet(ev[k].txs) => t \in Later(ev, k)
      /\ \A i \in DOMAIN h.txs : u = h.txs[i] => t \in Later(ev, 1) \cup Rest(h, i)

\* A confirmed transaction of the pool, and one that spends what a transaction
\* of the pool spends, is going to be handled.
Removed(c, ev, h, p) == p \cap Confirmed(c) \subseteq Later(ev, 1) \cup ToRemove(h)
Settling(c, ev, h, p) ==
    \A t \in p, s \in Confirmed(c) :
       TxIn[t] \cap TxIn[s] # {} => s \in Later(ev, 1) \cup ToSettle(h)

\* A notification has yet to bring the transaction back to the pool.
Coming(ev, h, t) ==
    \/ \E k \in DOMAIN ev : ev[k].kind = "disconnected" /\ t \in ToSet(ev[k].txs)
    \/ h.kind = "disconnected" /\ t \in Rest(h, 1)

\* What a transaction of the pool spends is somewhere.
Rooted(c, ev, h, p) ==
    \A t \in p : \A op \in TxIn[t] :
       op \in Coins \/ \E u \in Txs :
          op \in Outputs(u) /\ (u \in p \/ u \in Confirmed(c) \/ Coming(ev, h, u))

Followed ==
    /\ LastWord(chain, Pending, handler) /\ InTurn(chain, Pending, handler)
    /\ Recalled(chain, Pending, handler)
    /\ Removed(chain, Pending, handler, mp.pool)
    /\ Settling(chain, Pending, handler, mp.pool)
    /\ ~ unrestored => Rooted(chain, Pending, handler, mp.pool)
    /\ Sorted(Pending)

ChaseInv ==
    /\ PoolInv /\ Grown(chain) /\ Phases(handler)
    /\ missed \in Nat /\ unrestored \in BOOLEAN /\ overtaken \in BOOLEAN
    /\ missed = 0 /\ ~ overtaken => Followed

-----------------------------------------------------------------------------
(* Outpoints, the chain and the notifications.                             *)

\* An outpoint has one creator.
LEMMA OneCreator ==
  ASSUME NEW u \in Txs, NEW op \in Outputs(u)
  PROVE  op \notin Coins /\ \A w : op \in Outputs(w) => w = u
<1>1. op[1] = u
  BY DEF Outputs
<1>2. \A w : op \in Outputs(w) => op[1] = w
  BY DEF Outputs
<1> QED
  BY <1>1, <1>2, PoolAssumption

\* The transactions of a body.
LEMMA BodySet ==
  ASSUME NEW body \in Seq(Txs)
  PROVE  /\ ToSet(body) = {body[i] : i \in 1 .. Len(body)} /\ ToSet(body) \subseteq Txs
         /\ DOMAIN body = 1 .. Len(body) /\ Len(body) \in Nat
  BY DEF ToSet

\* Appending a body confirms its transactions.
LEMMA ConfirmedAppend ==
  ASSUME NEW c \in Seq(Seq(Txs)), NEW body \in Seq(Txs)
  PROVE  Confirmed(Append(c, body)) = Confirmed(c) \cup ToSet(body)
<1> DEFINE d == Append(c, body)
<1>1. /\ DOMAIN d = 1 .. Len(c) + 1 /\ DOMAIN c = 1 .. Len(c) /\ Len(c) \in Nat
      /\ d[Len(c) + 1] = body /\ \A i \in 1 .. Len(c) : d[i] = c[i]
  OBVIOUS
<1> HIDE DEF d
<1>2. ASSUME NEW t \in Confirmed(d) PROVE t \in Confirmed(c) \cup ToSet(body)
  <2>1. PICK i \in 1 .. Len(c) + 1 : t \in ToSet(d[i])
    BY <1>1, <1>2 DEF Confirmed
  <2>2. CASE i = Len(c) + 1
    BY <1>1, <2>1, <2>2
  <2>3. CASE i # Len(c) + 1
    <3>1. i \in DOMAIN c /\ d[i] = c[i]
      BY <1>1, <2>1, <2>3
    <3> QED
      BY <2>1, <3>1 DEF Confirmed
  <2> QED
    BY <2>2, <2>3
<1>3. ASSUME NEW t \in Confirmed(c) PROVE t \in Confirmed(d)
  <2>1. PICK i \in 1 .. Len(c) : t \in ToSet(c[i])
    BY <1>1, <1>3 DEF Confirmed
  <2>2. i \in DOMAIN d /\ d[i] = c[i]
    BY <1>1, <2>1
  <2> QED
    BY <2>1, <2>2 DEF Confirmed
<1>4. ToSet(body) \subseteq Confirmed(d)
  <2>1. Len(c) + 1 \in DOMAIN d /\ d[Len(c) + 1] = body
    BY <1>1
  <2> QED
    BY <2>1 DEF Confirmed
<1> QED
  BY <1>2, <1>3, <1>4 DEF d

\* The blocks of a chain and what they confirm.
LEMMA ChainTypes ==
  ASSUME NEW c \in Seq(Bodies)
  PROVE  /\ c \in Seq(Seq(Txs)) /\ DOMAIN c = 1 .. Len(c) /\ Len(c) \in Nat
         /\ \A k \in DOMAIN c : c[k] \in Seq(Txs)
         /\ Confirmed(c) \subseteq Txs
<1>1. Bodies \subseteq Seq(Txs)
  BY DEF Bodies
<1>2. c \in Seq(Seq(Txs)) /\ DOMAIN c = 1 .. Len(c) /\ Len(c) \in Nat
  BY <1>1
<1>3. \A k \in DOMAIN c : c[k] \in Seq(Txs)
  BY <1>2
<1>4. Confirmed(c) \subseteq Txs
  BY <1>3, BodySet DEF Confirmed
<1> QED
  BY <1>2, <1>3, <1>4

\* What a confirmed transaction spends is confirmed too, or a coin.
LEMMA GrownSpent ==
  ASSUME NEW c \in Seq(Bodies), Grown(c), NEW t \in Confirmed(c), NEW op \in TxIn[t],
         NEW u \in Txs, op \in Outputs(u)
  PROVE  u \in Confirmed(c)
<1>1. /\ DOMAIN c = 1 .. Len(c) /\ Len(c) \in Nat
      /\ \A k \in DOMAIN c : c[k] \in Seq(Txs)
  BY ChainTypes
<1>2. PICK k \in DOMAIN c : t \in ToSet(c[k])
  BY DEF Confirmed
<1>3. op \notin Coins /\ \A w : op \in Outputs(w) => w = u
  BY OneCreator
<1>4. PICK j \in 1 .. k : \E w \in ToSet(c[j]) : op \in Outputs(w)
  BY <1>2, <1>3 DEF Grown
<1>5. j \in DOMAIN c /\ u \in ToSet(c[j])
  BY <1>1, <1>2, <1>3, <1>4
<1> QED
  BY <1>5 DEF Confirmed

\* A block that was checked: nothing in it is confirmed, and it is in order.
LEMMA ValidBody ==
  ASSUME NEW c \in Seq(Bodies), NEW body \in Bodies, Valid(c, body)
  PROVE  /\ ToSet(body) \cap Confirmed(c) = {}
         /\ InOrder(body)
         /\ \A t \in ToSet(body) : \A op \in TxIn[t] :
              op \in Coins \/ \E u \in Confirmed(c) \cup ToSet(body) : op \in Outputs(u)
<1>1. /\ body \in Seq(Txs) /\ DOMAIN body = 1 .. Len(body) /\ Len(body) \in Nat
      /\ ToSet(body) = {body[i] : i \in 1 .. Len(body)}
  BY BodySet DEF Bodies
<1>2. ASSUME NEW i \in 1 .. Len(body)
      PROVE  /\ body[i] \notin Confirmed(c)
             /\ \A j \in 1 .. i - 1 : body[i] # body[j]
             /\ \A op \in TxIn[body[i]] :
                   op \in Coins \/ \E u \in Confirmed(c) \cup {body[j] : j \in 1 .. i - 1} :
                                      op \in Outputs(u)
  <2> DEFINE s == SubSeq(body, 1, i - 1)
  <2>1. s \in Seq(Txs) /\ Len(s) = i - 1 /\ \A j \in 1 .. i - 1 : s[j] = body[j]
    BY <1>1, <1>2
  <2>2. ToSet(s) = {body[j] : j \in 1 .. i - 1}
    BY <2>1, BodySet
  <2>3. body[i] \notin Confirmed(Append(c, s)) /\ TxIn[body[i]] \subseteq Unspent(Append(c, s))
    BY <1>1, <1>2 DEF Valid
  <2>4. Confirmed(Append(c, s)) = Confirmed(c) \cup ToSet(s)
    BY <2>1, ChainTypes, ConfirmedAppend
  <2> HIDE DEF s
  <2>5. \A op \in TxIn[body[i]] :
           op \in Coins \/ \E u \in Confirmed(Append(c, s)) : op \in Outputs(u)
    BY <2>3 DEF Unspent
  <2> QED
    BY <2>2, <2>3, <2>4, <2>5
<1>3. InOrder(body)
  <2> SUFFICES ASSUME NEW i \in 1 .. Len(body), NEW j \in 1 .. Len(body), j <= i,
                      NEW op \in TxIn[body[j]], op \in Outputs(body[i])
               PROVE  FALSE
    BY <1>1 DEF InOrder
  <2>1. body[i] \in Txs
    BY <1>1
  <2>2. op \notin Coins /\ \A w : op \in Outputs(w) => w = body[i]
    BY <2>1, OneCreator
  <2>3. body[i] \in Confirmed(c) \cup {body[k] : k \in 1 .. j - 1}
    BY <1>2, <2>2
  <2>4. \A k \in 1 .. j - 1 : k \in 1 .. i - 1
    BY <1>1
  <2> QED
    BY <1>2, <2>3, <2>4
<1>4. \A i \in 1 .. Len(body) : {body[j] : j \in 1 .. i - 1} \subseteq ToSet(body)
  <2> SUFFICES ASSUME NEW i \in 1 .. Len(body), NEW j \in 1 .. i - 1
               PROVE  j \in 1 .. Len(body)
    BY <1>1
  <2> QED
    BY <1>1
<1> QED
  BY <1>1, <1>2, <1>3, <1>4

\* A chain that takes a checked block is one still.
LEMMA ConnectGrown ==
  ASSUME NEW c \in Seq(Bodies), Grown(c), NEW body \in Bodies, Valid(c, body)
  PROVE  Grown(Append(c, body))
<1> DEFINE d == Append(c, body)
<1>1. /\ DOMAIN d = 1 .. Len(c) + 1 /\ DOMAIN c = 1 .. Len(c) /\ Len(c) \in Nat
      /\ d[Len(c) + 1] = body /\ \A i \in 1 .. Len(c) : d[i] = c[i]
  OBVIOUS
<1> HIDE DEF d
<1>2. /\ ToSet(body) \cap Confirmed(c) = {}
      /\ \A t \in ToSet(body) : \A op \in TxIn[t] :
           op \in Coins \/ \E u \in Confirmed(c) \cup ToSet(body) : op \in Outputs(u)
  BY ValidBody
<1>3. ASSUME NEW k \in DOMAIN d, NEW t \in ToSet(d[k]), NEW op \in TxIn[t], op \notin Coins
      PROVE  \E j \in 1 .. k : \E u \in ToSet(d[j]) : op \in Outputs(u)
  <2>1. CASE k \in 1 .. Len(c)
    <3>1. PICK j \in 1 .. k : \E u \in ToSet(c[j]) : op \in Outputs(u)
      BY <1>1, <1>3, <2>1 DEF Grown
    <3>2. d[j] = c[j]
      BY <1>1, <2>1, <3>1
    <3> QED
      BY <3>1, <3>2
  <2>2. CASE k = Len(c) + 1
    <3>1. PICK u \in Confirmed(c) \cup ToSet(body) : op \in Outputs(u)
      BY <1>1, <1>2, <1>3, <2>2
    <3>2. CASE u \in ToSet(body)
      BY <1>1, <2>2, <3>1, <3>2
    <3>3. CASE u \in Confirmed(c)
      <4>1. PICK j \in 1 .. Len(c) : u \in ToSet(c[j])
        BY <1>1, <3>3 DEF Confirmed
      <4>2. j \in 1 .. k /\ d[j] = c[j]
        BY <1>1, <2>2, <4>1
      <4> QED
        BY <3>1, <4>1, <4>2
    <3> QED
      BY <3>1, <3>2, <3>3
  <2> QED
    BY <1>1, <2>1, <2>2
<1>4. ASSUME NEW j \in DOMAIN d, NEW k \in DOMAIN d, j < k
      PROVE  ToSet(d[j]) \cap ToSet(d[k]) = {}
  <2>1. j \in DOMAIN c /\ d[j] = c[j]
    BY <1>1, <1>4
  <2>2. CASE k \in 1 .. Len(c)
    BY <1>1, <1>4, <2>1, <2>2 DEF Grown
  <2>3. CASE k = Len(c) + 1
    <3>1. ToSet(c[j]) \subseteq Confirmed(c)
      BY <2>1 DEF Confirmed
    <3> QED
      BY <1>1, <1>2, <2>1, <2>3, <3>1
  <2> QED
    BY <1>1, <2>2, <2>3
<1> QED
  BY <1>3, <1>4 DEF Grown, d

\* A chain without its last block is one still, and confirms that much less.
LEMMA FrontGrown ==
  ASSUME NEW c \in Seq(Bodies), Grown(c), c # <<>>
  PROVE  /\ Front(c) \in Seq(Bodies) /\ Last(c) \in Bodies /\ Grown(Front(c))
         /\ Confirmed(c) = Confirmed(Front(c)) \cup ToSet(Last(c))
         /\ ToSet(Last(c)) \cap Confirmed(Front(c)) = {}
<1> DEFINE n == Len(c) - 1
           f == Front(c)
<1>1. n \in Nat /\ Len(c) = n + 1 /\ DOMAIN c = 1 .. n + 1
  OBVIOUS
<1>2. f \in Seq(Bodies) /\ DOMAIN f = 1 .. n /\ \A i \in 1 .. n : f[i] = c[i]
  BY <1>1 DEF Front
<1>3. Last(c) = c[n + 1] /\ Last(c) \in Bodies
  BY <1>1 DEF Last
<1> HIDE DEF n, f
<1>4. Grown(f)
  <2>1. ASSUME NEW k \in 1 .. n, NEW t \in ToSet(f[k]), NEW op \in TxIn[t], op \notin Coins
        PROVE  \E j \in 1 .. k : \E u \in ToSet(f[j]) : op \in Outputs(u)
    <3>1. k \in DOMAIN c /\ f[k] = c[k]
      BY <1>1, <1>2, <2>1
    <3>2. PICK j \in 1 .. k : \E u \in ToSet(c[j]) : op \in Outputs(u)
      BY <2>1, <3>1 DEF Grown
    <3>3. f[j] = c[j]
      BY <1>1, <1>2, <2>1, <3>2
    <3> QED
      BY <3>2, <3>3
  <2>2. ASSUME NEW j \in 1 .. n, NEW k \in 1 .. n, j < k
        PROVE  ToSet(f[j]) \cap ToSet(f[k]) = {}
    <3>1. j \in DOMAIN c /\ k \in DOMAIN c /\ f[j] = c[j] /\ f[k] = c[k]
      BY <1>1, <1>2, <2>2
    <3> QED
      BY <2>2, <3>1 DEF Grown
  <2> QED
    BY <1>2, <2>1, <2>2 DEF Grown
<1>5. Confirmed(f) = UNION {ToSet(c[i]) : i \in 1 .. n}
  BY <1>2 DEF Confirmed
<1>6. Confirmed(c) = UNION {ToSet(c[i]) : i \in 1 .. n + 1}
  BY <1>1 DEF Confirmed
<1>7. \A i \in 1 .. n + 1 : i \in 1 .. n \/ i = n + 1
  BY <1>1
<1>8. (\A i \in 1 .. n : i \in 1 .. n + 1) /\ n + 1 \in 1 .. n + 1
  BY <1>1
<1>9. Confirmed(c) = Confirmed(f) \cup ToSet(c[n + 1])
  BY <1>5, <1>6, <1>7, <1>8
<1>10. ASSUME NEW t \in Confirmed(f) PROVE t \notin ToSet(c[n + 1])
  <2>1. PICK i \in 1 .. n : t \in ToSet(c[i])
    BY <1>5, <1>10
  <2>2. i \in DOMAIN c /\ n + 1 \in DOMAIN c /\ i < n + 1
    BY <1>1, <2>1
  <2> QED
    BY <2>1, <2>2 DEF Grown
<1> QED
  BY <1>2, <1>3, <1>4, <1>9, <1>10 DEF f

\* One more notification, and one less.
LEMMA LaterAppend ==
  ASSUME NEW ev \in Seq(Events), NEW e \in Events
  PROVE  /\ \A k \in 1 .. Len(ev) + 1 : Later(Append(ev, e), k) = Later(ev, k) \cup ToSet(e.txs)
         /\ Later(ev, Len(ev) + 1) = {} /\ Later(Append(ev, e), Len(ev) + 2) = {}
         /\ DOMAIN Append(ev, e) = 1 .. Len(ev) + 1 /\ DOMAIN ev = 1 .. Len(ev)
         /\ \A k \in 1 .. Len(ev) : Append(ev, e)[k] = ev[k]
         /\ Append(ev, e)[Len(ev) + 1] = e /\ Len(ev) \in Nat
<1> DEFINE n == Len(ev)
           d == Append(ev, e)
<1>1. /\ n \in Nat /\ Len(d) = n + 1 /\ DOMAIN d = 1 .. n + 1 /\ DOMAIN ev = 1 .. n
      /\ d[n + 1] = e /\ \A k \in 1 .. n : d[k] = ev[k]
  OBVIOUS
<1> HIDE DEF n, d
<1>2. ASSUME NEW k \in 1 .. n + 1 PROVE Later(d, k) = Later(ev, k) \cup ToSet(e.txs)
  <2>1. Later(d, k) = UNION {ToSet(d[j].txs) : j \in k .. n + 1}
    BY <1>1 DEF Later
  <2>2. Later(ev, k) = UNION {ToSet(d[j].txs) : j \in k .. n}
    <3>1. \A j \in k .. n : d[j] = ev[j]
      BY <1>1, <1>2
    <3> QED
      BY <3>1 DEF Later, n
  <2>3. (\A j \in k .. n + 1 : j \in k .. n \/ j = n + 1) /\ n + 1 \in k .. n + 1
    BY <1>1, <1>2
  <2>4. \A j \in k .. n : j \in k .. n + 1
    BY <1>1, <1>2
  <2> QED
    BY <1>1, <2>1, <2>2, <2>3, <2>4
<1>3. Later(ev, n + 1) = {} /\ Later(d, n + 2) = {}
  <2>1. (n + 1) .. n = {} /\ (n + 2) .. n + 1 = {}
    BY <1>1
  <2> QED
    BY <1>1, <2>1 DEF Later, n
<1> QED
  BY <1>1, <1>2, <1>3 DEF n, d

\* When the first notification is taken the others move up.
LEMMA LaterTail ==
  ASSUME NEW ev \in Seq(Events), ev # <<>>
  PROVE  /\ \A k \in Nat \ {0} : Later(Tail(ev), k) = Later(ev, k + 1)
         /\ Later(ev, 1) = ToSet(ev[1].txs) \cup Later(ev, 2)
         /\ DOMAIN ev = 1 .. Len(ev) /\ 1 \in DOMAIN ev /\ Head(ev) = ev[1]
         /\ \A k \in DOMAIN Tail(ev) :
              k \in Nat \ {0} /\ k + 1 \in DOMAIN ev /\ Tail(ev)[k] = ev[k + 1]
<1> DEFINE n == Len(ev)
           f == Tail(ev)
<1>1. /\ n \in Nat \ {0} /\ Len(f) = n - 1 /\ DOMAIN f = 1 .. n - 1 /\ DOMAIN ev = 1 .. n
      /\ Head(ev) = ev[1] /\ \A k \in 1 .. n - 1 : f[k] = ev[k + 1]
  OBVIOUS
<1> HIDE DEF n, f
<1>2. ASSUME NEW k \in Nat \ {0} PROVE Later(f, k) = Later(ev, k + 1)
  <2>1. Later(f, k) = UNION {ToSet(f[j].txs) : j \in k .. n - 1}
    BY <1>1 DEF Later
  <2>2. Later(ev, k + 1) = UNION {ToSet(ev[j].txs) : j \in k + 1 .. n}
    BY DEF Later, n
  <2>3. \A j \in k .. n - 1 : j + 1 \in k + 1 .. n /\ f[j] = ev[j + 1]
    BY <1>1, <1>2
  <2>4. \A j \in k + 1 .. n : j - 1 \in k .. n - 1 /\ f[j - 1] = ev[j]
    BY <1>1, <1>2
  <2>5. Later(f, k) \subseteq Later(ev, k + 1)
    BY <2>1, <2>2, <2>3
  <2>6. Later(ev, k + 1) \subseteq Later(f, k)
    BY <2>1, <2>2, <2>4
  <2> QED
    BY <2>5, <2>6
<1>3. Later(ev, 1) = ToSet(ev[1].txs) \cup Later(ev, 2)
  <2>1. (\A j \in 1 .. n : j = 1 \/ j \in 2 .. n) /\ (\A j \in 2 .. n : j \in 1 .. n) /\ 1 \in 1 .. n
    BY <1>1
  <2> QED
    BY <2>1 DEF Later, n
<1>4. \A k \in DOMAIN f : k \in Nat \ {0} /\ k + 1 \in DOMAIN ev /\ f[k] = ev[k + 1]
  BY <1>1
<1> QED
  BY <1>1, <1>2, <1>3, <1>4 DEF n, f

\* A notification counts among those from its own place on.
LEMMA LaterDown ==
  ASSUME NEW ev \in Seq(Events), NEW k \in DOMAIN ev
  PROVE  Later(ev, k) \subseteq Later(ev, 1) /\ ToSet(ev[k].txs) \subseteq Later(ev, k)
<1>1. Len(ev) \in Nat /\ k \in 1 .. Len(ev)
  OBVIOUS
<1>2. (\A j \in k .. Len(ev) : j \in 1 .. Len(ev)) /\ k \in k .. Len(ev)
  BY <1>1
<1> QED
  BY <1>2 DEF Later

-----------------------------------------------------------------------------
(* The chain moves and tells the handler.                                  *)

\* What the handler works on is transactions.
LEMMA RestTypes ==
  ASSUME NEW h, h = NoEvent \/ h \in Handling
  PROVE  /\ Rest(h, 1) \subseteq Txs /\ Rest(h, 1) = ToSet(h.txs)
         /\ h.txs \in Seq(Txs) /\ DOMAIN h.txs = 1 .. Len(h.txs) /\ Len(h.txs) \in Nat
<1>1. h.txs \in Seq(Txs)
  <2>1. CASE h = NoEvent
    <3>1. h.txs = <<>>
      BY <2>1 DEF NoEvent
    <3> QED
      BY <3>1
  <2>2. CASE h \in Handling
    BY <2>2 DEF Handling, Bodies
  <2> QED
    BY <2>1, <2>2
<1> QED
  BY <1>1, BodySet DEF Rest

\* A block is connected and its notification sent.
LEMMA ConnectFollowed ==
  ASSUME NEW c \in Seq(Bodies), Grown(c), NEW body \in Bodies, Valid(c, body),
         NEW ev \in Seq(Events), NEW h, h = NoEvent \/ h \in Handling, NEW p \in SUBSET Txs,
         LastWord(c, ev, h), InTurn(c, ev, h), Removed(c, ev, h, p), Settling(c, ev, h, p),
         NEW e \in Events, e.kind = "connected", e.txs = body
  PROVE  /\ LastWord(Append(c, body), Append(ev, e), h)
         /\ InTurn(Append(c, body), Append(ev, e), h)
         /\ Removed(Append(c, body), Append(ev, e), h, p)
         /\ Settling(Append(c, body), Append(ev, e), h, p)
<1>1. PICK n : n = Len(ev)
  OBVIOUS
<1>2. PICK cc : cc = Append(c, body)
  OBVIOUS
<1>3. PICK ee : ee = Append(ev, e)
  OBVIOUS
<1>4. /\ \A k \in 1 .. n + 1 : Later(ee, k) = Later(ev, k) \cup ToSet(body)
      /\ Later(ev, n + 1) = {} /\ Later(ee, n + 2) = {}
      /\ DOMAIN ee = 1 .. n + 1 /\ DOMAIN ev = 1 .. n
      /\ \A k \in 1 .. n : ee[k] = ev[k]
      /\ ee[n + 1] = e /\ n \in Nat
  BY <1>1, <1>3, LaterAppend
<1>5. Confirmed(cc) = Confirmed(c) \cup ToSet(body)
  BY <1>2, ConfirmedAppend, ChainTypes DEF Bodies
<1>6. ToSet(body) \cap Confirmed(c) = {}
  BY ValidBody
<1>7. Later(ee, 1) = Later(ev, 1) \cup ToSet(body)
  BY <1>4
<1>8. LastWord(cc, ee, h)
  <2>1. ASSUME NEW k \in DOMAIN ee, NEW t \in ToSet(ee[k].txs) \ Later(ee, k + 1)
        PROVE  ee[k].kind = "connected" <=> t \in Confirmed(cc)
    <3>1. CASE k = n + 1
      BY <1>4, <1>5, <2>1, <3>1
    <3>2. CASE k \in 1 .. n
      <4>1. k + 1 \in 1 .. n + 1
        BY <1>4, <3>2
      <4>2. t \notin Later(ev, k + 1) /\ t \notin ToSet(body) /\ t \in ToSet(ev[k].txs)
        BY <1>4, <2>1, <3>2, <4>1
      <4>3. ev[k].kind = "connected" <=> t \in Confirmed(c)
        BY <1>4, <3>2, <4>2 DEF LastWord
      <4> QED
        BY <1>4, <1>5, <3>2, <4>2, <4>3
    <3> QED
      BY <1>4, <2>1, <3>1, <3>2
  <2>2. ASSUME NEW t \in Rest(h, 1) \ Later(ee, 1)
        PROVE  h.kind = "connected" <=> t \in Confirmed(cc)
    BY <1>5, <1>7, <2>2 DEF LastWord
  <2> QED
    BY <2>1, <2>2 DEF LastWord
<1>9. InTurn(cc, ee, h)
  <2> SUFFICES ASSUME NEW t \in Confirmed(cc), NEW u \in Txs,
                      NEW op \in TxIn[t] \cap Outputs(u)
               PROVE  /\ \A k \in DOMAIN ee : u \in ToSet(ee[k].txs) => t \in Later(ee, k)
                      /\ \A i \in DOMAIN h.txs : u = h.txs[i] => t \in Later(ee, 1) \cup Rest(h, i)
    BY DEF InTurn
  <2>1. CASE t \in ToSet(body)
    BY <1>4, <1>7, <2>1
  <2>2. CASE t \notin ToSet(body)
    <3>1. t \in Confirmed(c)
      BY <1>5, <2>2
    <3>2. u \in Confirmed(c)
      BY <3>1, GrownSpent
    <3>3. /\ \A k \in DOMAIN ev : u \in ToSet(ev[k].txs) => t \in Later(ev, k)
          /\ \A i \in DOMAIN h.txs : u = h.txs[i] => t \in Later(ev, 1) \cup Rest(h, i)
      BY <3>1 DEF InTurn
    <3>4. ASSUME NEW k \in DOMAIN ee, u \in ToSet(ee[k].txs) PROVE t \in Later(ee, k)
      <4>1. k # n + 1
        BY <1>4, <1>6, <3>2, <3>4
      <4>2. k \in 1 .. n
        BY <1>4, <3>4, <4>1
      <4> QED
        BY <1>4, <3>3, <3>4, <4>2
    <3> QED
      BY <1>7, <3>3, <3>4
  <2> QED
    BY <2>1, <2>2
<1>10. Removed(cc, ee, h, p)
  BY <1>5, <1>7 DEF Removed
<1>11. Settling(cc, ee, h, p)
  BY <1>5, <1>7 DEF Settling
<1> QED
  BY <1>2, <1>3, <1>8, <1>9, <1>10, <1>11

\* A notification more, a block more: nothing that was found is lost.
LEMMA ConnectRooted ==
  ASSUME NEW c \in Seq(Bodies), NEW body \in Bodies, NEW ev \in Seq(Events), NEW h,
         NEW p, Rooted(c, ev, h, p), NEW e \in Events
  PROVE  /\ Rooted(c, Append(ev, e), h, p)
         /\ Rooted(Append(c, body), Append(ev, e), h, p)
<1>1. \A t : Coming(ev, h, t) => Coming(Append(ev, e), h, t)
  <2>1. /\ DOMAIN Append(ev, e) = 1 .. Len(ev) + 1 /\ DOMAIN ev = 1 .. Len(ev)
        /\ \A k \in 1 .. Len(ev) : Append(ev, e)[k] = ev[k]
        /\ Len(ev) \in Nat
    BY LaterAppend
  <2>2. \A k \in DOMAIN ev : k \in DOMAIN Append(ev, e) /\ Append(ev, e)[k] = ev[k]
    BY <2>1
  <2> QED
    BY <2>2 DEF Coming
<1>2. Confirmed(c) \subseteq Confirmed(Append(c, body))
  BY ConfirmedAppend, ChainTypes DEF Bodies
<1> QED
  BY <1>1, <1>2 DEF Rooted

\* The last block is disconnected and its notification sent.
LEMMA DisconnectFollowed ==
  ASSUME NEW c \in Seq(Bodies), Grown(c), c # <<>>,
         NEW ev \in Seq(Events), NEW h, h = NoEvent \/ h \in Handling, NEW p \in SUBSET Txs,
         LastWord(c, ev, h), InTurn(c, ev, h), Removed(c, ev, h, p), Settling(c, ev, h, p),
         NEW e \in Events, e.kind = "disconnected", e.txs = Last(c)
  PROVE  /\ LastWord(Front(c), Append(ev, e), h)
         /\ InTurn(Front(c), Append(ev, e), h)
         /\ Removed(Front(c), Append(ev, e), h, p)
         /\ Settling(Front(c), Append(ev, e), h, p)
         /\ Rooted(c, ev, h, p) => Rooted(Front(c), Append(ev, e), h, p)
<1>1. PICK n : n = Len(ev)
  OBVIOUS
<1>2. PICK cc : cc = Front(c)
  OBVIOUS
<1>3. PICK ee : ee = Append(ev, e)
  OBVIOUS
<1>0. PICK body : body = Last(c)
  OBVIOUS
<1>4. /\ \A k \in 1 .. n + 1 : Later(ee, k) = Later(ev, k) \cup ToSet(body)
      /\ Later(ev, n + 1) = {} /\ Later(ee, n + 2) = {}
      /\ DOMAIN ee = 1 .. n + 1 /\ DOMAIN ev = 1 .. n
      /\ \A k \in 1 .. n : ee[k] = ev[k]
      /\ ee[n + 1] = e /\ n \in Nat
  BY <1>1, <1>3, <1>0, LaterAppend
<1>5. /\ cc \in Seq(Bodies) /\ Grown(cc) /\ Confirmed(c) = Confirmed(cc) \cup ToSet(body)
      /\ ToSet(body) \cap Confirmed(cc) = {} /\ body \in Bodies
  BY <1>2, <1>0, FrontGrown
<1>7. Later(ee, 1) = Later(ev, 1) \cup ToSet(body)
  BY <1>4
<1>8. LastWord(cc, ee, h)
  <2>1. ASSUME NEW k \in DOMAIN ee, NEW t \in ToSet(ee[k].txs) \ Later(ee, k + 1)
        PROVE  ee[k].kind = "connected" <=> t \in Confirmed(cc)
    <3>1. CASE k = n + 1
      BY <1>4, <1>5, <1>0, <2>1, <3>1
    <3>2. CASE k \in 1 .. n
      <4>1. k + 1 \in 1 .. n + 1
        BY <1>4, <3>2
      <4>2. t \notin Later(ev, k + 1) /\ t \notin ToSet(body) /\ t \in ToSet(ev[k].txs)
        BY <1>4, <2>1, <3>2, <4>1
      <4>3. ev[k].kind = "connected" <=> t \in Confirmed(c)
        BY <1>4, <3>2, <4>2 DEF LastWord
      <4> QED
        BY <1>4, <1>5, <3>2, <4>2, <4>3
    <3> QED
      BY <1>4, <2>1, <3>1, <3>2
  <2>2. ASSUME NEW t \in Rest(h, 1) \ Later(ee, 1)
        PROVE  h.kind = "connected" <=> t \in Confirmed(cc)
    BY <1>5, <1>7, <2>2 DEF LastWord
  <2> QED
    BY <2>1, <2>2 DEF LastWord
<1>9. InTurn(cc, ee, h)
  <2> SUFFICES ASSUME NEW t \in Confirmed(cc), NEW u \in Txs,
                      NEW op \in TxIn[t] \cap Outputs(u)
               PROVE  /\ \A k \in DOMAIN ee : u \in ToSet(ee[k].txs) => t \in Later(ee, k)
                      /\ \A i \in DOMAIN h.txs : u = h.txs[i] => t \in Later(ee, 1) \cup Rest(h, i)
    BY DEF InTurn
  <2>1. t \in Confirmed(c)
    BY <1>5
  <2>2. u \in Confirmed(cc)
    BY <1>5, GrownSpent
  <2>3. /\ \A k \in DOMAIN ev : u \in ToSet(ev[k].txs) => t \in Later(ev, k)
        /\ \A i \in DOMAIN h.txs : u = h.txs[i] => t \in Later(ev, 1) \cup Rest(h, i)
    BY <2>1 DEF InTurn
  <2>4. ASSUME NEW k \in DOMAIN ee, u \in ToSet(ee[k].txs) PROVE t \in Later(ee, k)
    <3>1. k # n + 1
      BY <1>4, <1>5, <1>0, <2>2, <2>4
    <3>2. k \in 1 .. n
      BY <1>4, <2>4, <3>1
    <3> QED
      BY <1>4, <2>3, <2>4, <3>2
  <2> QED
    BY <1>7, <2>3, <2>4
<1>10. Removed(cc, ee, h, p)
  BY <1>5, <1>7 DEF Removed
<1>11. Settling(cc, ee, h, p)
  BY <1>5, <1>7 DEF Settling
<1>12. ASSUME Rooted(c, ev, h, p) PROVE Rooted(cc, ee, h, p)
  <2>1. Rooted(c, ee, h, p)
    BY <1>3, <1>5, <1>12, ConnectRooted
  <2>2. \A t \in ToSet(body) : Coming(ee, h, t)
    <3>1. n + 1 \in DOMAIN ee /\ ee[n + 1].kind = "disconnected" /\ ee[n + 1].txs = body
      BY <1>4, <1>0
    <3> QED
      BY <3>1 DEF Coming
  <2> QED
    BY <1>5, <2>1, <2>2 DEF Rooted
<1> QED
  BY <1>2, <1>3, <1>8, <1>9, <1>10, <1>11, <1>12

\* The disconnection of what is no longer confirmed is on its way.
LEMMA RecalledNotify ==
  ASSUME NEW c, NEW cc, NEW ev \in Seq(Events), NEW h, Recalled(c, ev, h), NEW e \in Events,
         \/ e.kind = "connected" /\ Confirmed(cc) = Confirmed(c) \cup ToSet(e.txs)
         \/ e.kind = "disconnected" /\ Confirmed(c) = Confirmed(cc) \cup ToSet(e.txs)
  PROVE  Recalled(cc, Append(ev, e), h)
<1>1. PICK n : n = Len(ev)
  OBVIOUS
<1>2. PICK ee : ee = Append(ev, e)
  OBVIOUS
<1>3. /\ DOMAIN ee = 1 .. n + 1 /\ DOMAIN ev = 1 .. n /\ n \in Nat
      /\ (\A k \in 1 .. n : ee[k] = ev[k]) /\ ee[n + 1] = e
  BY <1>1, <1>2, LaterAppend
<1>4. \A k \in DOMAIN ev : k \in DOMAIN ee /\ ee[k] = ev[k] /\ n + 1 > k
  BY <1>3
<1>5. n + 1 \in DOMAIN ee
  BY <1>3
<1>6. ASSUME NEW t, t \notin Confirmed(cc)
      PROVE  t \notin Confirmed(c) \/ (e.kind = "disconnected" /\ t \in ToSet(e.txs))
  BY <1>6
<1>7. ASSUME NEW k \in DOMAIN ee, ee[k].kind = "connected",
             NEW t \in ToSet(ee[k].txs) \ Confirmed(cc)
      PROVE  \E j \in DOMAIN ee : j > k /\ ee[j].kind = "disconnected" /\ t \in ToSet(ee[j].txs)
  <2>1. k # n + 1
    BY <1>3, <1>7
  <2>2. k \in DOMAIN ev
    BY <1>3, <1>7, <2>1
  <2>3. CASE t \notin Confirmed(c)
    <3>1. PICK j \in DOMAIN ev : j > k /\ ev[j].kind = "disconnected" /\ t \in ToSet(ev[j].txs)
      BY <1>4, <1>7, <2>2, <2>3 DEF Recalled
    <3> QED
      BY <1>4, <3>1
  <2>4. CASE e.kind = "disconnected" /\ t \in ToSet(e.txs)
    BY <1>3, <1>4, <1>5, <2>2, <2>4
  <2> QED
    BY <1>6, <1>7, <2>3, <2>4
<1>8. ASSUME h.kind = "connected", NEW t \in Rest(h, 1) \ Confirmed(cc)
      PROVE  \E j \in DOMAIN ee : ee[j].kind = "disconnected" /\ t \in ToSet(ee[j].txs)
  <2>1. CASE t \notin Confirmed(c)
    <3>1. PICK j \in DOMAIN ev : ev[j].kind = "disconnected" /\ t \in ToSet(ev[j].txs)
      BY <1>8, <2>1 DEF Recalled
    <3> QED
      BY <1>4, <3>1
  <2>2. CASE e.kind = "disconnected" /\ t \in ToSet(e.txs)
    BY <1>3, <1>5, <2>2
  <2> QED
    BY <1>6, <1>8, <2>1, <2>2
<1> QED
  BY <1>2, <1>7, <1>8 DEF Recalled

-----------------------------------------------------------------------------
(* The handler goes on.                                                    *)

\* A notification is taken.
LEMMA TakeFollowed ==
  ASSUME NEW c, NEW ev \in Seq(Events), ev # <<>>, Sorted(ev), NEW p,
         LastWord(c, ev, NoEvent), InTurn(c, ev, NoEvent),
         Removed(c, ev, NoEvent, p), Settling(c, ev, NoEvent, p),
         NEW h \in Handling, h.kind = ev[1].kind, h.txs = ev[1].txs,
         h.pc \in {"remove", "reinsert"}
  PROVE  /\ LastWord(c, Tail(ev), h) /\ InTurn(c, Tail(ev), h)
         /\ Removed(c, Tail(ev), h, p) /\ Settling(c, Tail(ev), h, p)
         /\ Rooted(c, ev, NoEvent, p) => Rooted(c, Tail(ev), h, p)
<1>1. PICK f : f = Tail(ev)
  OBVIOUS
<1>2. /\ \A k \in Nat \ {0} : Later(f, k) = Later(ev, k + 1)
      /\ Later(ev, 1) = ToSet(ev[1].txs) \cup Later(ev, 2)
      /\ DOMAIN ev = 1 .. Len(ev) /\ 1 \in DOMAIN ev
      /\ \A k \in DOMAIN f : k \in Nat \ {0} /\ k + 1 \in DOMAIN ev /\ f[k] = ev[k + 1]
  BY <1>1, LaterTail
<1>3. Later(f, 1) = Later(ev, 2)
  BY <1>2
<1>4. /\ Rest(h, 1) = ToSet(h.txs) /\ DOMAIN h.txs = 1 .. Len(h.txs) /\ Len(h.txs) \in Nat
  BY RestTypes
<1>5. Rest(NoEvent, 1) = {}
  BY DEF Rest, NoEvent
<1>6. ToRemove(h) = Rest(h, 1) /\ ToSettle(h) = Rest(h, 1)
  BY DEF ToRemove, ToSettle
<1>7. ToRemove(NoEvent) = {} /\ ToSettle(NoEvent) = {}
  BY DEF ToRemove, ToSettle, Rest, NoEvent
<1>8. Later(ev, 1) = Rest(h, 1) \cup Later(f, 1)
  BY <1>2, <1>3, <1>4
<1>9. LastWord(c, f, h)
  <2>1. ASSUME NEW k \in DOMAIN f, NEW t \in ToSet(f[k].txs) \ Later(f, k + 1)
        PROVE  f[k].kind = "connected" <=> t \in Confirmed(c)
    <3>1. k + 1 \in DOMAIN ev /\ f[k] = ev[k + 1] /\ Later(f, k + 1) = Later(ev, (k + 1) + 1)
      BY <1>2, <2>1
    <3> QED
      BY <2>1, <3>1 DEF LastWord
  <2>2. ASSUME NEW t \in Rest(h, 1) \ Later(f, 1)
        PROVE  h.kind = "connected" <=> t \in Confirmed(c)
    <3>1. 1 \in DOMAIN ev /\ t \in ToSet(ev[1].txs) /\ t \notin Later(ev, 1 + 1)
      BY <1>2, <1>3, <1>4, <2>2
    <3> QED
      BY <3>1 DEF LastWord
  <2> QED
    BY <2>1, <2>2 DEF LastWord
<1>10. InTurn(c, f, h)
  <2> SUFFICES ASSUME NEW t \in Confirmed(c), NEW u \in Txs,
                      NEW op \in TxIn[t] \cap Outputs(u)
               PROVE  /\ \A k \in DOMAIN f : u \in ToSet(f[k].txs) => t \in Later(f, k)
                      /\ \A i \in DOMAIN h.txs : u = h.txs[i] => t \in Later(f, 1) \cup Rest(h, i)
    BY DEF InTurn
  <2>1. \A k \in DOMAIN ev : u \in ToSet(ev[k].txs) => t \in Later(ev, k)
    BY DEF InTurn
  <2>2. \A k \in DOMAIN f : u \in ToSet(f[k].txs) => t \in Later(f, k)
    BY <1>2, <2>1
  <2>3. ASSUME NEW i \in DOMAIN h.txs, u = h.txs[i], t \notin Later(f, 1)
        PROVE  t \in Rest(h, i)
    <3>1. u \in ToSet(ev[1].txs)
      BY <2>3 DEF ToSet
    <3>2. t \in Later(ev, 1)
      BY <1>2, <2>1, <3>1
    <3>3. t \in Rest(h, 1)
      BY <1>8, <2>3, <3>2
    <3>4. PICK j \in 1 .. Len(h.txs) : t = h.txs[j]
      BY <3>3 DEF Rest
    <3>5. h.kind = "connected"
      BY <1>9, <2>3, <3>3 DEF LastWord
    <3>6. InOrder(h.txs)
      BY <1>2, <3>5 DEF Sorted
    <3>7. ~ (j <= i)
      BY <1>4, <2>3, <3>4, <3>6 DEF InOrder
    <3>8. j \in i .. Len(h.txs)
      BY <1>4, <2>3, <3>4, <3>7
    <3> QED
      BY <3>4, <3>8 DEF Rest
  <2> QED
    BY <2>2, <2>3
<1>11. Removed(c, f, h, p) /\ Settling(c, f, h, p)
  BY <1>6, <1>7, <1>8 DEF Removed, Settling
<1>12. ASSUME Rooted(c, ev, NoEvent, p) PROVE Rooted(c, f, h, p)
  <2>1. ASSUME NEW t, Coming(ev, NoEvent, t) PROVE Coming(f, h, t)
    <3>1. PICK k \in DOMAIN ev : ev[k].kind = "disconnected" /\ t \in ToSet(ev[k].txs)
      BY <1>5, <2>1 DEF Coming
    <3>2. CASE k = 1
      BY <1>4, <3>1, <3>2 DEF Coming
    <3>3. CASE k # 1
      <4>1. k - 1 \in DOMAIN f /\ f[k - 1] = ev[k]
        BY <1>1, <3>1, <3>3
      <4> QED
        BY <3>1, <4>1 DEF Coming
    <3> QED
      BY <3>2, <3>3
  <2> QED
    BY <1>12, <2>1 DEF Rooted
<1> QED
  BY <1>1, <1>9, <1>10, <1>11, <1>12

\* A notification that is taken is still before those that follow.
LEMMA RecalledTake ==
  ASSUME NEW c, NEW ev \in Seq(Events), ev # <<>>, Recalled(c, ev, NoEvent),
         NEW h \in Handling, h.kind = ev[1].kind, h.txs = ev[1].txs
  PROVE  Recalled(c, Tail(ev), h)
<1>1. PICK f : f = Tail(ev)
  OBVIOUS
<1>2. /\ DOMAIN ev = 1 .. Len(ev) /\ 1 \in DOMAIN ev /\ Len(ev) \in Nat
      /\ \A k \in DOMAIN f : k \in Nat \ {0} /\ k + 1 \in DOMAIN ev /\ f[k] = ev[k + 1]
  BY <1>1, LaterTail
<1>3. \A j \in DOMAIN ev : j # 1 => j - 1 \in DOMAIN f /\ f[j - 1] = ev[j]
  BY <1>1
<1>4. Rest(h, 1) = ToSet(h.txs)
  BY RestTypes
<1>5. ASSUME NEW k \in DOMAIN f, f[k].kind = "connected",
             NEW t \in ToSet(f[k].txs) \ Confirmed(c)
      PROVE  \E j \in DOMAIN f : j > k /\ f[j].kind = "disconnected" /\ t \in ToSet(f[j].txs)
  <2>1. PICK j \in DOMAIN ev : /\ j > k + 1 /\ ev[j].kind = "disconnected"
                               /\ t \in ToSet(ev[j].txs)
    BY <1>2, <1>5 DEF Recalled
  <2>2. j - 1 \in DOMAIN f /\ f[j - 1] = ev[j] /\ j - 1 > k
    BY <1>2, <1>3, <1>5, <2>1
  <2> QED
    BY <2>1, <2>2
<1>6. ASSUME h.kind = "connected", NEW t \in Rest(h, 1) \ Confirmed(c)
      PROVE  \E j \in DOMAIN f : f[j].kind = "disconnected" /\ t \in ToSet(f[j].txs)
  <2>1. PICK j \in DOMAIN ev : j > 1 /\ ev[j].kind = "disconnected" /\ t \in ToSet(ev[j].txs)
    BY <1>2, <1>4, <1>6 DEF Recalled
  <2>2. j - 1 \in DOMAIN f /\ f[j - 1] = ev[j]
    BY <1>2, <1>3, <2>1
  <2> QED
    BY <2>1, <2>2
<1> QED
  BY <1>1, <1>5, <1>6 DEF Recalled

\* The handler goes on with the next transaction, if there is one.
LEMMA NextFacts ==
  ASSUME NEW h \in Handling
  PROVE  /\ Rest(NextTx(h), 1) = Rest(h, 2) /\ Rest(h, 1) = {h.txs[1]} \cup Rest(h, 2)
         /\ ToRemove(NextTx(h)) = Rest(h, 2) /\ ToSettle(NextTx(h)) = Rest(h, 2)
         /\ \A i \in DOMAIN NextTx(h).txs :
               /\ i + 1 \in DOMAIN h.txs /\ NextTx(h).txs[i] = h.txs[i + 1]
               /\ Rest(NextTx(h), i) = Rest(h, i + 1)
         /\ NextTx(h) # NoEvent => NextTx(h).kind = h.kind
         /\ NextTx(h) = NoEvent => Rest(h, 2) = {}
         /\ Head(h.txs) = h.txs[1] /\ h.txs[1] \in Txs
         /\ NextTx(h) = NoEvent \/ NextTx(h) \in Handling
<1>1. PICK n : n = Len(h.txs)
  OBVIOUS
<1>2. /\ n \in Nat \ {0} /\ DOMAIN h.txs = 1 .. n /\ h.txs \in Seq(Txs) /\ h.txs # <<>>
  BY <1>1 DEF Handling, Bodies
<1>3. Head(h.txs) = h.txs[1] /\ h.txs[1] \in Txs
  BY <1>1, <1>2
<1>4. Rest(h, 1) = {h.txs[1]} \cup Rest(h, 2)
  <2>1. (\A j \in 1 .. n : j = 1 \/ j \in 2 .. n) /\ 1 \in 1 .. n /\ \A j \in 2 .. n : j \in 1 .. n
    BY <1>2
  <2> QED
    BY <1>1, <2>1 DEF Rest
<1>5. CASE n = 1
  <2>1. NextTx(h) = NoEvent
    BY <1>1, <1>5 DEF NextTx
  <2>2. Rest(h, 2) = {}
    BY <1>1, <1>5 DEF Rest
  <2>3. Rest(NoEvent, 1) = {} /\ DOMAIN NoEvent.txs = {}
    BY DEF Rest, NoEvent
  <2>4. ToRemove(NoEvent) = {} /\ ToSettle(NoEvent) = {}
    BY DEF ToRemove, ToSettle, Rest, NoEvent
  <2> QED
    BY <1>3, <1>4, <2>1, <2>2, <2>3, <2>4
<1>6. CASE n # 1
  <2>1. PICK g : g = NextTx(h)
    OBVIOUS
  <2>2. /\ g.txs = Tail(h.txs) /\ g.kind = h.kind /\ g.pc \in {"remove", "reinsert"}
    BY <1>1, <1>6, <2>1 DEF NextTx, Handling, Points
  <2>3. /\ Len(g.txs) = n - 1 /\ DOMAIN g.txs = 1 .. n - 1 /\ g.txs \in Seq(Txs)
        /\ \A i \in 1 .. n - 1 : g.txs[i] = h.txs[i + 1]
    BY <1>1, <1>2, <2>2
  <2>4. n - 1 # 0
    BY <1>2, <1>6
  <2>5. g.txs # <<>>
    BY <2>3, <2>4
  <2>6. g # NoEvent /\ g \in Handling
    <3>1. Tail(h.txs) \in Bodies
      BY <2>2, <2>3, <2>5 DEF Bodies
    <3>2. g \in Handling
      BY <1>1, <1>6, <2>1, <3>1 DEF NextTx, Handling, Points
    <3> QED
      BY <2>2, <3>2 DEF NoEvent
  <2>7. ASSUME NEW i \in Nat \ {0} PROVE Rest(g, i) = Rest(h, i + 1)
    <3>1. \A j \in i .. n - 1 : j + 1 \in i + 1 .. n /\ g.txs[j] = h.txs[j + 1]
      BY <1>2, <2>3, <2>7
    <3>2. \A j \in i + 1 .. n : j - 1 \in i .. n - 1 /\ g.txs[j - 1] = h.txs[j]
      BY <1>2, <2>3, <2>7
    <3>3. Rest(g, i) = {g.txs[j] : j \in i .. n - 1} /\ Rest(h, i + 1) = {h.txs[j] : j \in i + 1 .. n}
      BY <1>1, <2>3 DEF Rest
    <3> QED
      BY <3>1, <3>2, <3>3
  <2>8. Rest(g, 1) = Rest(h, 2)
    <3>1. Rest(g, 1) = Rest(h, 1 + 1)
      BY <2>7
    <3> QED
      BY <3>1
  <2>9. ToRemove(g) = Rest(g, 1) /\ ToSettle(g) = Rest(g, 1)
    BY <2>2 DEF ToRemove, ToSettle
  <2>10. \A i \in DOMAIN g.txs : i \in Nat \ {0} /\ i + 1 \in DOMAIN h.txs /\ g.txs[i] = h.txs[i + 1]
    BY <1>2, <2>3
  <2>11. \A i \in DOMAIN g.txs : Rest(g, i) = Rest(h, i + 1)
    BY <2>7, <2>10
  <2> QED
    BY <1>3, <1>4, <2>1, <2>2, <2>6, <2>8, <2>9, <2>10, <2>11
<1> QED
  BY <1>5, <1>6

\* Nothing that was waiting for the transaction just handled is left.
LEMMA NextFollowed ==
  ASSUME NEW c, NEW ev, NEW h \in Handling, NEW p,
         LastWord(c, ev, h), InTurn(c, ev, h), Recalled(c, ev, h),
         Removed(c, ev, h, p), Settling(c, ev, h, p),
         h.kind = "disconnected" \/ h.pc = "process"
  PROVE  /\ LastWord(c, ev, NextTx(h)) /\ InTurn(c, ev, NextTx(h))
         /\ Recalled(c, ev, NextTx(h))
         /\ Removed(c, ev, NextTx(h), p) /\ Settling(c, ev, NextTx(h), p)
<1>1. PICK g : g = NextTx(h)
  OBVIOUS
<1>2. /\ Rest(g, 1) = Rest(h, 2) /\ Rest(h, 1) = {h.txs[1]} \cup Rest(h, 2)
      /\ ToRemove(g) = Rest(h, 2) /\ ToSettle(g) = Rest(h, 2)
      /\ \A i \in DOMAIN g.txs :
            /\ i + 1 \in DOMAIN h.txs /\ g.txs[i] = h.txs[i + 1]
            /\ Rest(g, i) = Rest(h, i + 1)
      /\ g # NoEvent => g.kind = h.kind
      /\ g = NoEvent => Rest(h, 2) = {}
  BY <1>1, NextFacts
<1>3. LastWord(c, ev, g)
  BY <1>2 DEF LastWord
<1>4. InTurn(c, ev, g)
  BY <1>2 DEF InTurn
<1>5. Recalled(c, ev, g)
  BY <1>2 DEF Recalled
<1>6. ASSUME NEW t \in Confirmed(c), t \in Rest(h, 1), t \notin Rest(h, 2),
             h.kind = "disconnected"
      PROVE  t \in Later(ev, 1)
  BY <1>6 DEF LastWord
<1>7. /\ h.kind # "disconnected" => ToRemove(h) = Rest(h, 2) /\ ToSettle(h) = Rest(h, 2)
      /\ ToRemove(h) \subseteq Rest(h, 1) /\ ToSettle(h) \subseteq Rest(h, 1)
  BY <1>2 DEF ToRemove, ToSettle
<1>8. Removed(c, ev, g, p)
  BY <1>2, <1>6, <1>7 DEF Removed
<1>9. Settling(c, ev, g, p)
  BY <1>2, <1>6, <1>7 DEF Settling
<1> QED
  BY <1>1, <1>3, <1>4, <1>5, <1>8, <1>9

\* What the transaction just handled was waited for by is not in the pool, or
\* the transaction is.
LEMMA NextRooted ==
  ASSUME NEW c, NEW ev, NEW h \in Handling, NEW p, Rooted(c, ev, h, p),
         h.kind = "disconnected" =>
            h.txs[1] \in p \/ \A t \in p : TxIn[t] \cap Outputs(h.txs[1]) = {}
  PROVE  Rooted(c, ev, NextTx(h), p)
<1>1. PICK g : g = NextTx(h)
  OBVIOUS
<1>2. /\ Rest(g, 1) = Rest(h, 2) /\ Rest(h, 1) = {h.txs[1]} \cup Rest(h, 2)
      /\ g # NoEvent => g.kind = h.kind
      /\ g = NoEvent => Rest(h, 2) = {}
  BY <1>1, NextFacts
<1>3. ASSUME NEW u, Coming(ev, h, u), ~ (h.kind = "disconnected" /\ u = h.txs[1])
      PROVE  Coming(ev, g, u)
  BY <1>2, <1>3 DEF Coming
<1>4. ASSUME NEW t \in p, NEW op \in TxIn[t], op \notin Coins
      PROVE  \E u \in Txs : op \in Outputs(u) /\ (u \in p \/ u \in Confirmed(c) \/ Coming(ev, g, u))
  <2>1. PICK u \in Txs : op \in Outputs(u) /\ (u \in p \/ u \in Confirmed(c) \/ Coming(ev, h, u))
    BY <1>4 DEF Rooted
  <2>2. h.kind = "disconnected" /\ u = h.txs[1] => u \in p
    BY <1>4, <2>1
  <2> QED
    BY <1>3, <2>1, <2>2
<1> QED
  BY <1>1, <1>4 DEF Rooted

\* The handler goes on with the same transaction.
LEMMA SameTx ==
  ASSUME NEW c, NEW ev, NEW h, NEW g, g.txs = h.txs, g.kind = h.kind, NEW p
  PROVE  /\ LastWord(c, ev, h) => LastWord(c, ev, g)
         /\ InTurn(c, ev, h) => InTurn(c, ev, g)
         /\ Recalled(c, ev, h) => Recalled(c, ev, g)
         /\ Rooted(c, ev, h, p) => Rooted(c, ev, g, p)
         /\ \A i : Rest(g, i) = Rest(h, i)
<1>1. \A i : Rest(g, i) = Rest(h, i)
  BY DEF Rest
<1> QED
  BY <1>1 DEF LastWord, InTurn, Recalled, Rooted, Coming

-----------------------------------------------------------------------------
(* The pool changes.                                                       *)

\* Descendants: with a transaction goes whatever spends its outputs.
LEMMA DescendantsClosed ==
  ASSUME NEW m, Sound(m), NEW ts \in SUBSET Txs
  PROVE  /\ ts \subseteq txDescendants(m, ts) /\ txDescendants(m, ts) \subseteq Txs
         /\ \A u \in txDescendants(m, ts), t \in m.pool :
               TxIn[t] \cap Outputs(u) # {} => t \in txDescendants(m, ts)
<1>1. ts \subseteq txDescendants(m, ts) /\ txDescendants(m, ts) \subseteq Txs
  BY DEF txDescendants
<1>2. ASSUME NEW u \in txDescendants(m, ts), NEW t \in m.pool, NEW op \in TxIn[t],
             op \in Outputs(u)
      PROVE  t \in txDescendants(m, ts)
  <2>1. t \in Txs /\ op \in OutPoints
    BY InputsAreOutpoints DEF Sound, PoolType
  <2>2. m.outpoints[op] = t /\ t # None
    BY <2>1, PoolAssumption DEF Sound, ExactOutpoints
  <2>3. t \in {m.outpoints[o] : o \in Outputs(u)} \ {None}
    BY <1>2, <2>2
  <2> QED
    BY <2>1, <2>3 DEF txDescendants
<1> QED
  BY <1>1, <1>2

\* A smaller pool disagrees with less of the chain.
LEMMA Shrunk ==
  ASSUME NEW c, NEW ev, NEW h, NEW p, NEW q, q \subseteq p,
         Removed(c, ev, h, p), Settling(c, ev, h, p)
  PROVE  Removed(c, ev, h, q) /\ Settling(c, ev, h, q)
BY DEF Removed, Settling

\* Nothing is left behind without what it spends.
LEMMA ClosedRooted ==
  ASSUME NEW c, NEW ev, NEW h, NEW p, NEW ts, Rooted(c, ev, h, p),
         \A u \in ts, t \in p : TxIn[t] \cap Outputs(u) # {} => t \in ts
  PROVE  Rooted(c, ev, h, p \ ts)
<1> SUFFICES ASSUME NEW t \in p \ ts, NEW op \in TxIn[t], op \notin Coins
             PROVE  \E u \in Txs : op \in Outputs(u) /\
                       (u \in p \ ts \/ u \in Confirmed(c) \/ Coming(ev, h, u))
  BY DEF Rooted
<1>1. PICK u \in Txs : op \in Outputs(u) /\ (u \in p \/ u \in Confirmed(c) \/ Coming(ev, h, u))
  BY DEF Rooted
<1>2. u \notin ts
  BY <1>1
<1> QED
  BY <1>1, <1>2

\* What an accepted transaction spends is unspent in the chain or created in
\* the pool, by a transaction that is not replaced.
LEMMA AcceptedFacts ==
  ASSUME Sound(mp), NEW t \in Txs, NEW b \in BOOLEAN, NEW r \in BOOLEAN,
         checkMempoolAcceptance(mp, t, b, r) = "accepted"
  PROVE  \E ts \in SUBSET Txs :
           /\ Accept(mp, t).pool = (mp.pool \ ts) \cup {t}
           /\ \A u \in ts, w \in mp.pool : TxIn[w] \cap Outputs(u) # {} => w \in ts
           /\ \A op \in TxIn[t] :
                op \in Unspent(chain) \/ \E u \in mp.pool \ ts : op \in Outputs(u)
<1>1. /\ \A op \in TxIn[t] : Available(mp, op)
      /\ Spenders(mp, t) # {} => validateReplacement(mp, t)
  BY DEF checkMempoolAcceptance
<1>2. Spenders(mp, t) \subseteq mp.pool /\ mp.pool \subseteq Txs
  BY SpendersInPool DEF Sound, PoolType
<1>3. PICK ts : ts = IF Spenders(mp, t) = {} THEN {} ELSE txConflicts(mp, t)
  OBVIOUS
<1>4. Accept(mp, t).pool = (mp.pool \ ts) \cup {t}
  <2>1. PICK d : d = DropTxs(mp, ts)
    OBVIOUS
  <2>2. Sound(d) /\ d.pool = mp.pool \ ts
    BY <2>1, DropTxsSound
  <2>3. Accept(mp, t) = addTransaction(d, t)
    BY <1>3, <2>1 DEF Accept
  <2>4. addTransaction(d, t).pool = d.pool \cup {t}
    BY <2>2 DEF addTransaction, Sound, PoolType
  <2> QED
    BY <2>2, <2>3, <2>4
<1>5. CASE Spenders(mp, t) = {}
  BY <1>1, <1>3, <1>4, <1>5 DEF Available
<1>6. CASE Spenders(mp, t) # {}
  <2>1. ts = txDescendants(mp, Spenders(mp, t))
    BY <1>3, <1>6 DEF txConflicts
  <2>2. /\ ts \subseteq Txs
        /\ \A u \in ts, w \in mp.pool : TxIn[w] \cap Outputs(u) # {} => w \in ts
    <3>1. Spenders(mp, t) \in SUBSET Txs
      BY <1>2
    <3> QED
      BY <2>1, <3>1, DescendantsClosed
  <2>3. txAncestors(mp, t) \cap ts = {}
    BY <1>1, <1>6, <2>1 DEF validateReplacement, txConflicts
  <2>4. \A u \in mp.pool : TxIn[t] \cap Outputs(u) # {} => u \in txAncestors(mp, t)
    BY <1>2 DEF txAncestors
  <2>5. \A op \in TxIn[t] : op \in Unspent(chain) \/ \E u \in mp.pool \ ts : op \in Outputs(u)
    BY <1>1, <2>3, <2>4 DEF Available
  <2> QED
    BY <1>4, <2>2, <2>5
<1> QED
  BY <1>5, <1>6

\* A transaction that is accepted although it, or one that spends the same, is
\* confirmed has a parent in the pool that is still to be removed: its turn is
\* still to come, too.
LEMMA AcceptPending ==
  ASSUME NEW c \in Seq(Bodies), Grown(c), NEW ev \in Seq(Events),
         NEW h, h = NoEvent \/ h \in Handling, NEW p \in SUBSET Txs,
         InTurn(c, ev, h), Removed(c, ev, h, p),
         NEW t \in Txs, NEW op \in TxIn[t], NEW s \in Confirmed(c), op \in TxIn[s],
         op \in Unspent(c) \/ \E u \in p : op \in Outputs(u)
  PROVE  s \in Later(ev, 1) \cup ToRemove(h)
<1>1. op \notin Unspent(c)
  BY DEF Unspent
<1>2. PICK u \in p : op \in Outputs(u)
  BY <1>1
<1>3. u \in Txs /\ u \in Confirmed(c)
  BY <1>2, GrownSpent
<1>4. u \in Later(ev, 1) \cup ToRemove(h)
  BY <1>2, <1>3 DEF Removed
<1>5. /\ \A k \in DOMAIN ev : u \in ToSet(ev[k].txs) => s \in Later(ev, k)
      /\ \A i \in DOMAIN h.txs : u = h.txs[i] => s \in Later(ev, 1) \cup Rest(h, i)
  BY <1>2, <1>3 DEF InTurn
<1>6. CASE u \in Later(ev, 1)
  <2>1. PICK k \in 1 .. Len(ev) : u \in ToSet(ev[k].txs)
    BY <1>6 DEF Later
  <2>2. k \in DOMAIN ev
    BY <2>1
  <2> QED
    BY <1>5, <2>1, <2>2, LaterDown
<1>7. CASE u \in ToRemove(h)
  <2>1. PICK a \in {1, 2} : ToRemove(h) = Rest(h, a)
    BY DEF ToRemove
  <2>2. PICK i \in a .. Len(h.txs) : u = h.txs[i]
    BY <1>7, <2>1 DEF Rest
  <2>3. DOMAIN h.txs = 1 .. Len(h.txs) /\ Len(h.txs) \in Nat
    BY RestTypes
  <2>4. i \in DOMAIN h.txs
    BY <2>1, <2>2, <2>3
  <2>5. Rest(h, i) \subseteq Rest(h, a)
    <3>1. \A j \in i .. Len(h.txs) : j \in a .. Len(h.txs)
      BY <2>1, <2>2, <2>3
    <3> QED
      BY <3>1 DEF Rest
  <2> QED
    BY <1>5, <2>1, <2>2, <2>4, <2>5
<1> QED
  BY <1>4, <1>6, <1>7

\* What is still to be removed has its conflicts still to be removed.
LEMMA RemoveBeforeSettle ==
  ASSUME NEW h, h = NoEvent \/ h \in Handling PROVE ToRemove(h) \subseteq ToSettle(h)
<1>1. Len(h.txs) \in Nat
  BY RestTypes
<1>2. \A j \in 2 .. Len(h.txs) : j \in 1 .. Len(h.txs)
  BY <1>1
<1>3. Rest(h, 2) \subseteq Rest(h, 1)
  BY <1>2 DEF Rest
<1> QED
  BY <1>3 DEF ToRemove, ToSettle

\* A transaction is accepted against the chain as it is.
LEMMA AcceptFollowed ==
  ASSUME NEW c \in Seq(Bodies), Grown(c), NEW ev \in Seq(Events),
         NEW h, h = NoEvent \/ h \in Handling, NEW p \in SUBSET Txs,
         InTurn(c, ev, h), Removed(c, ev, h, p), Settling(c, ev, h, p),
         NEW t \in Txs, NEW ts, NEW q, q = (p \ ts) \cup {t},
         \A u \in ts, w \in p : TxIn[w] \cap Outputs(u) # {} => w \in ts,
         \A op \in TxIn[t] : op \in Unspent(c) \/ \E u \in p \ ts : op \in Outputs(u)
  PROVE  /\ Removed(c, ev, h, q) /\ Settling(c, ev, h, q)
         /\ Rooted(c, ev, h, p) => Rooted(c, ev, h, q)
<1>1. ASSUME NEW s \in Confirmed(c), TxIn[t] \cap TxIn[s] # {}
      PROVE  s \in Later(ev, 1) \cup ToRemove(h)
  <2>1. PICK op \in TxIn[t] : op \in TxIn[s]
    BY <1>1
  <2>2. op \in Unspent(c) \/ \E u \in p : op \in Outputs(u)
    BY <2>1
  <2> QED
    BY <1>1, <2>1, <2>2, AcceptPending
<1>2. t \in Confirmed(c) => t \in Later(ev, 1) \cup ToRemove(h)
  <2>1. TxIn[t] \cap TxIn[t] # {}
    BY PoolAssumption
  <2> QED
    BY <1>1, <2>1
<1>3. Removed(c, ev, h, q)
  BY <1>2 DEF Removed
<1>4. Settling(c, ev, h, q)
  BY <1>1, RemoveBeforeSettle DEF Settling
<1>5. ASSUME Rooted(c, ev, h, p) PROVE Rooted(c, ev, h, q)
  <2>1. Rooted(c, ev, h, p \ ts)
    BY <1>5, ClosedRooted
  <2>2. ASSUME NEW op \in TxIn[t], op \notin Coins
        PROVE  \E u \in Txs : op \in Outputs(u) /\ (u \in q \/ u \in Confirmed(c) \/ Coming(ev, h, u))
    <3>1. CASE op \in Unspent(c)
      <4>1. PICK u \in Confirmed(c) : op \in Outputs(u)
        BY <2>2, <3>1 DEF Unspent
      <4> QED
        BY <4>1, ChainTypes
    <3>2. CASE \E u \in p \ ts : op \in Outputs(u)
      BY <3>2
    <3> QED
      BY <2>2, <3>1, <3>2
  <2>3. ASSUME NEW w \in p \ ts, NEW op \in TxIn[w], op \notin Coins
        PROVE  \E u \in Txs : op \in Outputs(u) /\ (u \in q \/ u \in Confirmed(c) \/ Coming(ev, h, u))
    <3>1. PICK u \in Txs : /\ op \in Outputs(u)
                           /\ u \in p \ ts \/ u \in Confirmed(c) \/ Coming(ev, h, u)
      BY <2>1, <2>3 DEF Rooted
    <3> QED
      BY <3>1
  <2> QED
    BY <2>2, <2>3 DEF Rooted
<1> QED
  BY <1>3, <1>4, <1>5

-----------------------------------------------------------------------------
(* The steps of the handler.                                               *)

\* At each step of the handler there is a notification in hand.
LEMMA InHandling ==
  ASSUME Flow, NEW pc \in Points, HandlerStep(pc)
  PROVE  handler \in Handling /\ handler # NoEvent /\ handler.pc = pc
BY DEF Flow, HandlerStep, NoEvent, Points, Handling

\* A transaction of a connected block is removed.  What spends its outputs
\* finds it in the chain, or in a notification that brings it back.
LEMMA HeadRemoved ==
  ASSUME NEW c, NEW ev, NEW h \in Handling, NEW g, NEW p, NEW q,
         g.txs = h.txs, g.kind = h.kind, h.kind = "connected",
         h.pc = "remove", g.pc = "conflicts", q = p \ {h.txs[1]},
         Recalled(c, ev, h), Removed(c, ev, h, p), Settling(c, ev, h, p)
  PROVE  /\ Removed(c, ev, g, q) /\ Settling(c, ev, g, q)
         /\ Rooted(c, ev, h, p) => Rooted(c, ev, g, q)
<1>1. /\ \A i : Rest(g, i) = Rest(h, i)
      /\ Rest(h, 1) = {h.txs[1]} \cup Rest(h, 2)
  BY SameTx, NextFacts
<1>2. /\ ToRemove(h) = Rest(h, 1) /\ ToRemove(g) = Rest(h, 2)
      /\ ToSettle(h) = Rest(h, 1) /\ ToSettle(g) = Rest(h, 1)
  BY <1>1 DEF ToRemove, ToSettle
<1>3. Removed(c, ev, g, q)
  BY <1>1, <1>2 DEF Removed
<1>4. Settling(c, ev, g, q)
  BY <1>2 DEF Settling
<1>5. ASSUME Rooted(c, ev, h, p), NEW t \in q, NEW op \in TxIn[t], op \notin Coins
      PROVE  \E u \in Txs : op \in Outputs(u) /\ (u \in q \/ u \in Confirmed(c) \/ Coming(ev, g, u))
  <2>1. PICK u \in Txs : op \in Outputs(u) /\ (u \in p \/ u \in Confirmed(c) \/ Coming(ev, h, u))
    BY <1>5 DEF Rooted
  <2>2. Coming(ev, h, u) => Coming(ev, g, u)
    BY <1>1 DEF Coming
  <2>3. u = h.txs[1] => u \in Confirmed(c) \/ Coming(ev, g, u)
    BY <1>1 DEF Recalled, Coming
  <2> QED
    BY <2>1, <2>2, <2>3
<1> QED
  BY <1>3, <1>4, <1>5 DEF Rooted

\* The conflicts of a transaction of a connected block are removed, and what
\* depends on them.
LEMMA RivalsRemoved ==
  ASSUME NEW c, NEW ev, NEW h \in Handling, NEW g, NEW m, Sound(m), NEW ts,
         g.txs = h.txs, g.kind = h.kind, h.pc = "conflicts", g.pc = "orphan",
         ts = txDescendants(m, {m.outpoints[op] : op \in TxIn[h.txs[1]]} \ {None, h.txs[1]}),
         Removed(c, ev, h, m.pool), Settling(c, ev, h, m.pool)
  PROVE  /\ Removed(c, ev, g, m.pool \ ts) /\ Settling(c, ev, g, m.pool \ ts)
         /\ Rooted(c, ev, h, m.pool) => Rooted(c, ev, g, m.pool \ ts)
<1>1. /\ \A i : Rest(g, i) = Rest(h, i)
      /\ Rest(h, 1) = {h.txs[1]} \cup Rest(h, 2) /\ h.txs[1] \in Txs
  BY SameTx, NextFacts
<1>2. /\ ToRemove(h) = Rest(h, 2) /\ ToRemove(g) = Rest(h, 2)
      /\ ToSettle(h) = Rest(h, 1) /\ ToSettle(g) = Rest(h, 2)
  BY <1>1 DEF ToRemove, ToSettle
<1>3. PICK x \in Txs : x = h.txs[1]
  BY <1>1
<1>4. PICK rivals : rivals = {m.outpoints[op] : op \in TxIn[x]} \ {None, x}
  OBVIOUS
<1>5. /\ rivals \in SUBSET Txs /\ ts = txDescendants(m, rivals)
  <2>1. Spenders(m, x) \subseteq m.pool /\ m.pool \subseteq Txs
    BY SpendersInPool DEF Sound, PoolType
  <2>2. rivals \subseteq Spenders(m, x)
    BY <1>4 DEF Spenders
  <2> QED
    BY <1>3, <1>4, <2>1, <2>2
<1>6. /\ rivals \subseteq ts
      /\ \A u \in ts, t \in m.pool : TxIn[t] \cap Outputs(u) # {} => t \in ts
  BY <1>5, DescendantsClosed
<1>7. Removed(c, ev, g, m.pool \ ts)
  BY <1>2 DEF Removed
<1>8. ASSUME NEW t \in m.pool \ ts, x \in Confirmed(c), TxIn[t] \cap TxIn[x] # {}
      PROVE  x \in Later(ev, 1) \cup Rest(h, 2)
  <2>1. PICK op : op \in TxIn[t] /\ op \in TxIn[x]
    BY <1>8
  <2>2. t \in Txs /\ op \in OutPoints
    BY <2>1, InputsAreOutpoints DEF Sound, PoolType
  <2>3. m.outpoints[op] = t /\ t # None
    BY <2>1, <2>2, PoolAssumption DEF Sound, ExactOutpoints
  <2>4. t = x
    BY <1>4, <1>6, <2>1, <2>3
  <2> QED
    BY <1>2, <1>8, <2>4 DEF Removed
<1>9. Settling(c, ev, g, m.pool \ ts)
  BY <1>1, <1>2, <1>3, <1>8 DEF Settling
<1>10. ASSUME Rooted(c, ev, h, m.pool) PROVE Rooted(c, ev, g, m.pool \ ts)
  <2>1. Rooted(c, ev, h, m.pool \ ts)
    BY <1>6, <1>10, ClosedRooted
  <2> QED
    BY <2>1, SameTx
<1> QED
  BY <1>7, <1>9, <1>10

\* The handler does not yet change what it has to remove and to settle.
LEMMA SamePhase ==
  ASSUME NEW c, NEW ev, NEW h, NEW g, NEW p, g.txs = h.txs, g.kind = h.kind,
         \/ h.pc = "orphan" /\ g.pc = "process"
         \/ h.pc = "reinsert" /\ g.pc = "purge",
         Removed(c, ev, h, p), Settling(c, ev, h, p)
  PROVE  Removed(c, ev, g, p) /\ Settling(c, ev, g, p)
<1>1. \A i : Rest(g, i) = Rest(h, i)
  BY SameTx
<1>2. ToRemove(g) = ToRemove(h) /\ ToSettle(g) = ToSettle(h)
  BY <1>1 DEF ToRemove, ToSettle
<1> QED
  BY <1>2 DEF Removed, Settling

\* A disconnected transaction that is refused goes, with what depends on it.
LEMMA HeadPurged ==
  ASSUME NEW c, NEW ev, NEW h \in Handling, NEW m, Sound(m), NEW ts,
         h.kind = "disconnected", ts = txDescendants(m, {h.txs[1]}),
         LastWord(c, ev, h), InTurn(c, ev, h), Recalled(c, ev, h),
         Removed(c, ev, h, m.pool), Settling(c, ev, h, m.pool)
  PROVE  /\ LastWord(c, ev, NextTx(h)) /\ InTurn(c, ev, NextTx(h))
         /\ Recalled(c, ev, NextTx(h))
         /\ Removed(c, ev, NextTx(h), m.pool \ ts)
         /\ Settling(c, ev, NextTx(h), m.pool \ ts)
         /\ Rooted(c, ev, h, m.pool) => Rooted(c, ev, NextTx(h), m.pool \ ts)
<1>1. h.txs[1] \in Txs
  BY NextFacts
<1>2. /\ h.txs[1] \in ts
      /\ \A u \in ts, t \in m.pool : TxIn[t] \cap Outputs(u) # {} => t \in ts
  <2>1. {h.txs[1]} \in SUBSET Txs
    BY <1>1
  <2> QED
    BY <2>1, DescendantsClosed
<1>3. Removed(c, ev, h, m.pool \ ts) /\ Settling(c, ev, h, m.pool \ ts)
  BY Shrunk
<1>4. ASSUME Rooted(c, ev, h, m.pool) PROVE Rooted(c, ev, NextTx(h), m.pool \ ts)
  <2>1. Rooted(c, ev, h, m.pool \ ts)
    BY <1>2, <1>4, ClosedRooted
  <2>2. \A t \in m.pool \ ts : TxIn[t] \cap Outputs(h.txs[1]) = {}
    BY <1>2
  <2> QED
    BY <2>1, <2>2, NextRooted
<1> QED
  BY <1>3, <1>4, NextFollowed

-----------------------------------------------------------------------------
(* The steps of the specification.                                         *)

\* The notifications on their way, when one is added, sent or taken.
LEMMA PendingType ==
  ASSUME Flow
  PROVE  Pending \in Seq(Events)
  BY DEF Flow, Pending

LEMMA PendingGrows ==
  ASSUME Flow, NEW e \in Events
  PROVE  events \o Append(unsent, e) = Append(events \o unsent, e)
<1>1. events \in Seq(Events) /\ unsent \in Seq(Events) /\ <<e>> \in Seq(Events)
  BY DEF Flow
<1>2. (events \o unsent) \o <<e>> = events \o (unsent \o <<e>>)
  BY <1>1, ConcatAssociative
<1>3. Append(unsent, e) = unsent \o <<e>> /\ events \o unsent \in Seq(Events)
  BY <1>1, AppendIsConcat
<1>4. Append(events \o unsent, e) = (events \o unsent) \o <<e>>
  BY <1>3, AppendIsConcat
<1> QED
  BY <1>2, <1>3, <1>4

LEMMA PendingMoves ==
  ASSUME Flow, 1 \in DOMAIN unsent
  PROVE  Append(events, unsent[1]) \o RemoveAt(unsent, 1) = events \o unsent
<1>1. /\ events \in Seq(Events) /\ unsent \in Seq(Events) /\ unsent[1] \in Events
      /\ unsent # <<>> /\ <<unsent[1]>> \in Seq(Events)
  BY DEF Flow
<1>0. Tail(unsent) \in Seq(Events)
  BY <1>1
<1>2. PICK rest \in Seq(Events) : rest = Tail(unsent)
  BY <1>0, Zenon
<1>3. unsent = <<unsent[1]>> \o rest
  <2>1. Len(rest) = Len(unsent) - 1 /\ \A i \in 1 .. Len(rest) : rest[i] = unsent[i + 1]
    BY <1>1, <1>2
  <2>2. /\ <<unsent[1]>> \o rest \in Seq(Events)
        /\ Len(<<unsent[1]>> \o rest) = Len(unsent)
        /\ \A i \in 1 .. Len(unsent) : (<<unsent[1]>> \o rest)[i] = unsent[i]
    BY <1>1, <1>2, <2>1
  <2> QED
    BY <1>1, <2>2, SeqEqual
<1>4. RemoveAt(unsent, 1) = rest
  <2>1. SubSeq(unsent, 1, 0) = <<>> /\ SubSeq(unsent, 2, Len(unsent)) = rest
    BY <1>1, <1>2
  <2> QED
    BY <1>2, <2>1, ConcatEmptySeq DEF RemoveAt
<1>5. Append(events, unsent[1]) = events \o <<unsent[1]>>
  BY <1>1, AppendIsConcat
<1>6. (events \o <<unsent[1]>>) \o rest = events \o (<<unsent[1]>> \o rest)
  BY <1>1, <1>2, ConcatAssociative
<1> QED
  BY <1>3, <1>4, <1>5, <1>6

LEMMA PendingShrinks ==
  ASSUME Flow, events # <<>>
  PROVE  /\ Pending # <<>> /\ Pending[1] = events[1]
         /\ Tail(events) \o unsent = Tail(Pending)
<1>1. events \in Seq(Events) /\ unsent \in Seq(Events)
  BY DEF Flow
<1>0. events \o unsent \in Seq(Events) /\ Tail(events) \in Seq(Events)
  BY <1>1
<1>2. PICK all \in Seq(Events) : all = events \o unsent
  BY <1>0, Zenon
<1>3. /\ Len(all) = Len(events) + Len(unsent) /\ Len(events) > 0
      /\ \A i \in 1 .. Len(all) :
            all[i] = IF i <= Len(events) THEN events[i] ELSE unsent[i - Len(events)]
  BY <1>1, <1>2
<1>4. all # <<>> /\ all[1] = events[1]
  BY <1>1, <1>2, <1>3
<1>5. PICK rest \in Seq(Events) : rest = Tail(events)
  BY <1>0, Zenon
<1>6. Len(rest) = Len(events) - 1 /\ \A i \in 1 .. Len(rest) : rest[i] = events[i + 1]
  BY <1>1, <1>5
<1>7. /\ rest \o unsent \in Seq(Events) /\ Len(rest \o unsent) = Len(rest) + Len(unsent)
      /\ \A i \in 1 .. Len(rest) + Len(unsent) :
            (rest \o unsent)[i] = IF i <= Len(rest) THEN rest[i] ELSE unsent[i - Len(rest)]
  BY <1>1, <1>5
<1>8. /\ Tail(all) \in Seq(Events) /\ Len(Tail(all)) = Len(all) - 1
      /\ \A i \in 1 .. Len(all) - 1 : Tail(all)[i] = all[i + 1]
  BY <1>2, <1>4
<1>9. Len(rest \o unsent) = Len(Tail(all))
  BY <1>1, <1>3, <1>6, <1>7, <1>8
<1>10. ASSUME NEW i \in 1 .. Len(rest \o unsent)
       PROVE  (rest \o unsent)[i] = Tail(all)[i]
  BY <1>1, <1>3, <1>5, <1>6, <1>7, <1>8, <1>9
<1>11. rest \o unsent = Tail(all)
  BY <1>7, <1>8, <1>9, <1>10, SeqEqual
<1> QED
  BY <1>2, <1>4, <1>5, <1>11 DEF Pending

LEMMA SortedAppend ==
  ASSUME NEW ev \in Seq(Events), Sorted(ev), NEW e \in Events,
         e.kind = "connected" => InOrder(e.txs)
  PROVE  Sorted(Append(ev, e))
<1>1. /\ DOMAIN Append(ev, e) = 1 .. Len(ev) + 1 /\ DOMAIN ev = 1 .. Len(ev)
      /\ \A k \in 1 .. Len(ev) : Append(ev, e)[k] = ev[k]
      /\ Append(ev, e)[Len(ev) + 1] = e /\ Len(ev) \in Nat
  BY LaterAppend
<1>2. \A k \in 1 .. Len(ev) + 1 : k \in 1 .. Len(ev) \/ k = Len(ev) + 1
  BY <1>1
<1> QED
  BY <1>1, <1>2 DEF Sorted

LEMMA SortedTail ==
  ASSUME NEW ev \in Seq(Events), Sorted(ev), ev # <<>>
  PROVE  Sorted(Tail(ev))
<1>1. \A k \in DOMAIN Tail(ev) : k + 1 \in DOMAIN ev /\ Tail(ev)[k] = ev[k + 1]
  BY LaterTail
<1> QED
  BY <1>1 DEF Sorted

\* The chain stays one, the handler in phase; what was missed stays missed.
LEMMA ShapeStep ==
  ASSUME ChaseInv, Next
  PROVE  /\ Grown(chain') /\ Phases(handler')
         /\ missed' \in Nat /\ unrestored' \in BOOLEAN /\ overtaken' \in BOOLEAN
         /\ missed' = 0 /\ ~ overtaken' => missed = 0 /\ ~ overtaken
<1> DEFINE Shape == /\ Grown(chain') /\ Phases(handler')
                    /\ missed' \in Nat /\ unrestored' \in BOOLEAN /\ overtaken' \in BOOLEAN
                    /\ missed' = 0 /\ ~ overtaken' => missed = 0 /\ ~ overtaken
<1>0. /\ Flow /\ Grown(chain) /\ Phases(handler)
      /\ missed \in Nat /\ unrestored \in BOOLEAN /\ overtaken \in BOOLEAN
      /\ chain \in Seq(Bodies) /\ events \in Seq(Events)
  BY DEF ChaseInv, PoolInv, Flow
<1>1. ASSUME NEW i \in DOMAIN unsent, NEW dropped \in BOOLEAN, Notify(i, dropped)
      PROVE  Shape
  <2>1. missed' \in Nat /\ (missed' = 0 => missed = 0)
    BY <1>0, <1>1 DEF Notify
  <2>2. overtaken' \in BOOLEAN /\ (~ overtaken' => ~ overtaken)
    BY <1>0, <1>1, Zenon DEF Notify
  <2> QED
    BY <1>0, <1>1, <2>1, <2>2 DEF Notify
<1>2. ASSUME NEW body \in Blocks, ConnectBlock(body)
      PROVE  Shape
  <2>1. body \in Bodies
    BY PoolAssumption DEF Bodies
  <2>2. Grown(chain')
    BY <1>0, <1>2, <2>1, ConnectGrown DEF ConnectBlock
  <2> QED
    BY <1>0, <1>2, <2>2 DEF ConnectBlock
<1>3. ASSUME DisconnectBlock
      PROVE  Shape
  <2>1. Grown(chain')
    BY <1>0, <1>3, FrontGrown DEF DisconnectBlock
  <2> QED
    BY <1>0, <1>3, <2>1 DEF DisconnectBlock
<1>4. ASSUME NEW behind \in BOOLEAN, TakeEvent(behind)
      PROVE  Shape
  <2>1. events # <<>>
    BY <1>4 DEF TakeEvent
  <2>4. Head(events).kind \in {"connected", "disconnected"}
    <3>1. Head(events) \in Events
      BY <1>0, <2>1
    <3> QED
      BY <3>1 DEF Events, Kinds
  <2>5. Phases(handler')
    BY <1>4, <2>4 DEF TakeEvent, Phases
  <2>6. missed' \in Nat /\ (missed' = 0 => missed = 0)
    BY <1>0, <1>4 DEF TakeEvent
  <2> QED
    BY <1>0, <1>4, <2>5, <2>6 DEF TakeEvent
<1>5. ASSUME NEW h \in Handling, NextTx(h) # NoEvent
      PROVE  Phases(NextTx(h))
  BY <1>5 DEF NextTx, Phases, Handling
<1>6. CASE RemoveTransaction \/ RemoveConflicts \/ RemoveOrphan
  <2>1. handler \in Handling /\ handler # NoEvent
    BY <1>0, <1>6, InHandling
       DEF RemoveTransaction, RemoveConflicts, RemoveOrphan, Points
  <2>2. handler.pc \in {"remove", "conflicts", "orphan"}
    BY <1>6 DEF RemoveTransaction, RemoveConflicts, RemoveOrphan, HandlerStep
  <2>3. handler'.pc \in {"conflicts", "orphan", "process"} /\ handler'.kind = handler.kind
    BY <1>6, <2>1 DEF RemoveTransaction, RemoveConflicts, RemoveOrphan, Handling
  <2>4. Phases(handler')
    BY <1>0, <2>1, <2>2, <2>3 DEF Phases
  <2>5. UNCHANGED <<chain, missed, unrestored, overtaken>>
    BY <1>6 DEF RemoveTransaction, RemoveConflicts, RemoveOrphan, Quiet
  <2> QED
    BY <1>0, <2>4, <2>5
<1>7. CASE ProcessOrphans \/ Reinsert \/ Purge
  <2>1. handler \in Handling /\ handler # NoEvent
    BY <1>0, <1>7, InHandling DEF ProcessOrphans, Reinsert, Purge, Points
  <2>2. \/ handler' = NextTx(handler)
        \/ handler.pc = "reinsert" /\ handler' = [handler EXCEPT !.pc = "purge"]
    BY <1>7 DEF ProcessOrphans, Reinsert, Purge, HandlerStep
  <2>3. Phases(handler')
    <3>1. CASE handler' = NextTx(handler)
      BY <1>5, <2>1, <3>1 DEF Phases
    <3>2. CASE handler.pc = "reinsert" /\ handler' = [handler EXCEPT !.pc = "purge"]
      <4>1. handler'.kind = handler.kind /\ handler'.pc = "purge"
        BY <2>1, <3>2 DEF Handling
      <4> QED
        BY <1>0, <2>1, <3>2, <4>1 DEF Phases
    <3> QED
      BY <2>2, <3>1, <3>2
  <2>4. UNCHANGED <<chain, missed, overtaken>> /\ unrestored' \in BOOLEAN
    BY <1>0, <1>7 DEF ProcessOrphans, Reinsert, Purge, Quiet
  <2> QED
    BY <1>0, <2>3, <2>4
<1>8. ASSUME UNCHANGED <<chain, handler, missed, unrestored, overtaken>>
      PROVE  Shape
  BY <1>0, <1>8
<1>9. ASSUME NEW t \in Txs, SendRawTransaction(t) \/ TryOrphan(t)
      PROVE  Shape
  BY <1>8, <1>9 DEF SendRawTransaction, TryOrphan
<1>10. ASSUME NEW t \in Txs, NEW tag \in Tags, handleTxMsg(t, tag)
       PROVE  Shape
  BY <1>8, <1>10 DEF handleTxMsg
<1>11. ASSUME NEW tag \in Tags, RemoveOrphansByTag(tag)
       PROVE  Shape
  BY <1>8, <1>11 DEF RemoveOrphansByTag
<1>12. CASE NextOutpoint \/ EndOrphans
  BY <1>8, <1>12 DEF NextOutpoint, EndOrphans
<1> QED
  BY <1>1, <1>2, <1>3, <1>4, <1>6, <1>7, <1>9, <1>10, <1>11, <1>12 DEF Next

\* The steps that neither move the chain nor the handler change the pool by
\* accepting a transaction, or not at all.
LEMMA AcceptStep ==
  ASSUME ChaseInv, Followed, NEW t \in Txs, NEW b \in BOOLEAN, NEW r \in BOOLEAN,
         checkMempoolAcceptance(mp, t, b, r) = "accepted"
  PROVE  /\ Removed(chain, Pending, handler, Accept(mp, t).pool)
         /\ Settling(chain, Pending, handler, Accept(mp, t).pool)
         /\ ~ unrestored => Rooted(chain, Pending, handler, Accept(mp, t).pool)
         /\ t \in Accept(mp, t).pool
<1>1. /\ Sound(mp) /\ Grown(chain) /\ mp.pool \in SUBSET Txs
      /\ chain \in Seq(Bodies) /\ Pending \in Seq(Events)
      /\ handler = NoEvent \/ handler \in Handling
  BY PendingType DEF ChaseInv, PoolInv, Flow, Sound, PoolType
<1>2. PICK ts \in SUBSET Txs :
           /\ Accept(mp, t).pool = (mp.pool \ ts) \cup {t}
           /\ \A u \in ts, w \in mp.pool : TxIn[w] \cap Outputs(u) # {} => w \in ts
           /\ \A op \in TxIn[t] :
                op \in Unspent(chain) \/ \E u \in mp.pool \ ts : op \in Outputs(u)
  BY <1>1, AcceptedFacts
<1>3. /\ InTurn(chain, Pending, handler) /\ Removed(chain, Pending, handler, mp.pool)
      /\ Settling(chain, Pending, handler, mp.pool)
      /\ ~ unrestored => Rooted(chain, Pending, handler, mp.pool)
  BY DEF Followed
<1>4. PICK q : q = Accept(mp, t).pool
  OBVIOUS
<1>5. /\ Removed(chain, Pending, handler, q) /\ Settling(chain, Pending, handler, q)
      /\ Rooted(chain, Pending, handler, mp.pool) => Rooted(chain, Pending, handler, q)
  <2>1. PICK c, ev, h, p0 : c = chain /\ ev = Pending /\ h = handler /\ p0 = mp.pool
    OBVIOUS
  <2>2. c \in Seq(Bodies) /\ Grown(c) /\ ev \in Seq(Events) /\ p0 \in SUBSET Txs
    BY <1>1, <2>1
  <2>3. h = NoEvent \/ h \in Handling
    BY <1>1, <2>1
  <2>4. InTurn(c, ev, h) /\ Removed(c, ev, h, p0) /\ Settling(c, ev, h, p0)
    BY <1>3, <2>1
  <2>5. q = (p0 \ ts) \cup {t}
    BY <1>2, <1>4, <2>1
  <2>6. \A u \in ts, w \in p0 : TxIn[w] \cap Outputs(u) # {} => w \in ts
    BY <1>2, <2>1
  <2>7. \A op \in TxIn[t] : op \in Unspent(c) \/ \E u \in p0 \ ts : op \in Outputs(u)
    BY <1>2, <2>1
  <2>8. /\ Removed(c, ev, h, q) /\ Settling(c, ev, h, q)
        /\ Rooted(c, ev, h, p0) => Rooted(c, ev, h, q)
    BY <2>2, <2>3, <2>4, <2>5, <2>6, <2>7, AcceptFollowed
  <2> QED
    BY <2>1, <2>8
<1> QED
  BY <1>2, <1>3, <1>4, <1>5

\* Such a step keeps the pool on the heels of the chain.
LEMMA ClientFollowed ==
  ASSUME ChaseInv, Followed, UNCHANGED <<chain, Pending, handler, unrestored>>,
         \/ mp'.pool = mp.pool
         \/ \E t \in Txs, b \in BOOLEAN, r \in BOOLEAN :
               /\ checkMempoolAcceptance(mp, t, b, r) = "accepted"
               /\ mp'.pool = Accept(mp, t).pool
  PROVE  Followed'
<1>1. CASE mp'.pool = mp.pool
  BY <1>1 DEF Followed
<1>2. ASSUME NEW t \in Txs, NEW b \in BOOLEAN, NEW r \in BOOLEAN,
             checkMempoolAcceptance(mp, t, b, r) = "accepted",
             mp'.pool = Accept(mp, t).pool
      PROVE  Followed'
  <2>1. /\ Removed(chain, Pending, handler, mp'.pool)
        /\ Settling(chain, Pending, handler, mp'.pool)
        /\ ~ unrestored => Rooted(chain, Pending, handler, mp'.pool)
    BY <1>2, AcceptStep
  <2> QED
    BY <2>1 DEF Followed
<1> QED
  BY <1>1, <1>2

\* Transactions from clients and peers, and the orphans they free.
LEMMA PoolStep ==
  ASSUME ChaseInv, Followed,
         \/ \E t \in Txs : SendRawTransaction(t) \/ TryOrphan(t)
         \/ \E t \in Txs, tag \in Tags : handleTxMsg(t, tag)
         \/ \E tag \in Tags : RemoveOrphansByTag(tag)
         \/ NextOutpoint \/ EndOrphans
  PROVE  Followed'
<1> USE DEF Verdicts
<1>1. Sound(mp)
  BY DEF ChaseInv, PoolInv
<1> DEFINE Accepted == \E t \in Txs, b \in BOOLEAN, r \in BOOLEAN :
                          /\ checkMempoolAcceptance(mp, t, b, r) = "accepted"
                          /\ mp'.pool = Accept(mp, t).pool
<1>2. ASSUME NEW t \in Txs, SendRawTransaction(t)
      PROVE  mp'.pool = mp.pool \/ Accepted
  <2>1. PICK r \in BOOLEAN :
          ProcessTransaction(t, FALSE, None, checkMempoolAcceptance(mp, t, TRUE, r))
    BY <1>2 DEF SendRawTransaction
  <2> QED
    BY <2>1 DEF ProcessTransaction
<1>3. ASSUME NEW t \in Txs, NEW tag \in Tags, handleTxMsg(t, tag)
      PROVE  mp'.pool = mp.pool \/ Accepted
  <2>1. PICK r \in BOOLEAN :
          ProcessTransaction(t, TRUE, tag, checkMempoolAcceptance(mp, t, TRUE, r))
    BY <1>3 DEF handleTxMsg
  <2>2. mp' \in addOrphan(mp, t, tag) => mp'.pool = mp.pool
    BY <1>1, AddOrphanSound
  <2> QED
    BY <2>1, <2>2 DEF ProcessTransaction
<1>4. ASSUME NEW t \in Txs, TryOrphan(t)
      PROVE  mp'.pool = mp.pool \/ Accepted
  <2>1. PICK r \in BOOLEAN :
          \/ mp' = removeOrphan(mp, t, TRUE)
          \/ mp' = mp
          \/ /\ checkMempoolAcceptance(mp, t, FALSE, r) = "accepted"
             /\ mp' = removeOrphan(Accept(mp, t), t, FALSE)
    BY <1>4 DEF TryOrphan
  <2>2. removeOrphan(mp, t, TRUE).pool = mp.pool
    BY <1>1, RemoveOrphanSound
  <2>3. removeOrphan(Accept(mp, t), t, FALSE).pool = Accept(mp, t).pool
    BY <1>1, AcceptSound, RemoveOrphanSound
  <2> QED
    BY <2>1, <2>2, <2>3
<1>5. ASSUME NEW tag \in Tags, RemoveOrphansByTag(tag)
      PROVE  mp'.pool = mp.pool
  BY <1>1, <1>5, DropOrphansSound DEF RemoveOrphansByTag
<1>6. ASSUME NextOutpoint \/ EndOrphans
      PROVE  mp'.pool = mp.pool
  BY <1>1, <1>6, DropOrphansSound DEF NextOutpoint, EndOrphans, removeOrphanDoubleSpends
<1>7. UNCHANGED <<chain, Pending, handler, unrestored>>
  BY DEF Pending, SendRawTransaction, TryOrphan, handleTxMsg, RemoveOrphansByTag, NextOutpoint,
         EndOrphans
<1>8. mp'.pool = mp.pool \/ Accepted
  BY <1>2, <1>3, <1>4, <1>5, <1>6
<1> QED
  BY <1>7, <1>8, ClientFollowed

\* The chain moves and says so.
LEMMA ChainStep ==
  ASSUME ChaseInv, Followed, (\E body \in Blocks : ConnectBlock(body)) \/ DisconnectBlock
  PROVE  Followed'
<1>0. /\ Grown(chain) /\ mp.pool \in SUBSET Txs
      /\ chain \in Seq(Bodies) /\ Pending \in Seq(Events)
      /\ handler = NoEvent \/ handler \in Handling
  BY PendingType DEF ChaseInv, PoolInv, Flow, Sound, PoolType
<1>1. /\ LastWord(chain, Pending, handler) /\ InTurn(chain, Pending, handler)
      /\ Recalled(chain, Pending, handler)
      /\ Removed(chain, Pending, handler, mp.pool)
      /\ Settling(chain, Pending, handler, mp.pool)
      /\ ~ unrestored => Rooted(chain, Pending, handler, mp.pool)
  BY DEF Followed
<1>2. ASSUME NEW body \in Blocks, ConnectBlock(body)
      PROVE  Followed'
  <2>1. body \in Bodies /\ Valid(chain, body)
    BY <1>2, PoolAssumption DEF Bodies, ConnectBlock
  <2>2. PICK e : e = [kind |-> "connected", txs |-> body]
    OBVIOUS
  <2>3. e \in Events /\ e.kind = "connected" /\ e.txs = body
    BY <2>1, <2>2 DEF Events, Kinds
  <2>4. /\ chain' = Append(chain, body) /\ Pending' = Append(Pending, e)
        /\ handler' = handler /\ mp' = mp /\ unrestored' = unrestored
    <3>1. events' = events /\ unsent' = Append(unsent, e)
      BY <1>2, <2>2 DEF ConnectBlock
    <3>2. Pending' = Append(Pending, e)
      BY <2>3, <3>1, PendingGrows DEF ChaseInv, PoolInv, Pending
    <3> QED
      BY <1>2, <3>2 DEF ConnectBlock
  <2>5. /\ LastWord(chain', Pending', handler) /\ InTurn(chain', Pending', handler)
        /\ Removed(chain', Pending', handler, mp.pool)
        /\ Settling(chain', Pending', handler, mp.pool)
    BY <1>0, <1>1, <2>1, <2>3, <2>4, ConnectFollowed
  <2>6. Confirmed(chain') = Confirmed(chain) \cup ToSet(e.txs)
    <3>1. body \in Seq(Txs) /\ chain \in Seq(Seq(Txs))
      BY <1>0, <2>1, ChainTypes DEF Bodies
    <3> QED
      BY <2>3, <2>4, <3>1, ConfirmedAppend
  <2>7. Recalled(chain', Pending', handler)
    BY <1>0, <1>1, <2>3, <2>4, <2>6, RecalledNotify
  <2>8. ~ unrestored => Rooted(chain', Pending', handler, mp.pool)
    BY <1>0, <1>1, <2>1, <2>3, <2>4, ConnectRooted
  <2>9. Sorted(Pending')
    BY <1>0, <2>1, <2>3, <2>4, SortedAppend, ValidBody DEF Followed
  <2> QED
    BY <2>4, <2>5, <2>7, <2>8, <2>9 DEF Followed
<1>3. ASSUME DisconnectBlock
      PROVE  Followed'
  <2>1. chain # <<>> /\ Last(chain) \in Bodies
    BY <1>0, <1>3, FrontGrown DEF DisconnectBlock
  <2>2. PICK e : e = [kind |-> "disconnected", txs |-> Last(chain)]
    OBVIOUS
  <2>3. e \in Events /\ e.kind = "disconnected" /\ e.txs = Last(chain)
    BY <2>1, <2>2 DEF Events, Kinds
  <2>4. /\ chain' = Front(chain) /\ Pending' = Append(Pending, e)
        /\ handler' = handler /\ mp' = mp /\ unrestored' = unrestored
    <3>1. events' = events /\ unsent' = Append(unsent, e)
      BY <1>3, <2>2 DEF DisconnectBlock
    <3>2. Pending' = Append(Pending, e)
      BY <2>3, <3>1, PendingGrows DEF ChaseInv, PoolInv, Pending
    <3> QED
      BY <1>3, <3>2 DEF DisconnectBlock
  <2>5. /\ LastWord(chain', Pending', handler) /\ InTurn(chain', Pending', handler)
        /\ Removed(chain', Pending', handler, mp.pool)
        /\ Settling(chain', Pending', handler, mp.pool)
        /\ Rooted(chain, Pending, handler, mp.pool) => Rooted(chain', Pending', handler, mp.pool)
    BY <1>0, <1>1, <2>1, <2>3, <2>4, DisconnectFollowed
  <2>6. Confirmed(chain) = Confirmed(chain') \cup ToSet(e.txs)
    BY <1>0, <2>1, <2>3, <2>4, FrontGrown
  <2>7. Recalled(chain', Pending', handler)
    BY <1>0, <1>1, <2>3, <2>4, <2>6, RecalledNotify
  <2>9. Sorted(Pending')
    BY <1>0, <2>3, <2>4, SortedAppend DEF Followed
  <2> QED
    BY <1>1, <2>4, <2>5, <2>7, <2>9 DEF Followed
<1> QED
  BY <1>2, <1>3

\* The handler takes a notification.
LEMMA TakeStep ==
  ASSUME ChaseInv, Followed, missed = 0, missed' = 0,
         NEW behind \in BOOLEAN, TakeEvent(behind)
  PROVE  Followed'
<1>1. /\ Sorted(Pending) /\ Pending \in Seq(Events) /\ Pending # <<>> /\ handler = NoEvent
      /\ events # <<>> /\ Pending[1] = events[1] /\ Tail(events) \o unsent = Tail(Pending)
  BY PendingType, PendingShrinks DEF ChaseInv, PoolInv, TakeEvent, Followed
<1>2. /\ LastWord(chain, Pending, NoEvent) /\ InTurn(chain, Pending, NoEvent)
      /\ Recalled(chain, Pending, NoEvent)
      /\ Removed(chain, Pending, NoEvent, mp.pool)
      /\ Settling(chain, Pending, NoEvent, mp.pool)
      /\ ~ unrestored => Rooted(chain, Pending, NoEvent, mp.pool)
  BY <1>1 DEF Followed
<1>3. Head(events) = Pending[1] /\ Pending[1] \in Events
  BY <1>1
<1>4. /\ Pending' = Tail(Pending) /\ chain' = chain /\ mp' = mp /\ unrestored' = unrestored
      /\ handler' = [kind |-> Pending[1].kind, txs |-> Pending[1].txs,
                     pc |-> IF Pending[1].kind = "connected" THEN "remove" ELSE "reinsert"]
  BY <1>1, <1>3 DEF TakeEvent, Pending
<1>5. PICK g : g = handler'
  OBVIOUS
<1>6. /\ g \in Handling /\ g.kind = Pending[1].kind /\ g.txs = Pending[1].txs
      /\ g.pc \in {"remove", "reinsert"}
  BY <1>3, <1>4, <1>5 DEF Events, Handling, Points
<1>7. /\ LastWord(chain, Tail(Pending), g) /\ InTurn(chain, Tail(Pending), g)
      /\ Removed(chain, Tail(Pending), g, mp.pool)
      /\ Settling(chain, Tail(Pending), g, mp.pool)
      /\ Rooted(chain, Pending, NoEvent, mp.pool) => Rooted(chain, Tail(Pending), g, mp.pool)
  BY <1>1, <1>2, <1>6, TakeFollowed
<1>8. Recalled(chain, Tail(Pending), g)
  BY <1>1, <1>2, <1>6, RecalledTake
<1>9. Sorted(Tail(Pending))
  BY <1>1, SortedTail
<1> QED
  BY <1>2, <1>4, <1>5, <1>7, <1>8, <1>9 DEF Followed

\* A notification in its turn only moves on.
LEMMA NotifyStep ==
  ASSUME ChaseInv, Followed, missed = 0, missed' = 0, ~ overtaken',
         NEW i \in DOMAIN unsent, NEW dropped \in BOOLEAN, Notify(i, dropped)
  PROVE  Followed'
<1>1. missed' = IF dropped THEN missed + 1 ELSE missed
  BY DEF Notify
<1>2. ~ dropped /\ i = 1
  <2>1. ~ dropped
    BY <1>1
  <2>2. i = 1
    BY Zenon DEF Notify
  <2> QED
    BY <2>1, <2>2
<1>3. events' = Append(events, unsent[1]) /\ unsent' = RemoveAt(unsent, 1)
  BY <1>2 DEF Notify
<1>4. Pending' = Pending
  BY <1>2, <1>3, PendingMoves DEF ChaseInv, PoolInv, Pending
<1> QED
  BY <1>4 DEF Notify, Followed

\* The handler works on a transaction of a connected block.
LEMMA ConnectedStep ==
  ASSUME ChaseInv, Followed,
         RemoveTransaction \/ RemoveConflicts \/ RemoveOrphan \/ ProcessOrphans
  PROVE  Followed'
<1>1. /\ Sound(mp) /\ handler \in Handling /\ handler # NoEvent /\ handler.kind = "connected"
  <2>1. handler \in Handling /\ handler # NoEvent
    BY InHandling
       DEF ChaseInv, PoolInv, RemoveTransaction, RemoveConflicts, RemoveOrphan,
           ProcessOrphans, Points
  <2>2. handler.pc \in {"remove", "conflicts", "orphan", "process"}
    BY DEF RemoveTransaction, RemoveConflicts, RemoveOrphan, ProcessOrphans, HandlerStep
  <2> QED
    BY <2>1, <2>2 DEF ChaseInv, PoolInv, Phases
<1>2. /\ LastWord(chain, Pending, handler) /\ InTurn(chain, Pending, handler)
      /\ Recalled(chain, Pending, handler)
      /\ Removed(chain, Pending, handler, mp.pool)
      /\ Settling(chain, Pending, handler, mp.pool)
      /\ ~ unrestored => Rooted(chain, Pending, handler, mp.pool)
  BY DEF Followed
<1>3. UNCHANGED <<chain, Pending, unrestored>>
  BY DEF Pending, RemoveTransaction, RemoveConflicts, RemoveOrphan, ProcessOrphans, Quiet
<1>4. Head(handler.txs) = handler.txs[1] /\ handler.txs[1] \in Txs
  BY <1>1, NextFacts
<1>5. ASSUME NEW pc \in Points, handler' = [handler EXCEPT !.pc = pc]
      PROVE  /\ handler'.txs = handler.txs /\ handler'.kind = handler.kind /\ handler'.pc = pc
             /\ LastWord(chain, Pending, handler') /\ InTurn(chain, Pending, handler')
             /\ Recalled(chain, Pending, handler')
  <2>1. handler'.txs = handler.txs /\ handler'.kind = handler.kind /\ handler'.pc = pc
    BY <1>1, <1>5 DEF Handling
  <2> QED
    BY <1>2, <2>1, SameTx
<1>6. CASE RemoveTransaction
  <2>1. /\ handler.pc = "remove" /\ handler' = [handler EXCEPT !.pc = "conflicts"]
        /\ mp' = DropTxs(mp, {handler.txs[1]})
    BY <1>4, <1>6 DEF RemoveTransaction, HandlerStep, removeTransaction
  <2>2. mp'.pool = mp.pool \ {handler.txs[1]}
    BY <1>1, <2>1, DropTxsSound
  <2>3. /\ handler'.txs = handler.txs /\ handler'.kind = handler.kind
        /\ handler'.pc = "conflicts"
        /\ LastWord(chain, Pending, handler') /\ InTurn(chain, Pending, handler')
        /\ Recalled(chain, Pending, handler')
    BY <1>5, <2>1 DEF Points
  <2>4. /\ Removed(chain, Pending, handler', mp'.pool)
        /\ Settling(chain, Pending, handler', mp'.pool)
        /\ Rooted(chain, Pending, handler, mp.pool) => Rooted(chain, Pending, handler', mp'.pool)
    BY <1>1, <1>2, <2>1, <2>2, <2>3, HeadRemoved
  <2> QED
    BY <1>2, <1>3, <2>3, <2>4 DEF Followed
<1>7. CASE RemoveConflicts
  <2>1. PICK ts : ts = txDescendants(mp, {mp.outpoints[op] : op \in TxIn[handler.txs[1]]}
                                            \ {None, handler.txs[1]})
    OBVIOUS
  <2>2. /\ handler.pc = "conflicts" /\ handler' = [handler EXCEPT !.pc = "orphan"]
        /\ mp' = DropTxs(mp, ts)
    BY <1>4, <1>7, <2>1 DEF RemoveConflicts, HandlerStep, RemoveDoubleSpends
  <2>3. mp'.pool = mp.pool \ ts
    BY <1>1, <2>2, DropTxsSound
  <2>4. /\ handler'.txs = handler.txs /\ handler'.kind = handler.kind
        /\ handler'.pc = "orphan"
        /\ LastWord(chain, Pending, handler') /\ InTurn(chain, Pending, handler')
        /\ Recalled(chain, Pending, handler')
    BY <1>5, <2>2 DEF Points
  <2>5. PICK g : g = handler'
    OBVIOUS
  <2>6. /\ Removed(chain, Pending, g, mp.pool \ ts)
        /\ Settling(chain, Pending, g, mp.pool \ ts)
        /\ Rooted(chain, Pending, handler, mp.pool) => Rooted(chain, Pending, g, mp.pool \ ts)
    BY <1>1, <1>2, <2>1, <2>2, <2>4, <2>5, RivalsRemoved
  <2> QED
    BY <1>2, <1>3, <2>3, <2>4, <2>5, <2>6 DEF Followed
<1>8. CASE RemoveOrphan
  <2>1. /\ handler.pc = "orphan" /\ handler' = [handler EXCEPT !.pc = "process"]
        /\ mp' = removeOrphan(mp, Head(handler.txs), FALSE)
    BY <1>8 DEF RemoveOrphan, HandlerStep
  <2>2. mp'.pool = mp.pool
    BY <1>1, <2>1, RemoveOrphanSound
  <2>3. /\ handler'.txs = handler.txs /\ handler'.kind = handler.kind
        /\ handler'.pc = "process"
        /\ LastWord(chain, Pending, handler') /\ InTurn(chain, Pending, handler')
        /\ Recalled(chain, Pending, handler')
    BY <1>5, <2>1 DEF Points
  <2>4. /\ Removed(chain, Pending, handler', mp.pool)
        /\ Settling(chain, Pending, handler', mp.pool)
    BY <1>2, <2>1, <2>3, SamePhase
  <2>5. ~ unrestored => Rooted(chain, Pending, handler', mp.pool)
    BY <1>2, <2>3, SameTx
  <2> QED
    BY <1>3, <2>2, <2>3, <2>4, <2>5 DEF Followed
<1>9. CASE ProcessOrphans
  <2>1. handler.pc = "process" /\ handler' = NextTx(handler) /\ mp' = mp
    BY <1>9 DEF ProcessOrphans, HandlerStep
  <2>2. /\ LastWord(chain, Pending, handler') /\ InTurn(chain, Pending, handler')
        /\ Recalled(chain, Pending, handler')
        /\ Removed(chain, Pending, handler', mp.pool)
        /\ Settling(chain, Pending, handler', mp.pool)
    BY <1>1, <1>2, <2>1, NextFollowed
  <2>3. ~ unrestored => Rooted(chain, Pending, handler', mp.pool)
    BY <1>1, <1>2, <2>1, NextRooted
  <2> QED
    BY <1>3, <2>1, <2>2, <2>3 DEF Followed
<1> QED
  BY <1>6, <1>7, <1>8, <1>9

\* The handler works on a transaction of a disconnected block.
LEMMA DisconnectedStep ==
  ASSUME ChaseInv, Followed, Reinsert \/ Purge
  PROVE  Followed'
<1>1. /\ Sound(mp) /\ handler \in Handling /\ handler # NoEvent /\ handler.kind = "disconnected"
  <2>1. handler \in Handling /\ handler # NoEvent
    BY InHandling DEF ChaseInv, PoolInv, Reinsert, Purge, Points
  <2>2. handler.pc \in {"reinsert", "purge"}
    BY DEF Reinsert, Purge, HandlerStep
  <2> QED
    BY <2>1, <2>2 DEF ChaseInv, PoolInv, Phases, Handling, Kinds
<1>2. /\ LastWord(chain, Pending, handler) /\ InTurn(chain, Pending, handler)
      /\ Recalled(chain, Pending, handler)
      /\ Removed(chain, Pending, handler, mp.pool)
      /\ Settling(chain, Pending, handler, mp.pool)
      /\ ~ unrestored => Rooted(chain, Pending, handler, mp.pool)
  BY DEF Followed
<1>3. UNCHANGED <<chain, Pending>>
  BY DEF Pending, Reinsert, Purge, Quiet
<1>4. PICK t \in Txs : t = handler.txs[1] /\ t = Head(handler.txs)
  BY <1>1, NextFacts
<1>5. CASE Reinsert
  <2>1. PICK r \in BOOLEAN, verdict \in {"accepted", "missing", "error"} :
          /\ verdict = checkMempoolAcceptance(mp, t, TRUE, r)
          /\ mp' = IF verdict = "accepted" THEN Accept(mp, t) ELSE mp
          /\ handler' = IF verdict = "error" THEN [handler EXCEPT !.pc = "purge"]
                        ELSE NextTx(handler)
          /\ unrestored' = (unrestored \/ verdict = "missing")
    <3>1. \A r : checkMempoolAcceptance(mp, t, TRUE, r) \in {"accepted", "missing", "error"}
      BY DEF checkMempoolAcceptance
    <3> QED
      BY <1>4, <1>5, <3>1 DEF Reinsert, Verdicts
  <2>3. CASE verdict = "accepted"
    <3>1. /\ mp' = Accept(mp, t) /\ handler' = NextTx(handler)
          /\ unrestored' <=> unrestored
      BY <2>1, <2>3
    <3>2. /\ Removed(chain, Pending, handler, mp'.pool)
          /\ Settling(chain, Pending, handler, mp'.pool)
          /\ ~ unrestored => Rooted(chain, Pending, handler, mp'.pool)
          /\ t \in mp'.pool
      BY <2>1, <2>3, <3>1, AcceptStep
    <3>3. /\ LastWord(chain, Pending, handler') /\ InTurn(chain, Pending, handler')
          /\ Recalled(chain, Pending, handler')
          /\ Removed(chain, Pending, handler', mp'.pool)
          /\ Settling(chain, Pending, handler', mp'.pool)
      BY <1>1, <1>2, <3>1, <3>2, NextFollowed
    <3>4. ~ unrestored => Rooted(chain, Pending, handler', mp'.pool)
      BY <1>1, <1>4, <3>1, <3>2, NextRooted
    <3> QED
      BY <1>3, <3>1, <3>3, <3>4 DEF Followed
  <2>4. CASE verdict = "missing"
    <3>1. mp' = mp /\ handler' = NextTx(handler) /\ unrestored'
      BY <2>1, <2>4
    <3>2. /\ LastWord(chain, Pending, handler') /\ InTurn(chain, Pending, handler')
          /\ Recalled(chain, Pending, handler')
          /\ Removed(chain, Pending, handler', mp.pool)
          /\ Settling(chain, Pending, handler', mp.pool)
      BY <1>1, <1>2, <3>1, NextFollowed
    <3> QED
      BY <1>3, <3>1, <3>2 DEF Followed
  <2>5. CASE verdict = "error"
    <3>1. /\ mp' = mp /\ handler' = [handler EXCEPT !.pc = "purge"]
          /\ unrestored' <=> unrestored
      BY <2>1, <2>5
    <3>2. /\ handler'.txs = handler.txs /\ handler'.kind = handler.kind
          /\ handler'.pc = "purge" /\ handler.pc = "reinsert"
      BY <1>1, <1>5, <3>1 DEF Handling, Reinsert, HandlerStep
    <3>3. /\ LastWord(chain, Pending, handler') /\ InTurn(chain, Pending, handler')
          /\ Recalled(chain, Pending, handler')
          /\ ~ unrestored => Rooted(chain, Pending, handler', mp.pool)
      BY <1>2, <3>2, SameTx
    <3>4. /\ Removed(chain, Pending, handler', mp.pool)
          /\ Settling(chain, Pending, handler', mp.pool)
      BY <1>2, <3>2, SamePhase
    <3> QED
      BY <1>3, <3>1, <3>3, <3>4 DEF Followed
  <2> QED
    BY <2>1, <2>3, <2>4, <2>5
<1>6. CASE Purge
  <2>1. PICK ts : ts = txDescendants(mp, {handler.txs[1]})
    OBVIOUS
  <2>2. /\ handler' = NextTx(handler) /\ mp' = DropTxs(mp, ts)
        /\ unrestored' = unrestored
    BY <1>4, <1>6, <2>1 DEF Purge, removeTransaction
  <2>3. mp'.pool = mp.pool \ ts
    BY <1>1, <2>2, DropTxsSound
  <2>4. /\ LastWord(chain, Pending, NextTx(handler)) /\ InTurn(chain, Pending, NextTx(handler))
        /\ Recalled(chain, Pending, NextTx(handler))
        /\ Removed(chain, Pending, NextTx(handler), mp.pool \ ts)
        /\ Settling(chain, Pending, NextTx(handler), mp.pool \ ts)
        /\ Rooted(chain, Pending, handler, mp.pool)
              => Rooted(chain, Pending, NextTx(handler), mp.pool \ ts)
    BY <1>1, <1>2, <2>1, HeadPurged
  <2> QED
    BY <1>2, <1>3, <2>2, <2>3, <2>4 DEF Followed
<1> QED
  BY <1>5, <1>6

-----------------------------------------------------------------------------
(* The theorems about the pool and the chain.                              *)

\* The empty pool follows the empty chain.
LEMMA InitChase ==
  ASSUME Init
  PROVE  ChaseInv
<1>1. PoolInv
  BY InitPool
<1>2. /\ chain = <<>> /\ Pending = <<>> /\ handler = NoEvent /\ mp.pool = {}
      /\ missed = 0 /\ unrestored = FALSE /\ overtaken = FALSE
  BY DEF Init, Pending
<1>3. Confirmed(<<>>) = {} /\ Later(<<>>, 1) = {}
  BY DEF Confirmed, Later
<1>4. Rest(NoEvent, 1) = {} /\ NoEvent.txs = <<>> /\ NoEvent.kind = "none"
  BY DEF Rest, NoEvent
<1>5. Grown(chain) /\ Sorted(<<>>) /\ Phases(handler)
  BY <1>2 DEF Grown, Sorted, Phases
<1>6. Followed
  BY <1>2, <1>3, <1>4, <1>5
     DEF Followed, LastWord, InTurn, Recalled, Removed, Settling, Rooted
<1> QED
  BY <1>1, <1>2, <1>5, <1>6 DEF ChaseInv

\* Whatever in the pool disagrees with the chain (mempool.go, manager.go) waits
\* for a notification that will end the disagreement.
THEOREM ChaseInvariant == Spec => []ChaseInv
<1>1. ChaseInv /\ PoolInv' /\ [Next]_vars => ChaseInv'
  <2> SUFFICES ASSUME ChaseInv, PoolInv', [Next]_vars PROVE ChaseInv'
    OBVIOUS
  <2>1. CASE Next
    <3>1. /\ Grown(chain') /\ Phases(handler')
          /\ missed' \in Nat /\ unrestored' \in BOOLEAN /\ overtaken' \in BOOLEAN
          /\ missed' = 0 /\ ~ overtaken' => missed = 0 /\ ~ overtaken
      BY <2>1, ShapeStep
    <3>2. ASSUME missed' = 0, ~ overtaken' PROVE Followed'
      <4>1. missed = 0 /\ Followed
        BY <3>1, <3>2 DEF ChaseInv
      <4> QED
        BY <2>1, <3>2, <4>1, PoolStep, ChainStep, TakeStep, NotifyStep, ConnectedStep,
           DisconnectedStep DEF Next
    <3> QED
      BY <3>1, <3>2 DEF ChaseInv
  <2>2. CASE UNCHANGED vars
    BY <2>2 DEF vars, ChaseInv, Followed, Pending
  <2> QED
    BY <2>1, <2>2
<1> QED
  BY <1>1, InitChase, PoolInvariant, PTL DEF Spec

\* PoolMinable of TxPool: once every notification is sent and handled, and none
\* was missed or came out of turn, no transaction of the pool is confirmed and each finds its inputs.
THEOREM MinableAlways == Spec => []PoolMinable
<1>1. ChaseInv => PoolMinable
  <2> SUFFICES ASSUME ChaseInv, Pending = <<>>, handler = NoEvent, missed = 0,
                      ~ unrestored, ~ overtaken
               PROVE  Minable
    BY DEF PoolMinable, Settled, Pending
  <2>1. Later(Pending, 1) = {} /\ ToRemove(handler) = {} /\ ToSettle(handler) = {}
    <3>1. \A i \in {1, 2} : Rest(NoEvent, i) = {}
      BY DEF Rest, NoEvent
    <3> QED
      BY <3>1 DEF Later, ToRemove, ToSettle
  <2>2. /\ Removed(chain, Pending, handler, mp.pool)
        /\ Settling(chain, Pending, handler, mp.pool)
        /\ Rooted(chain, Pending, handler, mp.pool)
    BY DEF ChaseInv, Followed
  <2>3. mp.pool \cap Confirmed(chain) = {}
    BY <2>1, <2>2 DEF Removed
  <2>4. \A u : ~ Coming(Pending, handler, u)
    BY DEF Coming, NoEvent
  <2>5. ASSUME NEW t \in mp.pool, NEW op \in TxIn[t]
        PROVE  Available(mp, op)
    <3>1. \A s \in Confirmed(chain) : op \notin TxIn[s]
      BY <2>1, <2>2, <2>5 DEF Settling
    <3>2. op \in Coins \/ \E u : op \in Outputs(u) /\ (u \in mp.pool \/ u \in Confirmed(chain))
      BY <2>2, <2>4, <2>5 DEF Rooted
    <3> QED
      BY <3>1, <3>2 DEF Available, Unspent
  <2> QED
    BY <2>3, <2>5 DEF Minable
<1> QED
  BY <1>1, ChaseInvariant, PTL
=============================================================================
