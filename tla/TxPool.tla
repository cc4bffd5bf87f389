------------------------------- MODULE TxPool -------------------------------
(***************************************************************************)
(* The memory pool (mempool/mempool.go) and the two paths that feed it:    *)
(* transactions from peers and RPC clients, and the chain notifications    *)
(* that netsync/manager.go handles long after the chain has moved on.      *)
(* They are sent with chainLock released, by whichever goroutine moved the *)
(* chain, through the bus or past it when it is full: they may arrive in   *)
(* another order than that of the chain's changes.                         *)
(*                                                                         *)
(* An outpoint is <<transaction, index>>.  The chain is a sequence of      *)
(* blocks, a block the sequence of its transactions without the coinbase;  *)
(* what is unspent follows from it.  mp.mtx is held over a whole operation *)
(* of the pool, chainLock only while an operation looks inputs up: work is *)
(* the loop of processOrphans, with the lock held, between two lookups.    *)
(***************************************************************************)
EXTENDS Naturals, Sequences, FiniteSets, SequencesExt, FiniteSetsExt

CONSTANTS
    Txs,            \* transactions
    TxIn,           \* [Txs -> SUBSET outpoints]
    NOut,           \* [Txs -> Nat]: number of outputs
    Fee,            \* [Txs -> Nat]
    Signals,        \* transactions with a sequence number that signals RBF
    Fickle,         \* transactions a check of policy, locks or scripts may refuse
    Large,          \* transactions beyond MaxOrphanTxSize
    Coins,          \* outpoints unspent before any block here
    Blocks,         \* bodies a block may have
    Tags,           \* peers
    MaxOrphanTxs, MaxReplacementEvictions, MinFee,
    MaxMoves,       \* bound: blocks connected and disconnected
    MaxMissed,      \* bound: notifications dropped or handled while behind
    None

ASSUME PoolAssumption ==
    /\ None \notin Txs /\ None \notin Tags
    /\ MaxOrphanTxs \in Nat /\ MaxReplacementEvictions \in Nat /\ MinFee \in Nat
    /\ IsFiniteSet(Txs) /\ Blocks \subseteq Seq(Txs) \ {<<>>}
    /\ \A t \in Txs : TxIn[t] # {}
    /\ \A op \in Coins : op[1] \notin Txs

VARIABLES
    chain,          \* best chain: sequence of block bodies
    unsent,         \* notifications of the chain's changes not yet sent
    events,         \* notifications in the queue of the block handler
    mp,             \* TxPool: pool, outpoints, orphans and orphansByPrev
    work,           \* processOrphans in progress
    handler,        \* handleBlockchainNotification in progress
    rejected,       \* rejectedTxns
    moves, missed,  \* bounds
    unrestored,     \* history: a disconnected transaction found its parents gone
    overtaken       \* history: a notification arrived before an earlier one

vars == <<chain, unsent, events, mp, work, handler, rejected, moves, missed,
          unrestored, overtaken>>

Outputs(t) == {<<t, i>> : i \in 1 .. NOut[t]}
OutPoints == Coins \cup UNION {TxIn[t] \cup Outputs(t) : t \in Txs}

Idle == [on |-> FALSE, todo |-> <<>>, left |-> {}, accepted |-> {}]
NoEvent == [kind |-> "none", txs |-> <<>>, pc |-> "none"]

-----------------------------------------------------------------------------
(* The chain.                                                              *)

Confirmed(c) == UNION {ToSet(c[i]) : i \in DOMAIN c}
Unspent(c) ==
    (Coins \cup UNION {Outputs(t) : t \in Confirmed(c)})
        \ UNION {TxIn[t] : t \in Confirmed(c)}

\* The body can be connected on top of the chain.
Valid(c, body) ==
    \A i \in DOMAIN body :
        LET below == Append(c, SubSeq(body, 1, i - 1))
        IN  body[i] \notin Confirmed(below) /\ TxIn[body[i]] \subseteq Unspent(below)

\* The block is on the chain, or off it, and chainLock is released.
ConnectBlock(body) ==
    /\ moves < MaxMoves /\ moves' = moves + 1
    /\ Valid(chain, body)
    /\ chain' = Append(chain, body)
    /\ rejected' = {}
    /\ unsent' = Append(unsent, [kind |-> "connected", txs |-> body])
    /\ UNCHANGED <<events, mp, work, handler, missed, unrestored, overtaken>>

DisconnectBlock ==
    /\ moves < MaxMoves /\ moves' = moves + 1
    /\ chain # <<>>
    /\ chain' = Front(chain)
    /\ unsent' = Append(unsent, [kind |-> "disconnected", txs |-> Last(chain)])
    /\ UNCHANGED <<events, mp, work, handler, rejected, missed, unrestored, overtaken>>

\* The callback of Subscribe runs for a notification that was sent: a full
\* message queue drops it.
Notify(i, dropped) ==
    /\ dropped => missed < MaxMissed
    /\ missed' = IF dropped THEN missed + 1 ELSE missed
    /\ events' = IF dropped THEN events ELSE Append(events, unsent[i])
    /\ unsent' = RemoveAt(unsent, i)
    /\ overtaken' = (overtaken \/ i # 1)
    /\ UNCHANGED <<chain, mp, work, handler, rejected, moves, unrestored>>

-----------------------------------------------------------------------------
(* The maps of the pool.                                                   *)

Orphans(m) == {t \in Txs : m.orphans[t] # None}
\* orphansByPrev[op]
ByPrev(m, op) == {e[2] : e \in {x \in m.orphansByPrev : x[1] = op}}

\* The orphans of ts and all orphans that redeem their outputs.
OrphanRedeemers(m, ts) ==
    LET reach[n \in 0 .. Cardinality(Txs)] ==
            IF n = 0 THEN ts
            ELSE reach[n - 1] \cup
                 UNION {ByPrev(m, op) : op \in UNION {Outputs(t) : t \in reach[n - 1]}}
    IN  ts \cup reach[Cardinality(Txs)]

DropOrphans(m, ts) ==
    [m EXCEPT !.orphans = [t \in Txs |-> IF t \in ts THEN None ELSE @[t]],
              !.orphansByPrev = {e \in @ : e[2] \notin ts}]

removeOrphan(m, t, removeRedeemers) ==
    IF t \notin Orphans(m) THEN m
    ELSE DropOrphans(m, IF removeRedeemers THEN OrphanRedeemers(m, {t}) ELSE {t})

\* removeOrphanDoubleSpends for every transaction of ts.
removeOrphanDoubleSpends(m, ts) ==
    DropOrphans(m, OrphanRedeemers(m,
        UNION {ByPrev(m, op) : op \in UNION {TxIn[t] : t \in ts}}))

\* limitNumOrphans: the expired orphans of a scan, then one at random.
limitNumOrphans(m, expired) ==
    LET n == DropOrphans(m, OrphanRedeemers(m, expired))
    IN  IF Cardinality(Orphans(n)) + 1 <= MaxOrphanTxs THEN {n}
        ELSE {DropOrphans(n, {t}) : t \in Orphans(n)}

addOrphan(m, t, tag) ==
    IF MaxOrphanTxs = 0 THEN {m}
    ELSE {[n EXCEPT !.orphans[t] = tag,
                    !.orphansByPrev = @ \cup {<<op, t>> : op \in TxIn[t]}] :
             n \in UNION {limitNumOrphans(m, expired) :
                             expired \in SUBSET Orphans(m)}}

\* The smallest set that holds ts and whatever in the pool spends an output of
\* one of its members; the smallest one that holds the parents in the pool of t
\* and of its members.
txDescendants(m, ts) ==
    LET children(u) == {m.outpoints[op] : op \in Outputs(u)} \ {None}
    IN  {t \in Txs : \A s \in SUBSET Txs :
            ts \subseteq s /\ (\A u \in s : children(u) \subseteq s) => t \in s}

txAncestors(m, t) ==
    LET parents(u) == {v \in m.pool : TxIn[u] \cap Outputs(v) # {}}
    IN  {v \in Txs : \A s \in SUBSET Txs :
            parents(t) \subseteq s /\ (\A u \in s : parents(u) \subseteq s) => v \in s}

DropTxs(m, ts) ==
    LET gone == ts \cap m.pool
    IN  [m EXCEPT !.pool = @ \ gone,
                  !.outpoints = [op \in OutPoints |->
                      IF op \in UNION {TxIn[t] : t \in gone} THEN None ELSE @[op]]]

removeTransaction(m, t, removeRedeemers) ==
    DropTxs(m, IF removeRedeemers THEN txDescendants(m, {t}) ELSE {t})

\* Mutant: what depends on the double spend stays.
DoubleSpendsOnly(m, t) == DropTxs(m, {m.outpoints[op] : op \in TxIn[t]} \ {None, t})
RemoveDoubleSpends(m, t) ==
    DropTxs(m, txDescendants(m, {m.outpoints[op] : op \in TxIn[t]} \ {None, t}))

addTransaction(m, t) ==
    [m EXCEPT !.pool = @ \cup {t},
              !.outpoints = [op \in OutPoints |->
                                 IF op \in TxIn[t] THEN t ELSE @[op]]]

-----------------------------------------------------------------------------
(* Acceptance.                                                             *)

Spenders(m, t) == {m.outpoints[op] : op \in TxIn[t]} \ {None}

signalsReplacement(m, t) == ({t} \cup txAncestors(m, t)) \cap Signals # {}

\* fetchInputUtxos: the chain first, then the outputs of the pool.
Available(m, op) == op \in Unspent(chain) \/ \E u \in m.pool : op \in Outputs(u)

txConflicts(m, t) == txDescendants(m, Spenders(m, t))

\* Fees are per transaction of one size, so the rate is the fee.
validateReplacement(m, t) ==
    LET conflicts == txConflicts(m, t)
        parents == {op[1] : op \in UNION {TxIn[u] : u \in conflicts}}
    IN  /\ Cardinality(conflicts) <= MaxReplacementEvictions
        /\ txAncestors(m, t) \cap conflicts = {}
        /\ \A u \in conflicts : Fee[t] > Fee[u]
        /\ Fee[t] >= MapThenSumSet(LAMBDA u : Fee[u], conflicts) + MinFee
        /\ \A op \in TxIn[t] : op[1] \in parents \/ op[1] \notin m.pool

\* Already here.  Mutant: an orphan that a peer sends again is not.
InPool(m, t, rejectDupOrphans) == t \in m.pool
HaveTransaction(m, t, rejectDupOrphans) ==
    t \in m.pool \/ (rejectDupOrphans /\ t \in Orphans(m))

\* checkMempoolAcceptance; refused is the verdict of the checks left out.
checkMempoolAcceptance(m, t, rejectDupOrphans, refused) ==
    IF \/ HaveTransaction(m, t, rejectDupOrphans)
       \/ \E u \in Spenders(m, t) : ~signalsReplacement(m, u)
       \/ Outputs(t) \cap Unspent(chain) # {}
    THEN "error"
    ELSE IF \E op \in TxIn[t] : ~Available(m, op) THEN "missing"
    ELSE IF refused \/ (Spenders(m, t) # {} /\ ~validateReplacement(m, t)) THEN "error"
    ELSE "accepted"

\* maybeAcceptTransaction when the transaction is accepted.
Accept(m, t) ==
    addTransaction(DropTxs(m, IF Spenders(m, t) = {} THEN {} ELSE txConflicts(m, t)), t)

Verdicts(t) == IF t \in Fickle THEN BOOLEAN ELSE {FALSE}

-----------------------------------------------------------------------------
(* Operations of the pool.                                                 *)

\* The outpoints of accepted transactions that some orphan redeems, in order.
OutpointsOf(t) == [i \in 1 .. NOut[t] |-> <<t, i>>]
Start(t) == [on |-> TRUE, todo |-> OutpointsOf(t), left |-> {}, accepted |-> {t}]

\* ProcessTransaction, up to the loop of processOrphans.
ProcessTransaction(t, allowOrphan, tag, verdict) ==
    \/ /\ verdict = "accepted"
       /\ mp' = Accept(mp, t) /\ work' = Start(t)
    \/ /\ verdict = "missing" /\ allowOrphan /\ t \notin Large
       /\ mp' \in addOrphan(mp, t, tag) /\ UNCHANGED work
    \/ /\ verdict = "error" \/ (verdict = "missing" /\ (~allowOrphan \/ t \in Large))
       /\ UNCHANGED <<mp, work>>

\* sendrawtransaction; an RPC goroutine, at any time.
SendRawTransaction(t) ==
    /\ ~work.on
    /\ \E refused \in Verdicts(t) :
          ProcessTransaction(t, FALSE, None,
              checkMempoolAcceptance(mp, t, TRUE, refused))
    /\ UNCHANGED <<chain, unsent, events, handler, rejected, moves, missed, unrestored, overtaken>>

\* handleTxMsg; the block handler, between two messages.
handleTxMsg(t, tag) ==
    /\ ~work.on /\ handler = NoEvent /\ t \notin rejected
    /\ \E refused \in Verdicts(t) :
          LET verdict == checkMempoolAcceptance(mp, t, TRUE, refused)
          IN  /\ ProcessTransaction(t, TRUE, tag, verdict)
              /\ rejected' = IF verdict = "error" \/ (verdict = "missing" /\ t \in Large)
                             THEN rejected \cup {t} ELSE rejected
    /\ UNCHANGED <<chain, unsent, events, handler, moves, missed, unrestored, overtaken>>

\* The peer has gone.
RemoveOrphansByTag(tag) ==
    /\ ~work.on
    /\ mp' = DropOrphans(mp, OrphanRedeemers(mp, {t \in Txs : mp.orphans[t] = tag}))
    /\ mp' # mp
    /\ UNCHANGED <<chain, unsent, events, work, handler, rejected, moves, missed, unrestored,
                   overtaken>>

\* The next outpoint of the list.
NextOutpoint ==
    /\ work.on /\ work.left = {} /\ work.todo # <<>>
    /\ work' = [work EXCEPT !.left = ByPrev(mp, Head(work.todo)),
                            !.todo = Tail(@)]
    /\ UNCHANGED <<chain, unsent, events, mp, handler, rejected, moves, missed, unrestored,
                   overtaken>>

\* One orphan of the outpoint, in the order of a map: an error or an acceptance
\* ends the loop over the outpoint.
TryOrphan(t) ==
    /\ work.on /\ t \in work.left
    /\ \E refused \in Verdicts(t) :
          LET verdict == checkMempoolAcceptance(mp, t, FALSE, refused)
          IN  \/ /\ verdict = "error"
                 /\ mp' = removeOrphan(mp, t, TRUE)
                 /\ work' = [work EXCEPT !.left = {}]
              \/ /\ verdict = "missing"
                 /\ work' = [work EXCEPT !.left = @ \ {t}] /\ UNCHANGED mp
              \/ /\ verdict = "accepted"
                 /\ mp' = removeOrphan(Accept(mp, t), t, FALSE)
                 /\ work' = [work EXCEPT !.left = {}, !.todo = @ \o OutpointsOf(t),
                                         !.accepted = @ \cup {t}]
    /\ UNCHANGED <<chain, unsent, events, handler, rejected, moves, missed, unrestored, overtaken>>

\* The end of processOrphans: definitive double spends go.
EndOrphans ==
    /\ work.on /\ work.left = {} /\ work.todo = <<>>
    /\ mp' = removeOrphanDoubleSpends(mp, work.accepted)
    /\ work' = Idle
    /\ UNCHANGED <<chain, unsent, events, handler, rejected, moves, missed, unrestored, overtaken>>

-----------------------------------------------------------------------------
(* handleBlockchainNotification: one step for each lock of the pool.       *)

\* A connected block is ignored while the node is not current.
TakeEvent(behind) ==
    /\ ~work.on /\ handler = NoEvent /\ events # <<>>
    /\ behind => Head(events).kind = "connected" /\ missed < MaxMissed
    /\ missed' = IF behind THEN missed + 1 ELSE missed
    /\ events' = Tail(events)
    /\ handler' = IF behind THEN NoEvent
                  ELSE [kind |-> Head(events).kind, txs |-> Head(events).txs,
                        pc |-> IF Head(events).kind = "connected" THEN "remove"
                               ELSE "reinsert"]
    /\ UNCHANGED <<chain, unsent, mp, work, rejected, moves, unrestored, overtaken>>

\* The transaction is done; the event is when it was the last.
NextTx(h) ==
    IF Len(h.txs) = 1 THEN NoEvent
    ELSE [h EXCEPT !.txs = Tail(@),
                   !.pc = IF h.kind = "connected" THEN "remove" ELSE "reinsert"]

HandlerStep(pc) == ~work.on /\ handler.pc = pc

Quiet == UNCHANGED <<chain, unsent, events, rejected, moves, missed, overtaken>>

RemoveTransaction ==
    /\ HandlerStep("remove")
    /\ mp' = removeTransaction(mp, Head(handler.txs), FALSE)
    /\ handler' = [handler EXCEPT !.pc = "conflicts"]
    /\ UNCHANGED <<work, unrestored>> /\ Quiet

RemoveConflicts ==
    /\ HandlerStep("conflicts")
    /\ mp' = RemoveDoubleSpends(mp, Head(handler.txs))
    /\ handler' = [handler EXCEPT !.pc = "orphan"]
    /\ UNCHANGED <<work, unrestored>> /\ Quiet

RemoveOrphan ==
    /\ HandlerStep("orphan")
    /\ mp' = removeOrphan(mp, Head(handler.txs), FALSE)
    /\ handler' = [handler EXCEPT !.pc = "process"]
    /\ UNCHANGED <<work, unrestored>> /\ Quiet

ProcessOrphans ==
    /\ HandlerStep("process")
    /\ work' = Start(Head(handler.txs))
    /\ handler' = NextTx(handler)
    /\ UNCHANGED <<mp, unrestored>> /\ Quiet

\* MaybeAcceptTransaction for a transaction of a disconnected block: only an
\* error makes the handler remove what depends on it, missing parents do not.
Reinsert ==
    /\ HandlerStep("reinsert")
    /\ \E refused \in Verdicts(Head(handler.txs)) :
          LET t == Head(handler.txs)
              verdict == checkMempoolAcceptance(mp, t, TRUE, refused)
          IN  /\ mp' = IF verdict = "accepted" THEN Accept(mp, t) ELSE mp
              /\ handler' = IF verdict = "error" THEN [handler EXCEPT !.pc = "purge"]
                            ELSE NextTx(handler)
              /\ unrestored' = (unrestored \/ verdict = "missing")
    /\ UNCHANGED work /\ Quiet

Purge ==
    /\ HandlerStep("purge")
    /\ mp' = removeTransaction(mp, Head(handler.txs), TRUE)
    /\ handler' = NextTx(handler)
    /\ UNCHANGED <<work, unrestored>> /\ Quiet

-----------------------------------------------------------------------------

Init ==
    /\ chain = <<>> /\ unsent = <<>> /\ events = <<>>
    /\ mp = [pool |-> {}, outpoints |-> [op \in OutPoints |-> None],
             orphans |-> [t \in Txs |-> None], orphansByPrev |-> {}]
    /\ work = Idle /\ handler = NoEvent /\ rejected = {}
    /\ moves = 0 /\ missed = 0 /\ unrestored = FALSE /\ overtaken = FALSE

Next ==
    \/ \E t \in Txs : SendRawTransaction(t) \/ TryOrphan(t)
    \/ \E t \in Txs, tag \in Tags : handleTxMsg(t, tag)
    \/ \E tag \in Tags : RemoveOrphansByTag(tag)
    \/ NextOutpoint \/ EndOrphans
    \/ \E body \in Blocks : ConnectBlock(body)
    \/ DisconnectBlock
    \/ \E i \in DOMAIN unsent, dropped \in BOOLEAN : Notify(i, dropped)
    \/ \E behind \in BOOLEAN : TakeEvent(behind)
    \/ RemoveTransaction \/ RemoveConflicts \/ RemoveOrphan \/ ProcessOrphans
    \/ Reinsert \/ Purge

Spec == Init /\ [][Next]_vars

-----------------------------------------------------------------------------
(* Properties.                                                             *)

\* The maps have their types and the orphans respect their limit.
TypeOK ==
    /\ mp.pool \subseteq Txs /\ mp.outpoints \in [OutPoints -> Txs \cup {None}]
    /\ mp.orphans \in [Txs -> Tags \cup {None}]
    /\ Cardinality(Orphans(mp)) <= MaxOrphanTxs
    /\ rejected \subseteq Txs

\* outpoints names, for every outpoint, the one transaction of the pool that
\* spends it: acceptances, replacements, confirmations and reinsertions in any
\* order leave no double spend in the pool and no entry behind, which
\* validateReplacement would look up in the pool.
OutpointsExact ==
    \A op \in OutPoints : \A t \in Txs :
        t \in mp.pool /\ op \in TxIn[t] <=> mp.outpoints[op] = t

\* orphansByPrev leads to the orphans and to nothing else, through expiry,
\* eviction, recursive removal and acceptance: an orphan that is not found is
\* never accepted, one that is gone would be accepted again.
OrphanIndexExact ==
    \A op \in OutPoints : \A t \in Txs :
        <<op, t>> \in mp.orphansByPrev <=> t \in Orphans(mp) /\ op \in TxIn[t]

\* A transaction is in the pool or an orphan, not both, although it may come
\* from a peer, an RPC client and a disconnected block at the same time.
OneHome == mp.pool \cap Orphans(mp) = {}

Settled == unsent = <<>> /\ events = <<>> /\ handler = NoEvent /\ ~work.on

\* A block could take the whole pool.
Minable ==
    /\ mp.pool \cap Confirmed(chain) = {}
    /\ \A t \in mp.pool : \A op \in TxIn[t] : Available(mp, op)

\* Although notifications are sent and handled long after the chain has moved,
\* and RPC clients add transactions between any two steps of the handler, the
\* pool can be mined once all are handled.  Four things void it, each left in a
\* mark of its own: a notification that was dropped, one ignored because the
\* node was behind, one that overtook an earlier one on its way (chain.go:1214,
\* notifications.go:102), and a disconnected transaction that had already lost
\* its parents to a later block: not an error, so nothing removes what depends
\* on it (manager.go:4848-4854).
PoolMinable == Settled /\ missed = 0 /\ ~unrestored /\ ~overtaken => Minable

\* The maps of the pool agree with one another at every moment mp.mtx is free
\* or processOrphans is between two lookups.
PoolConsistent == TypeOK /\ OutpointsExact /\ OrphanIndexExact /\ OneHome
=============================================================================
