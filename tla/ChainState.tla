----------------------------- MODULE ChainState -----------------------------
(***************************************************************************)
(* Acceptance of blocks and headers, the orphan pool, reorganizations, and *)
(* the commands that invalidate, reconsider and roll back: process.go,     *)
(* accept.go, chain.go and blockindex.go of backend/blockchain.            *)
(*                                                                         *)
(* Two goroutines work on the chain: the block handler of the sync manager *)
(* and an RPC goroutine.  Both take chainLock, and both let it go in the   *)
(* middle of their work, for the notification that follows every connected *)
(* and disconnected block and every accepted one.  An action is a stretch  *)
(* of code inside one critical section; lock names the holder between the  *)
(* actions of a section.                                                   *)
(*                                                                         *)
(* Data.  The blocks and their parents are constants; all have the same    *)
(* work, so the work of a branch is its height.  A block is good or bad:   *)
(* what checkConnectBlock finds.  A block node is an object of its own: a  *)
(* block whose node was removed by a rollback gets a new one, so a node is *)
(* a block with a generation.  The header window is off (headerWindow = 0),*)
(* the chain state is not restarted.                                       *)
(***************************************************************************)
EXTENDS Naturals, Sequences, FiniteSets, SequencesExt

CONSTANTS
    Blocks, Genesis,
    Parent,         \* of every block
    Bad,            \* blocks checkConnectBlock rejects
    CheckHeight,    \* height of the last checkpoint
    None,
    Handler, Rpc,   \* the goroutines
    MaxOrphans,     \* maxOrphanBlocks
    MaxGen,         \* bound: nodes made for one block
    MaxInterventions    \* bound: operator commands and rollbacks

ASSUME ChainAssumption ==
    /\ Genesis \in Blocks /\ Parent \in [Blocks -> Blocks]
    /\ Parent[Genesis] = Genesis
    /\ \A b \in Blocks \ {Genesis} : Parent[b] # b
    /\ Bad \subseteq Blocks \ {Genesis}
    /\ CheckHeight \in Nat
    /\ None \notin Blocks \cup {Handler, Rpc} /\ Handler # Rpc
    /\ MaxOrphans \in Nat \ {0} /\ MaxGen \in Nat \ {0}
    /\ MaxInterventions \in Nat

VARIABLES
    made,       \* per block: nodes made for it so far
    lookup,     \* the block index: per block its node's generation, or 0
    par,        \* node.parent: the generation of the parent's node
    data,       \* nodes flagged statusDataStored
    valid,      \* nodes flagged statusValid
    failed,     \* nodes flagged statusValidateFailed
    invAnc,     \* nodes flagged statusInvalidAncestor
    disk,       \* blocks whose payload is stored
    rows,       \* blocks with a row in the hash index
    tip,        \* bestChain.Tip()
    htip,       \* bestHeader.Tip()
    applied,    \* blocks whose transactions the UTXO set contains
    orphans,    \* the orphan pool, in order of arrival
    oldest,     \* oldestOrphan
    lock,       \* holder of chainLock, or None
    task,       \* per goroutine: what it is in the middle of
    commands, rollbacks,
    events      \* what has happened so far, of Events below

indexVars  == <<made, lookup, par, rows>>
flagVars   == <<valid, failed, invAnc>>
orphanVars == <<orphans, oldest>>
bounds     == <<commands, rollbacks>>
vars == <<indexVars, data, flagVars, disk, tip, htip, applied, orphanVars,
          lock, task, bounds, events>>

-----------------------------------------------------------------------------
(* Nodes and chain views.                                                  *)

Nodes == Blocks \X (1 .. MaxGen)
blockOf(n) == n[1]

height[b \in Blocks] == IF b = Genesis THEN 0 ELSE 1 + height[Parent[b]]

\* Every block descends from the genesis block, in finitely many steps: the
\* recursion above ends.
ASSUME TreeAssumption ==
    \A b \in Blocks :
        /\ height[b] \in Nat
        /\ height[b] = IF b = Genesis THEN 0 ELSE 1 + height[Parent[b]]

H(n) == height[blockOf(n)]

\* A sequence without the elements of a set.
Kept(s, out) ==
    LET at == {i \in DOMAIN s : s[i] \notin out}
        nth(k) == CHOOSE i \in at : Cardinality({j \in at : j <= i}) = k
    IN  [k \in 1 .. Cardinality(at) |-> s[nth(k)]]

Known(b) == lookup[b] # 0
LookupNode(b) == <<b, lookup[b]>>

\* Ancestor(h) of a node, along parent pointers.
Ancestor(n, h) ==
    LET at[k \in 0 .. H(n)] ==
            IF k = H(n) THEN n
            ELSE <<Parent[blockOf(at[k + 1])], par[at[k + 1]]>>
    IN  at[h]
parentOf(n) == <<Parent[blockOf(n)], par[n]>>

\* A chain view is the path to its tip, which is what setTip leaves in it.
View(t) == {Ancestor(t, h) : h \in 0 .. H(t)}
FindFork(t, n) ==
    CHOOSE m \in View(t) \cap View(n) : \A k \in View(t) \cap View(n) : H(k) <= H(m)

\* The nodes of a branch above height h, from its end down.
\* Mutant: from the fork up.
DownFromFork(n, h) == [i \in 1 .. H(n) - h |-> Ancestor(n, h + i)]
Down(n, h) == [i \in 1 .. H(n) - h |-> Ancestor(n, H(n) + 1 - i)]

Invalid(n) == n \in failed \cup invAnc          \* KnownInvalid
Status(n) == <<n \in data, n \in valid, n \in failed, n \in invAnc>>

\* tip.IsAncestor(n): n, or a node that Equals it, is below tip.
IsAncestor(t, n) ==
    H(n) < H(t) /\ LET a == Ancestor(t, H(n)) IN
                   blockOf(a) = blockOf(n) /\ Status(a) = Status(n)

\* InactiveTips: nodes off the best chain that no such node has, by hash, for
\* its parent.
InactiveTips ==
    LET off == {LookupNode(b) : b \in {c \in Blocks : Known(c)}} \ View(tip)
    IN  {n \in off : \A m \in off : Parent[blockOf(m)] # blockOf(n)}

\* blockExists: the flag counts only with a payload; without the flag, a
\* payload with a row in the hash index does.
blockExists(b) ==
    /\ b \in disk
    /\ (Known(b) /\ LookupNode(b) \in data) \/ b \in rows
\* It clears a flag that has no payload.
Unstored(bs) == {LookupNode(b) : b \in {c \in bs : Known(c) /\ c \notin disk}}

-----------------------------------------------------------------------------
(* Goroutines.                                                             *)

Procs == {Handler, Rpc}
Idle == [pc |-> "idle", op |-> "none", block |-> Genesis, flags |-> {},
         detach |-> <<>>, attach |-> <<>>, gone |-> <<>>, queue |-> <<>>]

Free(p)   == lock \in {None, p} /\ "panic" \notin events
Begin(p)  == lock = None /\ task[p].pc = "idle" /\ "panic" \notin events
At(p, pc) == Free(p) /\ task[p].pc = pc

\* Go on inside the section, or let the lock go for a notification or for good.
Keep(p, t)   == task' = [task EXCEPT ![p] = t] /\ lock' = p
Yield(p, t)  == task' = [task EXCEPT ![p] = t] /\ lock' = None

\* What the properties refer to: the chain moved inside a reorganization of
\* the other goroutine; a block that is not an orphan was evicted as the oldest
\* one; a block was processed although its parent is no more than a stored
\* payload; an orphan failed and processOrphans returned, with orphans left; a
\* rollback failed, with the header view rolled back; a block that
\* checkConnectBlock would have rejected was connected under BFFastAdd; an
\* AssertError was returned; a nil pointer was dereferenced.
Events == {"overlap", "misfire", "bypass", "halted", "unrolled", "unchecked",
           "assert", "panic"}
Happens(es) == events' = events \cup es

\* The other goroutine is in the middle of a reorganization.
Overlap(p) == IF \E q \in Procs \ {p} : task[q].pc = "reorg" THEN {"overlap"} ELSE {}
Overlaps(p) == Happens(Overlap(p))

\* Enough work to replace the best chain.
\* Mutant: one block too few.
MoreWorkByTwo(n) == H(n) > H(tip) + 1
MoreWork(n) == H(n) > H(tip)

\* checkConnectBlock breaks a rule for a node not yet known to be valid.
\* Mutant: nodes whose payload is stored are not checked again.
BreaksUnlessStored(n) == blockOf(n) \in Bad /\ n \notin valid \cup data
Breaks(n) == blockOf(n) \in Bad /\ n \notin valid

\* The UTXO set without the transactions of a block: view.commit.
\* Mutant: the view is not written back.
UndoNothing(n) == applied
Undo(n) == applied \ {blockOf(n)}

\* The operation returns an error.  processOrphans removes the payload of an
\* orphan that fails; reconnectStoredBlocks the one that breaks a rule.
Fail(p, ruleError, es) ==
    LET t == task[p]
        orphan == t.op = "accept" /\ "orphan" \in t.flags
    IN
    /\ Yield(p, IF t.op = "resume" /\ ruleError
                THEN [t EXCEPT !.pc = "remove"] ELSE Idle)
    /\ disk' = IF orphan THEN disk \ {t.block} ELSE disk
    /\ Happens(es \cup (IF orphan THEN {"halted"} ELSE {})
                  \cup (IF t.op = "rollback" THEN {"unrolled"} ELSE {}))

\* RemoveBlockData, without the lock.
RemoveBlockData(p) ==
    /\ task[p].pc = "remove" /\ "panic" \notin events
    /\ disk' = disk \ {task[p].block}
    /\ data' = data \ {LookupNode(task[p].block)}
    /\ task' = [task EXCEPT ![p] = Idle]
    /\ rows' = rows \cup {b \in Blocks : Known(b)}
    /\ UNCHANGED <<made, lookup, par, flagVars, tip, htip, applied, orphanVars,
                   lock, bounds, events>>

-----------------------------------------------------------------------------
(* ProcessBlock and the orphan pool.                                       *)

\* addOrphanBlock: the k orphans that arrived first have expired.  The pointer
\* to the oldest orphan is reset by an eviction only.
addOrphanBlock(b, k) ==
    LET expired == {orphans[i] : i \in 1 .. k}
        live == SubSeq(orphans, k + 1, Len(orphans))
        old == IF oldest = None /\ live # <<>> THEN live[1] ELSE oldest
        full == Len(live) + 1 > MaxOrphans
        out == IF full THEN {old} ELSE {}
    IN
    /\ orphans' = Append(Kept(live, out), b)
    /\ oldest' = IF full THEN None ELSE old
    /\ disk' = (disk \cup {b}) \ (expired \cup out)
    /\ Happens(IF full /\ old \notin ToSet(live) THEN {"misfire"} ELSE {})

ProcessOrphanBlock(b) ==
    /\ Begin(Handler)
    /\ b # Genesis
    /\ ~blockExists(b) /\ b \notin ToSet(orphans)
    /\ ~blockExists(Parent[b])
    /\ \E k \in 0 .. Len(orphans) : addOrphanBlock(b, k)
    /\ data' = data \ Unstored({b, Parent[b]})
    /\ UNCHANGED <<indexVars, flagVars, tip, htip, applied, lock, task, bounds>>

\* checkHeadersList, in initial block download: a block of the header view up
\* to the last checkpoint is given BFFastAdd ("fast").
checkHeadersList(b) ==
    /\ Known(b) /\ LookupNode(b) \in View(htip) /\ ~Invalid(LookupNode(b))
    /\ height[b] <= CheckHeight

\* The flags are of the block delivered, or submitted by a miner; its orphans
\* are processed under them too.
Given == {{}, {"mined"}, {"fast"}}

ProcessBlock(b, flags) ==
    /\ Begin(Handler)
    /\ "fast" \in flags => checkHeadersList(b)
    /\ b # Genesis
    /\ ~blockExists(b) /\ b \notin ToSet(orphans)
    /\ blockExists(Parent[b])
    /\ data' = data \ Unstored({b})
    /\ Happens(IF LookupNode(Parent[b]) \notin data THEN {"bypass"} ELSE {})
    /\ Keep(Handler, [Idle EXCEPT !.pc = "accept", !.op = "accept", !.block = b,
                                  !.flags = flags])
    /\ UNCHANGED <<indexVars, flagVars, disk, tip, htip, applied, orphanVars,
                   bounds>>

\* processOrphans: the next orphan of the first block in the queue.
processOrphans(p) ==
    LET t == task[p]
        q == t.queue[1]
        kids == Kept(orphans, {o \in Blocks : Parent[o] # q})
    IN
    /\ At(p, "orphans")
    /\ \/ /\ t.queue # <<>> /\ kids # <<>>
          /\ orphans' = Kept(orphans, {kids[1]})
          /\ Keep(p, [t EXCEPT !.pc = "accept", !.block = kids[1],
                               !.flags = @ \cup {"orphan"}])
       \/ /\ t.queue # <<>> /\ kids = <<>>
          /\ Keep(p, [t EXCEPT !.queue = Tail(@)])
          /\ UNCHANGED orphans
       \/ /\ t.queue = <<>>
          /\ Yield(p, Idle)
          /\ UNCHANGED orphans
    /\ UNCHANGED <<indexVars, data, flagVars, disk, tip, htip, applied, oldest,
                   bounds, events>>

\* ResumeBlockConnect, for the stored block the header chain has next.
ResumeBlockConnect ==
    LET b == blockOf(Ancestor(htip, H(tip) + 1)) IN
    /\ Begin(Handler)
    /\ H(tip) < H(htip)
    /\ blockExists(b)
    /\ LookupNode(b) \notin View(tip)
    /\ Happens(IF LookupNode(Parent[b]) \notin data THEN {"bypass"} ELSE {})
    /\ Keep(Handler, [Idle EXCEPT !.pc = "accept", !.op = "resume", !.block = b])
    /\ UNCHANGED <<indexVars, data, flagVars, disk, tip, htip, applied, orphanVars,
                   bounds>>

-----------------------------------------------------------------------------
(* maybeAcceptBlock.                                                       *)

\* bestHeader.NodeByHeight
HeaderAt(h) == IF h <= H(htip) THEN blockOf(Ancestor(htip, h)) ELSE None

\* A miner's block must build on the header view and not contradict it.
minedOffHeaders(b) ==
    \/ HeaderAt(height[Parent[b]]) # Parent[b]
    \/ HeaderAt(height[b]) \notin {b, None}

rejected(b, mined) ==
    \/ ~Known(Parent[b])
    \/ LookupNode(Parent[b]) \notin View(tip) /\ Invalid(LookupNode(Parent[b]))
    \/ mined /\ minedOffHeaders(b)

\* AddNode(newBlockNode(header, parent))
AddNode(b) ==
    /\ made[b] < MaxGen
    /\ made' = [made EXCEPT ![b] = @ + 1]
    /\ lookup' = [lookup EXCEPT ![b] = made'[b]]
    /\ par' = [par EXCEPT ![<<b, made'[b]>>] = lookup[Parent[b]]]

maybeAcceptBlock(p) ==
    LET t == task[p]
        b == t.block
    IN
    /\ At(p, "accept")
    /\ \/ /\ rejected(b, "mined" \in t.flags)
          /\ Fail(p, TRUE, {})
          /\ UNCHANGED <<indexVars, data>>
       \/ /\ ~rejected(b, "mined" \in t.flags)
          /\ disk' = disk \cup {b}
          /\ \/ Known(b) /\ UNCHANGED <<made, lookup, par>>
             \/ ~Known(b) /\ AddNode(b)
          /\ data' = data \cup {<<b, lookup'[b]>>}
          /\ rows' = rows \cup {c \in Blocks : lookup'[c] # 0}
          /\ Keep(p, [t EXCEPT !.pc = "connect"])
          /\ UNCHANGED events
    /\ UNCHANGED <<flagVars, tip, htip, applied, orphanVars, bounds>>

\* getReorganizeNodes: the branch to attach, the one to detach and the nodes
\* it marks on the way; nothing where the branch is known to be invalid.
Reorg(n) ==
    LET fork == FindFork(tip, n)
        up == Down(n, H(fork))
        bad == {i \in DOMAIN up : Invalid(up[i])}
        first == CHOOSE i \in bad : \A j \in bad : i <= j
    IN
    IF Invalid(parentOf(n))
    THEN [detach |-> <<>>, attach |-> <<>>, mark |-> {n}]
    ELSE IF bad # {}
    THEN [detach |-> <<>>, attach |-> <<>>, mark |-> {up[i] : i \in 1 .. first - 1}]
    ELSE [detach |-> Down(tip, H(fork)), attach |-> Reverse(up), mark |-> {}]

\* connectBestChain, up to the first notification.
connectBestChain(p) ==
    LET t == task[p]
        b == t.block
        n == LookupNode(b)
        r == Reorg(n)
        extends == Parent[b] = blockOf(tip)
        fast == "fast" \in t.flags \/ n \in valid
    IN
    /\ At(p, "connect")
    /\ \/ /\ extends /\ ~fast /\ b \in Bad
          /\ failed' = failed \cup {n}
          /\ Fail(p, TRUE, {})
          /\ UNCHANGED <<valid, invAnc, tip, applied>>
       \/ /\ extends /\ (fast \/ b \notin Bad)
          /\ valid' = IF fast THEN valid ELSE valid \cup {n}
          /\ tip' = n
          /\ applied' = applied \cup {b}
          /\ Happens(Overlap(p) \cup (IF Breaks(n) THEN {"unchecked"} ELSE {}))
          /\ Yield(p, [t EXCEPT !.pc = "connected"])
          /\ UNCHANGED <<failed, invAnc, disk>>
       \/ /\ ~extends /\ ~MoreWork(n)
          /\ Keep(p, [t EXCEPT !.pc = "side"])
          /\ UNCHANGED <<flagVars, disk, tip, applied, events>>
       \/ /\ ~extends /\ MoreWork(n)
          /\ invAnc' = invAnc \cup r.mark
          /\ Keep(p, [t EXCEPT !.pc = "verify", !.detach = r.detach, !.attach = r.attach])
          /\ UNCHANGED <<valid, failed, disk, tip, applied, events>>
    /\ UNCHANGED <<indexVars, data, htip, orphanVars, bounds>>

\* bestHeader follows the best chain.
HeaderTip(n) == IF H(n) > H(htip) THEN n ELSE htip

\* processHashes: an accepted orphan may have orphans of its own.
\* Mutant: only the orphans of the block that arrived are looked at.
QueuedFirst(t) == IF "orphan" \in t.flags THEN t.queue ELSE Append(t.queue, t.block)
Queued(t) == Append(t.queue, t.block)

\* The rest of maybeAcceptBlock: connected, reorganized or on a side chain.
finishAccept(p) ==
    LET t == task[p]
        n == LookupNode(t.block)
        isMainChain == t.pc # "side"
    IN
    /\ At(p, "connected") \/ At(p, "side") \/ At(p, "reorganized")
    /\ valid' = IF t.pc = "connected" THEN valid \cup {n} ELSE valid
    /\ invAnc' = invAnc \ {n}
    /\ htip' = IF isMainChain THEN HeaderTip(n) ELSE htip
    /\ rows' = rows \cup {b \in Blocks : Known(b)}
    /\ Yield(p, IF t.op = "resume" THEN Idle
                ELSE [t EXCEPT !.pc = "orphans", !.queue = Queued(t)])
    /\ UNCHANGED <<made, lookup, par, data, failed, disk, tip, applied, orphanVars,
                   bounds, events>>

-----------------------------------------------------------------------------
(* reorganizeChain.                                                        *)

\* verifyReorganizationValidity: the payloads must be there and the blocks to
\* attach must connect; those checked before the first failure become valid,
\* a block that fails a rule is marked, with those above it.
verifyReorganizationValidity(p) ==
    LET t == task[p]
        lacking == {i \in DOMAIN t.attach : blockOf(t.attach[i]) \notin disk}
        wrong == {i \in DOMAIN t.attach : Breaks(t.attach[i])}
        stop == CHOOSE i \in lacking \cup wrong : \A j \in lacking \cup wrong : i <= j
        below(i) == {t.attach[j] : j \in 1 .. i - 1}
        above(i) == {t.attach[j] : j \in i + 1 .. Len(t.attach)}
        notTip == t.detach # <<>> /\ blockOf(t.detach[1]) # blockOf(tip)
        noPayload == \E i \in DOMAIN t.detach : blockOf(t.detach[i]) \notin disk
    IN
    /\ At(p, "verify")
    /\ \/ /\ notTip \/ noPayload
          /\ Fail(p, FALSE, IF notTip THEN {"assert"} ELSE {})
          /\ UNCHANGED flagVars
       \/ /\ ~notTip /\ ~noPayload /\ lacking \cup wrong # {}
          /\ valid' = valid \cup below(stop)
          /\ failed' = IF stop \in lacking THEN failed ELSE failed \cup {t.attach[stop]}
          /\ invAnc' = IF stop \in lacking THEN invAnc ELSE invAnc \cup above(stop)
          /\ Fail(p, stop \notin lacking, {})
       \/ /\ ~notTip /\ ~noPayload /\ lacking \cup wrong = {}
          /\ valid' = valid \cup ToSet(t.attach)
          /\ Keep(p, [t EXCEPT !.pc = "reorg"])
          /\ UNCHANGED <<failed, invAnc, disk, events>>
    /\ UNCHANGED <<indexVars, data, tip, htip, applied, orphanVars,
                   bounds>>

\* disconnectBlock of the first node to detach.
disconnectBlock(p) ==
    LET t == task[p]
        n == t.detach[1]
        prev == parentOf(n)
    IN
    /\ At(p, "reorg") /\ t.detach # <<>>
    /\ \/ /\ blockOf(n) # blockOf(tip) \/ blockOf(prev) \notin disk
          /\ Fail(p, FALSE, IF blockOf(n) # blockOf(tip) THEN {"assert"} ELSE {})
          /\ UNCHANGED <<tip, applied, rows>>
       \/ /\ blockOf(n) = blockOf(tip) /\ blockOf(prev) \in disk
          /\ tip' = prev
          /\ applied' = Undo(n)
          /\ rows' = (rows \cup {b \in Blocks : Known(b)}) \ {blockOf(n)}
          /\ Overlaps(p)
          /\ Yield(p, [t EXCEPT !.detach = Tail(@)])
          /\ UNCHANGED disk
    /\ UNCHANGED <<made, lookup, par, data, flagVars, htip, orphanVars, bounds>>

\* connectTransactions and connectBlock of the first node to attach.  The
\* transactions reach the cache, if their inputs are there, before connectBlock
\* compares the parent with the tip.
connectBlock(p) ==
    LET t == task[p]
        n == t.attach[1]
    IN
    /\ At(p, "reorg") /\ t.detach = <<>> /\ t.attach # <<>>
    /\ \/ /\ Parent[blockOf(n)] # blockOf(tip)
          /\ Fail(p, FALSE, {"assert"})
          /\ applied' \in {applied, applied \cup {blockOf(n)}}
          /\ UNCHANGED tip
       \/ /\ Parent[blockOf(n)] = blockOf(tip)
          /\ tip' = n
          /\ applied' = applied \cup {blockOf(n)}
          /\ Overlaps(p)
          /\ Yield(p, [t EXCEPT !.attach = Tail(@)])
          /\ UNCHANGED disk
    /\ UNCHANGED <<indexVars, data, flagVars, htip, orphanVars, bounds>>

\* reorganizeChain returns: what its caller does next.
endReorganize(p) ==
    LET t == task[p] IN
    /\ At(p, "reorg") /\ t.detach = <<>> /\ t.attach = <<>>
    /\ \/ /\ t.op \in {"accept", "resume"}
          /\ Keep(p, [t EXCEPT !.pc = "reorganized"])
       \/ /\ t.op \in {"invalidate", "rollback"}
          /\ Keep(p, [t EXCEPT !.pc = t.op])
       \/ /\ t.op \in {"rehome", "reconsider"}
          /\ Yield(p, Idle)
    /\ UNCHANGED <<indexVars, data, flagVars, disk, tip, htip, applied, orphanVars,
                   bounds, events>>

-----------------------------------------------------------------------------
(* maybeAcceptBlockHeader.                                                 *)

\* The parent is in the index and not known to be invalid.
Links(b) ==
    /\ Known(Parent[b])
    /\ LookupNode(Parent[b]) \in View(tip) \/ ~Invalid(LookupNode(Parent[b]))

ProcessBlockHeader(b) ==
    LET prev == LookupNode(Parent[b])
        n == LookupNode(b)
        linked == prev \in View(tip) \cup View(htip)
        node == <<b, lookup'[b]>>
    IN
    /\ Begin(Handler)
    /\ b # Genesis /\ Links(b)
    /\ \/ /\ Known(b) /\ (Invalid(n) => linked)
          /\ failed' = failed \ {n}
          /\ invAnc' = IF n \in failed THEN invAnc ELSE invAnc \ {n}
          /\ UNCHANGED <<made, lookup, par>>
       \/ /\ ~Known(b) /\ AddNode(b)
          /\ UNCHANGED <<failed, invAnc>>
    /\ htip' = IF node \in View(htip) THEN htip
               ELSE IF Parent[b] = blockOf(htip) \/ H(node) > H(htip) THEN node
               ELSE htip
    /\ UNCHANGED <<rows, data, valid, disk, tip, applied, orphanVars, lock, task,
                   bounds, events>>

-----------------------------------------------------------------------------
(* InvalidateBlock, ReconsiderBlock: operator commands.                    *)

Between(t, n) == {m \in View(t) : H(m) > H(n)}

InvalidateBlock(b) ==
    LET n == LookupNode(b)
        branches == {t \in InactiveTips : IsAncestor(t, n)}
        marked == {m \in UNION {Between(t, n) : t \in branches} : ~Invalid(m)}
        onChain == {m \in Between(tip, n) : ~Invalid(m)}
        doomed == Kept(Down(tip, H(n)), failed \cup invAnc)
    IN
    /\ Begin(Rpc) /\ commands + rollbacks < MaxInterventions
    /\ b # Genesis /\ Known(b) /\ ~Invalid(n)
    /\ commands' = commands + 1
    /\ failed' = failed \cup {n}
    /\ \/ /\ n \notin View(tip)
          /\ invAnc' = invAnc \cup (marked \ {n})
          /\ valid' = valid \ (marked \cup {n})
          /\ rows' = rows \cup {c \in Blocks : Known(c)}
          /\ UNCHANGED <<lock, task>>
       \/ /\ n \in View(tip)
          /\ invAnc' = invAnc \cup onChain
          /\ valid' = valid \ (onChain \cup {n})
          /\ Keep(Rpc, [Idle EXCEPT !.pc = "verify", !.op = "invalidate",
                                    !.detach = Append(doomed, n)])
          /\ UNCHANGED rows
    /\ UNCHANGED <<made, lookup, par, data, disk, tip, htip, applied, orphanVars,
                   rollbacks, events>>

\* The best tip that is not known to be invalid, and the way there.  Tips come
\* in map order with the active one last, so it loses a tie.
rehome(p) ==
    LET tips == {t \in InactiveTips \cup {tip} : ~Invalid(t)}
        most == {t \in tips : \A u \in tips : H(u) <= H(t)}
        best == IF most = {tip} THEN most ELSE most \ {tip}
    IN
    /\ At(p, "invalidate")
    /\ rows' = rows \cup {c \in Blocks : Known(c)}
    /\ \/ /\ tips = {}
          /\ Happens({"panic"})
          /\ UNCHANGED <<invAnc, lock, task>>
       \/ /\ best = {tip}
          /\ Yield(p, Idle)
          /\ UNCHANGED <<invAnc, events>>
       \/ \E t \in best \ {tip} :
          /\ invAnc' = invAnc \cup Reorg(t).mark
          /\ Keep(p, [Idle EXCEPT !.pc = "verify", !.op = "rehome",
                      !.detach = Reorg(t).detach, !.attach = Reorg(t).attach])
          /\ UNCHANGED events
    /\ UNCHANGED <<made, lookup, par, data, valid, failed, disk, tip, htip, applied,
                   orphanVars, bounds>>

\* The branch examined last, in map order, is the one reconsidered.
\* ReconsiderBlock verifies it, then calls reorganizeChain, which does so again.
ReconsiderBlock(b) ==
    LET n == LookupNode(b)
        branches == {t \in InactiveTips \cup {tip} :
                        \/ t = n
                        \/ H(n) < H(t) /\ LET a == Ancestor(t, H(n)) IN
                              blockOf(a) = b /\ (a = n \/ Status(a) = <<n \in data, FALSE, FALSE, FALSE>>)}
        cleared == {n} \cup UNION {Between(t, n) : t \in branches}
    IN
    /\ Begin(Rpc) /\ commands + rollbacks < MaxInterventions
    /\ Known(b) /\ n \notin valid
    /\ commands' = commands + 1
    /\ failed' = failed \ {n}
    /\ \/ /\ branches = {}
          /\ Happens({"panic"})
          /\ invAnc' = invAnc \ {n}
          /\ UNCHANGED <<lock, task>>
       \/ \E t \in branches :
          /\ ~MoreWork(t)
          /\ invAnc' = invAnc \ cleared
          /\ UNCHANGED <<lock, task, events>>
       \/ \E t \in branches :
          /\ MoreWork(t)
          /\ invAnc' = invAnc \ cleared
          /\ Keep(Rpc, [Idle EXCEPT !.pc = "branch", !.op = "reconsider", !.attach = <<t>>])
          /\ UNCHANGED events
    /\ UNCHANGED <<indexVars, data, valid, disk, tip, htip, applied, orphanVars,
                   rollbacks>>

reconsiderBranch(p) ==
    LET t == task[p]
        r == Reorg(t.attach[1])
    IN
    /\ At(p, "branch")
    /\ invAnc' = invAnc \cup r.mark
    /\ Keep(p, [t EXCEPT !.pc = "verify", !.detach = r.detach, !.attach = r.attach])
    /\ rows' = rows \cup {c \in Blocks : Known(c)}
    /\ UNCHANGED <<made, lookup, par, data, valid, failed, disk, tip, htip, applied, orphanVars,
                   bounds, events>>

-----------------------------------------------------------------------------
(* InvalidateHeaderChain: the sync manager rolls back to a connected block. *)

InvalidateHeaderChain(h) ==
    LET root == Ancestor(tip, h)
        marked == {m \in View(htip) : H(m) > h /\ ~Invalid(m)}
        away == Down(tip, h)
    IN
    /\ Begin(Handler) /\ commands + rollbacks < MaxInterventions
    /\ rollbacks' = rollbacks + 1
    /\ invAnc' = invAnc \cup marked
    /\ valid' = valid \ marked
    /\ \/ /\ blockOf(root) \notin disk
          /\ UNCHANGED <<htip, lock, task>>
       \/ /\ blockOf(root) \in disk
          /\ htip' = root
          /\ Keep(Handler, [Idle EXCEPT !.pc = "verify", !.op = "rollback",
                    !.block = blockOf(root), !.queue = <<root>>,
                    !.detach = away, !.gone = away])
    /\ UNCHANGED <<indexVars, data, failed, disk, tip, applied, orphanVars,
                   commands, events>>

\* The blocks removed and the tip they are removed down to.
\* Mutant: the tip is the old one.
Gone(t) == {blockOf(t.gone[i]) : i \in DOMAIN t.gone}
RootOldTip(t) == IF t.gone = <<>> THEN t.queue[1] ELSE t.gone[1]
Root(t) == t.queue[1]

\* removeDisconnectedBlocks, removeOrphansWithParent and the new tip.
removeDisconnectedBlocks(p) ==
    LET t == task[p]
        gone == Gone(t)
    IN
    /\ At(p, "rollback")
    /\ disk' = disk \ gone
    /\ lookup' = [b \in Blocks |-> IF b \in gone THEN 0 ELSE lookup[b]]
    /\ orphans' = Kept(orphans, {o \in Blocks : Parent[o] \in gone})
    /\ tip' = Root(t)
    /\ rows' = rows \cup {b \in Blocks : lookup'[b] # 0}
    /\ Overlaps(p)
    /\ Yield(p, Idle)
    /\ UNCHANGED <<made, par, data, flagVars, htip, applied, oldest,
                   bounds>>

-----------------------------------------------------------------------------
Init ==
    /\ made = [b \in Blocks |-> IF b = Genesis THEN 1 ELSE 0]
    /\ lookup = made /\ par = [n \in Nodes |-> 1]
    /\ data = {<<Genesis, 1>>} /\ valid = data /\ failed = {} /\ invAnc = {}
    /\ disk = {Genesis} /\ rows = {Genesis} /\ applied = {Genesis}
    /\ tip = <<Genesis, 1>> /\ htip = tip
    /\ orphans = <<>> /\ oldest = None
    /\ lock = None /\ task = [p \in Procs |-> Idle]
    /\ commands = 0 /\ rollbacks = 0
    /\ events = {}

Next ==
    \/ \E b \in Blocks :
          \/ ProcessOrphanBlock(b)
          \/ \E flags \in Given : ProcessBlock(b, flags)
          \/ ProcessBlockHeader(b)
          \/ InvalidateBlock(b)
          \/ ReconsiderBlock(b)
    \/ ResumeBlockConnect
    \/ \E h \in 0 .. H(tip) : InvalidateHeaderChain(h)
    \/ \E p \in Procs :
          \/ maybeAcceptBlock(p) \/ connectBestChain(p) \/ finishAccept(p)
          \/ processOrphans(p) \/ RemoveBlockData(p)
          \/ verifyReorganizationValidity(p)
          \/ disconnectBlock(p) \/ connectBlock(p) \/ endReorganize(p)
          \/ rehome(p) \/ reconsiderBranch(p) \/ removeDisconnectedBlocks(p)

Spec == Init /\ [][Next]_vars

-----------------------------------------------------------------------------
(* Properties.                                                             *)

Chain == {blockOf(n) : n \in View(tip)}
Quiet == lock = None /\ \A p \in Procs : task[p].pc = "idle"

TypeOK ==
    /\ made \in [Blocks -> 0 .. MaxGen] /\ lookup \in [Blocks -> 0 .. MaxGen]
    /\ par \in [Nodes -> 1 .. MaxGen]
    /\ data \subseteq Nodes /\ valid \subseteq Nodes
    /\ failed \subseteq Nodes /\ invAnc \subseteq Nodes
    /\ disk \subseteq Blocks /\ rows \subseteq Blocks /\ applied \subseteq Blocks
    /\ tip \in Nodes /\ htip \in Nodes
    /\ ToSet(orphans) \subseteq Blocks /\ oldest \in Blocks \cup {None}
    /\ lock \in Procs \cup {None} /\ DOMAIN task = Procs
    /\ events \subseteq Events
    /\ commands \in Nat /\ rollbacks \in Nat
    /\ commands + rollbacks <= MaxInterventions

\* A block that checkConnectBlock rejects gets on the best chain in one way
\* only: as an extension of the tip, under the BFFastAdd that it, or the block
\* whose orphan it was, was delivered with.  No reorganization, resumed block,
\* rollback and cleared flag leads there.
NoBadBlock == "unchecked" \notin events => Chain \cap Bad = {}

\* No command and no rollback so far.
Undisturbed == commands + rollbacks = 0

\* The UTXO set is at every moment that of the best chain: every block that a
\* reorganization applied or undid is one that it attached or detached.
UtxoMatchesChain == "overlap" \notin events => applied = Chain

\* The payload of every block of the best chain is stored: orphans that expire,
\* fail or are evicted and data that is removed take away others.
ChainOnDisk == Undisturbed /\ events = {} => Chain \subseteq disk

\* The assertions of verifyReorganizationValidity, connectBlock and
\* disconnectBlock hold, and no command dereferences a nil tip.
AssertionsHold ==
    /\ events \cap {"overlap", "unchecked"} = {}
    /\ commands = 0 \/ commands + rollbacks = 1
    => events \cap {"assert", "panic"} = {}

\* Between two operations no stored branch that could be connected has more
\* work than the best chain, whatever the order its blocks and headers came in.
Ready(b) == /\ Known(b)
            /\ \A n \in View(LookupNode(b)) \ View(tip) :
                  blockOf(n) \in disk \ Bad /\ n \in data /\ ~Invalid(n)
MostWork ==
    Quiet /\ Undisturbed /\ events = {} =>
        \A b \in Blocks : Ready(b) => height[b] <= H(tip)

\* Between two operations no orphan waits for a block that is connected.
NoStuckOrphan ==
    Quiet /\ Undisturbed /\ events = {} =>
        \A o \in ToSet(orphans) : Parent[o] \notin Chain

\* The header view is never behind the best chain.
HeaderLeads ==
    Quiet /\ commands = 0 /\ "unrolled" \notin events => H(htip) >= H(tip)

\* The best chain grows and shrinks one block at a time: nothing that follows
\* the notifications misses a block.
OneBlockAtATime ==
    [][ "overlap" \notin events' =>
          \/ blockOf(tip') = blockOf(tip)
          \/ Parent[blockOf(tip')] = blockOf(tip)
          \/ Parent[blockOf(tip)] = blockOf(tip') ]_vars

\* Every block of the best chain has its payload on disk; the UTXO set holds its
\* outputs and those of no other block, through reorganizations that fail half way.
ChainBacked == UtxoMatchesChain /\ ChainOnDisk

\* Acceptance leaves nothing behind: no orphan of a connected parent, and no
\* header view behind the chain.
NothingLeftBehind == TypeOK /\ NoStuckOrphan /\ HeaderLeads
=============================================================================
