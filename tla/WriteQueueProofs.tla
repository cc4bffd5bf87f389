-------------------------- MODULE WriteQueueProofs --------------------------
(***************************************************************************)
(* Proofs about WriteQueue for every capacity, batch size, set of          *)
(* goroutines and bound.  Two inductive invariants: Inv places each block  *)
(* of the chain exactly while no transaction has failed and stopCh is      *)
(* open; Flow follows the blocks through failing transactions and stop().  *)
(***************************************************************************)
EXTENDS WriteQueue, SequenceTheorems, TLAPS

\* What the operation of the chainLock holder looks like at each point.
OpShape ==
    /\ op.at = "free" <=> op = Idle
    /\ op.at \in {"check", "send"} => op.kind = "connect"
    /\ op.at \in {"sync", "await", "update"} => op.kind \in {"flush", "disconnect"}
    /\ op.kind = "connect" =>
          /\ op.by \in Callers
          /\ connected < MaxBlocks
          /\ op.state = [height |-> Len(chain) + 1, id |-> connected + 1]

\* TypeOK, strengthened to be inductive: a new block fits the bounds because
\* the chain is never longer than the number of blocks ever connected.
TypeInv ==
    /\ TypeOK
    /\ OpShape
    /\ Len(chain) <= connected
    /\ wpc = "select" => Len(batch) < BatchSize
    /\ wpc \in {"filter", "flush", "select", "exit"} \/ batch = <<>>

LEMMA GenesisBlock == Genesis \in Blocks
  BY QueueAssumption DEF Genesis, Blocks

\* Taking the first element off a queue, and adding a last one.
LEMMA SeqFacts ==
    ASSUME NEW S, NEW s \in Seq(S)
    PROVE  /\ s # <<>> => /\ s[Len(s)] \in S /\ Len(s) \in Nat /\ Len(s) > 0
                          /\ Head(s) = s[1] /\ Head(s) \in S
                          /\ Tail(s) \in Seq(S) /\ Len(Tail(s)) = Len(s) - 1
                          /\ \A i \in 1 .. Len(s) - 1 : Tail(s)[i] = s[i + 1]
           /\ \A b \in S : /\ Append(s, b) \in Seq(S)
                           /\ Len(Append(s, b)) = Len(s) + 1
                           /\ \A i \in 1 .. Len(s) : Append(s, b)[i] = s[i]
                           /\ Append(s, b)[Len(s) + 1] = b
  OBVIOUS

LEMMA ElemsFacts ==
    ASSUME NEW S, NEW s \in Seq(S)
    PROVE  Elems(s) = {s[i] : i \in 1 .. Len(s)} /\ Elems(s) \subseteq S
  BY DEF Elems

LEMMA TipFacts == MemType => Tip \in Blocks /\ Parent \in Blocks
  BY GenesisBlock, SeqFacts DEF MemType, Tip, Parent

\* A transaction keeps the disk well-typed, committed or not.
LEMMA FlushType ==
    ASSUME NEW b \in Seq(Blocks), DiskType, flushBatch(b)
    PROVE  DiskType'
  <1>1. ASSUME b # <<>>
        PROVE  b[Len(b)] \in Blocks /\ b[Len(b)].height \in 0 .. MaxBlocks
    <2>1. b[Len(b)] \in Blocks BY <1>1, SeqFacts
    <2> QED BY <2>1 DEF Blocks
  <1>2. CASE Commit(b) /\ UNCHANGED errors
    <2>1. CASE b = <<>> BY <1>2, <2>1 DEF DiskType, Commit, diskVars
    <2>2. CASE b # <<>>
      BY <1>1, <1>2, <2>2, ElemsFacts DEF DiskType, Commit
    <2> QED BY <2>1, <2>2
  <1>3. CASE Fail(b)
    BY <1>3, QueueAssumption DEF DiskType, Fail, diskVars
  <1> QED BY <1>2, <1>3 DEF flushBatch

LEMMA IdleType == Idle \in Controls
  BY GenesisBlock DEF Idle, Controls

LEMMA GotoType ==
    ASSUME op \in Controls,
           NEW a \in {"check", "send", "sync", "await", "update"}, Goto(a)
    PROVE  /\ op' \in Controls /\ op'.at = a
           /\ op'.by = op.by /\ op'.kind = op.kind /\ op'.state = op.state
           /\ op' # Idle
  BY DEF Controls, Goto, Idle

LEMMA TypeInit == Init => TypeInv
  <1> SUFFICES ASSUME Init PROVE TypeInv OBVIOUS
  <1> USE QueueAssumption, GoroutineAssumption, GenesisBlock DEF Init
  <1>1. Idle \in Controls BY DEF Idle, Controls
  <1>2. MemType BY <1>1 DEF MemType
  <1>3. DiskType
    <2>1. outdated \in BOOLEAN BY Zenon
    <2> QED BY <2>1 DEF DiskType
  <1>4. ControlType BY DEF ControlType
  <1>5. QueueType BY DEF QueueType, NoLimit
  <1>6. OpShape BY DEF OpShape, Idle
  <1> QED BY <1>2, <1>3, <1>4, <1>5, <1>6 DEF TypeInv, TypeOK

LEMMA TypeNext == TypeInv /\ [Next]_vars => TypeInv'
  <1> SUFFICES ASSUME TypeInv, [Next]_vars PROVE TypeInv'
    OBVIOUS
  <1> USE QueueAssumption, GoroutineAssumption, GenesisBlock, TipFacts
      DEF TypeInv, TypeOK, MemType, QueueType, ControlType, OpShape
  <1> USE DEF memVars, diskVars, wrVars, stopVars
  <1>1. ASSUME NEW c \in Callers, BeginConnect(c) PROVE TypeInv'
    <2>1. [height |-> Len(chain) + 1, id |-> connected + 1] \in Blocks
      <3>1. Len(chain) + 1 \in 0 .. MaxBlocks /\ connected + 1 \in 0 .. MaxBlocks
        BY <1>1 DEF BeginConnect
      <3> HIDE DEF MemType, QueueType
      <3> QED BY <3>1 DEF Blocks
    <2>2. op' \in Controls BY <1>1, <2>1 DEF BeginConnect, Op, Controls
    <2>3. OpShape' BY <1>1 DEF BeginConnect, Op, Idle
    <2> QED BY <1>1, <2>2, <2>3 DEF BeginConnect, DiskType
  <1>2. ASSUME NEW c \in Callers, BeginTailFlush(c) PROVE TypeInv'
    BY <1>2 DEF BeginTailFlush, Op, Controls, Idle, DiskType
  <1>3. ASSUME NEW c \in Callers, BeginDisconnect(c) PROVE TypeInv'
    BY <1>3 DEF BeginDisconnect, Ready, Op, Controls, Idle, DiskType
  <1>4. CASE BeginLoopFlush
    BY <1>4 DEF BeginLoopFlush, Op, Controls, Idle, DiskType
  <1>5. CASE BeginShutdown
    BY <1>5 DEF BeginShutdown, Ready, Op, Controls, Idle, Callers, DiskType
  <1>51. CASE LoopExit BY <1>51 DEF LoopExit, DiskType
  <1>6. CASE EnqueueCheck
    <2>1. CASE stopped
      BY <1>6, <2>1, IdleType DEF EnqueueCheck, Idle, DiskType
    <2>2. CASE ~stopped
      BY <1>6, <2>2, GotoType DEF EnqueueCheck, DiskType
    <2> QED BY <2>1, <2>2
  <1>7. CASE EnqueueSend
    <2>1. /\ op.state \in Blocks /\ op.by \in Callers
          /\ connected + 1 \in 0 .. MaxBlocks
      BY <1>7 DEF EnqueueSend, Controls
    <2>2. /\ chain' \in Seq(Blocks) /\ Len(chain') = Len(chain) + 1
          /\ items' \in Seq(Blocks) /\ Len(items') <= Cap
      BY <1>7, <2>1, SeqFacts DEF EnqueueSend, HasRoom
    <2>3. owed' \in [Callers -> Blocks] BY <1>7, <2>1 DEF EnqueueSend
    <2>4. op' \in Controls /\ OpShape'
      BY <1>7 DEF EnqueueSend, Controls, Idle
    <2> QED BY <1>7, <2>1, <2>2, <2>3, <2>4 DEF EnqueueSend, DiskType
  <1>8. CASE EnqueueStopped
    BY <1>8 DEF EnqueueStopped, Controls, Idle, DiskType
  <1>9. CASE SyncSend
    <2>1. below' \in 0 .. NoLimit
      BY SMTT(30), <1>9 DEF SyncSend, Controls, NoLimit, Blocks
    <2>2. op' \in Controls /\ OpShape'
      BY <1>9 DEF SyncSend, Goto, Controls, Idle
    <2> QED BY <1>9, <2>1, <2>2 DEF SyncSend, DiskType
  <1>10. CASE SyncReturn
    <2>1. Goto("update") /\ op.at \in {"sync", "await"} BY <1>10 DEF SyncReturn
    <2>2. op' \in Controls /\ OpShape'
      <3>1. UNCHANGED memVars BY <1>10 DEF SyncReturn
      <3> QED BY <2>1, <3>1, GotoType
    <2> QED BY <1>10, <2>2 DEF SyncReturn, DiskType
  <1>11. CASE FlushUpdate
    BY <1>11 DEF FlushUpdate, Return, Controls, Idle, DiskType
  <1>12. CASE DisconnectUpdate
    <2>1. outdated' \in BOOLEAN BY <1>12, Zenon DEF DisconnectUpdate
    <2> QED BY <1>12, <2>1 DEF DisconnectUpdate, Detach, Controls, Idle, DiskType
  <1>13. CASE UpdateError
    BY <1>13 DEF UpdateError, Return, Controls, Idle, DiskType
  <1>14. CASE WriterReceive
    BY SMTT(30), <1>14, SeqFacts DEF WriterReceive, DiskType
  <1>15. CASE WriterFlush
    BY <1>15, FlushType DEF WriterFlush
  <1>16. CASE BarrierFilter
    BY SMTT(30), <1>16, SeqFacts DEF BarrierFilter, DiskType
  <1>17. CASE BarrierFlush
    BY <1>17, FlushType DEF BarrierFlush
  <1>18. CASE BarrierDrain
    BY SMTT(30), <1>18, SeqFacts DEF BarrierDrain, DiskType
  <1>19. CASE BarrierDrained
    BY <1>19 DEF BarrierDrained, DiskType
  <1>20. CASE BarrierAck
    BY <1>20, FlushType DEF BarrierAck, NoLimit
  <1>21. CASE WriterStop
    BY <1>21 DEF WriterStop, DiskType
  <1>22. CASE WriterExit
    BY <1>22, FlushType DEF WriterExit
  <1>23. CASE StopMark BY <1>23 DEF StopMark, DiskType
  <1>24. CASE StopClose BY <1>24 DEF StopClose, DiskType
  <1>25. CASE StopDrain BY SMTT(30), <1>25, SeqFacts DEF StopDrain, DiskType
  <1>26. CASE StopDrained BY <1>26 DEF StopDrained, DiskType
  <1>27. CASE StopFlush BY <1>27, FlushType DEF StopFlush
  <1>28. CASE StopWait BY <1>28 DEF StopWait, DiskType
  <1>29. CASE UNCHANGED vars BY <1>29 DEF vars, DiskType
  <1> QED
    BY <1>1, <1>2, <1>3, <1>4, <1>5, <1>6, <1>7, <1>8, <1>9, <1>10, <1>11,
       <1>51, <1>12, <1>13, <1>14, <1>15, <1>16, <1>17, <1>18, <1>19, <1>20, <1>21,
       <1>22, <1>23, <1>24, <1>25, <1>26, <1>27, <1>28, <1>29
    DEF Next, HolderStep, WriterStep, StopStep

\* Every reachable state is well-typed: the channel never exceeds its
\* capacity nor the batch its size.
THEOREM TypeCorrect == Spec => []TypeOK
  <1>1. Init => TypeInv BY TypeInit
  <1>2. TypeInv /\ [Next]_vars => TypeInv' BY TypeNext
  <1>3. TypeInv => TypeOK BY DEF TypeInv
  <1> QED BY <1>1, <1>2, <1>3, PTL DEF Spec

-----------------------------------------------------------------------------
(* The disk is a prefix of the chain.  The inductive invariant follows each *)
(* block through the queue: the disk ends where the slice being collected   *)
(* by a barrier starts, that slice ends where the writer's batch starts,    *)
(* the batch where the channel starts, and the channel ends at the tip, or  *)
(* one block below it when a disconnect's barrier has dropped the tip.      *)

Heights == \A i \in 1 .. Len(chain) : chain[i].height = i

Aligned ==
    /\ \A i \in 1 .. Len(kept) : kept[i] = chain[best.height + i]
    /\ \A i \in 1 .. Len(batch) :
          batch[i] = chain[best.height + Len(kept) + i]
    /\ \A i \in 1 .. Len(items) :
          items[i] = chain[best.height + Len(kept) + Len(batch) + i]

Reached == best.height + Len(kept) + Len(batch) + Len(items)

AtTip == \/ Reached = Len(chain)
         \/ op.kind = "disconnect" /\ Reached = Len(chain) - 1

\* How far the writer is with the holder's barrier.
Barrier ==
    /\ op.at \notin {"await", "update"} =>
          wpc \in {"select", "flush"} /\ Reached = Len(chain)
    /\ op.at = "await" /\ ~done => wpc \in {"filter", "drain", "ack"}
    /\ (op.at = "await" /\ done) \/ op.at = "update" =>
          wpc = "select" /\ batch = <<>> /\ items = <<>>
    /\ AtTip
    /\ wpc \in {"select", "flush"} => kept = <<>>
    /\ wpc \in {"drain", "ack"} => batch = <<>>
    /\ wpc = "ack" => items = <<>>
    /\ wpc \in {"filter", "drain", "ack"} =>
          below = IF op.kind = "disconnect" THEN Len(chain) - 1 ELSE NoLimit

Detaching == op.kind = "disconnect" => chain # <<>> /\ op.state = Parent

StopShape == /\ shut \in {"drain", "tail", "wait", "returned",
                           "flushing", "flushed", "done"} => closed
             /\ wpc \in {"exit", "returned"} => closed

QueueInv == (errors = 0 /\ ~closed) =>
                Heights /\ DurablePrefix /\ Aligned /\ Barrier /\ Detaching
Inv == TypeInv /\ StopShape /\ QueueInv

\* Committing the next blocks of the chain extends the durable prefix.
LEMMA CommitExtends ==
    ASSUME MemType, DiskType, Heights, DurablePrefix, NEW b \in Seq(Blocks),
           \A i \in 1 .. Len(b) : b[i] = chain[best.height + i],
           best.height + Len(b) <= Len(chain),
           Commit(b), chain' = chain
    PROVE  DurablePrefix' /\ best'.height = best.height + Len(b)
  <1> USE DEF MemType, DiskType
  <1>0. best.height \in Nat /\ Len(b) \in Nat /\ Len(chain) \in Nat
    BY QueueAssumption DEF Blocks
  <1>1. CASE b = <<>> BY <1>0, <1>1 DEF Commit, diskVars, DurablePrefix
  <1>2. CASE b # <<>>
    <2>1. Len(b) > 0 /\ best' = b[Len(b)] BY <1>2, <1>0, SeqFacts DEF Commit
    <2>2. best' = chain[best.height + Len(b)] BY <2>1, <1>0
    <2>3. best'.height = best.height + Len(b) BY <2>1, <2>2, <1>0 DEF Heights
    <2>4. rows' = rows \cup {b[i] : i \in 1 .. Len(b)}
      BY <1>2, ElemsFacts DEF Commit
    <2>5. rows' = {chain[i] : i \in 1 .. best.height + Len(b)}
      <3>1. ASSUME NEW x \in rows'
            PROVE  \E i \in 1 .. best.height + Len(b) : x = chain[i]
        <4>1. CASE x \in rows BY <4>1, <1>0 DEF DurablePrefix
        <4>2. CASE x \notin rows
          <5>1. PICK i \in 1 .. Len(b) : x = b[i] BY <3>1, <4>2, <2>4
          <5>2. best.height + i \in 1 .. best.height + Len(b) BY <1>0
          <5> QED BY <5>1, <5>2
        <4> QED BY <4>1, <4>2
      <3>2. ASSUME NEW i \in 1 .. best.height + Len(b)
            PROVE  chain[i] \in rows'
        <4>1. CASE i <= best.height BY <4>1, <2>4, <1>0 DEF DurablePrefix
        <4>2. CASE i > best.height
          <5>1. i - best.height \in 1 .. Len(b) BY <4>2, <1>0
          <5>2. chain[i] = b[i - best.height] BY <5>1, <1>0
          <5> QED BY <5>1, <5>2, <2>4
        <4> QED BY <4>1, <4>2, <1>0
      <3> QED BY <3>1, <3>2
    <2> QED BY <2>1, <2>2, <2>3, <2>5, <1>0 DEF DurablePrefix
  <1> QED BY <1>1, <1>2

\* Arithmetic facts about the sequences and the disk.
LEMMA Numbers ==
    ASSUME TypeInv
    PROVE  /\ best.height \in 0 .. MaxBlocks
           /\ Len(chain) \in Nat /\ Len(items) \in Nat
           /\ Len(batch) \in Nat /\ Len(kept) \in Nat
  <1>1. best \in Blocks BY DEF TypeInv, TypeOK, DiskType
  <1>2. best.height \in 0 .. MaxBlocks BY <1>1 DEF Blocks
  <1> QED BY <1>2 DEF TypeInv, TypeOK, MemType, QueueType

LEMMA InvInit == Init => Inv
  <1> SUFFICES ASSUME Init PROVE Inv OBVIOUS
  <1>1. TypeInv BY TypeInit
  <1>2. StopShape BY DEF Init, StopShape
  <1>3. Heights /\ DurablePrefix /\ Aligned
    BY DEF Init, Heights, DurablePrefix, Aligned, Genesis
  <1>4. Barrier /\ Detaching
    BY DEF Init, Barrier, Detaching, AtTip, Reached, Idle, Genesis
  <1> QED BY <1>1, <1>2, <1>3, <1>4 DEF Inv, QueueInv

LEMMA StopShapeNext == TypeInv /\ StopShape /\ [Next]_vars => StopShape'
  <1> SUFFICES ASSUME TypeInv, StopShape, [Next]_vars PROVE StopShape'
    OBVIOUS
  <1> USE DEF StopShape, memVars, diskVars, wrVars, stopVars
  <1>1. ASSUME NEW c \in Callers,
               BeginConnect(c) \/ BeginTailFlush(c) \/ BeginDisconnect(c)
        PROVE StopShape'
    BY <1>1 DEF BeginConnect, BeginTailFlush, BeginDisconnect
  <1>2. CASE BeginLoopFlush \/ BeginShutdown \/ LoopExit
    BY <1>2 DEF BeginLoopFlush, BeginShutdown, LoopExit
  <1>3. CASE HolderStep
    BY <1>3 DEF HolderStep, EnqueueCheck, EnqueueSend, EnqueueStopped, SyncSend,
                SyncReturn, FlushUpdate, DisconnectUpdate, UpdateError, Return
  <1>4. CASE WriterStep
    BY <1>4 DEF WriterStep, WriterReceive, WriterFlush, BarrierFilter,
                BarrierFlush, BarrierDrain, BarrierDrained, BarrierAck,
                WriterStop, WriterExit
  <1>5. CASE StopStep
    BY <1>5 DEF StopStep, StopMark, StopClose, StopDrain, StopDrained,
                StopFlush, StopWait
  <1>6. CASE UNCHANGED vars BY <1>6 DEF vars
  <1> QED BY <1>1, <1>2, <1>3, <1>4, <1>5, <1>6 DEF Next

\* Errors are only counted up and stopCh is never reopened.
LEMMA Monotone ==
    ASSUME TypeInv, [Next]_vars, errors' = 0, ~closed'
    PROVE  errors = 0 /\ ~closed
  <1> USE DEF memVars, diskVars, wrVars, stopVars
  <1>0. errors \in Nat
    BY QueueAssumption DEF TypeInv, TypeOK, DiskType
  <1>1. ASSUME NEW c \in Callers,
               BeginConnect(c) \/ BeginTailFlush(c) \/ BeginDisconnect(c)
        PROVE errors = 0 /\ ~closed
    BY <1>1 DEF BeginConnect, BeginTailFlush, BeginDisconnect
  <1>2. CASE BeginLoopFlush \/ BeginShutdown \/ LoopExit
    BY <1>2 DEF BeginLoopFlush, BeginShutdown, LoopExit
  <1>3. CASE HolderStep
    BY <1>0, <1>3 DEF HolderStep, EnqueueCheck, EnqueueSend, EnqueueStopped,
              SyncSend, SyncReturn, FlushUpdate, DisconnectUpdate, UpdateError
  <1>4. CASE WriterStep
    BY <1>0, <1>4 DEF WriterStep, WriterReceive, WriterFlush, BarrierFilter,
              BarrierFlush, BarrierDrain, BarrierDrained, BarrierAck,
              WriterStop, WriterExit, flushBatch, Fail
  <1>5. CASE StopStep
    BY <1>0, <1>5 DEF StopStep, StopMark, StopClose, StopDrain, StopDrained,
              StopFlush, StopWait, flushBatch, Fail
  <1>6. CASE UNCHANGED vars BY <1>6 DEF vars
  <1> QED BY <1>1, <1>2, <1>3, <1>4, <1>5, <1>6 DEF Next

QueueParts == Heights /\ DurablePrefix /\ Aligned /\ Barrier /\ Detaching

LEMMA QueueHolder ==
    ASSUME TypeInv, TypeInv', StopShape, QueueParts, ~closed, errors = 0,
           errors' = 0
    PROVE  /\ \A c \in Callers :
                 BeginConnect(c) \/ BeginTailFlush(c) \/ BeginDisconnect(c)
                    => QueueParts'
           /\ BeginLoopFlush \/ BeginShutdown => QueueParts'
           /\ HolderStep => QueueParts'
  <1>0. /\ best.height \in Nat /\ Len(chain) \in Nat /\ Len(items) \in Nat
        /\ Len(batch) \in Nat /\ Len(kept) \in Nat
    BY Numbers, QueueAssumption
  <1> USE <1>0 DEF QueueParts, Aligned, Barrier, Detaching, AtTip, Reached
  <1> USE DEF memVars, diskVars, wrVars, stopVars
  <1>1. ASSUME NEW c \in Callers, BeginConnect(c) PROVE QueueParts'
    BY <1>1 DEF BeginConnect, Op, Ready, Idle, Heights, DurablePrefix
  <1>2. ASSUME NEW c \in Callers, BeginTailFlush(c) PROVE QueueParts'
    BY <1>2 DEF BeginTailFlush, Op, Idle, Heights, DurablePrefix
  <1>3. ASSUME NEW c \in Callers, BeginDisconnect(c) PROVE QueueParts'
    BY <1>3 DEF BeginDisconnect, Op, Ready, Idle, Heights, DurablePrefix, Parent
  <1>4. CASE BeginLoopFlush
    BY <1>4 DEF BeginLoopFlush, Op, Idle, Heights, DurablePrefix
  <1>5. CASE BeginShutdown
    BY <1>5 DEF BeginShutdown, Op, Ready, Idle, Heights, DurablePrefix
  <1>6. CASE EnqueueCheck
    <2>1. op \in Controls /\ op.kind = "connect"
      BY <1>6 DEF EnqueueCheck, TypeInv, TypeOK, MemType, OpShape
    <2>2. \/ op' = Idle
          \/ op'.at = "send" /\ op'.kind = "connect"
      BY <1>6, <2>1, GotoType DEF EnqueueCheck
    <2>3. op'.at \notin {"await", "update"} /\ op'.kind # "disconnect"
      BY <2>2 DEF Idle
    <2> QED BY <1>6, <2>3 DEF EnqueueCheck, Heights, DurablePrefix
  <1>7. CASE EnqueueSend
    <2>1. /\ op.state \in Blocks /\ op.state.height = Len(chain) + 1
          /\ chain \in Seq(Blocks) /\ items \in Seq(Blocks)
      BY <1>7
      DEF EnqueueSend, Controls, TypeInv, TypeOK, MemType, QueueType, OpShape
    <2>2. /\ Len(chain') = Len(chain) + 1 /\ chain'[Len(chain) + 1] = op.state
          /\ \A i \in 1 .. Len(chain) : chain'[i] = chain[i]
          /\ Len(items') = Len(items) + 1 /\ items'[Len(items) + 1] = op.state
          /\ \A i \in 1 .. Len(items) : items'[i] = items[i]
      BY <1>7, <2>1, SeqFacts DEF EnqueueSend
    <2>3. /\ op.at = "send" /\ op' = Idle
          /\ UNCHANGED <<diskVars, wrVars>>
      BY <1>7 DEF EnqueueSend
    <2>4. Reached = Len(chain) /\ Reached' = Reached + 1
      BY <2>2, <2>3
    <2>5. Heights'
      <3>1. ASSUME NEW i \in 1 .. Len(chain) + 1 PROVE chain'[i].height = i
        <4>1. CASE i = Len(chain) + 1 BY <4>1, <2>1, <2>2
        <4>2. CASE i \in 1 .. Len(chain) BY <4>2, <2>2 DEF Heights
        <4> QED BY <4>1, <4>2
      <3> QED BY <3>1, <2>2 DEF Heights
    <2>6. DurablePrefix'
      <3>1. best' = best /\ rows' = rows BY <2>3
      <3>2. \A i \in 1 .. best.height : chain'[i] = chain[i]
        BY <2>2 DEF DurablePrefix
      <3>3. {chain'[i] : i \in 1 .. best.height} = {chain[i] : i \in 1 .. best.height}
        BY ZenonT(30), <3>2
      <3>4. best = IF best.height = 0 THEN Genesis ELSE chain'[best.height]
        <4>1. CASE best.height = 0 BY <4>1 DEF DurablePrefix
        <4>2. CASE best.height # 0
          <5>1. best = chain[best.height] BY <4>2 DEF DurablePrefix
          <5>2. best.height \in 1 .. best.height BY <4>2
          <5> HIDE DEF QueueParts
          <5> QED BY <4>2, <5>1, <5>2, <3>2
        <4> QED BY <4>1, <4>2
      <3>5. best.height <= Len(chain') BY <2>2 DEF DurablePrefix
      <3>6. rows = {chain[i] : i \in 1 .. best.height} BY DEF DurablePrefix
      <3> QED BY <3>1, <3>3, <3>4, <3>5, <3>6 DEF DurablePrefix
    <2>7. Aligned'
      <3>1. best' = best /\ kept' = kept /\ batch' = batch BY <2>3
      <3>2. \A i \in 1 .. Len(kept) : kept[i] = chain'[best.height + i]
        <4> SUFFICES ASSUME NEW i \in 1 .. Len(kept)
                     PROVE  kept[i] = chain'[best.height + i]
          OBVIOUS
        <4>1. best.height + i \in 1 .. Len(chain) BY SMTT(30), <2>4
        <4> QED BY <4>1, <2>2
      <3>3. \A i \in 1 .. Len(batch) :
               batch[i] = chain'[best.height + Len(kept) + i]
        <4> SUFFICES ASSUME NEW i \in 1 .. Len(batch)
                     PROVE  batch[i] = chain'[best.height + Len(kept) + i]
          OBVIOUS
        <4>1. best.height + Len(kept) + i \in 1 .. Len(chain) BY SMTT(30), <2>4
        <4> QED BY <4>1, <2>2
      <3>4. ASSUME NEW i \in 1 .. Len(items) + 1
            PROVE  items'[i] = chain'[best.height + Len(kept) + Len(batch) + i]
        <4>1. CASE i \in 1 .. Len(items)
          <5>1. best.height + Len(kept) + Len(batch) + i \in 1 .. Len(chain)
            <6>1. best.height + Len(kept) + Len(batch) + Len(items) = Len(chain)
              BY <2>4
            <6> HIDE DEF QueueParts
            <6> QED BY <4>1, <6>1
          <5> QED BY <4>1, <5>1, <2>2
        <4>2. CASE i = Len(items) + 1
          <5>1. best.height + Len(kept) + Len(batch) + i = Len(chain) + 1
            BY <4>2, <2>4
          <5> QED BY <4>2, <5>1, <2>2
        <4> QED BY <4>1, <4>2
      <3> QED BY <3>1, <3>2, <3>3, <3>4, <2>2
    <2>8. Barrier' /\ Detaching' BY <2>2, <2>3, <2>4 DEF Idle
    <2> QED BY <2>5, <2>6, <2>7, <2>8
  <1>8. CASE EnqueueStopped BY <1>8 DEF EnqueueStopped
  <1>9. CASE SyncSend
    <2>1. op \in Controls /\ chain \in Seq(Blocks)
      BY DEF TypeInv, TypeOK, MemType
    <2>2. /\ op'.at = "await" /\ op'.kind = op.kind /\ op'.state = op.state
          /\ op.at = "sync"
      BY <1>9, <2>1, GotoType DEF SyncSend
    <2>3. op.kind = "disconnect" => op.state.height = Len(chain) - 1
      <3>1. chain # <<>> => Parent.height = Len(chain) - 1
        BY <2>1 DEF Heights, Parent, Genesis
      <3> QED BY <3>1
    <2>4. Heights' /\ DurablePrefix' /\ Aligned' /\ Detaching'
      BY <1>9, <2>2 DEF SyncSend, Heights, DurablePrefix, Parent
    <2>5. Barrier' BY <1>9, <2>2, <2>3 DEF SyncSend
    <2> QED BY <2>4, <2>5
  <1>10. CASE SyncReturn
    BY ZenonT(30), <1>10, GotoType
    DEF SyncReturn, Heights, DurablePrefix, TypeInv, TypeOK, MemType, OpShape, Parent
  <1>11. CASE FlushUpdate
    BY <1>11 DEF FlushUpdate, Return, Idle, Heights, DurablePrefix
  <1>12. CASE DisconnectUpdate
    <2>1. /\ chain # <<>> /\ best' = Parent /\ chain' = Detach /\ op' = Idle
          /\ rows' = rows \ {Tip} /\ UNCHANGED wrVars /\ items' = items
          /\ batch = <<>> /\ items = <<>> /\ wpc = "select" /\ kept = <<>>
          /\ best.height \in {Len(chain), Len(chain) - 1}
          /\ chain \in Seq(Blocks)
      BY <1>12 DEF DisconnectUpdate, TypeInv, TypeOK, MemType
    <2>2. /\ Len(chain) > 0 /\ Len(chain') = Len(chain) - 1
          /\ \A i \in 1 .. Len(chain) - 1 : chain'[i] = chain[i]
      <3>1. Len(chain) > 0 /\ chain' = SubSeq(chain, 1, Len(chain) - 1)
        BY <2>1 DEF Detach
      <3>2. ASSUME NEW s \in Seq(Blocks), Len(s) > 0
            PROVE  /\ Len(SubSeq(s, 1, Len(s) - 1)) = Len(s) - 1
                   /\ \A i \in 1 .. Len(s) - 1 : SubSeq(s, 1, Len(s) - 1)[i] = s[i]
        <4> HIDE <1>0 DEF QueueParts
        <4> QED BY <3>2
      <3> QED BY <2>1, <3>1, <3>2
    <2>3. /\ best'.height = Len(chain')
          /\ best' = IF best'.height = 0 THEN Genesis ELSE chain'[best'.height]
      BY <2>1, <2>2 DEF Heights, Parent, Genesis
    <2>4. Heights' BY <2>2 DEF Heights
    <2>5. rows' = {chain'[i] : i \in 1 .. best'.height}
      <3>1. Tip = chain[Len(chain)] BY <2>1 DEF Tip
      <3>2. \A i \in 1 .. Len(chain) - 1 : chain[i] # Tip
        BY <3>1, <2>2 DEF Heights
      <3>3. rows = {chain[i] : i \in 1 .. best.height} BY DEF DurablePrefix
      <3>4. ASSUME NEW x \in rows' PROVE \E i \in 1 .. Len(chain) - 1 : x = chain[i]
        <4>1. x \in rows /\ x # Tip BY <2>1, <3>4
        <4>2. PICK i \in 1 .. best.height : x = chain[i] BY <4>1, <3>3
        <4> QED BY <4>1, <4>2, <3>1, <2>1
      <3>5. ASSUME NEW i \in 1 .. Len(chain) - 1 PROVE chain[i] \in rows'
        BY <2>1, <3>2, <3>3
      <3>6. rows' = {chain[i] : i \in 1 .. Len(chain) - 1} BY <3>4, <3>5
      <3> QED BY <3>6, <2>2, <2>3
    <2>6. DurablePrefix'
      <3>1. best'.height <= Len(chain') BY <2>2, <2>3
      <3> HIDE DEF QueueParts
      <3> QED BY <3>1, <2>3, <2>5 DEF DurablePrefix
    <2>7. Aligned' /\ Barrier' /\ Detaching' BY <2>1, <2>2, <2>3 DEF Idle
    <2> QED BY <2>4, <2>6, <2>7
  <1>13. CASE UpdateError
    BY <1>13 DEF UpdateError
  <1> QED
    BY <1>1, <1>2, <1>3, <1>4, <1>5, <1>6, <1>7, <1>8, <1>9, <1>10, <1>11,
       <1>12, <1>13 DEF HolderStep

\* The writer moves blocks along without changing their order.
LEMMA QueueWriter ==
    ASSUME TypeInv, StopShape, QueueParts, ~closed, errors = 0, errors' = 0
    PROVE  WriterStep => QueueParts'
  <1>0. /\ best.height \in Nat /\ Len(chain) \in Nat /\ Len(items) \in Nat
        /\ Len(batch) \in Nat /\ Len(kept) \in Nat
    BY Numbers, QueueAssumption
  <1>h. best.height \in Nat BY <1>0
  <1>k. Len(kept) \in Nat BY <1>0
  <1>b. Len(batch) \in Nat BY <1>0
  <1>i. Len(items) \in Nat BY <1>0
  <1> USE <1>h, <1>k, <1>b, <1>i
  <1>s. items \in Seq(Blocks) /\ batch \in Seq(Blocks) /\ kept \in Seq(Blocks)
    BY DEF TypeInv, TypeOK, QueueType
  <1>n. /\ items # <<>> =>
             /\ Len(items) > 0 /\ Head(items) = items[1] /\ Head(items) \in Blocks
             /\ Len(Tail(items)) = Len(items) - 1
             /\ \A i \in 1 .. Len(items) - 1 : Tail(items)[i] = items[i + 1]
        /\ batch # <<>> =>
             /\ Len(batch) > 0 /\ Head(batch) = batch[1] /\ Head(batch) \in Blocks
             /\ Len(Tail(batch)) = Len(batch) - 1
             /\ \A i \in 1 .. Len(batch) - 1 : Tail(batch)[i] = batch[i + 1]
    BY <1>0, <1>s, SeqFacts
  <1>r. Reached <= Len(chain) BY <1>0 DEF QueueParts, Barrier, AtTip, Reached
  <1>c. \A b : flushBatch(b) => Commit(b) BY DEF flushBatch, Fail
  <1> USE DEF memVars, wrVars, stopVars
  <1>1. CASE WriterReceive
    <2>1. /\ items # <<>> /\ wpc = "select" /\ kept = <<>>
          /\ batch' = Append(batch, Head(items)) /\ items' = Tail(items)
          /\ wpc' \in {"select", "flush"}
          /\ UNCHANGED <<chain, op, done, kept, below, rows, best>>
      BY <1>1 DEF WriterReceive, diskVars, QueueParts, Barrier
    <2>2. /\ Len(batch') = Len(batch) + 1 /\ batch'[Len(batch) + 1] = items[1]
          /\ \A i \in 1 .. Len(batch) : batch'[i] = batch[i]
          /\ Len(items') = Len(items) - 1
          /\ \A i \in 1 .. Len(items) - 1 : items'[i] = items[i + 1]
      BY <2>1, <1>s, <1>n, SeqFacts
    <2>3. Heights' /\ DurablePrefix' /\ Detaching'
      BY <2>1 DEF QueueParts, Heights, DurablePrefix, Detaching, Parent
    <2>4. op.at \notin {"update"} /\ ~(op.at = "await" /\ done)
      BY <2>1 DEF QueueParts, Barrier
    <2>5. Barrier'
      <3>1. Reached' = Reached
        <4>1. Reached' = best.height + Len(kept) + (Len(batch) + 1) + (Len(items) - 1)
          BY <2>1, <2>2 DEF Reached
        <4>2. best.height + Len(kept) + (Len(batch) + 1) + (Len(items) - 1)
                = best.height + Len(kept) + Len(batch) + Len(items)
          OBVIOUS
        <4> QED BY <4>1, <4>2 DEF Reached
      <3>2. op.at # "await" BY <2>1, <2>4 DEF QueueParts, Barrier
      <3> QED BY <2>1, <2>4, <3>1, <3>2 DEF QueueParts, Barrier, AtTip
    <2>6. Aligned'
      <3>1. ASSUME NEW i \in 1 .. Len(batch) + 1
            PROVE  batch'[i] = chain[best.height + Len(kept) + i]
        <4>1. CASE i \in 1 .. Len(batch)
          BY <4>1, <2>2 DEF QueueParts, Aligned
        <4>2. CASE i = Len(batch) + 1
          <5>1. items[1] = chain[best.height + Len(kept) + Len(batch) + 1]
            BY <2>1, <1>0, <1>n DEF QueueParts, Aligned
          <5>2. best.height + Len(kept) + i = best.height + Len(kept) + Len(batch) + 1
            BY <4>2
          <5> QED BY <4>2, <5>1, <5>2, <2>2
        <4> QED BY <4>1, <4>2, <2>2, <1>0
      <3>2. ASSUME NEW i \in 1 .. Len(items) - 1
            PROVE  items'[i] = chain[best.height + Len(kept) + Len(batch') + i]
        <4>1. i + 1 \in 1 .. Len(items) /\ items'[i] = items[i + 1]
          BY <2>2, <1>0, <2>1, <1>n
        <4>2. items[i + 1] = chain[best.height + Len(kept) + Len(batch) + (i + 1)]
          BY <4>1 DEF QueueParts, Aligned
        <4>3. best.height + Len(kept) + Len(batch') + i
                 = best.height + Len(kept) + Len(batch) + (i + 1)
          <5>1. i \in Int BY <2>2
          <5>2. Len(batch') = Len(batch) + 1 BY <2>2
          <5> QED BY SMTT(30), <5>1, <5>2
        <4> QED BY <4>1, <4>2, <4>3
      <3> QED BY <3>1, <3>2, <2>1, <2>2 DEF QueueParts, Aligned
    <2> QED BY <2>3, <2>5, <2>6 DEF QueueParts
  <1>2. CASE WriterFlush
    <2>1. /\ wpc = "flush" /\ kept = <<>> /\ Commit(batch) /\ batch' = <<>>
          /\ wpc' = "select"
          /\ UNCHANGED <<chain, op, done, kept, below, items>>
      BY <1>2, <1>c DEF WriterFlush, QueueParts, Barrier
    <2>2. /\ \A i \in 1 .. Len(batch) : batch[i] = chain[best.height + i]
          /\ best.height + Len(batch) <= Len(chain)
      BY <2>1, <1>0, <1>r DEF QueueParts, Aligned, Reached
    <2>3. DurablePrefix' /\ best'.height = best.height + Len(batch)
      BY <2>1, <2>2, <1>s, CommitExtends DEF TypeInv, TypeOK, QueueParts
    <2>4. Heights' /\ Detaching'
      BY <2>1 DEF QueueParts, Heights, Detaching, Parent
    <2>5. Aligned' /\ Barrier'
      BY SMTT(30), <2>1, <2>3, <1>0 DEF QueueParts, Aligned, Barrier, AtTip, Reached
    <2> QED BY <2>3, <2>4, <2>5 DEF QueueParts
  <1>3. CASE BarrierFlush
    <2>1. /\ wpc = "filter" /\ batch = <<>> /\ Commit(kept) /\ kept' = <<>>
          /\ wpc' = "drain"
          /\ UNCHANGED <<chain, op, done, batch, below, items>>
      BY <1>3, <1>c DEF BarrierFlush
    <2>2. /\ \A i \in 1 .. Len(kept) : kept[i] = chain[best.height + i]
          /\ best.height + Len(kept) <= Len(chain)
      BY <2>1, <1>0, <1>r DEF QueueParts, Aligned, Reached
    <2>3. DurablePrefix' /\ best'.height = best.height + Len(kept)
      BY <2>1, <2>2, <1>s, CommitExtends DEF TypeInv, TypeOK, QueueParts
    <2>4. Heights' /\ Detaching'
      BY <2>1 DEF QueueParts, Heights, Detaching, Parent
    <2>5. Aligned' /\ Barrier'
      BY <2>1, <2>3, <1>0 DEF QueueParts, Aligned, Barrier, AtTip, Reached
    <2> QED BY <2>3, <2>4, <2>5 DEF QueueParts
  <1>4. CASE BarrierAck
    <2>1. /\ wpc = "ack" /\ batch = <<>> /\ items = <<>> /\ Commit(kept)
          /\ kept' = <<>> /\ wpc' = "select" /\ done' = TRUE
          /\ UNCHANGED <<chain, op, batch, items>>
      BY <1>4, <1>c DEF BarrierAck, QueueParts, Barrier
    <2>2. /\ \A i \in 1 .. Len(kept) : kept[i] = chain[best.height + i]
          /\ best.height + Len(kept) <= Len(chain)
      BY <2>1, <1>0, <1>r DEF QueueParts, Aligned, Reached
    <2>3. DurablePrefix' /\ best'.height = best.height + Len(kept)
      BY <2>1, <2>2, <1>s, CommitExtends DEF TypeInv, TypeOK, QueueParts
    <2>4. Heights' /\ Detaching'
      BY <2>1 DEF QueueParts, Heights, Detaching, Parent
    <2>5. Aligned' /\ Barrier'
      BY <2>1, <2>3, <1>0 DEF QueueParts, Aligned, Barrier, AtTip, Reached
    <2> QED BY <2>3, <2>4, <2>5 DEF QueueParts
  <1>5. CASE BarrierDrained
    BY <1>5 DEF BarrierDrained, QueueParts, Aligned, Barrier, AtTip, Reached,
                Heights, DurablePrefix, Detaching, Parent, diskVars
  <1>6. CASE BarrierFilter
    <2>1. /\ batch # <<>> /\ wpc = "filter" /\ batch' = Tail(batch)
          /\ kept' = IF Keeps(batch[1]) THEN Append(kept, batch[1]) ELSE kept
          /\ UNCHANGED <<chain, op, done, wpc, items, below, rows, best>>
      BY <1>6, <1>n DEF BarrierFilter, diskVars
    <2>2. /\ Len(batch) > 0 /\ Len(batch') = Len(batch) - 1
          /\ \A i \in 1 .. Len(batch) - 1 : batch'[i] = batch[i + 1]
          /\ batch[1] \in Blocks
          /\ batch[1] = chain[best.height + Len(kept) + 1]
      BY <2>1, <1>0, <1>n DEF QueueParts, Aligned
    <2>3. Heights' /\ DurablePrefix' /\ Detaching'
      BY <2>1 DEF QueueParts, Heights, DurablePrefix, Detaching, Parent
    <2>4. CASE Keeps(batch[1])
      <3>1. /\ Len(kept') = Len(kept) + 1 /\ kept'[Len(kept) + 1] = batch[1]
            /\ \A i \in 1 .. Len(kept) : kept'[i] = kept[i]
        BY <2>1, <2>2, <2>4, <1>s, SeqFacts
      <3>2. Reached' = Reached
        <4>1. Reached' = best.height + (Len(kept) + 1) + (Len(batch) - 1) + Len(items)
          BY <2>1, <2>2, <3>1 DEF Reached
        <4> QED BY SMTT(30), <4>1, <1>0 DEF Reached
      <3>3. Barrier' BY <2>1, <3>2 DEF QueueParts, Barrier, AtTip
      <3>4. ASSUME NEW i \in 1 .. Len(kept) + 1
            PROVE  kept'[i] = chain[best.height + i]
        <4>1. CASE i \in 1 .. Len(kept) BY <4>1, <3>1 DEF QueueParts, Aligned
        <4>2. CASE i = Len(kept) + 1
          <5>1. best.height + i = best.height + Len(kept) + 1 BY <4>2, <1>0
          <5> QED BY <4>2, <5>1, <3>1, <2>2
        <4> QED BY <4>1, <4>2, <3>1, <1>0
      <3>5. ASSUME NEW i \in 1 .. Len(batch) - 1
            PROVE  batch'[i] = chain[best.height + Len(kept') + i]
        <4>1. i \in Int /\ i + 1 \in 1 .. Len(batch) /\ batch'[i] = batch[i + 1]
          BY <2>2, <1>0
        <4>2. batch[i + 1] = chain[best.height + Len(kept) + (i + 1)]
          BY <4>1 DEF QueueParts, Aligned
        <4>3. best.height + Len(kept') + i = best.height + Len(kept) + (i + 1)
          <5>1. Len(kept') = Len(kept) + 1 BY <3>1
          <5>2. i \in Int BY <4>1
          <5> QED BY <5>1, <5>2
        <4> QED BY <4>1, <4>2, <4>3
      <3>6. Len(kept') + Len(batch') = Len(kept) + Len(batch)
        BY <3>1, <2>2, <1>0
      <3>7. ASSUME NEW i \in 1 .. Len(items)
            PROVE  items[i] = chain[best.height + Len(kept') + Len(batch') + i]
        <4>1. items[i] = chain[best.height + Len(kept) + Len(batch) + i]
          BY DEF QueueParts, Aligned
        <4>2. best.height + Len(kept') + Len(batch') + i
                = best.height + Len(kept) + Len(batch) + i
          <5>1. Len(kept') = Len(kept) + 1 BY <3>1
          <5>2. Len(batch') = Len(batch) - 1 BY <2>2
          <5> QED BY SMTT(30), <5>1, <5>2
        <4> QED BY <4>1, <4>2
      <3> QED BY <2>1, <2>2, <2>3, <3>1, <3>3, <3>4, <3>5, <3>7 DEF QueueParts, Aligned
    <2>5. CASE ~Keeps(batch[1])
      <3>1. batch[1].height = best.height + Len(kept) + 1
        BY <2>2, <1>0, <1>r DEF QueueParts, Heights, Reached
      <3>2. /\ op.kind = "disconnect" /\ Len(batch) = 1 /\ Len(items) = 0
            /\ Reached = Len(chain)
        <4>1. below = IF op.kind = "disconnect" THEN Len(chain) - 1 ELSE NoLimit
          BY <2>1 DEF QueueParts, Barrier
        <4>2. batch[1].height \in 0 .. MaxBlocks BY <2>2 DEF Blocks
        <4>3. op.kind = "disconnect"
          BY <2>5, <4>1, <4>2, QueueAssumption DEF Keeps, NoLimit
        <4>4. best.height + Len(kept) + 1 > Len(chain) - 1
          BY <2>5, <3>1, <4>1, <4>3, <1>0 DEF Keeps
        <4> QED BY <4>3, <4>4, <2>2, <1>0, <1>r DEF Reached
      <3>3. /\ kept' = kept /\ Len(batch') = 0 /\ Len(items') = 0
            /\ batch' = <<>> /\ items' = <<>>
        <4>1. kept' = kept /\ Len(Tail(batch)) = 0 /\ items' = items
          BY <2>1, <2>2, <2>5, <3>2
        <4>2. Tail(batch) \in Seq(Blocks) BY <2>1, <1>s, SeqFacts
        <4>3. Tail(batch) = <<>> /\ items = <<>>
          BY <4>1, <4>2, <3>2, <1>s, EmptySeq
        <4> QED BY <4>1, <4>3, <2>1
      <3>4. Reached' = Len(chain) - 1
        BY <3>2, <3>3, <2>1, <1>0 DEF Reached
      <3>5. Barrier' BY <2>1, <3>2, <3>3, <3>4 DEF QueueParts, Barrier, AtTip
      <3>6. Aligned' BY <2>1, <3>3 DEF QueueParts, Aligned
      <3> QED BY <2>3, <3>5, <3>6 DEF QueueParts
    <2> QED BY <2>4, <2>5
  <1>7. CASE BarrierDrain
    <2>1. /\ items # <<>> /\ wpc = "drain" /\ items' = Tail(items) /\ batch = <<>>
          /\ kept' = IF Keeps(items[1]) THEN Append(kept, items[1]) ELSE kept
          /\ UNCHANGED <<chain, op, done, wpc, batch, below, rows, best>>
      BY <1>7, <1>n DEF BarrierDrain, diskVars, QueueParts, Barrier
    <2>2. /\ Len(items) > 0 /\ Len(items') = Len(items) - 1
          /\ \A i \in 1 .. Len(items) - 1 : items'[i] = items[i + 1]
          /\ items[1] \in Blocks
          /\ items[1] = chain[best.height + Len(kept) + 1]
      BY <2>1, <1>0, <1>n DEF QueueParts, Aligned
    <2>3. Heights' /\ DurablePrefix' /\ Detaching'
      BY <2>1 DEF QueueParts, Heights, DurablePrefix, Detaching, Parent
    <2>b. Len(batch) = 0 BY <2>1
    <2>4. CASE Keeps(items[1])
      <3>1. /\ Len(kept') = Len(kept) + 1 /\ kept'[Len(kept) + 1] = items[1]
            /\ \A i \in 1 .. Len(kept) : kept'[i] = kept[i]
        BY <2>1, <2>2, <2>4, <1>s, SeqFacts
      <3>2. Reached' = Reached
        <4>1. Reached' = best.height + (Len(kept) + 1) + Len(batch) + (Len(items) - 1)
          BY <2>1, <2>2, <3>1 DEF Reached
        <4>2. best.height + (Len(kept) + 1) + Len(batch) + (Len(items) - 1)
                = best.height + Len(kept) + Len(batch) + Len(items)
          BY SMTT(30)
        <4> QED BY <4>1, <4>2 DEF Reached
      <3>3. Barrier' BY <2>1, <3>2 DEF QueueParts, Barrier, AtTip
      <3>4. ASSUME NEW i \in 1 .. Len(kept) + 1
            PROVE  kept'[i] = chain[best.height + i]
        <4>1. CASE i \in 1 .. Len(kept) BY <4>1, <3>1 DEF QueueParts, Aligned
        <4>2. CASE i = Len(kept) + 1
          <5>1. best.height + i = best.height + Len(kept) + 1 BY <4>2
          <5> QED BY <4>2, <5>1, <3>1, <2>2
        <4> QED BY <4>1, <4>2
      <3>5. ASSUME NEW i \in 1 .. Len(items) - 1
            PROVE  items'[i] = chain[best.height + Len(kept') + Len(batch) + i]
        <4>1. i \in Int /\ i + 1 \in 1 .. Len(items) /\ items'[i] = items[i + 1]
          BY <2>2
        <4>2. items[i + 1] = chain[best.height + Len(kept) + Len(batch) + (i + 1)]
          BY <4>1 DEF QueueParts, Aligned
        <4>3. best.height + Len(kept') + Len(batch) + i
                = best.height + Len(kept) + Len(batch) + (i + 1)
          <5>1. Len(kept') = Len(kept) + 1 BY <3>1
          <5>2. i \in Int BY <4>1
          <5> QED BY SMTT(30), <5>1, <5>2
        <4> QED BY <4>1, <4>2, <4>3
      <3> QED BY <2>1, <2>2, <2>3, <2>b, <3>1, <3>3, <3>4, <3>5
          DEF QueueParts, Aligned
    <2>5. CASE ~Keeps(items[1])
      <3>1. items[1].height = best.height + Len(kept) + 1
        BY <2>2, <1>0, <1>r DEF QueueParts, Heights, Reached
      <3>2. op.kind = "disconnect" /\ Len(items) = 1 /\ Reached = Len(chain)
        <4>1. below = IF op.kind = "disconnect" THEN Len(chain) - 1 ELSE NoLimit
          BY <2>1 DEF QueueParts, Barrier
        <4>2. items[1].height \in 0 .. MaxBlocks BY <2>2 DEF Blocks
        <4>3. op.kind = "disconnect"
          BY <2>5, <4>1, <4>2, QueueAssumption DEF Keeps, NoLimit
        <4>4. best.height + Len(kept) + 1 > Len(chain) - 1
          BY <2>5, <3>1, <4>1, <4>3, <1>0 DEF Keeps
        <4> QED BY <4>3, <4>4, <2>2, <2>b, <1>0, <1>r DEF Reached
      <3>3. kept' = kept /\ items' = <<>> /\ Len(items') = 0 /\ Len(batch') = 0
        <4>1. kept' = kept /\ Len(Tail(items)) = 0 BY <2>1, <2>2, <2>5, <3>2
        <4>2. Tail(items) \in Seq(Blocks) BY <2>1, <1>s, SeqFacts
        <4>3. Tail(items) = <<>> BY <4>1, <4>2, EmptySeq
        <4> QED BY <4>1, <4>3, <2>1, <2>b
      <3>4. Reached' = Len(chain) - 1
        BY <3>2, <3>3, <2>1, <2>b, <1>0 DEF Reached
      <3>5. Barrier' BY <2>1, <3>2, <3>3, <3>4 DEF QueueParts, Barrier, AtTip
      <3>6. Aligned' BY <2>1, <3>3 DEF QueueParts, Aligned
      <3> QED BY <2>3, <3>5, <3>6 DEF QueueParts
    <2> QED BY <2>4, <2>5
  <1>8. CASE WriterStop \/ WriterExit
    BY <1>8 DEF WriterStop, WriterExit, StopShape
  <1> QED
    BY <1>1, <1>2, <1>3, <1>4, <1>5, <1>6, <1>7, <1>8 DEF WriterStep

LEMMA InvNext == Inv /\ [Next]_vars => Inv'
  <1> SUFFICES ASSUME Inv, [Next]_vars PROVE Inv' OBVIOUS
  <1>1. TypeInv' BY TypeNext DEF Inv
  <1>2. StopShape' BY StopShapeNext DEF Inv
  <1>3. ASSUME errors' = 0, ~closed' PROVE QueueParts'
    <2>1. errors = 0 /\ ~closed BY <1>3, Monotone DEF Inv
    <2>2. TypeInv /\ StopShape /\ QueueParts
      BY <2>1 DEF Inv, QueueInv, QueueParts
    <2>3. ASSUME NEW c \in Callers,
                 BeginConnect(c) \/ BeginTailFlush(c) \/ BeginDisconnect(c)
          PROVE  QueueParts'
      BY <1>1, <1>3, <2>1, <2>2, <2>3, QueueHolder
    <2>4. CASE BeginLoopFlush \/ BeginShutdown \/ HolderStep
      BY <1>1, <1>3, <2>1, <2>2, <2>4, QueueHolder
    <2>41. CASE LoopExit BY <2>1, <2>2, <2>41 DEF LoopExit, StopShape
    <2>5. CASE WriterStep BY <1>3, <2>1, <2>2, <2>5, QueueWriter
    <2>6. CASE StopStep
      <3>1. CASE StopMark
        BY <2>2, <3>1
        DEF StopMark, memVars, diskVars, wrVars, QueueParts, Heights, Aligned,
            DurablePrefix, Barrier, AtTip, Reached, Detaching, Parent
      <3>2. CASE StopClose BY <1>3, <3>2 DEF StopClose
      <3>3. CASE StopDrain \/ StopDrained \/ StopFlush \/ StopWait
        BY <2>1, <2>2, <3>3
        DEF StopDrain, StopDrained, StopFlush, StopWait, StopShape
      <3> QED BY <2>6, <3>1, <3>2, <3>3 DEF StopStep
    <2>7. CASE UNCHANGED vars
      BY <2>2, <2>7
      DEF vars, memVars, diskVars, wrVars, QueueParts, Heights, Aligned,
          DurablePrefix, Barrier, AtTip, Reached, Detaching, Parent
    <2> QED BY <2>3, <2>4, <2>41, <2>5, <2>6, <2>7 DEF Next
  <1> QED BY <1>1, <1>2, <1>3 DEF Inv, QueueInv, QueueParts

\* As long as no transaction fails and stopCh is open, the disk holds the
\* metadata of exactly a prefix of the connected chain, whichever goroutines
\* connect, disconnect and flush and however the writer batches.
THEOREM PrefixAlways == Spec => []PrefixBeforeStop
  <1>1. Inv => PrefixBeforeStop BY DEF Inv, QueueInv, PrefixBeforeStop
  <1> QED BY InvInit, InvNext, <1>1, PTL DEF Spec

LEMMA BarrierHere == Inv => BarrierDurableNoError
  <1> SUFFICES ASSUME Inv, errors = 0, op.kind = "flush", op.at = "update", ~closed
               PROVE  best = Tip /\ (Tip # Genesis => Tip \in rows)
    BY DEF BarrierDurableNoError, BarrierDurable
  <1>1. /\ DurablePrefix /\ batch = <<>> /\ items = <<>> /\ kept = <<>>
        /\ Reached = Len(chain)
    BY DEF Inv, QueueInv, Barrier, AtTip
  <1>2. chain \in Seq(Blocks) /\ best.height \in Nat /\ Len(chain) \in Nat
    BY Numbers DEF Inv, TypeInv, TypeOK, MemType
  <1>3. best.height = Len(chain) BY <1>1, <1>2 DEF Reached
  <1>4. best = Tip BY <1>1, <1>2, <1>3, EmptySeq DEF DurablePrefix, Tip
  <1>5. Tip # Genesis => Tip \in rows
    BY <1>1, <1>2, <1>3, EmptySeq DEF DurablePrefix, Tip
  <1> QED BY <1>4, <1>5

\* When syncNow has returned to a flush, every enqueued block is on disk.
THEOREM BarrierAlways == Spec => []BarrierDurableNoError
  BY InvInit, InvNext, BarrierHere, PTL DEF Spec

-----------------------------------------------------------------------------
(* Every block in one place, whatever fails and also while stop() runs.    *)
(* The invariants above need a disk that never fails and an open stopCh;   *)
(* these do without: they follow the blocks as sets and by their heights.  *)

Serving == wpc \in {"filter", "drain", "ack"}

\* stopCh is closed after q.stopped is set, and stop() takes items only then.
Stopping == /\ closed => stopped
            /\ shut = "close" => stopped
            /\ ~closed => tail = <<>>

\* The writer serves the barrier of the holder that waits for it, or of one that
\* has left because stopCh is closed; no block is sent in the meantime.
Served == /\ Serving => (op.at = "await" /\ ~done) \/ (closed /\ op.at # "send")
          /\ ~closed =>
                /\ op.at = "await" /\ ~done => Serving
                /\ (op.at = "await" /\ done) \/ op.at = "update" =>
                      wpc = "select" /\ batch = <<>> /\ items = <<>>
                /\ wpc = "ack" => items = <<>>
          /\ ~Serving => kept = <<>>
          /\ wpc \in {"drain", "ack"} => batch = <<>>

Distinct(s) == \A i, j \in 1 .. Len(s) : i # j => s[i] # s[j]
Apart(S, T) == S \cap T = {}

Custody ==
    /\ Distinct(kept) /\ Distinct(batch) /\ Distinct(items) /\ Distinct(tail)
    /\ Apart(Elems(kept), Elems(batch)) /\ Apart(Elems(kept), Elems(items))
    /\ Apart(Elems(kept), Elems(tail)) /\ Apart(Elems(batch), Elems(items))
    /\ Apart(Elems(batch), Elems(tail)) /\ Apart(Elems(items), Elems(tail))
    /\ Apart(rows, Elems(kept)) /\ Apart(rows, Elems(batch))
    /\ Apart(rows, Elems(items)) /\ Apart(rows, Elems(tail))

Places == rows \cup Elems(kept) \cup Elems(batch) \cup Elems(items) \cup Elems(tail)

\* A new block has an identity no block has that was ever enqueued.
Known == \A x \in Places : x.id <= connected

\* A barrier drops no block of the chain but the tip that is being disconnected.
Limit == errors = 0 /\ Serving =>
            below >= Len(chain) \/ (op.kind = "disconnect" /\ below = Len(chain) - 1)
Held == errors = 0 =>
    \A i \in 1 .. Len(chain) :
        chain[i] \in Places \/ (i = Len(chain) /\ op.kind = "disconnect")

Rising(s) == \A i, j \in 1 .. Len(s) : i < j => s[i].height < s[j].height
Below(S, T) == \A x \in S, y \in T : x.height < y.height

\* Until stopCh is closed only blocks of the chain are on their way, in the
\* order of their heights and above the best state on disk.
Ordered ==
    /\ Places \subseteq Elems(chain)
    /\ best.height <= Len(chain)
    /\ Rising(kept) /\ Rising(batch) /\ Rising(items)
    /\ Below(Elems(kept), Elems(batch)) /\ Below(Elems(kept), Elems(items))
    /\ Below(Elems(batch), Elems(items))
    /\ Below({best}, Elems(kept)) /\ Below({best}, Elems(batch))
    /\ Below({best}, Elems(items))
Order == ~closed => Ordered

Flow == /\ TypeInv /\ StopShape /\ Stopping /\ Served
        /\ Heights /\ Detaching
        /\ Custody /\ Known /\ Limit /\ Held /\ Order

\* A chain without its tip.
LEMMA DetachFacts ==
    ASSUME chain \in Seq(Blocks), chain # <<>>
    PROVE  /\ Len(chain) \in Nat /\ Len(chain) > 0
           /\ Len(Detach) = Len(chain) - 1
           /\ \A i \in 1 .. Len(chain) - 1 : Detach[i] = chain[i]
  <1>1. ASSUME NEW s \in Seq(Blocks), Len(s) > 0
        PROVE  /\ Len(SubSeq(s, 1, Len(s) - 1)) = Len(s) - 1
               /\ \A i \in 1 .. Len(s) - 1 : SubSeq(s, 1, Len(s) - 1)[i] = s[i]
    <2>1. PICK n \in Nat : n = Len(s) - 1 BY <1>1
    <2>2. 1 \in Int /\ n \in Int /\ \A i \in 1 .. n : s[i] \in Blocks BY <2>1
    <2>3. /\ Len(SubSeq(s, 1, n)) = IF 1 <= n THEN n - 1 + 1 ELSE 0
          /\ \A i \in 1 .. n - 1 + 1 : SubSeq(s, 1, n)[i] = s[1 + i - 1]
      BY <2>2, SubSeqProperties
    <2>4. n - 1 + 1 = n /\ \A i \in 1 .. n : 1 + i - 1 = i BY <2>1
    <2> QED BY <2>1, <2>3, <2>4
  <1>2. Len(chain) \in Nat /\ Len(chain) > 0 OBVIOUS
  <1> QED BY <1>1, <1>2 DEF Detach

\* Adding a last element to a sequence of distinct elements.
LEMMA PutLast ==
    ASSUME NEW S, NEW s \in Seq(S), NEW b \in S
    PROVE  /\ Elems(Append(s, b)) = Elems(s) \cup {b}
           /\ Distinct(s) /\ b \notin Elems(s) => Distinct(Append(s, b))
  <1>1. /\ Len(s) \in Nat /\ Len(Append(s, b)) = Len(s) + 1
        /\ \A i \in 1 .. Len(s) : Append(s, b)[i] = s[i]
        /\ Append(s, b)[Len(s) + 1] = b /\ Append(s, b) \in Seq(S)
    BY SeqFacts
  <1>2. Elems(s) = {s[i] : i \in 1 .. Len(s)} BY ElemsFacts
  <1>3. Elems(Append(s, b)) = {Append(s, b)[i] : i \in 1 .. Len(s) + 1}
    BY <1>1, ElemsFacts
  <1>4. \A i \in 1 .. Len(s) + 1 : i \in 1 .. Len(s) \/ i = Len(s) + 1 BY <1>1
  <1>5. 1 .. Len(s) \subseteq 1 .. Len(s) + 1 /\ Len(s) + 1 \in 1 .. Len(s) + 1 BY <1>1
  <1>6. Elems(Append(s, b)) = Elems(s) \cup {b} BY <1>1, <1>2, <1>3, <1>4, <1>5
  <1>7. ASSUME Distinct(s), b \notin Elems(s) PROVE Distinct(Append(s, b))
    BY <1>1, <1>2, <1>4, <1>7 DEF Distinct
  <1> QED BY <1>6, <1>7

\* Taking the first element off.
LEMMA TakeFirst ==
    ASSUME NEW S, NEW s \in Seq(S), s # <<>>
    PROVE  /\ Head(s) \in S /\ Head(s) \in Elems(s) /\ Tail(s) \in Seq(S)
           /\ Elems(s) = Elems(Tail(s)) \cup {Head(s)}
           /\ Distinct(s) => Distinct(Tail(s)) /\ Head(s) \notin Elems(Tail(s))
  <1>1. /\ Len(s) \in Nat /\ Len(s) > 0 /\ Head(s) = s[1] /\ Head(s) \in S
        /\ Tail(s) \in Seq(S) /\ Len(Tail(s)) = Len(s) - 1
        /\ \A i \in 1 .. Len(s) - 1 : Tail(s)[i] = s[i + 1]
    BY SeqFacts
  <1>2. Elems(s) = {s[i] : i \in 1 .. Len(s)} BY ElemsFacts
  <1>3. Elems(Tail(s)) = {Tail(s)[i] : i \in 1 .. Len(s) - 1} BY <1>1, ElemsFacts
  <1>4. \A i \in 1 .. Len(s) - 1 : i + 1 \in 1 .. Len(s) /\ i + 1 # 1 BY <1>1
  <1>5. \A i \in 1 .. Len(s) : i = 1 \/ (i - 1 \in 1 .. Len(s) - 1 /\ (i - 1) + 1 = i)
    BY <1>1
  <1>6. 1 \in 1 .. Len(s) BY <1>1
  <1>7. Head(s) \in Elems(s) BY <1>1, <1>2, <1>6
  <1>8. ASSUME NEW x \in Elems(s) PROVE x \in Elems(Tail(s)) \/ x = Head(s)
    <2>1. PICK i \in 1 .. Len(s) : x = s[i] BY <1>2, <1>8
    <2>2. CASE i = 1 BY <1>1, <2>1, <2>2
    <2>3. CASE i - 1 \in 1 .. Len(s) - 1 /\ (i - 1) + 1 = i
      <3>1. Tail(s)[i - 1] = s[i] BY <1>1, <2>3
      <3> QED BY <1>3, <2>1, <2>3, <3>1
    <2> QED BY <1>5, <2>2, <2>3
  <1>9. Elems(Tail(s)) \subseteq Elems(s) BY <1>1, <1>2, <1>3, <1>4
  <1>10. ASSUME Distinct(s) PROVE Distinct(Tail(s)) /\ Head(s) \notin Elems(Tail(s))
    <2>1. \A i \in 1 .. Len(s) - 1 : Tail(s)[i] # Head(s)
      BY <1>1, <1>4, <1>6, <1>10 DEF Distinct
    <2>2. \A i, j \in 1 .. Len(s) - 1 : i # j => i + 1 # j + 1 OBVIOUS
    <2>3. Distinct(Tail(s)) BY <1>1, <1>4, <1>10, <2>2 DEF Distinct
    <2> QED BY <1>3, <2>1, <2>3
  <1> QED BY <1>1, <1>7, <1>8, <1>9, <1>10

LEMMA FlowInit == Init => Flow
  <1> SUFFICES ASSUME Init PROVE Flow OBVIOUS
  <1>1. TypeInv /\ StopShape BY TypeInit DEF Init, StopShape
  <1>2. Stopping /\ Served BY DEF Init, Stopping, Served, Serving, Idle
  <1>3. Elems(<<>>) = {} BY DEF Elems
  <1>4. Heights /\ Detaching /\ Held BY DEF Init, Heights, Detaching, Held, Idle
  <1>5. Custody /\ Known
    BY <1>3 DEF Init, Custody, Known, Places, Distinct, Apart
  <1>6. Limit BY DEF Init, Limit, Serving
  <1>7. Order
    BY <1>3 DEF Init, Order, Ordered, Places, Rising, Below, Genesis
  <1> QED BY <1>1, <1>2, <1>4, <1>5, <1>6, <1>7 DEF Flow

LEMMA HeldUpNext ==
    ASSUME TypeInv, StopShape, Stopping, Served, Next
    PROVE  Stopping' /\ Served'
  <1> USE DEF Stopping, Served, Serving, memVars, diskVars, wrVars, stopVars
  <1>0. op \in Controls /\ OpShape /\ StopShape BY DEF TypeInv, TypeOK, MemType
  <1>1. ASSUME NEW c \in Callers,
               BeginConnect(c) \/ BeginTailFlush(c) \/ BeginDisconnect(c)
        PROVE Stopping' /\ Served'
    BY <1>1 DEF BeginConnect, BeginTailFlush, BeginDisconnect, Ready, Idle, Op
  <1>2. CASE BeginLoopFlush \/ BeginShutdown
    BY <1>2 DEF BeginLoopFlush, BeginShutdown, Ready, Idle, Op
  <1>3. CASE LoopExit BY <1>3 DEF LoopExit
  <1>4. CASE EnqueueCheck
    BY <1>0, <1>4, GotoType DEF EnqueueCheck, Idle
  <1>5. CASE EnqueueSend \/ EnqueueStopped
    BY <1>5 DEF EnqueueSend, EnqueueStopped, Idle
  <1>6. CASE SyncSend BY <1>0, <1>6, GotoType DEF SyncSend
  <1>7. CASE SyncReturn BY <1>0, <1>7, GotoType DEF SyncReturn
  <1>8. CASE FlushUpdate \/ UpdateError
    BY <1>8 DEF FlushUpdate, UpdateError, Return, Idle
  <1>9. CASE DisconnectUpdate BY <1>9 DEF DisconnectUpdate, Idle
  <1>10. CASE WriterStep
    BY <1>10 DEF WriterStep, WriterReceive, WriterFlush, BarrierFilter, BarrierFlush,
            BarrierDrain, BarrierDrained, BarrierAck, WriterStop, WriterExit
  <1>11. CASE StopStep
    BY <1>0, <1>11 DEF StopStep, StopMark, StopClose, StopDrain, StopDrained, StopFlush,
            StopWait, StopShape
  <1> QED
    BY <1>1, <1>2, <1>3, <1>4, <1>5, <1>6, <1>7, <1>8, <1>9, <1>10, <1>11
    DEF Next, HolderStep

\* The chain and what the holder does with it: nobody else touches it.
LEMMA ChainNext ==
    ASSUME TypeInv, Heights, Detaching, Next
    PROVE  Heights' /\ Detaching'
  <1> USE DEF memVars, diskVars, wrVars, stopVars
  <1>0. op \in Controls /\ OpShape /\ chain \in Seq(Blocks) BY DEF TypeInv, TypeOK, MemType
  <1>1. CASE UNCHANGED <<chain, op>> BY <1>1 DEF Heights, Detaching, Parent
  <1>2. CASE chain' = chain /\ op'.kind # "disconnect"
    BY <1>2 DEF Heights, Detaching
  <1>3. CASE chain' = chain /\ op'.kind = op.kind /\ op'.state = op.state
    BY <1>3 DEF Heights, Detaching, Parent
  <1>4. ASSUME NEW c \in Callers,
               BeginConnect(c) \/ BeginTailFlush(c) \/ BeginDisconnect(c)
        PROVE Heights' /\ Detaching'
    BY <1>4 DEF BeginConnect, BeginTailFlush, BeginDisconnect, Op, Heights, Detaching, Parent
  <1>5. CASE BeginLoopFlush \/ BeginShutdown
    BY <1>2, <1>5 DEF BeginLoopFlush, BeginShutdown, Op
  <1>6. CASE EnqueueCheck BY <1>0, <1>2, <1>6, GotoType DEF EnqueueCheck, Idle, OpShape
  <1>7. CASE EnqueueSend
    <2>1. op.state \in Blocks /\ op.state.height = Len(chain) + 1 /\ Len(chain) \in Nat
      BY <1>0, <1>7 DEF EnqueueSend, Controls, OpShape
    <2>2. chain' = Append(chain, op.state) /\ op' = Idle BY <1>7 DEF EnqueueSend
    <2>3. /\ Len(chain') = Len(chain) + 1 /\ chain'[Len(chain) + 1] = op.state
          /\ \A i \in 1 .. Len(chain) : chain'[i] = chain[i]
      BY <1>0, <2>1, <2>2, SeqFacts
    <2>4. \A i \in 1 .. Len(chain') : i \in 1 .. Len(chain) \/ i = Len(chain) + 1
      BY <2>1, <2>3
    <2> QED BY <2>1, <2>2, <2>3, <2>4 DEF Heights, Detaching, Idle
  <1>8. CASE SyncSend \/ SyncReturn
    BY <1>0, <1>3, <1>8, GotoType DEF SyncSend, SyncReturn
  <1>9. CASE EnqueueStopped \/ FlushUpdate \/ UpdateError
    BY <1>2, <1>9 DEF EnqueueStopped, FlushUpdate, UpdateError, Return, Idle
  <1>10. CASE DisconnectUpdate
    <2>1. chain # <<>> /\ chain' = Detach /\ op' = Idle
      BY <1>10 DEF DisconnectUpdate, Detaching
    <2>2. /\ Len(chain') = Len(chain) - 1
          /\ \A i \in 1 .. Len(chain) - 1 : chain'[i] = chain[i]
      BY <1>0, <2>1, DetachFacts
    <2> QED BY <1>0, <2>1, <2>2 DEF Heights, Detaching, Idle
  <1> QED
    BY <1>1, <1>4, <1>5, <1>6, <1>7, <1>8, <1>9, <1>10
    DEF Next, HolderStep, LoopExit, WriterStep, WriterReceive, WriterFlush, BarrierFilter,
        BarrierFlush, BarrierDrain, BarrierDrained, BarrierAck, WriterStop, WriterExit,
        StopStep, StopMark, StopClose, StopDrain, StopDrained, StopFlush, StopWait

\* A transaction moves a whole batch to the disk, or loses it.
LEMMA FlushMoves ==
    ASSUME NEW b \in Seq(Blocks), errors \in Nat, flushBatch(b)
    PROVE  /\ rows' = rows \cup Elems(b) \/ rows' = rows
           /\ errors' = errors => rows' = rows \cup Elems(b)
  <1>1. CASE Commit(b) /\ UNCHANGED errors
    <2>1. CASE b = <<>>
      <3>1. Elems(b) = {} BY <2>1 DEF Elems
      <3> QED BY <1>1, <2>1, <3>1 DEF Commit, diskVars
    <2>2. CASE b # <<>> BY <1>1, <2>2 DEF Commit
    <2> QED BY <2>1, <2>2
  <1>2. CASE Fail(b) BY <1>2 DEF Fail, diskVars
  <1> QED BY <1>1, <1>2 DEF flushBatch

LEMMA CustodyNext ==
    ASSUME TypeInv, Custody, Known, Next
    PROVE  Custody' /\ Known'
  <1> USE DEF memVars, diskVars, wrVars, stopVars
  <1>0. /\ kept \in Seq(Blocks) /\ batch \in Seq(Blocks) /\ items \in Seq(Blocks)
        /\ tail \in Seq(Blocks) /\ connected \in Nat /\ errors \in Nat
        /\ Elems(<<>>) = {} /\ Distinct(<<>>)
    BY QueueAssumption DEF TypeInv, TypeOK, QueueType, MemType, DiskType, Elems, Distinct
  <1>1. CASE UNCHANGED <<rows, kept, batch, items, tail, connected>>
    BY <1>1 DEF Custody, Known, Places
  <1>2. CASE EnqueueSend
    <2>1. op.state \in Blocks /\ op.state.id = connected + 1
      BY <1>2 DEF EnqueueSend, TypeInv, TypeOK, MemType, OpShape, Controls
    <2>2. \A x \in Places : x # op.state
      <3>1. \A x \in Places : x.id <= connected BY DEF Known
      <3>2. ~(connected + 1 <= connected) BY <1>0
      <3> QED BY <2>1, <3>1, <3>2
    <2>3. /\ Elems(items') = Elems(items) \cup {op.state} /\ Distinct(items')
          /\ UNCHANGED <<rows, kept, batch, tail>> /\ connected' = connected + 1
      BY <1>0, <1>2, <2>1, <2>2, PutLast DEF EnqueueSend, Custody, Places
    <2>4. Custody' BY <2>2, <2>3 DEF Custody, Apart, Places
    <2>5. Known'
      <3> SUFFICES ASSUME NEW x \in Places' PROVE x.id <= connected + 1
        BY <2>3 DEF Known
      <3>1. CASE x = op.state BY <2>1, <3>1, <1>0
      <3>2. CASE x \in Places
        <4>1. x \in Blocks
          BY <1>0, <3>2, ElemsFacts DEF Places, TypeInv, TypeOK, DiskType
        <4>2. x.id \in Nat BY <4>1, QueueAssumption DEF Blocks
        <4> QED BY <1>0, <3>2, <4>2 DEF Known
      <3> QED BY <2>3, <3>1, <3>2 DEF Places
    <2> QED BY <2>4, <2>5
  <1>3. CASE DisconnectUpdate
    BY <1>3 DEF DisconnectUpdate, Custody, Apart, Known, Places
  <1>4. CASE WriterReceive
    <2>1. /\ Head(items) \in Blocks /\ items' = Tail(items)
          /\ batch' = Append(batch, Head(items))
          /\ UNCHANGED <<rows, kept, tail, connected>>
          /\ items # <<>>
      BY <1>0, <1>4, TakeFirst DEF WriterReceive
    <2>2. /\ Elems(items) = Elems(items') \cup {Head(items)} /\ Distinct(items')
          /\ Head(items) \notin Elems(items') /\ Head(items) \notin Elems(batch)
          /\ Elems(batch') = Elems(batch) \cup {Head(items)} /\ Distinct(batch')
      BY <1>0, <2>1, TakeFirst, PutLast DEF Custody, Apart
    <2>3. Custody' BY <2>1, <2>2 DEF Custody, Apart
    <2>4. Known' BY <2>1, <2>2 DEF Known, Places
    <2> QED BY <2>3, <2>4
  <1>5. CASE StopDrain
    <2>1. /\ Head(items) \in Blocks /\ items' = Tail(items)
          /\ tail' = Append(tail, Head(items))
          /\ UNCHANGED <<rows, kept, batch, connected>>
          /\ items # <<>>
      BY <1>0, <1>5, TakeFirst DEF StopDrain
    <2>2. /\ Elems(items) = Elems(items') \cup {Head(items)} /\ Distinct(items')
          /\ Head(items) \notin Elems(items') /\ Head(items) \notin Elems(tail)
          /\ Elems(tail') = Elems(tail) \cup {Head(items)} /\ Distinct(tail')
      BY <1>0, <2>1, TakeFirst, PutLast DEF Custody, Apart
    <2>3. Custody' BY <2>1, <2>2 DEF Custody, Apart
    <2>4. Known' BY <2>1, <2>2 DEF Known, Places
    <2> QED BY <2>3, <2>4
  <1>6. CASE BarrierFilter
    <2>1. /\ Head(batch) \in Blocks /\ batch' = Tail(batch) /\ batch # <<>>
          /\ kept' = kept \/ kept' = Append(kept, Head(batch))
          /\ UNCHANGED <<rows, items, tail, connected>>
      BY <1>0, <1>6, TakeFirst DEF BarrierFilter
    <2>2. /\ Elems(batch) = Elems(batch') \cup {Head(batch)} /\ Distinct(batch')
          /\ Head(batch) \notin Elems(batch') /\ Head(batch) \notin Elems(kept)
          /\ Elems(kept') \subseteq Elems(kept) \cup {Head(batch)} /\ Distinct(kept')
      <3>1. /\ Elems(batch) = Elems(batch') \cup {Head(batch)} /\ Distinct(batch')
            /\ Head(batch) \notin Elems(batch') /\ Head(batch) \notin Elems(kept)
        BY <1>0, <2>1, TakeFirst DEF Custody, Apart
      <3>2. Distinct(kept) BY DEF Custody
      <3>3. CASE kept' = kept BY <3>1, <3>2, <3>3
      <3>4. CASE kept' = Append(kept, Head(batch))
        <4>1. /\ Elems(Append(kept, Head(batch))) = Elems(kept) \cup {Head(batch)}
              /\ Distinct(Append(kept, Head(batch)))
          BY <1>0, <2>1, <3>1, <3>2, PutLast
        <4> QED BY <3>1, <3>4, <4>1
      <3> QED BY <2>1, <3>3, <3>4
    <2>3. Custody' BY <2>1, <2>2 DEF Custody, Apart
    <2>4. Known' BY <2>1, <2>2 DEF Known, Places
    <2> QED BY <2>3, <2>4
  <1>7. CASE BarrierDrain
    <2>1. /\ Head(items) \in Blocks /\ items' = Tail(items) /\ items # <<>>
          /\ kept' = kept \/ kept' = Append(kept, Head(items))
          /\ UNCHANGED <<rows, batch, tail, connected>>
      BY <1>0, <1>7, TakeFirst DEF BarrierDrain
    <2>2. /\ Elems(items) = Elems(items') \cup {Head(items)} /\ Distinct(items')
          /\ Head(items) \notin Elems(items') /\ Head(items) \notin Elems(kept)
          /\ Elems(kept') \subseteq Elems(kept) \cup {Head(items)} /\ Distinct(kept')
      <3>1. /\ Elems(items) = Elems(items') \cup {Head(items)} /\ Distinct(items')
            /\ Head(items) \notin Elems(items') /\ Head(items) \notin Elems(kept)
        BY <1>0, <2>1, TakeFirst DEF Custody, Apart
      <3>2. Distinct(kept) BY DEF Custody
      <3>3. CASE kept' = kept BY <3>1, <3>2, <3>3
      <3>4. CASE kept' = Append(kept, Head(items))
        <4>1. /\ Elems(Append(kept, Head(items))) = Elems(kept) \cup {Head(items)}
              /\ Distinct(Append(kept, Head(items)))
          BY <1>0, <2>1, <3>1, <3>2, PutLast
        <4> QED BY <3>1, <3>4, <4>1
      <3> QED BY <2>1, <3>3, <3>4
    <2>3. Custody' BY <2>1, <2>2 DEF Custody, Apart
    <2>4. Known' BY <2>1, <2>2 DEF Known, Places
    <2> QED BY <2>3, <2>4
  <1>8. CASE WriterFlush \/ WriterExit
    <2>1. /\ rows' \subseteq rows \cup Elems(batch) /\ batch' = <<>>
          /\ UNCHANGED <<kept, items, tail, connected>>
      BY <1>0, <1>8, FlushMoves DEF WriterFlush, WriterExit
    <2> QED BY <1>0, <2>1 DEF Custody, Apart, Known, Places
  <1>9. CASE BarrierFlush \/ BarrierAck
    <2>1. /\ rows' \subseteq rows \cup Elems(kept) /\ kept' = <<>>
          /\ UNCHANGED <<batch, items, tail, connected>>
      BY <1>0, <1>9, FlushMoves DEF BarrierFlush, BarrierAck
    <2> QED BY <1>0, <2>1 DEF Custody, Apart, Known, Places
  <1>10. CASE StopFlush
    <2>1. /\ rows' \subseteq rows \cup Elems(tail) /\ tail' = <<>>
          /\ UNCHANGED <<kept, batch, items, connected>>
      BY <1>0, <1>10, FlushMoves DEF StopFlush
    <2> QED BY <1>0, <2>1 DEF Custody, Apart, Known, Places
  <1> QED
    BY <1>1, <1>2, <1>3, <1>4, <1>5, <1>6, <1>7, <1>8, <1>9, <1>10
    DEF Next, HolderStep, BeginConnect, BeginTailFlush, BeginDisconnect, BeginLoopFlush,
        BeginShutdown, LoopExit, EnqueueCheck, EnqueueStopped, SyncSend, SyncReturn,
        FlushUpdate, UpdateError, WriterStep, BarrierDrained, WriterStop, StopStep, StopMark,
        StopClose, StopDrained, StopWait

LEMMA ErrorsGrow ==
    ASSUME TypeInv, Next, errors' = 0
    PROVE  errors = 0
  <1>0. errors \in Nat BY QueueAssumption DEF TypeInv, TypeOK, DiskType
  <1> QED
    BY <1>0
    DEF Next, HolderStep, BeginConnect, BeginTailFlush, BeginDisconnect, BeginLoopFlush,
        BeginShutdown, LoopExit, EnqueueCheck, EnqueueSend, EnqueueStopped, SyncSend,
        SyncReturn, FlushUpdate, DisconnectUpdate, UpdateError, WriterStep, WriterReceive,
        WriterFlush, BarrierFilter, BarrierFlush, BarrierDrain, BarrierDrained, BarrierAck,
        WriterStop, WriterExit, StopStep, StopMark, StopClose, StopDrain, StopDrained,
        StopFlush, StopWait, flushBatch, Fail

LEMMA LimitNext ==
    ASSUME TypeInv, TypeInv', Heights, Detaching, Served, Limit, Next
    PROVE  Limit'
  <1> USE DEF memVars, diskVars, wrVars, stopVars
  <1> SUFFICES ASSUME errors' = 0, Serving'
               PROVE  (below >= Len(chain) \/
                         (op.kind = "disconnect" /\ below = Len(chain) - 1))'
    BY DEF Limit
  <1>0. /\ op \in Controls /\ OpShape /\ chain \in Seq(Blocks) /\ errors = 0
        /\ Len(chain) \in Nat /\ below \in Nat /\ Len(chain) <= MaxBlocks
    <2>1. errors = 0 BY ErrorsGrow
    <2>2. op \in Controls /\ OpShape /\ chain \in Seq(Blocks)
          /\ Len(chain) <= connected /\ connected \in 0 .. MaxBlocks /\ below \in 0 .. NoLimit
      BY DEF TypeInv, TypeOK, MemType, QueueType
    <2> QED BY <2>1, <2>2, QueueAssumption DEF NoLimit
  <1>1. CASE SyncSend
    <2>1. op'.kind = op.kind /\ chain' = chain BY <1>0, <1>1, GotoType DEF SyncSend
    <2>2. CASE op.kind = "disconnect"
      <3>1. chain # <<>> /\ op.state = Parent BY <2>2 DEF Detaching
      <3>2. Parent.height = Len(chain) - 1 BY <1>0, <3>1 DEF Heights, Parent, Genesis
      <3>3. below' = op.state.height BY <1>1, <2>2 DEF SyncSend
      <3> QED BY <1>0, <2>1, <2>2, <3>1, <3>2, <3>3
    <2>3. CASE op.kind # "disconnect"
      <3>1. below' = MaxBlocks + 1 BY <1>1, <2>3 DEF SyncSend, NoLimit
      <3> QED BY <1>0, <2>1, <3>1, QueueAssumption
    <2> QED BY <2>2, <2>3
  <1>2. CASE ~SyncSend
    <2>1. Serving /\ below' = below
      BY <1>2 DEF Serving, Next, HolderStep, BeginConnect, BeginTailFlush, BeginDisconnect,
        BeginLoopFlush, BeginShutdown, LoopExit, EnqueueCheck, EnqueueSend, EnqueueStopped,
        SyncReturn, FlushUpdate, DisconnectUpdate, UpdateError, WriterStep, WriterReceive,
        WriterFlush, BarrierFilter, BarrierFlush, BarrierDrain, BarrierDrained, BarrierAck,
        WriterStop, WriterExit, StopStep, StopMark, StopClose, StopDrain, StopDrained,
        StopFlush, StopWait
    <2>2. below >= Len(chain) \/ (op.kind = "disconnect" /\ below = Len(chain) - 1)
      BY <1>0, <2>1 DEF Limit
    <2>3. \/ chain' = chain /\ (op.kind # "disconnect" \/ op'.kind = op.kind)
          \/ DisconnectUpdate
      <3>1. ~EnqueueSend BY <2>1 DEF Served, EnqueueSend
      <3>2. ASSUME NEW c \in Callers,
                   BeginConnect(c) \/ BeginTailFlush(c) \/ BeginDisconnect(c)
            PROVE  chain' = chain /\ op.kind # "disconnect"
        BY <3>2 DEF BeginConnect, BeginTailFlush, BeginDisconnect, Ready, Idle
      <3>3. ASSUME BeginLoopFlush \/ BeginShutdown
            PROVE  chain' = chain /\ op.kind # "disconnect"
        BY <3>3 DEF BeginLoopFlush, BeginShutdown, Ready, Idle
      <3>4. ASSUME EnqueueCheck \/ EnqueueStopped
            PROVE  chain' = chain /\ op.kind # "disconnect"
        BY <1>0, <3>4 DEF EnqueueCheck, EnqueueStopped, OpShape
      <3>5. ASSUME SyncReturn PROVE chain' = chain /\ op'.kind = op.kind
        BY <1>0, <3>5, GotoType DEF SyncReturn
      <3>6. ASSUME FlushUpdate PROVE chain' = chain /\ op.kind # "disconnect"
        BY <3>6 DEF FlushUpdate
      <3>7. ~UpdateError BY <1>0 DEF UpdateError
      <3> QED
        BY <1>2, <3>1, <3>2, <3>3, <3>4, <3>5, <3>6, <3>7
        DEF Next, HolderStep, LoopExit, WriterStep, WriterReceive,
          WriterFlush, BarrierFilter, BarrierFlush, BarrierDrain, BarrierDrained, BarrierAck,
          WriterStop, WriterExit, StopStep, StopMark, StopClose, StopDrain, StopDrained,
          StopFlush, StopWait
    <2>4. CASE DisconnectUpdate
      <3>1. chain # <<>> /\ chain' = Detach BY <2>4 DEF DisconnectUpdate, Detaching
      <3>2. Len(chain') = Len(chain) - 1 BY <1>0, <3>1, DetachFacts
      <3> QED BY <1>0, <2>1, <2>2, <3>2
    <2> QED BY <1>0, <2>1, <2>2, <2>3, <2>4
  <1> QED BY <1>1, <1>2

LEMMA HeldNext ==
    ASSUME TypeInv, Heights, Detaching, Limit, Held, Next
    PROVE  Held'
  <1> USE DEF memVars, diskVars, wrVars, stopVars
  <1> DEFINE Safe(i) == chain[i] \in Places \/ (i = Len(chain) /\ op.kind = "disconnect")
  <1> SUFFICES ASSUME errors' = 0, NEW n \in 1 .. Len(chain') PROVE Safe(n)'
    BY DEF Held
  <1>0. /\ op \in Controls /\ OpShape /\ chain \in Seq(Blocks) /\ Len(chain) \in Nat
        /\ errors = 0 /\ errors \in Nat
        /\ kept \in Seq(Blocks) /\ batch \in Seq(Blocks) /\ items \in Seq(Blocks)
        /\ tail \in Seq(Blocks) /\ below \in Int /\ Elems(<<>>) = {}
    <2>1. errors = 0 BY ErrorsGrow
    <2> QED BY <2>1, QueueAssumption
            DEF TypeInv, TypeOK, MemType, QueueType, NoLimit, Elems
  <1>h. \A i \in 1 .. Len(chain) : Safe(i) BY <1>0 DEF Held
  <1> HIDE DEF Safe
  <1>1. ASSUME chain' = chain, Places \subseteq Places',
               op.kind # "disconnect" \/ op'.kind = op.kind
        PROVE  Safe(n)'
    BY <1>h, <1>1 DEF Safe
  <1>2. ASSUME NEW c \in Callers,
               BeginConnect(c) \/ BeginTailFlush(c) \/ BeginDisconnect(c)
        PROVE  Safe(n)'
    BY <1>1, <1>2 DEF BeginConnect, BeginTailFlush, BeginDisconnect, Ready, Idle, Places
  <1>3. CASE BeginLoopFlush \/ BeginShutdown
    BY <1>1, <1>3 DEF BeginLoopFlush, BeginShutdown, Ready, Idle, Places
  <1>4. CASE EnqueueCheck \/ EnqueueStopped
    BY <1>0, <1>1, <1>4 DEF EnqueueCheck, EnqueueStopped, OpShape, Places
  <1>5. CASE EnqueueSend
    <2>1. op.state \in Blocks /\ op.kind = "connect"
      BY <1>0, <1>5 DEF EnqueueSend, Controls, OpShape
    <2>2. /\ Len(chain') = Len(chain) + 1 /\ chain'[Len(chain) + 1] = op.state
          /\ \A i \in 1 .. Len(chain) : chain'[i] = chain[i]
          /\ Elems(items') = Elems(items) \cup {op.state}
          /\ UNCHANGED <<rows, kept, batch, tail>>
      BY <1>0, <1>5, <2>1, SeqFacts, PutLast DEF EnqueueSend
    <2>3. n \in 1 .. Len(chain) \/ n = Len(chain) + 1 BY <1>0, <2>2
    <2> QED BY <1>h, <2>1, <2>2, <2>3 DEF Safe, Places
  <1>6. CASE SyncSend \/ SyncReturn
    BY <1>0, <1>1, <1>6, GotoType DEF SyncSend, SyncReturn, Places
  <1>7. CASE FlushUpdate BY <1>1, <1>7 DEF FlushUpdate, Places
  <1>8. CASE UpdateError BY <1>0, <1>8 DEF UpdateError
  <1>9. CASE DisconnectUpdate
    <2>1. chain # <<>> /\ chain' = Detach /\ rows' = rows \ {Tip}
          /\ UNCHANGED <<kept, batch, items, tail>>
      BY <1>9 DEF DisconnectUpdate, Detaching
    <2>2. /\ Len(chain') = Len(chain) - 1
          /\ \A i \in 1 .. Len(chain) - 1 : chain'[i] = chain[i]
      BY <1>0, <2>1, DetachFacts
    <2>3. n \in 1 .. Len(chain) /\ n # Len(chain) /\ chain'[n] = chain[n] BY <1>0, <2>2
    <2>4. Tip = chain[Len(chain)] /\ Len(chain) \in 1 .. Len(chain)
      BY <1>0, <2>1 DEF Tip
    <2>5. chain[n] # Tip BY <2>3, <2>4 DEF Heights
    <2>6. chain[n] \in Places BY <1>h, <2>3 DEF Safe
    <2> QED BY <2>1, <2>3, <2>5, <2>6 DEF Safe, Places
  <1>10. CASE WriterReceive
    <2>1. /\ Elems(items) = Elems(items') \cup {Head(items)} /\ Head(items) \in Blocks
      BY <1>0, <1>10, TakeFirst DEF WriterReceive
    <2>2. Elems(batch') = Elems(batch) \cup {Head(items)}
      BY <1>0, <1>10, <2>1, PutLast DEF WriterReceive
    <2> QED BY <1>1, <1>10, <2>1, <2>2 DEF WriterReceive, Places
  <1>11. CASE StopDrain
    <2>1. /\ Elems(items) = Elems(items') \cup {Head(items)} /\ Head(items) \in Blocks
      BY <1>0, <1>11, TakeFirst DEF StopDrain
    <2>2. Elems(tail') = Elems(tail) \cup {Head(items)}
      BY <1>0, <1>11, <2>1, PutLast DEF StopDrain
    <2> QED BY <1>1, <1>11, <2>1, <2>2 DEF StopDrain, Places
  <1>12. ASSUME NEW h \in Blocks, chain' = chain, op' = op, Serving,
                Places \ {h} \subseteq Places', Keeps(h) => h \in Places'
         PROVE  Safe(n)'
    <2>1. CASE h \in Places'
      <3>1. Places \subseteq Places' BY <1>12, <2>1
      <3> QED BY <1>1, <1>12, <3>1
    <2>2. CASE h \notin Places'
      <3>1. ~(h.height <= below) BY <1>12, <2>2 DEF Keeps
      <3>2. CASE chain[n] = h
        <4>1. h.height = n /\ n \in 1 .. Len(chain) BY <1>12, <3>2 DEF Heights
        <4>2. n = Len(chain) /\ op.kind = "disconnect"
          BY <1>0, <1>12, <3>1, <4>1 DEF Limit
        <4> QED BY <1>12, <4>2 DEF Safe
      <3>3. CASE chain[n] # h BY <1>h, <1>12, <3>3 DEF Safe
      <3> QED BY <3>2, <3>3
    <2> QED BY <2>1, <2>2
  <1>13. CASE BarrierFilter
    <2>1. /\ Elems(batch) = Elems(batch') \cup {Head(batch)} /\ Head(batch) \in Blocks
      BY <1>0, <1>13, TakeFirst DEF BarrierFilter
    <2>2. Keeps(Head(batch)) => Elems(kept') = Elems(kept) \cup {Head(batch)}
      BY <1>0, <1>13, <2>1, PutLast DEF BarrierFilter
    <2>3. ~Keeps(Head(batch)) => kept' = kept BY <1>13 DEF BarrierFilter
    <2>4. /\ Serving /\ UNCHANGED <<chain, op, rows, items, tail>>
      BY <1>13 DEF BarrierFilter, Serving
    <2> QED BY <1>12, <2>1, <2>2, <2>3, <2>4 DEF Places
  <1>14. CASE BarrierDrain
    <2>1. /\ Elems(items) = Elems(items') \cup {Head(items)} /\ Head(items) \in Blocks
      BY <1>0, <1>14, TakeFirst DEF BarrierDrain
    <2>2. Keeps(Head(items)) => Elems(kept') = Elems(kept) \cup {Head(items)}
      BY <1>0, <1>14, <2>1, PutLast DEF BarrierDrain
    <2>3. ~Keeps(Head(items)) => kept' = kept BY <1>14 DEF BarrierDrain
    <2>4. /\ Serving /\ UNCHANGED <<chain, op, rows, batch, tail>>
      BY <1>14 DEF BarrierDrain, Serving
    <2> QED BY <1>12, <2>1, <2>2, <2>3, <2>4 DEF Places
  <1>15. CASE WriterFlush \/ WriterExit
    <2>1. rows' = rows \cup Elems(batch) /\ UNCHANGED <<chain, op, kept, items, tail>>
          /\ batch' = <<>>
      BY <1>0, <1>15, FlushMoves DEF WriterFlush, WriterExit
    <2> QED BY <1>1, <2>1 DEF Places
  <1>16. CASE BarrierFlush \/ BarrierAck
    <2>1. rows' = rows \cup Elems(kept) /\ UNCHANGED <<chain, op, batch, items, tail>>
          /\ kept' = <<>>
      BY <1>0, <1>16, FlushMoves DEF BarrierFlush, BarrierAck
    <2> QED BY <1>1, <2>1 DEF Places
  <1>17. CASE StopFlush
    <2>1. rows' = rows \cup Elems(tail) /\ UNCHANGED <<chain, op, kept, batch, items>>
          /\ tail' = <<>>
      BY <1>0, <1>17, FlushMoves DEF StopFlush
    <2> QED BY <1>1, <2>1 DEF Places
  <1>18. CASE LoopExit \/ BarrierDrained \/ WriterStop \/ StopMark \/ StopClose
              \/ StopDrained \/ StopWait
    BY <1>1, <1>18 DEF LoopExit, BarrierDrained, WriterStop, StopMark, StopClose,
       StopDrained, StopWait, Places
  <1> QED
    BY <1>2, <1>3, <1>4, <1>5, <1>6, <1>7, <1>8, <1>9, <1>10, <1>11, <1>13, <1>14, <1>15,
       <1>16, <1>17, <1>18
    DEF Next, HolderStep, WriterStep, StopStep

\* The same for the order of heights.
LEMMA PutHighest ==
    ASSUME NEW s \in Seq(Blocks), NEW b \in Blocks, Rising(s), Below(Elems(s), {b})
    PROVE  Rising(Append(s, b))
  <1>1. /\ Len(s) \in Nat /\ Len(Append(s, b)) = Len(s) + 1
        /\ \A i \in 1 .. Len(s) : Append(s, b)[i] = s[i]
        /\ Append(s, b)[Len(s) + 1] = b
    BY SeqFacts
  <1>2. \A i \in 1 .. Len(s) : s[i] \in Elems(s) BY ElemsFacts
  <1> SUFFICES ASSUME NEW i \in 1 .. Len(s) + 1, NEW j \in 1 .. Len(s) + 1, i < j
               PROVE  Append(s, b)[i].height < Append(s, b)[j].height
    BY <1>1 DEF Rising
  <1>3. i \in 1 .. Len(s) BY <1>1
  <1>4. CASE j \in 1 .. Len(s) BY <1>1, <1>3, <1>4 DEF Rising
  <1>5. CASE j = Len(s) + 1 BY <1>1, <1>2, <1>3, <1>5 DEF Below
  <1> QED BY <1>1, <1>4, <1>5

LEMMA TakeLowest ==
    ASSUME NEW s \in Seq(Blocks), s # <<>>, Rising(s)
    PROVE  Rising(Tail(s)) /\ Below({Head(s)}, Elems(Tail(s)))
  <1>1. /\ Len(s) \in Nat /\ Len(s) > 0 /\ Head(s) = s[1]
        /\ Tail(s) \in Seq(Blocks) /\ Len(Tail(s)) = Len(s) - 1
        /\ \A i \in 1 .. Len(s) - 1 : Tail(s)[i] = s[i + 1]
    BY SeqFacts
  <1>2. Elems(Tail(s)) = {Tail(s)[i] : i \in 1 .. Len(s) - 1} BY <1>1, ElemsFacts
  <1>3. \A i \in 1 .. Len(s) - 1 : i + 1 \in 1 .. Len(s) /\ 1 < i + 1 /\ 1 \in 1 .. Len(s)
    BY <1>1
  <1>4. \A i, j \in 1 .. Len(s) - 1 : i < j => i + 1 < j + 1 BY <1>1
  <1>5. Rising(Tail(s)) BY <1>1, <1>3, <1>4 DEF Rising
  <1>6. Below({Head(s)}, Elems(Tail(s))) BY <1>1, <1>2, <1>3 DEF Rising, Below
  <1> QED BY <1>5, <1>6

\* A transaction leaves the best state where it was, or at the last block of
\* the batch, which is its highest.
LEMMA FlushBest ==
    ASSUME NEW b \in Seq(Blocks), flushBatch(b)
    PROVE  \/ best' = best
           \/ best' \in Elems(b)
  <1>1. CASE b = <<>> BY <1>1 DEF flushBatch, Commit, Fail, diskVars
  <1>2. CASE b # <<>>
    <2>1. Len(b) \in 1 .. Len(b) BY <1>2, SeqFacts
    <2>2. b[Len(b)] \in Elems(b) BY <2>1, ElemsFacts
    <2> QED BY <1>2, <2>2 DEF flushBatch, Commit, Fail, diskVars
  <1> QED BY <1>1, <1>2

\* Blocks of the chain are no higher than its tip.
LEMMA ChainHeights ==
    ASSUME TypeInv, Heights
    PROVE  \A x \in Elems(chain) : x \in Blocks /\ x.height \in 1 .. Len(chain)
  <1>1. chain \in Seq(Blocks) BY DEF TypeInv, TypeOK, MemType
  <1> QED BY <1>1, ElemsFacts DEF Heights

LEMMA OrderNext ==
    ASSUME TypeInv, StopShape, Stopping, Served, Heights, Detaching, Order, Next
    PROVE  Order'
  <1> USE DEF memVars, diskVars, wrVars, stopVars
  <1> SUFFICES ASSUME ~closed' PROVE Ordered'
    BY DEF Order, Ordered
  <1>c. ~closed
    BY DEF Next, HolderStep, BeginConnect, BeginTailFlush, BeginDisconnect, BeginLoopFlush,
        BeginShutdown, LoopExit, EnqueueCheck, EnqueueSend, EnqueueStopped, SyncSend,
        SyncReturn, FlushUpdate, DisconnectUpdate, UpdateError, WriterStep, WriterReceive,
        WriterFlush, BarrierFilter, BarrierFlush, BarrierDrain, BarrierDrained, BarrierAck,
        WriterStop, WriterExit, StopStep, StopMark, StopClose, StopDrain, StopDrained,
        StopFlush, StopWait
  <1>0. /\ op \in Controls /\ OpShape /\ chain \in Seq(Blocks) /\ Len(chain) \in Nat
        /\ kept \in Seq(Blocks) /\ batch \in Seq(Blocks) /\ items \in Seq(Blocks)
        /\ errors \in Nat /\ tail = <<>> /\ Elems(<<>>) = {} /\ Rising(<<>>)
        /\ best \in Blocks /\ Ordered
    BY <1>c, QueueAssumption
    DEF TypeInv, TypeOK, MemType, QueueType, DiskType, Elems, Rising, Stopping, Order, Ordered
  <1>t. kept \in Seq(Blocks) /\ batch \in Seq(Blocks) /\ items \in Seq(Blocks) BY <1>0
  <1>r. Rising(kept) /\ Rising(batch) /\ Rising(items) BY <1>0 DEF Ordered
  <1>h. \A x \in Elems(chain) : x \in Blocks /\ x.height \in 1 .. Len(chain)
    BY ChainHeights
  <1>1. CASE UNCHANGED <<chain, rows, best, kept, batch, items, tail>>
    BY <1>0, <1>1 DEF Ordered, Places
  <1>2. CASE EnqueueSend
    <2>1. op.state \in Blocks /\ op.state.height = Len(chain) + 1
      BY <1>0, <1>2 DEF EnqueueSend, Controls, OpShape
    <2>2. /\ Elems(items') = Elems(items) \cup {op.state}
          /\ Elems(chain') = Elems(chain) \cup {op.state}
          /\ Len(chain') = Len(chain) + 1
          /\ UNCHANGED <<rows, best, kept, batch, tail>>
      BY <1>0, <1>2, <2>1, SeqFacts, PutLast DEF EnqueueSend
    <2>3. \A x \in Elems(chain) : x.height < op.state.height BY <1>0, <1>h, <2>1
    <2>4. /\ Below(Elems(kept), {op.state}) /\ Below(Elems(batch), {op.state})
          /\ Below(Elems(items), {op.state})
      BY <1>0, <2>3 DEF Ordered, Places, Below
    <2>5. Rising(items')
      BY <1>0, <1>2, <2>1, <2>4, PutHighest DEF EnqueueSend, Ordered
    <2>6. best.height \in Nat /\ best.height < op.state.height /\ best.height <= Len(chain')
      BY <1>0, <2>1, <2>2, QueueAssumption DEF Ordered, Blocks
    <2> QED BY <1>0, <2>2, <2>4, <2>5, <2>6 DEF Ordered, Places, Below
  <1>3. CASE DisconnectUpdate
    <2>1. /\ chain # <<>> /\ chain' = Detach /\ rows' = rows \ {Tip} /\ best' = Parent
          /\ UNCHANGED <<kept, batch, items, tail>>
          /\ kept = <<>> /\ batch = <<>> /\ items = <<>>
      BY <1>c, <1>3 DEF DisconnectUpdate, Detaching, Served, Serving
    <2>2. /\ Len(chain') = Len(chain) - 1
          /\ \A i \in 1 .. Len(chain) - 1 : chain'[i] = chain[i]
      BY <1>0, <2>1, DetachFacts
    <2>3. Parent.height = Len(chain) - 1 BY <1>0, <2>1 DEF Heights, Parent, Genesis
    <2>4. ASSUME NEW x \in rows, x # Tip PROVE x \in Elems(chain')
      <3>1. x \in Elems(chain) BY <1>0 DEF Ordered, Places
      <3>2. PICK i \in 1 .. Len(chain) : x = chain[i] BY <1>0, <3>1, ElemsFacts
      <3>3. i # Len(chain) BY <2>1, <2>4, <3>2 DEF Tip
      <3>4. i \in 1 .. Len(chain') /\ x = chain'[i] BY <1>0, <2>2, <3>2, <3>3
      <3>5. i \in DOMAIN chain' BY <1>0, <2>1, <2>2, <3>4 DEF Detach
      <3> QED BY <3>4, <3>5 DEF Elems
    <2>5. Places' \subseteq Elems(chain') BY <1>0, <2>1, <2>4 DEF Places
    <2> QED BY <1>0, <2>1, <2>2, <2>3, <2>5 DEF Ordered, Below
  <1>4. CASE WriterReceive
    <2>1. items # <<>> /\ items' = Tail(items) /\ batch' = Append(batch, Head(items))
          /\ UNCHANGED <<chain, rows, best, kept, tail>>
      BY <1>4 DEF WriterReceive
    <2>2. /\ Elems(items) = Elems(items') \cup {Head(items)} /\ Head(items) \in Blocks
          /\ Rising(items') /\ Below({Head(items)}, Elems(items'))
      BY <1>t, <1>r, <2>1, TakeFirst, TakeLowest
    <2>3. Below(Elems(batch), {Head(items)}) BY <1>0, <2>2 DEF Ordered, Below
    <2>4. Elems(batch') = Elems(batch) \cup {Head(items)} /\ Rising(batch')
      BY SMTT(30), <1>t, <1>r, <2>1, <2>2, <2>3, PutLast, PutHighest
    <2> QED BY <1>0, <2>1, <2>2, <2>3, <2>4 DEF Ordered, Places, Below
  <1>5. CASE BarrierFilter
    <2>1. /\ batch # <<>> /\ batch' = Tail(batch)
          /\ UNCHANGED <<chain, rows, best, items, tail>>
          /\ kept' = kept \/ kept' = Append(kept, Head(batch))
      BY <1>5 DEF BarrierFilter
    <2>2. /\ Elems(batch) = Elems(batch') \cup {Head(batch)} /\ Head(batch) \in Blocks
          /\ Rising(batch') /\ Below({Head(batch)}, Elems(batch'))
      BY <1>t, <1>r, <2>1, TakeFirst, TakeLowest
    <2>3. Below(Elems(kept), {Head(batch)}) BY <1>0, <2>2 DEF Ordered, Below
    <2>4. CASE kept' = kept BY <1>0, <2>1, <2>2, <2>4 DEF Ordered, Places, Below
    <2>5. CASE kept' = Append(kept, Head(batch))
      <3>1. Elems(kept') = Elems(kept) \cup {Head(batch)} /\ Rising(kept')
        <4>1. Elems(Append(kept, Head(batch))) = Elems(kept) \cup {Head(batch)}
          BY <1>t, <2>2, PutLast
        <4>2. Rising(Append(kept, Head(batch)))
          BY <1>t, <1>r, <2>2, <2>3, PutHighest
        <4> QED BY <2>5, <4>1, <4>2
      <3>2. Places' = Places BY <2>1, <2>2, <3>1 DEF Places
      <3>3. Below(Elems(kept), Elems(batch))' /\ Below(Elems(kept), Elems(items))'
            /\ Below(Elems(batch), Elems(items))'
        BY <1>0, <2>1, <2>2, <2>3, <3>1 DEF Ordered, Below
      <3>4. Below({best}, Elems(kept))' /\ Below({best}, Elems(batch))'
            /\ Below({best}, Elems(items))'
        BY <1>0, <2>1, <2>2, <3>1 DEF Ordered, Below
      <3> QED BY <1>0, <1>r, <2>1, <2>2, <3>1, <3>2, <3>3, <3>4 DEF Ordered
    <2> QED BY <2>1, <2>4, <2>5
  <1>6. CASE BarrierDrain
    <2>1. /\ items # <<>> /\ items' = Tail(items) /\ batch = <<>>
          /\ UNCHANGED <<chain, rows, best, batch, tail>>
          /\ kept' = kept \/ kept' = Append(kept, Head(items))
      BY <1>6 DEF BarrierDrain, Served
    <2>2. /\ Elems(items) = Elems(items') \cup {Head(items)} /\ Head(items) \in Blocks
          /\ Rising(items') /\ Below({Head(items)}, Elems(items'))
      BY <1>t, <1>r, <2>1, TakeFirst, TakeLowest
    <2>3. Below(Elems(kept), {Head(items)}) BY <1>0, <2>2 DEF Ordered, Below
    <2>4. CASE kept' = kept BY <1>0, <2>1, <2>2, <2>4 DEF Ordered, Places, Below
    <2>5. CASE kept' = Append(kept, Head(items))
      <3>1. Elems(kept') = Elems(kept) \cup {Head(items)} /\ Rising(kept')
        <4>1. Elems(Append(kept, Head(items))) = Elems(kept) \cup {Head(items)}
          BY <1>t, <2>2, PutLast
        <4>2. Rising(Append(kept, Head(items)))
          BY <1>t, <1>r, <2>2, <2>3, PutHighest
        <4> QED BY <2>5, <4>1, <4>2
      <3>2. Places' = Places BY <2>1, <2>2, <3>1 DEF Places
      <3>3. Below(Elems(kept), Elems(batch))' /\ Below(Elems(kept), Elems(items))'
            /\ Below(Elems(batch), Elems(items))'
        BY <1>0, <2>1, <2>2, <2>3, <3>1 DEF Ordered, Below
      <3>4. Below({best}, Elems(kept))' /\ Below({best}, Elems(batch))'
            /\ Below({best}, Elems(items))'
        BY <1>0, <2>1, <2>2, <3>1 DEF Ordered, Below
      <3> QED BY <1>0, <1>r, <2>1, <2>2, <3>1, <3>2, <3>3, <3>4 DEF Ordered
    <2> QED BY <2>1, <2>4, <2>5
  <1>7. CASE WriterFlush
    <2>1. /\ flushBatch(batch) /\ batch' = <<>> /\ kept = <<>>
          /\ UNCHANGED <<chain, kept, items, tail>>
      BY <1>7 DEF WriterFlush, Served, Serving
    <2>2. /\ rows' \subseteq rows \cup Elems(batch)
          /\ best' = best \/ best' \in Elems(batch)
      BY <1>0, <2>1, FlushMoves, FlushBest
    <2>3. best'.height <= Len(chain) BY <1>0, <1>h, <2>2 DEF Ordered, Places
    <2> QED BY <1>0, <2>1, <2>2, <2>3 DEF Ordered, Places, Below
  <1>8. CASE BarrierFlush \/ BarrierAck
    <2>1. /\ flushBatch(kept) /\ kept' = <<>> /\ batch = <<>>
          /\ UNCHANGED <<chain, batch, items, tail>>
      BY <1>8 DEF BarrierFlush, BarrierAck, Served
    <2>2. /\ rows' \subseteq rows \cup Elems(kept)
          /\ best' = best \/ best' \in Elems(kept)
      BY <1>0, <2>1, FlushMoves, FlushBest
    <2>3. best'.height <= Len(chain) BY <1>0, <1>h, <2>2 DEF Ordered, Places
    <2> QED BY <1>0, <2>1, <2>2, <2>3 DEF Ordered, Places, Below
  <1>9. CASE WriterExit \/ StopDrain \/ StopFlush
    BY <1>c, <1>9 DEF WriterExit, StopDrain, StopFlush, StopShape
  <1> QED
    BY <1>1, <1>2, <1>3, <1>4, <1>5, <1>6, <1>7, <1>8, <1>9
    DEF Next, HolderStep, BeginConnect, BeginTailFlush, BeginDisconnect, BeginLoopFlush,
        BeginShutdown, LoopExit, EnqueueCheck, EnqueueStopped, SyncSend, SyncReturn,
        FlushUpdate, UpdateError, WriterStep, BarrierDrained, WriterStop, StopStep, StopMark,
        StopClose, StopDrained, StopWait

LEMMA FlowNext == Flow /\ [Next]_vars => Flow'
  <1> SUFFICES ASSUME Flow, [Next]_vars PROVE Flow' OBVIOUS
  <1>1. TypeInv' /\ StopShape' BY TypeNext, StopShapeNext DEF Flow
  <1>2. CASE Next
    BY <1>1, <1>2, HeldUpNext, ChainNext, CustodyNext, LimitNext, HeldNext, OrderNext DEF Flow
  <1>3. CASE UNCHANGED vars
    BY <1>1, <1>3
    DEF vars, memVars, diskVars, wrVars, stopVars, Flow, Stopping, Served, Serving, Heights,
        Detaching, Parent, Custody, Known, Limit, Held, Order, Ordered, Places
  <1> QED BY <1>2, <1>3

LEMMA FlowAlways == Spec => []Flow
  BY FlowInit, FlowNext, PTL DEF Spec

\* Two sequences of distinct elements, one behind the other.
LEMMA JoinDistinct ==
    ASSUME NEW S, NEW s \in Seq(S), NEW t \in Seq(S)
    PROVE  /\ s \o t \in Seq(S) /\ Elems(s \o t) = Elems(s) \cup Elems(t)
           /\ Distinct(s) /\ Distinct(t) /\ Apart(Elems(s), Elems(t)) => Distinct(s \o t)
  <1>1. /\ s \o t \in Seq(S) /\ Len(s) \in Nat /\ Len(t) \in Nat
        /\ Len(s \o t) = Len(s) + Len(t)
        /\ \A i \in 1 .. Len(s) + Len(t) :
              (s \o t)[i] = IF i <= Len(s) THEN s[i] ELSE t[i - Len(s)]
    BY ConcatProperties
  <1>2. /\ Elems(s) = {s[i] : i \in 1 .. Len(s)} /\ Elems(t) = {t[i] : i \in 1 .. Len(t)}
        /\ Elems(s \o t) = {(s \o t)[i] : i \in 1 .. Len(s) + Len(t)}
    BY <1>1, ElemsFacts
  <1>3. \A i \in 1 .. Len(s) + Len(t) :
            \/ i \in 1 .. Len(s) /\ (s \o t)[i] = s[i]
            \/ ~(i <= Len(s)) /\ i - Len(s) \in 1 .. Len(t) /\ (s \o t)[i] = t[i - Len(s)]
    BY <1>1
  <1>4. \A i \in 1 .. Len(s) : i \in 1 .. Len(s) + Len(t) /\ (s \o t)[i] = s[i] BY <1>1
  <1>5. \A i \in 1 .. Len(t) :
            i + Len(s) \in 1 .. Len(s) + Len(t) /\ (s \o t)[i + Len(s)] = t[i]
    <2> SUFFICES ASSUME NEW i \in 1 .. Len(t)
        PROVE i + Len(s) \in 1 .. Len(s) + Len(t) /\ (s \o t)[i + Len(s)] = t[i] OBVIOUS
    <2>1. /\ i + Len(s) \in 1 .. Len(s) + Len(t) /\ ~(i + Len(s) <= Len(s))
          /\ (i + Len(s)) - Len(s) = i
      BY <1>1
    <2> QED BY <1>1, <2>1
  <1>6. Elems(s \o t) \subseteq Elems(s) \cup Elems(t) BY <1>2, <1>3
  <1>7. Elems(s) \subseteq Elems(s \o t) BY <1>2, <1>4
  <1>8. Elems(t) \subseteq Elems(s \o t) BY <1>2, <1>5
  <1>9. ASSUME Distinct(s), Distinct(t), Apart(Elems(s), Elems(t)),
               NEW i \in 1 .. Len(s) + Len(t), NEW j \in 1 .. Len(s) + Len(t), i # j
        PROVE (s \o t)[i] # (s \o t)[j]
    <2>0. \A x \in Elems(s), y \in Elems(t) : x # y BY <1>9 DEF Apart
    <2>1. CASE i \in 1 .. Len(s) /\ (s \o t)[i] = s[i]
      <3>1. CASE j \in 1 .. Len(s) /\ (s \o t)[j] = s[j] BY <1>9, <2>1, <3>1 DEF Distinct
      <3>2. CASE j - Len(s) \in 1 .. Len(t) /\ (s \o t)[j] = t[j - Len(s)]
        BY <1>2, <2>0, <2>1, <3>2
      <3> QED BY <1>3, <3>1, <3>2
    <2>2. CASE i - Len(s) \in 1 .. Len(t) /\ (s \o t)[i] = t[i - Len(s)]
      <3>1. CASE j \in 1 .. Len(s) /\ (s \o t)[j] = s[j] BY <1>2, <2>0, <2>2, <3>1
      <3>2. CASE j - Len(s) \in 1 .. Len(t) /\ (s \o t)[j] = t[j - Len(s)]
        <4>1. i - Len(s) # j - Len(s) BY <1>1, <1>9
        <4> QED BY <1>9, <2>2, <3>2, <4>1 DEF Distinct
      <3> QED BY <1>3, <3>1, <3>2
    <2> QED BY <1>3, <2>1, <2>2
  <1> QED BY <1>1, <1>6, <1>7, <1>8, <1>9 DEF Distinct

\* The queue seen from outside: what is located anywhere, without duplicates.
LEMMA PlacesFacts ==
    ASSUME Flow
    PROVE  Located = Places /\ AtMostOnce
  <1>1. /\ kept \in Seq(Blocks) /\ batch \in Seq(Blocks) /\ items \in Seq(Blocks)
        /\ tail \in Seq(Blocks)
    BY DEF Flow, TypeInv, TypeOK, QueueType
  <1>c. Custody BY DEF Flow
  <1>2. /\ kept \o batch \in Seq(Blocks)
        /\ Elems(kept \o batch) = Elems(kept) \cup Elems(batch)
        /\ Distinct(kept \o batch)
    BY <1>1, <1>c, JoinDistinct DEF Custody
  <1>3. Apart(Elems(kept \o batch), Elems(items)) BY <1>c, <1>2 DEF Custody, Apart
  <1>4. /\ Pending \in Seq(Blocks)
        /\ Elems(Pending) = Elems(kept) \cup Elems(batch) \cup Elems(items)
        /\ Distinct(Pending)
    <2>1. items \in Seq(Blocks) /\ Distinct(items) BY <1>1, <1>c DEF Custody
    <2>2. PICK p : p = kept \o batch OBVIOUS
    <2>3. p \in Seq(Blocks) /\ Distinct(p) /\ Apart(Elems(p), Elems(items))
      BY <1>2, <1>3, <2>2
    <2>4. /\ p \o items \in Seq(Blocks) /\ Elems(p \o items) = Elems(p) \cup Elems(items)
          /\ Distinct(p \o items)
      BY <2>1, <2>3, JoinDistinct
    <2> QED BY <1>2, <2>2, <2>4 DEF Pending
  <1>5. Apart(Elems(Pending), Elems(tail)) BY <1>c, <1>4 DEF Custody, Apart
  <1>6. PICK q : q = Pending \o tail OBVIOUS
  <1>7. /\ q \in Seq(Blocks) /\ Elems(q) = Elems(Pending) \cup Elems(tail) /\ Distinct(q)
    <2>1. tail \in Seq(Blocks) /\ Distinct(tail) BY <1>1, <1>c DEF Custody
    <2>2. PICK p : p = Pending OBVIOUS
    <2>3. p \in Seq(Blocks) /\ Distinct(p) /\ Apart(Elems(p), Elems(tail))
      BY <1>4, <1>5, <2>2
    <2>4. /\ p \o tail \in Seq(Blocks) /\ Elems(p \o tail) = Elems(p) \cup Elems(tail)
          /\ Distinct(p \o tail)
      BY <2>1, <2>3, JoinDistinct
    <2> QED BY <1>6, <2>2, <2>4
  <1>8. DOMAIN q = 1 .. Len(q) BY <1>7
  <1>9. Elems(q) \cap rows = {} BY <1>c, <1>4, <1>7 DEF Custody, Apart
  <1>10. AtMostOnce BY <1>6, <1>7, <1>8, <1>9 DEF AtMostOnce, Distinct
  <1> QED BY <1>4, <1>10 DEF Located, Places

\* Every connected block is in exactly one place: on disk, or in one slice or
\* channel on its way there, however enqueue, writer's barriers, failing
\* transactions and stop() interleave.
THEOREM ExactlyOnceAlways == Spec => []ExactlyOnce
  <1>1. Flow => ExactlyOnce
    BY PlacesFacts DEF Flow, ExactlyOnce, NothingForgotten, Held
  <1> QED BY <1>1, FlowAlways, PTL

\* A detached block is neither on disk nor on its way there until stop() closes
\* stopCh, also when transactions of flushBatch fail.
THEOREM NoResurrectionAlways == Spec => []NoResurrectionBeforeStop
  <1>1. Flow => NoResurrectionBeforeStop
    BY PlacesFacts DEF Flow, NoResurrectionBeforeStop, Order, Ordered
  <1> QED BY <1>1, FlowAlways, PTL

\* Which step of DurableChain a step of the queue is, until stopCh is closed.
LEMMA DurableStep ==
    ASSUME Flow, Next, ~closed'
    PROVE  Durable!Next \/ UNCHANGED <<chain, best.height>>
  <1> USE DEF memVars, diskVars, wrVars, stopVars
  <1>0. ~closed
    BY DEF Next, HolderStep, BeginConnect, BeginTailFlush, BeginDisconnect, BeginLoopFlush,
        BeginShutdown, LoopExit, EnqueueCheck, EnqueueSend, EnqueueStopped, SyncSend,
        SyncReturn, FlushUpdate, DisconnectUpdate, UpdateError, WriterStep, WriterReceive,
        WriterFlush, BarrierFilter, BarrierFlush, BarrierDrain, BarrierDrained, BarrierAck,
        WriterStop, WriterExit, StopStep, StopMark, StopClose, StopDrain, StopDrained,
        StopFlush, StopWait
  <1>1. /\ kept \in Seq(Blocks) /\ batch \in Seq(Blocks) /\ chain \in Seq(Blocks)
        /\ best \in Blocks /\ op \in Controls /\ OpShape /\ Heights /\ Detaching
        /\ errors \in Nat
    BY QueueAssumption DEF Flow, TypeInv, TypeOK, QueueType, MemType, DiskType
  <1>2. Ordered BY <1>0 DEF Flow, Order, Ordered
  <1>3. CASE EnqueueSend
    <2>1. op.state \in Blocks BY <1>1 DEF Controls
    <2>2. Durable!Connect BY <1>3, <2>1 DEF EnqueueSend, Durable!Connect
    <2> QED BY <2>2 DEF Durable!Next
  <1>4. CASE DisconnectUpdate
    <2>1. chain # <<>> /\ chain' = Detach /\ best' = Parent
      BY <1>1, <1>4 DEF DisconnectUpdate, Detaching
    <2>2. Parent.height = Len(chain) - 1 BY <1>1, <2>1 DEF Heights, Parent, Genesis
    <2>3. Durable!Disconnect BY <2>1, <2>2 DEF Durable!Disconnect, Detach
    <2> QED BY <2>3 DEF Durable!Next
  <1>5. ASSUME NEW b \in Seq(Blocks), b \in {kept, batch}, flushBatch(b), chain' = chain
        PROVE  Durable!Next \/ UNCHANGED <<chain, best.height>>
    <2>1. best' = best \/ best' \in Elems(b) BY <1>1, <1>5, FlushBest
    <2>2. CASE best' = best BY <1>5, <2>2
    <2>3. CASE best' \in Elems(b)
      <3>1. best' \in Elems(chain) /\ best.height < best'.height
        BY <1>2, <1>5, <2>3 DEF Ordered, Places, Below
      <3>2. best'.height \in Nat /\ best'.height <= Len(chain)
        <4>1. TypeInv BY DEF Flow
        <4>2. best'.height \in 1 .. Len(chain) BY <1>1, <3>1, <4>1, ChainHeights
        <4> QED BY <1>1, <4>2
      <3>3. best.height \in Nat BY <1>1 DEF Blocks
      <3>4. Durable!Persist BY <1>5, <3>1, <3>2, <3>3 DEF Durable!Persist
      <3> QED BY <3>4 DEF Durable!Next
    <2> QED BY <2>1, <2>2, <2>3
  <1>6. CASE WriterFlush \/ BarrierFlush \/ BarrierAck
    BY <1>1, <1>5, <1>6 DEF WriterFlush, BarrierFlush, BarrierAck
  <1>7. CASE WriterExit \/ StopFlush
    BY <1>0, <1>7 DEF Flow, StopShape, WriterExit, StopFlush
  <1> QED
    BY <1>3, <1>4, <1>6, <1>7
    DEF Next, HolderStep, BeginConnect, BeginTailFlush, BeginDisconnect, BeginLoopFlush,
        BeginShutdown, LoopExit, EnqueueCheck, EnqueueStopped, SyncSend, SyncReturn,
        FlushUpdate, UpdateError, WriterStep, WriterReceive, BarrierFilter, BarrierDrain,
        BarrierDrained, WriterStop, StopStep, StopMark, StopClose, StopDrain, StopDrained,
        StopWait

\* The write queue implements DurableChain until stop() closes stopCh: each
\* step of any goroutine connects a block, makes a longer prefix of the chain
\* durable, detaches the tip from memory and disk at once, or is invisible.
THEOREM DurableChainImplemented == Spec => ImplementsDurableChain
  <1>1. Init => Durable!Init BY DEF Init, Durable!Init, Genesis
  <1>2. Flow /\ [Next]_vars =>
            [closed' \/ Durable!Next \/ UNCHANGED <<chain, best.height>>]_vars
    BY DurableStep
  <1> QED BY <1>1, <1>2, FlowAlways, PTL DEF Spec, ImplementsDurableChain

-----------------------------------------------------------------------------
(* The consistency marker.  A flush that writes the tip writes what its    *)
(* barrier has made the best state; the others are outdated.               *)

LEMMA MarkerNext ==
    ASSUME Inv, MarkerAtBest, [Next]_vars
    PROVE  MarkerAtBest'
  <1> USE DEF memVars, diskVars, wrVars, stopVars
  <1> SUFFICES ASSUME errors' = 0, ~closed'
               PROVE  (~outdated' => marker' = best') /\ best'.height <= watermark'
    BY DEF MarkerAtBest
  <1>0. TypeInv BY DEF Inv
  <1>1. errors = 0 /\ ~closed BY <1>0, Monotone
  <1>2. /\ ~outdated => marker = best
        /\ best.height <= watermark
        /\ Heights /\ DurablePrefix /\ Barrier /\ Detaching
    BY <1>1 DEF MarkerAtBest, Inv, QueueInv
  <1>3. CASE UNCHANGED vars BY <1>2, <1>3 DEF vars
  <1>4. ASSUME Next
        PROVE  (~outdated' => marker' = best') /\ best'.height <= watermark'
    <2>2. CASE UNCHANGED <<marker, best, watermark, outdated>> BY <1>2, <2>2
    <2>3. CASE FlushUpdate
      <3>1. BarrierDurableNoError BY BarrierHere
      <3>2. best = Tip
        BY <1>1, <2>3, <3>1
        DEF FlushUpdate, BarrierDurableNoError, BarrierDurable
      <3>3. \/ marker' = op.state /\ (~outdated' => op.state = Tip)
            \/ marker' = marker /\ (~outdated' => ~outdated)
        BY <2>3, Zenon DEF FlushUpdate
      <3>4. best' = best /\ watermark' = watermark BY <2>3 DEF FlushUpdate
      <3> QED BY <1>2, <3>2, <3>3, <3>4
    <2>4. CASE DisconnectUpdate
      <3>1. kept = <<>> /\ batch = <<>> /\ items = <<>> /\ AtTip /\ op.state = Parent
            /\ chain # <<>>
        BY <1>2, <2>4 DEF DisconnectUpdate, Barrier, Detaching
      <3>2. /\ best.height \in Nat /\ chain \in Seq(Blocks) /\ Len(chain) \in Nat
            /\ watermark \in Nat
        BY <1>0, Numbers, QueueAssumption DEF TypeInv, TypeOK, MemType, DiskType
      <3>3. Len(chain) - 1 <= best.height BY <3>1, <3>2 DEF AtTip, Reached
      <3>4. Parent.height = Len(chain) - 1
        BY <1>2, <3>1, <3>2 DEF Heights, Parent, Genesis
      <3> QED BY <1>2, <2>4, <3>1, <3>2, <3>3, <3>4 DEF DisconnectUpdate
    <2>5. ASSUME NEW b \in Seq(Blocks), flushBatch(b)
          PROVE  (~outdated' => marker' = best') /\ best'.height <= watermark'
      <3>1. CASE b = <<>> BY <1>2, <2>5, <3>1 DEF flushBatch, Commit, Fail
      <3>2. CASE b # <<>>
        <4>1. b[Len(b)].height \in Nat
          <5>1. b[Len(b)] \in Blocks BY <3>2, SeqFacts
          <5> QED BY <5>1, QueueAssumption DEF Blocks
        <4> QED BY <1>2, <2>5, <3>2, <4>1 DEF flushBatch, Commit, Fail
      <3> QED BY <3>1, <3>2
    <2>6. kept \in Seq(Blocks) /\ batch \in Seq(Blocks) /\ tail \in Seq(Blocks)
      BY <1>0 DEF TypeInv, TypeOK, QueueType
    <2>7. CASE WriterFlush \/ BarrierFlush \/ BarrierAck \/ WriterExit \/ StopFlush
      BY <2>5, <2>6, <2>7
      DEF WriterFlush, BarrierFlush, BarrierAck, WriterExit, StopFlush
    <2> QED
      BY <1>4, <2>2, <2>3, <2>4, <2>7
      DEF Next, HolderStep, BeginConnect, BeginTailFlush, BeginDisconnect, BeginLoopFlush,
          BeginShutdown, LoopExit, EnqueueCheck, EnqueueSend, EnqueueStopped, SyncSend,
          SyncReturn, UpdateError, WriterStep, WriterReceive, BarrierFilter, BarrierDrain,
          BarrierDrained, WriterStop, StopStep, StopMark, StopClose, StopDrain, StopDrained,
          StopWait
  <1> QED BY <1>3, <1>4

\* The UTXO consistency marker on disk stands at the best state, and that is not
\* above the watermark, until a transaction fails or stop() closes stopCh, for any
\* number of goroutines that connect and disconnect blocks: what puts it elsewhere
\* is a tail flush whose state another goroutine has moved the tip away from, and
\* the next batch, disconnect or flush puts it right.
THEOREM MarkerAlways == Spec => []MarkerAtBest
  <1>1. Init => MarkerAtBest
    BY DEF Init, MarkerAtBest, Genesis
  <1>2. Inv /\ MarkerAtBest /\ [Next]_vars => MarkerAtBest' BY MarkerNext
  <1> QED BY InvInit, InvNext, <1>1, <1>2, PTL DEF Spec
=============================================================================
