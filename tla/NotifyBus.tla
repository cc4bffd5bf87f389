------------------------------ MODULE NotifyBus ------------------------------
(***************************************************************************)
(* The notification bus of backend/blockchain/notifications.go, with its   *)
(* publishers (connectBlock, disconnectBlock, maybeAcceptBlock) and its    *)
(* two subscribers: the RPC server, and the sync manager, whose callback   *)
(* forwards events to msgChan for the block handler.                       *)
(*                                                                         *)
(* An event is the number of the chain change it reports.  The change is   *)
(* made under chainLock and the event is sent after the lock is released,  *)
(* so the two are separate steps.                                          *)
(***************************************************************************)
EXTENDS Naturals, Sequences, SequencesExt, FiniteSets

CONSTANTS
    Handler,    \* the block handler goroutine of the sync manager
    Rpc,        \* RPC goroutines that change the chain (reconsiderblock)
    Bus,        \* the notifyLoop goroutine
    Cap,        \* notifyQueueCapacity
    MsgCap,     \* capacity of msgChan left to chain events
    MaxEvents   \* bound: chain changes in a behaviour

ASSUME NotifyAssumption == /\ Bus \notin Rpc \cup {Handler}
                           /\ Handler \notin Rpc
                           /\ Cap \in Nat /\ MsgCap \in Nat /\ MaxEvents \in Nat

Publishers  == Rpc \cup {Handler}
Dispatchers == Publishers \cup {Bus}

VARIABLES
    events,     \* chain changes so far
    pc,         \* per goroutine, see TypeOK
    cur,        \* per goroutine: the event it publishes or dispatches
    notifyChan, \* queued events
    stop,       \* server.Stop: "running", "waiting", "returned", "quit"
    msgChan,    \* events forwarded to the block handler
    handled,    \* events the block handler has processed
    ws,         \* events the RPC server's callback has received
    sent        \* history: events enqueued to notifyChan, in order

vars == <<events, pc, cur, notifyChan, stop, msgChan, handled, ws, sent>>

notifyQuit == stop # "running"
smQuit     == stop = "quit"

Init ==
    /\ events = 0
    /\ pc = [d \in Dispatchers |-> IF d = Bus THEN "select" ELSE "idle"]
    /\ cur = [d \in Dispatchers |-> 0]
    /\ notifyChan = <<>> /\ msgChan = <<>>
    /\ handled = <<>> /\ ws = <<>> /\ sent = <<>>
    /\ stop = "running"

-----------------------------------------------------------------------------
(* Publishers.                                                             *)

\* A block is connected, disconnected or accepted and chainLock released.
Change(p) ==
    /\ pc[p] = "idle" /\ events < MaxEvents
    /\ p = Handler => ~smQuit
    /\ events' = events + 1
    /\ cur' = [cur EXCEPT ![p] = events']
    /\ pc' = [pc EXCEPT ![p] = "send"]
    /\ UNCHANGED <<notifyChan, stop, msgChan, handled, ws, sent>>

\* sendNotification: enqueue, or dispatch inline when the queue is full.
Full == Len(notifyChan) >= Cap

Enqueue(p) ==
    /\ pc[p] = "send" /\ ~Full
    /\ notifyChan' = Append(notifyChan, cur[p])
    /\ sent' = Append(sent, cur[p])
    /\ pc' = [pc EXCEPT ![p] = "idle"]
    /\ UNCHANGED <<events, cur, stop, msgChan, handled, ws>>

Inline(p) ==
    /\ pc[p] = "send" /\ Full
    /\ pc' = [pc EXCEPT ![p] = "sync"]
    /\ UNCHANGED <<events, cur, notifyChan, stop, msgChan, handled, ws, sent>>

-----------------------------------------------------------------------------
(* dispatchNotification: the callbacks in the order of subscription.       *)

\* The sync manager's callback: a non-blocking send to msgChan, given up
\* when quit is closed or the channel is full.
\* Mutant: a blocking send.
ForwardBlocking(d) ==
    /\ pc[d] = "sync"
    /\ \/ Len(msgChan) < MsgCap /\ msgChan' = Append(msgChan, cur[d])
       \/ smQuit /\ UNCHANGED msgChan
    /\ pc' = [pc EXCEPT ![d] = "rpc"]
    /\ UNCHANGED <<events, cur, notifyChan, stop, handled, ws, sent>>
Forward(d) ==
    /\ pc[d] = "sync"
    /\ \/ /\ Len(msgChan) < MsgCap
          /\ msgChan' = Append(msgChan, cur[d])
       \/ /\ smQuit \/ Len(msgChan) >= MsgCap
          /\ UNCHANGED msgChan
    /\ pc' = [pc EXCEPT ![d] = "rpc"]
    /\ UNCHANGED <<events, cur, notifyChan, stop, handled, ws, sent>>

\* The RPC server's callback; then the dispatcher goes on.
Notify(d) ==
    /\ pc[d] = "rpc"
    /\ ws' = Append(ws, cur[d])
    /\ pc' = [pc EXCEPT ![d] = IF d = Bus THEN "select" ELSE "idle"]
    /\ UNCHANGED <<events, cur, notifyChan, stop, msgChan, handled, sent>>

-----------------------------------------------------------------------------
(* notifyLoop.  Once notifyQuit is closed the outer select may still take  *)
(* events; either way the loop returns only on finding the queue empty.    *)

\* Mutant: the newest queued event is taken.
LoopReceiveNewest ==
    /\ pc[Bus] = "select" /\ notifyChan # <<>>
    /\ cur' = [cur EXCEPT ![Bus] = Last(notifyChan)]
    /\ notifyChan' = Front(notifyChan)
    /\ pc' = [pc EXCEPT ![Bus] = "sync"]
    /\ UNCHANGED <<events, stop, msgChan, handled, ws, sent>>
LoopReceive ==
    /\ pc[Bus] = "select" /\ notifyChan # <<>>
    /\ cur' = [cur EXCEPT ![Bus] = Head(notifyChan)]
    /\ notifyChan' = Tail(notifyChan)
    /\ pc' = [pc EXCEPT ![Bus] = "sync"]
    /\ UNCHANGED <<events, stop, msgChan, handled, ws, sent>>

LoopReturn ==
    /\ pc[Bus] = "select" /\ notifyQuit /\ notifyChan = <<>>
    /\ pc' = [pc EXCEPT ![Bus] = "done"]
    /\ UNCHANGED <<events, cur, notifyChan, stop, msgChan, handled, ws, sent>>

-----------------------------------------------------------------------------
(* The block handler, and server.Stop.                                     *)

\* blockHandler takes a chainNotificationMsg between two blocks.
Handle ==
    /\ pc[Handler] = "idle" /\ ~smQuit /\ msgChan # <<>>
    /\ handled' = Append(handled, Head(msgChan))
    /\ msgChan' = Tail(msgChan)
    /\ UNCHANGED <<events, pc, cur, notifyChan, stop, ws, sent>>

\* StopNotifications closes notifyQuit ...
StopNotifications ==
    /\ stop = "running"
    /\ stop' = "waiting"
    /\ UNCHANGED <<events, pc, cur, notifyChan, msgChan, handled, ws, sent>>

\* ... and waits for notifyDone.
StopReturn ==
    /\ stop = "waiting" /\ pc[Bus] = "done"
    /\ stop' = "returned"
    /\ UNCHANGED <<events, pc, cur, notifyChan, msgChan, handled, ws, sent>>

\* Only then does the server tell the block handler to quit.
HandlerQuit ==
    /\ stop = "returned" /\ pc[Handler] = "idle"
    /\ stop' = "quit"
    /\ UNCHANGED <<events, pc, cur, notifyChan, msgChan, handled, ws, sent>>

-----------------------------------------------------------------------------
PublisherStep(p) == Enqueue(p) \/ Inline(p) \/ Forward(p) \/ Notify(p)
BusStep  == LoopReceive \/ LoopReturn \/ Forward(Bus) \/ Notify(Bus)

Next ==
    \/ \E p \in Publishers : Change(p) \/ PublisherStep(p)
    \/ BusStep
    \/ Handle
    \/ StopNotifications \/ StopReturn \/ HandlerQuit

Spec == Init /\ [][Next]_vars

\* A goroutine that can run does; none of these steps waits for a lock.  When
\* the chain changes and when the server stops is left open.
FairSpec ==
    /\ Spec
    /\ \A p \in Publishers : WF_vars(PublisherStep(p))
    /\ WF_vars(BusStep)
    /\ WF_vars(Handle)
    /\ WF_vars(StopReturn)

-----------------------------------------------------------------------------
(* Properties.                                                             *)

\* notifyChan and msgChan never exceed their capacity and a goroutine is at
\* one of its program points.
TypeOK ==
    /\ events \in 0 .. MaxEvents
    /\ pc \in [Dispatchers -> {"idle", "send", "sync", "rpc", "select", "done"}]
    /\ cur \in [Dispatchers -> 0 .. MaxEvents]
    /\ notifyChan \in Seq(1 .. MaxEvents) /\ Len(notifyChan) <= Cap
    /\ msgChan \in Seq(1 .. MaxEvents) /\ Len(msgChan) <= MsgCap
    /\ stop \in {"running", "waiting", "returned", "quit"}

\* "subscribers observe events in the same order they were published"
\* (notifications.go:109), for the events that went through the queue: the RPC
\* server has received the first ones sent, with no gap, and in their order.
QueuedInOrder ==
    /\ \A j, k \in DOMAIN sent :
          j < k /\ sent[k] \in Range(ws) => sent[j] \in Range(ws)
    /\ \A i, j \in DOMAIN ws, k, l \in DOMAIN sent :
          i < j /\ ws[i] = sent[k] /\ ws[j] = sent[l] => k < l

\* No event reaches a subscriber twice, whichever way it was dispatched, and
\* the block handler processes only events that were forwarded once.
AtMostOnce ==
    /\ IsInjective(ws)
    /\ IsInjective(handled \o msgChan)

\* "so no published event is left undelivered during shutdown"
\* (notifications.go:119): an event that is in the queue before notifyLoop has
\* returned reaches the RPC server.
QueuedDelivered ==
    \A e \in 1 .. MaxEvents :
        (e \in Range(notifyChan) /\ pc[Bus] # "done") ~> (e \in Range(ws))

\* StopNotifications returns: the bus never waits for the block handler, which
\* may itself be the one that fills msgChan.
StopReturns == notifyQuit ~> (pc[Bus] = "done" /\ stop # "waiting")

\* What subscribers have received through the queue is what was published, in
\* its order and once, with both channels within their capacity.
DeliveredInOrder == TypeOK /\ QueuedInOrder /\ AtMostOnce

\* The bus drains what is queued and its stop returns, although the block
\* handler is both a publisher and the consumer of msgChan.
BusDrains == QueuedDelivered /\ StopReturns
=============================================================================
