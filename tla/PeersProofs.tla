---------------------------- MODULE PeersProofs ----------------------------
(***************************************************************************)
(* Proofs about connections and peers, for every number of requests,       *)
(* connections, addresses and sources and for every limit.                 *)
(*                                                                         *)
(* A request, the goroutine of its peer, the events in the channel and the *)
(* lists of the server are four views of one connection that change at     *)
(* different times.  Skeleton says how far apart they can be; no count     *)
(* occurs in it, and every count is then exact because of it.              *)
(***************************************************************************)
EXTENDS Peers, FiniteSetTheorems, TLAPS

Events == [action : {"add", "done"}, peer : Peers, added : BOOLEAN, v1 : BOOLEAN]

Shapes ==
    /\ req \in [Reqs -> [kind : Kinds, addr : Addrs \cup {None}, step : Steps]]
    /\ pending \subseteq Reqs /\ conns \subseteq Reqs
    /\ life \in [Peers -> {"none", "negotiating", "active", "ended"}]
    /\ up \subseteq Peers /\ tracked \subseteq Peers /\ synced \subseteq Peers
    /\ lifecycle \in Seq(Events) /\ Len(lifecycle) <= 2 * MaxPeers

\* What works on a request decides which map it is in, and a request whose
\* dial succeeded has a peer until the peer's end is handled.
Request(r) ==
    /\ At(r, "free") => req[r] = Free /\ r \notin pending \cup conns
    /\ ~At(r, "free") => req[r].kind # "none"
    /\ At(r, "register") => /\ r \notin pending \cup conns
                            /\ req[r].addr = None <=> req[r].kind = "auto"
    /\ At(r, "dial") => r \in pending \ conns /\ req[r].addr \in Addrs
    /\ At(r, "replace") => r \in pending \ conns /\ ~Permanent(r)
    /\ At(r, "idle") => r \in conns \ pending /\ req[r].addr \in Addrs
    /\ At(r, "idle") <=> life[r] # "none"

\* Only a running peer is open, and only one whose add event was sent is in a
\* list.
Running(p) ==
    /\ p \in up => life[p] \in {"negotiating", "active"}
    /\ p \in tracked \cup synced => life[p] \in {"active", "ended"}

\* The channel holds at most one event of each kind per peer, the add before the
\* done.  A peer whose add event is not handled yet is in no list, and so is one
\* that ended without an add event.
Channel ==
    \A i \in 1 .. Len(lifecycle) :
        LET e == lifecycle[i] IN
        /\ e.action = "add" => /\ life[e.peer] \in {"active", "ended"}
                               /\ e.peer \notin tracked
        /\ e.action = "done" => life[e.peer] = "ended"
        /\ e.action = "done" /\ ~e.added => e.peer \notin tracked \cup synced
        /\ \A j \in 1 .. Len(lifecycle) :
              lifecycle[j].peer = e.peer /\ i # j =>
                  \/ /\ e.action = "add" /\ lifecycle[j].action = "done"
                     /\ i < j /\ lifecycle[j].added
                  \/ /\ e.action = "done" /\ lifecycle[j].action = "add"
                     /\ j < i /\ e.added

Skeleton ==
    /\ Shapes
    /\ \A r \in Reqs : Request(r)
    /\ \A p \in Peers : Running(p)
    /\ Channel

-----------------------------------------------------------------------------
(* The skeleton.                                                           *)

LEMMA SkeletonInit == Init => Skeleton
  BY PeersAssumption
  DEF Init, Skeleton, Shapes, Request, Running, Channel, Free, NewReq, At,
      Permanent, Kinds, Steps, Peers, Events

\* The first event, and the channel without it.
LEMMA FirstEvent ==
    ASSUME Shapes, lifecycle # <<>>
    PROVE  /\ 1 \in 1 .. Len(lifecycle) /\ lifecycle[1] \in Events
           /\ lifecycle[1].peer \in Peers
           /\ Tail(lifecycle) \in Seq(Events)
           /\ Len(Tail(lifecycle)) = Len(lifecycle) - 1
           /\ \A i \in 1 .. Len(Tail(lifecycle)) :
                 i + 1 \in 1 .. Len(lifecycle) /\ Tail(lifecycle)[i] = lifecycle[i + 1]
  <1>1. lifecycle \in Seq(Events) BY DEF Shapes
  <1>2. 1 \in 1 .. Len(lifecycle) /\ lifecycle[1] \in Events
    BY <1>1
  <1> QED BY <1>1, <1>2 DEF Events

\* An event in the channel is of a peer whose handshake was completed or which
\* has ended.
LEMMA EventFacts ==
    ASSUME Skeleton, NEW i \in 1 .. Len(lifecycle)
    PROVE  /\ lifecycle[i] \in Events /\ lifecycle[i].peer \in Peers
           /\ lifecycle[i].action \in {"add", "done"}
           /\ lifecycle[i].added \in BOOLEAN /\ lifecycle[i].v1 \in BOOLEAN
           /\ life[lifecycle[i].peer] \in {"active", "ended"}
           /\ lifecycle[i].action = "done" => life[lifecycle[i].peer] = "ended"
  <1>1. lifecycle \in Seq(Events) BY DEF Skeleton, Shapes
  <1>2. lifecycle[i] \in Events BY <1>1
  <1>3. /\ lifecycle[i].peer \in Peers /\ lifecycle[i].action \in {"add", "done"}
        /\ lifecycle[i].added \in BOOLEAN /\ lifecycle[i].v1 \in BOOLEAN
    BY <1>2 DEF Events
  <1> QED BY <1>2, <1>3 DEF Skeleton, Channel

\* The steps of an attempt touch neither peers nor lists.
LEMMA SkeletonAttempt ==
    ASSUME Skeleton, NEW r \in Reqs,
           \/ NewConnReq(r) \/ registerPending(r) \/ handleFailed(r) \/ Replace(r)
           \/ \E a \in Addrs, permanent \in BOOLEAN : connectNode(r, a, permanent)
    PROVE  Skeleton'
  <1>1. UNCHANGED <<life, up, tracked, synced, lifecycle>>
    BY DEF NewConnReq, registerPending, handleFailed, Replace, connectNode, serverVars
  <1>2. (\A p \in Peers : Running(p))' /\ Channel'
    BY <1>1 DEF Skeleton, Running, Channel
  <1> USE PeersAssumption
      DEF Skeleton, Shapes, Request, At, To, Permanent, Free, NewReq, Kinds, Steps
  <1> HIDE DEF Channel
  <1>3. CASE NewConnReq(r)
    <2>1. /\ pending' = pending \cup {r} /\ conns' = conns
          /\ At(r, "register") /\ req[r].addr = None
      BY <1>3 DEF NewConnReq
    <2>2. ASSUME NEW a \in Addrs,
                 req' = [req EXCEPT ![r].addr = a, ![r].step = "dial"]
          PROVE  Skeleton'
      BY <1>1, <1>2, <2>1, <2>2
    <2>3. ASSUME req' = [req EXCEPT ![r].step = "replace"] PROVE Skeleton'
      BY <1>1, <1>2, <2>1, <2>3
    <2> QED BY <1>3, <2>2, <2>3 DEF NewConnReq
  <1>4. CASE registerPending(r) BY SMTT(30), <1>1, <1>2, <1>4 DEF registerPending
  <1>5. CASE handleFailed(r) BY <1>1, <1>2, <1>5 DEF handleFailed
  <1>6. CASE Replace(r) BY <1>1, <1>2, <1>6 DEF Replace, RemoveAndRenew
  <1>7. ASSUME NEW a \in Addrs, NEW permanent \in BOOLEAN, connectNode(r, a, permanent)
        PROVE  Skeleton'
    BY <1>1, <1>2, <1>7 DEF connectNode
  <1> QED BY <1>3, <1>4, <1>5, <1>6, <1>7

LEMMA SkeletonConnected ==
    ASSUME Skeleton, NEW r \in Reqs, handleConnected(r)
    PROVE  Skeleton'
  <1> USE PeersAssumption
  <1>1. /\ r \in pending /\ life[r] = "none" /\ r \in Peers
        /\ conns' = conns \cup {r} /\ pending' = pending \ {r}
        /\ life' = [life EXCEPT ![r] = "negotiating"] /\ up' = up \cup {r}
        /\ UNCHANGED <<lifecycle, tracked, synced>>
    BY DEF Skeleton, Request, At, Peers, handleConnected, serverVars, Shapes
  <1>2. (\A p \in Peers : Running(p))'
    BY <1>1 DEF Skeleton, Running, Shapes
  <1>3. Channel'
    <2>1. \A i \in 1 .. Len(lifecycle) : lifecycle[i].peer # r
      BY <1>1, EventFacts
    <2>2. \A i \in 1 .. Len(lifecycle) : life'[lifecycle[i].peer] = life[lifecycle[i].peer]
      BY <1>1, <2>1 DEF Skeleton, Shapes
    <2> QED BY SMTT(30), <1>1, <2>2 DEF Skeleton, Channel
  <1>4. Shapes' /\ (\A q \in Reqs : Request(q))'
    BY <1>1 DEF handleConnected, Skeleton, Shapes, Request, At, To, Permanent, Free,
                Kinds, Steps, Peers
  <1> QED BY <1>2, <1>3, <1>4 DEF Skeleton

\* A connection that opens or closes.
LEMMA SkeletonUp ==
    ASSUME Skeleton,
           \/ \E i \in Ins : inboundPeerConnected(i)
           \/ \E p \in Peers : Drop(p) \/ disconnectNode(p)
    PROVE  Skeleton'
  <1> USE PeersAssumption
  <1>1. ASSUME NEW i \in Ins, inboundPeerConnected(i) PROVE Skeleton'
    <2>1. /\ i \in Peers /\ i \notin Reqs /\ life[i] = "none"
          /\ life' = [life EXCEPT ![i] = "negotiating"] /\ up' = up \cup {i}
          /\ UNCHANGED <<connVars, lifecycle, tracked, synced>>
      BY <1>1 DEF inboundPeerConnected, Peers, serverVars
    <2>2. (\A p \in Peers : Running(p))' BY <2>1 DEF Skeleton, Running, Shapes
    <2>3. \A n \in 1 .. Len(lifecycle) : life'[lifecycle[n].peer] = life[lifecycle[n].peer]
      BY <2>1, EventFacts DEF Skeleton, Shapes
    <2>4. Channel' BY <2>1, <2>3 DEF Skeleton, Channel
    <2>5. Shapes' /\ (\A q \in Reqs : Request(q))'
      BY <2>1 DEF Skeleton, Shapes, Request, At, Permanent, connVars, Peers
    <2> QED BY <2>2, <2>4, <2>5 DEF Skeleton
  <1>2. ASSUME NEW p \in Peers, Drop(p) \/ disconnectNode(p) PROVE Skeleton'
    <2>1. /\ UNCHANGED <<connVars, life, lifecycle, synced>>
          /\ up' \subseteq up /\ tracked' \subseteq tracked
      BY <1>2 DEF Drop, disconnectNode, Close, serverVars
    <2>2. (\A q \in Peers : Running(q))' BY <2>1 DEF Skeleton, Running
    <2>3. Channel' BY <2>1 DEF Skeleton, Channel
    <2>4. Shapes' /\ (\A q \in Reqs : Request(q))'
      BY <2>1 DEF Skeleton, Shapes, Request, At, Permanent, connVars
    <2> QED BY <2>2, <2>3, <2>4 DEF Skeleton
  <1> QED BY <1>1, <1>2

\* The goroutine of a peer sends an event.
LEMMA SkeletonSend ==
    ASSUME Skeleton, NEW p \in Peers, Lifecycle(p)
    PROVE  Skeleton'
  <1> USE PeersAssumption
  <1> DEFINE Adds(e) == /\ e.action = "add" /\ life[p] = "negotiating"
                        /\ life' = [life EXCEPT ![p] = "active"]
             Ends(e) == /\ e.action = "done" /\ life[p] \in {"negotiating", "active"}
                        /\ e.added <=> life[p] = "active"
                        /\ p \notin up
                        /\ life' = [life EXCEPT ![p] = "ended"]
  <1>1. PICK e \in Events : e.peer = p /\ Send(e) /\ (Adds(e) \/ Ends(e))
    <2>1. ASSUME peerAdd(p)
          PROVE  \E e \in Events : e.peer = p /\ Send(e) /\ Adds(e)
      <3>1. [action |-> "add", peer |-> p, added |-> TRUE, v1 |-> FALSE] \in Events
        BY DEF Events
      <3> QED BY <2>1, <3>1 DEF peerAdd
    <2>2. ASSUME NEW v1 \in BOOLEAN, peerDone(p, v1)
          PROVE  \E e \in Events : e.peer = p /\ Send(e) /\ Ends(e)
      <3>1. [action |-> "done", peer |-> p, added |-> peerAdded(p), v1 |-> v1] \in Events
        BY DEF Events, peerAdded
      <3> QED BY <2>2, <3>1 DEF peerDone, peerAdded
    <2>3. peerAdd(p) \/ \E v1 \in BOOLEAN : peerDone(p, v1) BY DEF Lifecycle
    <2> QED BY <2>1, <2>2, <2>3
  <1>2. UNCHANGED <<connVars, up, tracked, synced>>
    BY DEF Lifecycle, peerAdd, peerDone, serverVars
  <1>3. /\ lifecycle' \in Seq(Events) /\ Len(lifecycle') = Len(lifecycle) + 1
        /\ Len(lifecycle) \in Nat
        /\ \A i \in 1 .. Len(lifecycle) : lifecycle'[i] = lifecycle[i]
        /\ lifecycle'[Len(lifecycle) + 1] = e
    <2>1. lifecycle \in Seq(Events) /\ lifecycle' = Append(lifecycle, e)
      BY <1>1 DEF Send, Skeleton, Shapes
    <2> QED BY <2>1
  <1>4. Shapes' BY <1>1, <1>2, <1>3 DEF Skeleton, Shapes, connVars, Send
  <1>5. (\A q \in Peers : Running(q))' BY <1>1, <1>2 DEF Skeleton, Running, Shapes
  <1>6. (\A q \in Reqs : Request(q))'
    BY <1>1, <1>2 DEF Skeleton, Request, At, Permanent, connVars, Shapes, Peers
  <1>7. Channel'
    <2>1. \A i \in 1 .. Len(lifecycle) :
             /\ lifecycle[i] \in Events
             /\ lifecycle[i].peer = p => e.action = "done" /\ lifecycle[i].action = "add"
                                         /\ e.added
      BY <1>1, EventFacts
    <2>2. e.action = "add" => p \notin tracked
      BY <1>1 DEF Skeleton, Running
    <2>3. e.action = "done" /\ ~e.added => p \notin tracked \cup synced
      BY <1>1 DEF Skeleton, Running
    <2>4. \A i \in 1 .. Len(lifecycle) :
             life[lifecycle[i].peer] = "active" => life'[lifecycle[i].peer] \in {"active", "ended"}
      BY <1>1, <2>1 DEF Skeleton, Shapes, Events
    <2>5. \A i \in 1 .. Len(lifecycle) :
             life[lifecycle[i].peer] = "ended" => life'[lifecycle[i].peer] = "ended"
      BY <1>1, <2>1 DEF Skeleton, Shapes, Events
    <2>6. e.action = "add" => life'[p] = "active"
      BY <1>1 DEF Skeleton, Shapes
    <2>7. e.action = "done" => life'[p] = "ended"
      BY <1>1 DEF Skeleton, Shapes
    <2>8. \A i \in 1 .. Len(lifecycle') : i \in 1 .. Len(lifecycle) \/ i = Len(lifecycle) + 1
      BY <1>3
    <2>9. e.peer = p /\ e.action \in {"add", "done"} BY <1>1 DEF Events
    <2> QED BY <1>2, <1>3, <2>1, <2>2, <2>3, <2>4, <2>5, <2>6, <2>7, <2>8, <2>9
            DEF Skeleton, Channel
  <1> QED BY <1>4, <1>5, <1>6, <1>7 DEF Skeleton

\* The peer handler takes an add event: the peer is listed, or somebody is
\* disconnected.
LEMMA SkeletonAdd ==
    ASSUME Skeleton, handleAddPeerMsg
    PROVE  Skeleton'
  <1> USE PeersAssumption
  <1> DEFINE p == lifecycle[1].peer
  <1>1. /\ UNCHANGED <<connVars, life>> /\ up' \subseteq up
        /\ \/ UNCHANGED <<tracked, synced>>
           \/ p \in up /\ tracked' = tracked \cup {p} /\ synced' = synced \cup {p}
    BY DEF handleAddPeerMsg, Close, track, serverVars
  <1>2. lifecycle # <<>> /\ lifecycle[1].action = "add" /\ lifecycle' = Tail(lifecycle)
    BY DEF handleAddPeerMsg, Event
  <1>3. p \in Peers /\ life[p] \in {"active", "ended"}
    BY <1>2, FirstEvent, EventFacts DEF Skeleton
  <1>4. p \in up => life[p] = "active" BY <1>3 DEF Skeleton, Running
  <1>5. Shapes'
    BY <1>1, <1>2, <1>3, FirstEvent DEF Skeleton, Shapes, connVars
  <1>6. (\A q \in Peers : Running(q))' BY <1>1, <1>3, <1>4 DEF Skeleton, Running
  <1>7. (\A r \in Reqs : Request(r))'
    BY <1>1 DEF Skeleton, Request, At, Permanent, connVars
  <1>8. Channel'
    <2> DEFINE Old(i) == lifecycle[i + 1]
    <2>1. \A i \in 1 .. Len(lifecycle') :
             /\ i \in Nat /\ i + 1 \in 1 .. Len(lifecycle) /\ lifecycle'[i] = lifecycle[i + 1]
             /\ i + 1 # 1
      BY <1>2, FirstEvent DEF Skeleton
    <2>2. \A i \in 1 .. Len(lifecycle') :
             Old(i).peer = p => Old(i).action = "done" /\ Old(i).added
      BY <1>2, <2>1, FirstEvent DEF Skeleton, Channel
    <2>3. \A i \in 1 .. Len(lifecycle') :
             /\ Old(i).action = "add" => Old(i).peer \notin tracked'
             /\ Old(i).action = "done" /\ ~Old(i).added =>
                    Old(i).peer \notin tracked' \cup synced'
      BY <1>1, <2>1, <2>2 DEF Skeleton, Channel
    <2>4. ASSUME NEW i \in 1 .. Len(lifecycle'), NEW j \in 1 .. Len(lifecycle'),
                 Old(j).peer = Old(i).peer, i # j
          PROVE  \/ /\ Old(i).action = "add" /\ Old(j).action = "done"
                    /\ i < j /\ Old(j).added
                 \/ /\ Old(i).action = "done" /\ Old(j).action = "add"
                    /\ j < i /\ Old(i).added
      <3>1. i + 1 # j + 1 /\ (i + 1 < j + 1 => i < j) /\ (j + 1 < i + 1 => j < i)
        BY <2>1, <2>4
      <3> QED BY ZenonT(30), <2>1, <2>4, <3>1 DEF Skeleton, Channel
    <2>5. \A i \in 1 .. Len(lifecycle') :
             /\ Old(i).action = "add" => life'[Old(i).peer] \in {"active", "ended"}
             /\ Old(i).action = "done" => life'[Old(i).peer] = "ended"
      BY <1>1, <2>1 DEF Skeleton, Channel
    <2>6. \A i \in 1 .. Len(lifecycle') : lifecycle'[i] = Old(i) BY <2>1
    <2> HIDE DEF Old
    <2> QED BY <2>3, <2>4, <2>5, <2>6 DEF Channel
  <1> QED BY <1>5, <1>6, <1>7, <1>8 DEF Skeleton

\* The peer handler takes a done event: the last of the peer's events, after
\* which nothing refers to the peer.
LEMMA SkeletonDone ==
    ASSUME Skeleton, handleDonePeerMsg
    PROVE  Skeleton'
  <1> USE PeersAssumption
  <1> DEFINE p == lifecycle[1].peer
  <1>1. /\ UNCHANGED up /\ life' = [life EXCEPT ![p] = "none"]
        /\ tracked' = tracked \ {p}
        /\ synced' = IF lifecycle[1].added THEN synced \ {p} ELSE synced
    BY DEF handleDonePeerMsg
  <1>2. lifecycle # <<>> /\ lifecycle[1].action = "done" /\ lifecycle' = Tail(lifecycle)
    BY DEF handleDonePeerMsg, Event
  <1>3. p \in Peers /\ life[p] = "ended" /\ lifecycle[1].added \in BOOLEAN
    BY <1>2, FirstEvent, EventFacts DEF Skeleton
  <1>4. p \notin up /\ p \notin synced' /\ synced' \subseteq synced
    BY <1>1, <1>2, <1>3, FirstEvent DEF Skeleton, Running, Channel
  <1>5. (\A q \in Peers : Running(q))' BY <1>1, <1>3, <1>4 DEF Skeleton, Running, Shapes
  <1>6. Channel'
    <2> DEFINE Old(i) == lifecycle[i + 1]
    <2>1. \A i \in 1 .. Len(lifecycle') :
             /\ i \in Nat /\ i + 1 \in 1 .. Len(lifecycle) /\ lifecycle'[i] = lifecycle[i + 1]
             /\ i + 1 # 1 /\ 1 < i + 1
      BY <1>2, FirstEvent DEF Skeleton
    <2>2. \A i \in 1 .. Len(lifecycle') : Old(i).peer # p
      BY <1>2, <2>1, FirstEvent DEF Skeleton, Channel
    <2>3. \A i \in 1 .. Len(lifecycle') : life'[Old(i).peer] = life[Old(i).peer]
      BY <1>1, <2>1, <2>2, EventFacts DEF Skeleton, Shapes
    <2>4. ASSUME NEW i \in 1 .. Len(lifecycle'), NEW j \in 1 .. Len(lifecycle'),
                 Old(j).peer = Old(i).peer, i # j
          PROVE  \/ /\ Old(i).action = "add" /\ Old(j).action = "done"
                    /\ i < j /\ Old(j).added
                 \/ /\ Old(i).action = "done" /\ Old(j).action = "add"
                    /\ j < i /\ Old(i).added
      <3>1. i + 1 # j + 1 /\ (i + 1 < j + 1 => i < j) /\ (j + 1 < i + 1 => j < i)
        BY <2>1, <2>4
      <3> QED BY <2>1, <2>4, <3>1 DEF Skeleton, Channel
    <2>5. \A i \in 1 .. Len(lifecycle') :
             /\ Old(i).action = "add" => /\ life'[Old(i).peer] \in {"active", "ended"}
                                         /\ Old(i).peer \notin tracked'
             /\ Old(i).action = "done" => life'[Old(i).peer] = "ended"
             /\ Old(i).action = "done" /\ ~Old(i).added =>
                    Old(i).peer \notin tracked' \cup synced'
      BY <1>1, <1>4, <2>1, <2>3 DEF Skeleton, Channel
    <2>6. \A i \in 1 .. Len(lifecycle') : lifecycle'[i] = Old(i) BY <2>1
    <2> HIDE DEF Old
    <2> QED BY <2>4, <2>5, <2>6 DEF Channel
  <1>7. /\ lifecycle' \in Seq(Events) /\ Len(lifecycle') <= 2 * MaxPeers
        /\ life' \in [Peers -> {"none", "negotiating", "active", "ended"}]
        /\ up' \subseteq Peers /\ tracked' \subseteq Peers /\ synced' \subseteq Peers
    BY <1>1, <1>2, <1>4, FirstEvent DEF Skeleton, Shapes
  <1>8. CASE p \in Ins
    <2>1. UNCHANGED connVars BY <1>8 DEF handleDonePeerMsg
    <2>2. Shapes' /\ (\A r \in Reqs : Request(r))'
      BY <1>1, <1>7, <1>8, <2>1
         DEF Skeleton, Shapes, Request, At, Permanent, connVars, Peers
    <2> QED BY <1>5, <1>6, <2>2 DEF Skeleton
  <1>9. CASE p \in Reqs
    <2>1. At(p, "idle") /\ p \in conns \ pending /\ req[p].addr \in Addrs
          /\ req[p].kind # "none"
      BY <1>3, <1>9 DEF Skeleton, Request, At
    <2>2. \A r \in Reqs : r # p => life'[r] = life[r]
      BY <1>1, <1>9 DEF Skeleton, Shapes, Peers
    <2>3. life'[p] = "none" BY <1>1, <1>3 DEF Skeleton, Shapes
    <2>4. CASE Disconnect(p)
      BY SMTT(30), <1>7, <1>9, <2>1, <2>2, <2>3, <2>4, <1>5, <1>6
         DEF Disconnect, PendingAgain, Skeleton, Shapes, Request, At, To, Permanent,
             Free, Kinds, Steps
    <2>5. CASE RemoveAndRenew(p)
      BY <1>7, <1>9, <2>1, <2>2, <2>3, <2>5, <1>5, <1>6
         DEF RemoveAndRenew, Skeleton, Shapes, Request, At, Permanent,
             NewReq, Free, Kinds, Steps
    <2> QED BY <1>9, <2>4, <2>5 DEF handleDonePeerMsg
  <1> QED BY <1>3, <1>8, <1>9 DEF Peers

LEMMA SkeletonNext == Skeleton /\ [Next]_vars => Skeleton'
  <1> SUFFICES ASSUME Skeleton, [Next]_vars PROVE Skeleton'
    OBVIOUS
  <1>1. CASE UNCHANGED vars
    BY <1>1 DEF vars, connVars, serverVars, Skeleton, Shapes, Request, Running, Channel,
                At, Permanent
  <1>2. CASE Next
    BY <1>2, SkeletonAttempt, SkeletonConnected, SkeletonUp, SkeletonSend, SkeletonAdd,
       SkeletonDone
    DEF Next, Attempt
  <1> QED BY <1>1, <1>2

\* A step leaves alone the request of a peer that stays listed, and the address
\* of a request of the operator that stays pending or established.
AddressesStay ==
    /\ \A p \in tracked' \cap tracked \cap Reqs : req'[p] = req[p]
    /\ \A r \in Reqs : \/ req'[r].kind = req[r].kind /\ req'[r].addr = req[r].addr
                       \/ req'[r].kind \in {"auto", "none"}
                       \/ r \notin pending' \cup conns'

LEMMA AddressKept ==
    ASSUME Skeleton, Next
    PROVE  AddressesStay
  <1> USE PeersAssumption
  <1>0. \A p \in tracked \cap Reqs : At(p, "idle")
    BY DEF Skeleton, Request, Running, Peers
  <1> DEFINE Fits(r) == /\ \A q \in Reqs \ {r} : req'[q] = req[q]
                        /\ ~At(r, "idle")
                        /\ \/ req'[r].kind = req[r].kind /\ req'[r].addr = req[r].addr
                           \/ req'[r].kind \in {"auto", "none"}
                           \/ r \notin pending' \cup conns'
  <1>1. CASE UNCHANGED req BY <1>1 DEF AddressesStay
  <1>2. ASSUME NEW r \in Reqs, Attempt(r) \/ \E a \in Addrs, permanent \in BOOLEAN :
                                                connectNode(r, a, permanent)
        PROVE  Fits(r)
    <2> USE DEF At, To, Free, NewReq, Skeleton, Shapes, Request
    <2>1. CASE NewConnReq(r)
      <3>1. At(r, "register") /\ req[r].kind = "auto" BY <2>1 DEF NewConnReq
      <3>2. ASSUME NEW a \in Addrs,
                   req' = [req EXCEPT ![r].addr = a, ![r].step = "dial"]
            PROVE  Fits(r)
        BY <3>1, <3>2
      <3>3. ASSUME req' = [req EXCEPT ![r].step = "replace"] PROVE Fits(r)
        BY <3>1, <3>3
      <3> QED BY <2>1, <3>2, <3>3 DEF NewConnReq
    <2>2. CASE registerPending(r) BY <2>2 DEF registerPending
    <2>3. CASE handleConnected(r) BY <2>3 DEF handleConnected
    <2>4. CASE handleFailed(r) BY <2>4 DEF handleFailed
    <2>5. CASE Replace(r) BY <2>5 DEF Replace, RemoveAndRenew
    <2>6. ASSUME NEW a \in Addrs, NEW permanent \in BOOLEAN, connectNode(r, a, permanent)
          PROVE  Fits(r)
      BY <2>6 DEF connectNode
    <2> QED BY <1>2, <2>1, <2>2, <2>3, <2>4, <2>5, <2>6 DEF Attempt
  <1>3. ASSUME NEW r \in Reqs, Attempt(r) \/ \E a \in Addrs, permanent \in BOOLEAN :
                                                connectNode(r, a, permanent)
        PROVE  AddressesStay
    BY <1>0, <1>2, <1>3 DEF AddressesStay
  <1>4. CASE handleDonePeerMsg
    <2> DEFINE p == lifecycle[1].peer
    <2>1. tracked' = tracked \ {p} BY <1>4 DEF handleDonePeerMsg
    <2>2. CASE p \in Reqs /\ (Disconnect(p) \/ RemoveAndRenew(p))
      BY <2>1, <2>2 DEF Disconnect, RemoveAndRenew, To, Free, NewReq, Skeleton, Shapes,
                        AddressesStay
    <2> QED BY <1>1, <1>4, <2>2 DEF handleDonePeerMsg, connVars
  <1> QED
    BY <1>1, <1>3, <1>4 DEF Next, inboundPeerConnected, Drop, Lifecycle, peerAdd, peerDone,
       disconnectNode, handleAddPeerMsg, connVars

LEMMA OneRequestNext ==
    ASSUME Skeleton, OneRequestPerAddress, Next
    PROVE  OneRequestPerAddress'
  <1> USE PeersAssumption
  <1> DEFINE Busy == pending \cup conns
             Own(r) == req[r].kind \in {"perm", "try"}
  <1>1. \A q, r \in Busy : q # r /\ Own(q) /\ Own(r) => req[q].addr # req[r].addr
    BY DEF OneRequestPerAddress
  <1>2. Busy \subseteq Reqs /\ Busy' \subseteq Reqs
    BY SkeletonNext DEF Skeleton, Shapes
  <1>3. \A r \in Reqs : r \in Busy' /\ Own(r)' => Own(r) /\ req'[r].addr = req[r].addr
    BY AddressKept DEF AddressesStay
  <1>4. CASE \A r \in Busy' : Own(r)' => r \in Busy
    BY <1>1, <1>2, <1>3, <1>4 DEF OneRequestPerAddress
  <1>5. ASSUME NEW r \in Reqs, registerPending(r) PROVE OneRequestPerAddress'
    <2>1. CASE dup(r)
      BY <1>4, <1>5, <2>1 DEF registerPending
    <2>2. CASE ~dup(r)
      <3>1. Busy' = Busy \cup {r} BY <1>5, <2>2 DEF registerPending
      <3>2. \A q \in Busy : req[q].addr # req[r].addr BY <2>2 DEF dup
      <3> QED BY <1>1, <1>2, <1>3, <3>1, <3>2 DEF OneRequestPerAddress
    <2> QED BY <2>1, <2>2
  <1>6. ASSUME NEW r \in Reqs, NewConnReq(r) PROVE OneRequestPerAddress'
    <2>1. Busy' = Busy \cup {r} BY <1>6 DEF NewConnReq
    <2>2. req[r].kind = "auto" BY <1>6 DEF NewConnReq, Skeleton, Request
    <2> QED BY <1>3, <1>4, <2>1, <2>2
  <1>7. ASSUME NEW r \in Reqs, handleConnected(r) \/ handleFailed(r) \/ Replace(r)
        PROVE  Busy' \subseteq Busy
    BY <1>7 DEF handleConnected, handleFailed, Replace, RemoveAndRenew, Skeleton, Request
  <1>8. CASE handleDonePeerMsg
    <2> DEFINE p == lifecycle[1].peer
    <2>1. p \in Reqs => p \in conns
      BY <1>8, FirstEvent, EventFacts DEF handleDonePeerMsg, Event, Skeleton, Request
    <2>2. Busy' \subseteq Busy
      BY <1>8, <2>1 DEF handleDonePeerMsg, Disconnect, RemoveAndRenew, PendingAgain, connVars
    <2> QED BY <1>4, <2>2
  <1>9. CASE UNCHANGED <<pending, conns>> BY <1>4, <1>9
  <1> QED
    BY <1>4, <1>5, <1>6, <1>7, <1>8, <1>9 DEF Next, Attempt, connectNode, inboundPeerConnected,
       Drop, Lifecycle, peerAdd, peerDone, disconnectNode, handleAddPeerMsg, connVars

LEMMA OnePeerNext ==
    ASSUME Skeleton, OnePeerPerAddress, Next
    PROVE  OnePeerPerAddress'
  <1> USE PeersAssumption
  <1> DEFINE Open == tracked \cap up \cap Reqs
  <1>1. \A r \in tracked' \cap tracked \cap Reqs : req'[r] = req[r]
    BY AddressKept DEF AddressesStay
  <1>2. CASE Open' \subseteq Open
    BY <1>1, <1>2 DEF OnePeerPerAddress
  <1>3. CASE handleAddPeerMsg
    <2> DEFINE p == lifecycle[1].peer
    <2>1. up' \subseteq up /\ UNCHANGED req
      BY <1>3 DEF handleAddPeerMsg, Close, connVars
    <2>2. CASE UNCHANGED tracked BY <1>2, <2>1, <2>2
    <2>3. CASE tracked' = tracked \cup {p} /\ ~refused(p)
      <3>1. CASE p \in Reqs
        <4>1. \A q \in Open \ {p} : req[q].addr # req[p].addr
          BY <2>3, <3>1 DEF refused, sameAddress
        <4> QED BY <2>1, <2>3, <4>1 DEF OnePeerPerAddress
      <3>2. CASE p \notin Reqs BY <1>2, <2>1, <2>3, <3>2
      <3> QED BY <3>1, <3>2
    <2> QED BY <1>3, <2>2, <2>3 DEF handleAddPeerMsg, track, serverVars
  <1>4. ASSUME NEW r \in Reqs, Attempt(r) PROVE Open' \subseteq Open
    <2>1. UNCHANGED tracked
      BY <1>4 DEF Attempt, NewConnReq, registerPending, handleConnected, handleFailed,
                  Replace, serverVars
    <2>2. CASE handleConnected(r)
      <3>1. r \notin tracked
        BY <2>2 DEF handleConnected, Skeleton, Request, Running, At, Peers
      <3> QED BY <2>1, <2>2, <3>1 DEF handleConnected
    <2> QED BY <1>4, <2>1, <2>2 DEF Attempt, NewConnReq, registerPending, handleFailed, Replace
  <1>5. ASSUME NEW i \in Ins, inboundPeerConnected(i) PROVE Open' \subseteq Open
    BY <1>5 DEF inboundPeerConnected, serverVars
  <1> QED
    BY <1>2, <1>3, <1>4, <1>5 DEF Next, connectNode, Drop, Lifecycle, peerAdd, peerDone,
       disconnectNode, Close, handleDonePeerMsg, serverVars

-----------------------------------------------------------------------------
(* Counting.                                                               *)

\* A finite set with one element more, or one less.
LEMMA CountAdd ==
    ASSUME NEW S, IsFiniteSet(S), NEW x, x \notin S
    PROVE  Cardinality(S \cup {x}) = Cardinality(S) + 1
  BY FS_AddElement

LEMMA CountRemove ==
    ASSUME NEW S, IsFiniteSet(S), NEW x \in S
    PROVE  Cardinality(S \ {x}) = Cardinality(S) - 1
  BY FS_RemoveElement

\* Every set that is counted is finite.
LEMMA Finite ==
    ASSUME NEW S, S \subseteq Peers
    PROVE  IsFiniteSet(S) /\ Cardinality(S) \in Nat
  <1>1. IsFiniteSet(Peers) BY PeersAssumption, FS_Union DEF Peers
  <1> QED BY <1>1, FS_Subset, FS_CardinalityType

Autos == {r \in Reqs : req[r].kind = "auto"}
Books == extra \in Nat /\ lost \in Nat
Balance == Books /\ SlotsConserved

\* What a step does to one request, and to the books on it.
Rebook(r) ==
    /\ \A q \in Reqs \ {r} : req'[q].kind = req[q].kind
    /\ \/ req'[r].kind = "auto" /\ req[r].kind = "auto" /\ UNCHANGED <<extra, lost>>
       \/ req'[r].kind # "auto" /\ req[r].kind # "auto" /\ UNCHANGED <<extra, lost>>
       \/ req'[r].kind = "auto" /\ req[r].kind = "try" /\ extra' = extra + 1 /\ UNCHANGED lost
       \/ req'[r].kind # "auto" /\ req[r].kind = "auto" /\ lost' = lost + 1 /\ UNCHANGED extra

LEMMA RebookBalanced ==
    ASSUME Balance, NEW r \in Reqs, Rebook(r)
    PROVE  Balance'
  <1> USE PeersAssumption
  <1>1. /\ IsFiniteSet(Autos) /\ Cardinality(Autos) \in Nat
        /\ TargetOutbound \in Nat
        /\ Cardinality(Autos) = TargetOutbound + extra - lost
    <2>1. Autos \subseteq Peers BY DEF Autos, Peers
    <2>2. Cardinality(Reqs) \in Nat BY FS_CardinalityType
    <2> QED BY <2>1, <2>2, Finite DEF Balance, SlotsConserved, Autos
  <1>2. CASE (req'[r].kind = "auto") <=> (req[r].kind = "auto")
    <2>1. Autos' = Autos BY <1>2 DEF Rebook, Autos
    <2> QED BY <1>1, <1>2, <2>1 DEF Rebook, Balance, Books, SlotsConserved, Autos
  <1>3. CASE req'[r].kind = "auto" /\ req[r].kind # "auto"
    <2>1. Autos' = Autos \cup {r} /\ r \notin Autos BY <1>3 DEF Rebook, Autos
    <2>2. Cardinality(Autos') = Cardinality(Autos) + 1 BY <1>1, <2>1, CountAdd
    <2> QED BY <1>1, <1>3, <2>2 DEF Rebook, Balance, Books, SlotsConserved, Autos
  <1>4. CASE req'[r].kind # "auto" /\ req[r].kind = "auto"
    <2>1. Autos' = Autos \ {r} /\ r \in Autos BY <1>4 DEF Rebook, Autos
    <2>2. Cardinality(Autos') = Cardinality(Autos) - 1 BY <1>1, <2>1, CountRemove
    <2> QED BY <1>1, <1>4, <2>2 DEF Rebook, Balance, Books, SlotsConserved, Autos
  <1> QED BY <1>2, <1>3, <1>4

LEMMA BalanceInit == Init => Balance
  <1> SUFFICES ASSUME Init PROVE Balance OBVIOUS
  <1>1. PICK R \in SUBSET Reqs :
           /\ Cardinality(R) = TargetOutbound
           /\ req = [r \in Reqs |-> IF r \in R THEN NewReq("auto", None) ELSE Free]
    BY DEF Init
  <1>2. {r \in Reqs : req[r].kind = "auto"} = R BY <1>1 DEF NewReq, Free
  <1>3. TargetOutbound \in Nat
    BY PeersAssumption, FS_CardinalityType
  <1>4. extra = 0 /\ lost = 0 BY DEF Init
  <1> QED BY <1>1, <1>2, <1>3, <1>4 DEF Balance, Books, SlotsConserved

LEMMA BalanceNext ==
    ASSUME Skeleton, Balance, Next
    PROVE  Balance'
  <1> USE PeersAssumption
  <1>1. ASSUME NEW r \in Reqs, Attempt(r) \/ \E a \in Addrs, permanent \in BOOLEAN :
                                                connectNode(r, a, permanent)
        PROVE  Rebook(r)
    <2> USE DEF At, To, Free, NewReq, Skeleton, Shapes, Request, Rebook, history
    <2>1. CASE NewConnReq(r)
      <3>1. req'[r].kind = req[r].kind /\ \A q \in Reqs \ {r} : req'[q] = req[q]
        <4>1. ASSUME NEW a \in Addrs,
                     req' = [req EXCEPT ![r].addr = a, ![r].step = "dial"]
              PROVE  req'[r].kind = req[r].kind /\ \A q \in Reqs \ {r} : req'[q] = req[q]
          BY <4>1
        <4>2. ASSUME req' = [req EXCEPT ![r].step = "replace"]
              PROVE  req'[r].kind = req[r].kind /\ \A q \in Reqs \ {r} : req'[q] = req[q]
          BY <4>2
        <4> QED BY <2>1, <4>1, <4>2 DEF NewConnReq
      <3>2. UNCHANGED <<extra, lost>> BY <2>1 DEF NewConnReq
      <3> QED BY <3>1, <3>2 DEF Kinds
    <2>2. CASE registerPending(r)
      <3>1. req[r].kind # "auto" BY <2>2 DEF registerPending
      <3> QED BY <2>2, <3>1 DEF registerPending
    <2>3. CASE handleConnected(r) BY <2>3 DEF handleConnected
    <2>4. CASE handleFailed(r) BY <2>4 DEF handleFailed
    <2>5. CASE Replace(r)
      <3>1. req[r].kind \in {"auto", "try"} BY <2>5 DEF Replace, Permanent, Kinds
      <3> QED BY <2>5, <3>1 DEF Replace, RemoveAndRenew
    <2>6. ASSUME NEW a \in Addrs, NEW permanent \in BOOLEAN, connectNode(r, a, permanent)
          PROVE  Rebook(r)
      BY <2>6 DEF connectNode
    <2> QED BY <1>1, <2>1, <2>2, <2>3, <2>4, <2>5, <2>6 DEF Attempt
  <1>2. CASE handleDonePeerMsg
    <2> DEFINE p == lifecycle[1].peer
    <2>1. p \in Reqs => req[p].kind \in {"auto", "perm", "try"}
      BY <1>2, FirstEvent, EventFacts
      DEF handleDonePeerMsg, Event, Skeleton, Request, At, Shapes, Kinds
    <2>2. CASE p \in Reqs /\ (Permanent(p) \/ lifecycle[1].v1) /\ Disconnect(p)
      <3>1. Rebook(p)
        BY <2>1, <2>2 DEF Disconnect, To, Free, Permanent, Skeleton, Shapes, Rebook
      <3> QED BY <2>2, <3>1, RebookBalanced
    <2>3. CASE p \in Reqs /\ ~Permanent(p) /\ RemoveAndRenew(p)
      <3>1. Rebook(p)
        BY <2>1, <2>3 DEF RemoveAndRenew, NewReq, Permanent, Skeleton, Shapes, Rebook
      <3> QED BY <2>3, <3>1, RebookBalanced
    <2>4. CASE UNCHANGED <<connVars, extra, lost>>
      BY <2>4 DEF Balance, Books, SlotsConserved, connVars
    <2> QED BY <1>2, <2>2, <2>3, <2>4 DEF handleDonePeerMsg
  <1>3. CASE UNCHANGED <<req, extra, lost>>
    BY <1>3 DEF Balance, Books, SlotsConserved
  <1> QED
    BY <1>1, <1>2, <1>3, RebookBalanced
    DEF Next, inboundPeerConnected, Drop, Lifecycle, peerAdd, peerDone,
        disconnectNode, handleAddPeerMsg, connVars, history

\* The slots of open inbound connections.
Slots == slots \in 0 .. MaxPeers /\ slots = Cardinality(up \cap Ins)

\* Closing connections gives back exactly their slots.
LEMMA CloseSlots ==
    ASSUME Skeleton, Slots, NEW p \in Peers, Close({p})
    PROVE  Slots'
  <1> USE PeersAssumption
  <1>1. up \cap Ins \subseteq Peers /\ IsFiniteSet(up \cap Ins)
        /\ Cardinality(up \cap Ins) \in Nat
    BY Finite DEF Peers
  <1>2. CASE p \in up \cap Ins
    <2>1. up' \cap Ins = (up \cap Ins) \ {p} BY DEF Close
    <2>2. {p} \cap up \cap Ins = {p} BY <1>2
    <2>3. Cardinality({p}) = 1 BY FS_Singleton
    <2>4. Cardinality(up' \cap Ins) = Cardinality(up \cap Ins) - 1
      BY <1>1, <1>2, <2>1, CountRemove
    <2>5. Cardinality(up' \cap Ins) \in Nat
      BY <1>1, <2>1, FS_RemoveElement, FS_CardinalityType
    <2>6. slots' = slots - 1 BY <2>2, <2>3 DEF Close, releaseSlots
    <2> QED BY <2>4, <2>5, <2>6 DEF Slots
  <1>3. CASE p \notin up \cap Ins
    <2>1. up' \cap Ins = up \cap Ins BY <1>3 DEF Close
    <2>2. {p} \cap up \cap Ins = {} BY <1>3
    <2>3. slots' = slots - 0 BY <2>2, FS_EmptySet DEF Close, releaseSlots
    <2> QED BY SMTT(30), <1>1, <2>1, <2>3 DEF Slots
  <1> QED BY <1>2, <1>3

LEMMA SlotsNext ==
    ASSUME Skeleton, Slots, Next
    PROVE  Slots'
  <1> USE PeersAssumption
  <1>1. ASSUME NEW i \in Ins, inboundPeerConnected(i) PROVE Slots'
    <2>1. i \notin up BY <1>1 DEF inboundPeerConnected, Skeleton, Running, Peers
    <2>2. IsFiniteSet(up \cap Ins) BY Finite DEF Peers
    <2>3. up' \cap Ins = (up \cap Ins) \cup {i} BY <1>1 DEF inboundPeerConnected
    <2>4. Cardinality(up' \cap Ins) = Cardinality(up \cap Ins) + 1
      BY <2>1, <2>2, <2>3, CountAdd
    <2> QED BY <1>1, <2>4 DEF inboundPeerConnected, Slots
  <1>2. CASE UNCHANGED <<slots, up>> BY <1>2 DEF Slots
  <1>3. ASSUME NEW r \in Reqs, Attempt(r) PROVE Slots'
    <2>1. UNCHANGED slots /\ up' \cap Ins = up \cap Ins
      BY <1>3 DEF Attempt, NewConnReq, registerPending, handleConnected, handleFailed,
                  Replace, inboundVars
    <2> QED BY <2>1 DEF Slots
  <1>4. CASE handleAddPeerMsg
    <2>1. lifecycle[1].peer \in Peers
      BY <1>4, FirstEvent DEF handleAddPeerMsg, Event, Skeleton
    <2>2. \/ UNCHANGED <<slots, up>>
          \/ \E q \in Peers : Close({q})
      BY <1>4, <2>1 DEF handleAddPeerMsg, evictable, Inbound, Skeleton, Shapes
    <2> QED BY <1>2, <2>2, CloseSlots
  <1>5. ASSUME NEW p \in Peers, Drop(p) \/ disconnectNode(p) PROVE Slots'
    BY <1>5, CloseSlots DEF Drop, disconnectNode
  <1> QED
    BY <1>1, <1>2, <1>3, <1>4, <1>5
    DEF Next, connectNode, Lifecycle, peerAdd, peerDone, handleDonePeerMsg, inboundVars

\* The handshakes under way.
Negotiating(s) == {i \in Ins : Source[i] = s /\ life[i] = "negotiating"}
Handshakes ==
    /\ handshakes \in [Sources -> Nat]
    /\ \A s \in Sources : handshakes[s] = Cardinality(Negotiating(s))

LEMMA HandshakesNext ==
    ASSUME Skeleton, Handshakes, Next
    PROVE  Handshakes'
  <1> USE PeersAssumption
  <1>1. \A s \in Sources : IsFiniteSet(Negotiating(s)) /\ Cardinality(Negotiating(s)) \in Nat
    BY Finite DEF Negotiating, Peers
  <1>2. CASE /\ UNCHANGED handshakes
             /\ \A i \in Ins : life'[i] = "negotiating" <=> life[i] = "negotiating"
    <2>1. \A s \in Sources : Negotiating(s)' = Negotiating(s) BY <1>2 DEF Negotiating
    <2> QED BY <1>2, <2>1 DEF Handshakes
  <1>3. ASSUME NEW i \in Ins, inboundPeerConnected(i) PROVE Handshakes'
    <2> DEFINE t == Source[i]
    <2>1. t \in Sources OBVIOUS
    <2>2. \A s \in Sources : s # t => Negotiating(s)' = Negotiating(s)
      BY <1>3 DEF Negotiating, inboundPeerConnected, Skeleton, Shapes, Peers
    <2>3. Negotiating(t)' = Negotiating(t) \cup {i} /\ i \notin Negotiating(t)
      BY <1>3 DEF Negotiating, inboundPeerConnected, Skeleton, Shapes, Peers
    <2>4. Cardinality(Negotiating(t)') = Cardinality(Negotiating(t)) + 1
      BY <1>1, <2>1, <2>3, CountAdd
    <2>5. handshakes' = [handshakes EXCEPT ![t] = @ + 1] BY <1>3 DEF inboundPeerConnected
    <2> HIDE DEF t
    <2> QED BY <2>1, <2>2, <2>4, <2>5 DEF Handshakes
  <1>4. ASSUME NEW p \in Peers, Lifecycle(p) PROVE Handshakes'
    <2>1. /\ life[p] \in {"negotiating", "active"} /\ handshakes' = releaseHandshake(p)
          /\ \E l \in {"active", "ended"} : life' = [life EXCEPT ![p] = l]
      BY <1>4 DEF Lifecycle, peerAdd, peerDone
    <2>2. CASE p \in Ins /\ life[p] = "negotiating"
      <3> DEFINE t == Source[p]
      <3>1. t \in Sources BY <2>2
      <3>2. \A s \in Sources : s # t => Negotiating(s)' = Negotiating(s)
        BY <2>1, <2>2 DEF Negotiating, Skeleton, Shapes, Peers
      <3>3. Negotiating(t)' = Negotiating(t) \ {p} /\ p \in Negotiating(t)
        BY <2>1, <2>2 DEF Negotiating, Skeleton, Shapes, Peers
      <3>4. /\ Cardinality(Negotiating(t)') = Cardinality(Negotiating(t)) - 1
            /\ Cardinality(Negotiating(t)') \in Nat
        BY <1>1, <3>1, <3>3, CountRemove, FS_RemoveElement, FS_CardinalityType
      <3>5. handshakes' = [handshakes EXCEPT ![t] = @ - 1]
        BY <2>1, <2>2 DEF releaseHandshake
      <3> HIDE DEF t
      <3> QED BY <3>1, <3>2, <3>4, <3>5 DEF Handshakes
    <2>3. CASE ~(p \in Ins /\ life[p] = "negotiating")
      <3>1. UNCHANGED handshakes BY <2>1, <2>3 DEF releaseHandshake
      <3>2. \A i \in Ins : life'[i] = "negotiating" <=> life[i] = "negotiating"
        BY <2>1, <2>3 DEF Skeleton, Shapes, Peers
      <3> QED BY <1>2, <3>1, <3>2
    <2> QED BY <2>2, <2>3
  <1>5. CASE handleDonePeerMsg
    <2> DEFINE p == lifecycle[1].peer
    <2>1. p \in Peers /\ life[p] = "ended" /\ life' = [life EXCEPT ![p] = "none"]
      BY <1>5, FirstEvent, EventFacts DEF handleDonePeerMsg, Event, Skeleton
    <2>2. \A i \in Ins : life'[i] = "negotiating" <=> life[i] = "negotiating"
      BY <2>1 DEF Skeleton, Shapes, Peers
    <2> QED BY <1>2, <1>5, <2>2 DEF handleDonePeerMsg, inboundVars
  <1>6. ASSUME NEW r \in Reqs, Attempt(r) PROVE Handshakes'
    <2>1. UNCHANGED handshakes
      BY <1>6 DEF Attempt, NewConnReq, registerPending, handleConnected, handleFailed,
                  Replace, inboundVars
    <2>2. \A i \in Ins : life'[i] = life[i]
      BY <1>6 DEF Attempt, NewConnReq, registerPending, handleConnected, handleFailed,
                  Replace, Skeleton, Shapes, Peers
    <2> QED BY <1>2, <2>1, <2>2
  <1>7. CASE UNCHANGED <<handshakes, life>> BY <1>2, <1>7
  <1> QED
    BY <1>3, <1>4, <1>5, <1>6, <1>7
    DEF Next, connectNode, Drop, disconnectNode, handleAddPeerMsg, inboundVars

\* The outbound peers in the lists, per address.
Listed(a) == {p \in tracked \cap Reqs : req[p].addr = a}
Groups ==
    /\ groups \in [Addrs -> Nat]
    /\ \A a \in Addrs : groups[a] = Cardinality(Listed(a))

\* A peer that leaves the lists is no longer counted.
LEMMA UntrackGroups ==
    ASSUME Skeleton, Groups, NEW p \in Peers,
           tracked' = tracked \ {p}, groups' = untrack(p),
           \A q \in tracked' \cap tracked \cap Reqs : req'[q] = req[q]
    PROVE  Groups'
  <1> USE PeersAssumption
  <1>1. CASE p \in tracked \cap Reqs
    <2>1. PICK b \in Addrs : b = req[p].addr
      BY <1>1 DEF Skeleton, Running, Request, Peers
    <2>2. \A a \in Addrs : a # b => Listed(a)' = Listed(a) BY <2>1 DEF Listed
    <2>3. Listed(b)' = Listed(b) \ {p} /\ p \in Listed(b)
      BY <1>1, <2>1 DEF Listed
    <2>4. IsFiniteSet(Listed(b)) BY Finite DEF Listed, Peers
    <2>5. /\ Cardinality(Listed(b)') = Cardinality(Listed(b)) - 1
          /\ Cardinality(Listed(b)') \in Nat
      BY <2>3, <2>4, CountRemove, FS_RemoveElement, FS_CardinalityType
    <2>6. groups' = [groups EXCEPT ![b] = @ - 1] BY <1>1, <2>1 DEF untrack
    <2> QED BY <2>2, <2>5, <2>6 DEF Groups
  <1>2. CASE p \notin tracked \cap Reqs
    <2>1. UNCHANGED groups BY <1>2 DEF untrack
    <2>2. \A a \in Addrs : Listed(a)' = Listed(a) BY <1>2 DEF Listed
    <2> QED BY <2>1, <2>2 DEF Groups
  <1> QED BY <1>1, <1>2

LEMMA GroupsNext ==
    ASSUME Skeleton, Groups, Next
    PROVE  Groups'
  <1> USE PeersAssumption
  <1>0. \A q \in tracked' \cap tracked \cap Reqs : req'[q] = req[q]
    BY AddressKept DEF AddressesStay
  <1>1. CASE UNCHANGED <<tracked, groups>>
    <2>1. \A a \in Addrs : Listed(a)' = Listed(a) BY <1>0, <1>1 DEF Listed
    <2> QED BY <1>1, <2>1 DEF Groups
  <1>2. CASE handleDonePeerMsg
    <2>1. lifecycle[1].peer \in Peers
      BY <1>2, FirstEvent DEF handleDonePeerMsg, Event, Skeleton
    <2> QED BY <1>0, <1>2, <2>1, UntrackGroups DEF handleDonePeerMsg
  <1>3. ASSUME NEW p \in Peers, disconnectNode(p) PROVE Groups'
    BY <1>0, <1>3, UntrackGroups DEF disconnectNode
  <1>4. CASE handleAddPeerMsg
    <2> DEFINE p == lifecycle[1].peer
    <2>1. UNCHANGED req BY <1>4 DEF handleAddPeerMsg, connVars
    <2>2. CASE track(p)
      <3>1. p \in Peers /\ p \notin tracked /\ life[p] \in {"active", "ended"}
        BY <1>4, FirstEvent, EventFacts DEF handleAddPeerMsg, Event, Skeleton, Channel
      <3>2. CASE p \in Reqs
        <4>1. PICK b \in Addrs : b = req[p].addr BY <3>1, <3>2 DEF Skeleton, Request
        <4>2. \A a \in Addrs : a # b => Listed(a)' = Listed(a)
          BY <2>1, <2>2, <4>1 DEF Listed, track
        <4>3. Listed(b)' = Listed(b) \cup {p} /\ p \notin Listed(b)
          BY <2>1, <2>2, <3>1, <3>2, <4>1 DEF Listed, track
        <4>4. Cardinality(Listed(b)') = Cardinality(Listed(b)) + 1
          <5>1. IsFiniteSet(Listed(b)) BY Finite DEF Listed, Peers
          <5> QED BY <4>3, <5>1, CountAdd
        <4>5. groups' = [groups EXCEPT ![b] = @ + 1] BY <2>2, <3>2, <4>1 DEF track
        <4> QED BY <4>2, <4>4, <4>5 DEF Groups
      <3>3. CASE p \notin Reqs
        <4>1. \A a \in Addrs : Listed(a)' = Listed(a) BY <2>1, <2>2, <3>3 DEF Listed, track
        <4> QED BY <2>2, <3>3, <4>1 DEF Groups, track
      <3> QED BY <3>2, <3>3
    <2> QED BY <1>1, <1>4, <2>2 DEF handleAddPeerMsg, serverVars
  <1> QED
    BY <1>1, <1>2, <1>3, <1>4
    DEF Next, Attempt, NewConnReq, registerPending, handleConnected, handleFailed, Replace,
        connectNode, inboundPeerConnected, Drop, Lifecycle, peerAdd, peerDone, serverVars

\* A peer is listed while there is room, or in place of an open one, or the
\* history says that it was not.
Budget == ghost \in BOOLEAN /\ PeerBudget

LEMMA BudgetNext ==
    ASSUME Skeleton, Budget, Next
    PROVE  Budget'
  <1> USE PeersAssumption
  <1> DEFINE Open == tracked \cap up
  <1>0. Open \subseteq Peers /\ IsFiniteSet(Open) /\ Cardinality(Open) \in Nat
    BY Finite DEF Skeleton, Shapes
  <1>1. CASE UNCHANGED ghost /\ Open' \subseteq Open
    <2>1. Cardinality(Open') <= Cardinality(Open) /\ Cardinality(Open') \in Nat
      BY <1>0, <1>1, FS_Subset, FS_CardinalityType
    <2>2. Cardinality(Open') <= MaxPeers \/ ghost BY <1>0, <2>1 DEF Budget, PeerBudget
    <2> QED BY <1>1, <2>2 DEF Budget, PeerBudget
  <1>2. CASE handleAddPeerMsg
    <2> DEFINE p == lifecycle[1].peer
    <2>1. CASE UNCHANGED tracked /\ UNCHANGED ghost /\ up' \subseteq up
      BY <1>1, <2>1
    <2>2. CASE ~full /\ track(p) /\ UNCHANGED <<up, ghost>>
      <3>1. tracked \subseteq Peers /\ IsFiniteSet(tracked) /\ Cardinality(tracked) \in Nat
        BY Finite DEF Skeleton, Shapes
      <3>2. Cardinality(tracked) + 1 <= MaxPeers BY <2>2, <3>1 DEF full
      <3>3. IsFiniteSet(tracked') /\ Cardinality(tracked') <= MaxPeers
        <4>1. tracked' = tracked \cup {p} BY <2>2 DEF track
        <4>2. /\ IsFiniteSet(tracked')
              /\ \/ Cardinality(tracked') = Cardinality(tracked)
                 \/ Cardinality(tracked') = Cardinality(tracked) + 1
          BY <3>1, <4>1, FS_AddElement
        <4> QED BY <3>1, <3>2, <4>2
      <3>4. Cardinality(Open') <= Cardinality(tracked')
        <4>1. Open' \subseteq tracked' OBVIOUS
        <4> QED BY <3>3, <4>1, FS_Subset
      <3>5. Cardinality(Open') \in Nat /\ Cardinality(tracked') \in Nat
        BY <3>3, FS_Subset, FS_CardinalityType
      <3>6. Cardinality(Open') <= MaxPeers BY <3>3, <3>4, <3>5
      <3> QED BY <2>2, <3>6 DEF Budget, PeerBudget
    <2>3. ASSUME NEW q \in tracked, Close({q}), ghost' = (ghost \/ q \notin up), track(p)
          PROVE  Budget'
      <3>1. ghost' \in BOOLEAN /\ (~ghost' => ~ghost /\ q \in up) BY <2>3 DEF Budget
      <3>2. ASSUME ~ghost' PROVE Cardinality(Open') <= MaxPeers
        <4>1. Cardinality(Open) <= MaxPeers /\ q \in Open
          BY <3>1, <3>2 DEF Budget, PeerBudget
        <4>2. /\ Cardinality(Open \ {q}) = Cardinality(Open) - 1 /\ IsFiniteSet(Open \ {q})
              /\ Cardinality(Open \ {q}) \in Nat
          BY <1>0, <4>1, FS_RemoveElement, FS_CardinalityType
        <4>3. /\ IsFiniteSet((Open \ {q}) \cup {p})
              /\ Cardinality((Open \ {q}) \cup {p}) <= Cardinality(Open)
              /\ Cardinality((Open \ {q}) \cup {p}) \in Nat
          <5>1. /\ IsFiniteSet((Open \ {q}) \cup {p})
                /\ \/ Cardinality((Open \ {q}) \cup {p}) = Cardinality(Open \ {q})
                   \/ Cardinality((Open \ {q}) \cup {p}) = Cardinality(Open \ {q}) + 1
            BY <4>2, FS_AddElement
          <5> QED BY <1>0, <4>2, <5>1, FS_CardinalityType
        <4>4. Open' \subseteq (Open \ {q}) \cup {p} BY <2>3 DEF Close, track
        <4>5. /\ Cardinality(Open') <= Cardinality((Open \ {q}) \cup {p})
              /\ Cardinality(Open') \in Nat
          BY <4>3, <4>4, FS_Subset, FS_CardinalityType
        <4> QED BY <1>0, <4>1, <4>3, <4>5
      <3> QED BY <3>1, <3>2 DEF Budget, PeerBudget
    <2> QED BY <1>2, <2>1, <2>2, <2>3
            DEF handleAddPeerMsg, Close, serverVars, evictable, Inbound
  <1>3. ASSUME NEW r \in Reqs, handleConnected(r) PROVE Budget'
    <2>1. r \notin tracked
      BY <1>3 DEF handleConnected, Skeleton, Request, Running, At, Peers
    <2> QED BY <1>1, <1>3, <2>1 DEF handleConnected, serverVars, history
  <1>4. ASSUME NEW i \in Ins, inboundPeerConnected(i) PROVE Budget'
    <2>1. i \notin tracked
      BY <1>4 DEF inboundPeerConnected, Skeleton, Running, Peers
    <2> QED BY <1>1, <1>4, <2>1 DEF inboundPeerConnected, serverVars, history
  <1> QED
    BY <1>1, <1>2, <1>3, <1>4
    DEF Next, Attempt, NewConnReq, registerPending, handleFailed, Replace, connectNode, Drop,
        Lifecycle, peerAdd, peerDone, disconnectNode, Close, handleDonePeerMsg, serverVars,
        history

-----------------------------------------------------------------------------
(* The theorems.                                                           *)

Counts ==
    /\ Balance /\ Slots /\ Handshakes /\ Groups /\ Budget
    /\ commands \in 0 .. MaxCommands
    /\ removed \subseteq Reqs

PeersInv == Skeleton /\ OnePerAddress /\ Counts

LEMMA PeersInit == Init => PeersInv
  <1> SUFFICES ASSUME Init PROVE PeersInv OBVIOUS
  <1> USE PeersAssumption, FS_EmptySet
  <1>1. Skeleton /\ Balance BY SkeletonInit, BalanceInit
  <1>2. OnePerAddress BY DEF Init, OnePerAddress, OneRequestPerAddress, OnePeerPerAddress
  <1>3. Slots
    <2>1. up \cap Ins = {} BY DEF Init
    <2> QED BY <2>1 DEF Init, Slots
  <1>4. Handshakes
    <2>1. \A s \in Sources : Negotiating(s) = {} BY DEF Init, Negotiating, Peers
    <2> QED BY <2>1 DEF Init, Handshakes
  <1>5. Groups
    <2>1. \A a \in Addrs : Listed(a) = {} BY DEF Init, Listed
    <2> QED BY <2>1 DEF Init, Groups
  <1>6. Budget /\ commands \in 0 .. MaxCommands
    <2>1. tracked \cap up = {} BY DEF Init
    <2>2. Cardinality(tracked \cap up) <= MaxPeers BY <2>1
    <2>3. PeerBudget BY <2>2 DEF PeerBudget
    <2>4. ghost \in BOOLEAN
      <3>1. ghost = FALSE BY DEF Init
      <3> QED BY <3>1
    <2>5. commands = 0 BY DEF Init
    <2>6. 0 \in 0 .. MaxCommands OBVIOUS
    <2> QED BY <2>3, <2>4, <2>5, <2>6 DEF Budget
  <1>7. removed \subseteq Reqs BY DEF Init
  <1> QED BY <1>1, <1>2, <1>3, <1>4, <1>5, <1>6, <1>7 DEF PeersInv, Counts

LEMMA PeersNext == PeersInv /\ [Next]_vars => PeersInv'
  <1> SUFFICES ASSUME PeersInv, [Next]_vars PROVE PeersInv'
    OBVIOUS
  <1>1. CASE Next
    <2>1. Skeleton' /\ OnePerAddress'
      BY <1>1, SkeletonNext, OneRequestNext, OnePeerNext DEF PeersInv, OnePerAddress
    <2>2. (Balance /\ Slots /\ Handshakes /\ Groups /\ Budget)'
      BY <1>1, BalanceNext, SlotsNext, HandshakesNext, GroupsNext, BudgetNext
      DEF PeersInv, Counts
    <2>3. commands' \in 0 .. MaxCommands
      <3>1. UNCHANGED commands \/ (commands < MaxCommands /\ commands' = commands + 1)
        BY <1>1
        DEF Next, Attempt, NewConnReq, registerPending, handleConnected,
            handleFailed, Replace, connectNode, inboundPeerConnected, Drop, Lifecycle,
            peerAdd, peerDone, disconnectNode, handleAddPeerMsg, handleDonePeerMsg
      <3> QED BY <3>1, PeersAssumption DEF PeersInv, Counts
    <2>4. removed' \subseteq Reqs
      <3>1. removed' \subseteq removed \cup Reqs
        BY <1>1
        DEF Next, Attempt, NewConnReq, registerPending, handleConnected,
            handleFailed, Replace, connectNode, inboundPeerConnected, Drop, Lifecycle,
            peerAdd, peerDone, disconnectNode, handleAddPeerMsg, handleDonePeerMsg, history
      <3> QED BY <3>1 DEF PeersInv, Counts
    <2> QED BY <2>1, <2>2, <2>3, <2>4 DEF PeersInv, Counts
  <1>2. CASE UNCHANGED vars
    <2>1. Skeleton' BY <1>2, SkeletonNext DEF PeersInv
    <2>2. OnePerAddress'
      BY <1>2 DEF PeersInv, OnePerAddress, OneRequestPerAddress, OnePeerPerAddress, vars,
                  connVars, serverVars
    <2>3. Counts'
      BY <1>2 DEF PeersInv, Counts, Balance, Books, SlotsConserved, Slots, Handshakes,
                  Negotiating, Groups, Listed, Budget, PeerBudget, vars, connVars,
                  serverVars, inboundVars, history
    <2> QED BY <2>1, <2>2, <2>3 DEF PeersInv
  <1> QED BY <1>1, <1>2

LEMMA PeersInvariant == Spec => []PeersInv
  BY PeersInit, PeersNext, PTL DEF Spec

\* Every slot, handshake and group that is counted belongs to a connection that
\* is there (releaseHandshake, limitedInboundConn.Close, untrackOutbound), and
\* the open peers in the lists stay within MaxPeers.
THEOREM AccountsAlways == Spec => []AccountsExact
  <1>1. PeersInv => AccountsExact
    <2> SUFFICES ASSUME PeersInv PROVE AccountsExact OBVIOUS
    <2>1. TypeOK
      <3>1. pending \cap conns = {}
        BY DEF PeersInv, Skeleton, Shapes, Request, At, Steps
      <3> QED BY <3>1 DEF PeersInv, Skeleton, Shapes, Counts, Balance, Books, Slots, Handshakes,
                      Groups, Budget, TypeOK
    <2> QED BY <2>1 DEF PeersInv, Counts, Slots, Handshakes, Negotiating, Groups, Listed, Budget,
                    AccountsExact, SlotsHeld, GroupsExact
  <1> QED BY <1>1, PeersInvariant, PTL

\* TargetOutbound automatic connections and attempts, plus those onetry adds,
\* minus the v1 attempts that are not made (handleFailedConn, Disconnect).
THEOREM SlotsAlways == Spec => []SlotsConserved
  <1>1. PeersInv => SlotsConserved BY DEF PeersInv, Counts, Balance
  <1> QED BY <1>1, PeersInvariant, PTL

\* registerPending and sameAddress leave one request of the operator and one
\* open outbound peer per address.
THEOREM OnePerAddressAlways == Spec => []OnePerAddress
  <1>1. PeersInv => OnePerAddress BY DEF PeersInv
  <1> QED BY <1>1, PeersInvariant, PTL

\* No list keeps a peer whose end was handled (handleDonePeerMsg), although the
\* peer handler may take its add event after it left.
THEOREM NoGhostAlways == Spec => []NoGhostPeer
  <1>1. PeersInv => NoGhostPeer
    BY DEF PeersInv, Skeleton, Shapes, Running, NoGhostPeer
  <1> QED BY <1>1, PeersInvariant, PTL

\* No failed dial, lost connection or late event ends a permanent request that
\* the operator did not remove (handleFailedConn, Disconnect).
THEOREM PermanentAlways == Spec => []PermanentKept
  <1>1. PeersInv => PermanentKept
    BY DEF PeersInv, Skeleton, Shapes, Request, At, Permanent, Free, Steps, PermanentKept
  <1> QED BY <1>1, PeersInvariant, PTL
=============================================================================
