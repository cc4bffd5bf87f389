------------------------------- MODULE Peers --------------------------------
(***************************************************************************)
(* The connection manager (connmgr/connmanager.go), the inbound admission  *)
(* of handshakes (internal/inbound/admission.go) and the peer handler of   *)
(* the server (server.go), which use one another in both directions: the   *)
(* manager dials and calls back, a lifecycle goroutine per peer reports to *)
(* the peer handler, and the peer handler tells the manager which requests *)
(* to retry, to drop and to replace.                                       *)
(*                                                                         *)
(* connHandler receives from an unbuffered channel and never blocks, so a  *)
(* send to it and what it does with the message are one step.  A request   *)
(* nobody refers to any more is used again for a new one: only the number  *)
(* of requests at one time is bounded.  Delays are abstracted to their     *)
(* order, and an address stands for its network group and its IP.          *)
(***************************************************************************)
EXTENDS Naturals, Integers, Sequences, FiniteSets

CONSTANTS
    Reqs,           \* bound: connection requests at one time
    Ins,            \* bound: inbound connections at one time
    Addrs, Sources, \* outbound addresses; source prefixes
    Source,         \* of every inbound connection
    Whitelisted,    \* of the inbound connections
    TargetOutbound, MaxPeers, MaxPeersPerIP, MaxPendingPerSource,
    MaxCommands,    \* bound: addnode commands of the operator
    None

ASSUME PeersAssumption ==
    /\ Reqs \cap Ins = {} /\ IsFiniteSet(Reqs) /\ IsFiniteSet(Ins)
    /\ Source \in [Ins -> Sources] /\ Whitelisted \subseteq Ins
    /\ None \notin Addrs
    /\ TargetOutbound \in 1 .. Cardinality(Reqs)
    /\ MaxPeers \in Nat \ {0} /\ MaxPeersPerIP \in Nat \ {0}
    /\ MaxPendingPerSource \in Nat \ {0} /\ MaxCommands \in Nat

VARIABLES
    req,            \* the requests: kind, address, what works on it
    pending, conns, \* the maps of connHandler
    life,           \* per peer: its lifecycle goroutine
    up,             \* peers whose connection is open
    lifecycle,      \* the channel of lifecycle events
    tracked,        \* the three maps of peerState
    groups,         \* outboundGroups, outboundIPs
    slots,          \* inboundSlots in use
    handshakes,     \* pendingBySource
    synced,         \* peers the sync manager knows
    commands,
    extra, lost, ghost, \* history: see SlotsConserved and PeerBudget
    removed             \* history: permanent requests of peers the operator removed

connVars == <<req, pending, conns>>
serverVars == <<tracked, groups, synced>>
inboundVars == <<slots, handshakes>>
history == <<extra, lost, ghost, removed>>
vars == <<connVars, life, up, lifecycle, serverVars, inboundVars, commands, history>>

Peers == Reqs \cup Ins
Free == [kind |-> "none", addr |-> None, step |-> "free"]
NewReq(kind, a) == [kind |-> kind, addr |-> a, step |-> "register"]
At(r, step) == req[r].step = step
To(r, step) == req' = [req EXCEPT ![r].step = step]
Permanent(r) == req[r].kind = "perm"

-----------------------------------------------------------------------------
(* The connection manager.                                                 *)

\* One request, pending or established, per address.
dup(r) == \E q \in pending \cup conns : req[q].addr = req[r].addr

\* NewConnReq: registered before it has an address, an automatic request gets
\* one that no outbound peer has at this moment, or fails.
NewConnReq(r) ==
    /\ At(r, "register") /\ req[r].addr = None
    /\ pending' = pending \cup {r}
    /\ \/ \E a \in Addrs :
             /\ groups[a] = 0
             /\ req' = [req EXCEPT ![r].addr = a, ![r].step = "dial"]
       \/ To(r, "replace")
    /\ UNCHANGED <<conns, life, up, lifecycle, serverVars, inboundVars, commands, history>>

\* registerPending: a second request for an address is canceled.
registerPending(r) ==
    /\ At(r, "register") /\ req[r].addr # None
    /\ \/ /\ ~dup(r)
          /\ pending' = pending \cup {r}
          /\ To(r, "dial")
       \/ /\ dup(r)
          /\ req' = [req EXCEPT ![r] = Free]
          /\ UNCHANGED pending
    /\ UNCHANGED <<conns, life, up, lifecycle, serverVars, inboundVars, commands, history>>

\* Connect succeeds: handleConnected, and outboundPeerConnected in a goroutine
\* that makes the peer.  (A peer that cannot be made is as good as a failed dial.)
\* A request that is no longer pending is ignored and its connection closed.
handleConnected(r) ==
    /\ At(r, "dial")
    /\ pending' = pending \ {r}
    /\ conns' = IF r \in pending THEN conns \cup {r} ELSE conns
    /\ life' = [life EXCEPT ![r] = IF r \in pending THEN "negotiating" ELSE @]
    /\ up' = IF r \in pending THEN up \cup {r} ELSE up
    /\ To(r, "idle")
    /\ UNCHANGED <<lifecycle, serverVars, inboundVars, commands, history>>

\* Connect fails: handleFailed and handleFailedConn.  A permanent request is
\* dialled again after a delay, any other is replaced.
handleFailed(r) ==
    /\ At(r, "dial")
    /\ To(r, IF r \notin pending THEN "idle"
             ELSE IF Permanent(r) THEN "dial" ELSE "replace")
    /\ UNCHANGED <<pending, conns, life, up, lifecycle, serverVars, inboundVars,
                   commands, history>>

\* Remove(id), then NewConnReq.
\* Mutant: no new request.
RemoveOnly(r) ==
    /\ req' = [req EXCEPT ![r] = Free]
    /\ pending' = pending \ {r} /\ conns' = conns \ {r}
    /\ extra' = IF req[r].kind = "try" THEN extra + 1 ELSE extra
    /\ UNCHANGED lost
RemoveAndRenew(r) ==
    /\ req' = [req EXCEPT ![r] = NewReq("auto", None)]
    /\ pending' = pending \ {r} /\ conns' = conns \ {r}
    /\ extra' = IF req[r].kind = "try" THEN extra + 1 ELSE extra
    /\ UNCHANGED lost

Replace(r) ==
    /\ At(r, "replace")
    /\ RemoveAndRenew(r)
    /\ UNCHANGED <<life, up, lifecycle, serverVars, inboundVars, commands, ghost,
                   removed>>

\* Requests that wait for their next attempt are pending again.
\* Mutant: they are not.
NotPendingAgain(r) == pending
PendingAgain(r) == pending \cup {r}

\* Disconnect: try again, if the request is permanent or connections are too
\* few; established permanent connections count.
Disconnect(r) ==
    /\ conns' = conns \ {r}
    /\ \/ /\ Permanent(r) \/ Cardinality(conns') < TargetOutbound
          /\ pending' = PendingAgain(r)
          /\ To(r, "dial")
          /\ UNCHANGED lost
       \/ /\ ~Permanent(r) /\ Cardinality(conns') >= TargetOutbound
          /\ req' = [req EXCEPT ![r] = Free]
          /\ lost' = IF req[r].kind = "auto" THEN lost + 1 ELSE lost
          /\ UNCHANGED pending
    /\ UNCHANGED extra

-----------------------------------------------------------------------------
(* Connections.                                                            *)

\* limitedInboundConn.Close
releaseSlots(n) == slots - n

\* limitInbound reserves a slot; inboundPeerConnected reserves one of the slots
\* of its source for the handshake.  Where either is refused the connection is
\* closed and nothing stays reserved.
inboundPeerConnected(i) ==
    /\ life[i] = "none" /\ i \in Ins
    /\ slots < MaxPeers
    /\ handshakes[Source[i]] < MaxPendingPerSource
    /\ slots' = slots + 1
    /\ handshakes' = [handshakes EXCEPT ![Source[i]] = @ + 1]
    /\ life' = [life EXCEPT ![i] = "negotiating"]
    /\ up' = up \cup {i}
    /\ UNCHANGED <<connVars, lifecycle, serverVars, commands, history>>

\* peer.Disconnect of some peers, which closes their connections.
Close(ps) ==
    /\ up' = up \ ps
    /\ slots' = releaseSlots(Cardinality(ps \cap up \cap Ins))

\* The remote side leaves, a ban, a timeout.
Drop(p) ==
    /\ p \in up
    /\ Close({p})
    /\ UNCHANGED <<connVars, life, lifecycle, serverVars, handshakes, commands, history>>

\* releaseHandshake, once per peer.
releaseHandshake(p) ==
    IF p \in Ins /\ life[p] = "negotiating"
    THEN [handshakes EXCEPT ![Source[p]] = @ - 1] ELSE handshakes

\* The channel holds two events per peer.
Send(e) ==
    /\ Len(lifecycle) < 2 * MaxPeers
    /\ lifecycle' = Append(lifecycle, e)

\* peerLifecycleHandler: the handshake is complete; the peer may have left since.
peerAdd(p) ==
    /\ life[p] = "negotiating"
    /\ Send([action |-> "add", peer |-> p, added |-> TRUE, v1 |-> FALSE])
    /\ life' = [life EXCEPT ![p] = "active"]
    /\ handshakes' = releaseHandshake(p)
    /\ UNCHANGED <<connVars, up, serverVars, slots, commands, history>>

\* The add event was sent, whatever became of it.
\* Mutant: the peer is in the lists.
peerAddedTracked(p) == p \in tracked
peerAdded(p) == life[p] = "active"

\* peerLifecycleHandler: the connection is closed.  A failed v2 handshake asks
\* for another attempt with v1.
peerDone(p, v1) ==
    /\ life[p] \in {"negotiating", "active"} /\ p \notin up
    /\ v1 => life[p] = "negotiating" /\ p \in Reqs
    /\ Send([action |-> "done", peer |-> p, added |-> peerAdded(p), v1 |-> v1])
    /\ life' = [life EXCEPT ![p] = "ended"]
    /\ handshakes' = releaseHandshake(p)
    /\ UNCHANGED <<connVars, up, serverVars, slots, commands, history>>

-----------------------------------------------------------------------------
(* The peer handler.                                                       *)

Event(action) == lifecycle # <<>> /\ lifecycle[1].action = action
Outbound == tracked \cap Reqs           \* outboundPeers and persistentPeers
Inbound == tracked \cap Ins

\* Mutant: peers at the same address are not looked for.
sameAddressIgnored(p) == FALSE
sameAddress(p) ==
    \E q \in (tracked \cap up \cap Reqs) \ {p} : req[q].addr = req[p].addr

refused(p) ==
    IF p \in Reqs THEN sameAddress(p)
    ELSE \/ /\ p \notin Whitelisted
            /\ Cardinality({q \in tracked \cap up \cap Ins : Source[q] = Source[p]})
                  >= MaxPeersPerIP
         \/ Cardinality(Inbound) >= MaxPeers - Cardinality(Outbound)

full == Cardinality(tracked) >= MaxPeers
evictable(p) == IF p \in Reqs THEN Inbound \ Whitelisted ELSE {}

track(p) ==
    /\ tracked' = tracked \cup {p}
    /\ groups' = IF p \in Reqs THEN [groups EXCEPT ![req[p].addr] = @ + 1] ELSE groups
    /\ synced' = synced \cup {p}

\* handleAddPeerMsg.  A peer that left in the meantime is not added.  A peer may
\* be unwanted or banned, or there is no room: it is disconnected.
handleAddPeerMsg ==
    LET p == lifecycle[1].peer IN
    /\ Event("add")
    /\ lifecycle' = Tail(lifecycle)
    /\ \/ /\ p \notin up
          /\ UNCHANGED <<up, slots, serverVars, ghost>>
       \/ /\ p \in up
          /\ Close({p})
          /\ UNCHANGED <<serverVars, ghost>>
       \/ /\ p \in up /\ ~refused(p) /\ ~full
          /\ track(p)
          /\ UNCHANGED <<up, slots, ghost>>
       \/ /\ p \in up /\ ~refused(p) /\ full
          /\ \E q \in evictable(p) :
                /\ Close({q})
                /\ ghost' = (ghost \/ q \notin up)
          /\ track(p)
    /\ UNCHANGED <<connVars, life, handshakes, commands, extra, lost, removed>>

\* untrackOutbound and the removal from the list of a peer that is in it.
\* Mutant: of any peer.
untrackAny(p) ==
    IF p \in Reqs THEN [groups EXCEPT ![req[p].addr] = @ - 1] ELSE groups
untrack(p) ==
    IF p \in tracked \cap Reqs THEN [groups EXCEPT ![req[p].addr] = @ - 1] ELSE groups

\* handleDonePeerMsg.
handleDonePeerMsg ==
    LET e == lifecycle[1]
        p == e.peer
    IN
    /\ Event("done")
    /\ lifecycle' = Tail(lifecycle)
    /\ life' = [life EXCEPT ![p] = "none"]
    /\ tracked' = tracked \ {p}
    /\ groups' = untrack(p)
    /\ synced' = IF e.added THEN synced \ {p} ELSE synced
    /\ \/ /\ p \in Reqs /\ (Permanent(p) \/ e.v1)
          /\ Disconnect(p)
       \/ /\ p \in Reqs /\ ~Permanent(p) /\ ~e.v1
          /\ RemoveAndRenew(p)
       \/ /\ p \in Ins
          /\ UNCHANGED <<connVars, extra, lost>>
    /\ UNCHANGED <<up, inboundVars, commands, ghost, removed>>

\* handleQuery: connectNodeMsg.
connectNode(r, a, permanent) ==
    /\ commands < MaxCommands
    /\ commands' = commands + 1
    /\ req[r] = Free
    /\ ~full
    /\ \A q \in Outbound : Permanent(q) => req[q].addr # a
    /\ req' = [req EXCEPT ![r] = NewReq(IF permanent THEN "perm" ELSE "try", a)]
    /\ UNCHANGED <<pending, conns, life, up, lifecycle, serverVars, inboundVars, history>>

\* handleQuery: removeNodeMsg of a persistent peer, disconnectNodeMsg of another.
\* The peer leaves the lists and is disconnected; the connection manager is not
\* told, so the permanent request of a removed peer is dialled again.
disconnectNode(p) ==
    /\ commands < MaxCommands
    /\ commands' = commands + 1
    /\ p \in tracked
    /\ tracked' = tracked \ {p}
    /\ groups' = untrack(p)
    /\ Close({p})
    /\ removed' = IF p \in Reqs /\ Permanent(p) THEN removed \cup {p} ELSE removed
    /\ UNCHANGED <<connVars, life, lifecycle, synced, handshakes, extra, lost, ghost>>

-----------------------------------------------------------------------------
\* Start: TargetOutbound requests.  Permanent ones come with connectNode.
Init ==
    /\ \E R \in SUBSET Reqs :
          /\ Cardinality(R) = TargetOutbound
          /\ req = [r \in Reqs |-> IF r \in R THEN NewReq("auto", None) ELSE Free]
    /\ pending = {} /\ conns = {}
    /\ life = [p \in Peers |-> "none"] /\ up = {}
    /\ lifecycle = <<>>
    /\ tracked = {} /\ synced = {} /\ groups = [a \in Addrs |-> 0]
    /\ slots = 0 /\ handshakes = [s \in Sources |-> 0]
    /\ commands = 0 /\ extra = 0 /\ lost = 0 /\ ghost = FALSE /\ removed = {}

Attempt(r) ==
    \/ NewConnReq(r) \/ registerPending(r) \/ handleConnected(r) \/ handleFailed(r)
    \/ Replace(r)
Lifecycle(p) == peerAdd(p) \/ \E v1 \in BOOLEAN : peerDone(p, v1)

Next ==
    \/ \E r \in Reqs :
          \/ Attempt(r)
          \/ \E a \in Addrs, permanent \in BOOLEAN : connectNode(r, a, permanent)
    \/ \E i \in Ins : inboundPeerConnected(i)
    \/ \E p \in Peers : Drop(p) \/ Lifecycle(p) \/ disconnectNode(p)
    \/ handleAddPeerMsg \/ handleDonePeerMsg

Spec == Init /\ [][Next]_vars

-----------------------------------------------------------------------------
(* Properties.                                                             *)

Kinds == {"none", "auto", "perm", "try"}
Steps == {"free", "register", "dial", "replace", "idle"}

TypeOK ==
    /\ req \in [Reqs -> [kind : Kinds, addr : Addrs \cup {None}, step : Steps]]
    /\ pending \subseteq Reqs /\ conns \subseteq Reqs /\ pending \cap conns = {}
    /\ life \in [Peers -> {"none", "negotiating", "active", "ended"}]
    /\ up \subseteq Peers /\ tracked \subseteq Peers /\ synced \subseteq Peers
    /\ Len(lifecycle) <= 2 * MaxPeers
    /\ groups \in [Addrs -> Nat] /\ handshakes \in [Sources -> Nat]
    /\ slots \in 0 .. MaxPeers /\ commands \in 0 .. MaxCommands
    /\ extra \in Nat /\ lost \in Nat /\ ghost \in BOOLEAN
    /\ removed \subseteq Reqs

\* The number of automatic connections and attempts at one is TargetOutbound,
\* whatever fails, leaves or is replaced.  Two things change it: the end of a
\* connection of addnode onetry adds one, and a v1 attempt that is not made
\* because permanent connections count loses one.
SlotsConserved ==
    Cardinality({r \in Reqs : req[r].kind = "auto"}) = TargetOutbound + extra - lost

\* Among the requests of the operator, one at most is pending or established per
\* address ("keep at most one connection request (pending or active) per address").
OneRequestPerAddress ==
    \A q, r \in pending \cup conns :
        q # r /\ {req[q].kind, req[r].kind} \subseteq {"perm", "try"} =>
            req[q].addr # req[r].addr

\* One open outbound peer at most per address is in the server's lists, although
\* addresses are chosen before the peers they are compared with are there.
OnePeerPerAddress ==
    \A p, q \in tracked \cap up \cap Reqs : p # q => req[p].addr # req[q].addr

\* outboundGroups and outboundIPs count the outbound peers in the lists.
GroupsExact ==
    \A a \in Addrs : groups[a] = Cardinality({p \in tracked \cap Reqs : req[p].addr = a})

\* Every inbound slot belongs to an open connection, and every handshake slot to
\* a handshake that is under way.
SlotsHeld ==
    /\ slots = Cardinality(up \cap Ins)
    /\ \A s \in Sources :
          handshakes[s] = Cardinality({i \in Ins : Source[i] = s /\ life[i] = "negotiating"})

\* The open peers in the lists are at most MaxPeers, unless a peer that had
\* already left was evicted to make room.
PeerBudget == ~ghost => Cardinality(tracked \cap up) <= MaxPeers

\* A peer in the server's lists or with the sync manager is open, or its end
\* will still be reported: no list keeps a peer for ever.
NoGhostPeer == \A p \in tracked \cup synced : life[p] \in {"active", "ended"}

\* A permanent request that the operator did not remove is established, or it is
\* pending and will be dialled: no failed dial, lost connection or late event of
\* its peer ends it.  (A second request for its address ends before it is
\* registered.  Of a removed one nothing is said: "remove" is documented to
\* remove the persistent peer, and the request is dialled all the same.)
PermanentKept ==
    \A r \in Reqs \ removed : Permanent(r) =>
        \/ r \in conns /\ life[r] # "none"
        \/ r \in pending /\ At(r, "dial")
        \/ At(r, "register")

\* Slots, handshakes, groups and the limits on them count the connections there
\* are, although admission, peers and server learn of an end at different times.
AccountsExact == TypeOK /\ SlotsHeld /\ GroupsExact /\ PeerBudget

\* One request of the operator and one open outbound peer per address.
OnePerAddress == OneRequestPerAddress /\ OnePeerPerAddress
=============================================================================
