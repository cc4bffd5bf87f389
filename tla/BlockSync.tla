------------------------------ MODULE BlockSync ------------------------------
(***************************************************************************)
(* The parallel block download of netsync/manager.go once the headers are  *)
(* there: slices of heights over several peers, the maps of requested      *)
(* blocks, the stall handling that takes slices and requests back, late    *)
(* and missing answers, and peers that come and go.                        *)
(*                                                                         *)
(* There is one chain, so a block is its height.  A peer answers the       *)
(* getdata requests it got in order.  A prompt peer answers within the     *)
(* interval of the stall ticker, any other late or never.  Clocks count    *)
(* samples of the ticker, which is also blockSliceStallTimeout.            *)
(***************************************************************************)
EXTENDS Integers, Sequences, FiniteSets, SequencesExt, FiniteSetsExt

CONSTANTS
    Peers,
    Prompt,             \* peers that answer before the next stall sample
    Tip,                \* [Peers -> Nat]: the chain a peer has
    Start,              \* header height when the download starts
    Window,             \* maxBlockRequestWindow
    SliceLen,
    InFlightTarget, MinInFlight,
    MaxSyncPeers,       \* maxHeaderSyncPeers
    StallSamples,       \* maxStallDuration, in samples
    UnavailableSamples, \* blockUnavailableTimeout, in samples
    MaxOwed,            \* bound: requests a peer that is not prompt remembers
    MaxLeaves,          \* bound: peers that leave by themselves
    None

VARIABLES
    hdr, best,          \* heights of the best header and the best chain
    orphans,            \* orphan blocks
    stored,             \* blocks accepted but not connected
    cursor,             \* BestDownloadState
    rowTop,             \* headers up to here have a row in the hash index
    conn, dead,         \* peerStates; disconnected, the server has yet to say so
    last,               \* Peer.LastBlock
    bsync,              \* blockSync, or None
    syncPeer, ibdMode,
    bs,                 \* blockSyncState
    req, preq,          \* requestedBlocks of the manager and of every peer
    owed,               \* getdata requests a peer has yet to answer
    quiet,              \* samples since lastProgressTime
    miss,               \* blockMissingHeight and samples since blockMissingSince
    started, leaves

vars == <<hdr, best, orphans, stored, cursor, rowTop, conn, dead, last, bsync,
          syncPeer, ibdMode, bs, req, preq, owed, quiet, miss, started, leaves>>

\* The fields a handler works on, the order in which it ranges over a map of
\* peers, and whether a clock of one sample is past the timeout.
State(order, late) ==
    [hdr |-> hdr, best |-> best, orphans |-> orphans, stored |-> stored,
     cursor |-> cursor, rowTop |-> rowTop, conn |-> conn, dead |-> dead,
     last |-> last, bsync |-> bsync, syncPeer |-> syncPeer, ibdMode |-> ibdMode,
     bs |-> bs, req |-> req, preq |-> preq, owed |-> owed, quiet |-> quiet,
     miss |-> miss, order |-> order, late |-> late, now |-> 0]

Becomes(outcome) ==
  \E s \in {outcome} :
    /\ hdr' = s.hdr /\ best' = s.best /\ orphans' = s.orphans /\ stored' = s.stored
    /\ cursor' = s.cursor /\ rowTop' = s.rowTop /\ conn' = s.conn /\ dead' = s.dead
    /\ last' = s.last /\ bsync' = s.bsync /\ syncPeer' = s.syncPeer
    /\ ibdMode' = s.ibdMode /\ bs' = s.bs /\ req' = s.req /\ preq' = s.preq
    /\ owed' = s.owed /\ quiet' = s.quiet /\ miss' = s.miss

Larger(a, b) == IF a > b THEN a ELSE b
Smaller(a, b) == IF a < b THEN a ELSE b

\* A clock: samples since it was set, at most 2, or -1 when it is not there.
Old(s, clock) == clock = 2 \/ (clock = 1 /\ s.late)
Aged(clock) == IF clock \in {0, 1} THEN clock + 1 ELSE clock

NoSlice == [start |-> 0, end |-> 0, age |-> 0, held |-> FALSE]
NoSlices == [on |-> FALSE, nextAssign |-> 0, slice |-> [p \in Peers |-> NoSlice],
             progress |-> [p \in Peers |-> -1], front |-> 0, frontAge |-> -1]

Members(s) == IF s.bsync = None THEN <<>> ELSE s.bsync
Busy(s, p) == s.bs.slice[p] # NoSlice

-----------------------------------------------------------------------------
(* The chain.                                                              *)

\* blockExists: accepted, or an orphan whose header has a row in the index.
Exists(s, h) == h <= s.best \/ h \in s.stored \/ (h \in s.orphans /\ h <= s.rowTop)
haveInventory(s, h) == h <= s.best \/ h \in s.stored \/ h \in s.orphans

\* maybeAcceptBlock up to h, with a payload for every block from best + 1.
Connect(s, h) ==
    [s EXCEPT !.best = h, !.stored = {k \in @ : k > h},
              !.hdr = Larger(@, h), !.cursor = Larger(@, h),
              !.rowTop = Larger(s.hdr, h)]

\* The blocks of ks that follow the tip.
RunOf(s, ks) ==
    LET ends == {h \in s.best .. s.best + Cardinality(ks) :
                    \A k \in s.best + 1 .. h : k \in ks}
    IN  Max(ends)
\* processOrphans: the orphans that follow are connected and leave the pool.
ConnectOrphans(s) ==
    LET end == RunOf(s, s.orphans) IN IF end = s.best THEN s ELSE Connect(s, end)
processOrphans(s) ==
    LET t == ConnectOrphans(s) IN [t EXCEPT !.orphans = @ \ (s.best + 1 .. t.best)]

\* ProcessBlock; result is "connected", "orphan" or "error".
ProcessBlock(s, h) ==
    LET kept == [s EXCEPT !.stored = @ \cup {h}, !.cursor = Larger(@, h),
                          !.rowTop = s.hdr]
        gap == {k \in s.best + 1 .. h - 1 : ~haveInventory(s, k)}
    IN  IF haveInventory(s, h) THEN [state |-> s, result |-> "error"]
        ELSE IF ~Exists(s, h - 1)
        THEN [state |-> [s EXCEPT !.orphans = @ \cup {h}], result |-> "orphan"]
        ELSE IF gap = {}
        THEN [state |-> processOrphans(Connect(s, h)), result |-> "connected"]
        ELSE [state |-> kept, result |-> "error"]

\* Stored blocks that follow the tip are connected, with the orphans whose
\* payload counts as stored: those stay in the orphan pool.
reconnectStoredBlocks(s) ==
    LET end == RunOf(s, {h \in s.stored \cup s.orphans : Exists(s, h)})
    IN  IF end = s.best THEN s ELSE Connect(s, Smaller(end, s.hdr))

-----------------------------------------------------------------------------
(* Slices and requests.                                                    *)

\* delete(bs.slices, start)
DropStart(s, start) ==
    [s EXCEPT !.bs.slice = [p \in Peers |->
        IF @[p].held /\ @[p].start = start THEN [@[p] EXCEPT !.held = FALSE] ELSE @[p]]]

releaseBlockSlice(s, p) ==
    IF s.bs.on /\ Busy(s, p)
    THEN [DropStart(s, s.bs.slice[p].start) EXCEPT !.bs.slice[p] = NoSlice]
    ELSE s

nextSliceBeyond(s, start) ==
    {s.bs.slice[p].start : p \in {q \in Peers : /\ s.bs.slice[q].held
                                                /\ s.bs.slice[q].start > start}}

\* The last height to ask for.  Mutant: whatever has a header.
AllHeaders(s) == s.hdr
Horizon(s) == Smaller(s.best + Window, s.hdr)

\* The slice from start, as far as the window and the next slice allow.
Hand(s, p, start, windowEnd) ==
    LET end == Min({start + SliceLen, windowEnd + 1} \cup nextSliceBeyond(s, start))
    IN  IF start > windowEnd THEN s
        ELSE [DropStart(s, start) EXCEPT
                !.bs.slice[p] = [start |-> start, end |-> end, age |-> s.now, held |-> TRUE],
                !.bs.nextAssign = IF start = @ THEN end ELSE @]

assignBlockSlice(s, p) ==
    LET windowEnd == Horizon(s)
        front == s.best + 1
        t == [s EXCEPT !.bs.nextAssign = Larger(@, front)]
        marked == IF t.bs.front = front THEN t
                  ELSE [t EXCEPT !.bs.front = front, !.bs.frontAge = s.now]
        stuck == Old(s, marked.bs.frontAge)
    IN  IF ~s.bs.on \/ Busy(s, p) THEN s
        ELSE IF front \in s.req
        THEN Hand([t EXCEPT !.bs.front = 0, !.bs.frontAge = -1], p, t.bs.nextAssign, windowEnd)
        ELSE IF front > windowEnd THEN t
        ELSE IF stuck
        THEN Hand([marked EXCEPT !.bs.progress[p] = s.now], p, front, windowEnd)
        ELSE IF Old(s, s.bs.progress[p]) THEN marked
        ELSE Hand(marked, p, front, windowEnd)

maxPeerServeHeight(s) == Max({0} \cup {s.last[p] : p \in s.conn})

\* A peer that is not prompt may forget what it was asked.
Ask(s, p, hs) ==
    [s EXCEPT !.req = @ \cup ToSet(hs), !.preq[p] = @ \cup ToSet(hs),
              !.owed[p] = IF p \in s.dead THEN @
                          ELSE IF p \in Prompt THEN @ \o hs
                          ELSE SubSeq(@ \o hs, 1, Smaller(MaxOwed, Len(@ \o hs)))]

\* The heights of a getdata message, and whether it reaches its end.
Wanted(s, from, to) ==
    SelectSeq([i \in 1 .. to - from + 1 |-> from + i - 1],
              LAMBDA h : ~haveInventory(s, h) /\ h \notin s.req)

buildBlockRequest(s, p) ==
    LET t == IF s.bs.on THEN assignBlockSlice(s, p) ELSE s
        serve == maxPeerServeHeight(s)
        served == IF serve > s.best THEN Smaller(Horizon(s), serve) ELSE Horizon(s)
        sl == t.bs.slice[p]
        from == IF t.bs.on THEN sl.start
                ELSE IF s.cursor > s.best /\ s.cursor <= s.hdr THEN s.cursor + 1
                ELSE s.best + 1
        to == IF t.bs.on THEN Smaller(served, sl.end - 1) ELSE served
        all == IF from > to THEN <<>> ELSE Wanted(t, from, to)
        hs == SubSeq(all, 1, Smaller(InFlightTarget, Len(all)))
        completed == Len(all) < InFlightTarget \/ all[InFlightTarget] = to
        asked == Ask(t, p, hs)
    IN  IF t.bs.on /\ ~Busy(t, p) THEN t
        ELSE IF t.bs.on /\ completed THEN releaseBlockSlice(asked, p)
        ELSE asked

fetchHeaderBlocks(s, p) == buildBlockRequest(s, p)

blkDownload(s) ==
    LET topUp(t, p) ==
            IF p \notin t.conn \/ Cardinality(t.preq[p]) >= MinInFlight THEN t
            ELSE fetchHeaderBlocks(t, p)
    IN  FoldLeft(topUp, reconnectStoredBlocks(s), Members(s))

\* Mutant: the manager's map keeps the blocks.
KeepRequested(s, p) == s
clearRequestedState(s, p) == [s EXCEPT !.req = @ \ s.preq[p]]

-----------------------------------------------------------------------------
(* Starting and restarting.                                                *)

blockSyncAddPeer(s, p) ==
    IF s.bsync = None \/ p \in ToSet(Members(s)) \/ Len(Members(s)) >= MaxSyncPeers
    THEN s
    ELSE fetchHeaderBlocks([s EXCEPT !.bsync = Append(@, p)], p)

\* No peer advertises more than the best header, so there are no headers to get.
startSync(s) ==
    LET higher == SelectSeq(s.order, LAMBDA p : p \in s.conn /\ s.last[p] > s.best)
        t == [s EXCEPT !.syncPeer = higher[1], !.ibdMode = TRUE, !.quiet = 0, !.bsync = <<>>]
    IN  IF s.syncPeer # None \/ higher = <<>> THEN s
        ELSE reconnectStoredBlocks(FoldLeft(blockSyncAddPeer, t, higher))

updateSyncPeer(s) == startSync([s EXCEPT !.syncPeer = None])

resetDownloadState(s) ==
    startSync([s EXCEPT !.bsync = None, !.bs = NoSlices, !.req = {},
                        !.preq = [p \in Peers |-> {}], !.syncPeer = None,
                        !.ibdMode = TRUE,
                        !.miss = [height |-> 0, samples |-> UnavailableSamples + 1]])

\* finishHeaderSync hands over the peers of the header round.
startParallelBlockDownload(s, ps) ==
    LET chosen == SubSeq(ps, 1, Smaller(Len(ps), MaxSyncPeers))
        others == SelectSeq(s.order, LAMBDA p : p \in s.conn /\ p \notin ToSet(chosen))
        folded == chosen \o SubSeq(others, 1,
                                   Smaller(Len(others), MaxSyncPeers - Len(chosen)))
        t == [s EXCEPT !.ibdMode = TRUE, !.bsync = folded,
                       !.bs = [NoSlices EXCEPT !.on = TRUE, !.nextAssign = s.best + 1],
                       !.syncPeer = folded[1], !.quiet = 0]
    IN  IF ps = <<>> THEN [s EXCEPT !.ibdMode = TRUE, !.bsync = <<>>]
        ELSE reconnectStoredBlocks(FoldLeft(fetchHeaderBlocks, t, folded))

-----------------------------------------------------------------------------
(* The stall sample.                                                       *)

reissueStaleBlockSlices(s) ==
    LET clock(p) == IF s.bs.progress[p] # -1 THEN s.bs.progress[p] ELSE s.bs.slice[p].age
        takers(p) == SelectSeq(Members(s), LAMBDA q : q # p /\ ~Busy(s, q))
        stale == SelectSeq(s.order, LAMBDA p :
                     s.bs.slice[p].held /\ Old(s, clock(p)) /\ takers(p) # <<>>)
        p0 == stale[1]
        sl == s.bs.slice[p0]
        freed == [DropStart(s, sl.start) EXCEPT
                     !.bs.slice[p0] = NoSlice,
                     !.req = @ \ {h \in sl.start .. sl.end - 1 : h <= s.hdr}]
    IN  IF stale = <<>> THEN s ELSE assignBlockSlice(freed, takers(p0)[1])

reissueStalledBlockPeers(s) ==
    LET visit(t, p) ==
            IF p \notin t.conn \/ t.preq[p] = {} THEN t
            ELSE IF t.bs.progress[p] = -1 THEN [t EXCEPT !.bs.progress[p] = t.now]
            ELSE IF ~Old(t, t.bs.progress[p]) THEN t
            ELSE [fetchHeaderBlocks(releaseBlockSlice(clearRequestedState(t, p), p), p)
                     EXCEPT !.bs.progress[p] = t.now]
    IN  FoldLeft(visit, s, Members(s))

\* The check of the front height: no peer advertises a height above the best
\* header, so rollbackFabricatedHeaderChain only skips.
checkFront(s) ==
    IF ~s.bs.on THEN s
    ELSE IF s.best # s.miss.height
    THEN [s EXCEPT !.miss = [height |-> s.best, samples |-> 0]]
    ELSE IF s.miss.samples > UnavailableSamples /\ maxPeerServeHeight(s) <= s.best
    THEN resetDownloadState(s)
    ELSE s

shouldDCStalledSyncPeer(s) == s.last[s.syncPeer] > s.best

\* Mutant: requests stay where they are.
LeaveBe(s) == s
rotate(s) ==
    IF s.syncPeer = None \/ s.quiet <= StallSamples \/ s.syncPeer \notin s.conn THEN s
    ELSE updateSyncPeer(
           [clearRequestedState(s, s.syncPeer) EXCEPT
               !.dead = IF shouldDCStalledSyncPeer(s) THEN @ \cup {s.syncPeer} ELSE @])

reissue(s) ==
    IF s.bs.on THEN blkDownload(reissueStalledBlockPeers(reissueStaleBlockSlices(s)))
    ELSE s

handleStallSample(s) == rotate(checkFront(reissue(s)))

\* The samples the clocks have seen when the ticker fires.
Later(s) ==
    [s EXCEPT !.quiet = Smaller(@ + 1, StallSamples + 1),
              !.miss.samples = Smaller(@ + 1, UnavailableSamples + 1),
              !.bs.frontAge = Aged(@),
              !.bs.progress = [p \in Peers |-> Aged(@[p])],
              !.bs.slice = [p \in Peers |->
                  IF Busy(s, p) THEN [@[p] EXCEPT !.age = Aged(@)] ELSE @[p]],
              !.now = 1]

-----------------------------------------------------------------------------
(* The messages the block handler takes.                                   *)

Orders == SetToSeqs(Peers)
Moods == {State(order, late) : order \in Orders, late \in BOOLEAN}

\* The end of the header round with peers ps (a round that lost all its peers
\* was torn down before), or a start with all headers there.
Begin(ps) ==
    /\ ~started /\ started' = TRUE
    /\ \E order \in Orders :
         \/ /\ ps # <<>> /\ ToSet(ps) \subseteq conn
            /\ Becomes(startParallelBlockDownload(State(order, FALSE), ps))
         \/ ps = <<>> /\ Becomes(startSync(State(order, FALSE)))
    /\ UNCHANGED leaves

\* handleBlockMsg after ProcessBlock accepted the block of height h.
Accepted(s, p, h, orphan) ==
    LET counts == IF s.ibdMode /\ s.bsync # None THEN p \in ToSet(Members(s))
                  ELSE p = s.syncPeer
        noted == IF orphan THEN [s EXCEPT !.last[p] = Larger(@, h)]
                 ELSE [s EXCEPT !.last[p] = Larger(@, s.best),
                                !.quiet = IF counts THEN 0 ELSE @]
    IN  IF ~s.ibdMode THEN noted
        ELSE IF orphan \/ h < s.hdr THEN blkDownload(noted)
        ELSE [noted EXCEPT !.ibdMode = FALSE]

\* The first request a peer has yet to answer is answered.
Answered(s, p) == [s EXCEPT !.owed[p] = Tail(@)]
Unrequested(s, p, h) == [s EXCEPT !.preq[p] = @ \ {h}, !.req = @ \ {h}]

handleBlockMsg(s, p, h) ==
    LET t == [Unrequested(s, p, h) EXCEPT
                 !.bs.progress[p] = IF s.bs.on THEN 0 ELSE @]
        done == ProcessBlock(t, h)
    IN  IF h \notin s.preq[p] THEN [s EXCEPT !.dead = @ \cup {p}]
        ELSE IF done.result = "error" THEN done.state
        ELSE Accepted(done.state, p, h, done.result = "orphan")

Deliver(p) ==
    /\ started /\ p \in conn /\ owed[p] # <<>> /\ Head(owed[p]) <= Tip[p]
    /\ \E s \in Moods : Becomes(handleBlockMsg(Answered(s, p), p, Head(owed[p])))
    /\ UNCHANGED <<started, leaves>>

\* A peer without the block says so.
handleNotFoundMsg(s, p, h) == IF h \in s.preq[p] THEN Unrequested(s, p, h) ELSE s

NotFound(p) ==
    /\ started /\ p \in conn /\ owed[p] # <<>> /\ Head(owed[p]) > Tip[p]
    /\ Becomes(handleNotFoundMsg(Answered(State(<<>>, FALSE), p), p, Head(owed[p])))
    /\ UNCHANGED <<started, leaves>>

\* A peer announces the next header.
handleHeadersMsg(s, p) ==
    LET t == [s EXCEPT !.hdr = @ + 1, !.last[p] = Larger(@, s.hdr + 1)]
        u == IF s.ibdMode /\ p = s.syncPeer THEN [t EXCEPT !.quiet = 0] ELSE t
    IN  IF s.ibdMode /\ s.syncPeer = None THEN t
        ELSE IF s.ibdMode /\ u.hdr < u.last[s.syncPeer] THEN u
        ELSE fetchHeaderBlocks(u, p)

Headers(p) ==
    /\ started /\ p \in conn /\ hdr < Tip[p]
    /\ \E s \in Moods : Becomes(handleHeadersMsg(s, p))
    /\ UNCHANGED <<started, leaves>>

\* The peers left in the download.
Without(ps, p) == SelectSeq(ps, LAMBDA q : q # p)

handleDonePeerMsg(s, p) ==
    LET t == [clearRequestedState(s, p) EXCEPT
                 !.conn = @ \ {p}, !.dead = @ \ {p}, !.preq[p] = {}, !.owed[p] = <<>>]
        u == IF s.bsync = None THEN t
             ELSE [releaseBlockSlice(t, p) EXCEPT !.bsync = Without(@, p)]
    IN  IF p = s.syncPeer THEN updateSyncPeer(u) ELSE u

DonePeer(p) ==
    /\ started /\ p \in conn
    /\ \/ p \in dead /\ UNCHANGED leaves
       \/ p \notin dead /\ p \notin Prompt /\ leaves < MaxLeaves /\ leaves' = leaves + 1
    /\ \E s \in Moods : Becomes(handleDonePeerMsg(s, p))
    /\ UNCHANGED started

\* The connection is a new object: nothing is known of it, and it advertises
\* what it has up to the best header.
handleNewPeerMsg(s, p) ==
    LET t == [s EXCEPT !.conn = @ \cup {p}, !.bs.progress[p] = -1,
                       !.last[p] = Smaller(Tip[p], s.hdr)]
        u == IF t.syncPeer = None THEN startSync(t) ELSE t
    IN  IF u.ibdMode /\ u.bsync # None THEN blockSyncAddPeer(u, p) ELSE u

NewPeer(p) ==
    /\ started /\ p \notin conn
    /\ \E s \in Moods : Becomes(handleNewPeerMsg(s, p))
    /\ UNCHANGED <<started, leaves>>

\* The ticker fires after the prompt peers have answered.
StallSample ==
    /\ started /\ \A p \in Prompt \cap conn : owed[p] = <<>>
    /\ \E order \in Orders : Becomes(handleStallSample(Later(State(order, FALSE))))
    /\ UNCHANGED <<started, leaves>>

Init ==
    /\ hdr = Start /\ best = 0 /\ orphans = {} /\ stored = {} /\ cursor = 0
    /\ rowTop \in {0, Start}
    /\ conn = Peers /\ dead = {}
    /\ last = [p \in Peers |-> Smaller(Tip[p], Start)]
    /\ bsync = None /\ syncPeer = None /\ ibdMode = TRUE /\ bs = NoSlices
    /\ req = {} /\ preq = [p \in Peers |-> {}] /\ owed = [p \in Peers |-> <<>>]
    /\ quiet = 0 /\ miss = [height |-> 0, samples |-> UnavailableSamples + 1]
    /\ started = FALSE /\ leaves = 0

Next ==
    \/ \E ps \in SetToAllKPermutations(Peers) : Begin(ps)
    \/ \E p \in Peers : \/ Deliver(p) \/ NotFound(p) \/ Headers(p)
                        \/ DonePeer(p) \/ NewPeer(p)
    \/ StallSample

Spec == Init /\ [][Next]_vars

-----------------------------------------------------------------------------
(* Correctness.                                                            *)

TypeOK ==
    /\ best \in 0 .. hdr /\ hdr \in Nat
    /\ conn \subseteq Peers /\ dead \subseteq conn /\ syncPeer \in Peers \cup {None}
    /\ orphans \subseteq 1 .. hdr /\ stored \subseteq best + 1 .. hdr
    /\ req \subseteq 1 .. hdr /\ preq \in [Peers -> SUBSET (1 .. hdr)]

\* A block the manager holds as requested is in flight from a connected peer:
\* otherwise buildBlockRequest would never ask for it again.  Every path that
\* takes a request back (done, stall, rotation, notfound, reset) has to keep
\* the two maps in step.
InFlightOwned == \A h \in req : \E p \in conn : h \in preq[p]

\* The sync peer and the peers of the download are connected: fetchHeaderBlocks
\* and reissueStalledBlockPeers use their peerStates.
DownloadersConnected ==
    (ToSet(Members([bsync |-> bsync])) \cup {syncPeer}) \ {None} \subseteq conn

\* No block further than the window above the tip is asked for or kept waiting
\* for its parent: the orphan pool cannot overflow from a parallel download.
WithinWindow == \A h \in req \cup orphans \cup stored : h <= best + Window

-----------------------------------------------------------------------------
(* Fairness: prompt peers answer and come back, the ticker ticks, and the  *)
(* server reports a disconnected peer.  This is weak fairness with the     *)
(* guards of the actions in place of ENABLED, which TLC is slow to find.   *)

CanAnswer(p) == started /\ p \in conn /\ owed[p] # <<>>
CanSample ==
    /\ started /\ \A p \in Prompt \cap conn : owed[p] = <<>>
    /\ \E order \in Orders :
         handleStallSample(Later(State(order, FALSE)))
             # [State(order, FALSE) EXCEPT !.now = 1]

Fairness ==
    /\ []<>~CanSample \/ []<><<StallSample>>_vars
    /\ \A p \in Prompt :
         /\ []<>~CanAnswer(p) \/ []<><<Deliver(p) \/ NotFound(p)>>_vars
         /\ []<>(p \in conn) \/ []<><<NewPeer(p)>>_vars
    /\ \A p \in Peers : []<>(p \notin dead) \/ []<><<DonePeer(p)>>_vars

FairSpec == Spec /\ Fairness

\* A download with slices reaches the header it started for, whatever requests
\* a silent peer sits on, unless resetDownloadState gives the slices up.
CatchesUp == bs.on ~> (best >= Start \/ ~bs.on)

\* The two maps of requested blocks, the download's peers and the sync peer
\* agree with the connections.
RequestsConsistent == TypeOK /\ InFlightOwned /\ DownloadersConnected
=============================================================================
