----------------------------- MODULE HeaderSync -----------------------------
(***************************************************************************)
(* The parallel header download of netsync/manager.go, as the block        *)
(* handler runs it: rounds of getheaders ranges over several peers, their  *)
(* re-issue on a stall, the votes and rollbacks that leave a forked or     *)
(* fabricated header chain, and the choice of a sync peer.                 *)
(*                                                                         *)
(* A header is named by the branch of every header up to it, so a chain is *)
(* a sequence of branches and a hash is a prefix of one.  Peers answer     *)
(* their requests in order, late, or never; the block download is the      *)
(* environment that connects the next block (module BlockSync models it).  *)
(*                                                                         *)
(* launchHeaderRange makes every range with confirmed = true, and nothing  *)
(* ever clears it: the code for a second vote on the front range is never  *)
(* reached and has no counterpart here.                                    *)
(***************************************************************************)
EXTENDS Integers, Sequences, FiniteSets, SequencesExt

CONSTANTS
    Peers,          \* remote nodes
    PeerChain,      \* [Peers -> chain]: the headers a peer serves
    Advertised,     \* [Peers -> Nat]: LastBlock when the peer connects
    Stored,         \* <<connected chain, header chain>> a node may start with
    SliceLen,       \* wire.MaxBlockHeadersPerMsg
    StartLead,      \* blockSyncStartLead
    RunawayThreshold, LeadLimit, LeadResume,
    MaxRollbacks,   \* maxFabricatedRollbacks
    MaxSyncPeers,   \* maxHeaderSyncPeers
    MaxMishaps,     \* bound: requests a peer never answers, peers that leave by
                    \* themselves, headers refused, and blocks mined here
    None

VARIABLES
    hdrs, blocks,        \* best header chain and connected chain
    conn,                \* peerStates
    dead,                \* disconnected here; the server has yet to say so
    last,                \* Peer.LastBlock
    begin,               \* Peer.prevGetHdrsBegin
    queue,               \* getheaders on their way to a peer or answered late
    syncPeer, ibdMode,
    hs,                  \* headerSync: peers, target, nextHeight, nextAssign, leadPaused;
                         \* drifted is history: the headers have left the front behind
    range,               \* peerRange: the range object a peer holds
    votes,               \* frontUnreachable
    blockSync,           \* "nil", "peers" (blockSync only) or "slices" (blockSyncState too)
    missing,             \* blockMissingHeight
    rollback,            \* fabricatedRollbackHeight, -Depth and -Count
    window,              \* reqWindow: hashes cached by height, one of a height
    reorged,             \* chainNotificationMsg of a disconnected block is queued
    mishaps              \* bounded events so far

vars == <<hdrs, blocks, conn, dead, last, begin, queue, syncPeer, ibdMode, hs,
          range, votes, blockSync, missing, rollback, window, reorged, mishaps>>

\* The header a handler will see refused: at height `at`, as its parent is not
\* known, by another rule, or by an error that is none.
NoFault == [kind |-> "none", at |-> 0]

\* The fields a handler works on; old and order are the clock and the map
\* iteration it sees: the peers whose range is past headerRangeStallTimeout,
\* whether earlier votes are past five minutes, and the order of the peers.
State(old, expired, order) ==
    [hdrs |-> hdrs, blocks |-> blocks, conn |-> conn, dead |-> dead,
     last |-> last, begin |-> begin, queue |-> queue, syncPeer |-> syncPeer,
     ibdMode |-> ibdMode, hs |-> hs, range |-> range, votes |-> votes,
     blockSync |-> blockSync, missing |-> missing, rollback |-> rollback,
     window |-> window, reorged |-> reorged,
     old |-> old, expired |-> expired, order |-> order, fault |-> NoFault]

Becomes(outcome) ==
  \E s \in {outcome} :
    /\ hdrs' = s.hdrs /\ blocks' = s.blocks /\ conn' = s.conn /\ dead' = s.dead
    /\ last' = s.last /\ begin' = s.begin /\ queue' = s.queue
    /\ syncPeer' = s.syncPeer /\ ibdMode' = s.ibdMode /\ hs' = s.hs
    /\ range' = s.range /\ votes' = s.votes /\ blockSync' = s.blockSync
    /\ missing' = s.missing /\ rollback' = s.rollback
    /\ window' = s.window /\ reorged' = s.reorged

Larger(a, b) == IF a > b THEN a ELSE b
Smaller(a, b) == IF a < b THEN a ELSE b

\* ProcessBlockHeader, and a connected block, keep the longer header chain, the
\* first one of two equals.
Longer(c, d) == IF Len(d) > Len(c) THEN d ELSE c

\* A locator: nothing, the tip alone, or the whole chain below a header.
NoLocator == [kind |-> "none", root |-> <<>>]
Tip(c) == [kind |-> "tip", root |-> c]
Full(c) == [kind |-> "full", root |-> c]

NoRound == [on |-> FALSE, peers |-> <<>>, target |-> 0, nextHeight |-> 0,
            nextAssign |-> 0, leadPaused |-> FALSE, drifted |-> FALSE]
\* A range object; held says it is in hs.ranges, at its start.
NoRange == [start |-> 0, held |-> FALSE, headers |-> None]

-----------------------------------------------------------------------------
(* Queries.                                                                *)

fetchHigherPeers(s, h) == {p \in s.conn : s.last[p] > h}

\* The header view, or the height index of the connected chain above it.
HeaderHashByHeight(s, h) == SubSeq(Longer(s.hdrs, s.blocks), 1, h)
Resolves(s, h) == h <= Larger(Len(s.hdrs), Len(s.blocks))

\* reqWindow: a hash once looked up or applied is served from the cache, until
\* a rollback or the notification of a reorganization resets it.
Cached(s, h) == {c \in s.window : Len(c) = h}
HashAt(s, h) ==
    IF Cached(s, h) # {} THEN CHOOSE c \in Cached(s, h) : TRUE
    ELSE HeaderHashByHeight(s, h)
Put(s, hash) ==
    [s EXCEPT !.window = {c \in @ : Len(c) # Len(hash)} \cup {hash}]
LookUp(s, h) ==
    IF Cached(s, h) = {} /\ Resolves(s, h) THEN Put(s, HeaderHashByHeight(s, h))
    ELSE s

Known(s, hash) == IsPrefix(hash, s.hdrs) \/ IsPrefix(hash, s.blocks)

\* hs.ranges: the start heights and the peer that holds the range at one.
RangeAt(s, start) ==
    LET ps == {p \in Peers : s.range[p].held /\ s.range[p].start = start}
    IN  IF ps = {} THEN None ELSE CHOOSE p \in ps : TRUE
Starts(s) == {s.range[p].start : p \in {q \in Peers : s.range[q].held}}
Busy(s, p) == s.range[p] # NoRange

\* A headers message: a segment of the sender's chain after height `after`.
FirstPrev(msg) == SubSeq(msg.chain, 1, msg.after)
Count(msg) == Len(msg.chain) - msg.after

Tallest(s, ps) ==
    LET hs0 == {s.last[p] : p \in ToSet(ps)}
    IN  IF hs0 = {} THEN 0 ELSE CHOOSE h \in hs0 : \A x \in hs0 : x <= h

-----------------------------------------------------------------------------
(* Assigning ranges.                                                       *)

\* PushGetHeadersMsg: a request with the begin of the previous one is dropped.
PushGetHeadersMsg(s, p, loc) ==
    IF loc.kind # "none" /\ s.begin[p] = loc.root
    THEN s
    ELSE [s EXCEPT !.begin[p] = IF loc.kind = "none" THEN None ELSE loc.root,
                   !.queue[p] = IF p \in s.dead THEN @ ELSE Append(@, loc)]

headerLocator(s, h) ==
    IF Cached(s, h) # {} \/ Resolves(s, h) THEN Full(HashAt(s, h)) ELSE NoLocator

lead(s) == Len(s.hdrs) - Len(s.blocks)

\* delete(hs.ranges, start)
DropStart(s, start) ==
    [s EXCEPT !.range = [p \in Peers |->
        IF @[p].held /\ @[p].start = start THEN [@[p] EXCEPT !.held = FALSE]
        ELSE @[p]]]
\* delete(hs.peerRange, p)
DropPeer(s, p) == [s EXCEPT !.range[p] = NoRange]

launchHeaderRange(s, p, start) ==
    IF IF s.hs.leadPaused THEN lead(s) > LeadResume ELSE lead(s) > LeadLimit
    THEN [s EXCEPT !.hs.leadPaused = TRUE]
    ELSE PushGetHeadersMsg(
           [LookUp(DropStart(s, start), start - 1) EXCEPT
               !.hs.leadPaused = FALSE,
               !.range[p] = [start |-> start, held |-> TRUE, headers |-> None],
               !.old = @ \ {p}],
           p, headerLocator(s, start - 1))

\* The first height the range from start may not reach.
RangeEnd(s, p, start) ==
    LET beyond == {x \in Starts(s) : x > start}
        end == Smaller(start + SliceLen, s.last[p] + 1)
    IN  IF beyond = {} THEN end
        ELSE Smaller(end, CHOOSE x \in beyond : \A y \in beyond : x <= y)

Launched(s, p) == s.range[p] # NoRange

\* Fill a hole at the front first; otherwise extend the frontier.
NextStart(s) ==
    IF RangeAt(s, s.hs.nextHeight) = None /\ s.hs.nextHeight <= s.hs.target
    THEN s.hs.nextHeight ELSE s.hs.nextAssign

assignHeaderRange(s, p) ==
    LET start == NextStart(s)
        end == RangeEnd(s, p, start)
        t == launchHeaderRange(s, p, start)
    IN  IF \/ ~s.hs.on \/ Busy(s, p) \/ lead(s) > LeadLimit
           \/ start > s.hs.target \/ end <= start
        THEN s
        ELSE IF Launched(t, p) /\ start = s.hs.nextAssign
             THEN [t EXCEPT !.hs.nextAssign = end]
             ELSE t

reissueHeaderRange(s, p, start) ==
    IF \/ ~s.hs.on \/ Busy(s, p)
       \/ start > s.hs.target \/ RangeEnd(s, p, start) <= start
    THEN s
    ELSE launchHeaderRange(s, p, start)

assignAll(s, ps) == FoldLeft(assignHeaderRange, s, ps)

\* The idle peer that comes first, or the one with the greatest start.
Taker(s) ==
    LET idle == SelectSeq(s.hs.peers, LAMBDA p : ~Busy(s, p))
        best(p, q) == IF s.range[q].start > s.range[p].start THEN q ELSE p
    IN  IF idle # <<>> THEN Head(idle)
        ELSE IF s.hs.peers = <<>> THEN None
        ELSE FoldLeft(best, Head(s.hs.peers), s.hs.peers)

HandFront(s) ==
    LET p == Taker(s) IN
    IF p = None THEN s
    ELSE reissueHeaderRange(
            IF Busy(s, p) THEN DropPeer(DropStart(s, s.range[p].start), p) ELSE s,
            p, s.hs.nextHeight)

reissueFrontRange(s) ==
    LET p == RangeAt(s, s.hs.nextHeight)
        freed == DropPeer(DropStart(s, s.hs.nextHeight), p)
    IN  IF ~s.hs.on \/ s.hs.nextHeight > s.hs.target THEN s
        ELSE IF p = None THEN HandFront(s)
        ELSE IF s.range[p].headers # None
             THEN IF IsPrefix(FirstPrev(s.range[p].headers), s.hdrs) THEN s
                  ELSE reissueHeaderRange(freed, p, s.hs.nextHeight)
        ELSE IF p \notin s.old THEN s
        ELSE HandFront(freed)

-----------------------------------------------------------------------------
(* Rounds and rollbacks.                                                   *)

\* fetchHeaders; without a higher peer it probes the tip of every candidate.
fetchHeaders(s) ==
    LET height == Len(s.hdrs)
        higher == fetchHigherPeers(s, height)
        chosen == SelectSeq(s.order, LAMBDA p : p \in higher)
        ps == SubSeq(chosen, 1, Smaller(Len(chosen), MaxSyncPeers))
        round == [on |-> TRUE, peers |-> ps, target |-> Tallest(s, ps),
                  nextHeight |-> height + 1, nextAssign |-> height + 1,
                  leadPaused |-> FALSE, drifted |-> FALSE]
        probe(t, p) == IF p \in t.conn
                       THEN PushGetHeadersMsg(t, p, Tip(t.hdrs)) ELSE t
    IN  IF lead(s) > RunawayThreshold THEN s
        ELSE IF higher = {} THEN FoldLeft(probe, s, s.order)
        ELSE assignAll([s EXCEPT !.ibdMode = TRUE, !.syncPeer = Head(ps),
                                 !.hs = round,
                                 !.range = [p \in Peers |-> NoRange]], ps)

\* startSync: headers while some peer has more, then blocks.
startSync(s) ==
    LET higher == SelectSeq(s.order, LAMBDA p :
                      p \in fetchHigherPeers(s, Len(s.blocks)))
    IN  IF s.syncPeer # None THEN s
        ELSE IF fetchHigherPeers(s, Len(s.hdrs)) # {} THEN fetchHeaders(s)
        ELSE IF higher = <<>> THEN s
        ELSE [s EXCEPT !.syncPeer = Head(higher), !.ibdMode = TRUE,
                       !.blockSync = IF @ = "slices" THEN @ ELSE "peers"]

\* sm.headerSync = nil.  Mutant: the ranges of its peers are left.
RangesLeft(s) == [s EXCEPT !.hs = NoRound]
NoHeaderSync(s) == [s EXCEPT !.hs = NoRound, !.range = [p \in Peers |-> NoRange]]

resetDownloadState(s) ==
    startSync([NoHeaderSync(s) EXCEPT !.window = {},
                                      !.blockSync = "nil", !.missing = 0,
                                      !.syncPeer = None, !.ibdMode = TRUE])

\* InvalidateHeaderChain(h) succeeds when a connected block is at h: the
\* headers and the blocks above it are gone.
Cut(s, h) == [s EXCEPT !.hdrs = SubSeq(s.blocks, 1, h),
                       !.blocks = SubSeq(s.blocks, 1, h)]

rollbackToForkPoint(s, h) == resetDownloadState(Cut(s, h))

\* One block below the tip, and one more for every attempt without progress,
\* at most MaxRollbacks times; never while no peer advertises more headers.
\* Mutant: with no taller peer too.
Below(s) == IF Len(s.blocks) = 0 THEN 0 ELSE Len(s.blocks) - 1
Progressed(s) == Below(s) > s.rollback.height
Attempts(s) == s.rollback.count + 1
RollsBackAlways(s) == Progressed(s) \/ Attempts(s) <= MaxRollbacks
RollsBack(s) == /\ fetchHigherPeers(s, Len(s.hdrs)) # {}
                /\ Progressed(s) \/ Attempts(s) <= MaxRollbacks

rollbackFabricatedHeaderChain(s) ==
    LET depth == s.rollback.depth + 1
        deeper == IF depth > Below(s) THEN 0 ELSE Below(s) - depth
    IN  IF RollsBack(s)
        THEN IF Progressed(s)
             THEN rollbackToForkPoint([s EXCEPT !.rollback =
                      [height |-> Below(s), depth |-> 0, count |-> 0]], Below(s))
             ELSE rollbackToForkPoint([s EXCEPT !.rollback =
                      [height |-> deeper, depth |-> depth, count |-> Attempts(s)]],
                      deeper)
        ELSE IF fetchHigherPeers(s, Len(s.hdrs)) = {} THEN s
        ELSE [s EXCEPT !.rollback.count = MaxRollbacks + 1]

\* The height a do-not-extend response cuts to, 0 when it is no evidence.
ForkPoint(s, msg, prevHeight) ==
    IF /\ Known(s, FirstPrev(msg))
       /\ msg.after <= prevHeight /\ msg.after <= Len(s.blocks)
    THEN msg.after ELSE 0

Vote(s, start, p) ==
    [s EXCEPT !.votes = (IF s.expired THEN {v \in @ : v[1] # start} ELSE @)
                           \cup {<<start, p>>}]

\* Two distinct peers could not extend the front: roll back.
maybeFastCutFront(s, start) ==
    IF Cardinality({v \in s.votes : v[1] = start}) < 2 THEN s
    ELSE rollbackFabricatedHeaderChain(
            [s EXCEPT !.votes = {v \in @ : v[1] # start}])

-----------------------------------------------------------------------------
(* Applying ranges.                                                        *)

startParallelBlockDownload(s, ps) ==
    [s EXCEPT !.ibdMode = TRUE, !.blockSync = "slices", !.missing = @,
              !.syncPeer = Head(ps)]

maybeStartBlockSync(s) ==
    IF s.hs.on /\ s.blockSync # "slices" /\ lead(s) >= StartLead
    THEN startParallelBlockDownload(s, s.hs.peers) ELSE s

finishHeaderSync(s) ==
    IF ~s.hs.on THEN s
    ELSE IF s.blockSync = "slices" THEN NoHeaderSync(s)
    ELSE startParallelBlockDownload(NoHeaderSync(s), s.hs.peers)

\* The end of processReadyHeaderRanges: hs is the round it started with, which
\* a rollback inside the loop may have replaced.
TopUp(s, round, replaced) ==
    LET t == maybeStartBlockSync(reissueFrontRange(assignAll(s, round.peers)))
        mine == IF replaced THEN round ELSE t.hs
    IN  IF mine.nextHeight > mine.target THEN finishHeaderSync(t) ELSE t

\* What the first header of a range must extend.
Extends(s, msg, start) == FirstPrev(msg) = HashAt(s, start - 1)

\* The headers of msg below height `end` are processed and cached.
Processed(s, msg, end) ==
    LET chain == SubSeq(msg.chain, 1, end - 1)
    IN  [s EXCEPT !.hdrs = Longer(@, chain),
                  !.window = {c \in @ : Len(c) \notin msg.after + 1 .. end - 1}
                      \cup {SubSeq(chain, 1, h) : h \in msg.after + 1 .. end - 1}]
Applied(s, p) ==
    LET msg == s.range[p].headers IN
    assignHeaderRange(
        [DropPeer(DropStart(Processed(s, msg, Len(msg.chain) + 1),
                            s.hs.nextHeight), p) EXCEPT
            !.hs.nextHeight = @ + Count(msg)], p)

\* abortHeaderSync
abortHeaderSync(s) ==
    LET t == [NoHeaderSync(s) EXCEPT !.ibdMode = TRUE]
    IN  IF fetchHigherPeers(s, Len(s.hdrs)) # {} THEN fetchHeaders(t) ELSE t

Disconnected(s, p) == [s EXCEPT !.dead = @ \cup {p}, !.queue[p] = <<>>]

\* A header of the front range is refused, after those below it were applied:
\* the range stays where it is, and so does nextHeight.
Fails(s, msg) ==
    /\ s.fault.kind # "none" /\ s.fault.at \in msg.after + 1 .. Len(msg.chain)
    /\ s.fault.kind = "unknown" => s.fault.at = msg.after + 1
\* Mutant: the front moves on as if the whole range had been applied.
RefusedSkipped(s, p) ==
    [Processed(s, s.range[p].headers, s.fault.at) EXCEPT
        !.hs.nextHeight = @ + Count(s.range[p].headers), !.fault = NoFault]
Refused(s, p) ==
    LET msg == s.range[p].headers
        t == [Processed(s, msg, s.fault.at) EXCEPT !.fault = NoFault]
        u == [t EXCEPT !.hs.drifted = @ \/ s.fault.at > msg.after + 1]
    IN  CASE s.fault.kind = "unknown"  -> u
          [] s.fault.kind = "rule"     -> rollbackFabricatedHeaderChain(u)
          [] s.fault.kind = "internal" -> abortHeaderSync(Disconnected(t, p))

\* A front that does not extend the applied chain is voted on, discarded and
\* asked for again -- in the round of sm.headerSync, which the second vote has
\* replaced when it rolls back, while the loop goes on with the peers of its own.
Voted(s, start, p) == maybeFastCutFront(Vote(s, start, p), start)
Replaced(s, start, p) ==
    /\ Cardinality({v \in Vote(s, start, p).votes : v[1] = start}) >= 2
    /\ RollsBack(s)
Discarded(s, start, p) ==
    LET t == Voted(s, start, p)
    IN  reissueHeaderRange(IF Replaced(s, start, p) THEN t
                           ELSE DropPeer(DropStart(t, start), p), p, start)

RECURSIVE processReadyHeaderRanges(_)
processReadyHeaderRanges(s) ==
    LET start == s.hs.nextHeight
        p == RangeAt(s, start)
        msg == s.range[p].headers
        fork == ForkPoint(s, msg, start - 1)
        seen == LookUp(s, start - 1)
    IN  IF ~s.hs.on THEN s
        ELSE IF IF p = None THEN TRUE ELSE msg = None THEN TopUp(s, s.hs, FALSE)
        ELSE IF Extends(s, msg, start)
             THEN IF Fails(s, msg) THEN Refused(seen, p)
                  ELSE processReadyHeaderRanges(Applied(seen, p))
        ELSE IF fork > 0 THEN rollbackToForkPoint(seen, fork)
        ELSE IF Replaced(s, start, p)
             THEN TopUp(Discarded(seen, start, p), s.hs, TRUE)
        ELSE processReadyHeaderRanges(Discarded(seen, start, p))

\* dropHeaderPeer.  The block slice it releases and the entry it takes out of
\* blockSync belong to the block download; here blockSync only says which of
\* the two objects of that download are there.
dropHeaderPeer(s, p) ==
    LET t == IF Busy(s, p) THEN DropPeer(DropStart(s, s.range[p].start), p) ELSE s
        ps == SelectSeq(s.hs.peers, LAMBDA q : q # p)
        u == [t EXCEPT !.hs.peers = ps, !.hs.target = Tallest(s, ps)]
    IN  IF ~s.hs.on THEN s
        ELSE IF ps = <<>> THEN NoHeaderSync(t)
        ELSE reissueFrontRange(assignAll(u, ps))

\* handleParallelHeadersMsg
handleParallelHeadersMsg(s, p, msg) ==
    LET r == s.range[p]
        above == r.start - 1 > Len(s.hdrs)
        seen == IF above THEN s ELSE LookUp(s, r.start - 1)
        fork == ForkPoint(s, msg, r.start - 1)
    IN  IF r = NoRange \/ r.headers # None THEN s
        ELSE IF Count(msg) = 0 THEN dropHeaderPeer(s, p)
        ELSE IF above \/ Extends(s, msg, r.start)
             THEN processReadyHeaderRanges([seen EXCEPT !.range[p].headers = msg])
        ELSE IF r.start # s.hs.nextHeight THEN seen
        ELSE IF fork > 0 THEN rollbackToForkPoint(seen, fork)
        ELSE maybeFastCutFront(Vote(seen, r.start, p), r.start)

\* The path outside a round: a header that is refused, as one above a cut is,
\* disconnects the peer; the headers before it stay.
handleSingleHeadersMsg(s, p, msg) ==
    LET chain == Longer(s.hdrs, msg.chain)
        t == [s EXCEPT !.hdrs = chain, !.last[p] = Larger(@, Len(chain))]
    IN  IF Count(msg) = 0 THEN s
        ELSE IF Fails(s, msg)
             THEN Disconnected([s EXCEPT
                     !.hdrs = Longer(@, SubSeq(msg.chain, 1, s.fault.at - 1)),
                     !.fault = NoFault], p)
        ELSE IF t.ibdMode /\ t.syncPeer # None
             THEN IF Len(chain) < t.last[t.syncPeer]
                  THEN PushGetHeadersMsg(t, t.syncPeer, Tip(chain)) ELSE t
        ELSE t

handleHeadersMsg(s, p, msg) ==
    IF s.hs.on THEN handleParallelHeadersMsg(s, p, msg)
    ELSE handleSingleHeadersMsg(s, p, msg)

-----------------------------------------------------------------------------
(* The messages and timers of the block handler.                           *)

\* Bound: requests on their way when a message or a timer may restart the round.
Room == \A p \in Peers : Len(queue[p]) <= 1
InFlight == {p \in Peers : range[p].held /\ range[p].headers = None}
Expired == IF votes = {} THEN {FALSE} ELSE BOOLEAN
Orders == {o \in [1 .. Cardinality(Peers) -> Peers] : IsInjective(o)}

\* What a peer answers: LocateHeaders of its own chain.
Common(c, d) == CHOOSE n \in 0 .. Len(c) :
    /\ IsPrefix(SubSeq(c, 1, n), d)
    /\ \A k \in n + 1 .. Len(c) : ~IsPrefix(SubSeq(c, 1, k), d)
Reply(p, loc) ==
    LET c == PeerChain[p]
        after == IF loc.kind = "full" THEN Common(loc.root, c)
                 ELSE IF IsPrefix(loc.root, c) THEN Len(loc.root) ELSE 0
        end == IF loc.kind = "none" THEN 0 ELSE Smaller(after + SliceLen, Len(c))
    IN  [chain |-> SubSeq(c, 1, end), after |-> IF end = 0 THEN 0 ELSE after]

\* The headers a handler of this message may process, and how one is refused.
Faults(msg) ==
    [kind : {"unknown", "rule", "internal"},
     at : UNION {m.after + 1 .. Len(m.chain) :
                     m \in {msg} \cup ({range[q].headers : q \in Peers} \ {None})}]

Headers(p) ==
    /\ p \in conn \ dead /\ queue[p] # <<>>
    /\ \E old \in SUBSET InFlight, expired \in Expired, order \in Orders :
          Becomes(handleHeadersMsg(
              [State(old, expired, order) EXCEPT !.queue[p] = Tail(@)], p,
              Reply(p, Head(queue[p]))))
    /\ UNCHANGED mishaps

\* The same, when ProcessBlockHeader refuses one of the headers.
HeadersRefused(p) ==
    /\ p \in conn \ dead /\ queue[p] # <<>> /\ mishaps < MaxMishaps
    /\ \E old \in SUBSET InFlight, expired \in Expired, order \in Orders,
          fault \in Faults(Reply(p, Head(queue[p]))) :
          \E s \in {handleHeadersMsg(
              [State(old, expired, order) EXCEPT !.queue[p] = Tail(@),
                                                 !.fault = fault],
              p, Reply(p, Head(queue[p])))} :
            s.fault = NoFault /\ Becomes(s)
    /\ mishaps' = mishaps + 1

\* A peer that is not current, or gets no locator, does not answer.
Silence(p) ==
    /\ p \in conn /\ queue[p] # <<>>
    /\ Head(queue[p]).kind = "none" \/ mishaps < MaxMishaps
    /\ mishaps' = IF Head(queue[p]).kind = "none" THEN mishaps ELSE mishaps + 1
    /\ queue' = [queue EXCEPT ![p] = Tail(@)]
    /\ UNCHANGED <<hdrs, blocks, conn, dead, last, begin, syncPeer, ibdMode, hs,
                   range, votes, blockSync, missing, rollback, window, reorged>>

\* headerSyncAddPeer
headerSyncAddPeer(s, p) ==
    IF \/ ~s.hs.on \/ s.last[p] <= Len(s.hdrs)
       \/ Len(s.hs.peers) >= MaxSyncPeers \/ p \in ToSet(s.hs.peers)
    THEN s
    ELSE assignHeaderRange([s EXCEPT !.hs.target = Larger(@, s.last[p]),
                                     !.hs.peers = Append(@, p)], p)

handleNewPeerMsg(p) ==
    /\ p \notin conn
    /\ \E order \in Orders :
          LET s == [State({}, FALSE, order) EXCEPT !.conn = @ \cup {p},
                        !.last[p] = Advertised[p], !.begin[p] = None]
          IN  Becomes(headerSyncAddPeer(startSync(s), p))
    /\ UNCHANGED mishaps

\* updateSyncPeer(false).
Replacement(s, p) ==
    IF s.syncPeer = p THEN startSync([s EXCEPT !.syncPeer = None]) ELSE s

handleDonePeerMsg(p) ==
    /\ p \in conn
    /\ p \in dead \/ mishaps < MaxMishaps
    /\ mishaps' = IF p \in dead THEN mishaps ELSE mishaps + 1
    /\ \E old \in SUBSET InFlight, order \in Orders :
          LET s == [State(old, FALSE, order) EXCEPT !.conn = @ \ {p},
                        !.dead = @ \ {p}, !.queue[p] = <<>>]
          IN  Becomes(Replacement(dropHeaderPeer(s, p), p))

\* A connected block that is longer than the header chain becomes its tip; in a
\* round the front stays where it is.
Extended(s, chain) ==
    [s EXCEPT !.blocks = chain, !.hdrs = Longer(@, chain),
              !.hs.drifted = @ \/ (s.hs.on /\ Len(chain) > Len(s.hdrs)),
              !.reorged = @ \/ ~IsPrefix(s.blocks, chain)]

\* handleBlockMsg for the next block: one of the header chain, or one that was
\* announced on top of the tip.  A block that makes a diverged header chain the
\* longer one reorganizes to it.
NextBlock(p) == SubSeq(PeerChain[p], 1, Len(blocks) + 1)
Serves(p) ==
    /\ p \in conn \ dead /\ Len(PeerChain[p]) > Len(blocks)
    /\ IsPrefix(NextBlock(p), hdrs)
Announces(p) ==
    /\ p \in conn \ dead /\ Len(PeerChain[p]) > Len(blocks)
    /\ IsPrefix(blocks, NextBlock(p)) /\ Len(hdrs) <= Len(blocks)

ConnectBlock(p) ==
    /\ Serves(p) \/ Announces(p)
    /\ LET s == Extended(State({}, FALSE, <<>>), NextBlock(p))
           n == Len(s.blocks)
       IN  Becomes([s EXCEPT !.last[p] = Larger(@, n),
                             !.ibdMode = @ /\ n < Len(s.hdrs)])
    /\ UNCHANGED mishaps

HeaderChainDiverged(s) ==
    Len(s.hdrs) > Len(s.blocks) /\ ~IsPrefix(s.blocks, s.hdrs)
CutToHeaders(s) == rollbackToForkPoint(s, Common(s.blocks, s.hdrs))

\* MainChainHashByHeight of the tip: until the writer has stored the tip, the
\* row of its height may be the one of the header there.
MayDisagree(s) == Len(s.hdrs) >= Len(s.blocks) /\ ~IsPrefix(s.blocks, s.hdrs)
checkTipRow(s, stored) ==
    IF MayDisagree(s) /\ ~stored THEN rollbackFabricatedHeaderChain(s) ELSE s

\* handleBlockMsg for an orphan: the block at height h whose parent is not here.
\* A diverged tip is cut at once; after a flood of orphans the tip is compared
\* with its row of the height index.
OrphanBlock(p, h, stored) ==
    /\ p \in conn \ dead /\ Room
    /\ ~IsPrefix(SubSeq(PeerChain[p], 1, h - 1), blocks)
    /\ \E order \in Orders :
          LET s == State({}, FALSE, order)
              t == IF HeaderChainDiverged(s) THEN CutToHeaders(s) ELSE s
          IN  Becomes([checkTipRow(t, stored) EXCEPT !.last[p] = Larger(@, h)])
    /\ UNCHANGED mishaps

\* processBlockMsg with BFMinerSubmit: a block mined at height h on the chain
\* here.  It is accepted when the header view ends with its parent; as the next
\* block it becomes the tip of both chains.
Mined(h) == Append(SubSeq(blocks, 1, h - 1), "f")
OnView(h) == hdrs = SubSeq(blocks, 1, h - 1)
SubmitBlock ==
    LET h == Len(blocks) + 1 IN
    /\ OnView(h) /\ mishaps < MaxMishaps
    /\ mishaps' = mishaps + 1
    /\ Becomes(Extended(State({}, FALSE, <<>>), Mined(h)))

\* Refused for a header view that is behind or holds another block: headers are
\* fetched, a diverged tip is cut, or one that its row denies.
SubmitRefused(h, stored) ==
    /\ ~OnView(h) /\ Room
    /\ \E order \in Orders :
          LET s == State({}, FALSE, order)
              t == IF h > Len(hdrs) THEN fetchHeaders(s) ELSE s
          IN  Becomes(IF HeaderChainDiverged(t) THEN CutToHeaders(t)
                      ELSE checkTipRow(t, stored))
    /\ UNCHANGED mishaps

\* handleBlockchainNotification of a disconnected block.
ChainDisconnected ==
    /\ reorged /\ reorged' = FALSE /\ window' = {}
    /\ UNCHANGED <<hdrs, blocks, conn, dead, last, begin, queue, syncPeer, ibdMode,
                   hs, range, votes, blockSync, missing, rollback, mishaps>>

\* reissueStaleHeaderRanges: the range is taken out of hs.ranges but the peer
\* that stalled keeps its entry in peerRange.
reissueStaleHeaderRanges(s) ==
    LET again(t, q) ==
            LET idle == SelectSeq(t.hs.peers, LAMBDA p : p # q /\ ~Busy(t, p))
                start == t.range[q].start
            IN  IF /\ t.range[q].held /\ t.range[q].headers = None /\ q \in t.old
                   /\ idle # <<>>
                THEN reissueHeaderRange(DropStart(t, start), Head(idle), start)
                ELSE t
    IN  IF s.hs.on THEN FoldLeft(again, reissueFrontRange(s), s.order) ELSE s

\* The peer-height, divergence and block-supply checks of handleStallSample.
checkFront(s) == IF s.hs.on THEN maybeFastCutFront(s, s.hs.nextHeight) ELSE s
checkPeerHeight(s) ==
    IF /\ s.hs.on /\ s.syncPeer # None /\ s.missing = Len(s.blocks)
       /\ IF s.syncPeer = None THEN FALSE ELSE s.last[s.syncPeer] > Len(s.blocks)
    THEN rollbackFabricatedHeaderChain(s) ELSE s
checkDiverged(s) ==
    IF s.hs.on /\ HeaderChainDiverged(s)
    THEN CutToHeaders(s) ELSE s
checkBlocks(s, unavailable) ==
    IF s.blockSync # "slices" THEN s
    ELSE IF s.missing # Len(s.blocks) THEN [s EXCEPT !.missing = Len(s.blocks)]
    ELSE IF ~unavailable THEN s
    ELSE IF fetchHigherPeers(s, Len(s.blocks)) = {} THEN resetDownloadState(s)
    ELSE rollbackFabricatedHeaderChain(s)
updateSyncPeer(s) ==
    IF s.syncPeer = None THEN s
    ELSE startSync([s EXCEPT
        !.dead = IF s.last[s.syncPeer] > Len(s.blocks) THEN @ \cup {s.syncPeer} ELSE @,
        !.queue[s.syncPeer] = IF s.last[s.syncPeer] > Len(s.blocks) THEN <<>> ELSE @,
        !.syncPeer = None])

\* Nothing is on its way: minutes can pass without progress.
Quiet == /\ \A p \in conn \ dead : queue[p] = <<>>
         /\ \A p \in conn : ~Serves(p)

\* What a sample makes of a state.
Sampled(s, unavailable, stalled) ==
    LET t == checkBlocks(checkDiverged(checkPeerHeight(checkFront(
                 reissueStaleHeaderRanges(s)))), unavailable)
    IN  IF stalled THEN updateSyncPeer(t) ELSE t

CanSample(unavailable, stalled) ==
    /\ unavailable => Quiet /\ blockSync = "slices" /\ missing = Len(blocks)
    /\ stalled => Quiet /\ syncPeer # None
    /\ Room

handleStallSample(old, unavailable, stalled) ==
    /\ CanSample(unavailable, stalled)
    /\ \E order \in Orders :
          Becomes(Sampled(State(old, FALSE, order), unavailable, stalled))
    /\ UNCHANGED mishaps

\* initChainState restores the stored header tip: it is ahead of the connected
\* chain or diverged from it, or a block behind when the process ended before the
\* block that passed it was followed by another.
Init ==
    /\ \E stored \in Stored : blocks = stored[1] /\ hdrs = stored[2]
    /\ conn = {} /\ dead = {} /\ last = Advertised
    /\ begin = [p \in Peers |-> None] /\ queue = [p \in Peers |-> <<>>]
    /\ syncPeer = None /\ ibdMode = FALSE
    /\ hs = NoRound /\ range = [p \in Peers |-> NoRange] /\ votes = {}
    /\ blockSync = "nil" /\ missing = 0
    /\ rollback = [height |-> 0, depth |-> 0, count |-> 0]
    /\ window = {} /\ reorged = FALSE
    /\ mishaps = 0

Next ==
    \/ \E p \in Peers :
          \/ Headers(p) \/ HeadersRefused(p) \/ Silence(p) \/ ConnectBlock(p)
          \/ handleNewPeerMsg(p) \/ handleDonePeerMsg(p)
          \/ \E h \in 1 .. Len(PeerChain[p]), stored \in BOOLEAN :
                OrphanBlock(p, h, stored)
    \/ SubmitBlock \/ ChainDisconnected
    \/ \E h \in 1 .. Len(blocks) + 1, stored \in BOOLEAN :
          SubmitRefused(h, stored)
    \/ \E old \in SUBSET InFlight, unavailable, stalled \in BOOLEAN :
          handleStallSample(old, unavailable, stalled)

Spec == Init /\ [][Next]_vars

-----------------------------------------------------------------------------
(* Properties.                                                             *)

\* The variables have their types, and the header chain is never more than the
\* one block of a restart behind the connected chain.
TypeOK ==
    /\ conn \subseteq Peers /\ dead \subseteq conn
    /\ hs.target \in Nat /\ hs.nextHeight \in Nat /\ hs.nextAssign \in Nat
    /\ ToSet(hs.peers) \subseteq Peers /\ syncPeer \in Peers \cup {None}
    /\ blockSync \in {"nil", "peers", "slices"} /\ missing \in Nat
    /\ Len(blocks) <= Len(hdrs) + 1

\* Whatever answers arrive late, twice, refused or from a round that a rollback
\* has replaced, every height below the front of a round has an applied header,
\* so that the front can always be asked for; and the front is the height right
\* above the header chain, until part of a refused range or a connected block
\* lengthens the chain behind its back.
FrontApplied ==
    hs.on => /\ hs.nextHeight <= Len(hdrs) + 1
             /\ ~hs.drifted => hs.nextHeight = Len(hdrs) + 1

\* A range belongs to a connected peer of the round in progress and lies
\* from the front to the frontier, through re-issues, dropped peers and
\* rollbacks in the middle of the loop over the ready ranges.
RangesOwned ==
    /\ ToSet(hs.peers) \subseteq conn /\ (hs.on => hs.peers # <<>>)
    /\ \A p \in Peers : range[p] # NoRange => hs.on /\ p \in ToSet(hs.peers)
    /\ \A p \in Peers : range[p].held =>
          range[p].start >= hs.nextHeight /\ range[p].start <= hs.nextAssign

\* The sync peer is a connected peer, whatever order the disconnections, the
\* samples and the resets come in.
SyncPeerConnected == syncPeer # None => syncPeer \in conn

\* Blocks are disconnected only for a chain that promises more: while a
\* connected peer advertises more headers than this node has (the guard of
\* rollbackFabricatedHeaderChain, and by way of the round's target every fork
\* point a response carries), when the header chain here is the longer one and
\* left the connected chain (the divergence detectors), or for the rest of a
\* round that began so and was overtaken by blocks.
Promised ==
    \/ \E p \in conn : last[p] > Len(hdrs)
    \/ Len(hdrs) > Len(blocks) /\ ~IsPrefix(blocks, hdrs)
    \/ hs.drifted /\ hs.nextHeight <= hs.target
CutsForMore == [][Len(blocks') < Len(blocks) => Promised]_vars

\* The round's peers, ranges and sync peer are those of the connections and of
\* the round in progress.
RoundConsistent == TypeOK /\ RangesOwned /\ SyncPeerConnected
=============================================================================
