--------------------------- MODULE NotifyBusProofs ---------------------------
(***************************************************************************)
(* Proofs about NotifyBus for every set of publishers, queue capacity and  *)
(* number of chain changes.                                                *)
(***************************************************************************)
EXTENDS NotifyBus, SequenceTheorems, TLAPS

Busy(p) == pc[p] \in {"send", "sync", "rpc"}
Dispatching == pc[Bus] \in {"sync", "rpc"}

\* How many queued events the loop has taken, and how many of those the RPC
\* server has received.
Taken == Len(sent) - Len(notifyChan)
Delivered == IF Dispatching THEN Taken - 1 ELSE Taken

Forwarded == Range(handled) \cup Range(msgChan)

\* The state's shape, history included; every event in it was published.
Shape ==
    /\ TypeOK
    /\ sent \in Seq(Nat) /\ ws \in Seq(Nat) /\ handled \in Seq(Nat)
    /\ pc[Bus] \in {"select", "sync", "rpc", "done"}
    /\ \A p \in Publishers : pc[p] \in {"idle", "send", "sync", "rpc"}
    /\ \A p \in Publishers : Busy(p) => cur[p] \in 1 .. events
    /\ Range(sent) \cup Range(ws) \cup Forwarded \subseteq 1 .. events

\* The queue is the end of what was sent, the loop's event the one before it,
\* and the RPC server has received exactly the events before that.
Queue ==
    /\ Len(notifyChan) <= Len(sent)
    /\ \A i \in 1 .. Len(notifyChan) : notifyChan[i] = sent[Taken + i]
    /\ Dispatching => Taken >= 1 /\ cur[Bus] = sent[Taken]
    /\ \A k \in 1 .. Len(sent) : sent[k] \in Range(ws) <=> k <= Delivered

\* The event a publisher is about to send or dispatches itself is its own.
Owned ==
    \A p \in Publishers : Busy(p) =>
        /\ cur[p] \notin Range(sent) \cup Range(ws)
        /\ \A q \in Publishers : q # p /\ Busy(q) => cur[q] # cur[p]

\* Nothing is forwarded to the block handler before its turn.
NotYet ==
    /\ \A p \in Publishers : pc[p] \in {"send", "sync"} => cur[p] \notin Forwarded
    /\ \A k \in 1 .. Len(sent) :
          k > Taken \/ (k = Taken /\ pc[Bus] = "sync") => sent[k] \notin Forwarded

Distinct(s) == \A i, j \in 1 .. Len(s) : i # j => s[i] # s[j]

Once == /\ Distinct(sent) /\ Distinct(ws) /\ Distinct(handled) /\ Distinct(msgChan)
        /\ Range(handled) \cap Range(msgChan) = {}

InOrder == \A i, j \in 1 .. Len(ws), k, l \in 1 .. Len(sent) :
              i < j /\ ws[i] = sent[k] /\ ws[j] = sent[l] => k < l

BusInv == Shape /\ Queue /\ Owned /\ NotYet /\ Once /\ InOrder

\* Adding a last event to a sequence of events, and taking the first one off.
LEMMA PutLast ==
    ASSUME NEW S, NEW s \in Seq(S), NEW e \in S
    PROVE  /\ Append(s, e) \in Seq(S) /\ Len(Append(s, e)) = Len(s) + 1 /\ Len(s) \in Nat
           /\ \A i \in 1 .. Len(s) : Append(s, e)[i] = s[i]
           /\ Append(s, e)[Len(s) + 1] = e
           /\ Range(Append(s, e)) = Range(s) \cup {e}
           /\ Distinct(s) /\ e \notin Range(s) => Distinct(Append(s, e))
  <1>1. /\ Len(s) \in Nat /\ Len(Append(s, e)) = Len(s) + 1
        /\ \A i \in 1 .. Len(s) : Append(s, e)[i] = s[i]
        /\ Append(s, e)[Len(s) + 1] = e /\ Append(s, e) \in Seq(S)
    OBVIOUS
  <1>2. /\ Range(s) = {s[i] : i \in 1 .. Len(s)}
        /\ Range(Append(s, e)) = {Append(s, e)[i] : i \in 1 .. Len(s) + 1}
    BY <1>1 DEF Range
  <1>3. \A i \in 1 .. Len(s) + 1 : i \in 1 .. Len(s) \/ i = Len(s) + 1 BY <1>1
  <1>4. 1 .. Len(s) \subseteq 1 .. Len(s) + 1 /\ Len(s) + 1 \in 1 .. Len(s) + 1 BY <1>1
  <1>5. Range(Append(s, e)) = Range(s) \cup {e} BY <1>1, <1>2, <1>3, <1>4
  <1>6. ASSUME Distinct(s), e \notin Range(s) PROVE Distinct(Append(s, e))
    BY <1>1, <1>2, <1>3, <1>6 DEF Distinct
  <1> QED BY <1>1, <1>5, <1>6

LEMMA TakeFirst ==
    ASSUME NEW S, NEW s \in Seq(S), s # <<>>
    PROVE  /\ Head(s) = s[1] /\ Head(s) \in S /\ Tail(s) \in Seq(S)
           /\ Len(s) \in Nat /\ Len(s) >= 1 /\ Len(Tail(s)) = Len(s) - 1
           /\ \A i \in 1 .. Len(s) - 1 : Tail(s)[i] = s[i + 1]
           /\ Range(s) = Range(Tail(s)) \cup {Head(s)}
           /\ Distinct(s) => Distinct(Tail(s)) /\ Head(s) \notin Range(Tail(s))
  <1>1. /\ Len(s) \in Nat /\ Len(s) >= 1 /\ Head(s) = s[1] /\ Head(s) \in S
        /\ Tail(s) \in Seq(S) /\ Len(Tail(s)) = Len(s) - 1
        /\ \A i \in 1 .. Len(s) - 1 : Tail(s)[i] = s[i + 1]
    OBVIOUS
  <1>2. /\ Range(s) = {s[i] : i \in 1 .. Len(s)}
        /\ Range(Tail(s)) = {Tail(s)[i] : i \in 1 .. Len(s) - 1}
    BY <1>1 DEF Range
  <1>3. \A i \in 1 .. Len(s) - 1 : i + 1 \in 1 .. Len(s) /\ i + 1 # 1 BY <1>1
  <1>4. \A i \in 1 .. Len(s) : i = 1 \/ (i - 1 \in 1 .. Len(s) - 1 /\ (i - 1) + 1 = i)
    BY <1>1
  <1>5. 1 \in 1 .. Len(s) BY <1>1
  <1>6. ASSUME NEW x \in Range(s) PROVE x \in Range(Tail(s)) \/ x = Head(s)
    <2>1. PICK i \in 1 .. Len(s) : x = s[i] BY <1>2, <1>6
    <2>2. CASE i = 1 BY <1>1, <2>1, <2>2
    <2>3. CASE i - 1 \in 1 .. Len(s) - 1 /\ (i - 1) + 1 = i
      <3>1. Tail(s)[i - 1] = s[i] BY <1>1, <2>3
      <3> QED BY <1>2, <2>1, <2>3, <3>1
    <2> QED BY <1>4, <2>2, <2>3
  <1>7. Range(Tail(s)) \cup {Head(s)} \subseteq Range(s) BY <1>1, <1>2, <1>3, <1>5
  <1>8. ASSUME Distinct(s) PROVE Distinct(Tail(s)) /\ Head(s) \notin Range(Tail(s))
    <2>1. \A i \in 1 .. Len(s) - 1 : Tail(s)[i] # Head(s)
      BY <1>1, <1>3, <1>5, <1>8 DEF Distinct
    <2>2. \A i, j \in 1 .. Len(s) - 1 : i # j => i + 1 # j + 1 OBVIOUS
    <2>3. Distinct(Tail(s)) BY <1>1, <1>3, <1>8, <2>2 DEF Distinct
    <2> QED BY <1>2, <2>1, <2>3
  <1> QED BY <1>1, <1>6, <1>7, <1>8

LEMMA EmptyFacts ==
    Range(<<>>) = {} /\ Distinct(<<>>) /\ \A S : <<>> \in Seq(S)
  BY DEF Range, Distinct

LEMMA BusInit == Init => BusInv
  <1> SUFFICES ASSUME Init PROVE BusInv OBVIOUS
  <1> USE NotifyAssumption DEF Init, Publishers, Dispatchers
  <1>1. \A p \in Publishers : pc[p] = "idle" /\ p # Bus OBVIOUS
  <1>2. pc[Bus] = "select" OBVIOUS
  <1>3. Shape
    BY <1>1, <1>2, EmptyFacts DEF Shape, TypeOK, Busy, Forwarded
  <1>4. Queue BY <1>2, EmptyFacts DEF Queue, Taken, Delivered, Dispatching
  <1>5. Owned /\ NotYet BY <1>1, EmptyFacts DEF Owned, NotYet, Busy
  <1>6. Once /\ InOrder BY EmptyFacts DEF Once, InOrder
  <1> QED BY <1>3, <1>4, <1>5, <1>6 DEF BusInv

\* The parts of the invariant in the form the steps below use.
LEMMA ShapeFacts ==
    ASSUME Shape
    PROVE  /\ events \in Nat /\ events <= MaxEvents /\ MaxEvents \in Nat
           /\ sent \in Seq(Nat) /\ ws \in Seq(Nat) /\ handled \in Seq(Nat)
           /\ notifyChan \in Seq(1 .. MaxEvents) /\ msgChan \in Seq(1 .. MaxEvents)
           /\ Len(sent) \in Nat /\ Len(notifyChan) \in Nat /\ Len(ws) \in Nat
           /\ Len(msgChan) \in Nat /\ Cap \in Nat /\ MsgCap \in Nat
           /\ DOMAIN pc = Dispatchers /\ DOMAIN cur = Dispatchers
           /\ Bus \in Dispatchers /\ Bus \notin Publishers
           /\ \A p \in Publishers : p \in Dispatchers /\ p # Bus
  BY NotifyAssumption DEF Shape, TypeOK, Publishers, Dispatchers

LEMMA ChangeKeeps ==
    ASSUME BusInv, NEW p \in Publishers, Change(p)
    PROVE  BusInv'
  <1>0. /\ events \in Nat /\ events <= MaxEvents /\ MaxEvents \in Nat
        /\ p \in Dispatchers /\ p # Bus
        /\ DOMAIN pc = Dispatchers /\ DOMAIN cur = Dispatchers
        /\ Bus \in Dispatchers /\ \A q \in Publishers : q \in Dispatchers /\ q # Bus
    BY ShapeFacts DEF BusInv
  <1>1. /\ pc[p] = "idle" /\ events < MaxEvents /\ events' = events + 1
        /\ pc' = [pc EXCEPT ![p] = "send"] /\ cur' = [cur EXCEPT ![p] = events + 1]
        /\ UNCHANGED <<notifyChan, stop, msgChan, handled, ws, sent>>
    BY DEF Change
  <1>2. /\ pc'[p] = "send" /\ cur'[p] = events + 1 /\ pc'[Bus] = pc[Bus]
        /\ cur'[Bus] = cur[Bus]
        /\ \A q \in Publishers : q # p => pc'[q] = pc[q] /\ cur'[q] = cur[q]
    BY <1>0, <1>1
  <1>3. /\ events + 1 \in 1 .. MaxEvents /\ ~(events + 1 \in 1 .. events)
        /\ 1 .. events \subseteq 1 .. events + 1 /\ events + 1 \in 1 .. events + 1
    BY <1>0, <1>1
  <1>4. Range(sent) \cup Range(ws) \cup Forwarded \subseteq 1 .. events BY DEF BusInv, Shape
  <1>5. TypeOK'
    <2>1. pc' \in [Dispatchers -> {"idle", "send", "sync", "rpc", "select", "done"}]
      BY <1>0, <1>1 DEF BusInv, Shape, TypeOK
    <2>2. cur' \in [Dispatchers -> 0 .. MaxEvents]
      BY <1>0, <1>1, <1>3 DEF BusInv, Shape, TypeOK
    <2> QED BY <1>0, <1>1, <2>1, <2>2 DEF BusInv, Shape, TypeOK
  <1>6. Shape'
    <2>1. \A q \in Publishers : Busy(q)' => cur'[q] \in 1 .. events + 1
      BY <1>2, <1>3 DEF BusInv, Shape, Busy
    <2> QED BY <1>1, <1>2, <1>3, <1>4, <1>5, <2>1 DEF BusInv, Shape, Forwarded
  <1>7. Queue' BY <1>1, <1>2 DEF BusInv, Queue, Taken, Delivered, Dispatching
  <1>8. Owned'
    <2>1. \A q \in Publishers : q # p /\ Busy(q) => cur[q] \in 1 .. events
      BY DEF BusInv, Shape
    <2> QED BY <1>1, <1>2, <1>3, <1>4, <2>1 DEF BusInv, Owned, Busy
  <1>9. NotYet' BY <1>1, <1>2, <1>3, <1>4 DEF BusInv, NotYet, Forwarded, Taken
  <1>10. Once' /\ InOrder' BY <1>1 DEF BusInv, Once, InOrder
  <1> QED BY <1>6, <1>7, <1>8, <1>9, <1>10 DEF BusInv

LEMMA EnqueueKeeps ==
    ASSUME BusInv, NEW p \in Publishers, Enqueue(p)
    PROVE  BusInv'
  <1>0. /\ p \in Dispatchers /\ p # Bus /\ DOMAIN pc = Dispatchers /\ Bus \in Dispatchers
        /\ \A q \in Publishers : q \in Dispatchers /\ q # Bus
        /\ Len(sent) \in Nat /\ Len(notifyChan) \in Nat /\ Cap \in Nat /\ events <= MaxEvents
        /\ events \in Nat /\ MaxEvents \in Nat
        /\ sent \in Seq(Nat) /\ notifyChan \in Seq(1 .. MaxEvents)
    BY ShapeFacts DEF BusInv
  <1>1. /\ pc[p] = "send" /\ Len(notifyChan) < Cap
        /\ notifyChan' = Append(notifyChan, cur[p]) /\ sent' = Append(sent, cur[p])
        /\ pc' = [pc EXCEPT ![p] = "idle"]
        /\ UNCHANGED <<events, cur, stop, msgChan, handled, ws>>
    BY <1>0 DEF Enqueue, Full
  <1>2. PICK e \in 1 .. events : e = cur[p] BY <1>1 DEF BusInv, Shape, Busy
  <1>3. /\ pc'[p] = "idle" /\ pc'[Bus] = pc[Bus]
        /\ \A q \in Publishers : q # p => pc'[q] = pc[q]
    BY <1>0, <1>1
  <1>4. e \in 1 .. MaxEvents /\ e \in Nat /\ e \notin Range(sent) \cup Range(ws)
        /\ e \notin Forwarded
        /\ \A q \in Publishers : q # p /\ Busy(q) => cur[q] # e
    BY <1>0, <1>1, <1>2 DEF BusInv, Owned, NotYet, Busy
  <1>5. /\ notifyChan' \in Seq(1 .. MaxEvents) /\ Len(notifyChan') = Len(notifyChan) + 1
        /\ \A i \in 1 .. Len(notifyChan) : notifyChan'[i] = notifyChan[i]
        /\ notifyChan'[Len(notifyChan) + 1] = e
    <2>1. notifyChan' = Append(notifyChan, e) BY <1>1, <1>2
    <2> QED BY <1>0, <1>4, <2>1, PutLast
  <1>6. /\ sent' \in Seq(Nat) /\ Len(sent') = Len(sent) + 1 /\ sent'[Len(sent) + 1] = e
        /\ \A i \in 1 .. Len(sent) : sent'[i] = sent[i]
        /\ Range(sent') = Range(sent) \cup {e} /\ Distinct(sent')
    <2>1. sent' = Append(sent, e) BY <1>1, <1>2
    <2>2. Distinct(sent) BY DEF BusInv, Once
    <2> QED BY <1>0, <1>4, <2>1, <2>2, PutLast
  <1>7. \A i \in 1 .. Len(sent) + 1 : i \in 1 .. Len(sent) \/ i = Len(sent) + 1 BY <1>0
  <1>8. Taken' = Taken /\ Taken \in 0 .. Len(sent)
    BY <1>0, <1>5, <1>6 DEF Taken, BusInv, Queue
  <1>9. Shape'
    <2>1. pc' \in [Dispatchers -> {"idle", "send", "sync", "rpc", "select", "done"}]
      BY <1>0, <1>1 DEF BusInv, Shape, TypeOK
    <2>2. TypeOK' BY <1>0, <1>1, <1>5, <2>1 DEF BusInv, Shape, TypeOK
    <2>3. \A q \in Publishers : Busy(q)' => cur'[q] \in 1 .. events
      BY <1>1, <1>3 DEF BusInv, Shape, Busy
    <2> QED BY <1>1, <1>2, <1>3, <1>6, <2>2, <2>3 DEF BusInv, Shape, Forwarded
  <1>10. Queue'
    <2>1. Len(notifyChan') <= Len(sent') BY <1>0, <1>5, <1>6 DEF BusInv, Queue
    <2>2. \A i \in 1 .. Len(notifyChan') : notifyChan'[i] = sent'[Taken' + i]
      <3> SUFFICES ASSUME NEW i \in 1 .. Len(notifyChan) + 1
                   PROVE  notifyChan'[i] = sent'[Taken + i] BY <1>5, <1>8
      <3>1. CASE i \in 1 .. Len(notifyChan)
        <4>1. Taken + i \in 1 .. Len(sent) BY <1>0, <1>8, <3>1 DEF Taken
        <4> QED BY <1>5, <1>6, <3>1, <4>1 DEF BusInv, Queue
      <3>2. CASE i = Len(notifyChan) + 1
        <4>1. Taken + i = Len(sent) + 1 BY <1>0, <3>2 DEF Taken
        <4> QED BY <1>5, <1>6, <3>2, <4>1
      <3> QED BY <1>0, <3>1, <3>2
    <2>3. Dispatching' => Taken' >= 1 /\ cur'[Bus] = sent'[Taken']
      BY <1>0, <1>1, <1>3, <1>6, <1>8 DEF BusInv, Queue, Dispatching
    <2>4. \A k \in 1 .. Len(sent') : sent'[k] \in Range(ws') <=> k <= Delivered'
      <3>1. Delivered' = Delivered /\ Delivered \in Int /\ Delivered <= Len(sent)
        BY <1>0, <1>3, <1>8 DEF Delivered, Dispatching
      <3>2. ~(Len(sent) + 1 <= Delivered) BY <1>0, <3>1
      <3> QED BY <1>1, <1>4, <1>6, <1>7, <3>1, <3>2 DEF BusInv, Queue
    <2> QED BY <2>1, <2>2, <2>3, <2>4 DEF Queue
  <1>11. Owned'
    BY <1>1, <1>2, <1>3, <1>4, <1>6 DEF BusInv, Owned, Busy
  <1>12. NotYet'
    BY <1>0, <1>1, <1>3, <1>4, <1>6, <1>7, <1>8 DEF BusInv, NotYet, Forwarded
  <1>13. Once' BY <1>1, <1>6 DEF BusInv, Once
  <1>14. InOrder'
    <2> SUFFICES ASSUME NEW i \in 1 .. Len(ws), NEW j \in 1 .. Len(ws),
                        NEW k \in 1 .. Len(sent) + 1, NEW l \in 1 .. Len(sent) + 1,
                        i < j, ws[i] = sent'[k], ws[j] = sent'[l]
                 PROVE  k < l
      BY SMTT(30), <1>1, <1>6 DEF InOrder
    <2>1. ws[i] \in Range(ws) /\ ws[j] \in Range(ws)
      <3>1. DOMAIN ws = 1 .. Len(ws) BY ShapeFacts DEF BusInv
      <3> QED BY <3>1 DEF Range
    <2>2. k # Len(sent) + 1 /\ l # Len(sent) + 1 BY <1>4, <1>6, <2>1
    <2>3. k \in 1 .. Len(sent) /\ l \in 1 .. Len(sent) BY <1>7, <2>2
    <2> QED BY <1>6, <2>3 DEF BusInv, InOrder
  <1> QED BY <1>9, <1>10, <1>11, <1>12, <1>13, <1>14 DEF BusInv

\* Only the control point of a publisher moves, to dispatching itself.
LEMMA InlineKeeps ==
    ASSUME BusInv, NEW p \in Publishers, Inline(p)
    PROVE  BusInv'
  <1>0. /\ p \in Dispatchers /\ p # Bus /\ DOMAIN pc = Dispatchers /\ Bus \in Dispatchers
        /\ \A q \in Publishers : q \in Dispatchers /\ q # Bus
    BY ShapeFacts DEF BusInv
  <1>1. /\ pc[p] = "send" /\ pc' = [pc EXCEPT ![p] = "sync"]
        /\ UNCHANGED <<events, cur, notifyChan, stop, msgChan, handled, ws, sent>>
    BY DEF Inline
  <1>2. /\ pc'[p] = "sync" /\ pc'[Bus] = pc[Bus]
        /\ \A q \in Publishers : q # p => pc'[q] = pc[q]
    BY <1>0, <1>1
  <1>3. pc' \in [Dispatchers -> {"idle", "send", "sync", "rpc", "select", "done"}]
    BY <1>0, <1>1 DEF BusInv, Shape, TypeOK
  <1>4. \A q \in Publishers : Busy(q)' <=> Busy(q) BY <1>1, <1>2 DEF Busy
  <1>5. Shape' BY <1>1, <1>2, <1>3, <1>4 DEF BusInv, Shape, TypeOK, Forwarded
  <1>6. Queue' BY <1>1, <1>2 DEF BusInv, Queue, Taken, Delivered, Dispatching
  <1>7. Owned' BY <1>1, <1>4 DEF BusInv, Owned
  <1>8. NotYet' BY <1>1, <1>2 DEF BusInv, NotYet, Forwarded, Taken
  <1>9. Once' /\ InOrder' BY <1>1 DEF BusInv, Once, InOrder
  <1> QED BY <1>5, <1>6, <1>7, <1>8, <1>9 DEF BusInv

\* A dispatcher's event belongs to nobody else and comes for the first time.
LEMMA MyTurn ==
    ASSUME BusInv, NEW d \in Dispatchers, pc[d] \in {"sync", "rpc"}
    PROVE  /\ cur[d] \in 1 .. events /\ cur[d] \notin Range(ws)
           /\ pc[d] = "sync" => cur[d] \notin Forwarded
           /\ \A p \in Publishers : p # d /\ Busy(p) => cur[p] # cur[d]
  <1>1. CASE d # Bus
    <2>1. d \in Publishers BY <1>1 DEF Dispatchers
    <2> QED BY <2>1 DEF BusInv, Shape, Owned, NotYet, Busy
  <1>2. CASE d = Bus
    <2>0. Len(sent) \in Nat /\ Len(notifyChan) \in Nat /\ sent \in Seq(Nat)
      BY ShapeFacts DEF BusInv
    <2>1. Taken >= 1 /\ cur[Bus] = sent[Taken] /\ Delivered = Taken - 1 /\ Taken \in Int
      BY <1>2, <2>0 DEF BusInv, Queue, Dispatching, Delivered, Taken
    <2>2. Taken \in 1 .. Len(sent) BY <2>0, <2>1 DEF Taken
    <2>3. sent[Taken] \in Range(sent) BY <2>0, <2>2 DEF Range
    <2>4. ~(Taken <= Delivered) BY <2>1
    <2>5. cur[Bus] \notin Range(ws) BY <2>1, <2>2, <2>4 DEF BusInv, Queue
    <2>6. pc[Bus] = "sync" => cur[Bus] \notin Forwarded
      BY <2>1, <2>2 DEF BusInv, NotYet
    <2> QED BY <1>2, <2>1, <2>3, <2>5, <2>6 DEF BusInv, Shape, Owned
  <1> QED BY <1>1, <1>2

LEMMA ForwardKeeps ==
    ASSUME BusInv, NEW d \in Dispatchers, Forward(d)
    PROVE  BusInv'
  <1>0. /\ DOMAIN pc = Dispatchers /\ Bus \in Dispatchers /\ events <= MaxEvents
        /\ \A q \in Publishers : q \in Dispatchers /\ q # Bus
        /\ events \in Nat /\ MaxEvents \in Nat /\ MsgCap \in Nat /\ Len(msgChan) \in Nat
        /\ msgChan \in Seq(1 .. MaxEvents) /\ Len(sent) \in Nat /\ Len(notifyChan) \in Nat
    BY ShapeFacts DEF BusInv
  <1>1. /\ pc[d] = "sync" /\ pc' = [pc EXCEPT ![d] = "rpc"]
        /\ UNCHANGED <<events, cur, notifyChan, stop, handled, ws, sent>>
    BY DEF Forward
  <1>2. PICK e \in 1 .. events : e = cur[d] BY <1>1, MyTurn
  <1>3. /\ e \in 1 .. MaxEvents /\ e \notin Forwarded
        /\ \A p \in Publishers : p # d /\ Busy(p) => cur[p] # e
    BY <1>0, <1>1, <1>2, MyTurn
  <1>4. /\ pc'[d] = "rpc" /\ \A q \in Dispatchers : q # d => pc'[q] = pc[q]
    BY <1>0, <1>1
  <1>5. /\ msgChan' \in Seq(1 .. MaxEvents) /\ Len(msgChan') <= MsgCap /\ Distinct(msgChan')
        /\ Range(msgChan') = Range(msgChan) \cup {e} \/ Range(msgChan') = Range(msgChan)
    <2>1. Distinct(msgChan) /\ Len(msgChan) <= MsgCap
      BY DEF BusInv, Once, Shape, TypeOK
    <2>2. CASE Len(msgChan) < MsgCap /\ msgChan' = Append(msgChan, cur[d])
      <3>1. msgChan' = Append(msgChan, e) /\ e \notin Range(msgChan)
        BY <1>2, <1>3, <2>2 DEF Forwarded
      <3> QED BY <1>0, <1>3, <2>1, <2>2, <3>1, PutLast
    <2>3. CASE UNCHANGED msgChan BY <1>0, <2>1, <2>3
    <2> QED BY <2>2, <2>3 DEF Forward
  <1>6. /\ Range(handled) \cap Range(msgChan') = {}
        /\ Forwarded' \subseteq Forwarded \cup {e}
    BY <1>1, <1>3, <1>5 DEF BusInv, Once, Forwarded
  <1>7. pc' \in [Dispatchers -> {"idle", "send", "sync", "rpc", "select", "done"}]
    BY <1>0, <1>1 DEF BusInv, Shape, TypeOK
  <1>8. /\ \A q \in Publishers : Busy(q)' <=> Busy(q)
        /\ Dispatching' <=> Dispatching
    BY <1>0, <1>1, <1>4 DEF Busy, Dispatching
  <1>9. Shape'
    <2>1. /\ pc'[Bus] \in {"select", "sync", "rpc", "done"}
          /\ \A p \in Publishers : pc'[p] \in {"idle", "send", "sync", "rpc"}
      BY <1>0, <1>1, <1>4 DEF BusInv, Shape
    <2>2. TypeOK' BY <1>1, <1>5, <1>7 DEF BusInv, Shape, TypeOK
    <2>3. (Range(sent) \cup Range(ws) \cup Forwarded)' \subseteq 1 .. events
      BY <1>1, <1>6 DEF BusInv, Shape
    <2> QED BY <1>1, <1>8, <2>1, <2>2, <2>3 DEF BusInv, Shape
  <1>10. Queue' BY <1>1, <1>8 DEF BusInv, Queue, Taken, Delivered
  <1>11. Owned' BY <1>1, <1>8 DEF BusInv, Owned
  <1>12. NotYet'
    <2>1. ASSUME NEW p \in Publishers, pc'[p] \in {"send", "sync"}
          PROVE  cur[p] \notin Forwarded'
      <3>1. p # d /\ pc'[p] = pc[p] BY <1>0, <1>4, <2>1
      <3> QED BY <1>3, <1>6, <2>1, <3>1 DEF BusInv, NotYet, Busy
    <2>2. ASSUME NEW k \in 1 .. Len(sent), k > Taken \/ (k = Taken /\ pc'[Bus] = "sync")
          PROVE  sent[k] \notin Forwarded'
      <3>1. sent[k] \in Range(sent)
        <4>1. sent \in Seq(Nat) BY ShapeFacts DEF BusInv
        <4> QED BY <4>1 DEF Range
      <3>2. sent[k] # e
        <4>1. CASE d = Bus
          <5>1. k > Taken BY <1>4, <2>2, <4>1
          <5>2. Taken \in 1 .. Len(sent) /\ e = sent[Taken] /\ k # Taken
            BY <1>0, <1>1, <1>2, <4>1, <5>1 DEF BusInv, Queue, Dispatching, Taken
          <5> QED BY <5>2 DEF BusInv, Once, Distinct
        <4>2. CASE d # Bus
          <5>1. d \in Publishers BY <4>2 DEF Dispatchers
          <5> QED BY <1>1, <1>2, <3>1, <5>1 DEF BusInv, Owned, Busy
        <4> QED BY <4>1, <4>2
      <3>3. k > Taken \/ (k = Taken /\ pc[Bus] = "sync") BY <1>0, <1>4, <2>2
      <3> QED BY <1>6, <3>2, <3>3 DEF BusInv, NotYet
    <2> QED BY <1>1, <2>1, <2>2 DEF NotYet, Taken
  <1>13. Once' /\ InOrder' BY <1>1, <1>5, <1>6 DEF BusInv, Once, InOrder
  <1> QED BY <1>9, <1>10, <1>11, <1>12, <1>13 DEF BusInv

LEMMA NotifyKeeps ==
    ASSUME BusInv, NEW d \in Dispatchers, Notify(d)
    PROVE  BusInv'
  <1>0. /\ DOMAIN pc = Dispatchers /\ Bus \in Dispatchers
        /\ \A q \in Publishers : q \in Dispatchers /\ q # Bus
        /\ events \in Nat /\ sent \in Seq(Nat)
        /\ ws \in Seq(Nat) /\ Len(sent) \in Nat /\ Len(notifyChan) \in Nat /\ Len(ws) \in Nat
    BY ShapeFacts DEF BusInv
  <1>1. /\ pc[d] = "rpc" /\ ws' = Append(ws, cur[d])
        /\ pc' = [pc EXCEPT ![d] = IF d = Bus THEN "select" ELSE "idle"]
        /\ UNCHANGED <<events, cur, notifyChan, stop, msgChan, handled, sent>>
    BY DEF Notify
  <1>2. PICK e \in 1 .. events : e = cur[d] BY <1>1, MyTurn
  <1>3. /\ e \in Nat /\ e \notin Range(ws)
        /\ \A p \in Publishers : p # d /\ Busy(p) => cur[p] # e
    BY <1>0, <1>1, <1>2, MyTurn
  <1>4. /\ pc'[d] = IF d = Bus THEN "select" ELSE "idle"
        /\ \A q \in Dispatchers : q # d => pc'[q] = pc[q]
    BY <1>0, <1>1
  <1>5. /\ ws' \in Seq(Nat) /\ Len(ws') = Len(ws) + 1 /\ ws'[Len(ws) + 1] = e
        /\ \A i \in 1 .. Len(ws) : ws'[i] = ws[i]
        /\ Range(ws') = Range(ws) \cup {e} /\ Distinct(ws')
    <2>1. ws' = Append(ws, e) /\ Distinct(ws) BY <1>1, <1>2 DEF BusInv, Once
    <2> QED BY <1>0, <1>3, <2>1, PutLast
  <1>6. pc' \in [Dispatchers -> {"idle", "send", "sync", "rpc", "select", "done"}]
    BY <1>0, <1>1 DEF BusInv, Shape, TypeOK
  <1>7. \A q \in Publishers : Busy(q)' => Busy(q) /\ q # d
    BY <1>0, <1>4 DEF Busy
  <1>8. Shape'
    <2>1. /\ pc'[Bus] \in {"select", "sync", "rpc", "done"}
          /\ \A p \in Publishers : pc'[p] \in {"idle", "send", "sync", "rpc"}
      BY <1>0, <1>4 DEF BusInv, Shape
    <2>2. TypeOK' BY <1>1, <1>6 DEF BusInv, Shape, TypeOK
    <2> QED BY <1>1, <1>5, <1>7, <2>1, <2>2 DEF BusInv, Shape, Forwarded
  <1>9. \A k \in 1 .. Len(sent) : sent[k] = e => d = Bus /\ k = Taken
    <2> SUFFICES ASSUME NEW k \in 1 .. Len(sent), sent[k] = e PROVE d = Bus /\ k = Taken
      OBVIOUS
    <2>1. sent[k] \in Range(sent) BY <1>0 DEF Range
    <2>2. d = Bus
      <3>1. ASSUME d # Bus PROVE FALSE
        <4>1. d \in Publishers BY <3>1 DEF Dispatchers
        <4> QED BY <1>1, <1>2, <2>1, <4>1 DEF BusInv, Owned, Busy
      <3> QED BY <3>1
    <2>3. Taken \in 1 .. Len(sent) /\ e = sent[Taken]
      BY <1>0, <1>1, <1>2, <2>2 DEF BusInv, Queue, Dispatching, Taken
    <2> QED BY <2>2, <2>3 DEF BusInv, Once, Distinct
  <1>10. \A k \in 1 .. Len(sent) : sent[k] \in Range(ws') <=> k <= Delivered'
    <2>1. CASE d = Bus
      <3>1. /\ Taken \in 1 .. Len(sent) /\ e = sent[Taken] /\ Delivered = Taken - 1
            /\ Delivered' = Taken
        BY <1>0, <1>1, <1>2, <1>4, <2>1 DEF BusInv, Queue, Dispatching, Delivered, Taken
      <3>2. \A k \in 1 .. Len(sent) : k <= Taken <=> k <= Taken - 1 \/ k = Taken
        BY <3>1
      <3> QED BY <1>5, <1>9, <3>1, <3>2 DEF BusInv, Queue
    <2>2. CASE d # Bus
      <3>1. Delivered' = Delivered BY <1>0, <1>1, <1>4, <2>2 DEF Delivered, Taken, Dispatching
      <3> QED BY <1>5, <1>9, <2>2, <3>1 DEF BusInv, Queue
    <2> QED BY <2>1, <2>2
  <1>11. Queue'
    <2>1. Dispatching' => Dispatching BY <1>0, <1>1, <1>4 DEF Dispatching
    <2> QED BY <1>1, <1>10, <2>1 DEF BusInv, Queue, Taken
  <1>12. Owned' BY <1>1, <1>3, <1>5, <1>7 DEF BusInv, Owned
  <1>13. NotYet'
    <2>1. \A p \in Publishers : pc'[p] \in {"send", "sync"} => pc[p] = pc'[p]
      BY <1>0, <1>4
    <2>2. pc'[Bus] = "sync" => pc[Bus] = "sync" BY <1>0, <1>4
    <2> QED BY <1>1, <2>1, <2>2 DEF BusInv, NotYet, Forwarded, Taken
  <1>14. Once' BY <1>1, <1>5 DEF BusInv, Once
  <1>15. InOrder'
    <2> SUFFICES ASSUME NEW i \in 1 .. Len(ws) + 1, NEW j \in 1 .. Len(ws) + 1,
                        NEW k \in 1 .. Len(sent), NEW l \in 1 .. Len(sent),
                        i < j, ws'[i] = sent[k], ws'[j] = sent[l]
                 PROVE  k < l
      BY SMTT(30), <1>1, <1>5 DEF InOrder
    <2>n. Len(ws) \in Nat BY <1>0
    <2>i. i \in 1 .. Len(ws) /\ (j \in 1 .. Len(ws) \/ j = Len(ws) + 1) BY <2>n
    <2>1. i \in 1 .. Len(ws) /\ ws'[i] = ws[i] BY <1>5, <2>i
    <2>2. CASE j \in 1 .. Len(ws) BY <1>5, <2>1, <2>2 DEF BusInv, InOrder
    <2>3. CASE j = Len(ws) + 1
      <3>1. sent[l] = e BY <1>5, <2>3
      <3>2. d = Bus /\ l = Taken BY <1>9, <3>1
      <3>3. Delivered = Taken - 1 BY <1>1, <3>2 DEF Delivered, Dispatching
      <3>4. ws[i] \in Range(ws) BY SMTT(30), <1>0, <2>1 DEF Range
      <3>5. k <= Delivered BY <2>1, <3>4 DEF BusInv, Queue
      <3> QED BY <1>0, <3>2, <3>3, <3>5
    <2> QED BY <2>i, <2>2, <2>3
  <1> QED BY <1>8, <1>11, <1>12, <1>13, <1>14, <1>15 DEF BusInv

LEMMA ReceiveKeeps ==
    ASSUME BusInv, LoopReceive
    PROVE  BusInv'
  <1>0. /\ DOMAIN pc = Dispatchers /\ DOMAIN cur = Dispatchers /\ Bus \in Dispatchers
        /\ \A q \in Publishers : q \in Dispatchers /\ q # Bus
        /\ Len(sent) \in Nat /\ Len(notifyChan) \in Nat /\ Cap \in Nat /\ MaxEvents \in Nat
        /\ notifyChan \in Seq(1 .. MaxEvents)
    BY ShapeFacts DEF BusInv
  <1>1. /\ pc[Bus] = "select" /\ notifyChan # <<>> /\ notifyChan' = Tail(notifyChan)
        /\ cur' = [cur EXCEPT ![Bus] = Head(notifyChan)]
        /\ pc' = [pc EXCEPT ![Bus] = "sync"]
        /\ UNCHANGED <<events, stop, msgChan, handled, ws, sent>>
    BY DEF LoopReceive
  <1>2. /\ Head(notifyChan) = notifyChan[1] /\ Head(notifyChan) \in 1 .. MaxEvents
        /\ notifyChan' \in Seq(1 .. MaxEvents) /\ Len(notifyChan) >= 1
        /\ Len(notifyChan') = Len(notifyChan) - 1
        /\ \A i \in 1 .. Len(notifyChan) - 1 : notifyChan'[i] = notifyChan[i + 1]
    BY <1>0, <1>1, TakeFirst
  <1>3. /\ pc'[Bus] = "sync" /\ cur'[Bus] = Head(notifyChan)
        /\ \A q \in Publishers : pc'[q] = pc[q] /\ cur'[q] = cur[q]
    BY <1>0, <1>1
  <1>4. /\ Taken' = Taken + 1 /\ Taken \in 0 .. Len(sent) - 1
        /\ Delivered = Taken /\ Delivered' = Taken
    BY <1>0, <1>1, <1>2, <1>3 DEF Taken, Delivered, Dispatching, BusInv, Queue
  <1>5. Shape'
    <2>1. pc' \in [Dispatchers -> {"idle", "send", "sync", "rpc", "select", "done"}]
      BY <1>0, <1>1 DEF BusInv, Shape, TypeOK
    <2>2. cur' \in [Dispatchers -> 0 .. MaxEvents]
      BY <1>0, <1>1, <1>2 DEF BusInv, Shape, TypeOK
    <2>3. TypeOK' BY <1>0, <1>1, <1>2, <2>1, <2>2 DEF BusInv, Shape, TypeOK
    <2> QED BY <1>1, <1>3, <2>3 DEF BusInv, Shape, Forwarded, Busy
  <1>6. Queue'
    <2>1. Len(notifyChan') <= Len(sent) BY <1>0, <1>2 DEF BusInv, Queue
    <2>2. \A i \in 1 .. Len(notifyChan) - 1 : notifyChan'[i] = sent[Taken + 1 + i]
      <3> SUFFICES ASSUME NEW i \in 1 .. Len(notifyChan) - 1
                   PROVE  notifyChan'[i] = sent[Taken + 1 + i] OBVIOUS
      <3>1. i + 1 \in 1 .. Len(notifyChan) /\ Taken + (i + 1) = Taken + 1 + i
        BY <1>0, <1>4
      <3>2. notifyChan[i + 1] = sent[Taken + (i + 1)] BY <3>1 DEF BusInv, Queue
      <3> QED BY <1>2, <3>1, <3>2
    <2>3. cur'[Bus] = sent[Taken + 1]
      <3>1. 1 \in 1 .. Len(notifyChan) BY <1>0, <1>2
      <3> QED BY <1>2, <1>3, <3>1 DEF BusInv, Queue
    <2>4. \A k \in 1 .. Len(sent) : sent[k] \in Range(ws) <=> k <= Taken
      BY <1>4 DEF BusInv, Queue
    <2> QED BY <1>1, <1>2, <1>4, <2>1, <2>2, <2>3, <2>4 DEF Queue
  <1>7. Owned' BY <1>1, <1>3 DEF BusInv, Owned, Busy
  <1>8. NotYet'
    <2>1. \A k \in 1 .. Len(sent) :
              k > Taken + 1 \/ k = Taken + 1 => k > Taken
      BY <1>4
    <2> QED BY <1>1, <1>3, <1>4, <2>1 DEF BusInv, NotYet, Forwarded
  <1>9. Once' /\ InOrder' BY <1>1 DEF BusInv, Once, InOrder
  <1> QED BY <1>5, <1>6, <1>7, <1>8, <1>9 DEF BusInv

LEMMA HandleKeeps ==
    ASSUME BusInv, Handle
    PROVE  BusInv'
  <1>0. /\ msgChan \in Seq(1 .. MaxEvents) /\ handled \in Seq(Nat) /\ MaxEvents \in Nat
        /\ MsgCap \in Nat
    BY ShapeFacts DEF BusInv
  <1>1. /\ msgChan # <<>> /\ handled' = Append(handled, Head(msgChan))
        /\ msgChan' = Tail(msgChan)
        /\ UNCHANGED <<events, pc, cur, notifyChan, stop, ws, sent>>
    BY DEF Handle
  <1>2. Distinct(handled) /\ Distinct(msgChan) /\ Range(handled) \cap Range(msgChan) = {}
    BY DEF BusInv, Once
  <1>3. /\ Head(msgChan) \in 1 .. MaxEvents /\ msgChan' \in Seq(1 .. MaxEvents)
        /\ Len(msgChan') = Len(msgChan) - 1 /\ Len(msgChan) \in Nat
        /\ Range(msgChan) = Range(msgChan') \cup {Head(msgChan)}
        /\ Distinct(msgChan') /\ Head(msgChan) \notin Range(msgChan')
    BY <1>0, <1>1, <1>2, TakeFirst
  <1>4. PICK e \in Nat : e = Head(msgChan) BY <1>3
  <1>5. /\ handled' \in Seq(Nat) /\ Range(handled') = Range(handled) \cup {e}
        /\ Distinct(handled')
    <2>1. handled' = Append(handled, e) /\ e \notin Range(handled)
      BY <1>1, <1>2, <1>3, <1>4
    <2> QED BY <1>0, <1>2, <2>1, PutLast
  <1>6. Forwarded' = Forwarded BY <1>3, <1>4, <1>5 DEF Forwarded
  <1>7. Once' BY <1>1, <1>2, <1>3, <1>4, <1>5 DEF BusInv, Once
  <1>8. Shape'
    <2>1. TypeOK' BY <1>0, <1>1, <1>3 DEF BusInv, Shape, TypeOK
    <2> QED BY <1>1, <1>5, <1>6, <2>1 DEF BusInv, Shape, Busy
  <1>9. Queue' /\ Owned' /\ NotYet' /\ InOrder'
    BY <1>1, <1>6
    DEF BusInv, Queue, Taken, Delivered, Dispatching, Owned, NotYet, Busy, InOrder
  <1> QED BY <1>7, <1>8, <1>9 DEF BusInv

LEMMA BusNext == BusInv /\ [Next]_vars => BusInv'
  <1> SUFFICES ASSUME BusInv, [Next]_vars PROVE BusInv' OBVIOUS
  <1>1. CASE LoopReturn
    <2>0. DOMAIN pc = Dispatchers /\ Bus \in Dispatchers
          /\ \A q \in Publishers : q \in Dispatchers /\ q # Bus
      BY ShapeFacts DEF BusInv
    <2>1. /\ pc[Bus] = "select" /\ pc' = [pc EXCEPT ![Bus] = "done"]
          /\ UNCHANGED <<events, cur, notifyChan, stop, msgChan, handled, ws, sent>>
      BY <1>1 DEF LoopReturn
    <2>2. pc'[Bus] = "done" /\ \A q \in Publishers : pc'[q] = pc[q] BY <2>0, <2>1
    <2>3. Shape'
      <3>1. pc' \in [Dispatchers -> {"idle", "send", "sync", "rpc", "select", "done"}]
        BY <2>0, <2>1 DEF BusInv, Shape, TypeOK
      <3> QED BY <2>1, <2>2, <3>1 DEF BusInv, Shape, TypeOK, Busy, Forwarded
    <2>4. Queue' BY <2>1, <2>2 DEF BusInv, Queue, Taken, Delivered, Dispatching
    <2> QED
      BY <2>1, <2>2, <2>3, <2>4
      DEF BusInv, Owned, NotYet, Busy, Forwarded, Taken, Once, InOrder
  <1>2. CASE StopNotifications \/ StopReturn \/ HandlerQuit \/ UNCHANGED vars
    <2>1. /\ UNCHANGED <<events, pc, cur, notifyChan, msgChan, handled, ws, sent>>
          /\ stop' \in {"waiting", "returned", "quit"} \/ stop' = stop
      BY <1>2 DEF StopNotifications, StopReturn, HandlerQuit, vars
    <2>2. Shape' BY <2>1 DEF BusInv, Shape, TypeOK, Busy, Forwarded
    <2>3. Queue' /\ Owned' BY <2>1 DEF BusInv, Queue, Taken, Delivered, Dispatching, Owned, Busy
    <2>4. NotYet' /\ Once' /\ InOrder'
      BY <2>1 DEF BusInv, NotYet, Forwarded, Taken, Once, InOrder
    <2> QED BY <2>2, <2>3, <2>4 DEF BusInv
  <1>3. ASSUME NEW p \in Publishers, Change(p) \/ PublisherStep(p) PROVE BusInv'
    <2>1. p \in Dispatchers BY DEF Dispatchers
    <2> QED
      BY <1>3, <2>1, ChangeKeeps, EnqueueKeeps, InlineKeeps, ForwardKeeps, NotifyKeeps
      DEF PublisherStep
  <1>4. CASE BusStep
    <2>1. Bus \in Dispatchers BY DEF Dispatchers
    <2> QED BY <1>1, <1>4, <2>1, ReceiveKeeps, ForwardKeeps, NotifyKeeps DEF BusStep
  <1>5. CASE Handle BY <1>5, HandleKeeps
  <1> QED BY <1>2, <1>3, <1>4, <1>5 DEF Next

\* Two sequences of distinct events with none in common, one behind the other.
LEMMA JoinDistinct ==
    ASSUME NEW s \in Seq(Nat), NEW t \in Seq(Nat), Distinct(s), Distinct(t),
           Range(s) \cap Range(t) = {}
    PROVE  IsInjective(s \o t)
  <1>1. /\ Len(s) \in Nat /\ Len(t) \in Nat /\ DOMAIN (s \o t) = 1 .. Len(s) + Len(t)
        /\ \A i \in 1 .. Len(s) + Len(t) :
              (s \o t)[i] = IF i <= Len(s) THEN s[i] ELSE t[i - Len(s)]
    BY ConcatProperties
  <1>2. /\ \A i \in 1 .. Len(s) : s[i] \in Range(s)
        /\ \A i \in 1 .. Len(t) : t[i] \in Range(t)
    BY DEF Range
  <1> SUFFICES ASSUME NEW i \in 1 .. Len(s) + Len(t), NEW j \in 1 .. Len(s) + Len(t),
                      i # j
               PROVE  (s \o t)[i] # (s \o t)[j]
    BY <1>1 DEF IsInjective
  <1>3. CASE i <= Len(s) /\ j <= Len(s)
    <2>1. i \in 1 .. Len(s) /\ j \in 1 .. Len(s) BY <1>1, <1>3
    <2> QED BY <1>1, <1>3, <2>1 DEF Distinct
  <1>4. CASE ~(i <= Len(s)) /\ ~(j <= Len(s))
    <2>1. i - Len(s) \in 1 .. Len(t) /\ j - Len(s) \in 1 .. Len(t)
          /\ i - Len(s) # j - Len(s)
      BY <1>1, <1>4
    <2> QED BY <1>1, <1>4, <2>1 DEF Distinct
  <1>5. CASE i <= Len(s) /\ ~(j <= Len(s))
    <2>1. i \in 1 .. Len(s) /\ j - Len(s) \in 1 .. Len(t) BY <1>1, <1>5
    <2> QED BY <1>1, <1>2, <1>5, <2>1
  <1>6. CASE ~(i <= Len(s)) /\ j <= Len(s)
    <2>1. j \in 1 .. Len(s) /\ i - Len(s) \in 1 .. Len(t) BY <1>1, <1>6
    <2> QED BY <1>1, <1>2, <1>6, <2>1
  <1> QED BY <1>3, <1>4, <1>5, <1>6

\* Subscribers receive what went through the queue in the order it was
\* published, without gap and once, and both channels keep to their capacity:
\* for every set of publishers, however they fall back to inline dispatch.
THEOREM DeliveryAlways == Spec => []DeliveredInOrder
  <1>1. BusInv => DeliveredInOrder
    <2> SUFFICES ASSUME BusInv PROVE DeliveredInOrder OBVIOUS
    <2>0. /\ Len(sent) \in Nat /\ Len(ws) \in Nat /\ Len(notifyChan) \in Nat
          /\ sent \in Seq(Nat) /\ ws \in Seq(Nat) /\ handled \in Seq(Nat)
          /\ msgChan \in Seq(1 .. MaxEvents) /\ MaxEvents \in Nat
      BY ShapeFacts DEF BusInv
    <2>1. TypeOK BY DEF BusInv, Shape
    <2>2. DOMAIN sent = 1 .. Len(sent) /\ DOMAIN ws = 1 .. Len(ws) BY <2>0
    <2>3. QueuedInOrder
      <3>1. ASSUME NEW j \in 1 .. Len(sent), NEW k \in 1 .. Len(sent),
                   j < k, sent[k] \in Range(ws)
            PROVE  sent[j] \in Range(ws)
        <4>1. k <= Delivered BY <3>1 DEF BusInv, Queue
        <4>2. Delivered \in Int BY <2>0 DEF Delivered, Taken
        <4>3. j <= Delivered BY <3>1, <4>1, <4>2
        <4> QED BY <4>3 DEF BusInv, Queue
      <3> QED BY <2>2, <3>1 DEF QueuedInOrder, BusInv, InOrder
    <2>4. IsInjective(ws) BY <2>2 DEF BusInv, Once, Distinct, IsInjective
    <2>5. IsInjective(handled \o msgChan)
      <3>1. msgChan \in Seq(Nat)
        <4>1. \A i \in 1 .. Len(msgChan) : msgChan[i] \in Nat BY <2>0
        <4> QED BY <2>0, <4>1
      <3> QED BY <2>0, <3>1, JoinDistinct DEF BusInv, Once
    <2> QED BY <2>1, <2>3, <2>4, <2>5 DEF DeliveredInOrder, AtMostOnce
  <1> QED BY BusInit, BusNext, <1>1, PTL DEF Spec
=============================================================================
