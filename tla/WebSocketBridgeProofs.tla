------------------------ MODULE WebSocketBridgeProofs ------------------------
(***************************************************************************)
(* RelayIsExact and UnmarkedIsComplete for all limits and any traffic.     *)
(*                                                                         *)
(* Neither is inductive.  OrderInv adds what is still on the wire: it      *)
(* carries the numbers that follow those of the counted messages.          *)
(* TrafficInv bounds every counted message, not only the delivered ones.   *)
(* CaptureInv says of the capture in progress what UnmarkedIsComplete says *)
(* of the recorded one, and RecordInv that the record holds the statistics *)
(* the connection ended with.                                              *)
(***************************************************************************)
EXTENDS WebSocketBridge, CollectionTheorems

(* Of the n messages a peer has sent, q are counted, v of them taken by    *)
(* the other peer, h in hand, and w on the wire.                           *)
InOrder(q, v, h, w, n) ==
    /\ q = v \o h /\ Len(h) <= 1
    /\ Len(q) + Len(w) = n
    /\ \A k \in 1 .. Len(q) : q[k].number = k
    /\ \A k \in 1 .. Len(w) : w[k].number = Len(q) + k

OrderInv(d) == InOrder(seen[d], delivered[d], hand[d], wire[d], sent[d])

TrafficInv(d) ==
    /\ stats.count[d] = Len(seen[d])
    /\ stats.bytes[d] = SumOf(Sizes(seen[d]), DOMAIN seen[d])
    /\ stats.bytes[d] <= MaxSession
    /\ \A k \in DOMAIN seen[d] : seen[d][k].size <= MaxMessage

(* The frames are the messages of both directions, none left out. *)
Complete(frames, msgs) ==
    /\ \A d \in Dirs : Cardinality(FramesOf(frames, Len(frames), d)) = Len(msgs[d])
    /\ \A k \in DOMAIN frames : IsNextOf(msgs, frames, k)

CaptureInv ==
    /\ Len(stats.frames) <= MaxFrames
    /\ captured /\ ~stats.truncated => Complete(stats.frames, seen)

(* What the one record of a captured connection says. *)
GoodRecord(r) ==
    \/ r.error = "connect"
    \/ r.stats = stats /\ r.body <= MaxSession /\ (stats.truncated => r.truncated)

RecordInv ==
    IF captured /\ pc = "closed" THEN records = <<records[1]>> /\ GoodRecord(records[1])
                                 ELSE records = <<>>

IInv ==
    /\ TypeOK /\ CaptureInv /\ RecordInv
    /\ \A d \in Dirs : OrderInv(d) /\ TrafficInv(d)

-----------------------------------------------------------------------------
(* The capture of one message.                                             *)

(* capture_text_ws_frame keeps the text within the limit, and says so when *)
(* it keeps less than the whole text.                                      *)
LEMMA TextCapture ==
  ASSUME NEW s \in Stats, NEW frame \in Frames, NEW slack \in 0 .. 1
  PROVE  LET r == capture_text_ws_frame(s, frame, slack)
         IN  /\ r \in Stats /\ r.count = s.count /\ r.bytes = s.bytes
             /\ s.truncated => r.truncated
             /\ r.frames = s.frames \/ \E f \in Frames : r.frames = Append(s.frames, f)
             /\ ~r.truncated => r.frames = Append(s.frames, frame)
<1> DEFINE remaining == MaxSession - s.text
           kept == IF frame.size <= remaining THEN frame.size
                   ELSE IF slack <= remaining THEN remaining - slack ELSE 0
           cut == [frame EXCEPT !.size = kept]
           r == capture_text_ws_frame(s, frame, slack)
<1>0. s.text \in 0 .. MaxSession /\ frame.size \in Nat /\ MaxSession \in Nat /\ slack \in 0 .. 1
  BY BridgeAssumption DEF Stats, Frames
<1>1. kept \in Nat /\ s.text + kept \in 0 .. MaxSession /\ kept <= frame.size BY <1>0
<1>2. cut \in Frames BY <1>1 DEF Frames
<1>3. kept = frame.size => cut = frame BY DEF Frames
<1>4. CASE remaining = 0 /\ frame.size > 0
  <2>1. r = [s EXCEPT !.truncated = TRUE] BY <1>4 DEF capture_text_ws_frame
  <2> QED BY <2>1 DEF Stats
<1>5. CASE ~(remaining = 0 /\ frame.size > 0)
  <2>1. r = [s EXCEPT !.text = @ + kept, !.truncated = @ \/ kept < frame.size, !.frames = Append(@, cut)]
    BY <1>5 DEF capture_text_ws_frame
  <2> HIDE DEF r, cut, kept
  <2>2. /\ r.text = s.text + kept /\ r.truncated = (s.truncated \/ kept < frame.size)
        /\ r.frames = Append(s.frames, cut) /\ r.count = s.count /\ r.bytes = s.bytes
    BY <2>1 DEF Stats
  <2>3. Append(s.frames, cut) \in Seq(Frames) BY <1>2 DEF Stats
  <2>4. r \in Stats BY <1>1, <2>1, <2>3 DEF Stats
  <2>5. ~(kept < frame.size) => kept = frame.size BY <1>0, <1>1
  <2> QED BY <1>2, <1>3, <2>2, <2>4, <2>5 DEF r
<1> QED BY <1>4, <1>5

(* capture_ws_message adds the message, or marks the capture. *)
LEMMA MessageCapture ==
  ASSUME NEW s \in Stats, NEW frame \in Frames, NEW slack \in 0 .. 1, Len(s.frames) <= MaxFrames
  PROVE  LET r == capture_ws_message(s, frame, slack)
         IN  /\ r \in Stats /\ r.count = s.count /\ r.bytes = s.bytes
             /\ s.truncated => r.truncated
             /\ Len(r.frames) <= MaxFrames
             /\ ~r.truncated => r.frames = Append(s.frames, frame)
<1> DEFINE r == capture_ws_message(s, frame, slack)
<1>0. s.frames \in Seq(Frames) /\ Len(s.frames) \in Nat /\ MaxFrames \in Nat BY BridgeAssumption DEF Stats
<1>1. CASE Len(s.frames) >= MaxFrames
  <2>1. r = [s EXCEPT !.truncated = TRUE] BY <1>1 DEF capture_ws_message
  <2> QED BY <2>1 DEF Stats
<1>2. CASE Len(s.frames) < MaxFrames /\ frame.kind = "text"
  <2>1. r = capture_text_ws_frame(s, frame, slack) BY <1>0, <1>2 DEF capture_ws_message
  <2> HIDE DEF r
  <2>2. /\ r \in Stats /\ r.count = s.count /\ r.bytes = s.bytes /\ (s.truncated => r.truncated)
        /\ r.frames = s.frames \/ \E f \in Frames : r.frames = Append(s.frames, f)
        /\ ~r.truncated => r.frames = Append(s.frames, frame)
    BY <2>1, TextCapture
  <2>3. Len(r.frames) <= MaxFrames BY <1>0, <1>2, <2>2
  <2> QED BY <2>2, <2>3 DEF r
<1>3. CASE Len(s.frames) < MaxFrames /\ frame.kind # "text"
  <2>1. r = [s EXCEPT !.frames = Append(@, frame)] BY <1>0, <1>3 DEF capture_ws_message
  <2> HIDE DEF r
  <2>2. r.frames = Append(s.frames, frame) /\ r.truncated = s.truncated /\ r.count = s.count /\ r.bytes = s.bytes
    BY <2>1 DEF Stats
  <2>3. Append(s.frames, frame) \in Seq(Frames) /\ Len(Append(s.frames, frame)) <= MaxFrames BY <1>0, <1>3
  <2>4. r \in Stats BY <2>1, <2>3 DEF Stats
  <2> QED BY <2>2, <2>3, <2>4 DEF r
<1> QED BY <1>0, <1>1, <1>2, <1>3

(* A complete capture stays complete when the next message is added. *)
LEMMA CompleteAppend ==
  ASSUME NEW frames \in Seq(Frames), NEW msgs \in [Dirs -> Seq(Messages)], Complete(frames, msgs),
         NEW d \in Dirs, NEW msg \in Messages, msg.number = Len(msgs[d]) + 1,
         NEW frame, frame = [direction |-> d, kind |-> msg.kind, size |-> msg.size, number |-> msg.number],
         NEW more, more = [msgs EXCEPT ![d] = Append(@, msg)]
  PROVE  Complete(Append(frames, frame), more)
<1> DEFINE r == Append(frames, frame)
           L == Len(frames)
<1>0. frame \in Frames /\ frame.direction = d /\ frame.number = msg.number
      /\ frame.kind = msg.kind /\ frame.size = msg.size
  BY DEF Messages, Frames
<1>1. /\ r \in Seq(Frames) /\ Len(r) = L + 1 /\ L \in Nat /\ DOMAIN r = 1 .. L + 1 /\ DOMAIN frames = 1 .. L
      /\ r[L + 1] = frame /\ \A k \in 1 .. L : r[k] = frames[k] /\ frames[k] \in Frames
  BY <1>0
<1>2. /\ \A e \in Dirs : Len(msgs[e]) \in Nat /\ Len(more[e]) \in Nat /\ Len(msgs[e]) <= Len(more[e])
                         /\ (e # d => more[e] = msgs[e])
      /\ Len(more[d]) = Len(msgs[d]) + 1 /\ more[d][Len(msgs[d]) + 1] = msg
      /\ \A e \in Dirs : \A n \in 1 .. Len(msgs[e]) : more[e][n] = msgs[e][n]
  OBVIOUS
<1> HIDE DEF r, L
<1>3. \A e \in Dirs, k \in 1 .. L : FramesOf(r, k, e) = FramesOf(frames, k, e)
  BY <1>1 DEF FramesOf
<1>4. \A e \in Dirs : FramesOf(r, L + 1, e) = IF e = d THEN FramesOf(frames, L, e) \cup {L + 1}
                                                        ELSE FramesOf(frames, L, e)
  BY <1>0, <1>1 DEF FramesOf
<1>5. \A e \in Dirs : IsFiniteSet(FramesOf(frames, L, e)) /\ L + 1 \notin FramesOf(frames, L, e)
  <2>1. IsFiniteSet(1 .. L) BY <1>1, FS_Interval
  <2>2. \A e \in Dirs : FramesOf(frames, L, e) \subseteq 1 .. L BY DEF FramesOf
  <2>3. L + 1 \notin 1 .. L BY <1>1
  <2> QED BY <2>1, <2>2, <2>3, FS_Subset
<1>6. \A e \in Dirs : Cardinality(FramesOf(frames, L, e)) = Len(msgs[e]) BY DEF Complete, L
<1>7. ASSUME NEW e \in Dirs PROVE Cardinality(FramesOf(r, Len(r), e)) = Len(more[e])
  <2>1. CASE e = d
    <3>1. Cardinality(FramesOf(frames, L, e) \cup {L + 1}) = Cardinality(FramesOf(frames, L, e)) + 1
      BY <1>5, FS_AddElement
    <3> QED BY <1>1, <1>2, <1>4, <1>6, <2>1, <3>1
  <2>2. CASE e # d BY <1>1, <1>2, <1>4, <1>6, <2>2
  <2> QED BY <2>1, <2>2
<1>8. ASSUME NEW k \in 1 .. L + 1 PROVE IsNextOf(more, r, k)
  <2>1. CASE k = L + 1
    <3>1. Cardinality(FramesOf(r, k, d)) = Len(msgs[d]) + 1 BY <1>1, <1>2, <1>7, <2>1
    <3>2. r[k] = frame BY <1>1, <2>1
    <3> QED BY <1>0, <1>2, <3>1, <3>2 DEF IsNextOf
  <2>2. CASE k \in 1 .. L
    <3>1. PICK e \in Dirs : e = frames[k].direction BY <1>1, <2>2 DEF Frames
    <3>2. r[k] = frames[k] /\ FramesOf(r, k, e) = FramesOf(frames, k, e) BY <1>1, <1>3, <2>2
    <3> DEFINE n == Cardinality(FramesOf(frames, k, e))
    <3>3. IsFiniteSet(FramesOf(frames, k, e)) /\ k \in FramesOf(frames, k, e)
      <4>1. IsFiniteSet(1 .. k) /\ k \in 1 .. k BY <1>1, <2>2, FS_Interval
      <4>2. FramesOf(frames, k, e) \subseteq 1 .. k /\ k \in FramesOf(frames, k, e) BY <3>1, <4>1 DEF FramesOf
      <4> QED BY <4>1, <4>2, FS_Subset
    <3>4. n \in Nat /\ n # 0 BY <3>3, FS_CardinalityType, FS_EmptySet
    <3>5. IsNextOf(msgs, frames, k) BY <1>1, <2>2 DEF Complete
    <3> HIDE DEF n
    <3>6. /\ frames[k].number = n /\ n <= Len(msgs[e]) /\ frames[k].kind = msgs[e][n].kind
          /\ frames[k].size = msgs[e][n].size
      BY <3>1, <3>5 DEF IsNextOf, n
    <3>7. n \in 1 .. Len(msgs[e]) /\ n <= Len(more[e]) BY <1>2, <3>4, <3>6
    <3>8. more[e][n] = msgs[e][n] BY <1>2, <3>7
    <3> QED BY <3>1, <3>2, <3>6, <3>7, <3>8 DEF IsNextOf, n
  <2> QED BY <1>1, <2>1, <2>2
<1> QED BY <1>1, <1>7, <1>8 DEF Complete, r

(* The sum of the sizes grows by the size of the message. *)
LEMMA SizesAppend ==
  ASSUME NEW s \in Seq(Messages), NEW msg \in Messages
  PROVE  /\ SumOf(Sizes(Append(s, msg)), DOMAIN Append(s, msg)) = SumOf(Sizes(s), DOMAIN s) + msg.size
         /\ SumOf(Sizes(s), DOMAIN s) \in Nat
<1> DEFINE r == Append(s, msg)
           L == Len(s)
<1>1. /\ L \in Nat /\ DOMAIN s = 1 .. L /\ DOMAIN r = (1 .. L) \cup {L + 1} /\ L + 1 \notin 1 .. L
      /\ r[L + 1] = msg /\ \A k \in 1 .. L : r[k] = s[k] /\ s[k] \in Messages
  OBVIOUS
<1> HIDE DEF r, L
<1>2. IsFiniteSet(1 .. L) BY <1>1, FS_Interval
<1>3. \A k \in 1 .. L : Sizes(r)[k] = Sizes(s)[k] /\ Sizes(s)[k] \in Nat BY <1>1 DEF Sizes, Messages
<1>4. Sizes(r)[L + 1] = msg.size /\ msg.size \in Nat BY <1>1 DEF Sizes, Messages
<1>5. \A k \in 1 .. L : Sizes(r)[k] \in Nat BY <1>3
<1>6. /\ SumOf(Sizes(r), (1 .. L) \cup {L + 1}) = SumOf(Sizes(r), 1 .. L) + Sizes(r)[L + 1]
      /\ SumOf(Sizes(r), 1 .. L) \in Nat
  BY <1>1, <1>2, <1>4, <1>5, SumAdd
<1>7. SumOf(Sizes(r), 1 .. L) = SumOf(Sizes(s), 1 .. L) BY <1>2, <1>3, SumSame
<1> QED BY <1>1, <1>4, <1>6, <1>7 DEF r

-----------------------------------------------------------------------------
(* Every step keeps the invariant.                                         *)

(* Init. *)
LEMMA InitIInv == Init => IInv
<1> SUFFICES ASSUME Init PROVE IInv OBVIOUS
<1>1. NoStats \in Stats /\ NoStats.frames = <<>> /\ (\A d \in Dirs : NoStats.count[d] = 0 /\ NoStats.bytes[d] = 0)
  BY BridgeAssumption DEF NoStats, Stats
<1>2. TypeOK BY <1>1, BridgeAssumption DEF Init, TypeOK, PeerStates
<1>3. RecordInv BY DEF Init, RecordInv
<1>4. Complete(<<>>, seen)
  <2>1. \A d \in Dirs : FramesOf(<<>>, Len(<<>>), d) = {} BY DEF FramesOf
  <2>2. \A d \in Dirs : Len(seen[d]) = 0 BY DEF Init
  <2>3. DOMAIN <<>> = {} OBVIOUS
  <2>4. \A d \in Dirs : Cardinality(FramesOf(<<>>, Len(<<>>), d)) = Len(seen[d]) BY <2>1, <2>2, FS_EmptySet
  <2>5. \A k \in DOMAIN <<>> : IsNextOf(seen, <<>>, k) BY <2>3
  <2> QED BY <2>4, <2>5 DEF Complete
<1>5. CaptureInv BY <1>1, <1>4, BridgeAssumption DEF Init, CaptureInv
<1>6. ASSUME NEW d \in Dirs PROVE OrderInv(d) /\ TrafficInv(d)
  <2>1. /\ seen[d] = <<>> /\ delivered[d] = <<>> /\ hand[d] = <<>> /\ wire[d] = <<>> /\ sent[d] = 0
        /\ stats = NoStats
    BY DEF Init
  <2>2. OrderInv(d) BY <2>1 DEF OrderInv, InOrder
  <2>3. SumOf(Sizes(<<>>), DOMAIN <<>>) = 0
    <3>1. DOMAIN <<>> = {} OBVIOUS
    <3> QED BY <3>1, SumEmpty
  <2> QED BY <1>1, <2>1, <2>2, <2>3, BridgeAssumption DEF TrafficInv
<1> QED BY <1>2, <1>3, <1>5, <1>6 DEF IInv

(* A peer puts its next message on the wire. *)
LEMMA PeerStep ==
  ASSUME IInv, NEW d \in Dirs, NEW msg \in Messages, sent[d] < MaxSent, msg.number = sent[d] + 1,
         wire' = [wire EXCEPT ![d] = Append(@, msg)], sent' = [sent EXCEPT ![d] = @ + 1],
         peer' \in [Dirs -> PeerStates], PeersOnly
  PROVE  IInv'
<1> USE DEF IInv
<1>0. UNCHANGED <<captured, pc, hand, delivered, seen, stats, records>> BY DEF PeersOnly
<1>1. wire \in [Dirs -> Seq(Messages)] /\ sent \in [Dirs -> 0 .. MaxSent] /\ MaxSent \in Nat
  BY BridgeAssumption DEF TypeOK
<1>2. wire' \in [Dirs -> Seq(Messages)] /\ sent' \in [Dirs -> 0 .. MaxSent] BY <1>1
<1>3. TypeOK' BY <1>0, <1>2 DEF TypeOK
<1>4. RecordInv' BY <1>0 DEF RecordInv, GoodRecord
<1>5. CaptureInv' BY <1>0 DEF CaptureInv
<1>6. ASSUME NEW e \in Dirs PROVE OrderInv(e)' /\ TrafficInv(e)'
  <2>1. TrafficInv(e)' BY <1>0 DEF TrafficInv
  <2>2. CASE e # d
    <3>1. wire'[e] = wire[e] /\ sent'[e] = sent[e] BY <1>1, <2>2
    <3> QED BY <1>0, <2>1, <3>1 DEF OrderInv
  <2>3. CASE e = d
    <3>1. wire'[e] = Append(wire[e], msg) /\ sent'[e] = sent[e] + 1 BY <1>1, <2>3
    <3>2. /\ wire[e] \in Seq(Messages) /\ Len(wire[e]) \in Nat /\ Len(seen[e]) \in Nat
      BY <1>1 DEF TypeOK
    <3>3. Len(seen[e]) + Len(wire[e]) = sent[e] BY DEF OrderInv, InOrder
    <3>4. \A k \in 1 .. Len(wire[e]) : wire[e][k].number = Len(seen[e]) + k BY DEF OrderInv, InOrder
    <3>6. Len(Append(wire[e], msg)) = Len(wire[e]) + 1 BY <3>2
    <3>7. Len(seen[e]) + (Len(wire[e]) + 1) = sent[e] + 1
      <4>1. sent[e] \in Nat BY <1>1
      <4>2. \A a, b, c \in Nat : a + b = c => a + (b + 1) = c + 1 OBVIOUS
      <4>3. Len(wire[e]) \in Nat /\ Len(seen[e]) \in Nat BY <3>2
      <4> QED BY <3>3, <4>1, <4>2, <4>3
    <3>8. Len(seen[e]) + Len(wire'[e]) = sent'[e] BY <3>1, <3>6, <3>7
    <3>9. ASSUME NEW k \in 1 .. Len(wire[e]) + 1
          PROVE  Append(wire[e], msg)[k].number = Len(seen[e]) + k
      <4>1. CASE k \in 1 .. Len(wire[e]) BY <3>2, <3>4, <4>1
      <4>2. CASE k = Len(wire[e]) + 1
        <5>1. Append(wire[e], msg)[k] = msg BY <3>2, <4>2
        <5>2. msg.number = Len(seen[e]) + k BY <2>3, <3>3, <3>7, <4>2
        <5> QED BY <5>1, <5>2
      <4> QED BY <3>2, <4>1, <4>2
    <3>10. \A k \in 1 .. Len(wire'[e]) : wire'[e][k].number = Len(seen[e]) + k BY <3>1, <3>6, <3>9
    <3> QED BY <1>0, <2>1, <3>8, <3>10 DEF OrderInv, InOrder
  <2> QED BY <2>2, <2>3
<1> QED BY <1>3, <1>4, <1>5, <1>6

(* The peers send, close or break. *)
LEMMA PeersStep ==
  ASSUME IInv, NEW d \in Dirs, PeerSends(d) \/ PeerCloses(d) \/ PeerBreaks(d) PROVE IInv'
<1>0. peer \in [Dirs -> PeerStates] /\ sent[d] \in 0 .. MaxSent /\ MaxSent \in Nat
  BY BridgeAssumption DEF IInv, TypeOK
<1>1. CASE PeerSends(d)
  <2>1. PICK kind \in Kinds \ {"close"}, size \in 0 .. MaxSize :
           wire' = [wire EXCEPT ![d] = Append(@, [kind |-> kind, size |-> size, number |-> sent[d] + 1])]
    BY <1>1 DEF PeerSends
  <2> DEFINE msg == [kind |-> kind, size |-> size, number |-> sent[d] + 1]
  <2>2. sent[d] < MaxSent /\ sent' = [sent EXCEPT ![d] = @ + 1] /\ PeersOnly /\ peer' \in [Dirs -> PeerStates]
    BY <1>0, <1>1 DEF PeerSends
  <2>3. msg \in Messages /\ msg.number = sent[d] + 1 BY <1>0, <2>2 DEF Messages
  <2> HIDE DEF msg
  <2>4. wire' = [wire EXCEPT ![d] = Append(@, msg)] BY <2>1 DEF msg
  <2> QED BY <2>2, <2>3, <2>4, PeerStep
<1>2. CASE PeerCloses(d)
  <2> DEFINE msg == [kind |-> "close", size |-> 0, number |-> sent[d] + 1]
  <2>1. /\ sent[d] < MaxSent /\ sent' = [sent EXCEPT ![d] = @ + 1] /\ PeersOnly
        /\ wire' = [wire EXCEPT ![d] = Append(@, msg)] /\ peer' = [peer EXCEPT ![d] = "closed"]
    BY <1>2 DEF PeerCloses
  <2>2. msg \in Messages /\ msg.number = sent[d] + 1 BY <1>0, <2>1, BridgeAssumption DEF Messages, Kinds
  <2> HIDE DEF msg
  <2>3. peer' \in [Dirs -> PeerStates] BY <1>0, <2>1 DEF PeerStates
  <2> QED BY <2>1, <2>2, <2>3, PeerStep
<1>3. CASE PeerBreaks(d)
  <2>1. UNCHANGED <<captured, pc, hand, delivered, seen, stats, records, wire, sent>>
        /\ peer' \in [Dirs -> PeerStates]
    BY <1>0, <1>3 DEF PeerBreaks, PeersOnly, PeerStates
  <2>2. TypeOK' BY <2>1 DEF IInv, TypeOK
  <2>3. CaptureInv' /\ RecordInv' BY <2>1 DEF IInv, CaptureInv, RecordInv, GoodRecord
  <2>4. ASSUME NEW e \in Dirs PROVE OrderInv(e)' /\ TrafficInv(e)'
    BY <2>1 DEF IInv, OrderInv, TrafficInv
  <2> QED BY <2>2, <2>3, <2>4 DEF IInv
<1> QED BY <1>1, <1>2, <1>3

(* Connecting, or giving up, and the end of the bridge: only the phase and *)
(* the record change.                                                      *)
LEMMA PhaseStep ==
  ASSUME IInv, SetupOnly, pc' \in {"connecting", "bridging", "closed", "abandoned"}, RecordInv'
  PROVE  IInv'
<1>0. UNCHANGED <<captured, wire, sent, peer, hand, delivered, seen, stats>> BY DEF SetupOnly
<1>1. TypeOK' BY <1>0 DEF IInv, TypeOK
<1>2. CaptureInv' BY <1>0 DEF IInv, CaptureInv
<1>3. ASSUME NEW e \in Dirs PROVE OrderInv(e)' /\ TrafficInv(e)'
  BY <1>0 DEF IInv, OrderInv, TrafficInv
<1> QED BY <1>1, <1>2, <1>3 DEF IInv

(* The connection is set up, or it fails and is recorded. *)
LEMMA SetupStep ==
  ASSUME IInv, Upgraded \/ UpgradeAbandoned \/ Connected \/ ConnectFails PROVE IInv'
<1>1. CASE Upgraded \/ UpgradeAbandoned \/ Connected
  <2>1. /\ SetupOnly /\ records' = records /\ pc # "closed" /\ captured' = captured
        /\ pc' \in {"connecting", "bridging", "abandoned"}
    BY <1>1 DEF Upgraded, UpgradeAbandoned, Connected, SetupOnly
  <2>2. RecordInv' BY <2>1 DEF IInv, RecordInv
  <2> QED BY <2>1, <2>2, PhaseStep
<1>2. CASE ConnectFails
  <2> DEFINE r == [stats |-> NoStats, error |-> "connect", body |-> 0, truncated |-> FALSE]
  <2>1. /\ SetupOnly /\ pc = "connecting" /\ captured' = captured /\ pc' = "closed"
        /\ records' = IF captured THEN Append(records, r) ELSE records
    BY <1>2 DEF ConnectFails, SetupOnly
  <2>2. records = <<>> /\ r.error = "connect" BY <2>1 DEF IInv, RecordInv
  <2> HIDE DEF r
  <2>3. captured => records' = <<r>> BY <2>1, <2>2
  <2>4. RecordInv' BY <2>1, <2>2, <2>3 DEF RecordInv, GoodRecord
  <2> QED BY <2>1, <2>4, PhaseStep
<1> QED BY <1>1, <1>2

(* One loop ends, and the connection is recorded. *)
LEMMA EndStep ==
  ASSUME IInv, NEW d \in Dirs, ReceiveTooLarge(d) \/ ReceiveEnd(d) \/ SendFails(d) PROVE IInv'
<1>1. PICK error \in {"limit", "none", "peer"} : BridgeEnds(d, error)
  BY DEF ReceiveTooLarge, ReceiveEnd, SendFails
<1>2. pc = "bridging" BY DEF ReceiveTooLarge, ReceiveEnd, SendFails
<1> DEFINE r == [stats |-> stats, error |-> error,
                 body |-> AtMost(BodyLength(stats.frames), MaxSession),
                 truncated |-> stats.truncated \/ BodyLength(stats.frames) > MaxSession]
<1>3. /\ SetupOnly /\ pc' = "closed" /\ captured' = captured /\ stats' = stats
      /\ records' = IF captured THEN Append(records, r) ELSE records
  BY <1>1 DEF BridgeEnds, SetupOnly
<1>4. records = <<>> BY <1>2 DEF IInv, RecordInv
<1>5. r.body <= MaxSession BY BridgeAssumption DEF AtMost
<1>6. r.stats = stats /\ (stats.truncated => r.truncated) OBVIOUS
<1> HIDE DEF r
<1>7. captured => records' = <<r>> BY <1>3, <1>4
<1>8. RecordInv' BY <1>3, <1>4, <1>5, <1>6, <1>7 DEF RecordInv, GoodRecord
<1> QED BY <1>3, <1>8, PhaseStep

(* The other peer takes the message in hand. *)
LEMMA SendStep == ASSUME IInv, NEW d \in Dirs, Send(d) PROVE IInv'
<1> USE DEF IInv
<1>0. /\ UNCHANGED <<captured, pc, wire, sent, peer, seen, stats, records>>
      /\ delivered' = [delivered EXCEPT ![d] = @ \o hand[d]] /\ hand' = [hand EXCEPT ![d] = <<>>]
  BY DEF Send
<1>1. hand \in [Dirs -> Seq(Messages)] /\ delivered \in [Dirs -> Seq(Messages)] /\ seen \in [Dirs -> Seq(Messages)]
  BY DEF TypeOK
<1>2. delivered' \in [Dirs -> Seq(Messages)] /\ hand' \in [Dirs -> Seq(Messages)]
  <2>1. delivered[d] \o hand[d] \in Seq(Messages) /\ <<>> \in Seq(Messages) BY <1>1
  <2> QED BY <1>0, <1>1, <2>1
<1>3. TypeOK' BY <1>0, <1>2 DEF TypeOK
<1>4. CaptureInv' /\ RecordInv' BY <1>0 DEF CaptureInv, RecordInv, GoodRecord
<1>5. ASSUME NEW e \in Dirs PROVE OrderInv(e)' /\ TrafficInv(e)'
  <2>1. TrafficInv(e)' BY <1>0 DEF TrafficInv
  <2>2. CASE e # d
    <3>1. delivered'[e] = delivered[e] /\ hand'[e] = hand[e] BY <1>0, <1>1, <2>2
    <3> QED BY <1>0, <2>1, <3>1 DEF OrderInv
  <2>3. CASE e = d
    <3>1. delivered'[e] = seen[e] /\ hand'[e] = <<>> BY <1>0, <1>1, <2>3 DEF OrderInv, InOrder
    <3>2. seen[e] \o <<>> = seen[e] BY <1>1
    <3>3. Len(<<>>) <= 1 OBVIOUS
    <3> QED BY <1>0, <2>1, <3>1, <3>2, <3>3 DEF OrderInv, InOrder
  <2> QED BY <2>2, <2>3
<1> QED BY <1>3, <1>4, <1>5

(* The order after a message has been received. *)
LEMMA ReceiveOrder ==
  ASSUME NEW w \in Seq(Messages), NEW q \in Seq(Messages), NEW v \in Seq(Messages), NEW n,
         w # <<>>, InOrder(q, v, <<>>, w, n)
  PROVE  /\ Head(w) \in Messages /\ Head(w).number = Len(q) + 1
         /\ Tail(w) \in Seq(Messages) /\ Append(q, Head(w)) \in Seq(Messages)
         /\ InOrder(Append(q, Head(w)), v, <<Head(w)>>, Tail(w), n)
<1>0. /\ q = v \o <<>> /\ Len(q) + Len(w) = n
      /\ (\A k \in 1 .. Len(q) : q[k].number = k)
      /\ (\A k \in 1 .. Len(w) : w[k].number = Len(q) + k)
  BY DEF InOrder
<1>1. q = v BY <1>0
<1>2. PICK m : m = Head(w) /\ m \in Messages /\ m = w[1] OBVIOUS
<1>3. /\ Tail(w) \in Seq(Messages) /\ Len(Tail(w)) = Len(w) - 1 /\ Len(w) \in Nat /\ Len(w) >= 1
      /\ \A k \in 1 .. Len(w) - 1 : Tail(w)[k] = w[k + 1]
  OBVIOUS
<1>4. Len(q) \in Nat /\ 1 \in 1 .. Len(w) BY <1>3
<1>5. m.number = Len(q) + 1 BY <1>0, <1>2, <1>4
<1>6. /\ Append(q, m) \in Seq(Messages) /\ Len(Append(q, m)) = Len(q) + 1 /\ Append(q, m)[Len(q) + 1] = m
      /\ \A k \in 1 .. Len(q) : Append(q, m)[k] = q[k]
  BY <1>2
<1>7. Append(q, m) = v \o <<m>> /\ Len(<<m>>) <= 1 BY <1>1, <1>2
<1>8. (Len(q) + 1) + (Len(w) - 1) = n BY <1>0, <1>3, <1>4
<1>9. ASSUME NEW k \in 1 .. Len(q) + 1 PROVE Append(q, m)[k].number = k
  <2>1. CASE k \in 1 .. Len(q) BY <1>0, <1>6, <2>1
  <2>2. CASE k = Len(q) + 1 BY <1>5, <1>6, <2>2
  <2> QED BY <1>4, <2>1, <2>2
<1>10. ASSUME NEW k \in 1 .. Len(w) - 1 PROVE Tail(w)[k].number = (Len(q) + 1) + k
  <2>1. k + 1 \in 1 .. Len(w) /\ Len(q) + (k + 1) = (Len(q) + 1) + k BY <1>3, <1>4
  <2>2. w[k + 1].number = Len(q) + (k + 1) BY <1>0, <2>1
  <2> QED BY <1>3, <2>1, <2>2
<1>11. InOrder(Append(q, m), v, <<m>>, Tail(w), n)
  BY <1>3, <1>6, <1>7, <1>8, <1>9, <1>10 DEF InOrder
<1> QED BY <1>2, <1>3, <1>5, <1>6, <1>11

(* A message is counted. *)
LEMMA CountedFacts ==
  ASSUME NEW st \in Stats, NEW d \in Dirs, NEW size \in Nat
  PROVE  LET s == Counted(st, d, size)
         IN  /\ s \in Stats /\ s.frames = st.frames /\ s.truncated = st.truncated
             /\ \A e \in Dirs : /\ s.count[e] = IF e = d THEN st.count[e] + 1 ELSE st.count[e]
                                /\ s.bytes[e] = IF e = d THEN st.bytes[e] + size ELSE st.bytes[e]
<1>1. st.bytes \in [Dirs -> Nat] /\ st.count \in [Dirs -> Nat] BY DEF Stats
<1>2. PICK b : b = [st.bytes EXCEPT ![d] = @ + size] OBVIOUS
<1>3. PICK c : c = [st.count EXCEPT ![d] = @ + 1] OBVIOUS
<1>4. b \in [Dirs -> Nat] /\ c \in [Dirs -> Nat] BY <1>1, <1>2, <1>3
<1>5. Counted(st, d, size) = [st EXCEPT !.bytes = b, !.count = c] BY <1>2, <1>3 DEF Counted, Stats
<1>6. /\ b[d] = st.bytes[d] + size /\ c[d] = st.count[d] + 1
      /\ \A e \in Dirs : e # d => b[e] = st.bytes[e] /\ c[e] = st.count[e]
  BY <1>1, <1>2, <1>3
<1> QED BY <1>4, <1>5, <1>6 DEF Stats

(* A message is counted, captured and taken in hand. *)
LEMMA ReceiveStep == ASSUME IInv, NEW d \in Dirs, Receive(d) PROVE IInv'
<1> USE DEF IInv
<1>a. PICK msg : msg = Head(wire[d]) OBVIOUS
<1> DEFINE frame == [direction |-> d, kind |-> msg.kind, size |-> msg.size, number |-> msg.number]
<1>b. PICK s : s = Counted(stats, d, msg.size) OBVIOUS
<1>0. /\ UNCHANGED <<captured, pc, sent, peer, delivered, records>> /\ pc = "bridging"
      /\ hand[d] = <<>> /\ wire[d] # <<>> /\ add_ws_bytes(stats.bytes[d], msg.size)
      /\ hand' = [hand EXCEPT ![d] = <<msg>>] /\ seen' = [seen EXCEPT ![d] = Append(@, msg)]
      /\ wire' = [wire EXCEPT ![d] = Tail(@)]
  BY <1>a, <1>b DEF Receive
<1>1. PICK slack \in 0 .. 1 : stats' = IF captured THEN capture_ws_message(s, frame, slack) ELSE s
  BY <1>a, <1>b DEF Receive
<1>2. /\ hand \in [Dirs -> Seq(Messages)] /\ delivered \in [Dirs -> Seq(Messages)]
      /\ seen \in [Dirs -> Seq(Messages)] /\ wire \in [Dirs -> Seq(Messages)] /\ stats \in Stats
  BY DEF TypeOK
<1>3. PICK new : new = Append(seen[d], msg) OBVIOUS
<1>4. /\ msg \in Messages /\ msg.number = Len(seen[d]) + 1
      /\ Tail(wire[d]) \in Seq(Messages) /\ new \in Seq(Messages)
      /\ InOrder(new, delivered[d], <<msg>>, Tail(wire[d]), sent[d])
  <2>1. /\ InOrder(seen[d], delivered[d], <<>>, wire[d], sent[d]) /\ wire[d] # <<>>
        /\ wire[d] \in Seq(Messages) /\ seen[d] \in Seq(Messages) /\ delivered[d] \in Seq(Messages)
    BY <1>0, <1>2 DEF OrderInv
  <2> QED BY <1>a, <1>3, <2>1, ReceiveOrder
<1>5. frame \in Frames /\ msg.size \in Nat BY <1>4 DEF Frames, Messages
<1>6. /\ s \in Stats /\ s.frames = stats.frames /\ s.truncated = stats.truncated
      /\ \A e \in Dirs : /\ s.count[e] = IF e = d THEN stats.count[e] + 1 ELSE stats.count[e]
                         /\ s.bytes[e] = IF e = d THEN stats.bytes[e] + msg.size ELSE stats.bytes[e]
  <2>1. PICK st \in Stats : st = stats BY <1>2
  <2>2. PICK size \in Nat : size = msg.size BY <1>5
  <2>3. s = Counted(st, d, size) BY <1>b, <2>1, <2>2
  <2>4. /\ s \in Stats /\ s.frames = st.frames /\ s.truncated = st.truncated
        /\ \A e \in Dirs : /\ s.count[e] = IF e = d THEN st.count[e] + 1 ELSE st.count[e]
                           /\ s.bytes[e] = IF e = d THEN st.bytes[e] + size ELSE st.bytes[e]
    BY <2>3, CountedFacts
  <2> QED BY <2>1, <2>2, <2>4
<1> HIDE DEF frame
<1>7. /\ stats' \in Stats /\ stats'.count = s.count /\ stats'.bytes = s.bytes /\ Len(stats'.frames) <= MaxFrames
      /\ captured => (stats.truncated => stats'.truncated)
                      /\ (~stats'.truncated => stats'.frames = Append(stats.frames, frame))
  <2>1. CASE captured
    <3>1. stats' = capture_ws_message(s, frame, slack) /\ Len(s.frames) <= MaxFrames
      BY <1>1, <1>6, <2>1 DEF CaptureInv
    <3>2. /\ stats' \in Stats /\ stats'.count = s.count /\ stats'.bytes = s.bytes
          /\ s.truncated => stats'.truncated
          /\ Len(stats'.frames) <= MaxFrames
          /\ ~stats'.truncated => stats'.frames = Append(s.frames, frame)
      BY <1>5, <1>6, <3>1, MessageCapture
    <3> QED BY <1>6, <3>2
  <2>2. CASE ~captured
    <3>1. stats' = s BY <1>1, <2>2
    <3>2. Len(stats.frames) <= MaxFrames BY DEF CaptureInv
    <3> QED BY <1>6, <2>2, <3>1, <3>2
  <2> QED BY <2>1, <2>2
<1>8. /\ hand' \in [Dirs -> Seq(Messages)] /\ seen' \in [Dirs -> Seq(Messages)] /\ wire' \in [Dirs -> Seq(Messages)]
  <2>1. <<msg>> \in Seq(Messages) BY <1>4
  <2> QED BY <1>0, <1>2, <1>3, <1>4, <2>1
<1>9. TypeOK' BY <1>0, <1>7, <1>8 DEF TypeOK
<1>10. RecordInv' BY <1>0 DEF RecordInv
<1>11. CaptureInv'
  <2>1. ASSUME captured, ~stats'.truncated PROVE Complete(stats'.frames, seen')
    <3>1. stats'.frames = Append(stats.frames, frame) /\ Complete(stats.frames, seen)
      BY <1>7, <2>1 DEF CaptureInv
    <3>2. stats.frames \in Seq(Frames) BY <1>2 DEF Stats
    <3>3. PICK more : more = seen' OBVIOUS
    <3>4. Complete(Append(stats.frames, frame), more)
      BY <1>0, <1>2, <1>4, <3>1, <3>2, <3>3, CompleteAppend DEF frame
    <3> QED BY <3>1, <3>3, <3>4
  <2> QED BY <1>0, <1>7, <2>1 DEF CaptureInv
<1>12. ASSUME NEW e \in Dirs PROVE OrderInv(e)' /\ TrafficInv(e)'
  <2>1. CASE e # d
    <3>1. /\ seen'[e] = seen[e] /\ wire'[e] = wire[e] /\ hand'[e] = hand[e]
          /\ stats'.count[e] = stats.count[e] /\ stats'.bytes[e] = stats.bytes[e]
      BY <1>0, <1>2, <1>6, <1>7, <2>1 DEF Stats
    <3> QED BY <1>0, <3>1 DEF OrderInv, TrafficInv
  <2>2. CASE e = d
    <3>1. /\ seen'[e] = new /\ wire'[e] = Tail(wire[d]) /\ hand'[e] = <<msg>>
          /\ stats'.count[e] = stats.count[e] + 1 /\ stats'.bytes[e] = stats.bytes[e] + msg.size
      BY <1>0, <1>2, <1>3, <1>6, <1>7, <2>2 DEF Stats
    <3>3. OrderInv(e)' BY <1>0, <1>4, <2>2, <3>1 DEF OrderInv
    <3>a. /\ stats.count[d] = Len(seen[d]) /\ stats.bytes[d] = SumOf(Sizes(seen[d]), DOMAIN seen[d])
          /\ \A k \in DOMAIN seen[d] : seen[d][k].size <= MaxMessage
      BY DEF TrafficInv
    <3>b. seen[d] \in Seq(Messages) BY <1>2
    <3>c. /\ Len(new) = Len(seen[d]) + 1 /\ DOMAIN new = 1 .. Len(seen[d]) + 1 /\ Len(seen[d]) \in Nat
          /\ DOMAIN seen[d] = 1 .. Len(seen[d]) /\ new[Len(seen[d]) + 1] = msg
          /\ \A k \in 1 .. Len(seen[d]) : new[k] = seen[d][k]
      <4>1. PICK q \in Seq(Messages) : q = seen[d] BY <3>b
      <4>2. new = Append(q, msg) BY <1>3, <4>1
      <4>3. msg \in Messages BY <1>4
      <4> QED BY <4>1, <4>2, <4>3
    <3>4. stats.count[d] + 1 = Len(new) BY <3>a, <3>c
    <3>5. stats.bytes[d] + msg.size = SumOf(Sizes(new), DOMAIN new)
      BY <1>3, <1>4, <3>a, <3>b, SizesAppend
    <3>6. stats.bytes[d] + msg.size <= MaxSession /\ msg.size <= MaxMessage BY <1>0 DEF add_ws_bytes
    <3>7. ASSUME NEW k \in DOMAIN new PROVE new[k].size <= MaxMessage
      <4>1. CASE k \in 1 .. Len(seen[d]) BY <3>a, <3>c, <4>1
      <4>2. CASE k = Len(seen[d]) + 1 BY <3>6, <3>c, <4>2
      <4> QED BY <3>c, <4>1, <4>2
    <3>8. TrafficInv(e)' BY <2>2, <3>1, <3>4, <3>5, <3>6, <3>7 DEF TrafficInv
    <3> QED BY <3>3, <3>8
  <2> QED BY <2>1, <2>2
<1> QED BY <1>9, <1>10, <1>11, <1>12

-----------------------------------------------------------------------------
(* The theorems.                                                           *)

(* Stuttering. *)
LEMMA StutterStep == ASSUME IInv, UNCHANGED vars PROVE IInv'
<1>1. TypeOK' /\ CaptureInv' /\ RecordInv'
  BY DEF IInv, vars, TypeOK, CaptureInv, RecordInv, GoodRecord
<1>2. ASSUME NEW d \in Dirs PROVE OrderInv(d)' /\ TrafficInv(d)'
  BY DEF IInv, vars, OrderInv, TrafficInv
<1> QED BY <1>1, <1>2 DEF IInv

(* The invariant holds in every behaviour of the bridge. *)
THEOREM BridgeInvariant == Spec => []IInv
<1>1. IInv /\ [Next]_vars => IInv'
  BY SetupStep, PeersStep, EndStep, SendStep, ReceiveStep, StutterStep DEF Next
<1> QED BY InitIInv, <1>1, PTL DEF Spec

(* The invariant implies RelayIsExact. *)
LEMMA Exact == IInv => RelayIsExact
<1> SUFFICES ASSUME IInv PROVE RelayIsExact OBVIOUS
<1> USE DEF IInv
<1>1. OneTracePerConnection
  <2>1. \A r : Len(<<r>>) = 1 OBVIOUS
  <2> QED BY <2>1 DEF RecordInv, OneTracePerConnection
<1>2. RelayIsInOrder BY DEF OrderInv, InOrder, RelayIsInOrder
<1>3. ASSUME NEW d \in Dirs, NEW k \in DOMAIN delivered[d] PROVE delivered[d][k].size <= MaxMessage
  <2>1. delivered[d] \in Seq(Messages) /\ hand[d] \in Seq(Messages) /\ seen[d] = delivered[d] \o hand[d]
    BY DEF TypeOK, OrderInv, InOrder
  <2>2. \A v, h \in Seq(Messages) : \A n \in DOMAIN v : n \in DOMAIN (v \o h) /\ (v \o h)[n] = v[n]
    OBVIOUS
  <2>3. k \in DOMAIN seen[d] /\ seen[d][k] = delivered[d][k] BY <2>1, <2>2
  <2> QED BY <2>3 DEF TrafficInv
<1>4. CountersMatchTraffic BY <1>3 DEF TrafficInv, CountersMatchTraffic, SumOf
<1> QED BY <1>1, <1>2, <1>4 DEF RelayIsExact

(* The invariant implies UnmarkedIsComplete: the record has the last       *)
(* statistics.                                                             *)
LEMMA Unmarked == IInv => UnmarkedIsComplete
<1> SUFFICES ASSUME IInv, NEW i \in DOMAIN records, records[i].error # "connect", ~records[i].truncated
             PROVE  /\ records[i].body <= MaxSession /\ Len(records[i].stats.frames) <= MaxFrames
                    /\ \A d \in Dirs : Cardinality(FramesOf(records[i].stats.frames, Len(records[i].stats.frames), d))
                                         = records[i].stats.count[d]
                    /\ \A k \in DOMAIN records[i].stats.frames : IsNextOf(seen, records[i].stats.frames, k)
  BY DEF UnmarkedIsComplete
<1>1. captured /\ pc = "closed" /\ i = 1 /\ GoodRecord(records[1])
  <2>1. DOMAIN <<>> = {} /\ \A r : DOMAIN <<r>> = {1} OBVIOUS
  <2> QED BY <2>1 DEF IInv, RecordInv
<1>2. records[i].stats = stats /\ records[i].body <= MaxSession /\ ~stats.truncated BY <1>1 DEF GoodRecord
<1>3. Len(stats.frames) <= MaxFrames /\ Complete(stats.frames, seen) BY <1>1, <1>2 DEF IInv, CaptureInv
<1>4. \A d \in Dirs : stats.count[d] = Len(seen[d]) BY DEF IInv, TrafficInv
<1> QED BY <1>2, <1>3, <1>4 DEF Complete

(* One record per captured connection, whatever ends it, and its counters  *)
(* are the messages that handle_websocket relayed, in order, within the    *)
(* limits of add_ws_bytes.                                                 *)
THEOREM RelayHolds == Spec => []RelayIsExact
BY BridgeInvariant, Exact, PTL

(* A trace of a WebSocket connection that is not marked as truncated has   *)
(* every message of both directions in order and in full: the capture      *)
(* functions never drop or cut one without setting the mark.               *)
THEOREM CaptureHolds == Spec => []UnmarkedIsComplete
BY BridgeInvariant, Unmarked, PTL
=============================================================================
