--------------------------- MODULE WebSocketBridge ---------------------------
(***************************************************************************)
(* One WebSocket connection through the proxy (proxy_websocket and         *)
(* handle_websocket in crates/llmtrace/src/proxy.rs): the connection to    *)
(* the upstream, two relay loops that share WsStats, and the select! that  *)
(* ends both when the first one ends.                                      *)
(*                                                                         *)
(* The loops run in one task and interleave where they wait: for the next  *)
(* message of their peer, and for the other peer to take a message.  The   *)
(* step that ends a loop also ends the connection, because select! returns *)
(* in the poll in which its first branch is ready.                         *)
(*                                                                         *)
(* Data: a message is its kind, its size and its number; the JSON text of  *)
(* the captured frames is Overhead bytes per frame and the captured text.  *)
(***************************************************************************)
EXTENDS Integers, Sequences, FiniteSetsExt

CONSTANTS
    MaxMessage,   \* max_websocket_message_bytes
    MaxSession,   \* max_websocket_session_bytes, per direction; also capture_limit
    MaxFrames,    \* MAX_WEBSOCKET_CAPTURED_FRAMES
    Overhead,     \* bytes of JSON around the text of a frame
    MaxSize,      \* bound: size of the messages peers send
    MaxSent       \* bound: messages a peer sends

ASSUME BridgeAssumption ==
    /\ MaxMessage \in Nat /\ MaxSession \in Nat /\ MaxFrames \in Nat
    /\ Overhead \in Nat /\ MaxSize \in Nat /\ MaxSent \in Nat

VARIABLES
    captured,   \* whether the capture policy covers the path
    pc,         \* upgrading, connecting, bridging, closed, abandoned
    wire,       \* [Dirs -> Seq(Messages)], sent by a peer, not yet received
    sent,       \* [Dirs -> Nat], messages a peer has sent
    peer,       \* [Dirs -> PeerStates]
    hand,       \* [Dirs -> Seq(Messages)], received, waiting in send().await
    delivered,  \* [Dirs -> Seq(Messages)], taken by the other peer
    seen,       \* [Dirs -> Seq(Messages)], counted messages (history)
    stats,      \* WsStats
    records     \* the events given to TraceRecorder::record

vars == <<captured, pc, wire, sent, peer, hand, delivered, seen, stats, records>>

Dirs == {"client", "upstream"}
Other(d) == IF d = "client" THEN "upstream" ELSE "client"
Kinds == {"text", "binary", "close"}
PeerStates == {"open", "closed", "broken"}
Messages == [kind : Kinds, size : 0 .. MaxSize, number : 1 .. MaxSent]

(* size is the captured part of a text, the length of anything else. *)
Frames == [direction : Dirs, kind : Kinds, size : Nat, number : Nat]

(* count: client_frames and upstream_frames; bytes: bytes_in, bytes_out. *)
Stats == [count : [Dirs -> Nat], bytes : [Dirs -> Nat], frames : Seq(Frames),
          truncated : BOOLEAN, text : 0 .. MaxSession]

TypeOK ==
    /\ captured \in BOOLEAN
    /\ pc \in {"upgrading", "connecting", "bridging", "closed", "abandoned"}
    /\ wire \in [Dirs -> Seq(Messages)] /\ sent \in [Dirs -> 0 .. MaxSent]
    /\ peer \in [Dirs -> PeerStates]
    /\ hand \in [Dirs -> Seq(Messages)] /\ delivered \in [Dirs -> Seq(Messages)]
    /\ seen \in [Dirs -> Seq(Messages)]
    /\ stats \in Stats

NoStats == [count |-> [d \in Dirs |-> 0], bytes |-> [d \in Dirs |-> 0],
            frames |-> <<>>, truncated |-> FALSE, text |-> 0]

Init ==
    /\ captured \in BOOLEAN
    /\ pc = "upgrading"
    /\ wire = [d \in Dirs |-> <<>>] /\ sent = [d \in Dirs |-> 0]
    /\ peer = [d \in Dirs |-> "open"]
    /\ hand = [d \in Dirs |-> <<>>] /\ delivered = [d \in Dirs |-> <<>>]
    /\ seen = [d \in Dirs |-> <<>>]
    /\ stats = NoStats /\ records = <<>>

-----------------------------------------------------------------------------
(* The peers.                                                              *)

PeersOnly == UNCHANGED <<captured, pc, hand, delivered, seen, stats, records>>

PeerSends(d) ==
    /\ pc = "bridging" /\ peer[d] = "open" /\ sent[d] < MaxSent
    /\ \E kind \in Kinds \ {"close"}, size \in 0 .. MaxSize :
          wire' = [wire EXCEPT ![d] = Append(@,
                     [kind |-> kind, size |-> size, number |-> sent[d] + 1])]
    /\ sent' = [sent EXCEPT ![d] = @ + 1]
    /\ UNCHANGED peer /\ PeersOnly

(* A closing handshake: the close frame is the last message. *)
PeerCloses(d) ==
    /\ pc = "bridging" /\ peer[d] = "open" /\ sent[d] < MaxSent
    /\ wire' = [wire EXCEPT ![d] = Append(@,
                  [kind |-> "close", size |-> 0, number |-> sent[d] + 1])]
    /\ sent' = [sent EXCEPT ![d] = @ + 1]
    /\ peer' = [peer EXCEPT ![d] = "closed"]
    /\ PeersOnly

(* The connection breaks; what was sent before may still arrive. *)
PeerBreaks(d) ==
    /\ pc = "bridging" /\ peer[d] = "open"
    /\ peer' = [peer EXCEPT ![d] = "broken"]
    /\ UNCHANGED <<wire, sent>> /\ PeersOnly

-----------------------------------------------------------------------------
(* Connecting.                                                             *)

SetupOnly == UNCHANGED <<captured, wire, sent, peer, hand, delivered, seen, stats>>

Upgraded ==
    /\ pc = "upgrading" /\ pc' = "connecting"
    /\ SetupOnly /\ UNCHANGED records

(* The client goes away before the upgrade: on_upgrade never calls back. *)
UpgradeAbandoned ==
    /\ pc = "upgrading" /\ pc' = "abandoned"
    /\ SetupOnly /\ UNCHANGED records

Connected ==
    /\ pc = "connecting" /\ pc' = "bridging"
    /\ SetupOnly /\ UNCHANGED records

(* Mutant of ConnectFails: an early return without a record. *)
ConnectFailsSilently ==
    /\ pc = "connecting" /\ pc' = "closed"
    /\ SetupOnly /\ UNCHANGED records

(* Refused, invalid or timed out: persist_ws_error *)
ConnectFails ==
    /\ pc = "connecting" /\ pc' = "closed"
    /\ records' = IF captured
                  THEN Append(records, [stats |-> NoStats, error |-> "connect",
                                        body |-> 0, truncated |-> FALSE])
                  ELSE records
    /\ SetupOnly

-----------------------------------------------------------------------------
(* WsStats.                                                                *)

AtMost(n, limit) == IF n <= limit THEN n ELSE limit

(* Mutant of capture_text_ws_frame: the text is checked, but not cut. *)
capture_text_uncut(s, frame, slack) ==
    IF MaxSession - s.text = 0 /\ frame.size > 0
    THEN [s EXCEPT !.truncated = TRUE]
    ELSE [s EXCEPT !.text = @ + frame.size, !.frames = Append(@, frame)]

(* capture_text_ws_frame.  A text is cut at a character boundary, so up to *)
(* slack bytes less than what is left are kept of it.                      *)
capture_text_ws_frame(s, frame, slack) ==
    LET remaining == MaxSession - s.text
        kept == IF frame.size <= remaining THEN frame.size
                ELSE IF slack <= remaining THEN remaining - slack ELSE 0
    IN  IF remaining = 0 /\ frame.size > 0
        THEN [s EXCEPT !.truncated = TRUE]
        ELSE [s EXCEPT !.text = @ + kept, !.truncated = @ \/ kept < frame.size,
                       !.frames = Append(@, [frame EXCEPT !.size = kept])]

(* Mutant of capture_ws_message: frames beyond the limit go unnoticed. *)
capture_ws_message_quiet(s, frame, slack) ==
    IF Len(s.frames) >= MaxFrames THEN s
    ELSE IF frame.kind = "text" THEN capture_text_ws_frame(s, frame, slack)
    ELSE [s EXCEPT !.frames = Append(@, frame)]

(* capture_ws_message and capture_tungstenite_message *)
capture_ws_message(s, frame, slack) ==
    IF Len(s.frames) >= MaxFrames THEN [s EXCEPT !.truncated = TRUE]
    ELSE IF frame.kind = "text" THEN capture_text_ws_frame(s, frame, slack)
    ELSE [s EXCEPT !.frames = Append(@, frame)]

(* Mutant of add_ws_bytes: the session limit is checked without the new    *)
(* message.                                                                *)
add_ws_bytes_late(current, size) ==
    size <= MaxMessage /\ current <= MaxSession

(* Whether add_ws_bytes accepts a message. *)
add_ws_bytes(current, size) ==
    size <= MaxMessage /\ current + size <= MaxSession

(* websocket_response_body: the frames as JSON, cut at the capture limit. *)
BodyLength(frames) ==
    MapThenSumSet(LAMBDA k : Overhead + (IF frames[k].kind = "text" THEN frames[k].size ELSE 0),
                  DOMAIN frames)

-----------------------------------------------------------------------------
(* The relay loops.                                                        *)

(* One loop ended: the other is dropped with the message it was sending,   *)
(* and what was counted until now is recorded.                             *)
BridgeEnds(d, error) ==
    /\ pc' = "closed"
    /\ records' = IF captured
                  THEN Append(records,
                         [stats |-> stats, error |-> error,
                          body |-> AtMost(BodyLength(stats.frames), MaxSession),
                          truncated |-> stats.truncated \/ BodyLength(stats.frames) > MaxSession])
                  ELSE records
    /\ UNCHANGED <<captured, wire, sent, peer, delivered, seen, stats, hand>>

Counted(s, d, size) == [s EXCEPT !.bytes[d] = @ + size, !.count[d] = @ + 1]

(* Mutant of Receive: the loop does not wait for its send. *)
ReceiveEagerly(d) ==
    /\ pc = "bridging" /\ wire[d] # <<>>
    /\ LET msg == Head(wire[d])
           frame == [direction |-> d, kind |-> msg.kind, size |-> msg.size, number |-> msg.number]
           s == Counted(stats, d, msg.size)
       IN  /\ add_ws_bytes(stats.bytes[d], msg.size)
           /\ \E slack \in 0 .. 1 :
                 stats' = IF captured THEN capture_ws_message(s, frame, slack) ELSE s
           /\ hand' = [hand EXCEPT ![d] = Append(@, msg)]
           /\ seen' = [seen EXCEPT ![d] = Append(@, msg)]
    /\ wire' = [wire EXCEPT ![d] = Tail(@)]
    /\ UNCHANGED <<captured, pc, sent, peer, delivered, records>>

(* A message arrives: it is counted, captured and then sent on. *)
Receive(d) ==
    /\ pc = "bridging" /\ hand[d] = <<>> /\ wire[d] # <<>>
    /\ LET msg == Head(wire[d])
           frame == [direction |-> d, kind |-> msg.kind, size |-> msg.size, number |-> msg.number]
           s == Counted(stats, d, msg.size)
       IN  /\ add_ws_bytes(stats.bytes[d], msg.size)
           /\ \E slack \in 0 .. 1 :
                 stats' = IF captured THEN capture_ws_message(s, frame, slack) ELSE s
           /\ hand' = [hand EXCEPT ![d] = <<msg>>]
           /\ seen' = [seen EXCEPT ![d] = Append(@, msg)]
    /\ wire' = [wire EXCEPT ![d] = Tail(@)]
    /\ UNCHANGED <<captured, pc, sent, peer, delivered, records>>

(* A message beyond a limit ends the bridge; it is neither counted nor     *)
(* sent on.                                                                *)
ReceiveTooLarge(d) ==
    /\ pc = "bridging" /\ hand[d] = <<>> /\ wire[d] # <<>>
    /\ ~add_ws_bytes(stats.bytes[d], Head(wire[d]).size)
    /\ BridgeEnds(d, "limit")

(* Mutant of ReceiveEnd: the bridge waits for both halves. *)
ReceiveEndJoined(d) ==
    /\ pc = "bridging" /\ hand[d] = <<>> /\ wire[d] = <<>> /\ peer[d] # "open"
    /\ hand[Other(d)] = <<>> /\ wire[Other(d)] = <<>> /\ peer[Other(d)] # "open"
    /\ BridgeEnds(d, IF peer[d] = "closed" THEN "none" ELSE "peer")

(* The peer's stream is over: None after a close, an error otherwise. *)
ReceiveEnd(d) ==
    /\ pc = "bridging" /\ hand[d] = <<>> /\ wire[d] = <<>> /\ peer[d] # "open"
    /\ BridgeEnds(d, IF peer[d] = "closed" THEN "none" ELSE "peer")

(* The connection of the other peer takes the message, perhaps one that is *)
(* closing already.                                                        *)
Send(d) ==
    /\ pc = "bridging" /\ hand[d] # <<>>
    /\ delivered' = [delivered EXCEPT ![d] = @ \o hand[d]]
    /\ hand' = [hand EXCEPT ![d] = <<>>]
    /\ UNCHANGED <<captured, pc, wire, sent, peer, seen, stats, records>>

SendFails(d) ==
    /\ pc = "bridging" /\ hand[d] # <<>> /\ peer[Other(d)] # "open"
    /\ BridgeEnds(d, "peer")

Relay(d) == Receive(d) \/ ReceiveTooLarge(d) \/ ReceiveEnd(d) \/ SendFails(d)

Next ==
    \/ Upgraded \/ UpgradeAbandoned \/ Connected \/ ConnectFails
    \/ \E d \in Dirs : PeerSends(d) \/ PeerCloses(d) \/ PeerBreaks(d)
                       \/ Receive(d) \/ ReceiveTooLarge(d) \/ ReceiveEnd(d)
                       \/ Send(d) \/ SendFails(d)

Spec == Init /\ [][Next]_vars

-----------------------------------------------------------------------------
(* Safety.                                                                 *)

(* "Still one trace per connection": a captured connection that reached    *)
(* the bridge or failed to has exactly one record, any other none.         *)
OneTracePerConnection ==
    Len(records) = (IF captured /\ pc = "closed" THEN 1 ELSE 0)

(* Each peer gets the other's messages in order and without gaps, and at   *)
(* any time at most one counted message per direction has not been taken:  *)
(* the one that is lost if the other half ends now.                        *)
RelayIsInOrder ==
    \A d \in Dirs :
        /\ seen[d] = delivered[d] \o hand[d]
        /\ Len(hand[d]) <= 1
        /\ \A k \in 1 .. Len(seen[d]) : seen[d][k].number = k

Sizes(msgs) == [k \in DOMAIN msgs |-> msgs[k].size]

(* The counters of the trace are those of the relayed messages, and no     *)
(* peer is sent more than the configured bytes, per message and in total.  *)
CountersMatchTraffic ==
    \A d \in Dirs :
        /\ stats.count[d] = Len(seen[d])
        /\ stats.bytes[d] = MapThenSumSet(LAMBDA k : Sizes(seen[d])[k], DOMAIN seen[d])
        /\ stats.bytes[d] <= MaxSession
        /\ \A k \in DOMAIN delivered[d] : delivered[d][k].size <= MaxMessage

(* One record per captured connection, and its counters are exactly the    *)
(* messages relayed in order, wherever select! stopped the other loop.     *)
RelayIsExact == TypeOK /\ OneTracePerConnection /\ RelayIsInOrder /\ CountersMatchTraffic

(* The first n frames of a capture that came from d. *)
FramesOf(frames, n, d) == {k \in 1 .. n : frames[k].direction = d}

(* The k-th frame is the next counted message of its direction, whole. *)
IsNextOf(msgs, frames, k) ==
    LET f == frames[k]
        n == Cardinality(FramesOf(frames, k, f.direction))
    IN  f.number = n /\ n <= Len(msgs[f.direction])
        /\ f.kind = msgs[f.direction][n].kind /\ f.size = msgs[f.direction][n].size

(* A trace that is not marked as truncated has every counted message, in   *)
(* order and with its whole text, within the limits of the capture.        *)
UnmarkedIsComplete ==
    \A i \in DOMAIN records :
        LET r == records[i]
            frames == r.stats.frames
        IN  r.error # "connect" /\ ~r.truncated =>
                /\ r.body <= MaxSession /\ Len(frames) <= MaxFrames
                /\ \A d \in Dirs : Cardinality(FramesOf(frames, Len(frames), d)) = r.stats.count[d]
                /\ \A k \in DOMAIN frames : IsNextOf(seen, frames, k)

-----------------------------------------------------------------------------
(* Liveness.  Fairness: the runtime polls the relay task.  Nothing in the  *)
(* code makes a peer read: that is the second, stronger assumption.        *)

FairSpec ==
    /\ Spec
    /\ WF_vars(Upgraded \/ UpgradeAbandoned) /\ WF_vars(Connected \/ ConnectFails)
    /\ \A d \in Dirs : WF_vars(Relay(d))

ReadingSpec == FairSpec /\ \A d \in Dirs : WF_vars(Send(d))

(* README: "WebSocket traces finish when either peer closes or errors, and *)
(* the other half of the tunnel is dropped instead of waiting              *)
(* indefinitely".                                                          *)
ClosedIsRecorded ==
    \A d \in Dirs : peer[d] # "open" ~> pc = "closed"
=============================================================================
