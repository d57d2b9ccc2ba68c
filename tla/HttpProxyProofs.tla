--------------------------- MODULE HttpProxyProofs ---------------------------
(***************************************************************************)
(* Proofs about HttpProxy for bodies and limits of any size.               *)
(*                                                                         *)
(* What an event says of the two bodies is decided when it is recorded,    *)
(* from captures that two streams have filled concurrently.  The inductive *)
(* invariant therefore says what each capture knows at any moment: of the  *)
(* upload (UploadInv), of the response (DownloadInv) and of the event that *)
(* has not been recorded yet (PhaseInv, TimingsInv).                       *)
(***************************************************************************)
EXTENDS HttpProxy, TLAPS

(* The shared capture counts the upload exactly, and says TRUE only of     *)
(* what has happened.                                                      *)
UploadInv ==
    /\ shared.total_bytes = pulled /\ pulled <= req.body.length /\ forwarded <= pulled
    /\ ~shared.limit_exceeded => pulled <= ReqLimit
    /\ shared.limit_exceeded => upload = "closed"
    /\ forwarded <= ReqLimit
    /\ shared.stream_ended => pulled = req.body.length
    /\ upload # "none" =>
          shared.expected_bytes = (IF req.body.declared THEN req.body.length ELSE None)
    /\ req.captured /\ ~shared.finished /\ ~shared.truncated => shared.bytes = pulled
    /\ ~req.captured \/ shared.finished => shared.bytes = 0

(* Where the event is: not made, in the open stream, or recorded. *)
PhaseInv ==
    /\ pc = "route" => upload = "none"
    /\ upload = "none" => pulled = 0 /\ forwarded = 0 /\ shared.bytes = 0
    /\ pc \in {"sending", "streaming", "drained"} => upload # "none"
    /\ pc \in {"route", "sending"} =>
          /\ records = <<>> /\ reply.id = FALSE /\ ~shared.finished
          /\ capture = EmptyCapture /\ timings = <<>> /\ produced = 0
    /\ live => pc = "streaming" /\ records = <<>> /\ ~shared.finished
    /\ live => req.captured
    /\ pc = "streaming" /\ req.captured => live
    /\ ~req.captured => records = <<>> /\ capture.bytes = 0
    /\ records # <<>> =>
          /\ pc \in {"drained", "closed"} /\ capture.bytes = 0
          /\ upload # "none" => shared.finished

(* The response capture of an open stream. *)
DownloadInv ==
    /\ produced <= resp.length
    /\ req.captured => capture.total_bytes = produced
    /\ ~capture.finished
    /\ live =>
          /\ capture.expected_bytes = (IF resp.declared THEN resp.length ELSE None)
          /\ ~capture.truncated => capture.bytes = produced

(* Offsets that grow up to the end of what is kept. *)
Cover(t, n) ==
    /\ \A i \in 1 .. Len(t) : t[i] <= n
    /\ \A i \in 1 .. Len(t) - 1 : t[i] <= t[i + 1]
    /\ Len(t) < MaxTimings => (IF Len(t) = 0 THEN 0 ELSE t[Len(t)]) = n

TimingsInv == live => Cover(timings, capture.bytes)

IInv ==
    /\ TypeOK /\ UploadInv /\ PhaseInv /\ DownloadInv /\ TimingsInv
    /\ RecordedOnce /\ TraceIdIsRecorded /\ CompleteMeansWhole /\ TimingsCoverBody

-----------------------------------------------------------------------------
(* What a chunk does to a capture.                                         *)

(* push_body_capture counts every byte, keeps a prefix, and says so when   *)
(* it had to leave something out; a finished capture only counts.          *)
LEMMA PushBody ==
    ASSUME NEW c \in Captures, NEW n \in Nat, n >= 1, NEW limit \in Nat
    PROVE  LET d == push_body_capture(c, n, limit)
           IN  /\ d \in Captures
               /\ d.total_bytes = c.total_bytes + n
               /\ d.finished = c.finished /\ d.stream_ended = c.stream_ended
               /\ d.limit_exceeded = c.limit_exceeded
               /\ d.expected_bytes = c.expected_bytes
               /\ d.bytes >= c.bytes
               /\ c.finished => d.bytes = c.bytes
               /\ limit = 0 => d.bytes = c.bytes
               /\ ~c.finished /\ ~d.truncated => ~c.truncated /\ d.bytes = c.bytes + n
  <1> DEFINE room == IF c.bytes < limit THEN limit - c.bytes ELSE 0
             kept == IF n <= room THEN n ELSE room
  <1>1. c.bytes \in Nat /\ c.total_bytes \in Nat
    BY DEF Captures
  <1>2. room \in Nat /\ kept \in Nat /\ kept <= n /\ (limit = 0 => kept = 0)
    BY <1>1
  <1> HIDE DEF kept, room
  <1> DEFINE d == push_body_capture(c, n, limit)
  <1>3. CASE c.finished
    <2>1. d = [c EXCEPT !.total_bytes = @ + n]
      BY <1>3 DEF push_body_capture
    <2>2. d \in Captures
      BY <1>1, <2>1 DEF Captures
    <2>3. d.total_bytes = c.total_bytes + n /\ d.bytes = c.bytes
          /\ d.expected_bytes = c.expected_bytes
      BY <1>1, <2>1 DEF Captures
    <2>4. d.finished = c.finished /\ d.stream_ended = c.stream_ended
          /\ d.limit_exceeded = c.limit_exceeded
      BY <2>1 DEF Captures
    <2> HIDE DEF d
    <2>5. d.bytes >= c.bytes
      BY <1>1, <2>3
    <2>6. QED
      BY <1>3, <2>2, <2>3, <2>4, <2>5 DEF d
  <1>4. CASE ~c.finished
    <2> DEFINE t == c.truncated \/ kept < n
    <2>0. t \in BOOLEAN
      OBVIOUS
    <2>1. d = [c EXCEPT !.total_bytes = c.total_bytes + n, !.bytes = c.bytes + kept,
                        !.truncated = t]
      BY <1>4 DEF push_body_capture, kept, room
    <2> HIDE DEF t
    <2>2. d \in Captures
      <3> DEFINE x == c.bytes + kept
                 y == c.total_bytes + n
      <3>1. x \in Nat /\ y \in Nat
        BY <1>1, <1>2
      <3>2. d = [c EXCEPT !.total_bytes = y, !.bytes = x, !.truncated = t]
        BY <2>1
      <3> HIDE DEF x, y, d
      <3> QED
        BY <2>0, <3>1, <3>2 DEF Captures
    <2>3. d.total_bytes = c.total_bytes + n /\ d.bytes = c.bytes + kept
          /\ d.expected_bytes = c.expected_bytes
      BY <1>1, <2>1 DEF Captures
    <2>4. d.finished = c.finished /\ d.stream_ended = c.stream_ended
          /\ d.limit_exceeded = c.limit_exceeded
      BY <2>1 DEF Captures
    <2>5. d.truncated = t
      BY <2>1 DEF Captures
    <2> HIDE DEF d
    <2>6. d.bytes >= c.bytes /\ (limit = 0 => d.bytes = c.bytes)
      BY <1>1, <1>2, <2>3
    <2>7. ~d.truncated => ~c.truncated /\ ~(kept < n)
      BY <2>5, Zenon DEF t
    <2>8. ~d.truncated => ~c.truncated /\ d.bytes = c.bytes + n
      BY <1>1, <1>2, <2>3, <2>7
    <2>9. QED
      BY <1>4, <2>2, <2>3, <2>4, <2>6, <2>8 DEF d
  <1> QED
    BY <1>3, <1>4

(* push_request marks the capture whose count passes the live limit. *)
LEMMA PushRequest ==
    ASSUME NEW c \in Captures, NEW n \in Nat, n >= 1,
           NEW climit \in Nat, NEW limit \in Nat
    PROVE  LET d == push_request(c, n, climit, limit)
           IN  /\ d \in Captures
               /\ d.total_bytes = c.total_bytes + n
               /\ d.finished = c.finished /\ d.stream_ended = c.stream_ended
               /\ d.expected_bytes = c.expected_bytes
               /\ d.limit_exceeded <=> c.limit_exceeded \/ c.total_bytes + n > limit
               /\ c.finished => d.bytes = c.bytes
               /\ climit = 0 => d.bytes = c.bytes
               /\ ~c.finished /\ ~d.truncated => ~c.truncated /\ d.bytes = c.bytes + n
  <1> DEFINE b == push_body_capture(c, n, climit)
  <1>1. /\ b \in Captures /\ b.total_bytes = c.total_bytes + n
        /\ b.finished = c.finished /\ b.stream_ended = c.stream_ended
        /\ b.limit_exceeded = c.limit_exceeded
        /\ b.expected_bytes = c.expected_bytes
        /\ c.finished => b.bytes = c.bytes
        /\ climit = 0 => b.bytes = c.bytes
        /\ ~c.finished /\ ~b.truncated => ~c.truncated /\ b.bytes = c.bytes + n
    BY PushBody
  <1>2. push_request(c, n, climit, limit)
          = [b EXCEPT !.limit_exceeded = @ \/ b.total_bytes > limit]
    BY DEF push_request
  <1> HIDE DEF b
  <1> QED
    BY <1>1, <1>2 DEF Captures

(* The same of a step of the shared capture. *)
LEMMA PushShared ==
    ASSUME shared \in Captures, NEW n \in Nat, n >= 1,
           NEW climit \in Nat, NEW limit \in Nat,
           shared' = push_request(shared, n, climit, limit)
    PROVE  /\ shared' \in Captures
           /\ shared'.total_bytes = shared.total_bytes + n
           /\ shared'.finished = shared.finished
           /\ shared'.stream_ended = shared.stream_ended
           /\ shared'.expected_bytes = shared.expected_bytes
           /\ shared'.limit_exceeded <=> shared.limit_exceeded \/ shared.total_bytes + n > limit
           /\ shared.finished => shared'.bytes = shared.bytes
           /\ climit = 0 => shared'.bytes = shared.bytes
           /\ ~shared.finished /\ ~shared'.truncated
                 => ~shared.truncated /\ shared'.bytes = shared.bytes + n
  <1> DEFINE d == push_request(shared, n, climit, limit)
  <1>1. /\ d \in Captures /\ d.total_bytes = shared.total_bytes + n
        /\ d.finished = shared.finished /\ d.stream_ended = shared.stream_ended
    BY PushRequest
  <1>2. d.expected_bytes = shared.expected_bytes
    BY PushRequest
  <1>5. shared.finished => d.bytes = shared.bytes
    BY PushRequest
  <1>6. climit = 0 => d.bytes = shared.bytes
    BY PushRequest
  <1>3. d.limit_exceeded <=> shared.limit_exceeded \/ shared.total_bytes + n > limit
    BY PushRequest
  <1>4. ASSUME ~shared.finished, ~d.truncated
        PROVE  ~shared.truncated /\ d.bytes = shared.bytes + n
    BY <1>4, PushRequest
  <1> HIDE DEF d
  <1>7. shared' = d
    BY DEF d
  <1> QED
    BY <1>1, <1>2, <1>3, <1>4, <1>5, <1>6, <1>7, Zenon

LEMMA EmptyCaptureType == EmptyCapture \in Captures
  BY DEF EmptyCapture, Captures, None

LEMMA TakenType ==
    ASSUME NEW c \in Captures
    PROVE  /\ Taken(c) \in Captures /\ Taken(c).finished /\ Taken(c).bytes = 0
           /\ Taken(c).total_bytes = c.total_bytes
           /\ Taken(c).limit_exceeded = c.limit_exceeded
           /\ Taken(c).stream_ended = c.stream_ended
           /\ Taken(c).expected_bytes = c.expected_bytes
  BY DEF Taken, Captures

(* An event is an event, with or without the request capture in it. *)
LEMMA EventType ==
    ASSUME NEW status \in {0, 200, 413},
           NEW error \in {"none", "limit", "send", "stream", "dropped"},
           NEW c \in Captures
    PROVE  Event(status, error) \in Events /\ WithRequest(Event(status, error), c) \in Events
  <1>1. Event(status, error) \in Events
    BY DEF Event, Events
  <1>2. c.bytes \in Nat /\ c.total_bytes \in Nat /\ incomplete_request(c) \in BOOLEAN
    BY DEF Captures, incomplete_request
  <1> QED
    BY ZenonT(60), <1>1, <1>2 DEF WithRequest, Events

LEMMA MarkType ==
    ASSUME NEW e \in Events, NEW t \in BOOLEAN, NEW i \in BOOLEAN
    PROVE  [e EXCEPT !.response_body_truncated = t, !.interrupted = i] \in Events
  BY ZenonT(60) DEF Events

(* What incomplete_request promises of a capture that is not marked. *)
LEMMA UnmarkedUpload ==
    ASSUME IInv, upload # "none", req.captured, ~shared.finished,
           ~incomplete_request(shared)
    PROVE  shared.bytes = req.body.length /\ shared.total_bytes = req.body.length
  BY DEF IInv, TypeOK, UploadInv, incomplete_request, None, Requests, Bodies, Captures

LEMMA RecordOne ==
    ASSUME records = <<>>, NEW e, Record(e)
    PROVE  records' = <<e>> /\ Len(records') = 1 /\ records' # <<>>
           /\ DOMAIN records' = {1} /\ records'[1] = e
  BY DEF Record

-----------------------------------------------------------------------------
(* Every step preserves the invariant, one lemma per group of actions.     *)

LEMMA InitInv == Init => IInv
  <1> SUFFICES ASSUME Init PROVE IInv
    OBVIOUS
  <1> USE ProxyAssumption
  <1>1. TypeOK
    <2>1. /\ pc \in {"route", "sending", "streaming", "drained", "closed"}
          /\ reply \in [status : {0, 200, 400, 403, 404, 413, 502}, id : BOOLEAN]
          /\ upload \in {"none", "open", "closed"}
      BY DEF Init
    <2>2. pulled \in Nat /\ forwarded \in Nat /\ produced \in Nat
          /\ shared \in Captures /\ capture \in Captures
      BY EmptyCaptureType DEF Init
    <2>3. timings \in Seq(Nat) /\ records \in Seq(Events)
      BY DEF Init
    <2> QED
      BY <2>1, <2>2, <2>3 DEF Init, TypeOK
  <1>2. UploadInv
    BY DEF Init, UploadInv, EmptyCapture, Requests, Bodies
  <1>3. PhaseInv /\ DownloadInv
    BY DEF Init, PhaseInv, DownloadInv, EmptyCapture, Bodies
  <1>4. TimingsInv /\ RecordedOnce /\ TraceIdIsRecorded
    BY DEF Init, TimingsInv, RecordedOnce, TraceIdIsRecorded
  <1>5. CompleteMeansWhole /\ TimingsCoverBody
    BY DEF Init, CompleteMeansWhole, TimingsCoverBody
  <1> QED
    BY <1>1, <1>2, <1>3, <1>4, <1>5 DEF IInv

(* The parts of the invariant that a step leaves alone if it leaves alone  *)
(* the response and the record.                                            *)
LEMMA DownloadUntouched ==
    ASSUME IInv, UNCHANGED <<req, resp, reply, downloadVars, records>>
    PROVE  /\ DownloadInv' /\ TimingsInv'
           /\ RecordedOnce' /\ TraceIdIsRecorded' /\ TimingsCoverBody'
  BY DEF IInv, downloadVars, DownloadInv, TimingsInv, Cover, RecordedOnce,
         TraceIdIsRecorded, TimingsCoverBody

(* An early return: no body has been touched, and nothing is recorded. *)
LEMMA RejectStep ==
    ASSUME IInv, RejectPath \/ RejectUpstream
    PROVE  IInv'
  <1>1. /\ pc = "route" /\ pc' = "closed"
        /\ \E status \in {400, 403, 404} : reply' = [status |-> status, id |-> FALSE]
        /\ UNCHANGED <<req, resp, uploadVars, downloadVars, records>>
    BY DEF RejectPath, RejectUpstream, Answer
  <1>2. reply.id = FALSE /\ reply'.id = FALSE /\ records = <<>>
    BY <1>1 DEF IInv, PhaseInv
  <1>3. TypeOK'
    BY <1>1 DEF IInv, TypeOK, uploadVars, downloadVars
  <1>4. UploadInv' /\ DownloadInv' /\ TimingsInv'
    BY <1>1 DEF IInv, UploadInv, DownloadInv, TimingsInv, Cover, uploadVars, downloadVars
  <1>5. PhaseInv'
    BY <1>1, <1>2 DEF IInv, PhaseInv, uploadVars, downloadVars
  <1>6. RecordedOnce' /\ TraceIdIsRecorded'
    BY <1>1, <1>2 DEF IInv, RecordedOnce, TraceIdIsRecorded, downloadVars
  <1>7. CompleteMeansWhole' /\ TimingsCoverBody'
    BY <1>1, <1>2 DEF CompleteMeansWhole, TimingsCoverBody
  <1> QED
    BY <1>3, <1>4, <1>5, <1>6, <1>7 DEF IInv

LEMMA RejectDeclaredStep ==
    ASSUME IInv, RejectDeclared
    PROVE  IInv'
  <1>1. /\ pc = "route" /\ pc' = "closed" /\ upload = "none"
        /\ reply' = [status |-> 413, id |-> req.captured]
        /\ UNCHANGED <<req, resp, uploadVars, downloadVars>>
        /\ records = <<>> /\ ~live /\ capture.bytes = 0
    BY DEF IInv, PhaseInv, RejectDeclared, Admitted, Answer, EmptyCapture
  <1>2. TypeOK' /\ Len(records') = (IF req.captured THEN 1 ELSE 0)
        /\ (records' # <<>> <=> req.captured)
        /\ \A k \in DOMAIN records' : k = 1 /\ records'[k] = Event(413, "limit")
    <2>0. TypeOK /\ req.captured \in BOOLEAN
      BY DEF IInv, TypeOK, Requests
    <2>1. CASE req.captured
      <3>1. Record(Event(413, "limit"))
        BY <2>1 DEF RejectDeclared
      <3>2. records' = <<Event(413, "limit")>>
        BY <1>1, <3>1, RecordOne
      <3>3. Event(413, "limit") \in Events
        BY EventType, EmptyCaptureType
      <3> HIDE DEF Event
      <3>4. records' \in Seq(Events)
        BY <3>2, <3>3
      <3> QED
        BY <1>1, <2>0, <2>1, <3>2, <3>4 DEF TypeOK, uploadVars, downloadVars
    <2>2. CASE ~req.captured
      BY <1>1, <2>0, <2>2 DEF RejectDeclared, TypeOK, uploadVars, downloadVars
    <2> QED
      BY <2>1, <2>2
  <1>3. UploadInv' /\ DownloadInv' /\ TimingsInv'
    BY <1>1 DEF IInv, UploadInv, DownloadInv, TimingsInv, uploadVars, downloadVars
  <1>4. PhaseInv'
    BY <1>1, <1>2 DEF IInv, PhaseInv, UploadInv, uploadVars, downloadVars
  <1>5. RecordedOnce' /\ TraceIdIsRecorded'
    BY <1>1, <1>2 DEF RecordedOnce, TraceIdIsRecorded, downloadVars
  <1>6. CompleteMeansWhole' /\ TimingsCoverBody'
    BY <1>1, <1>2, ProxyAssumption
       DEF CompleteMeansWhole, TimingsCoverBody, Event, uploadVars
  <1> QED
    BY <1>2, <1>3, <1>4, <1>5, <1>6 DEF IInv

LEMMA ForwardStep ==
    ASSUME IInv, Forward
    PROVE  IInv'
  <1>1. /\ pc = "route" /\ pc' = "sending" /\ upload = "none" /\ upload' = "open"
        /\ records = <<>> /\ ~live /\ pulled = 0 /\ forwarded = 0 /\ reply.id = FALSE
        /\ UNCHANGED <<req, resp, reply, pulled, forwarded, downloadVars, records>>
    BY DEF IInv, PhaseInv, Forward, Admitted
  <1>2. req.body.length \in Nat /\ req.body.declared \in BOOLEAN
    BY DEF IInv, TypeOK, Requests, Bodies
  <1>3. /\ shared' \in Captures
        /\ shared'.bytes = 0 /\ shared'.total_bytes = 0
        /\ ~shared'.limit_exceeded /\ ~shared'.finished
        /\ shared'.stream_ended => req.body.length = 0
        /\ shared'.expected_bytes = (IF req.body.declared THEN req.body.length ELSE None)
    BY <1>2 DEF Forward, EmptyCapture, Captures, None
  <1>4. TypeOK'
    BY <1>1, <1>3 DEF IInv, TypeOK, downloadVars
  <1>5. UploadInv'
    BY <1>1, <1>2, <1>3, ProxyAssumption DEF IInv, UploadInv
  <1>6. PhaseInv'
    BY <1>1, <1>3 DEF IInv, PhaseInv, downloadVars
  <1>7. CompleteMeansWhole'
    BY <1>1 DEF CompleteMeansWhole
  <1> QED
    BY <1>1, <1>4, <1>5, <1>6, <1>7, DownloadUntouched DEF IInv

(* The upload: nothing that has been recorded depends on it any more, and  *)
(* what will be recorded is kept by UploadInv.                             *)
LEMMA UploadStep ==
    ASSUME IInv, UploadChunk \/ UploadEnd \/ UploadStops
    PROVE  IInv'
  <1>1. /\ upload = "open" /\ upload' \in {"open", "closed"}
        /\ UNCHANGED <<req, resp, pc, reply, downloadVars, records>>
    BY DEF UploadChunk, UploadEnd, UploadStops, UploadOnly
  <1>2. /\ shared \in Captures /\ pulled \in Nat /\ forwarded \in Nat
        /\ req.body.length \in Nat /\ req.captured \in BOOLEAN
    BY DEF IInv, TypeOK, Requests, Bodies
  <1>3. /\ UploadInv' /\ shared' \in Captures /\ pulled' \in Nat /\ forwarded' \in Nat
        /\ shared'.finished = shared.finished
    <2>1. CASE UploadChunk
      <3>1. PICK n \in 1 .. req.body.length - pulled :
               LET c == push_request(shared, n, CaptureLimit, ReqLimit)
               IN  /\ shared' = c /\ pulled' = pulled + n
                   /\ IF c.limit_exceeded
                      THEN upload' = "closed" /\ UNCHANGED forwarded
                      ELSE forwarded' = forwarded + n /\ UNCHANGED upload
        BY <2>1 DEF UploadChunk
      <3>2. n \in Nat /\ n >= 1 /\ pulled + n <= req.body.length
        BY <1>2, <3>1
      <3>3. CaptureLimit \in Nat /\ (~req.captured => CaptureLimit = 0)
        BY ProxyAssumption DEF CaptureLimit
      <3>4. /\ shared' \in Captures
            /\ shared'.total_bytes = shared.total_bytes + n
            /\ shared'.finished = shared.finished
            /\ shared'.stream_ended = shared.stream_ended
            /\ shared'.expected_bytes = shared.expected_bytes
            /\ shared'.limit_exceeded <=>
                  shared.limit_exceeded \/ shared.total_bytes + n > ReqLimit
            /\ shared.finished => shared'.bytes = shared.bytes
            /\ ~req.captured => shared'.bytes = shared.bytes
            /\ ~shared.finished /\ ~shared'.truncated
                  => ~shared.truncated /\ shared'.bytes = shared.bytes + n
        <4>1. shared' = push_request(shared, n, CaptureLimit, ReqLimit)
          BY <3>1
        <4>2. ReqLimit \in Nat /\ n \in Nat /\ n >= 1 /\ CaptureLimit \in Nat
          BY <3>2, <3>3, ProxyAssumption
        <4> QED
          BY <1>2, <3>3, <4>1, <4>2, PushShared
      <3>5. pulled' = pulled + n
            /\ IF shared'.limit_exceeded
               THEN upload' = "closed" /\ UNCHANGED forwarded
               ELSE forwarded' = forwarded + n /\ UNCHANGED upload
        BY <3>1
      <3> QED
        BY <1>1, <1>2, <3>2, <3>4, <3>5, ProxyAssumption DEF IInv, UploadInv, Captures
    <2>2. CASE UploadEnd
      <3>1. /\ pulled = req.body.length /\ upload' = "closed"
            /\ shared' = [shared EXCEPT !.stream_ended = TRUE]
            /\ UNCHANGED <<pulled, forwarded>>
        BY <2>2 DEF UploadEnd
      <3>2. /\ shared' \in Captures
            /\ shared'.total_bytes = shared.total_bytes
            /\ shared'.finished = shared.finished
            /\ shared'.expected_bytes = shared.expected_bytes
            /\ shared'.limit_exceeded = shared.limit_exceeded
            /\ shared'.bytes = shared.bytes
            /\ shared'.truncated = shared.truncated
        BY <1>2, <3>1 DEF Captures
      <3> QED
        BY <1>1, <1>2, <3>1, <3>2 DEF IInv, UploadInv
    <2>3. CASE UploadStops
      BY <1>1, <1>2, <2>3 DEF UploadStops, IInv, UploadInv
    <2> QED
      BY <2>1, <2>2, <2>3
  <1>4. TypeOK'
    BY <1>1, <1>3 DEF IInv, TypeOK, downloadVars
  <1>5. PhaseInv'
    BY <1>1, <1>3 DEF IInv, PhaseInv, downloadVars
  <1>6. CompleteMeansWhole'
    BY <1>1 DEF IInv, CompleteMeansWhole, downloadVars
  <1> QED
    BY <1>1, <1>3, <1>4, <1>5, <1>6, DownloadUntouched DEF IInv

(* send() fails: the event is recorded here, with what the upload got to. *)
LEMMA SendFailsStep ==
    ASSUME IInv, SendFails
    PROVE  IInv'
  <1>1. /\ pc = "sending" /\ pc' = "closed" /\ upload # "none" /\ upload' = "closed"
        /\ shared' = Taken(shared) /\ reply'.id = req.captured
        /\ records = <<>> /\ ~live /\ capture.bytes = 0 /\ ~shared.finished
        /\ UNCHANGED <<req, resp, pulled, forwarded, downloadVars>>
    BY DEF IInv, PhaseInv, SendFails, Answer, EmptyCapture
  <1>2. TypeOK /\ shared \in Captures /\ req.captured \in BOOLEAN
        /\ shared.limit_exceeded \in BOOLEAN
    BY DEF IInv, TypeOK, Requests, Captures
  <1>3. /\ shared' \in Captures /\ shared'.finished /\ shared'.bytes = 0
        /\ shared'.total_bytes = shared.total_bytes
        /\ shared'.limit_exceeded = shared.limit_exceeded
        /\ shared'.stream_ended = shared.stream_ended
        /\ shared'.expected_bytes = shared.expected_bytes
    BY <1>1, <1>2, TakenType
  <1> DEFINE base == IF shared.limit_exceeded THEN Event(413, "limit") ELSE Event(0, "send")
             e == WithRequest(base, shared)
  <1>4. e \in Events /\ e.status # 200 /\ e.error # "none" /\ e.timings = <<>>
        /\ e.request_body = shared.bytes /\ e.request_body_bytes = shared.total_bytes
        /\ e.request_body_truncated = incomplete_request(shared) /\ e.response_body = 0
    <2>1. e \in Events
      BY <1>2, EventType
    <2>2. base \in Events /\ base.status # 200 /\ base.error # "none"
          /\ base.timings = <<>> /\ base.response_body = 0
      BY <1>2, EventType DEF Event
    <2> HIDE DEF base
    <2> QED
      BY <2>1, <2>2 DEF WithRequest, Events
  <1> HIDE DEF e, base
  <1>5. reply' \in [status : {0, 200, 400, 403, 404, 413, 502}, id : BOOLEAN]
    BY <1>2 DEF SendFails, Answer
  <1>6. /\ records' \in Seq(Events) /\ Len(records') = (IF req.captured THEN 1 ELSE 0)
        /\ (records' # <<>> <=> req.captured)
        /\ \A k \in DOMAIN records' : k = 1 /\ records'[k] = e
    <2>1. CASE req.captured
      <3>1. Record(e)
        BY <2>1 DEF SendFails, e, base
      <3>2. records' = <<e>>
        BY <1>1, <3>1, RecordOne
      <3> QED
        BY <1>4, <2>1, <3>2
    <2>2. CASE ~req.captured
      BY <1>1, <1>2, <2>2 DEF SendFails, TypeOK
    <2> QED
      BY <2>1, <2>2
  <1>7. TypeOK'
    BY <1>1, <1>2, <1>3, <1>5, <1>6 DEF TypeOK, downloadVars
  <1>8. UploadInv'
    BY <1>1, <1>3 DEF IInv, UploadInv
  <1>9. PhaseInv'
    BY <1>1, <1>3, <1>6 DEF IInv, PhaseInv, downloadVars
  <1>10. DownloadInv' /\ TimingsInv'
    BY <1>1 DEF IInv, DownloadInv, TimingsInv, downloadVars
  <1>11. RecordedOnce' /\ TraceIdIsRecorded'
    BY <1>1, <1>6 DEF RecordedOnce, TraceIdIsRecorded, downloadVars
  <1>12. CompleteMeansWhole'
    <2>1. req.captured /\ ~e.request_body_truncated
             => e.request_body = req.body.length /\ e.request_body_bytes = req.body.length
      BY <1>1, <1>4, UnmarkedUpload
    <2> QED
      BY <1>1, <1>4, <1>6, <2>1 DEF CompleteMeansWhole
  <1>13. TimingsCoverBody'
    BY <1>4, <1>6, ProxyAssumption DEF TimingsCoverBody
  <1> QED
    BY <1>7, <1>8, <1>9, <1>10, <1>11, <1>12, <1>13 DEF IInv

(* The response headers open the stream that will record the event. *)
LEMMA RespondStep ==
    ASSUME IInv, Respond
    PROVE  IInv'
  <1>1. /\ pc = "sending" /\ pc' = "streaming" /\ upload # "none"
        /\ reply' = [status |-> 200, id |-> req.captured] /\ live' = req.captured
        /\ records = <<>> /\ ~live /\ ~shared.finished /\ timings = <<>> /\ produced = 0
        /\ UNCHANGED <<req, resp, uploadVars, produced, timings, records>>
    BY DEF IInv, PhaseInv, Respond, Answer
  <1>2. TypeOK /\ resp.length \in Nat /\ resp.declared \in BOOLEAN /\ req.captured \in BOOLEAN
    BY DEF IInv, TypeOK, Requests, Bodies
  <1>3. /\ capture' \in Captures /\ ~capture'.finished /\ capture'.bytes = 0
        /\ capture'.total_bytes = 0
        /\ capture'.expected_bytes = (IF resp.declared THEN resp.length ELSE None)
    BY <1>2 DEF Respond, EmptyCapture, Captures, None
  <1>4. TypeOK'
    BY <1>1, <1>2, <1>3 DEF TypeOK, uploadVars
  <1>5. UploadInv'
    BY <1>1 DEF IInv, UploadInv, uploadVars
  <1>6. PhaseInv'
    BY <1>1, <1>2, <1>3 DEF IInv, PhaseInv, uploadVars
  <1>7. DownloadInv'
    BY <1>1, <1>2, <1>3 DEF DownloadInv
  <1>8. TimingsInv'
    BY <1>1, <1>3 DEF TimingsInv, Cover
  <1>9. RecordedOnce' /\ TraceIdIsRecorded'
    BY <1>1, <1>2 DEF RecordedOnce, TraceIdIsRecorded
  <1>10. CompleteMeansWhole' /\ TimingsCoverBody'
    BY <1>1 DEF CompleteMeansWhole, TimingsCoverBody
  <1> QED
    BY <1>4, <1>5, <1>6, <1>7, <1>8, <1>9, <1>10 DEF IInv

LEMMA HandlerDroppedStep ==
    ASSUME IInv, HandlerDropped
    PROVE  IInv'
  <1>1. /\ pc = "sending" /\ pc' = "closed" /\ upload # "none" /\ upload' = "closed"
        /\ records = <<>> /\ ~live
        /\ UNCHANGED <<req, resp, reply, pulled, forwarded, shared, downloadVars, records>>
    BY DEF IInv, PhaseInv, HandlerDropped
  <1>2. TypeOK'
    BY <1>1 DEF IInv, TypeOK, downloadVars
  <1>3. UploadInv'
    BY <1>1 DEF IInv, UploadInv
  <1>4. PhaseInv'
    BY <1>1 DEF IInv, PhaseInv, downloadVars
  <1>5. CompleteMeansWhole'
    BY <1>1 DEF CompleteMeansWhole
  <1> QED
    BY <1>1, <1>2, <1>3, <1>4, <1>5, DownloadUntouched DEF IInv

(* One more offset, not below the others. *)
LEMMA CoverAppend ==
    ASSUME NEW t \in Seq(Nat), NEW n \in Nat, NEW m \in Nat, n <= m, Cover(t, n)
    PROVE  /\ Cover(Append(t, m), m)
           /\ Len(t) >= MaxTimings => Cover(t, m)
  <1>1. Len(t) \in Nat /\ Len(Append(t, m)) = Len(t) + 1
        /\ \A i \in 1 .. Len(t) : Append(t, m)[i] = t[i] /\ t[i] \in Nat
        /\ Append(t, m)[Len(t) + 1] = m
    OBVIOUS
  <1> DEFINE u == Append(t, m)
  <1> HIDE DEF u
  <1>2. \A i \in 1 .. Len(u) : u[i] <= m
    BY <1>1 DEF Cover, u
  <1>3. \A i \in 1 .. Len(u) - 1 : u[i] <= u[i + 1]
    <2> SUFFICES ASSUME NEW i \in 1 .. Len(u) - 1 PROVE u[i] <= u[i + 1]
      OBVIOUS
    <2>1. CASE i = Len(t)
      BY <1>1, <1>2, <2>1 DEF u
    <2>2. CASE i # Len(t)
      BY <1>1, <2>2 DEF Cover, u
    <2> QED
      BY <2>1, <2>2
  <1>4. Cover(u, m)
    BY <1>1, <1>2, <1>3 DEF Cover, u
  <1>5. Len(t) >= MaxTimings => Cover(t, m)
    BY <1>1, ProxyAssumption DEF Cover
  <1> QED
    BY <1>4, <1>5 DEF u

LEMMA DownloadChunkStep ==
    ASSUME IInv, DownloadChunk
    PROVE  IInv'
  <1>1. /\ pc = "streaming" /\ (live <=> req.captured)
        /\ UNCHANGED <<req, resp, reply, upload, pulled, forwarded, pc, live, shared, records>>
    BY DEF IInv, PhaseInv, DownloadChunk, DownloadOnly
  <1>2. TypeOK /\ capture \in Captures /\ produced \in Nat /\ resp.length \in Nat
        /\ timings \in Seq(Nat) /\ capture.bytes \in Nat /\ RespLimit \in Nat
        /\ MaxTimings \in Nat
    BY ProxyAssumption DEF IInv, TypeOK, Bodies, Captures
  <1>3. PICK n \in 1 .. resp.length - produced :
            LET c == push_body_capture(capture, n, RespLimit)
            IN  /\ produced' = produced + n
                /\ capture' = IF req.captured THEN c ELSE capture
                /\ timings' = IF live /\ Len(timings) < MaxTimings
                              THEN Append(timings, c.bytes) ELSE timings
    BY DEF DownloadChunk
  <1>4. n \in Nat /\ n >= 1 /\ produced' = produced + n /\ produced' <= resp.length
        /\ produced' \in Nat
    BY <1>2, <1>3
  <1> DEFINE c == push_body_capture(capture, n, RespLimit)
  <1>5. /\ c \in Captures /\ c.total_bytes = capture.total_bytes + n
        /\ c.finished = capture.finished
        /\ c.expected_bytes = capture.expected_bytes
        /\ c.bytes >= capture.bytes
    BY ZenonT(60), <1>2, <1>4, PushBody
  <1>6. ~capture.finished /\ ~c.truncated => ~capture.truncated /\ c.bytes = capture.bytes + n
    BY ZenonT(60), <1>2, <1>4, PushBody
  <1>7. /\ capture' = IF req.captured THEN c ELSE capture
        /\ timings' = IF live /\ Len(timings) < MaxTimings
                      THEN Append(timings, c.bytes) ELSE timings
    BY <1>3
  <1> HIDE DEF c
  <1>8. c.bytes \in Nat
    BY <1>5 DEF Captures
  <1>9. TypeOK'
    BY <1>1, <1>2, <1>4, <1>5, <1>7, <1>8 DEF TypeOK
  <1>10. UploadInv'
    BY <1>1 DEF IInv, UploadInv
  <1>11. PhaseInv'
    BY <1>1, <1>7 DEF IInv, PhaseInv
  <1>12. DownloadInv'
    BY <1>1, <1>2, <1>4, <1>5, <1>6, <1>7 DEF IInv, DownloadInv
  <1>13. TimingsInv'
    <2> SUFFICES ASSUME live' PROVE Cover(timings', capture'.bytes)
      BY DEF TimingsInv, Cover
    <2>1. live /\ capture' = c /\ Cover(timings, capture.bytes)
      BY <1>1, <1>7 DEF IInv, TimingsInv
    <2>2. Cover(Append(timings, c.bytes), c.bytes)
          /\ (Len(timings) >= MaxTimings => Cover(timings, c.bytes))
      BY <1>2, <1>5, <1>8, <2>1, CoverAppend
    <2>3. Len(timings) \in Nat
      BY <1>2
    <2> QED
      BY <1>2, <1>7, <2>1, <2>2, <2>3
  <1>14. RecordedOnce' /\ TraceIdIsRecorded' /\ TimingsCoverBody'
    BY <1>1 DEF IInv, RecordedOnce, TraceIdIsRecorded, TimingsCoverBody
  <1>15. CompleteMeansWhole'
    <2>1. records = <<>>
      BY <1>1 DEF IInv, PhaseInv
    <2> QED
      BY <1>1, <2>1 DEF CompleteMeansWhole
  <1> QED
    BY <1>9, <1>10, <1>11, <1>12, <1>13, <1>14, <1>15 DEF IInv

(* finish records the event of an open stream, and does nothing after.  An *)
(* event without an error needs a response that came to its end.           *)
LEMMA FinishStep ==
    ASSUME IInv, pc \in {"streaming", "drained"}, pc' \in {"drained", "closed"},
           NEW error \in {"none", "stream", "dropped"}, Finish(error),
           DownloadOnly, UNCHANGED <<produced, timings>>,
           live /\ error = "none" => produced = resp.length
    PROVE  IInv'
  <1>1. UNCHANGED <<req, resp, reply, upload, pulled, forwarded, produced, timings>>
        /\ upload # "none"
    BY DEF DownloadOnly, IInv, PhaseInv
  <1>2. TypeOK /\ shared \in Captures /\ capture \in Captures /\ live \in BOOLEAN
    BY DEF IInv, TypeOK
  <1>3. CASE ~live
    <2>1. UNCHANGED <<live, shared, capture, records>>
      BY <1>3 DEF Finish
    <2>2. TypeOK' /\ UploadInv'
      BY <1>1, <1>2, <2>1 DEF TypeOK, IInv, UploadInv
    <2>3. PhaseInv'
      BY <1>1, <1>3, <2>1 DEF IInv, PhaseInv
    <2>4. CompleteMeansWhole'
      BY <1>1, <2>1 DEF IInv, CompleteMeansWhole
    <2> QED
      BY <1>1, <2>1, <2>2, <2>3, <2>4, DownloadUntouched DEF IInv, downloadVars
  <1>4. CASE live
    <2>1. /\ pc = "streaming" /\ req.captured /\ records = <<>> /\ ~shared.finished
          /\ Cover(timings, capture.bytes) /\ reply.id
          /\ capture.total_bytes = produced /\ ~capture.finished
          /\ ~capture.truncated => capture.bytes = produced
      BY <1>4 DEF IInv, PhaseInv, TimingsInv, DownloadInv, TraceIdIsRecorded
    <2> DEFINE base == WithRequest(Event(200, error), shared)
               e == [base EXCEPT
                       !.response_body = capture.bytes,
                       !.response_body_bytes = capture.total_bytes, !.timings = timings,
                       !.response_body_truncated = capture.truncated \/ error # "none",
                       !.interrupted = error # "none"]
    <2>2. ~live' /\ live' \in BOOLEAN /\ shared' = Taken(shared)
          /\ capture' = [capture EXCEPT !.bytes = 0] /\ Record(e)
      BY <1>4 DEF Finish
    <2>3. /\ base \in Events /\ base.status = 200 /\ base.error = error
          /\ base.request_body = shared.bytes
          /\ base.request_body_bytes = shared.total_bytes
          /\ base.request_body_truncated = incomplete_request(shared)
      <3>1. base \in Events
        BY <1>2, EventType
      <3>2. Event(200, error) \in Events
        BY <1>2, EventType
      <3>3. Event(200, error).status = 200 /\ Event(200, error).error = error
        BY DEF Event
      <3> QED
        BY <3>1, <3>2, <3>3 DEF WithRequest, Events
    <2>4. e \in Events
      <3> DEFINE t == capture.truncated \/ error # "none"
                 i == error # "none"
                 x == capture.bytes
                 y == capture.total_bytes
      <3>1. x \in Nat /\ y \in Nat /\ timings \in Seq(Nat)
        BY <1>2 DEF Captures, TypeOK
      <3>2. t \in BOOLEAN /\ i \in BOOLEAN
        OBVIOUS
      <3> DEFINE part == [base EXCEPT !.response_body = x, !.response_body_bytes = y,
                                      !.timings = timings]
      <3>3. e = [part EXCEPT !.response_body_truncated = t, !.interrupted = i]
        OBVIOUS
      <3> HIDE DEF t, i, x, y, e, base
      <3>4. base \in Events
        BY <2>3
      <3>5. part \in Events
        BY ZenonT(60), <3>1, <3>4 DEF Events
      <3> HIDE DEF part
      <3> QED
        BY <3>2, <3>3, <3>5, MarkType, Zenon
    <2>5. /\ e.status = 200 /\ e.error = error /\ e.timings = timings
          /\ e.request_body = shared.bytes
          /\ e.request_body_bytes = shared.total_bytes
          /\ e.request_body_truncated = incomplete_request(shared)
          /\ e.response_body = capture.bytes
          /\ e.response_body_bytes = capture.total_bytes
      <3> HIDE DEF base
      <3> QED
        BY <2>3 DEF Events
    <2>6. ~e.response_body_truncated => ~capture.truncated /\ error = "none"
      <3> HIDE DEF base
      <3> QED
        BY <2>3 DEF Events
    <2> HIDE DEF e, base
    <2>7. /\ records' = <<e>> /\ Len(records') = 1 /\ records' # <<>>
          /\ DOMAIN records' = {1} /\ records'[1] = e
      BY <2>1, <2>2, RecordOne
    <2>8. records' \in Seq(Events)
      BY <2>4, <2>7
    <2>9. /\ shared' \in Captures /\ shared'.finished /\ shared'.bytes = 0
          /\ shared'.total_bytes = shared.total_bytes
          /\ shared'.limit_exceeded = shared.limit_exceeded
          /\ shared'.stream_ended = shared.stream_ended
          /\ shared'.expected_bytes = shared.expected_bytes
      BY <1>2, <2>2, TakenType
    <2>10. capture' \in Captures /\ capture'.bytes = 0
           /\ capture'.total_bytes = capture.total_bytes
           /\ capture'.finished = capture.finished
      BY <1>2, <2>2 DEF Captures
    <2>11. TypeOK'
      BY <1>1, <1>2, <2>2, <2>8, <2>9, <2>10 DEF TypeOK
    <2>12. UploadInv'
      BY <1>1, <2>9 DEF IInv, UploadInv
    <2>13. PhaseInv'
      BY <1>1, <2>1, <2>2, <2>7, <2>9, <2>10 DEF PhaseInv
    <2>14. DownloadInv' /\ TimingsInv'
      BY <1>1, <2>1, <2>2, <2>10 DEF IInv, DownloadInv, TimingsInv
    <2>15. RecordedOnce' /\ TraceIdIsRecorded'
      BY <1>1, <2>1, <2>2, <2>7 DEF RecordedOnce, TraceIdIsRecorded
    <2>16. CompleteMeansWhole'
      <3>1. ~e.request_body_truncated
               => e.request_body = req.body.length /\ e.request_body_bytes = req.body.length
        BY <1>1, <2>1, <2>5, UnmarkedUpload
      <3>2. ~e.response_body_truncated
               => e.response_body = resp.length /\ e.response_body_bytes = resp.length
        BY <1>4, <2>1, <2>5, <2>6
      <3>3. e.error = "none" => produced = resp.length
        BY <1>4, <2>5
      <3> QED
        BY <1>1, <2>7, <3>1, <3>2, <3>3 DEF CompleteMeansWhole
    <2>17. TimingsCoverBody'
      BY <2>1, <2>5, <2>7 DEF TimingsCoverBody, Cover
    <2> QED
      BY <2>11, <2>12, <2>13, <2>14, <2>15, <2>16, <2>17 DEF IInv
  <1> QED
    BY <1>2, <1>3, <1>4

LEMMA DownloadStep ==
    ASSUME IInv, DownloadEnd \/ DownloadFails \/ DownloadDropped
    PROVE  IInv'
  <1>1. CASE DownloadEnd
    BY <1>1, FinishStep DEF DownloadEnd
  <1>2. CASE DownloadFails
    BY <1>2, FinishStep DEF DownloadFails
  <1>3. CASE DownloadDropped
    <2> DEFINE error == IF capture.expected_bytes = capture.total_bytes
                        THEN "none" ELSE "dropped"
    <2>1. error \in {"none", "stream", "dropped"}
      OBVIOUS
    <2>2. live /\ error = "none" => produced = resp.length
      BY DEF IInv, TypeOK, PhaseInv, DownloadInv, None, Bodies, Captures
    <2>3. /\ pc \in {"streaming", "drained"} /\ pc' \in {"drained", "closed"}
          /\ Finish(error) /\ DownloadOnly /\ UNCHANGED <<produced, timings>>
      BY <1>3 DEF DownloadDropped
    <2> HIDE DEF error
    <2> QED
      BY <2>1, <2>2, <2>3, FinishStep
  <1> QED
    BY <1>1, <1>2, <1>3

LEMMA StutterStep ==
    ASSUME IInv, UNCHANGED vars
    PROVE  IInv'
  <1>1. UNCHANGED <<req, resp, pc, reply, upload, pulled, forwarded, shared, downloadVars, records>>
    BY DEF vars, uploadVars
  <1>2. TypeOK' /\ UploadInv' /\ PhaseInv' /\ CompleteMeansWhole'
    BY <1>1 DEF IInv, TypeOK, UploadInv, PhaseInv, CompleteMeansWhole, downloadVars
  <1> QED
    BY <1>1, <1>2, DownloadUntouched DEF IInv

(* The invariant holds of every request, whatever its size, the limits and *)
(* the order in which upload, response and client come to their ends.      *)
THEOREM ProxyInvariance == Spec => []IInv
  <1>1. Init => IInv
    BY InitInv
  <1>2. IInv /\ [Next]_vars => IInv'
    BY RejectStep, RejectDeclaredStep, ForwardStep, UploadStep, SendFailsStep,
       RespondStep, HandlerDroppedStep, DownloadChunkStep, DownloadStep, StutterStep
       DEF Next
  <1> QED
    BY <1>1, <1>2, PTL DEF Spec

(* Every variable keeps its type. *)
THEOREM ProxyTypeCorrect == Spec => []TypeOK
  <1>1. IInv => TypeOK
    BY DEF IInv
  <1> QED
    BY <1>1, ProxyInvariance, PTL

(* end, error and drop of the response stream record the event once. *)
THEOREM RecordsAtMostOne == Spec => []RecordedOnce
  <1>1. IInv => RecordedOnce
    BY DEF IInv
  <1> QED
    BY <1>1, ProxyInvariance, PTL

(* The client holds a trace id exactly when the request has been or will   *)
(* be recorded.                                                            *)
THEOREM TraceIdsAreKept == Spec => []TraceIdIsRecorded
  <1>1. IInv => TraceIdIsRecorded
    BY DEF IInv
  <1> QED
    BY <1>1, ProxyInvariance, PTL

(* The upstream never receives more than max_request_body_bytes. *)
THEOREM UploadsAreBounded == Spec => []UploadWithinLimit
  <1>1. IInv => UploadWithinLimit
    BY DEF IInv, UploadInv, UploadWithinLimit
  <1> QED
    BY <1>1, ProxyInvariance, PTL

(* No body is kept after its record, or of a request that is not captured. *)
THEOREM BuffersAreReleased == Spec => []NothingRetained
  <1>1. IInv => NothingRetained
    BY DEF IInv, UploadInv, PhaseInv, NothingRetained
  <1> QED
    BY <1>1, ProxyInvariance, PTL

(* A body that is not marked as incomplete is the whole body. *)
THEOREM UnmarkedIsWhole == Spec => []CompleteMeansWhole
  <1>1. IInv => CompleteMeansWhole
    BY DEF IInv
  <1> QED
    BY <1>1, ProxyInvariance, PTL

(* The chunk timings are growing offsets up to the end of the stored body. *)
THEOREM TimingsAreOffsets == Spec => []TimingsCoverBody
  <1>1. IInv => TimingsCoverBody
    BY DEF IInv
  <1> QED
    BY <1>1, ProxyInvariance, PTL

(* The client holds a trace id exactly when there is, or will be, the one  *)
(* record of its request.                                                  *)
THEOREM OneRecordPerTraceId == Spec => []OneRecordPerId
  <1>1. RecordedOnce /\ TraceIdIsRecorded => OneRecordPerId
    BY DEF OneRecordPerId
  <1> QED
    BY <1>1, RecordsAtMostOne, TraceIdsAreKept, PTL

(* Forwarded and recorded bodies stay within their limits, and a record    *)
(* that is not marked has all of them.                                     *)
THEOREM BodiesAreWholeOrMarked == Spec => []BodiesAreAccounted
  <1>1. UploadWithinLimit /\ CompleteMeansWhole /\ TimingsCoverBody => BodiesAreAccounted
    BY DEF BodiesAreAccounted
  <1> QED
    BY <1>1, UploadsAreBounded, UnmarkedIsWhole, TimingsAreOffsets, PTL
=============================================================================
