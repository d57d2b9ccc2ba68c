------------------------------ MODULE HttpProxy ------------------------------
(***************************************************************************)
(* One HTTP request through the proxy (crates/llmtrace/src/proxy.rs): the  *)
(* handler proxy, proxy_http and proxy_passthrough_http, the request body  *)
(* stream that reqwest polls (RequestCaptureStream), the response body     *)
(* stream that the server polls (ResponseCaptureStream), and the capture   *)
(* both share.                                                             *)
(*                                                                         *)
(* Concurrency: the upload goes on while the handler waits for the         *)
(* upstream's headers, while the response streams, and even after it has   *)
(* been recorded; the client may go away at any moment, which drops the    *)
(* handler or the response stream; the upstream may answer before it has   *)
(* read the request, fail, or time out.                                    *)
(*                                                                         *)
(* Data: a body is the number of its bytes, a captured body the length of  *)
(* the prefix that was kept.  Empty chunks change nothing and are left out.*)
(* Requests do not share state, so one of them stands for all.             *)
(***************************************************************************)
EXTENDS Integers, Sequences

CONSTANTS
    MaxBody,     \* bound on the length of a body
    ReqLimit,    \* max_request_body_bytes
    RespLimit,   \* max_response_body_bytes
    MaxTimings   \* response_chunk_timings kept, 8192 in the code

ASSUME ProxyAssumption ==
    /\ MaxBody \in Nat /\ ReqLimit \in Nat /\ RespLimit \in Nat
    /\ MaxTimings \in Nat

VARIABLES
    req,        \* the request, see Requests
    resp,       \* the upstream's answer, see Bodies
    pc,         \* the handler: route, sending, streaming, drained, closed
    reply,      \* status the client was sent (0: none), and the trace id header
    upload,     \* RequestCaptureStream: none, open, closed
    pulled,     \* request bytes taken from the client
    forwarded,  \* request bytes handed to the upstream
    shared,     \* the BodyCapture behind SharedBodyCapture
    live,       \* ResponseCaptureStream.event is Some
    produced,   \* response bytes taken from the upstream
    capture,    \* ResponseCaptureStream.capture
    timings,    \* event.response_chunk_timings: the end offset of each chunk
    records     \* the events given to TraceRecorder::record

uploadVars == <<upload, pulled, forwarded, shared>>
downloadVars == <<live, produced, capture, timings>>
vars == <<req, resp, pc, reply, uploadVars, downloadVars, records>>

None == -1

(* A body and whether its length is known in advance (Content-Length). *)
Bodies == [length : 0 .. MaxBody, declared : BOOLEAN]
Requests == [path : {"ambiguous", "unproxied", "proxied"}, captured : BOOLEAN,
             target : {"unresolvable", "forbidden", "allowed"}, body : Bodies]

Captures == [bytes : Nat, total_bytes : Nat, truncated : BOOLEAN,
             limit_exceeded : BOOLEAN, finished : BOOLEAN,
             stream_ended : BOOLEAN, expected_bytes : Nat \cup {None}]

Events == [status : {0, 200, 413}, error : {"none", "limit", "send", "stream", "dropped"},
           request_body : Nat, request_body_bytes : Nat, request_body_truncated : BOOLEAN,
           response_body : Nat, response_body_bytes : Nat, response_body_truncated : BOOLEAN,
           interrupted : BOOLEAN, timings : Seq(Nat)]

TypeOK ==
    /\ req \in Requests /\ resp \in Bodies
    /\ pc \in {"route", "sending", "streaming", "drained", "closed"}
    /\ reply \in [status : {0, 200, 400, 403, 404, 413, 502}, id : BOOLEAN]
    /\ upload \in {"none", "open", "closed"}
    /\ pulled \in Nat /\ forwarded \in Nat /\ produced \in Nat
    /\ shared \in Captures /\ capture \in Captures
    /\ live \in BOOLEAN
    /\ timings \in Seq(Nat)
    /\ records \in Seq(Events)

EmptyCapture ==
    [bytes |-> 0, total_bytes |-> 0, truncated |-> FALSE, limit_exceeded |-> FALSE,
     finished |-> FALSE, stream_ended |-> FALSE, expected_bytes |-> None]

Init ==
    /\ req \in Requests /\ resp \in Bodies
    /\ pc = "route" /\ reply = [status |-> 0, id |-> FALSE]
    /\ upload = "none" /\ pulled = 0 /\ forwarded = 0 /\ shared = EmptyCapture
    /\ live = FALSE /\ produced = 0 /\ capture = EmptyCapture /\ timings = <<>>
    /\ records = <<>>

-----------------------------------------------------------------------------
(* BodyCapture.                                                            *)

(* Mutant of push_body_capture: late chunks are buffered again. *)
push_body_capture_late(c, n, limit) ==
    LET room == IF c.bytes < limit THEN limit - c.bytes ELSE 0
        kept == IF n <= room THEN n ELSE room
    IN  [c EXCEPT !.total_bytes = @ + n, !.bytes = @ + kept,
                  !.truncated = @ \/ kept < n]

(* Keeps what fits of a chunk of n bytes, and nothing once finished. *)
push_body_capture(c, n, limit) ==
    LET room == IF c.bytes < limit THEN limit - c.bytes ELSE 0
        kept == IF n <= room THEN n ELSE room
    IN  IF c.finished
        THEN [c EXCEPT !.total_bytes = @ + n]
        ELSE [c EXCEPT !.total_bytes = @ + n, !.bytes = @ + kept,
                       !.truncated = @ \/ kept < n]

(* Mutant of push_request: the limit is checked before the chunk counts. *)
push_request_early(c, n, capture_limit, live_limit) ==
    [push_body_capture(c, n, capture_limit)
        EXCEPT !.limit_exceeded = @ \/ c.total_bytes > live_limit]

push_request(c, n, capture_limit, live_limit) ==
    LET d == push_body_capture(c, n, capture_limit)
    IN  [d EXCEPT !.limit_exceeded = @ \/ d.total_bytes > live_limit]

(* SharedBodyCapture::take, as seen by the streams that go on. *)
Taken(c) == [c EXCEPT !.finished = TRUE, !.bytes = 0]

(* Mutant of incomplete_request: only the capture limit counts. *)
incomplete_request_limit(c) == c.truncated

incomplete_request(c) ==
    c.truncated \/ (~c.stream_ended /\ c.expected_bytes # c.total_bytes)

-----------------------------------------------------------------------------
(* The handler, up to the upstream request.                                *)

Answer(status, id) == reply' = [status |-> status, id |-> id]

(* TraceEvent::base with what the caller set. *)
Event(status, error) ==
    [status |-> status, error |-> error,
     request_body |-> 0, request_body_bytes |-> 0, request_body_truncated |-> FALSE,
     response_body |-> 0, response_body_bytes |-> 0, response_body_truncated |-> FALSE,
     interrupted |-> FALSE, timings |-> <<>>]

(* An event with the request capture c in it. *)
WithRequest(e, c) ==
    [e EXCEPT !.request_body = c.bytes, !.request_body_bytes = c.total_bytes,
              !.request_body_truncated = incomplete_request(c)]

Record(e) == records' = Append(records, e)

RejectPath ==
    /\ pc = "route" /\ pc' = "closed"
    /\ \/ req.path = "ambiguous" /\ Answer(400, FALSE)
       \/ req.path = "unproxied" /\ Answer(404, FALSE)
    /\ UNCHANGED <<req, resp, uploadVars, downloadVars, records>>

(* resolve_upstream and enforce_upstream_policy *)
RejectUpstream ==
    /\ pc = "route" /\ pc' = "closed" /\ req.path = "proxied"
    /\ \/ req.target = "unresolvable" /\ Answer(400, FALSE)
       \/ req.target = "forbidden" /\ Answer(403, FALSE)
    /\ UNCHANGED <<req, resp, uploadVars, downloadVars, records>>

Admitted == pc = "route" /\ req.path = "proxied" /\ req.target = "allowed"

content_length_exceeds == req.body.declared /\ req.body.length > ReqLimit

(* Content-Length says that the body is too large: nothing is read. *)
RejectDeclared ==
    /\ Admitted /\ content_length_exceeds
    /\ pc' = "closed"
    /\ Answer(413, req.captured)
    /\ IF req.captured THEN Record(Event(413, "limit")) ELSE UNCHANGED records
    /\ UNCHANGED <<req, resp, uploadVars, downloadVars>>

(* RequestCaptureStream::new, and the request is on its way. *)
Forward ==
    /\ Admitted /\ ~content_length_exceeds
    /\ pc' = "sending" /\ upload' = "open"
    /\ shared' = [EmptyCapture EXCEPT
                    !.expected_bytes = IF req.body.declared THEN req.body.length ELSE None,
                    !.stream_ended = req.body.declared /\ req.body.length = 0]
    /\ UNCHANGED <<req, resp, reply, pulled, forwarded, downloadVars, records>>

-----------------------------------------------------------------------------
(* RequestCaptureStream::poll_next, called by the HTTP client.             *)

CaptureLimit == IF req.captured THEN ReqLimit ELSE 0

UploadOnly == UNCHANGED <<req, resp, pc, reply, downloadVars, records>>

(* A chunk; one that takes the body over the limit becomes an error, which *)
(* ends the upload, and is not forwarded.                                  *)
UploadChunk ==
    /\ upload = "open"
    /\ \E n \in 1 .. req.body.length - pulled :
          LET c == push_request(shared, n, CaptureLimit, ReqLimit)
          IN  /\ shared' = c /\ pulled' = pulled + n
              /\ IF c.limit_exceeded
                 THEN upload' = "closed" /\ UNCHANGED forwarded
                 ELSE forwarded' = forwarded + n /\ UNCHANGED upload
    /\ UploadOnly

(* The client's end of stream.  With a known length the HTTP client may    *)
(* never ask for it (UploadStops).                                         *)
UploadEnd ==
    /\ upload = "open" /\ pulled = req.body.length
    /\ upload' = "closed"
    /\ shared' = [shared EXCEPT !.stream_ended = TRUE]
    /\ UploadOnly /\ UNCHANGED <<pulled, forwarded>>

(* The client's side fails, or the HTTP client drops the stream. *)
UploadStops ==
    /\ upload = "open" /\ upload' = "closed"
    /\ UploadOnly /\ UNCHANGED <<pulled, forwarded, shared>>

-----------------------------------------------------------------------------
(* The upstream's answer.                                                  *)

(* Mutant of SendFails: the failure is not recorded. *)
SendFailsSilently ==
    /\ pc = "sending" /\ pc' = "closed" /\ upload' = "closed"
    /\ IF shared.limit_exceeded THEN Answer(413, req.captured) ELSE Answer(502, req.captured)
    /\ shared' = Taken(shared)
    /\ UNCHANGED <<req, resp, pulled, forwarded, downloadVars, records>>

(* send() returns an error: connection, timeout, or the upload's own. *)
SendFails ==
    /\ pc = "sending" /\ pc' = "closed" /\ upload' = "closed"
    /\ IF shared.limit_exceeded THEN Answer(413, req.captured) ELSE Answer(502, req.captured)
    /\ shared' = Taken(shared)
    /\ IF req.captured
       THEN Record(WithRequest(IF shared.limit_exceeded THEN Event(413, "limit")
                                                        ELSE Event(0, "send"), shared))
       ELSE UNCHANGED records
    /\ UNCHANGED <<req, resp, pulled, forwarded, downloadVars>>

(* send() returns the response headers, whatever the upload is doing.  A   *)
(* passed-through response is streamed without a capture.                  *)
Respond ==
    /\ pc = "sending" /\ pc' = "streaming"
    /\ Answer(200, req.captured)
    /\ live' = req.captured
    /\ capture' = [EmptyCapture EXCEPT
                     !.expected_bytes = IF resp.declared THEN resp.length ELSE None]
    /\ UNCHANGED <<req, resp, uploadVars, produced, timings, records>>

(* The client goes away before the headers: the handler is dropped, and    *)
(* with it the upload.                                                     *)
HandlerDropped ==
    /\ pc = "sending" /\ pc' = "closed" /\ upload' = "closed"
    /\ UNCHANGED <<req, resp, reply, pulled, forwarded, shared, downloadVars, records>>

-----------------------------------------------------------------------------
(* ResponseCaptureStream.                                                  *)

(* Mutant of Finish: the event is left in place. *)
FinishKeeps(error) ==
    IF live
    THEN /\ shared' = Taken(shared)
         /\ capture' = [capture EXCEPT !.bytes = 0]
         /\ Record([WithRequest(Event(200, error), shared) EXCEPT
                !.response_body = capture.bytes,
                !.response_body_bytes = capture.total_bytes, !.timings = timings,
                !.response_body_truncated = capture.truncated \/ error # "none",
                !.interrupted = error # "none"])
         /\ UNCHANGED live
    ELSE UNCHANGED <<live, shared, capture, records>>

(* ResponseCaptureStream::finish: records the event, the first time. *)
Finish(error) ==
    IF live
    THEN /\ live' = FALSE
         /\ shared' = Taken(shared)
         /\ capture' = [capture EXCEPT !.bytes = 0]
         /\ Record([WithRequest(Event(200, error), shared) EXCEPT
                !.response_body = capture.bytes,
                !.response_body_bytes = capture.total_bytes, !.timings = timings,
                !.response_body_truncated = capture.truncated \/ error # "none",
                !.interrupted = error # "none"])
    ELSE UNCHANGED <<live, shared, capture, records>>

DownloadOnly == UNCHANGED <<req, resp, reply, upload, pulled, forwarded>>

(* Mutant of DownloadChunk: the offset is taken before the chunk is added. *)
DownloadChunkStart ==
    /\ pc = "streaming"
    /\ \E n \in 1 .. resp.length - produced :
          LET c == push_body_capture(capture, n, RespLimit)
          IN  /\ produced' = produced + n
              /\ capture' = IF req.captured THEN c ELSE capture
              /\ timings' = IF live /\ Len(timings) < MaxTimings
                            THEN Append(timings, capture.bytes) ELSE timings
    /\ DownloadOnly /\ UNCHANGED <<pc, live, shared, records>>

(* A chunk goes to the client; a capture that is full or finished lets it  *)
(* pass.                                                                   *)
DownloadChunk ==
    /\ pc = "streaming"
    /\ \E n \in 1 .. resp.length - produced :
          LET c == push_body_capture(capture, n, RespLimit)
          IN  /\ produced' = produced + n
              /\ capture' = IF req.captured THEN c ELSE capture
              /\ timings' = IF live /\ Len(timings) < MaxTimings
                            THEN Append(timings, c.bytes) ELSE timings
    /\ DownloadOnly /\ UNCHANGED <<pc, live, shared, records>>

(* The upstream's end of stream; the server will not poll again. *)
DownloadEnd ==
    /\ pc = "streaming" /\ produced = resp.length /\ pc' = "drained"
    /\ Finish("none")
    /\ DownloadOnly /\ UNCHANGED <<produced, timings>>

(* The upstream fails or times out. *)
DownloadFails ==
    /\ pc = "streaming" /\ pc' = "drained"
    /\ Finish("stream")
    /\ DownloadOnly /\ UNCHANGED <<produced, timings>>

(* Drop: the client goes away, the server has all the bytes it wants, or   *)
(* the stream came to its end before.                                      *)
DownloadDropped ==
    /\ pc \in {"streaming", "drained"} /\ pc' = "closed"
    /\ Finish(IF capture.expected_bytes = capture.total_bytes THEN "none" ELSE "dropped")
    /\ DownloadOnly /\ UNCHANGED <<produced, timings>>

Next ==
    \/ RejectPath \/ RejectUpstream \/ RejectDeclared \/ Forward
    \/ UploadChunk \/ UploadEnd \/ UploadStops
    \/ SendFails \/ Respond \/ HandlerDropped
    \/ DownloadChunk \/ DownloadEnd \/ DownloadFails \/ DownloadDropped

Spec == Init /\ [][Next]_vars

-----------------------------------------------------------------------------
(* Safety.                                                                 *)

(* A request is recorded at most once, although the end of the stream, its *)
(* error and its drop all record; and only if the policy captures it.      *)
RecordedOnce == Len(records) <= (IF req.captured THEN 1 ELSE 0)

(* README: outcomes that are persisted carry x-llmtrace-trace-id, and "set *)
(* up failures that are not persisted do not claim a trace ID": an id the  *)
(* client has seen is recorded, or will be when the open stream is dropped.*)
TraceIdIsRecorded == reply.id <=> records # <<>> \/ live

(* One record for every trace id a client was given, and none otherwise. *)
OneRecordPerId == RecordedOnce /\ TraceIdIsRecorded

(* "Live upload limits still apply": the upstream never receives more than *)
(* the limit, however the body is split and whoever answers first.         *)
UploadWithinLimit == forwarded <= ReqLimit

(* Once the event has been recorded, the rest of the upload is counted but *)
(* not buffered; supporting APIs are streamed "without body copies".       *)
NothingRetained ==
    /\ records # <<>> => shared.bytes = 0 /\ capture.bytes = 0
    /\ ~req.captured => shared.bytes = 0 /\ capture.bytes = 0

(* docs/durable-capture.md: a body that is not marked as incomplete was    *)
(* observed and kept entirely, and an event without an error stands for a  *)
(* response that came to its end.  Of a request refused for its declared   *)
(* length nothing was read, and its event is not marked.                   *)
CompleteMeansWhole ==
    \A k \in DOMAIN records :
        LET e == records[k]
        IN  /\ upload # "none" /\ ~e.request_body_truncated
                  => e.request_body = req.body.length /\ e.request_body_bytes = req.body.length
            /\ e.status = 200 /\ ~e.response_body_truncated
                  => e.response_body = resp.length /\ e.response_body_bytes = resp.length
            /\ e.error = "none" => produced = resp.length

(* Chunk timings are offsets into the stored body in the order of the      *)
(* chunks, and until their limit the last one is the end of the body: what *)
(* the time to the first token is computed from.                           *)
TimingsCoverBody ==
    \A k \in DOMAIN records :
        LET e == records[k]
            n == Len(e.timings)
        IN  /\ \A i \in 1 .. n : e.timings[i] <= e.response_body
            /\ \A i \in 1 .. n - 1 : e.timings[i] <= e.timings[i + 1]
            /\ n < MaxTimings =>
                  (IF n = 0 THEN 0 ELSE e.timings[n]) = e.response_body

(* What was forwarded stays within the limit, and what was recorded of     *)
(* both bodies is whole or marked, timings included.                       *)
BodiesAreAccounted == UploadWithinLimit /\ CompleteMeansWhole /\ TimingsCoverBody
=============================================================================
