---------------------------- MODULE SessionExport ----------------------------
(***************************************************************************)
(* The export of a session (api.rs, export_session_jsonl;                  *)
(* storage/session_export.rs; storage/bodies.rs) while the store that      *)
(* TraceStore describes goes on changing.                                  *)
(*                                                                         *)
(* The export reads in one REPEATABLE READ transaction, so that all it     *)
(* learns from Postgres is of the moment of its first statement; the files *)
(* of segments are read when their turn comes.  A writer task sends lines  *)
(* through a channel of one place to the response of the client, and ends  *)
(* early when an error or its time limit stops it or the client is gone.   *)
(***************************************************************************)
EXTENDS TraceStore

CONSTANTS
    BodyOf  \* [Traces -> [Directions -> Bodies]], what is stored of a body

Directions == {"request", "response"}

(* Whether there is an archive record, and a complete one; the compressed  *)
(* bytes older versions kept in the row; what passed through the proxy.    *)
Bodies == [record : {"none", "complete", "partial"}, inline : {"empty", "good", "damaged"},
           observed : {0, 1}, truncated : BOOLEAN]

ASSUME ExportAssumption == BodyOf \in [Traces -> [Directions -> Bodies]]

VARIABLE export

(* The step of the writer, the session, what its snapshot holds (backend   *)
(* stands for segment rows and blobs), the cursor, the line it is sending, *)
(* the channel, what the client has received, and the counts.              *)
NoExport == [pc |-> "idle", id |-> 0, rows |-> {}, backend |-> << >>, expected |-> 0, cursor |-> 0,
             hand |-> << >>, channel |-> << >>, client |-> << >>,
             requests |-> 0, truncated |-> 0, unavailable |-> 0]

ExportInit == Init /\ export = NoExport

ExportOnly == UNCHANGED vars

-----------------------------------------------------------------------------
(* load_trace_bodies, decode_segment and decode_bodies.                    *)

DecodeSegment(s) ==
    \/ export.backend[s] = "filesystem" /\ s \in files
    \/ export.backend[s] = "postgres"

DecodeBody(t, d) ==
    LET b == BodyOf[t][d]
        status ==
            CASE b.record # "none" -> IF DecodeSegment(SegOf[t]) THEN "available" ELSE "unreadable"
              [] b.record = "none" /\ b.inline = "empty" -> IF b.observed = 0 THEN "available" ELSE "missing"
              [] b.record = "none" /\ b.inline = "good" -> "available"
              [] b.record = "none" /\ b.inline = "damaged" -> "unreadable"
    IN  [status |-> status, truncated |-> b.truncated \/ b.record = "partial"]

LoadTraceBodies(t) == [d \in Directions |-> DecodeBody(t, d)]

-----------------------------------------------------------------------------
(* SessionExport::prepare: a session that is not there is not exported.    *)
Prepare(k) ==
    LET mine == {t \in rows : tsess[t] = session[k]}
    IN  /\ export.pc = "idle" /\ session[k] # 0
        /\ export' = [NoExport EXCEPT !.pc = "send", !.id = session[k], !.rows = mine,
                          !.backend = backend, !.expected = Cardinality(mine),
                          !.hand = <<[type |-> "session", count |-> Cardinality(mine)]>>]
        /\ ExportOnly

(* sender.send waits for room in the channel; after the end record the     *)
(* writer is done.                                                         *)
Send ==
    /\ export.pc = "send" /\ export.channel = << >>
    /\ export' = [export EXCEPT !.channel = @ \o export.hand, !.hand = << >>,
                      !.pc = IF Head(export.hand).type = "end" THEN "done" ELSE "row"]
    /\ ExportOnly

(* Mutant of After: the cursor is a time only. *)
AfterTime(t) == export.cursor = 0 \/ At[export.cursor] < At[t]

(* (started_at, id) > cursor *)
After(t) == export.cursor = 0 \/ Before(export.cursor, t)

(* Mutant of NextRow: every statement sees what is committed by then. *)
NextRowFresh == {t \in rows : /\ tsess[t] = export.id /\ After(t)
                              /\ \A u \in rows : tsess[u] = export.id /\ After(u) => ~Before(u, t)}

(* ORDER BY started_at, id LIMIT 1 *)
NextRow == {t \in export.rows : After(t) /\ \A u \in export.rows : After(u) => ~Before(u, t)}

TruncatedBodies(bodies) == Cardinality({d \in Directions : bodies[d].truncated})
UnavailableBodies(bodies) == Cardinality({d \in Directions : bodies[d].status # "available"})

(* One turn of the loop of SessionExport::write up to its send. *)
WriteRow ==
    /\ export.pc = "row"
    /\ \E t \in NextRow :
          LET bodies == LoadTraceBodies(t)
          IN  export' = [export EXCEPT !.pc = "send", !.cursor = t, !.requests = @ + 1,
                  !.truncated = @ + TruncatedBodies(bodies),
                  !.unavailable = @ + UnavailableBodies(bodies),
                  !.hand = <<[type |-> "request", id |-> t, bodies |-> bodies]>>]
    /\ ExportOnly

(* After the last row: the counts must agree and the transaction commit.   *)
WriteEnd ==
    /\ export.pc = "row" /\ NextRow = {} /\ export.requests = export.expected
    /\ export' = [export EXCEPT !.pc = "send",
           !.hand = <<[type |-> "end", count |-> export.requests, truncated |-> export.truncated,
                       unavailable |-> export.unavailable,
                       complete |-> export.truncated = 0 /\ export.unavailable = 0]>>]
    /\ ExportOnly

(* Mutant of ExportStops: the channel is closed by an end record. *)
ExportStopsWithEnd ==
    /\ export.pc \in {"send", "row"}
    /\ export' = [export EXCEPT !.pc = "done", !.hand = << >>,
           !.channel = IF @ # << >> THEN @
                       ELSE <<[type |-> "end", count |-> export.requests, truncated |-> export.truncated,
                               unavailable |-> export.unavailable,
                               complete |-> export.truncated = 0 /\ export.unavailable = 0]>>]
    /\ ExportOnly

(* An error or the time limit: the error frame is sent if there is room. *)
ExportStops ==
    /\ export.pc \in {"send", "row"}
    /\ export' = [export EXCEPT !.pc = "done", !.hand = << >>,
                      !.channel = IF @ # << >> THEN @ ELSE <<[type |-> "error"]>>]
    /\ ExportOnly

(* The client reads, or closes its connection, which stops the writer. *)
ClientReads ==
    /\ export.channel # << >>
    /\ export' = [export EXCEPT !.channel = << >>, !.client = @ \o export.channel]
    /\ ExportOnly
ClientLeaves ==
    /\ export.pc \in {"send", "row"}
    /\ export' = [export EXCEPT !.pc = "done", !.hand = << >>, !.channel = << >>]
    /\ ExportOnly

ExportStep ==
    \/ \E k \in Keys : Prepare(k)
    \/ Send \/ WriteRow \/ WriteEnd \/ ExportStops \/ ClientReads \/ ClientLeaves

ExportNext == ExportStep \/ (Next /\ UNCHANGED export)

ExportSpec == ExportInit /\ [][ExportNext]_<<vars, export>>

-----------------------------------------------------------------------------
Whole(bodies) == \A d \in Directions : bodies[d].status = "available" /\ ~bodies[d].truncated

(* Line i of an export: the header, or trace number i - 1 of the session,  *)
(* or how it ended.                                                        *)
FaithfulLine(got, i) ==
    LET line == got[i]
    IN  /\ i = 1 => line \in {[type |-> "session", count |-> Cardinality(export.rows)], [type |-> "error"]}
        /\ i > 1 /\ i < Len(got) => line.type = "request"
        /\ line.type = "request" =>
              /\ line.id \in export.rows
              /\ Cardinality({t \in export.rows : Before(t, line.id)}) = i - 2
              /\ line.id \in rows => \A d \in Directions :
                    line.bodies[d].status = "unreadable" => BodyOf[line.id][d].record = "none"
        /\ line.type = "end" =>
              /\ i = Cardinality(export.rows) + 2 /\ line.count = Cardinality(export.rows)
              /\ line.complete <=> \A j \in 2 .. i - 1 : Whole(got[j].bodies)

(* What a client has received of an export (session_export.rs, write), at  *)
(* any time, is the beginning of what the session held when it was asked   *)
(* for: a header, then every trace once and in order, though traces are    *)
(* added and deleted meanwhile.  A body that was archived is there, unless *)
(* its trace has been deleted since.  Only a client that has all of it     *)
(* gets an end record, which counts the bodies that are missing or cut:    *)
(* "Consumers must require this final record".                             *)
ExportIsFaithful == \A i \in DOMAIN export.client : FaithfulLine(export.client, i)
=============================================================================
