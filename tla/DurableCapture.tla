---------------------------- MODULE DurableCapture ----------------------------
(***************************************************************************)
(* The durable capture pipeline: TraceRecorder::record (trace.rs), the     *)
(* journal writer, the replay workers and the receipt cleaner of           *)
(* trace/durable.rs over the journal of Journal.tla, and the transaction   *)
(* of storage/ingest.rs that stores a capture together with its receipt.   *)
(*                                                                         *)
(* Concurrency: the writer appends one capture at a time; up to Workers    *)
(* replay tasks each hold a claim on one record; the cleaner selects and   *)
(* deletes receipts; retention deletes traces; the process may crash, lose *)
(* power, be asked to stop or be cut off by the drain timeout at any step, *)
(* and is then started again.  Postgres survives all of that, and a COMMIT *)
(* whose connection was lost may still take effect later (tx "orphan").    *)
(*                                                                         *)
(* Bounds: faults counts injected I/O and database failures and damaged    *)
(* records (MaxFaults), stops counts crashes and shutdowns (MaxStops).     *)
(***************************************************************************)
EXTENDS Journal

CONSTANTS
    IntakeMem,    \* IntakeMem[i]: event_bytes of the queued event
    ReplayMem,    \* ReplayMem[i]: Entry.memory, reserved while replaying
    MemLimit,     \* MemoryBudget.limit (trace_queue_max_bytes)
    QueueCap,     \* trace_queue_capacity
    Workers,      \* trace_worker_count
    PageSize,     \* receipts per cleanup page, 4096 in the code
    DamageKinds,  \* what the storage may do to a record
    MaxFaults, MaxStops

ASSUME PipelineAssumption ==
    /\ IntakeMem \in [Ids -> Nat] /\ ReplayMem \in [Ids -> Nat]
    /\ MemLimit \in Nat \ {0} /\ QueueCap \in Nat \ {0}
    /\ Workers \in Nat \ {0} /\ PageSize \in Nat \ {0}
    /\ DamageKinds \subseteq {"badbody", "badhead", "short"}
    /\ MaxFaults \in Nat /\ MaxStops \in Nat

VARIABLES
    mode,      \* life of the process, see Modes
    outcome,   \* [Ids -> Outcomes], which metric counted the capture
    queue,     \* the mpsc channel from record to the writer
    used,      \* MemoryBudget.used
    wpc, wid,  \* the writer: its next step, and the capture it appends
    wres,      \* what the finished append will be counted as
    claims,    \* [Ids -> Phases], the replay task of a record
    receipts,  \* committed rows of trace_ingest_receipts
    traces,    \* committed rows of request_traces
    tx,        \* [Ids -> TxStates], the ingest transaction of a capture
    commits,   \* [Ids -> Nat], ingest transactions committed (history)
    page,      \* receipts the cleaner has selected and not yet looked at
    doomed,    \* receipts the cleaner is about to delete
    cursor,    \* clean_receipts' cursor, 0 is Uuid::nil
    next,      \* the cursor if the delete succeeds
    faults, stops

intakeVars == <<outcome, queue, used>>
writerVars == <<wpc, wid, wres>>
dbVars == <<receipts, traces, tx, commits>>
cleanVars == <<page, doomed, cursor, next>>
vars == <<diskVars, catalogVars, mode, intakeVars, writerVars, claims,
          dbVars, cleanVars, faults, stops>>

(* down: not running; opening: Journal::open; up: serving; closing: the    *)
(* servers stopped, streams that still hold a recorder may finish; done:   *)
(* every recorder is dropped and the writer ended; exited: clean end;      *)
(* aborted: drain timed out and the pipeline task was aborted.             *)
Modes == {"down", "opening", "up", "closing", "done", "exited", "aborted"}
Running == {"up", "closing", "done"}

Outcomes == {"none", "enqueued", "dropped_memory", "dropped_full",
             "dropped_closed", "written", "journal_full", "write_failed"}
Phases == {"none", "check", "read", "insert", "commit", "ack", "acksync",
           "quarantine", "quarsync"}
WriterSteps == {"recv", "reserve", "write", "rename", "sync",
                "quarantine", "quarsync", "release"}
TxStates == {"none", "open", "orphan"}

Claimed == {i \in Ids : claims[i] # "none"}

TypeOK ==
    /\ JournalTypeOK
    /\ mode \in Modes
    /\ outcome \in [Ids -> Outcomes]
    /\ queue \in Seq(Ids)
    /\ used \in Int
    /\ wpc \in WriterSteps
    /\ wid \in Ids \cup {0}
    /\ wres \in {"none", "written", "journal_full", "write_failed"}
    /\ claims \in [Ids -> Phases]
    /\ receipts \subseteq Ids /\ traces \subseteq Ids
    /\ tx \in [Ids -> TxStates]
    /\ commits \in [Ids -> Nat]
    /\ page \subseteq Ids /\ doomed \subseteq Ids
    /\ cursor \in Ids \cup {0} /\ next \in Ids \cup {0}
    /\ faults \in Nat /\ stops \in Nat

IdleProcess ==
    /\ queue = <<>> /\ used = 0
    /\ wpc = "recv" /\ wid = 0 /\ wres = "none"
    /\ claims = [i \in Ids |-> "none"]
    /\ page = {} /\ doomed = {} /\ cursor = 0 /\ next = 0

Init ==
    /\ JournalInit
    /\ mode = "down"
    /\ outcome = [i \in Ids |-> "none"]
    /\ IdleProcess
    /\ receipts = {} /\ traces = {}
    /\ tx = [i \in Ids |-> "none"]
    /\ commits = [i \in Ids |-> 0]
    /\ faults = 0 /\ stops = 0

Fault == faults < MaxFaults /\ faults' = faults + 1
NoFault == UNCHANGED faults

-----------------------------------------------------------------------------
(* TraceRecorder::record, on the proxy path: it never waits.  Live streams *)
(* keep their recorder after the servers close, and even after the         *)
(* pipeline has been aborted.                                              *)

Record(i) ==
    /\ outcome[i] = "none"
    /\ mode \in {"up", "closing", "aborted"}
    /\ IF used + IntakeMem[i] > MemLimit
       THEN /\ outcome' = [outcome EXCEPT ![i] = "dropped_memory"]
            /\ UNCHANGED <<queue, used>>
       ELSE IF mode = "aborted"
       THEN /\ outcome' = [outcome EXCEPT ![i] = "dropped_closed"]
            /\ UNCHANGED <<queue, used>>
       ELSE IF Len(queue) >= QueueCap
       THEN /\ outcome' = [outcome EXCEPT ![i] = "dropped_full"]
            /\ UNCHANGED <<queue, used>>
       ELSE /\ outcome' = [outcome EXCEPT ![i] = "enqueued"]
            /\ queue' = Append(queue, i)
            /\ used' = used + IntakeMem[i]
    /\ NoFault
    /\ UNCHANGED <<diskVars, catalogVars, mode, writerVars, claims,
                   dbVars, cleanVars, stops>>

-----------------------------------------------------------------------------
(* The journal writer: the loop of durable::run around Journal::append.    *)

WriterOnly == UNCHANGED <<mode, outcome, used, claims, dbVars, cleanVars, stops>>

WriterRecv ==
    /\ mode \in {"up", "closing"} /\ wpc = "recv" /\ queue # <<>>
    /\ wid' = Head(queue) /\ queue' = Tail(queue)
    /\ wpc' = "reserve" /\ UNCHANGED wres
    /\ NoFault /\ WriterOnly /\ UNCHANGED <<diskVars, catalogVars>>

(* The append ends without a record. *)
GiveUp(result) == wpc' = "release" /\ wres' = result /\ UNCHANGED <<queue, wid>>

(* The first error leaves the journal alone: metadata over its limit,      *)
(* which is up to the event and may happen to any, or a duplicate id.      *)
WriterReserve ==
    /\ wpc = "reserve"
    /\ \/ GiveUp("write_failed") /\ UNCHANGED <<diskVars, catalogVars>>
       \/ /\ ~Duplicate(wid) /\ Full(wid)
          /\ GiveUp("journal_full") /\ UNCHANGED <<diskVars, catalogVars>>
       \/ /\ AppendReserve(wid)
          /\ wpc' = "write" /\ UNCHANGED <<queue, wid, wres>>
    /\ NoFault /\ WriterOnly

(* One step of the append's closure; an error goes on to quarantine. *)
WriterStep(from, to, Step, Failure) ==
    /\ wpc = from
    /\ \/ Step /\ wpc' = to /\ NoFault
       \/ Failure /\ wpc' = "quarantine" /\ Fault
    /\ UNCHANGED <<queue, wid, wres, catalogVars>> /\ WriterOnly

WriterWrite ==
    WriterStep("write", "rename", AppendWrite(wid), AppendWriteFails(wid))

WriterRename ==
    WriterStep("rename", "sync", AppendRename(wid), UNCHANGED diskVars)

WriterSync ==
    /\ wpc = "sync"
    /\ \/ AppendPublish(wid) /\ GiveUp("written") /\ NoFault
       \/ /\ wpc' = "quarantine" /\ Fault
          /\ UNCHANGED <<diskVars, catalogVars, queue, wid, wres>>
    /\ WriterOnly

(* Journal::quarantine after a failed append.  If it fails too, its error  *)
(* replaces the first one and the entry stays in the catalog, unqueued.    *)
WriterQuarantine ==
    /\ wpc = "quarantine"
    /\ \/ /\ QuarantineRename(wid) /\ wpc' = "quarsync" /\ NoFault
          /\ UNCHANGED <<queue, wid, wres>>
       \/ Fault /\ GiveUp("write_failed") /\ UNCHANGED diskVars
    /\ WriterOnly /\ UNCHANGED catalogVars

WriterQuarSync ==
    /\ wpc = "quarsync"
    /\ \/ QuarantineSync(wid) /\ NoFault
       \/ Fault /\ UNCHANGED <<diskVars, catalogVars>>
    /\ GiveUp("write_failed") /\ WriterOnly

(* drop(queued.reservation), and the counter of the append's result. *)
WriterRelease ==
    /\ wpc = "release"
    /\ used' = used - IntakeMem[wid]
    /\ outcome' = [outcome EXCEPT ![wid] = wres]
    /\ wpc' = "recv" /\ wid' = 0 /\ wres' = "none"
    /\ NoFault
    /\ UNCHANGED <<diskVars, catalogVars, mode, queue, claims, dbVars,
                   cleanVars, stops>>

-----------------------------------------------------------------------------
(* Replay: durable::replay claims records, durable::process_inner runs     *)
(* each.  WorkerOnly is what no step of a replay task touches.             *)

WorkerOnly == UNCHANGED <<mode, outcome, queue, writerVars, cleanVars, stops>>

Fits == {i \in Ids : used + ReplayMem[i] <= MemLimit}

ClaimRecord ==
    /\ mode \in Running
    /\ Cardinality(Claimed) < Workers
    /\ \E k \in 1 .. Len(ready) :
          /\ ClaimAt(k, Fits)
          /\ IF ready[k] \in entries
             THEN /\ claims' = [claims EXCEPT ![ready[k]] = "check"]
                  /\ used' = used + ReplayMem[ready[k]]
             ELSE UNCHANGED <<claims, used>>
    /\ NoFault /\ WorkerOnly /\ UNCHANGED <<diskVars, dbVars>>

(* The task moves on. *)
Goto(i, phase) ==
    /\ claims' = [claims EXCEPT ![i] = phase]
    /\ NoFault /\ UNCHANGED <<used, catalogVars>>

(* Mutant of EndTask: the reservation is not released. *)
EndTaskLeaks(i) ==
    /\ claims' = [claims EXCEPT ![i] = "none"]
    /\ UNCHANGED used

(* The task ends: its claim is dropped, which requeues the record if it is *)
(* still in the catalog and frees its memory.                              *)
EndTask(i) ==
    /\ claims' = [claims EXCEPT ![i] = "none"]
    /\ used' = used - ReplayMem[i]

(* An error of process_inner: the record is retained for retry. *)
Fail(i) == EndTask(i) /\ Retry(i)

(* storage::journal_trace_persisted *)
CheckReceipt(i) ==
    /\ claims[i] = "check"
    /\ \/ Goto(i, IF i \in receipts THEN "ack" ELSE "read")
       \/ Fail(i) /\ Fault
    /\ WorkerOnly /\ UNCHANGED <<diskVars, dbVars>>

(* Journal::read and build_priced_trace.  Only an error that is not an I/O *)
(* error condemns the record.                                              *)
ReadRecord(i) ==
    /\ claims[i] = "read"
    /\ \/ ReadOK(i) /\ Goto(i, "insert")
       \/ ReadInvalid(i) /\ Goto(i, "quarantine")
       \/ ReadIoError(i) /\ Fail(i) /\ NoFault
       \/ Fail(i) /\ Fault
    /\ WorkerOnly /\ UNCHANGED <<diskVars, dbVars>>

(* Mutant of BeginInsert: an existing receipt is overwritten. *)
BeginInsertUpserts(i) ==
    /\ claims[i] = "insert" /\ tx[i] = "none"
    /\ \/ /\ i \notin traces
          /\ Goto(i, "commit")
          /\ tx' = [tx EXCEPT ![i] = "open"]
       \/ /\ Fail(i)
          /\ IF i \in traces THEN NoFault ELSE Fault
          /\ UNCHANGED tx
    /\ WorkerOnly /\ UNCHANGED <<diskVars, receipts, traces, commits>>

(* insert_journaled_trace up to its COMMIT.  The receipt comes first: a    *)
(* receipt that exists ends the transaction at once, and one that another  *)
(* open transaction holds is waited for.  A trace row without a receipt    *)
(* violates the primary key of request_traces.                             *)
BeginInsert(i) ==
    /\ claims[i] = "insert" /\ tx[i] = "none"
    /\ \/ /\ i \in receipts
          /\ Goto(i, "ack") /\ UNCHANGED tx
       \/ /\ i \notin receipts /\ i \notin traces
          /\ Goto(i, "commit")
          /\ tx' = [tx EXCEPT ![i] = "open"]
       \/ /\ Fail(i)
          /\ IF i \in traces \ receipts THEN NoFault ELSE Fault
          /\ UNCHANGED tx
    /\ WorkerOnly /\ UNCHANGED <<diskVars, receipts, traces, commits>>

(* The transaction takes effect: receipt, trace and everything with it. *)
Committed(i) ==
    /\ tx' = [tx EXCEPT ![i] = "none"]
    /\ receipts' = receipts \cup {i}
    /\ traces' = traces \cup {i}
    /\ commits' = [commits EXCEPT ![i] = @ + 1]

(* Mutant of CommitInsert: a lost COMMIT is taken for a success. *)
CommitAssumed(i) ==
    /\ claims[i] = "commit"
    /\ \/ Committed(i) /\ Goto(i, "ack")
       \/ /\ claims' = [claims EXCEPT ![i] = "ack"]
          /\ UNCHANGED <<used, catalogVars>> /\ Fault
          /\ tx' = [tx EXCEPT ![i] = "orphan"]
          /\ UNCHANGED <<receipts, traces, commits>>
    /\ WorkerOnly /\ UNCHANGED diskVars

(* COMMIT: it succeeds, it fails and rolls back, or the connection is lost *)
(* and its fate is open.                                                   *)
CommitInsert(i) ==
    /\ claims[i] = "commit"
    /\ \/ Committed(i) /\ Goto(i, "ack")
       \/ /\ Fail(i) /\ Fault
          /\ \E t \in {"none", "orphan"} : tx' = [tx EXCEPT ![i] = t]
          /\ UNCHANGED <<receipts, traces, commits>>
    /\ WorkerOnly /\ UNCHANGED diskVars

AcknowledgeRemove(i) ==
    /\ claims[i] = "ack"
    /\ \/ AckRemove(i) /\ Goto(i, "acksync")
       \/ Fail(i) /\ Fault /\ UNCHANGED diskVars
    /\ WorkerOnly /\ UNCHANGED dbVars

AcknowledgeSync(i) ==
    /\ claims[i] = "acksync"
    /\ \/ AckSync(i) /\ EndTask(i) /\ NoFault
       \/ Fail(i) /\ Fault /\ UNCHANGED diskVars
    /\ WorkerOnly /\ UNCHANGED dbVars

(* Journal::quarantine of a record that does not verify. *)
QuarantineRecord(i) ==
    /\ claims[i] = "quarantine"
    /\ \/ QuarantineRename(i) /\ Goto(i, "quarsync")
       \/ Fail(i) /\ Fault /\ UNCHANGED diskVars
    /\ WorkerOnly /\ UNCHANGED dbVars

QuarantineDone(i) ==
    /\ claims[i] = "quarsync"
    /\ \/ QuarantineSync(i) /\ EndTask(i) /\ NoFault
       \/ Fail(i) /\ Fault /\ UNCHANGED diskVars
    /\ WorkerOnly /\ UNCHANGED dbVars

ReplayStep(i) ==
    \/ CheckReceipt(i) \/ ReadRecord(i) \/ BeginInsert(i) \/ CommitInsert(i)
    \/ AcknowledgeRemove(i) \/ AcknowledgeSync(i)
    \/ QuarantineRecord(i) \/ QuarantineDone(i)

(* The retry interval of a record passes. *)
RetryDue(i) ==
    /\ mode \in Running
    /\ BecomeDue(i)
    /\ NoFault /\ WorkerOnly /\ UNCHANGED <<diskVars, dbVars, claims, used>>

-----------------------------------------------------------------------------
(* Postgres, other instances and the storage device.                       *)

Elsewhere == UNCHANGED <<catalogVars, mode, intakeVars, writerVars, claims,
                         cleanVars, stops>>

(* A COMMIT whose connection was lost is decided by the server. *)
OrphanDecided(i) ==
    /\ tx[i] = "orphan"
    /\ \/ Committed(i)
       \/ tx' = [tx EXCEPT ![i] = "none"] /\ UNCHANGED <<receipts, traces, commits>>
    /\ NoFault /\ Elsewhere /\ UNCHANGED diskVars

(* Retention or rotation deletes a trace; receipts are not its business. *)
RotateTrace(i) ==
    /\ i \in traces
    /\ traces' = traces \ {i}
    /\ NoFault /\ Elsewhere /\ UNCHANGED <<diskVars, receipts, tx, commits>>

Corrupt(i) ==
    /\ \E kind \in DamageKinds : Damage(i, kind)
    /\ Fault /\ Elsewhere /\ UNCHANGED dbVars

-----------------------------------------------------------------------------
(* durable::clean_receipts: one page per tick, until shutdown.             *)

CleanOnly == UNCHANGED <<diskVars, catalogVars, mode, intakeVars, writerVars,
                         claims, traces, tx, commits, stops>>

(* Receipts of this journal after the cursor, at most PageSize of them. *)
ReceiptPage ==
    LET after == {i \in receipts : i > cursor}
    IN  {i \in after : Cardinality({j \in after : j < i}) < PageSize}

(* Mutant of NextCursor: the cursor never returns to the start. *)
CursorNeverWraps(last) == IF ReceiptPage = {} THEN cursor ELSE last

(* A full page is followed by the next, a short one by the first. *)
NextCursor(last) == IF Cardinality(ReceiptPage) = PageSize THEN last ELSE 0

(* The SELECT.  What it returns is held across the journal's own progress. *)
CleanSelect ==
    /\ mode \in {"up", "closing"} /\ page = {} /\ doomed = {}
    /\ \/ ReceiptPage = {} /\ cursor' = NextCursor(0) /\ UNCHANGED <<page, next>>
       \/ /\ page' = ReceiptPage
          /\ \E last \in ReceiptPage : /\ \A i \in ReceiptPage : i <= last
                                      /\ next' = NextCursor(last)
          /\ UNCHANGED cursor
    /\ NoFault /\ CleanOnly /\ UNCHANGED <<receipts, doomed>>

(* Of the page, the receipts whose capture the journal no longer holds. *)
CleanFilter ==
    /\ page # {} /\ page' = {}
    /\ doomed' = {i \in page : receipt_can_be_removed(i)}
    /\ \/ doomed' = {} /\ cursor' = next /\ next' = 0
       \/ doomed' # {} /\ UNCHANGED <<cursor, next>>
    /\ NoFault /\ CleanOnly /\ UNCHANGED receipts

CleanDelete ==
    /\ doomed # {}
    /\ \/ receipts' = receipts \ doomed /\ cursor' = next /\ NoFault
       \/ UNCHANGED <<receipts, cursor>> /\ Fault
    /\ doomed' = {} /\ next' = 0
    /\ CleanOnly /\ UNCHANGED page

-----------------------------------------------------------------------------
(* Start, shutdown and failure of the process.                             *)

StartOnly == UNCHANGED <<intakeVars, writerVars, claims, dbVars, cleanVars,
                         faults, stops>>

OpenJournal ==
    /\ mode \in {"down", "exited"} /\ mode' = "opening"
    /\ OpenScan /\ StartOnly

Serve ==
    /\ mode = "opening" /\ mode' = "up"
    /\ OpenSync /\ StartOnly

(* SIGTERM: the servers stop.  The channel closes when the last recorder   *)
(* is gone, and the writer tells replay and cleaner that it has finished.  *)
BeginShutdown ==
    /\ mode = "up" /\ mode' = "closing"
    /\ stops < MaxStops /\ stops' = stops + 1
    /\ UNCHANGED <<diskVars, catalogVars, intakeVars, writerVars, claims,
                   dbVars, cleanVars, faults>>

WriterFinished ==
    /\ mode = "closing" /\ queue = <<>> /\ wpc = "recv"
    /\ mode' = "done"
    /\ StartOnly /\ UNCHANGED <<diskVars, catalogVars>>

(* What ends with the process; its open transactions are the server's. *)
LoseProcess ==
    /\ ForgetCatalog
    /\ queue' = <<>> /\ used' = 0
    /\ wpc' = "recv" /\ wid' = 0 /\ wres' = "none"
    /\ claims' = [i \in Ids |-> "none"]
    /\ page' = {} /\ doomed' = {} /\ cursor' = 0 /\ next' = 0
    /\ tx' = [i \in Ids |-> IF tx[i] = "open" THEN "orphan" ELSE tx[i]]
    /\ UNCHANGED <<outcome, receipts, traces, commits, faults>>

(* Mutant of ExitClean: replay waits for its workers only. *)
ExitWithPending ==
    /\ mode = "done" /\ Claimed = {} /\ page = {} /\ doomed = {}
    /\ mode' = "exited"
    /\ LoseProcess /\ UNCHANGED <<diskVars, stops>>

(* Replay leaves its loop only when nothing is pending. *)
ExitClean ==
    /\ mode = "done" /\ entries = {} /\ Claimed = {} /\ page = {} /\ doomed = {}
    /\ mode' = "exited"
    /\ LoseProcess /\ UNCHANGED <<diskVars, stops>>

(* TracePipeline::drain gives up after ten seconds.  A blocking file       *)
(* operation may outlive the abort; its steps then commute to before it.   *)
DrainTimeout ==
    /\ mode \in {"closing", "done"} /\ mode' = "aborted"
    /\ LoseProcess /\ UNCHANGED <<diskVars, stops>>

ExitAborted ==
    /\ mode = "aborted" /\ mode' = "down"
    /\ StartOnly /\ UNCHANGED <<diskVars, catalogVars>>

Crash ==
    /\ mode \in Running \cup {"opening"} /\ mode' = "down"
    /\ stops < MaxStops /\ stops' = stops + 1
    /\ LoseProcess
    /\ LosePower \/ UNCHANGED diskVars

Next ==
    \/ \E i \in Ids :
          \/ Record(i) \/ ReplayStep(i) \/ RetryDue(i)
          \/ OrphanDecided(i) \/ RotateTrace(i) \/ Corrupt(i)
    \/ WriterRecv \/ WriterReserve \/ WriterWrite \/ WriterRename
    \/ WriterSync \/ WriterQuarantine \/ WriterQuarSync \/ WriterRelease
    \/ ClaimRecord \/ CleanSelect \/ CleanFilter \/ CleanDelete
    \/ OpenJournal \/ Serve \/ BeginShutdown \/ WriterFinished
    \/ ExitClean \/ DrainTimeout \/ ExitAborted \/ Crash

Spec == Init /\ [][Next]_vars

-----------------------------------------------------------------------------
(* Safety.                                                                 *)

(* The durability boundary: once an append has been counted as written,    *)
(* no crash or power loss can make the capture disappear before its trace  *)
(* is committed.  A file, possibly set aside in quarantine, always stays.  *)
WrittenSurvives ==
    \A i \in Ids : outcome[i] = "written" /\ commits[i] = 0
                      => stable[i] \cap {"none", "partial"} = {}

(* A capture is stored at most once, however often it is replayed, and not *)
(* again after retention has deleted it, although receipts get cleaned.    *)
AtMostOnce == \A i \in Ids : commits[i] <= 1

(* While any power loss could still leave a replayable record of a stored  *)
(* capture, its receipt exists: the order commit, delete, sync, clean.     *)
ReceiptOutlivesRecord ==
    \A i \in Ids : commits[i] > 0 /\ stable[i] \cap TraceFile # {}
                      => i \in receipts

(* Every pending record is held by exactly one party: the queue (once), a  *)
(* replay task or the writer.  The only entries nobody holds are those of  *)
(* a failed append whose quarantine failed as well.                        *)
PendingHasOneOwner ==
    /\ Cardinality(Range(ready)) = Len(ready)
    /\ Range(ready) \cap Claimed = {}
    /\ Range(ready) \cup Claimed \subseteq entries
    /\ \A i \in entries \ (Range(ready) \cup Claimed) :
          \/ outcome[i] = "write_failed"
          \/ wid = i /\ (wpc = "release" => wres = "write_failed")

(* The memory budget is exact: queued, being appended and being replayed   *)
(* captures, nothing else, and never above the limit.                      *)
MemoryExact ==
    LET held == Range(queue) \cup ({wid} \cap Ids)
    IN  /\ used = MapThenSumSet(LAMBDA i : IntakeMem[i], held)
                    + MapThenSumSet(LAMBDA i : ReplayMem[i], Claimed)
        /\ used <= MemLimit

(* Records and memory have exactly one holder each, through claims,        *)
(* retries, failed appends, aborts and restarts, and no counter leaves its *)
(* range.                                                                  *)
OwnershipIsExact == TypeOK /\ PendingHasOneOwner /\ MemoryExact

(* The quarantine of a stored capture, and no other file of it.  The       *)
(* catalog may have lost sight of it: see QuarantineCounts.                *)
SetAside(i) == commits[i] > 0 /\ stable[i] = {"quarantine"}

(* Whatever a power loss leaves in the directory fits the configured       *)
(* capacity, quarantines of captures that are stored anyway excepted, and  *)
(* the byte counter equals the sizes of the pending records.               *)
WithinCapacity ==
    LET may == {i \in Ids : stable[i] # {"none"} /\ ~SetAside(i)}
    IN  /\ TotalLength(may) <= MaxBytes
        /\ Cardinality(may) <= MaxRecords
        /\ bytes = TotalSize(entries)

(* "Malformed or interrupted journal files are renamed with a unique       *)
(* .quarantine suffix [...] They count against capacity and block receipt  *)
(* cleanup for their trace ID" (docs/durable-capture.md, Operator checks). *)
QuarantineCounts ==
    mode \in Running =>
        \A i \in Ids : disk[i] = "quarantine" => i \in entries \cup quarantine_ids

(* A pipeline that ended without the drain timeout left nothing to replay: *)
(* the captures it wrote are stored or set aside, and durably so.          *)
CleanExitIsDrained ==
    mode = "exited" =>
        \A i \in Ids : /\ disk[i] \in Inert /\ stable[i] = {disk[i]}
                       /\ outcome[i] = "written" =>
                             commits[i] > 0 \/ disk[i] = "quarantine"

-----------------------------------------------------------------------------
(* The pipeline implements CaptureStore: a capture is held when every      *)
(* state a power loss may leave its file in is a record or a quarantine.   *)
Store == INSTANCE CaptureStore WITH
    Captures <- Ids,
    held <- {i \in Ids : stable[i] \cap {"none", "partial"} = {}},
    accepted <- {i \in Ids : outcome[i] = "written"},
    stored <- {i \in Ids : commits[i] > 0},
    visible <- traces

ImplementsStore == Store!Spec

-----------------------------------------------------------------------------
(* Liveness.  Fairness: the runtime polls every task that can run and      *)
(* timers fire; Postgres decides a lost COMMIT; a stopped instance is      *)
(* started again.  Failures are finitely many (MaxFaults, MaxStops).       *)

WriterNext == WriterRecv \/ WriterReserve \/ WriterWrite \/ WriterRename
              \/ WriterSync \/ WriterQuarantine \/ WriterQuarSync \/ WriterRelease

Fairness ==
    /\ WF_vars(WriterNext)
    /\ WF_vars(ClaimRecord)
    /\ \A i \in Ids : WF_vars(ReplayStep(i)) /\ WF_vars(RetryDue(i))
                      /\ WF_vars(OrphanDecided(i))
    /\ WF_vars(CleanSelect) /\ WF_vars(CleanFilter) /\ WF_vars(CleanDelete)
    /\ WF_vars(OpenJournal) /\ WF_vars(Serve)
    /\ WF_vars(WriterFinished) /\ WF_vars(ExitClean)
    /\ WF_vars(DrainTimeout) /\ WF_vars(ExitAborted)

FairSpec == Spec /\ Fairness

(* A record larger than the whole memory budget stays on disk for good. *)
Blocked(i) == ReplayMem[i] > MemLimit

(* Every capture that was written and is not blocked by the memory budget  *)
(* is eventually stored or set aside, through faults, crashes, restarts.   *)
(* The one exception is a record cut shorter than its header: reading it   *)
(* is an I/O error, which replay retries until a restart's scan sets the   *)
(* file aside (see MalformedIsSetAside).                                   *)
WrittenIsStored ==
    \A i \in Ids : ~Blocked(i) =>
        (outcome[i] = "written" ~>
            commits[i] > 0 \/ disk[i] \in {"quarantine", "short"})


(* Receipts do not pile up: unless its capture ended in quarantine, the    *)
(* receipt of every stored capture is eventually deleted.                  *)
ReceiptsAreCleaned ==
    \A i \in Ids : ~Blocked(i) =>
        (i \in receipts ~> i \notin receipts \/ disk[i] = "quarantine")
=============================================================================
