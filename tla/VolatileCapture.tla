--------------------------- MODULE VolatileCapture ---------------------------
(***************************************************************************)
(* The trace pipeline without a journal (trace.rs: TraceRecorder::record,  *)
(* run_dispatcher, process_trace and TracePipeline::drain, with the        *)
(* counters of metrics.rs).  Recorders are the request handlers; the       *)
(* dispatcher moves events from a bounded channel to worker tasks, which   *)
(* build the trace on the blocking pool and insert it.                     *)
(***************************************************************************)
EXTENDS Naturals, Sequences, FiniteSets, FiniteSetsExt, SequencesExt

CONSTANTS
    Ids,       \* events, one per recorded request
    Size,      \* event_bytes of each
    QueueCap,  \* trace_queue_capacity
    Workers,   \* trace_worker_count
    MemLimit   \* trace_queue_max_bytes

ASSUME VolatileAssumption ==
    /\ IsFiniteSet(Ids) /\ Size \in [Ids -> Nat]
    /\ QueueCap \in Nat \ {0} /\ Workers \in Nat \ {0} /\ MemLimit \in Nat \ {0}

VARIABLES
    recorders,  \* where the handler of each event is in record
    queue,      \* the channel
    held,       \* the event the dispatcher has received and not yet spawned
    workers,    \* the JoinSet: event -> step of its task, joined or not
    dispatcher, \* "run", "drain", "done" or "aborted"
    used,       \* MemoryBudget: bytes reserved
    metrics,    \* RuntimeMetrics
    stored      \* events in the database

volatileVars == <<recorders, queue, held, workers, dispatcher, used, metrics, stored>>

Counters == {"enqueued", "dropped_memory", "dropped_full", "dropped_closed",
             "build_failures", "persist_failures", "persisted"}
Active == {i \in DOMAIN workers : workers[i] # "finished"}

VolatileInit ==
    /\ recorders = [i \in Ids |-> "new"]
    /\ queue = << >> /\ held = {} /\ workers = [i \in {} |-> ""]
    /\ dispatcher = "run" /\ used = 0
    /\ metrics = [c \in Counters |-> 0]
    /\ stored = {}

Count(c) == metrics' = [metrics EXCEPT ![c] = @ + 1]
Recorder(i, from, to) ==
    /\ recorders[i] = from /\ recorders' = [recorders EXCEPT ![i] = to]
Release(ids) == used' = used - MapThenSumSet(LAMBDA i : Size[i], ids)

-----------------------------------------------------------------------------
(* record: reserve, try_send, count.  Other threads run in between, so a   *)
(* trace may be stored before it is counted as enqueued.                   *)
Fits(i) == used + Size[i] <= MemLimit
Reserve(i) ==
    /\ \/ Fits(i) /\ Recorder(i, "new", "reserved") /\ used' = used + Size[i]
          /\ UNCHANGED metrics
       \/ ~Fits(i) /\ Recorder(i, "new", "done") /\ Count("dropped_memory")
          /\ UNCHANGED used
    /\ UNCHANGED <<queue, held, workers, dispatcher, stored>>

Closed == dispatcher \in {"done", "aborted"}
TrySend(i) ==
    /\ \/ /\ ~Closed /\ Len(queue) < QueueCap
          /\ Recorder(i, "reserved", "sent") /\ queue' = Append(queue, i)
          /\ UNCHANGED <<metrics, used>>
       \/ /\ ~Closed /\ Len(queue) = QueueCap
          /\ Recorder(i, "reserved", "done") /\ Count("dropped_full")
          /\ Release({i}) /\ UNCHANGED queue
       \/ /\ Closed
          /\ Recorder(i, "reserved", "done") /\ Count("dropped_closed")
          /\ Release({i}) /\ UNCHANGED queue
    /\ UNCHANGED <<held, workers, dispatcher, stored>>

Enqueued(i) ==
    /\ Recorder(i, "sent", "done") /\ Count("enqueued")
    /\ UNCHANGED <<queue, held, workers, dispatcher, used, stored>>

-----------------------------------------------------------------------------
(* The dispatcher.  A finished worker counts until it is joined. *)
Receive ==
    /\ dispatcher = "run" /\ held = {} /\ queue # << >>
    /\ held' = {Head(queue)} /\ queue' = Tail(queue)
    /\ UNCHANGED <<recorders, workers, dispatcher, used, metrics, stored>>

HasRoom == Cardinality(DOMAIN workers) < Workers
Spawn ==
    /\ dispatcher = "run" /\ HasRoom
    /\ \E i \in held : workers' = [j \in DOMAIN workers \cup {i} |->
                                     IF j = i THEN "build" ELSE workers[j]]
    /\ held' = {}
    /\ UNCHANGED <<recorders, queue, dispatcher, used, metrics, stored>>

(* Mutant of MustJoin: a full set of workers is only joined at the end. *)
MustJoinAtEnd == dispatcher = "drain"

MustJoin == (held # {} /\ ~HasRoom) \/ dispatcher = "drain"
JoinNext ==
    /\ dispatcher \in {"run", "drain"} /\ MustJoin
    /\ \E i \in DOMAIN workers \ Active :
          workers' = [j \in DOMAIN workers \ {i} |-> workers[j]]
    /\ UNCHANGED <<recorders, queue, held, dispatcher, used, metrics, stored>>

(* recv returns None once every recorder is gone and the queue is empty. *)
LastRecorderGone == \A i \in Ids : recorders[i] = "done"
Close ==
    /\ dispatcher = "run" /\ held = {} /\ queue = << >> /\ LastRecorderGone
    /\ dispatcher' = "drain"
    /\ UNCHANGED <<recorders, queue, held, workers, used, metrics, stored>>

Exit ==
    /\ dispatcher = "drain" /\ workers = << >>
    /\ dispatcher' = "done"
    /\ UNCHANGED <<recorders, queue, held, workers, used, metrics, stored>>

-----------------------------------------------------------------------------
(* process_trace.  The reservation is dropped after the outcome is counted. *)
Worker(i, from, to) ==
    /\ i \in DOMAIN workers /\ workers[i] = from
    /\ workers' = [workers EXCEPT ![i] = to]

(* Mutant of Build: a trace that cannot be built is not counted. *)
BuildUncounted(i) ==
    /\ Worker(i, "build", "insert") \/ Worker(i, "build", "release")
    /\ UNCHANGED <<recorders, queue, held, dispatcher, used, metrics, stored>>

Build(i) ==
    /\ \/ Worker(i, "build", "insert") /\ UNCHANGED metrics
       \/ Worker(i, "build", "release") /\ Count("build_failures")
    /\ UNCHANGED <<recorders, queue, held, dispatcher, used, stored>>

(* A commit whose answer is lost is reported as a failure. *)
InsertTrace(i) ==
    /\ Worker(i, "insert", "release")
    /\ \/ stored' = stored \cup {i} /\ Count("persisted")
       \/ stored' \in {stored, stored \cup {i}} /\ Count("persist_failures")
    /\ UNCHANGED <<recorders, queue, held, dispatcher, used>>

WorkerEnds(i) ==
    /\ Worker(i, "release", "finished") /\ Release({i})
    /\ UNCHANGED <<recorders, queue, held, dispatcher, metrics, stored>>

-----------------------------------------------------------------------------
(* A handler that is cut off before it records: its request was not traced. *)
Leave(i) ==
    /\ Recorder(i, "new", "done")
    /\ UNCHANGED <<queue, held, workers, dispatcher, used, metrics, stored>>

(* TracePipeline::drain gives up: aborting the dispatcher drops its queue, *)
(* the event it holds and its workers.  WebSocket tasks outlive the        *)
(* server, so recorders may be left; a commit on its way may still land.   *)
DrainTimesOut ==
    /\ dispatcher \in {"run", "drain"} /\ dispatcher' = "aborted"
    /\ Release(ToSet(queue) \cup held \cup Active)
    /\ \E landed \in SUBSET {i \in Active : workers[i] = "insert"} :
          stored' = stored \cup landed
    /\ queue' = << >> /\ held' = {} /\ workers' = << >>
    /\ UNCHANGED <<recorders, metrics>>

Dispatch == Receive \/ Spawn \/ JoinNext \/ Close \/ Exit
VolatileNext ==
    \/ \E i \in Ids : Reserve(i) \/ TrySend(i) \/ Enqueued(i) \/ Leave(i)
    \/ Receive \/ Spawn \/ JoinNext \/ Close \/ Exit \/ DrainTimesOut
    \/ \E i \in Ids : Build(i) \/ InsertTrace(i) \/ WorkerEnds(i)

(* record never waits; the dispatcher and the blocking pool are scheduled; *)
(* an insert ends, with an answer or an error.                             *)
Fairness ==
    /\ \A i \in Ids : WF_volatileVars(TrySend(i)) /\ WF_volatileVars(Enqueued(i))
    /\ WF_volatileVars(Dispatch)
    /\ \A i \in Ids : WF_volatileVars(Build(i) \/ InsertTrace(i) \/ WorkerEnds(i))

VolatileSpec == VolatileInit /\ [][VolatileNext]_volatileVars /\ Fairness

-----------------------------------------------------------------------------
InMemory == {i \in Ids : recorders[i] = "reserved"} \cup ToSet(queue) \cup held \cup Active

(* The budget holds exactly the events in memory, in handlers, queued and  *)
(* in workers (the comment in run_dispatcher), and a slow database leaves  *)
(* no more of them than the bounds allow.  /metrics accounts for every     *)
(* one: what was accepted is queued, being worked on, or counted under one *)
(* outcome, and "persisted" counts no trace that is not in the database.   *)
(* Only an aborted drain loses some.                                       *)
EventsAreAccounted ==
    LET Unsettled == ToSet(queue) \cup held \cup
                     {i \in DOMAIN workers : workers[i] \in {"build", "insert"}}
        sent == metrics["enqueued"] + Cardinality({i \in Ids : recorders[i] = "sent"})
        settled == metrics["persisted"] + metrics["build_failures"] + metrics["persist_failures"]
    IN  /\ used = MapThenSumSet(LAMBDA i : Size[i], InMemory) /\ used <= MemLimit
        /\ Len(queue) <= QueueCap /\ Cardinality(DOMAIN workers) <= Workers
        /\ dispatcher # "aborted" => sent = settled + Cardinality(Unsettled)
        /\ dispatcher = "done" => settled = metrics["enqueued"]
        /\ metrics["persisted"] <= Cardinality(stored)

(* Whatever fails, every reserved byte is given back. *)
BudgetIsReturned == <>[](used = 0)
=============================================================================
