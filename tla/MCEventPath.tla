----------------------------- MODULE MCEventPath -----------------------------
(***************************************************************************)
(* The way of an event without a journal, for TLC, one station at a time:  *)
(* a request in the proxy, its event in the recorder, with more events     *)
(* than queue, workers and memory take (both extended), and its trace in   *)
(* the store, which maintenance keeps within its limit (instantiated).     *)
(***************************************************************************)
EXTENDS HttpProxy, VolatileCapture

CONSTANTS Traces, Legacy, Unindexed, Limit, Batch, Pruners, Collectors, MaxFaults

VARIABLES
    station,   \* what this behaviour is about
    rows, ever, named, backend, session, tsess, rollup, work, deletions, files,
    unsynced, revived, ipc, iback, prune, collect, removed, spc, empties, faults

(* One event takes two units of memory. *)
EventSize == [i \in Ids |-> IF i = 1 THEN 2 ELSE 1]

(* The legacy traces share segment 1; trace 3 started before trace 2. *)
SegOf == [t \in Traces |-> IF t \in Legacy THEN 1 ELSE t]
SegBytes == [s \in {1} \cup Unindexed \cup (Traces \ Legacy) |-> 2]
At == [t \in Traces |-> IF t = 2 THEN 5 ELSE t]
Minute == [t \in Traces |-> t % 2]
KeyOf == [t \in Traces |-> 0]

S == INSTANCE TraceStore WITH queue <- deletions

storeVars == <<rows, ever, named, backend, session, tsess, rollup, work, deletions, files,
               unsynced, revived, ipc, iback, prune, collect, removed, spc, empties, faults>>

MCInit ==
    /\ station \in {"proxy", "recorder", "store"}
    /\ Init /\ VolatileInit /\ S!Init
    /\ station # "proxy" => req = (CHOOSE r \in Requests : TRUE) /\ resp = (CHOOSE b \in Bodies : TRUE)

ProxyStep == station = "proxy" /\ Next /\ UNCHANGED <<station, volatileVars, storeVars>>
RecorderStep == station = "recorder" /\ VolatileNext /\ UNCHANGED <<station, vars, storeVars>>
StoreStep == station = "store" /\ S!Next /\ UNCHANGED <<station, vars, volatileVars>>

(* Fairness of TraceStore, for the behaviours about it. *)
StoreFairness ==
    /\ \A t \in Traces : WF_storeVars(station = "store" /\ S!InsertStep(t))
    /\ \A p \in Pruners : /\ WF_storeVars(station = "store" /\ S!PruneStep(p))
                          /\ WF_storeVars(station = "store" /\ S!RotateBegin(p))
    /\ \A c \in Collectors : WF_storeVars(station = "store" /\ S!CollectStep(c))

(* Nothing that the fairness of VolatileCapture is about can be done       *)
(* before a first event.                                                   *)
MCSpec ==
    /\ MCInit
    /\ [][ProxyStep \/ RecorderStep \/ StoreStep]_<<station, vars, volatileVars, storeVars>>
    /\ Fairness /\ StoreFairness

-----------------------------------------------------------------------------
(* Of TraceStore: no transaction and no queued file waits for ever. *)
WorkEnds == S!WorkEnds

(* Of TraceStore: an archive above its limit gets back below it. *)
SizeIsBounded == station = "store" => S!SizeIsBounded
=============================================================================
