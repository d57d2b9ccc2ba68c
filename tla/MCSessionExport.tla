--------------------------- MODULE MCSessionExport ---------------------------
(***************************************************************************)
(* TraceStore and SessionExport for TLC: the store with all its faults,    *)
(* and an export while a less busy store changes under it.                 *)
(***************************************************************************)
EXTENDS MCTraceStore, SessionExport

(* The first two traces started at the same time, and the last one has a   *)
(* session of its own.                                                     *)
TiedAt == [t \in Traces |-> IF t = 2 THEN 1 ELSE t]
LastAlone == [t \in Traces |-> IF t = Max(Traces) THEN 1 ELSE 0]

(* An older version kept the request of trace 2 in its row, and its        *)
(* response was cut; the request of trace 1 was never kept.                *)
Archived == [record |-> "complete", inline |-> "empty", observed |-> 1, truncated |-> FALSE]
MCBodyOf ==
    [t \in Traces |-> [d \in Directions |->
        CASE t = 1 /\ d = "request" -> [Archived EXCEPT !.record = "none"]
          [] t = 2 /\ d = "request" -> [Archived EXCEPT !.record = "none", !.inline = "good"]
          [] t = 2 /\ d = "response" -> [Archived EXCEPT !.record = "partial"]
          [] OTHER -> Archived]]

(* Once an export has begun the store is less busy: the last trace is not  *)
(* inserted, one retention task runs and no session cleanup, and a fault   *)
(* before it has put bodies into Postgres.  The writer ends while the      *)
(* store is at rest: how it ends does not depend on the store, nor does    *)
(* the client on what the store does afterwards.                           *)
QuietExport ==
    /\ export.pc = "done" => UNCHANGED vars
    /\ export'.pc = "done" => /\ \A t \in Traces : ipc'[t] = "idle"
                              /\ \A p \in Pruners : prune'[p] = Idle
    /\ export'.pc # "idle" =>
           /\ ipc'[Max(Traces)] = "idle" /\ Max(Traces) \notin ever'
           /\ spc' = "idle"
           /\ \A p \in Pruners \ {CHOOSE q \in Pruners : TRUE} : prune'[p] = Idle
           /\ faults' = 0 \/ "postgres" \in Range(export'.backend)
=============================================================================
