----------------------------- MODULE MCTraceStore -----------------------------
(* Small instances of TraceStore for TLC. *)
EXTENDS TraceStore

(* Legacy traces share segment 1; segment 9 lost its records in an older   *)
(* version.  With LateAt, traces 3 and 4 started before trace 2.           *)
MCSegOf == [t \in Traces |-> IF t \in Legacy THEN 1 ELSE t]
MCSegBytes == [s \in {1, 9} \cup (Traces \ Legacy) |-> 2]
LateAt == [t \in Traces |-> CASE t = 1 -> 1 [] t = 2 -> 5 [] OTHER -> t]
OneMinute == [t \in Traces |-> 0]
TwoMinutes == [t \in Traces |-> t % 2]
OneKey == [t \in Traces |-> 0]
=============================================================================
