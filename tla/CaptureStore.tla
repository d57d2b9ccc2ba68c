----------------------------- MODULE CaptureStore -----------------------------
(***************************************************************************)
(* What durable capture promises, without journal, workers or receipts.    *)
(*   held      captures of which a durable copy exists that no crash can   *)
(*             take away                                                   *)
(*   accepted  captures reported as written                                *)
(*   stored    captures whose trace has been committed, ever               *)
(*   visible   captures whose trace is in the database now                 *)
(* A capture is reported only when it is held or stored, is stored from a  *)
(* held copy and once only, gives up its copy only after it was stored,    *)
(* and does not become visible again after retention removed it.           *)
(***************************************************************************)
CONSTANT Captures
VARIABLES held, accepted, stored, visible

Init == held = {} /\ accepted = {} /\ stored = {} /\ visible = {}

Hold(S) == held' = held \cup S /\ UNCHANGED <<accepted, stored, visible>>

Accept(i) ==
    /\ i \in held \cup stored
    /\ accepted' = accepted \cup {i}
    /\ UNCHANGED <<held, stored, visible>>

Store(i) ==
    /\ i \in held \ stored
    /\ stored' = stored \cup {i} /\ visible' = visible \cup {i}
    /\ UNCHANGED <<held, accepted>>

Release(i) ==
    /\ i \in stored
    /\ held' = held \ {i}
    /\ UNCHANGED <<accepted, stored, visible>>

Rotate(i) ==
    /\ visible' = visible \ {i}
    /\ UNCHANGED <<held, accepted, stored>>

Next ==
    \/ \E S \in SUBSET Captures : Hold(S)
    \/ \E i \in Captures : Accept(i) \/ Store(i) \/ Release(i) \/ Rotate(i)

Spec == Init /\ [][Next]_<<held, accepted, stored, visible>>
=============================================================================
