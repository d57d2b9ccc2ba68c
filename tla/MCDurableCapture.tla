--------------------------- MODULE MCDurableCapture ---------------------------
(* Small instances of DurableCapture for TLC. *)
EXTENDS DurableCapture

MCSize == [i \in Ids |-> i]
MCIntakeMem == [i \in Ids |-> 1]
MCReplayMem == [i \in Ids |-> 2]
=============================================================================
