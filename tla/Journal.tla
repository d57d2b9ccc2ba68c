------------------------------- MODULE Journal -------------------------------
(***************************************************************************)
(* The capture journal of crates/llmtrace/src/trace/journal.rs: one file   *)
(* per capture in a directory, and an in-memory catalog of those files.    *)
(*                                                                         *)
(* A capture id is a natural number, so that ids have the order Postgres   *)
(* gives uuids.  Ids are fresh uuids and each capture is appended once, so *)
(* a capture owns at most one file, and disk[i] names it:                  *)
(*   "none"        no file                                                 *)
(*   "partial"     <i>.partial, the temporary file of an append            *)
(*   "trace"       <i>.trace, a complete record                            *)
(*   "badbody"     <i>.trace whose header is valid and checksum is not     *)
(*   "badhead"     <i>.trace whose header does not validate                *)
(*   "short"       <i>.trace shorter than the 72 bytes of a header         *)
(*   "quarantine"  <i>.<uuid>.quarantine                                   *)
(*                                                                         *)
(* stable[i] is the set of states the file may have after a power loss:    *)
(* every state it went through since the directory was last synchronized.  *)
(* A synchronization collapses it to what is on disk.  A record's content  *)
(* is synchronized before its rename (sync_all), so a power loss never     *)
(* invents a bad record; those come from the storage itself (Corrupt).     *)
(***************************************************************************)
EXTENDS Naturals, FiniteSets, Sequences, FiniteSetsExt, Functions

CONSTANTS
    Ids,           \* the captures of the run
    Size,          \* Size[i]: bytes of the record of i, header included
    MaxBytes,      \* config.max_bytes
    MaxRecords     \* config.max_records

ASSUME JournalAssumption ==
    /\ Ids \subseteq Nat \ {0}
    /\ IsFiniteSet(Ids)
    /\ Size \in [Ids -> Nat \ {0}]
    /\ MaxBytes \in Nat /\ MaxRecords \in Nat

VARIABLES
    disk,              \* [Ids -> File], what the directory holds
    stable,            \* [Ids -> SUBSET File], what a power loss may leave
    len,               \* [Ids -> Nat], length of the file of a capture
    entries,           \* DOMAIN of Catalog.entries
    due,               \* entries whose retry instant has passed (Entry.due)
    ready,             \* Catalog.ready
    bytes,             \* Catalog.bytes
    quarantined,       \* Catalog.quarantined
    quarantine_bytes,  \* Catalog.quarantine_bytes
    quarantine_ids     \* Catalog.quarantine_ids

diskVars == <<disk, stable, len>>
catalogVars == <<entries, due, ready, bytes,
                 quarantined, quarantine_bytes, quarantine_ids>>

(* Names ending in .trace, and those of them with a valid header. *)
TraceFile == {"trace", "badbody", "badhead", "short"}
HeaderOK == {"trace", "badbody"}
File == TraceFile \cup {"none", "partial", "quarantine"}

(* The files that will not be replayed whatever happens to the process. *)
Inert == {"none", "quarantine"}

(* bytes and quarantine_bytes are sums, which WithinCapacity pins down. *)
JournalTypeOK ==
    /\ disk \in [Ids -> File]
    /\ stable \in [Ids -> SUBSET File]
    /\ len \in [Ids -> Nat]
    /\ entries \subseteq Ids
    /\ due \subseteq Ids
    /\ ready \in Seq(Ids)
    /\ quarantined \in Nat
    /\ quarantine_ids \subseteq Ids

JournalInit ==
    /\ disk = [i \in Ids |-> "none"]
    /\ stable = [i \in Ids |-> {"none"}]
    /\ len = [i \in Ids |-> 0]
    /\ entries = {} /\ due = {} /\ ready = <<>>
    /\ bytes = 0 /\ quarantined = 0 /\ quarantine_bytes = 0
    /\ quarantine_ids = {}

-----------------------------------------------------------------------------
(* The filesystem, as journal.rs uses it.                                  *)

(* A create, rename or unlink: visible at once, durable only when synced. *)
SetFile(i, f) ==
    /\ disk' = [disk EXCEPT ![i] = f]
    /\ stable' = [stable EXCEPT ![i] = @ \cup {f}]

(* sync_directory: everything visible becomes durable. *)
SyncDirectory ==
    /\ stable' = [i \in Ids |-> {disk[i]}]
    /\ UNCHANGED <<disk, len>>

(* The machine loses power: each file falls back to some state since the  *)
(* last synchronization, independently of the others.                     *)
LosePower ==
    \E d \in [Ids -> File] :
        /\ \A i \in Ids : d[i] \in stable[i]
        /\ disk' = d
        /\ stable' = [i \in Ids |-> {d[i]}]
        /\ UNCHANGED len

(* The storage damages a record that it had accepted. *)
Damage(i, kind) ==
    /\ disk[i] = "trace"
    /\ disk' = [disk EXCEPT ![i] = kind]
    /\ stable' = [stable EXCEPT ![i] = (@ \ {"trace"}) \cup {kind}]
    /\ len' = [len EXCEPT ![i] = IF kind = "short" THEN 0 ELSE @]

-----------------------------------------------------------------------------
(* Journal::append, in the steps a crash or an I/O error can separate.     *)

(* Mutant of Full: files set aside do not count. *)
FullIgnoresQuarantine(i) ==
    bytes + Size[i] > MaxBytes \/ Cardinality(entries) >= MaxRecords

Full(i) ==
    \/ bytes + quarantine_bytes + Size[i] > MaxBytes
    \/ Cardinality(entries) + quarantined >= MaxRecords

Duplicate(i) == i \in entries

AppendReserve(i) ==
    /\ ~Duplicate(i) /\ ~Full(i)
    /\ entries' = entries \cup {i}
    /\ due' = due \cup {i}
    /\ bytes' = bytes + Size[i]
    /\ UNCHANGED <<ready, quarantined, quarantine_bytes, quarantine_ids>>
    /\ UNCHANGED diskVars

(* The temporary file, written and synchronized. *)
AppendWrite(i) ==
    /\ SetFile(i, "partial")
    /\ len' = [len EXCEPT ![i] = Size[i]]

(* The write stops early: no file, or n bytes of it. *)
AppendWriteFails(i) ==
    \/ UNCHANGED diskVars
    \/ \E n \in 0 .. Size[i] - 1 :
          /\ SetFile(i, "partial")
          /\ len' = [len EXCEPT ![i] = n]

AppendRename(i) == SetFile(i, "trace") /\ UNCHANGED len

(* Mutant of AppendPublish: the rename is never synchronized. *)
AppendPublishUnsynced(i) ==
    /\ ready' = Append(ready, i)
    /\ UNCHANGED <<diskVars, entries, due, bytes,
                   quarantined, quarantine_bytes, quarantine_ids>>

(* sync_directory, then the record is handed to the replay workers. *)
AppendPublish(i) ==
    /\ SyncDirectory
    /\ ready' = Append(ready, i)
    /\ UNCHANGED <<entries, due, bytes,
                   quarantined, quarantine_bytes, quarantine_ids>>

-----------------------------------------------------------------------------
(* Journal::claim: rotate the queue until a record is due and fits the     *)
(* memory that is left; fit is the set MemoryBudget::reserve would grant.  *)

Stops(k, fit) ==
    \/ ready[k] \notin entries
    \/ ready[k] \in due \cap fit

(* Mutant of ClaimAt: the claimed record goes to the back as well. *)
ClaimAtKeeps(k, fit) ==
    /\ k \in 1 .. Len(ready)
    /\ Stops(k, fit)
    /\ \A j \in 1 .. k - 1 : ~Stops(j, fit)
    /\ ready' = SubSeq(ready, k + 1, Len(ready)) \o SubSeq(ready, 1, k)
    /\ UNCHANGED <<entries, due, bytes,
                   quarantined, quarantine_bytes, quarantine_ids>>

(* The position claim stops at: the skipped records go to the back. *)
ClaimAt(k, fit) ==
    /\ k \in 1 .. Len(ready)
    /\ Stops(k, fit)
    /\ \A j \in 1 .. k - 1 : ~Stops(j, fit)
    /\ ready' = SubSeq(ready, k + 1, Len(ready)) \o SubSeq(ready, 1, k - 1)
    /\ UNCHANGED <<entries, due, bytes,
                   quarantined, quarantine_bytes, quarantine_ids>>

(* Mutant of Retry: the due instant moves, the record is not requeued. *)
RetryForgets(i) ==
    /\ due' = due \ {i}
    /\ UNCHANGED <<entries, ready, bytes,
                   quarantined, quarantine_bytes, quarantine_ids>>

(* Journal::retry, also run when a claim is dropped: requeue the record    *)
(* unless it has left the catalog.                                         *)
Retry(i) ==
    /\ ready' = IF i \in entries THEN Append(ready, i) ELSE ready
    /\ due' = IF i \in entries THEN due \ {i} ELSE due
    /\ UNCHANGED <<entries, bytes,
                   quarantined, quarantine_bytes, quarantine_ids>>

(* The retry interval of an entry elapses. *)
BecomeDue(i) ==
    /\ i \in entries \ due
    /\ due' = due \cup {i}
    /\ UNCHANGED <<entries, ready, bytes,
                   quarantined, quarantine_bytes, quarantine_ids>>

(* Outcomes of Journal::read.  A missing file, and one too short for its   *)
(* header (UnexpectedEof), are I/O errors; any other defect is not.        *)
ReadOK(i) == disk[i] = "trace"
ReadInvalid(i) == disk[i] \in {"badbody", "badhead"}
ReadIoError(i) == ~ReadOK(i) /\ ~ReadInvalid(i)

-----------------------------------------------------------------------------
(* Journal::acknowledge: remove_file (a missing .trace is fine), then the  *)
(* directory sync, and only then the catalog entry.                        *)

AckRemove(i) ==
    IF disk[i] \in TraceFile
    THEN SetFile(i, "none") /\ UNCHANGED len
    ELSE UNCHANGED diskVars

DropEntry(i) ==
    /\ entries' = entries \ {i}
    /\ due' = due \ {i}
    /\ bytes' = IF i \in entries THEN bytes - Size[i] ELSE bytes

(* Mutants of AckSync: no directory sync; a decrement of the wrong counter. *)
AckUnsynced(i) ==
    /\ DropEntry(i)
    /\ UNCHANGED <<diskVars, ready, quarantined, quarantine_bytes, quarantine_ids>>

AckWrongCounter(i) ==
    /\ SyncDirectory
    /\ DropEntry(i)
    /\ quarantined' = quarantined - 1
    /\ UNCHANGED <<ready, quarantine_bytes, quarantine_ids>>

AckSync(i) ==
    /\ SyncDirectory
    /\ DropEntry(i)
    /\ UNCHANGED <<ready, quarantined, quarantine_bytes, quarantine_ids>>

(* Journal::quarantine: rename whichever file there is, sync, then move    *)
(* the record from the pending to the quarantine counters.                 *)
QuarantineRename(i) ==
    IF disk[i] \in TraceFile \cup {"partial"}
    THEN SetFile(i, "quarantine") /\ UNCHANGED len
    ELSE UNCHANGED diskVars

QuarantineSync(i) ==
    /\ SyncDirectory
    /\ DropEntry(i)
    /\ IF disk[i] = "quarantine"
       THEN /\ quarantined' = quarantined + 1
            /\ quarantine_bytes' = quarantine_bytes + len[i]
            /\ quarantine_ids' = quarantine_ids \cup {i}
       ELSE UNCHANGED <<quarantined, quarantine_bytes, quarantine_ids>>
    /\ UNCHANGED ready

receipt_can_be_removed(i) == i \notin entries /\ i \notin quarantine_ids

-----------------------------------------------------------------------------
(* Journal::open.  The scan catalogs every record with a valid header,     *)
(* quarantines every other file, and orders the records by modification    *)
(* time, which the wall clock decides.                                     *)

Scanned(f) == IF f \in HeaderOK \cup {"none"} THEN f ELSE "quarantine"

TotalSize(S) == MapThenSumSet(LAMBDA i : Size[i], S)
TotalLength(S) == MapThenSumSet(LAMBDA i : len[i], S)

Orders(S) ==
    {s \in [1 .. Cardinality(S) -> S] :
        \A j, k \in 1 .. Cardinality(S) : s[j] = s[k] => j = k}

OpenScan ==
    LET found == {i \in Ids : disk[i] \in HeaderOK}
        aside == {i \in Ids : Scanned(disk[i]) = "quarantine"}
    IN  /\ disk' = [i \in Ids |-> Scanned(disk[i])]
        /\ stable' = [i \in Ids |-> stable[i] \cup {Scanned(disk[i])}]
        /\ UNCHANGED len
        /\ entries' = found /\ due' = found
        /\ ready' \in Orders(found)
        /\ bytes' = TotalSize(found)
        /\ quarantined' = Cardinality(aside)
        /\ quarantine_bytes' = TotalLength(aside)
        /\ quarantine_ids' = aside

(* The last step of open: no receipt is cleaned before this flush. *)
OpenSync == SyncDirectory /\ UNCHANGED catalogVars

(* The process is gone and its catalog with it. *)
ForgetCatalog ==
    /\ entries' = {} /\ due' = {} /\ ready' = <<>>
    /\ bytes' = 0 /\ quarantined' = 0 /\ quarantine_bytes' = 0
    /\ quarantine_ids' = {}
=============================================================================
