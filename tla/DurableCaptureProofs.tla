------------------------- MODULE DurableCaptureProofs -------------------------
(***************************************************************************)
(* Proofs about DurableCapture for every set of captures, every capacity,  *)
(* any number of workers, faults, crashes and restarts.                    *)
(*                                                                         *)
(* AtMostOnce, ReceiptOutlivesRecord and WrittenSurvives are not inductive *)
(* by themselves: they depend on where a capture is on its way from the    *)
(* intake queue to the cleaned receipt.  Station(i) says what holds of     *)
(* capture i wherever it is, and IInv that every capture is at a station.  *)
(***************************************************************************)
EXTENDS DurableCapture, CollectionTheorems

(* Every state a power loss may leave the file in preserves the capture. *)
Durable(i) == stable[i] \cap {"none", "partial"} = {}

(* The capture has not reached the journal. *)
Untouched(i) ==
    /\ stable[i] = {"none"} /\ i \notin entries /\ claims[i] = "none"
    /\ commits[i] = 0 /\ tx[i] = "none"

(* The capture is known to replay: durable unless already stored. *)
Published(i) == "partial" \notin stable[i] /\ (commits[i] = 0 => Durable(i))

(* No power loss can bring a record of the capture back. *)
Gone(i) == i \notin entries /\ stable[i] \subseteq Inert

(* The writer is in the middle of the append of i. *)
Appending == {"write", "rename", "sync", "quarantine", "quarsync"}
Writing(i) == wid = i /\ wpc # "recv"

(* Between record and append. *)
IntakeStation(i) ==
    /\ outcome[i] = "none" => Untouched(i)
    /\ InSeq(queue, i) =>
          outcome[i] = "enqueued" /\ Untouched(i) /\ ~Writing(i)
    /\ Writing(i) => outcome[i] = "enqueued"
    /\ Writing(i) /\ wpc = "reserve" => Untouched(i)

(* In the append, and after it has been counted. *)
AppendStation(i) ==
    /\ Writing(i) /\ wpc \in Appending =>
          /\ i \in entries /\ claims[i] = "none" /\ ~InSeq(ready, i)
          /\ commits[i] = 0 /\ tx[i] = "none"
    /\ Writing(i) /\ wpc = "write" => disk[i] = "none"
    /\ Writing(i) /\ wpc = "sync" => disk[i] \in TraceFile
    /\ Writing(i) /\ wpc = "quarsync" => disk[i] \in Inert
    /\ Writing(i) /\ wres = "written" => commits[i] > 0 \/ Durable(i)
    /\ outcome[i] = "written" => commits[i] > 0 \/ Durable(i)

(* In the catalog, against the directory. *)
CatalogStation(i) ==
    /\ disk[i] \in stable[i]
    /\ InSeq(ready, i) => i \in entries /\ claims[i] = "none"
    /\ mode = "opening" =>
          disk[i] \in (IF i \in entries THEN TraceFile ELSE Inert)
    /\ mode \in Running =>
          /\ i \notin entries => stable[i] \subseteq Inert
          /\ InSeq(ready, i) => Published(i)

(* With a replay task, by phase. *)
ClaimStation(i) ==
    /\ claims[i] # "none" => i \in entries /\ Published(i) /\ mode \in Running
    /\ claims[i] \in {"ack", "acksync"} => i \in receipts
    /\ claims[i] \in {"acksync", "quarsync"} => disk[i] \in Inert
    /\ claims[i] = "commit" <=> tx[i] = "open"

(* In the database, and until its receipt is cleaned. *)
LedgerStation(i) ==
    /\ commits[i] \in {0, 1}
    /\ i \in receipts \cup traces => commits[i] = 1
    /\ tx[i] # "none" => commits[i] = 0 /\ Durable(i)
    /\ commits[i] = 1 /\ i \notin receipts => Gone(i)
    /\ i \in page => i \in receipts
    /\ i \in doomed => i \in receipts /\ Gone(i)

Station(i) ==
    /\ IntakeStation(i) /\ AppendStation(i) /\ CatalogStation(i)
    /\ ClaimStation(i) /\ LedgerStation(i)

(* What the process holds exists only while the process does. *)
ProcessInv ==
    /\ mode \notin {"up", "closing"} => queue = <<>> /\ wpc = "recv"
    /\ mode \notin Running => page = {} /\ doomed = {}
    /\ page = {} \/ doomed = {}
    /\ mode \notin Running \cup {"opening"} => entries = {} /\ ready = <<>>
    /\ wpc # "recv" => wid \in Ids
    /\ wres # "none" <=> wpc = "release"
    /\ Distinct(queue) /\ Distinct(ready)

IInv == TypeOK /\ ProcessInv /\ \A i \in Ids : Station(i)

-----------------------------------------------------------------------------
(* Every step keeps every capture at its station.                          *)

USE DEF diskVars, catalogVars, intakeVars, writerVars, dbVars, cleanVars

(* The appended capture is a capture, and its station. *)
LEMMA WriterFacts ==
    ASSUME IInv, wpc # "recv"
    PROVE  wid \in Ids /\ Station(wid) /\ mode \in {"up", "closing"}
BY DEF IInv, ProcessInv

(* TraceRecorder::record *)
LEMMA RecordStep == ASSUME IInv, NEW i \in Ids, Record(i) PROVE IInv'
<1>0. TypeOK /\ ProcessInv /\ Station(i) BY DEF IInv
<1>q. /\ queue' \in Seq(Ids) /\ Distinct(queue')
      /\ \A y : InSeq(queue', y) => InSeq(queue, y) \/ (y = i /\ outcome'[i] = "enqueued")
  <2>1. CASE queue' = queue BY <1>0, <2>1 DEF TypeOK, ProcessInv
  <2>2. CASE queue' = Append(queue, i) /\ outcome' = [outcome EXCEPT ![i] = "enqueued"]
    <3>1. ~InSeq(queue, i) BY <1>0 DEF Station, IntakeStation, Record
    <3>2. queue \in Seq(Ids) /\ Distinct(queue) BY <1>0 DEF TypeOK, ProcessInv
    <3>3. outcome'[i] = "enqueued" BY <1>0, <2>2 DEF TypeOK
    <3> QED BY <2>2, <3>1, <3>2, <3>3, AppendFacts
  <2> QED BY <2>1, <2>2 DEF Record
<1>1. TypeOK'
  <2>1. used' \in Int BY <1>0, PipelineAssumption DEF TypeOK, Record
  <2>2. outcome' \in [Ids -> Outcomes] BY <1>0 DEF TypeOK, Record, Outcomes
  <2> QED BY <1>0, <1>q, <2>1, <2>2 DEF TypeOK, JournalTypeOK, Record, NoFault
<1>2. ProcessInv'
  BY <1>0, <1>q DEF ProcessInv, Running, Record
<1>3. ASSUME NEW j \in Ids PROVE Station(j)'
  <2>0. Station(j) BY DEF IInv
  <2>1. outcome' \in [Ids -> Outcomes] /\ (j # i => outcome'[j] = outcome[j])
        /\ (j = i => outcome'[j] # "none" /\ outcome'[j] # "written")
    BY <1>0 DEF TypeOK, Record, Outcomes
  <2>2. IntakeStation(j)'
    BY <1>0, <1>q, <2>0, <2>1
    DEF Station, IntakeStation, AppendStation, Untouched, Writing, Record
  <2>3. AppendStation(j)'
    BY <2>0, <2>1 DEF Station, AppendStation, Durable, Writing, Appending, Inert, Record
  <2>4. CatalogStation(j)' /\ ClaimStation(j)' /\ LedgerStation(j)'
    BY <2>0 DEF Station, CatalogStation, ClaimStation, LedgerStation, Published,
                Durable, Gone, Running, Record
  <2> QED BY <2>2, <2>3, <2>4 DEF Station
<1> QED BY <1>1, <1>2, <1>3 DEF IInv

(* The writer takes a capture from the channel. *)
LEMMA WriterRecvStep == ASSUME IInv, WriterRecv PROVE IInv'
<1>0. TypeOK /\ ProcessInv BY DEF IInv
<1>q. /\ wid' \in Ids /\ InSeq(queue, wid')
      /\ queue' \in Seq(Ids) /\ Distinct(queue')
      /\ \A y : InSeq(queue', y) <=> InSeq(queue, y) /\ y # wid'
  <2>1. queue \in Seq(Ids) /\ Distinct(queue) /\ queue # <<>>
    BY <1>0 DEF TypeOK, ProcessInv, WriterRecv
  <2> QED BY <2>1, TailFacts DEF WriterRecv
<1>1. TypeOK'
  BY <1>0, <1>q DEF TypeOK, JournalTypeOK, WriterSteps, WriterRecv, WriterOnly, NoFault
<1>2. ProcessInv'
  BY <1>0, <1>q DEF ProcessInv, Running, WriterRecv, WriterOnly
<1>3. ASSUME NEW j \in Ids PROVE Station(j)'
  <2>0. Station(j) BY DEF IInv
  <2>1. IntakeStation(j)'
    BY <1>0, <1>q, <2>0
    DEF Station, IntakeStation, Untouched, Writing, WriterRecv, WriterOnly
  <2>2. AppendStation(j)' /\ CatalogStation(j)' /\ ClaimStation(j)' /\ LedgerStation(j)'
    BY <1>0, <2>0 DEF Station, AppendStation, CatalogStation, ClaimStation, LedgerStation,
                Published, Durable, Gone, Running, Writing, Appending, Inert,
                WriterRecv, WriterOnly, ProcessInv
  <2> QED BY <2>1, <2>2 DEF Station
<1> QED BY <1>1, <1>2, <1>3 DEF IInv

(* A directory operation keeps the types of the directory. *)
LEMMA SetFileType ==
    ASSUME JournalTypeOK, NEW i \in Ids, NEW f \in File, SetFile(i, f)
    PROVE  disk' \in [Ids -> File] /\ stable' \in [Ids -> SUBSET File]
BY DEF JournalTypeOK, SetFile

(* Journal::append under its first lock. *)
LEMMA WriterReserveStep == ASSUME IInv, WriterReserve PROVE IInv'
<1>0. TypeOK /\ ProcessInv BY DEF IInv
<1>w. wid \in Ids /\ Station(wid) BY WriterFacts DEF WriterReserve
<1>1. TypeOK'
  BY <1>0, <1>w DEF TypeOK, JournalTypeOK, WriterSteps,
     WriterReserve, GiveUp, AppendReserve, WriterOnly, NoFault
<1>2. ProcessInv'
  BY <1>0, <1>w DEF ProcessInv, Running,
     WriterReserve, GiveUp, AppendReserve, WriterOnly, NoFault
<1>3. ASSUME NEW j \in Ids PROVE Station(j)'
  <2>0. Station(j) BY DEF IInv
  <2> USE DEF Station, IntakeStation, AppendStation, CatalogStation, ClaimStation,
          LedgerStation, Untouched, Published, Durable, Gone, Writing, Appending,
          Inert, Running
  <2>1. IntakeStation(j)'
    BY <1>0, <1>w, <2>0 DEF TypeOK, JournalTypeOK, ProcessInv,
       WriterReserve, GiveUp, AppendReserve, WriterOnly, NoFault
  <2>2. AppendStation(j)'
    BY <1>0, <1>w, <2>0 DEF TypeOK, JournalTypeOK, ProcessInv,
       WriterReserve, GiveUp, AppendReserve, WriterOnly, NoFault
  <2>3. CatalogStation(j)'
    BY <1>0, <1>w, <2>0 DEF TypeOK, JournalTypeOK, ProcessInv,
       WriterReserve, GiveUp, AppendReserve, WriterOnly, NoFault
  <2>4. ClaimStation(j)'
    BY <1>0, <1>w, <2>0 DEF TypeOK, JournalTypeOK, ProcessInv,
       WriterReserve, GiveUp, AppendReserve, WriterOnly, NoFault
  <2>5. LedgerStation(j)'
    BY <1>0, <1>w, <2>0 DEF TypeOK, JournalTypeOK, ProcessInv,
       WriterReserve, GiveUp, AppendReserve, WriterOnly, NoFault
  <2> QED BY <2>1, <2>2, <2>3, <2>4, <2>5
<1> QED BY <1>1, <1>2, <1>3 DEF IInv

(* The temporary file. *)
LEMMA WriterWriteStep == ASSUME IInv, WriterWrite PROVE IInv'
<1>0. TypeOK /\ ProcessInv BY DEF IInv
<1>w. wid \in Ids /\ Station(wid) BY WriterFacts DEF WriterWrite, WriterStep
<1>1. TypeOK'
  <2>1. JournalTypeOK /\ "partial" \in File BY <1>0 DEF TypeOK, File, TraceFile
  <2>2. disk' \in [Ids -> File] /\ stable' \in [Ids -> SUBSET File]
    BY <1>w, <2>1, SetFileType
    DEF JournalTypeOK, WriterWrite, WriterStep, AppendWrite, AppendWriteFails
  <2>3. len' \in [Ids -> Nat]
    <3>1. Size[wid] \in Nat BY <1>w, JournalAssumption
    <3>2. PICK n \in Nat : len' = len \/ len' = [len EXCEPT ![wid] = n]
      BY <3>1 DEF WriterWrite, WriterStep, AppendWrite, AppendWriteFails
    <3> QED BY <2>1, <3>2 DEF JournalTypeOK
  <2>4. JournalTypeOK'
    BY <2>1, <2>2, <2>3 DEF JournalTypeOK, WriterWrite, WriterStep
  <2>5. wpc' \in WriterSteps /\ faults' \in Nat
    BY <1>0 DEF TypeOK, WriterSteps, WriterWrite, WriterStep, Fault, NoFault
  <2> QED BY <1>0, <2>4, <2>5 DEF TypeOK, WriterWrite, WriterStep, WriterOnly
<1>2. ProcessInv'
  BY <1>0, <1>w DEF ProcessInv, Running,
     WriterWrite, WriterStep, AppendWrite, AppendWriteFails, SetFile,
     Fault, NoFault, WriterOnly
<1>3. ASSUME NEW j \in Ids PROVE Station(j)'
  <2>0. Station(j) BY DEF IInv
  <2> USE DEF Station, IntakeStation, AppendStation, CatalogStation, ClaimStation,
          LedgerStation, Untouched, Published, Durable, Gone, Writing, Appending,
          Inert, Running
  <2>1. IntakeStation(j)'
    BY <1>0, <1>w, <2>0 DEF TypeOK, JournalTypeOK, ProcessInv,
       WriterWrite, WriterStep, AppendWrite, AppendWriteFails, SetFile,
     Fault, NoFault, WriterOnly
  <2>2. AppendStation(j)'
    BY <1>0, <1>w, <2>0 DEF TypeOK, JournalTypeOK, ProcessInv,
       WriterWrite, WriterStep, AppendWrite, AppendWriteFails, SetFile,
     Fault, NoFault, WriterOnly
  <2>3. CatalogStation(j)'
    BY <1>0, <1>w, <2>0 DEF TypeOK, JournalTypeOK, ProcessInv,
       WriterWrite, WriterStep, AppendWrite, AppendWriteFails, SetFile,
     Fault, NoFault, WriterOnly
  <2>4. ClaimStation(j)'
    BY <1>0, <1>w, <2>0 DEF TypeOK, JournalTypeOK, ProcessInv,
       WriterWrite, WriterStep, AppendWrite, AppendWriteFails, SetFile,
     Fault, NoFault, WriterOnly
  <2>5. LedgerStation(j)'
    BY <1>0, <1>w, <2>0 DEF TypeOK, JournalTypeOK, ProcessInv,
       WriterWrite, WriterStep, AppendWrite, AppendWriteFails, SetFile,
     Fault, NoFault, WriterOnly
  <2> QED BY <2>1, <2>2, <2>3, <2>4, <2>5
<1> QED BY <1>1, <1>2, <1>3 DEF IInv

(* The rename into place. *)
LEMMA WriterRenameStep == ASSUME IInv, WriterRename PROVE IInv'
<1>0. TypeOK /\ ProcessInv BY DEF IInv
<1>w. wid \in Ids /\ Station(wid) BY WriterFacts DEF WriterRename, WriterStep
<1>1. TypeOK'
  <2>1. JournalTypeOK /\ "trace" \in File BY <1>0 DEF TypeOK, File, TraceFile
  <2>2. disk' \in [Ids -> File] /\ stable' \in [Ids -> SUBSET File] /\ len' \in [Ids -> Nat]
    BY <1>w, <2>1, SetFileType DEF JournalTypeOK, WriterRename, WriterStep, AppendRename
  <2>3. JournalTypeOK'
    BY <2>1, <2>2 DEF JournalTypeOK, WriterRename, WriterStep
  <2>4. wpc' \in WriterSteps /\ faults' \in Nat
    BY <1>0 DEF TypeOK, WriterSteps, WriterRename, WriterStep, Fault, NoFault
  <2> QED BY <1>0, <2>3, <2>4 DEF TypeOK, WriterRename, WriterStep, WriterOnly
<1>2. ProcessInv'
  BY <1>0, <1>w DEF ProcessInv, Running,
     WriterRename, WriterStep, AppendRename, SetFile, Fault, NoFault, WriterOnly
<1>3. ASSUME NEW j \in Ids PROVE Station(j)'
  <2>0. Station(j) BY DEF IInv
  <2> USE DEF Station, IntakeStation, AppendStation, CatalogStation, ClaimStation,
          LedgerStation, Untouched, Published, Durable, Gone, Writing, Appending,
          Inert, Running
  <2>1. IntakeStation(j)'
    BY <1>0, <1>w, <2>0 DEF TypeOK, JournalTypeOK, ProcessInv,
       WriterRename, WriterStep, AppendRename, SetFile, Fault, NoFault, WriterOnly
  <2>2. AppendStation(j)'
    BY <1>0, <1>w, <2>0 DEF TraceFile, TypeOK, JournalTypeOK, ProcessInv,
       WriterRename, WriterStep, AppendRename, SetFile, Fault, NoFault, WriterOnly
  <2>3. CatalogStation(j)'
    BY <1>0, <1>w, <2>0 DEF TypeOK, JournalTypeOK, ProcessInv,
       WriterRename, WriterStep, AppendRename, SetFile, Fault, NoFault, WriterOnly
  <2>4. ClaimStation(j)'
    BY <1>0, <1>w, <2>0 DEF TypeOK, JournalTypeOK, ProcessInv,
       WriterRename, WriterStep, AppendRename, SetFile, Fault, NoFault, WriterOnly
  <2>5. LedgerStation(j)'
    BY <1>0, <1>w, <2>0 DEF TypeOK, JournalTypeOK, ProcessInv,
       WriterRename, WriterStep, AppendRename, SetFile, Fault, NoFault, WriterOnly
  <2> QED BY <2>1, <2>2, <2>3, <2>4, <2>5
<1> QED BY <1>1, <1>2, <1>3 DEF IInv

(* Journal::quarantine of a failed append. *)
LEMMA WriterQuarantineStep == ASSUME IInv, WriterQuarantine PROVE IInv'
<1>0. TypeOK /\ ProcessInv BY DEF IInv
<1>w. wid \in Ids /\ Station(wid) BY WriterFacts DEF WriterQuarantine
<1>1. TypeOK'
  <2>1. JournalTypeOK /\ "quarantine" \in File BY <1>0 DEF TypeOK, File, TraceFile
  <2>2. disk' \in [Ids -> File] /\ stable' \in [Ids -> SUBSET File] /\ len' \in [Ids -> Nat]
    BY <1>w, <2>1, SetFileType DEF JournalTypeOK, WriterQuarantine, QuarantineRename
  <2>3. JournalTypeOK'
    BY <2>1, <2>2 DEF JournalTypeOK, WriterQuarantine
  <2>4. /\ wpc' \in WriterSteps /\ faults' \in Nat
        /\ wres' \in {"none", "written", "journal_full", "write_failed"}
    BY <1>0 DEF TypeOK, WriterSteps, WriterQuarantine, Fault, NoFault, GiveUp
  <2> QED BY <1>0, <2>3, <2>4 DEF TypeOK, WriterQuarantine, GiveUp, WriterOnly
<1>2. ProcessInv'
  BY <1>0, <1>w DEF ProcessInv, Running,
     WriterQuarantine, QuarantineRename, SetFile, GiveUp, Fault, NoFault,
     WriterOnly
<1>3. ASSUME NEW j \in Ids PROVE Station(j)'
  <2>0. Station(j) BY DEF IInv
  <2> USE DEF Station, IntakeStation, AppendStation, CatalogStation, ClaimStation,
          LedgerStation, Untouched, Published, Durable, Gone, Writing, Appending,
          Inert, Running
  <2>1. IntakeStation(j)'
    BY <1>0, <1>w, <2>0 DEF TypeOK, JournalTypeOK, ProcessInv,
       WriterQuarantine, QuarantineRename, SetFile, GiveUp, Fault, NoFault,
     WriterOnly
  <2>2. AppendStation(j)'
    BY <1>0, <1>w, <2>0 DEF File, TraceFile, TypeOK, JournalTypeOK, ProcessInv,
       WriterQuarantine, QuarantineRename, SetFile, GiveUp, Fault, NoFault,
     WriterOnly
  <2>3. CatalogStation(j)'
    BY <1>0, <1>w, <2>0 DEF TypeOK, JournalTypeOK, ProcessInv,
       WriterQuarantine, QuarantineRename, SetFile, GiveUp, Fault, NoFault,
     WriterOnly
  <2>4. ClaimStation(j)'
    BY <1>0, <1>w, <2>0 DEF TypeOK, JournalTypeOK, ProcessInv,
       WriterQuarantine, QuarantineRename, SetFile, GiveUp, Fault, NoFault,
     WriterOnly
  <2>5. LedgerStation(j)'
    BY <1>0, <1>w, <2>0 DEF TypeOK, JournalTypeOK, ProcessInv,
       WriterQuarantine, QuarantineRename, SetFile, GiveUp, Fault, NoFault,
     WriterOnly
  <2> QED BY <2>1, <2>2, <2>3, <2>4, <2>5
<1> QED BY <1>1, <1>2, <1>3 DEF IInv

(* Its directory sync and catalog update. *)
LEMMA WriterQuarSyncStep == ASSUME IInv, WriterQuarSync PROVE IInv'
<1>0. TypeOK /\ ProcessInv BY DEF IInv
<1>w. wid \in Ids /\ Station(wid) BY WriterFacts DEF WriterQuarSync
<1>1. TypeOK'
  <2>1. stable' \in [Ids -> SUBSET File] /\ UNCHANGED <<disk, len>>
    BY <1>0 DEF TypeOK, JournalTypeOK, WriterQuarSync, QuarantineSync, SyncDirectory
  <2>2. /\ entries' \subseteq Ids /\ due' \subseteq Ids /\ ready' = ready
        /\ quarantine_ids' \subseteq Ids /\ quarantined' \in Nat
    BY <1>0, <1>w DEF TypeOK, JournalTypeOK, WriterQuarSync, QuarantineSync, DropEntry
  <2>3. JournalTypeOK'
    BY <1>0, <2>1, <2>2 DEF TypeOK, JournalTypeOK
  <2>4. faults' \in Nat
    BY <1>0 DEF TypeOK, WriterQuarSync, Fault, NoFault
  <2> QED BY <1>0, <2>3, <2>4 DEF TypeOK, WriterSteps, WriterQuarSync, GiveUp, WriterOnly
<1>2. ProcessInv'
  BY <1>0, <1>w DEF ProcessInv, Running,
     WriterQuarSync, QuarantineSync, DropEntry, SyncDirectory, GiveUp, Fault,
     NoFault, WriterOnly
<1>3. ASSUME NEW j \in Ids PROVE Station(j)'
  <2>0. Station(j) BY DEF IInv
  <2> USE DEF Station, IntakeStation, AppendStation, CatalogStation, ClaimStation,
          LedgerStation, Untouched, Published, Durable, Gone, Writing, Appending,
          Inert, Running
  <2>1. IntakeStation(j)'
    BY <1>0, <1>w, <2>0 DEF TypeOK, JournalTypeOK, ProcessInv,
       WriterQuarSync, QuarantineSync, DropEntry, SyncDirectory, GiveUp, Fault,
     NoFault, WriterOnly
  <2>2. AppendStation(j)'
    BY <1>0, <1>w, <2>0 DEF TypeOK, JournalTypeOK, ProcessInv,
       WriterQuarSync, QuarantineSync, DropEntry, SyncDirectory, GiveUp, Fault,
     NoFault, WriterOnly
  <2>3. CatalogStation(j)'
    BY <1>0, <1>w, <2>0 DEF TypeOK, JournalTypeOK, ProcessInv,
       WriterQuarSync, QuarantineSync, DropEntry, SyncDirectory, GiveUp, Fault,
     NoFault, WriterOnly
  <2>4. ClaimStation(j)'
    BY <1>0, <1>w, <2>0 DEF TypeOK, JournalTypeOK, ProcessInv,
       WriterQuarSync, QuarantineSync, DropEntry, SyncDirectory, GiveUp, Fault,
     NoFault, WriterOnly
  <2>5. LedgerStation(j)'
    BY <1>0, <1>w, <2>0 DEF TypeOK, JournalTypeOK, ProcessInv,
       WriterQuarSync, QuarantineSync, DropEntry, SyncDirectory, GiveUp, Fault,
     NoFault, WriterOnly
  <2> QED BY <2>1, <2>2, <2>3, <2>4, <2>5
<1> QED BY <1>1, <1>2, <1>3 DEF IInv

(* The directory sync that makes the record durable and ready. *)
LEMMA WriterSyncStep == ASSUME IInv, WriterSync PROVE IInv'
<1>0. TypeOK /\ ProcessInv BY DEF IInv
<1>w. wid \in Ids /\ Station(wid) /\ mode \in {"up", "closing"}
  BY WriterFacts DEF WriterSync
<1>a. wid \in entries /\ ~InSeq(ready, wid) /\ claims[wid] = "none"
  BY <1>w DEF Station, AppendStation, Writing, Appending, WriterSync
<1>r. /\ ready' \in Seq(Ids) /\ Distinct(ready')
      /\ \A y : InSeq(ready', y) <=>
                   InSeq(ready, y) \/ (y = wid /\ wpc' = "release")
  <2>1. CASE wpc' = "quarantine" /\ ready' = ready
    BY <1>0, <2>1 DEF TypeOK, JournalTypeOK, ProcessInv
  <2>2. CASE wpc' = "release" /\ ready' = Append(ready, wid)
    <3>1. ready \in Seq(Ids) /\ Distinct(ready)
      BY <1>0 DEF TypeOK, JournalTypeOK, ProcessInv
    <3> QED BY <1>w, <1>a, <2>2, <3>1, AppendFacts
  <2> QED BY <2>1, <2>2 DEF WriterSync, GiveUp, AppendPublish
<1>1. TypeOK'
  <2>0. /\ SyncDirectory \/ UNCHANGED <<disk, stable, len>>
        /\ UNCHANGED <<entries, due, quarantined, quarantine_ids>>
    BY DEF WriterSync, AppendPublish
  <2>1. JournalTypeOK'
    BY <1>0, <1>r, <2>0 DEF TypeOK, JournalTypeOK, SyncDirectory
  <2>2. /\ wpc' \in WriterSteps /\ faults' \in Nat
        /\ wres' \in {"none", "written", "journal_full", "write_failed"}
    BY <1>0 DEF TypeOK, WriterSteps, WriterSync, Fault, NoFault, GiveUp
  <2> QED BY <1>0, <2>1, <2>2 DEF TypeOK, WriterSync, GiveUp, WriterOnly
<1>2. ProcessInv'
  BY <1>0, <1>w, <1>r DEF ProcessInv, Running, WriterSync, AppendPublish, GiveUp, WriterOnly
<1>3. ASSUME NEW j \in Ids PROVE Station(j)'
  <2>0. Station(j) BY DEF IInv
  <2>1. CASE AppendPublish(wid) /\ GiveUp("written")
    <3>1. /\ stable' = [k \in Ids |-> {disk[k]}] /\ stable'[j] = {disk[j]} /\ disk' = disk
          /\ wpc' = "release" /\ wres' = "written" /\ wid' = wid /\ queue' = queue
          /\ entries' = entries /\ stable'[wid] = {disk[wid]}
      BY <1>w, <2>1 DEF AppendPublish, SyncDirectory, GiveUp
    <3>2. disk[j] \in stable[j] BY <2>0 DEF Station, CatalogStation
    <3>3. disk[wid] \in TraceFile
      BY <1>w DEF Station, AppendStation, Writing, WriterSync
    <3>4. IntakeStation(j)'
      BY <1>w, <2>0, <3>1, <3>2 DEF Station, IntakeStation, Untouched, Writing,
         WriterSync, WriterOnly
    <3>5. AppendStation(j)'
      BY <1>w, <1>0, <2>0, <3>1, <3>2, <3>3 DEF Station, AppendStation, Durable, Writing,
         Appending, TraceFile, WriterSync, WriterOnly, ProcessInv
    <3>6. CatalogStation(j)'
      BY <1>w, <1>a, <1>r, <2>0, <3>1, <3>2, <3>3 DEF Station, CatalogStation, Published,
         Durable, Inert, Running, TraceFile, WriterSync, WriterOnly
    <3>7. ClaimStation(j)'
      BY <2>0, <3>1, <3>2 DEF Station, ClaimStation, Published, Durable,
         WriterSync, WriterOnly
    <3>8. LedgerStation(j)'
      BY <2>0, <3>1, <3>2 DEF Station, LedgerStation, Durable, Gone,
         WriterSync, WriterOnly
    <3> QED BY <3>4, <3>5, <3>6, <3>7, <3>8 DEF Station
  <2>2. CASE wpc' = "quarantine" /\ UNCHANGED <<diskVars, catalogVars, queue, wid, wres>>
    BY <1>0, <1>w, <2>0, <2>2
    DEF Station, IntakeStation, AppendStation, CatalogStation, ClaimStation,
        LedgerStation, Untouched, Published, Durable, Gone, Writing, Appending,
        Inert, Running, WriterSync, WriterOnly, ProcessInv
  <2> QED BY <2>1, <2>2 DEF WriterSync
<1> QED BY <1>1, <1>2, <1>3 DEF IInv

(* The counter of the finished append, and its memory. *)
LEMMA WriterReleaseStep == ASSUME IInv, WriterRelease PROVE IInv'
<1>0. TypeOK /\ ProcessInv BY DEF IInv
<1>w. wid \in Ids /\ Station(wid) /\ mode \in {"up", "closing"}
  BY WriterFacts DEF WriterRelease
<1>o. /\ outcome' \in [Ids -> Outcomes] /\ outcome'[wid] = wres /\ wres # "enqueued"
      /\ \A j \in Ids : j # wid => outcome'[j] = outcome[j]
  BY <1>0, <1>w DEF TypeOK, Outcomes, WriterRelease
<1>1. TypeOK'
  <2>1. used' \in Int BY <1>0, <1>w, PipelineAssumption DEF TypeOK, WriterRelease
  <2> QED BY <1>0, <1>o, <2>1 DEF TypeOK, JournalTypeOK, WriterSteps, WriterRelease, NoFault
<1>2. ProcessInv'
  BY <1>0, <1>w DEF ProcessInv, Running, WriterRelease
<1>3. ASSUME NEW j \in Ids PROVE Station(j)'
  <2>0. Station(j) BY DEF IInv
  <2>1. IntakeStation(j)'
    BY <1>0, <1>w, <1>o, <2>0
    DEF Station, IntakeStation, Untouched, Writing, ProcessInv, WriterRelease
  <2>2. AppendStation(j)'
    BY <1>0, <1>w, <1>o, <2>0
    DEF Station, AppendStation, Durable, Writing, Appending, WriterRelease
  <2>3. CatalogStation(j)' /\ ClaimStation(j)' /\ LedgerStation(j)'
    BY <2>0 DEF Station, CatalogStation, ClaimStation, LedgerStation, Published,
                Durable, Gone, Running, WriterRelease
  <2> QED BY <2>1, <2>2, <2>3 DEF Station
<1> QED BY <1>1, <1>2, <1>3 DEF IInv

-----------------------------------------------------------------------------
(* Replay.                                                                 *)

(* Journal::claim *)
LEMMA ClaimRecordStep == ASSUME IInv, ClaimRecord PROVE IInv'
<1>0. TypeOK /\ ProcessInv BY DEF IInv
<1>s. ready \in Seq(Ids) /\ Distinct(ready)
  BY <1>0 DEF TypeOK, JournalTypeOK, ProcessInv
<1>k. PICK k \in 1 .. Len(ready) :
         /\ ClaimAt(k, Fits)
         /\ IF ready[k] \in entries
            THEN /\ claims' = [claims EXCEPT ![ready[k]] = "check"]
                 /\ used' = used + ReplayMem[ready[k]]
            ELSE UNCHANGED <<claims, used>>
  BY DEF ClaimRecord
<1> DEFINE i == ready[k]
<1>i. i \in Ids /\ InSeq(ready, i) /\ Station(i)
  BY <1>s DEF InSeq, IInv
<1>e. i \in entries /\ claims[i] = "none" /\ Published(i)
  BY <1>i DEF Station, CatalogStation, ClaimRecord
<1>c. /\ claims' = [claims EXCEPT ![i] = "check"] /\ claims'[i] = "check"
      /\ claims' \in [Ids -> Phases] /\ used' = used + ReplayMem[i]
      /\ \A j \in Ids : j # i => claims'[j] = claims[j]
  BY <1>0, <1>k, <1>i, <1>e DEF TypeOK, Phases
<1>r. /\ ready' \in Seq(Ids) /\ Distinct(ready')
      /\ \A y : InSeq(ready', y) <=> InSeq(ready, y) /\ y # i
  BY <1>k, <1>s, RotateFacts DEF ClaimAt
<1> HIDE DEF i
<1>1. TypeOK'
  <2>1. used' \in Int BY <1>0, <1>c, <1>i, PipelineAssumption DEF TypeOK
  <2> QED BY <1>0, <1>k, <1>c, <1>r, <2>1
      DEF TypeOK, JournalTypeOK, ClaimRecord, ClaimAt, WorkerOnly, NoFault
<1>2. ProcessInv'
  BY <1>0, <1>k, <1>r DEF ProcessInv, Running, ClaimRecord, ClaimAt, WorkerOnly
<1>3. ASSUME NEW j \in Ids PROVE Station(j)'
  <2>0. Station(j) BY DEF IInv
  <2>u. UNCHANGED <<disk, stable, entries, outcome, queue, wid, wpc, wres, mode,
                    receipts, traces, tx, commits, page, doomed>>
    BY <1>k DEF ClaimRecord, ClaimAt, WorkerOnly
  <2>1. IntakeStation(j)'
    BY <1>e, <1>c, <2>0, <2>u DEF Station, IntakeStation, Untouched, Writing
  <2>2. AppendStation(j)'
    BY <1>i, <1>e, <1>c, <1>r, <2>0, <2>u DEF Station, AppendStation, Durable, Writing
  <2>3. CatalogStation(j)'
    BY <1>c, <1>r, <2>0, <2>u DEF Station, CatalogStation, Published, Durable
  <2>4. ClaimStation(j)'
    BY <1>e, <1>c, <2>0, <2>u DEF Station, ClaimStation, Published, Durable, ClaimRecord
  <2>5. LedgerStation(j)'
    BY <2>0, <2>u DEF Station, LedgerStation, Durable, Gone
  <2> QED BY <2>1, <2>2, <2>3, <2>4, <2>5 DEF Station
<1> QED BY <1>1, <1>2, <1>3 DEF IInv

(* A task that ends in an error leaves its record in the queue.  tx may    *)
(* change only for a task that was about to commit.                        *)
LEMMA FailStep ==
    ASSUME IInv, NEW i \in Ids, claims[i] # "none", Fail(i), WorkerOnly,
           UNCHANGED <<diskVars, receipts, traces, commits>>,
           faults' \in Nat,
           IF claims[i] = "commit"
           THEN \E t \in {"none", "orphan"} : tx' = [tx EXCEPT ![i] = t]
           ELSE tx' = tx
    PROVE  IInv'
<1>0. TypeOK /\ ProcessInv /\ Station(i) BY DEF IInv
<1>e. i \in entries /\ ~InSeq(ready, i) /\ Published(i) /\ mode \in Running
  BY <1>0 DEF Station, ClaimStation, CatalogStation
<1>r. /\ ready' \in Seq(Ids) /\ Distinct(ready')
      /\ \A y : InSeq(ready', y) <=> InSeq(ready, y) \/ y = i
  <2>1. ready \in Seq(Ids) /\ Distinct(ready) /\ ready' = Append(ready, i)
    BY <1>0, <1>e DEF TypeOK, JournalTypeOK, ProcessInv, Fail, Retry
  <2> QED BY <1>e, <2>1, AppendFacts
<1>c. /\ claims' \in [Ids -> Phases] /\ claims'[i] = "none"
      /\ \A j \in Ids : j # i => claims'[j] = claims[j]
  BY <1>0 DEF TypeOK, Phases, Fail, EndTask
<1>t. /\ tx' \in [Ids -> TxStates] /\ tx'[i] # "open"
      /\ tx'[i] # "none" => tx[i] # "none"
      /\ \A j \in Ids : j # i => tx'[j] = tx[j]
  <2>1. CASE claims[i] = "commit"
    <3>1. PICK t \in {"none", "orphan"} : tx' = [tx EXCEPT ![i] = t] BY <2>1
    <3>2. tx[i] = "open" BY <1>0, <2>1 DEF Station, ClaimStation
    <3> QED BY <1>0, <3>1, <3>2 DEF TypeOK, TxStates
  <2>2. CASE claims[i] # "commit"
    BY <1>0, <2>2 DEF TypeOK, Station, ClaimStation
  <2> QED BY <2>1, <2>2
<1>u. UNCHANGED <<disk, stable, len, entries, outcome, queue, wid, wpc, wres, mode,
                  receipts, traces, commits, page, doomed>>
  BY DEF Fail, Retry, WorkerOnly
<1>1. TypeOK'
  <2>1. used' \in Int BY <1>0, PipelineAssumption DEF TypeOK, Fail, EndTask
  <2>2. due' \subseteq Ids BY <1>0 DEF TypeOK, JournalTypeOK, Fail, Retry
  <2> QED BY <1>0, <1>r, <1>c, <1>t, <1>u, <2>1, <2>2
      DEF TypeOK, JournalTypeOK, Fail, Retry, WorkerOnly
<1>2. ProcessInv'
  BY <1>0, <1>e, <1>r, <1>u DEF ProcessInv, Running
<1>3. ASSUME NEW j \in Ids PROVE Station(j)'
  <2>0. Station(j) BY DEF IInv
  <2>1. IntakeStation(j)'
    BY <1>e, <1>c, <1>t, <1>u, <2>0 DEF Station, IntakeStation, Untouched, Writing
  <2>2. AppendStation(j)'
    BY <1>0, <1>c, <1>r, <1>t, <1>u, <2>0 DEF Station, AppendStation, Durable, Writing
  <2>3. CatalogStation(j)'
    BY <1>e, <1>c, <1>r, <1>u, <2>0 DEF Station, CatalogStation, Published, Durable
  <2>4. ClaimStation(j)'
    BY <1>c, <1>t, <1>u, <2>0 DEF Station, ClaimStation, Published, Durable
  <2>5. LedgerStation(j)'
    BY <1>t, <1>u, <2>0 DEF Station, LedgerStation, Durable, Gone
  <2> QED BY <2>1, <2>2, <2>3, <2>4, <2>5 DEF Station
<1> QED BY <1>1, <1>2, <1>3 DEF IInv

(* A task that moves to a phase in which it has done nothing yet. *)
LEMMA GotoStep ==
    ASSUME IInv, NEW i \in Ids, claims[i] \notin {"none", "commit"},
           NEW p \in {"read", "insert", "quarantine", "ack"},
           p = "ack" => i \in receipts,
           Goto(i, p), WorkerOnly, UNCHANGED <<diskVars, dbVars>>
    PROVE  IInv'
<1>0. TypeOK /\ ProcessInv /\ Station(i) BY DEF IInv
<1>c. /\ claims' \in [Ids -> Phases] /\ claims'[i] = p
      /\ \A j \in Ids : j # i => claims'[j] = claims[j]
  BY <1>0 DEF TypeOK, Phases, Goto
<1>1. TypeOK'
  BY <1>0, <1>c DEF TypeOK, JournalTypeOK, Goto, NoFault, WorkerOnly
<1>2. ProcessInv'
  BY <1>0 DEF ProcessInv, Running, Goto, WorkerOnly
<1>3. ASSUME NEW j \in Ids PROVE Station(j)'
  <2>0. Station(j) BY DEF IInv
  <2> QED BY <1>0, <1>c, <2>0
      DEF Station, IntakeStation, AppendStation, CatalogStation, ClaimStation,
        LedgerStation, Untouched, Published, Durable, Gone, Writing, Appending,
        Inert, Running, Goto, WorkerOnly
<1> QED BY <1>1, <1>2, <1>3 DEF IInv

(* storage::journal_trace_persisted *)
LEMMA CheckReceiptStep == ASSUME IInv, NEW i \in Ids, CheckReceipt(i) PROVE IInv'
<1>1. CASE Fail(i) /\ Fault
  <2>1. faults' \in Nat BY <1>1 DEF IInv, TypeOK, Fault
  <2> QED BY <1>1, <2>1, FailStep DEF CheckReceipt
<1>2. CASE Goto(i, IF i \in receipts THEN "ack" ELSE "read")
  BY <1>2, GotoStep DEF CheckReceipt
<1> QED BY <1>1, <1>2 DEF CheckReceipt

(* Journal::read and build_priced_trace *)
LEMMA ReadRecordStep == ASSUME IInv, NEW i \in Ids, ReadRecord(i) PROVE IInv'
<1>1. CASE Fail(i) /\ (Fault \/ NoFault)
  <2>1. faults' \in Nat BY <1>1 DEF IInv, TypeOK, Fault, NoFault
  <2> QED BY <1>1, <2>1, FailStep DEF ReadRecord
<1>2. CASE Goto(i, "insert") \/ Goto(i, "quarantine")
  BY <1>2, GotoStep DEF ReadRecord
<1> QED BY <1>1, <1>2 DEF ReadRecord

(* insert_journaled_trace up to its COMMIT *)
LEMMA BeginInsertStep == ASSUME IInv, NEW i \in Ids, BeginInsert(i) PROVE IInv'
<1>0. TypeOK /\ ProcessInv /\ Station(i) BY DEF IInv
<1>1. CASE Fail(i) /\ (Fault \/ NoFault) /\ UNCHANGED tx
  <2>1. faults' \in Nat BY <1>0, <1>1 DEF TypeOK, Fault, NoFault
  <2> QED BY <1>1, <2>1, FailStep DEF BeginInsert
<1>2. CASE i \in receipts /\ Goto(i, "ack") /\ UNCHANGED tx
  BY <1>2, GotoStep DEF BeginInsert
<1>3. CASE /\ i \notin receipts /\ i \notin traces
           /\ Goto(i, "commit")
           /\ tx' = [tx EXCEPT ![i] = "open"]
  <2>c. /\ claims' \in [Ids -> Phases] /\ claims'[i] = "commit"
        /\ tx' \in [Ids -> TxStates] /\ tx'[i] = "open"
        /\ \A j \in Ids : j # i => claims'[j] = claims[j] /\ tx'[j] = tx[j]
    BY <1>0, <1>3 DEF TypeOK, Phases, TxStates, Goto
  <2>s. commits[i] = 0 /\ Durable(i) /\ i \in entries
    BY <1>0, <1>3 DEF Station, ClaimStation, LedgerStation, Published, Gone, BeginInsert
  <2>1. TypeOK'
    BY <1>0, <1>3, <2>c DEF TypeOK, JournalTypeOK, Goto, NoFault, WorkerOnly, BeginInsert
  <2>2. ProcessInv'
    BY <1>0, <1>3 DEF ProcessInv, Running, Goto, WorkerOnly, BeginInsert
  <2>3. ASSUME NEW j \in Ids PROVE Station(j)'
    <3>0. Station(j) BY DEF IInv
    <3> QED BY <1>0, <1>3, <2>c, <2>s, <3>0
        DEF Station, IntakeStation, AppendStation, CatalogStation, ClaimStation,
        LedgerStation, Untouched, Published, Durable, Gone, Writing, Appending,
        Inert, Running, Goto, WorkerOnly, BeginInsert
  <2> QED BY <2>1, <2>2, <2>3 DEF IInv
<1> QED BY <1>1, <1>2, <1>3 DEF BeginInsert

(* The effect of a COMMIT on the ledger, and on the capture it stores. *)
LEMMA CommittedFacts ==
    ASSUME IInv, NEW i \in Ids, tx[i] # "none", Committed(i)
    PROVE  /\ tx' \in [Ids -> TxStates] /\ commits' \in [Ids -> Nat]
           /\ receipts' \subseteq Ids /\ traces' \subseteq Ids
           /\ tx'[i] = "none" /\ commits[i] = 0 /\ commits'[i] = 1
           /\ i \in receipts' /\ Durable(i)
           /\ \A j \in Ids : j # i =>
                 /\ tx'[j] = tx[j] /\ commits'[j] = commits[j]
                 /\ j \in receipts' <=> j \in receipts
                 /\ j \in traces' <=> j \in traces
<1>1. TypeOK /\ Station(i) BY DEF IInv
<1>2. commits[i] = 0 /\ Durable(i) BY <1>1 DEF Station, LedgerStation
<1> QED BY <1>1, <1>2 DEF TypeOK, TxStates, Committed

(* COMMIT: success, rollback, or a lost connection. *)
LEMMA CommitInsertStep == ASSUME IInv, NEW i \in Ids, CommitInsert(i) PROVE IInv'
<1>0. TypeOK /\ ProcessInv /\ Station(i) BY DEF IInv
<1>1. CASE /\ Fail(i) /\ Fault
           /\ \E t \in {"none", "orphan"} : tx' = [tx EXCEPT ![i] = t]
           /\ UNCHANGED <<receipts, traces, commits>>
  <2>1. faults' \in Nat BY <1>0, <1>1 DEF TypeOK, Fault
  <2> QED BY <1>1, <2>1, FailStep DEF CommitInsert
<1>2. CASE Committed(i) /\ Goto(i, "ack")
  <2>d. tx[i] = "open" BY <1>0 DEF Station, ClaimStation, CommitInsert
  <2>c. /\ claims' \in [Ids -> Phases] /\ claims'[i] = "ack"
        /\ \A j \in Ids : j # i => claims'[j] = claims[j]
    BY <1>0, <1>2 DEF TypeOK, Phases, Goto
  <2>1. TypeOK'
    BY <1>0, <1>2, <2>c, <2>d, CommittedFacts
    DEF TypeOK, JournalTypeOK, Goto, NoFault, WorkerOnly, CommitInsert
  <2>2. ProcessInv'
    BY <1>0, <1>2 DEF ProcessInv, Running, Goto, WorkerOnly, CommitInsert
  <2>3. ASSUME NEW j \in Ids PROVE Station(j)'
    <3>0. Station(j) BY DEF IInv
    <3>1. CASE j = i
      BY <1>0, <1>2, <2>c, <2>d, <3>1, CommittedFacts
      DEF Station, IntakeStation, AppendStation, CatalogStation, ClaimStation,
        LedgerStation, Untouched, Published, Durable, Gone, Writing, Appending,
        Inert, Running, Goto, WorkerOnly, CommitInsert
    <3>2. CASE j # i
      BY <1>0, <1>2, <2>c, <2>d, <3>0, <3>2, CommittedFacts
      DEF Station, IntakeStation, AppendStation, CatalogStation, ClaimStation,
        LedgerStation, Untouched, Published, Durable, Gone, Writing, Appending,
        Inert, Running, Goto, WorkerOnly, CommitInsert
    <3> QED BY <3>1, <3>2
  <2> QED BY <2>1, <2>2, <2>3 DEF IInv
<1> QED BY <1>1, <1>2 DEF CommitInsert

(* Postgres decides a COMMIT whose connection was lost. *)
LEMMA OrphanDecidedStep == ASSUME IInv, NEW i \in Ids, OrphanDecided(i) PROVE IInv'
<1>0. TypeOK /\ ProcessInv /\ Station(i) BY DEF IInv
<1>1. CASE Committed(i)
  <2>d. tx[i] = "orphan" /\ claims[i] # "commit"
    BY <1>0 DEF Station, ClaimStation, OrphanDecided
  <2>1. TypeOK'
    BY <1>0, <1>1, <2>d, CommittedFacts
    DEF TypeOK, JournalTypeOK, NoFault, Elsewhere, OrphanDecided
  <2>2. ProcessInv'
    BY <1>0 DEF ProcessInv, Running, Elsewhere, OrphanDecided
  <2>3. ASSUME NEW j \in Ids PROVE Station(j)'
    <3>0. Station(j) BY DEF IInv
    <3>1. CASE j = i
      BY <1>0, <1>1, <2>d, <3>1, CommittedFacts
      DEF Station, IntakeStation, AppendStation, CatalogStation, ClaimStation,
        LedgerStation, Untouched, Published, Durable, Gone, Writing, Appending,
        Inert, Running, Elsewhere, OrphanDecided
    <3>2. CASE j # i
      BY <1>0, <1>1, <2>d, <3>0, <3>2, CommittedFacts
      DEF Station, IntakeStation, AppendStation, CatalogStation, ClaimStation,
        LedgerStation, Untouched, Published, Durable, Gone, Writing, Appending,
        Inert, Running, Elsewhere, OrphanDecided
    <3> QED BY <3>1, <3>2
  <2> QED BY <2>1, <2>2, <2>3 DEF IInv
<1>2. CASE tx' = [tx EXCEPT ![i] = "none"] /\ UNCHANGED <<receipts, traces, commits>>
  <2>1. TypeOK'
    BY <1>0, <1>2 DEF TypeOK, JournalTypeOK, TxStates, NoFault, Elsewhere, OrphanDecided
  <2>2. ProcessInv'
    BY <1>0 DEF ProcessInv, Running, Elsewhere, OrphanDecided
  <2>3. ASSUME NEW j \in Ids PROVE Station(j)'
    <3>0. Station(j) BY DEF IInv
    <3> QED BY <1>0, <1>2, <3>0
        DEF TypeOK, Station, IntakeStation, AppendStation, CatalogStation, ClaimStation,
        LedgerStation, Untouched, Published, Durable, Gone, Writing, Appending,
        Inert, Running, Elsewhere, OrphanDecided
  <2> QED BY <2>1, <2>2, <2>3 DEF IInv
<1> QED BY <1>1, <1>2 DEF OrphanDecided

(* A task takes the record out of the directory: remove_file, or the       *)
(* rename into quarantine.  Only a stored capture loses its file.          *)
LEMMA TakeAwayStep ==
    ASSUME IInv, NEW i \in Ids, claims[i] \in {"ack", "quarantine"},
           NEW p \in {"acksync", "quarsync"}, p = "acksync" => claims[i] = "ack",
           NEW f \in Inert, f = "none" => commits[i] > 0,
           \/ SetFile(i, f) /\ UNCHANGED len
           \/ f = disk[i] /\ UNCHANGED diskVars,
           Goto(i, p), WorkerOnly, UNCHANGED dbVars
    PROVE  IInv'
<1>0. TypeOK /\ ProcessInv /\ Station(i) BY DEF IInv
<1>e. i \in entries /\ Published(i) /\ mode \in Running /\ ~InSeq(ready, i)
      /\ disk[i] \in stable[i]
  BY <1>0 DEF Station, ClaimStation, CatalogStation
<1>c. /\ claims' \in [Ids -> Phases] /\ claims'[i] = p
      /\ \A j \in Ids : j # i => claims'[j] = claims[j]
  BY <1>0 DEF TypeOK, Phases, Goto
<1>d. /\ disk' \in [Ids -> File] /\ stable' \in [Ids -> SUBSET File] /\ len' = len
      /\ disk'[i] = f /\ stable'[i] = stable[i] \cup {f}
      /\ \A j \in Ids : j # i => disk'[j] = disk[j] /\ stable'[j] = stable[j]
  <2>1. JournalTypeOK /\ f \in File BY <1>0 DEF TypeOK, File, Inert
  <2>2. CASE SetFile(i, f) /\ UNCHANGED len
    <3>1. disk' \in [Ids -> File] /\ stable' \in [Ids -> SUBSET File]
      BY <2>1, <2>2, SetFileType
    <3> QED BY <2>1, <2>2, <3>1 DEF JournalTypeOK, SetFile
  <2>3. CASE f = disk[i] /\ UNCHANGED diskVars
    <3>1. stable[i] \cup {f} = stable[i] BY <1>e, <2>3
    <3> QED BY <2>1, <2>3, <3>1 DEF JournalTypeOK
  <2> QED BY <2>2, <2>3
<1>u. UNCHANGED <<entries, due, ready, quarantined, quarantine_ids, outcome, queue,
                  wid, wpc, wres, mode, receipts, traces, tx, commits, page, doomed>>
  BY DEF Goto, WorkerOnly
<1>1. TypeOK'
  BY <1>0, <1>c, <1>d, <1>u DEF TypeOK, JournalTypeOK, Goto, NoFault, WorkerOnly
<1>2. ProcessInv'
  BY <1>0, <1>u DEF ProcessInv, Running
<1>3. ASSUME NEW j \in Ids PROVE Station(j)'
  <2>0. Station(j) BY DEF IInv
  <2>1. CASE j # i
    BY <1>c, <1>d, <1>u, <2>0, <2>1
    DEF Station, IntakeStation, AppendStation, CatalogStation, ClaimStation,
        LedgerStation, Untouched, Published, Durable, Gone, Writing, Appending,
        Inert, Running
  <2>2. CASE j = i
    <3>1. tx[i] = "open" <=> FALSE BY <1>0 DEF Station, ClaimStation
    <3>2. commits[i] \in {0, 1} BY <1>0 DEF Station, LedgerStation
    <3>3. commits[i] = 0 => f = "quarantine" BY <3>2 DEF Inert
    <3>4. Durable(i) => commits[i] > 0 \/ Durable(i)'
      BY <1>d, <1>u, <3>2, <3>3 DEF Durable
    <3>5. IntakeStation(i)'
      BY <1>0, <1>e, <1>c, <1>u DEF Station, IntakeStation, Untouched, Writing
    <3>6. AppendStation(i)'
      BY <1>0, <1>e, <1>u, <3>2, <3>4
      DEF Station, AppendStation, ClaimStation, Writing, Appending
    <3>7. CatalogStation(i)'
      BY <1>0, <1>e, <1>c, <1>d, <1>u DEF Station, CatalogStation, Running
    <3>8. ClaimStation(i)'
      BY <1>0, <1>e, <1>c, <1>d, <1>u, <3>1, <3>2, <3>4
      DEF Station, ClaimStation, Published, Inert
    <3>9. LedgerStation(i)'
      BY <1>0, <1>e, <1>d, <1>u, <3>2, <3>4 DEF Station, LedgerStation, Gone
    <3> QED BY <2>2, <3>5, <3>6, <3>7, <3>8, <3>9 DEF Station
  <2> QED BY <2>1, <2>2
<1> QED BY <1>1, <1>2, <1>3 DEF IInv

(* The removal is synchronized: the record leaves the catalog. *)
LEMMA LeaveStep ==
    ASSUME IInv, NEW i \in Ids, claims[i] \in {"acksync", "quarsync"},
           SyncDirectory, DropEntry(i), EndTask(i), ready' = ready, WorkerOnly,
           NoFault, UNCHANGED dbVars, quarantined' \in Nat, quarantine_ids' \subseteq Ids
    PROVE  IInv'
<1>0. TypeOK /\ ProcessInv /\ Station(i) BY DEF IInv
<1>e. i \in entries /\ Published(i) /\ mode \in Running /\ ~InSeq(ready, i)
      /\ disk[i] \in Inert
  BY <1>0 DEF Station, ClaimStation, CatalogStation
<1>c. /\ claims' \in [Ids -> Phases] /\ claims'[i] = "none"
      /\ \A j \in Ids : j # i => claims'[j] = claims[j]
  BY <1>0 DEF TypeOK, Phases, EndTask
<1>d. /\ stable' \in [Ids -> SUBSET File] /\ disk' = disk /\ len' = len
      /\ \A j \in Ids : stable'[j] = {disk[j]}
  BY <1>0 DEF TypeOK, JournalTypeOK, SyncDirectory
<1>n. entries' = entries \ {i} /\ due' = due \ {i} BY DEF DropEntry
<1>u. UNCHANGED <<ready, outcome, queue, wid, wpc, wres, mode,
                  receipts, traces, tx, commits, page, doomed>>
  BY DEF WorkerOnly
<1>1. TypeOK'
  <2>1. used' \in Int BY <1>0, PipelineAssumption DEF TypeOK, EndTask
  <2>2. JournalTypeOK' BY <1>0, <1>d, <1>n, <1>u DEF TypeOK, JournalTypeOK
  <2> QED BY <1>0, <1>c, <1>u, <2>1, <2>2 DEF TypeOK, NoFault, WorkerOnly
<1>2. ProcessInv'
  BY <1>0, <1>e, <1>n, <1>u DEF ProcessInv, Running
<1>3. ASSUME NEW j \in Ids PROVE Station(j)'
  <2>0. Station(j) /\ disk[j] \in stable[j] BY DEF IInv, Station, CatalogStation
  <2>1. Durable(j) => Durable(j)' BY <1>d, <2>0 DEF Durable
  <2>2. IntakeStation(j)'
    BY <1>e, <1>c, <1>d, <1>n, <1>u, <2>0 DEF Station, IntakeStation, Untouched, Writing
  <2>3. AppendStation(j)'
    BY <1>0, <1>c, <1>d, <1>n, <1>u, <2>0, <2>1 DEF Station, AppendStation, Writing
  <2>4. CatalogStation(j)'
    BY <1>e, <1>c, <1>d, <1>n, <1>u, <2>0, <2>1
    DEF Station, CatalogStation, Published, Inert, Running
  <2>5. ClaimStation(j)'
    BY <1>0, <1>c, <1>d, <1>n, <1>u, <2>0, <2>1 DEF Station, ClaimStation, Published
  <2>6. LedgerStation(j)'
    BY <1>d, <1>n, <1>u, <2>0, <2>1 DEF Station, LedgerStation, Gone
  <2> QED BY <2>2, <2>3, <2>4, <2>5, <2>6 DEF Station
<1> QED BY <1>1, <1>2, <1>3 DEF IInv

(* Journal::acknowledge: remove_file. *)
LEMMA AcknowledgeRemoveStep == ASSUME IInv, NEW i \in Ids, AcknowledgeRemove(i) PROVE IInv'
<1>0. TypeOK /\ Station(i) /\ claims[i] = "ack" BY DEF IInv, AcknowledgeRemove
<1>1. CASE Fail(i) /\ Fault /\ UNCHANGED diskVars
  <2>1. faults' \in Nat BY <1>0, <1>1 DEF TypeOK, Fault
  <2> QED BY <1>0, <1>1, <2>1, FailStep DEF AcknowledgeRemove
<1>2. CASE AckRemove(i) /\ Goto(i, "acksync")
  <2>1. disk[i] \in stable[i] /\ "partial" \notin stable[i] /\ i \in receipts /\ commits[i] > 0
    BY <1>0 DEF Station, CatalogStation, ClaimStation, LedgerStation, Published
  <2>2. disk[i] \in File BY <1>0 DEF TypeOK, JournalTypeOK
  <2>3. CASE disk[i] \in TraceFile
    <3>1. SetFile(i, "none") /\ UNCHANGED len BY <1>2, <2>3 DEF AckRemove
    <3>2. "none" \in Inert BY DEF Inert
    <3> QED BY <1>0, <1>2, <2>1, <3>1, <3>2, TakeAwayStep DEF AcknowledgeRemove
  <2>4. CASE disk[i] \notin TraceFile
    <3>1. disk[i] \in Inert /\ UNCHANGED diskVars
      BY <1>2, <2>1, <2>2, <2>4 DEF AckRemove, File, Inert
    <3> QED BY <1>0, <1>2, <2>1, <3>1, TakeAwayStep DEF AcknowledgeRemove
  <2> QED BY <2>3, <2>4
<1> QED BY <1>1, <1>2 DEF AcknowledgeRemove

(* Journal::acknowledge: the directory sync and the catalog. *)
LEMMA AcknowledgeSyncStep == ASSUME IInv, NEW i \in Ids, AcknowledgeSync(i) PROVE IInv'
<1>0. TypeOK BY DEF IInv
<1>1. CASE Fail(i) /\ Fault /\ UNCHANGED diskVars
  <2>1. faults' \in Nat BY <1>0, <1>1 DEF TypeOK, Fault
  <2> QED BY <1>1, <2>1, FailStep DEF AcknowledgeSync
<1>2. CASE AckSync(i) /\ EndTask(i) /\ NoFault
  <2>1. quarantined' \in Nat /\ quarantine_ids' \subseteq Ids
    BY <1>0, <1>2 DEF TypeOK, JournalTypeOK, AckSync
  <2> QED BY <1>2, <2>1, LeaveStep DEF AcknowledgeSync, AckSync
<1> QED BY <1>1, <1>2 DEF AcknowledgeSync

(* Journal::quarantine: the rename. *)
LEMMA QuarantineRecordStep == ASSUME IInv, NEW i \in Ids, QuarantineRecord(i) PROVE IInv'
<1>0. TypeOK /\ Station(i) /\ claims[i] = "quarantine" BY DEF IInv, QuarantineRecord
<1>1. CASE Fail(i) /\ Fault /\ UNCHANGED diskVars
  <2>1. faults' \in Nat BY <1>0, <1>1 DEF TypeOK, Fault
  <2> QED BY <1>0, <1>1, <2>1, FailStep DEF QuarantineRecord
<1>2. CASE QuarantineRename(i) /\ Goto(i, "quarsync")
  <2>1. disk[i] \in stable[i] /\ commits[i] \in {0, 1} /\ (commits[i] = 0 => Durable(i))
    BY <1>0 DEF Station, CatalogStation, ClaimStation, LedgerStation, Published
  <2>2. disk[i] \in File BY <1>0 DEF TypeOK, JournalTypeOK
  <2>3. CASE disk[i] \in TraceFile \cup {"partial"}
    <3>1. SetFile(i, "quarantine") /\ UNCHANGED len BY <1>2, <2>3 DEF QuarantineRename
    <3>2. "quarantine" \in Inert BY DEF Inert
    <3> QED BY <1>0, <1>2, <3>1, <3>2, TakeAwayStep DEF QuarantineRecord
  <2>4. CASE disk[i] \notin TraceFile \cup {"partial"}
    <3>1. disk[i] \in Inert /\ UNCHANGED diskVars
      BY <1>2, <2>2, <2>4 DEF QuarantineRename, File, Inert
    <3>2. disk[i] = "none" => commits[i] > 0 BY <2>1 DEF Durable
    <3> QED BY <1>0, <1>2, <3>1, <3>2, TakeAwayStep DEF QuarantineRecord
  <2> QED BY <2>3, <2>4
<1> QED BY <1>1, <1>2 DEF QuarantineRecord

(* Journal::quarantine: the directory sync and the catalog. *)
LEMMA QuarantineDoneStep == ASSUME IInv, NEW i \in Ids, QuarantineDone(i) PROVE IInv'
<1>0. TypeOK BY DEF IInv
<1>1. CASE Fail(i) /\ Fault /\ UNCHANGED diskVars
  <2>1. faults' \in Nat BY <1>0, <1>1 DEF TypeOK, Fault
  <2> QED BY <1>1, <2>1, FailStep DEF QuarantineDone
<1>2. CASE QuarantineSync(i) /\ EndTask(i) /\ NoFault
  <2>1. quarantined' \in Nat /\ quarantine_ids' \subseteq Ids
    BY <1>0, <1>2 DEF TypeOK, JournalTypeOK, QuarantineSync
  <2> QED BY <1>2, <2>1, LeaveStep DEF QuarantineDone, QuarantineSync
<1> QED BY <1>1, <1>2 DEF QuarantineDone

(* The retry interval of a record passes. *)
LEMMA RetryDueStep == ASSUME IInv, NEW i \in Ids, RetryDue(i) PROVE IInv'
<1>0. TypeOK /\ ProcessInv BY DEF IInv
<1>1. TypeOK'
  BY <1>0 DEF TypeOK, JournalTypeOK, RetryDue, BecomeDue, NoFault, WorkerOnly
<1>2. ProcessInv'
  BY <1>0 DEF ProcessInv, Running, RetryDue, BecomeDue, WorkerOnly
<1>3. ASSUME NEW j \in Ids PROVE Station(j)'
  <2>0. Station(j) BY DEF IInv
  <2> QED BY <2>0
      DEF Station, IntakeStation, AppendStation, CatalogStation, ClaimStation,
        LedgerStation, Untouched, Published, Durable, Gone, Writing, Appending,
        Inert, Running, RetryDue, BecomeDue, WorkerOnly
<1> QED BY <1>1, <1>2, <1>3 DEF IInv

(* Retention deletes a trace. *)
LEMMA RotateTraceStep == ASSUME IInv, NEW i \in Ids, RotateTrace(i) PROVE IInv'
<1>0. TypeOK /\ ProcessInv BY DEF IInv
<1>1. TypeOK'
  BY <1>0 DEF TypeOK, JournalTypeOK, RotateTrace, NoFault, Elsewhere
<1>2. ProcessInv'
  BY <1>0 DEF ProcessInv, Running, RotateTrace, Elsewhere
<1>3. ASSUME NEW j \in Ids PROVE Station(j)'
  <2>0. Station(j) BY DEF IInv
  <2> QED BY <2>0
      DEF Station, IntakeStation, AppendStation, CatalogStation, ClaimStation,
        LedgerStation, Untouched, Published, Durable, Gone, Writing, Appending,
        Inert, Running, RotateTrace, Elsewhere
<1> QED BY <1>1, <1>2, <1>3 DEF IInv

(* The storage damages a record. *)
LEMMA CorruptStep == ASSUME IInv, NEW i \in Ids, Corrupt(i) PROVE IInv'
<1>0. TypeOK /\ ProcessInv /\ Station(i) BY DEF IInv
<1>k. PICK kind \in DamageKinds : Damage(i, kind) BY DEF Corrupt
<1>t. kind \in {"badbody", "badhead", "short"} BY PipelineAssumption
<1>d. /\ disk[i] = "trace" /\ disk'[i] = kind
      /\ stable'[i] = (stable[i] \ {"trace"}) \cup {kind}
      /\ \A j \in Ids : j # i => disk'[j] = disk[j] /\ stable'[j] = stable[j]
  BY <1>0, <1>k DEF TypeOK, JournalTypeOK, Damage
<1>1. TypeOK'
  <2>1. disk' \in [Ids -> File]
    BY <1>0, <1>k, <1>t DEF TypeOK, JournalTypeOK, Damage, File, TraceFile
  <2>2. stable' \in [Ids -> SUBSET File]
    <3>1. kind \in File BY <1>t DEF File, TraceFile
    <3> QED BY <1>0, <1>k, <3>1 DEF TypeOK, JournalTypeOK, Damage
  <2>3. len' \in [Ids -> Nat] BY <1>0, <1>k DEF TypeOK, JournalTypeOK, Damage
  <2>4. faults' \in Nat BY <1>0 DEF TypeOK, Corrupt, Fault
  <2> QED BY <1>0, <2>1, <2>2, <2>3, <2>4 DEF TypeOK, JournalTypeOK, Corrupt, Elsewhere
<1>2. ProcessInv'
  BY <1>0 DEF ProcessInv, Running, Corrupt, Elsewhere
<1>3. ASSUME NEW j \in Ids PROVE Station(j)'
  <2>0. Station(j) BY DEF IInv
  <2>1. CASE j # i
    BY <1>d, <2>0, <2>1
    DEF Station, IntakeStation, AppendStation, CatalogStation, ClaimStation,
        LedgerStation, Untouched, Published, Durable, Gone, Writing, Appending,
        Inert, Running, Corrupt, Elsewhere
  <2>2. CASE j = i
    <3>1. disk[i] \in stable[i] /\ disk[i] \notin Inert /\ stable[i] # {"none"}
      BY <1>0, <1>d DEF Station, CatalogStation, Inert
    <3>2. "partial" \notin stable[i] => "partial" \notin stable'[i]
      BY <1>d, <1>t
    <3>3. Durable(i) => Durable(i)' BY <1>d, <1>t DEF Durable
    <3>u. UNCHANGED <<entries, ready, outcome, queue, wid, wpc, wres, mode, claims,
                      receipts, traces, tx, commits, page, doomed>>
      BY DEF Corrupt, Elsewhere
    <3>4. IntakeStation(i)'
      BY <1>0, <3>1, <3>u DEF Station, IntakeStation, Untouched, Writing
    <3>5. AppendStation(i)'
      BY <1>0, <1>d, <1>t, <3>1, <3>3, <3>u
      DEF Station, AppendStation, Writing, TraceFile
    <3>6. CatalogStation(i)'
      BY <1>0, <1>d, <1>t, <3>1, <3>2, <3>3, <3>u
      DEF Station, CatalogStation, Published, TraceFile, Inert
    <3>7. ClaimStation(i)'
      BY <1>0, <3>1, <3>2, <3>3, <3>u DEF Station, ClaimStation, Published
    <3>8. LedgerStation(i)'
      BY <1>0, <3>1, <3>3, <3>u DEF Station, LedgerStation, Gone
    <3> QED BY <2>2, <3>4, <3>5, <3>6, <3>7, <3>8 DEF Station
  <2> QED BY <2>1, <2>2
<1> QED BY <1>1, <1>2, <1>3 DEF IInv

-----------------------------------------------------------------------------
(* The receipt cleaner.                                                    *)

(* clean_receipt_page: the SELECT. *)
LEMMA CleanSelectStep == ASSUME IInv, CleanSelect PROVE IInv'
<1>0. TypeOK /\ ProcessInv BY DEF IInv
<1>d. /\ cursor' \in Ids \cup {0} /\ next' \in Ids \cup {0}
      /\ \A i \in page' : i \in receipts
      /\ UNCHANGED doomed /\ doomed = {}
  <2>1. ReceiptPage \subseteq receipts /\ receipts \subseteq Ids /\ cursor \in Ids \cup {0}
        /\ next \in Ids \cup {0}
    BY <1>0 DEF TypeOK, ReceiptPage
  <2> QED BY <2>1 DEF CleanSelect, NextCursor
<1>1. TypeOK'
  BY <1>0, <1>d DEF TypeOK, JournalTypeOK, CleanSelect, CleanOnly, NoFault
<1>2. ProcessInv'
  BY <1>0 DEF ProcessInv, Running, CleanSelect, CleanOnly
<1>3. ASSUME NEW j \in Ids PROVE Station(j)'
  <2>0. Station(j) BY DEF IInv
  <2>u. /\ UNCHANGED <<disk, stable, entries, ready, outcome, queue, wid, wpc, wres,
                       mode, claims, receipts, traces, tx, commits, doomed>>
        /\ mode \in Running
    BY DEF CleanSelect, CleanOnly, Running
  <2>1. IntakeStation(j)' /\ AppendStation(j)' /\ CatalogStation(j)' /\ ClaimStation(j)'
    BY <2>0, <2>u DEF Station, IntakeStation, AppendStation, CatalogStation,
       ClaimStation, Untouched, Published, Durable, Writing
  <2>2. LedgerStation(j)'
    BY <1>d, <2>0, <2>u DEF Station, LedgerStation, CatalogStation, Durable, Gone
  <2> QED BY <2>1, <2>2 DEF Station
<1> QED BY <1>1, <1>2, <1>3 DEF IInv

(* clean_receipt_page: what of the page no record needs. *)
LEMMA CleanFilterStep == ASSUME IInv, CleanFilter PROVE IInv'
<1>0. TypeOK /\ ProcessInv BY DEF IInv
<1>d. /\ cursor' \in Ids \cup {0} /\ next' \in Ids \cup {0}
      /\ page' = {} /\ doomed' \subseteq page
      /\ \A i \in doomed' : i \in receipts /\ i \notin entries
  <2>1. page \subseteq Ids /\ cursor \in Ids \cup {0} /\ next \in Ids \cup {0}
    BY <1>0 DEF TypeOK
  <2>2. \A i \in page : i \in receipts BY <2>1 DEF IInv, Station, LedgerStation
  <2> QED BY <2>1, <2>2 DEF CleanFilter, receipt_can_be_removed
<1>m. mode \in Running BY <1>0 DEF ProcessInv, CleanFilter
<1>1. TypeOK'
  BY <1>0, <1>d DEF TypeOK, JournalTypeOK, CleanFilter, CleanOnly, NoFault
<1>2. ProcessInv'
  BY <1>0, <1>d, <1>m DEF ProcessInv, CleanFilter, CleanOnly
<1>3. ASSUME NEW j \in Ids PROVE Station(j)'
  <2>0. Station(j) BY DEF IInv
  <2>u. /\ UNCHANGED <<disk, stable, entries, ready, outcome, queue, wid, wpc, wres,
                       mode, claims, receipts, traces, tx, commits>>
        /\ mode \in Running
    BY <1>m DEF CleanFilter, CleanOnly
  <2>1. IntakeStation(j)' /\ AppendStation(j)' /\ CatalogStation(j)' /\ ClaimStation(j)'
    BY <2>0, <2>u DEF Station, IntakeStation, AppendStation, CatalogStation,
       ClaimStation, Untouched, Published, Durable, Writing
  <2>2. LedgerStation(j)'
    BY <1>d, <2>0, <2>u DEF Station, LedgerStation, CatalogStation, Durable, Gone
  <2> QED BY <2>1, <2>2 DEF Station
<1> QED BY <1>1, <1>2, <1>3 DEF IInv

(* clean_receipt_page: the delete. *)
LEMMA CleanDeleteStep == ASSUME IInv, CleanDelete PROVE IInv'
<1>0. TypeOK /\ ProcessInv BY DEF IInv
<1>1. TypeOK'
  <2>1. JournalTypeOK'
    BY <1>0 DEF TypeOK, JournalTypeOK, CleanDelete, CleanOnly
  <2>2. /\ receipts' \subseteq Ids /\ doomed' \subseteq Ids /\ faults' \in Nat
        /\ cursor' \in Ids \cup {0} /\ next' = 0
    BY <1>0 DEF TypeOK, CleanDelete, NoFault, Fault
  <2> QED BY <1>0, <2>1, <2>2 DEF TypeOK, CleanDelete, CleanOnly
<1>2. ProcessInv'
  BY <1>0 DEF ProcessInv, Running, CleanDelete, CleanOnly
<1>3. ASSUME NEW j \in Ids PROVE Station(j)'
  <2>0. Station(j) BY DEF IInv
  <2>u. /\ UNCHANGED <<disk, stable, entries, ready, outcome, queue, wid, wpc, wres,
                       mode, claims, traces, tx, commits>>
        /\ receipts' = receipts \/ receipts' = receipts \ doomed
        /\ doomed' = {} /\ page' = {}
    BY <1>0 DEF ProcessInv, CleanDelete, CleanOnly
  <2>1. IntakeStation(j)' /\ AppendStation(j)' /\ CatalogStation(j)'
    BY <2>0, <2>u DEF Station, IntakeStation, AppendStation, CatalogStation,
       Untouched, Published, Durable, Writing
  <2>3. ClaimStation(j)'
    BY <2>0, <2>u DEF Station, ClaimStation, LedgerStation, Published, Durable, Gone
  <2>4. LedgerStation(j)'
    BY <2>0, <2>u DEF Station, LedgerStation, Durable, Gone
  <2> QED BY <2>1, <2>3, <2>4 DEF Station
<1> QED BY <1>1, <1>2, <1>3 DEF IInv

-----------------------------------------------------------------------------
(* Start, shutdown and failure of the process.                             *)

(* The catalog, the queue and the tasks of the process are empty. *)
LEMMA EmptySeqFacts ==
    <<>> \in Seq(Ids) /\ Distinct(<<>>) /\ \A y : ~InSeq(<<>>, y)
BY DEF Distinct, InSeq

(* Journal::open: the scan, in any order of modification times. *)
LEMMA OrdersFacts ==
    ASSUME NEW S \in SUBSET Ids, NEW s \in Orders(S)
    PROVE  s \in Seq(Ids) /\ Distinct(s) /\ \A y : InSeq(s, y) => y \in S
<1>1. Cardinality(S) \in Nat BY JournalAssumption, FS_Subset, FS_CardinalityType
<1>2. s \in [1 .. Cardinality(S) -> Ids] /\ \A k \in 1 .. Cardinality(S) : s[k] \in S
  BY DEF Orders
<1>3. s \in Seq(Ids) BY <1>1, <1>2, IsASeq
<1> QED BY <1>2, <1>3 DEF Orders, Distinct, InSeq

(* Journal::open: what it finds becomes the catalog, or goes to quarantine. *)
LEMMA OpenJournalStep == ASSUME IInv, OpenJournal PROVE IInv'
<1>0. TypeOK /\ ProcessInv BY DEF IInv
<1> DEFINE found == {i \in Ids : disk[i] \in HeaderOK}
           aside == {i \in Ids : Scanned(disk[i]) = "quarantine"}
<1>r. ready' \in Seq(Ids) /\ Distinct(ready') /\ \A y : InSeq(ready', y) => y \in found
  <2>1. found \in SUBSET Ids /\ ready' \in Orders(found) BY DEF OpenJournal, OpenScan
  <2> QED BY <2>1, OrdersFacts
<1>d. /\ disk' \in [Ids -> File] /\ stable' \in [Ids -> SUBSET File]
      /\ \A j \in Ids : /\ disk'[j] = Scanned(disk[j])
                        /\ stable'[j] = stable[j] \cup {Scanned(disk[j])}
  <2>1. \A f \in File : Scanned(f) \in File
    BY DEF Scanned, File, TraceFile, HeaderOK
  <2>2. /\ disk' = [i \in Ids |-> Scanned(disk[i])]
        /\ stable' = [i \in Ids |-> stable[i] \cup {Scanned(disk[i])}]
    BY DEF OpenJournal, OpenScan
  <2>3. disk \in [Ids -> File] /\ stable \in [Ids -> SUBSET File]
    BY <1>0 DEF TypeOK, JournalTypeOK
  <2> HIDE DEF Scanned
  <2> QED BY <2>1, <2>2, <2>3
<1>q. quarantined' \in Nat /\ quarantine_ids' \subseteq Ids
      /\ entries' = found /\ due' = found /\ len' = len
  <2>1. aside \in SUBSET Ids /\ quarantined' = Cardinality(aside) /\ quarantine_ids' = aside
        /\ entries' = found /\ due' = found /\ len' = len
    BY DEF OpenJournal, OpenScan
  <2>2. Cardinality(aside) \in Nat
    BY <2>1, JournalAssumption, FS_Subset, FS_CardinalityType
  <2> QED BY <2>1, <2>2
<1>1. TypeOK'
  <2>1. JournalTypeOK' BY <1>0, <1>r, <1>d, <1>q DEF TypeOK, JournalTypeOK
  <2> QED BY <1>0, <2>1 DEF TypeOK, Modes, OpenJournal, StartOnly
<1>2. ProcessInv'
  BY <1>0, <1>r DEF ProcessInv, Running, OpenJournal, StartOnly
<1>3. ASSUME NEW j \in Ids PROVE Station(j)'
  <2>0. Station(j) BY DEF IInv
  <2>s. /\ disk[j] \in File /\ disk[j] \in stable[j]
        /\ stable[j] = {"none"} => stable'[j] = {"none"}
        /\ commits[j] = 0 /\ Durable(j) => Durable(j)'
        /\ stable[j] \subseteq Inert => stable'[j] \subseteq Inert /\ j \notin found
        /\ disk'[j] \in (IF j \in found THEN TraceFile ELSE Inert)
    <3>1. disk[j] \in File /\ disk[j] \in stable[j]
      BY <1>0, <2>0 DEF TypeOK, JournalTypeOK, Station, CatalogStation
    <3>2. stable'[j] = stable[j] \cup {Scanned(disk[j])} /\ disk'[j] = Scanned(disk[j])
      BY <1>d
    <3> QED BY <3>1, <3>2 DEF Durable, Scanned, HeaderOK, Inert, TraceFile, File
  <2>c. mode \notin Running /\ claims[j] = "none" /\ mode' = "opening" /\ wpc = "recv"
        /\ page = {} /\ doomed = {} /\ queue = <<>>
    BY <1>0, <2>0 DEF Station, ClaimStation, ProcessInv, OpenJournal, Running
  <2>u. UNCHANGED <<outcome, queue, wid, wpc, wres, claims, receipts, traces, tx,
                    commits, page, doomed>>
    BY DEF OpenJournal, StartOnly
  <2>1. IntakeStation(j)'
    <3>1. stable[j] = {"none"} => j \notin found BY <2>s DEF Inert
    <3> QED BY <1>q, <2>0, <2>s, <2>c, <2>u, <3>1, EmptySeqFacts
        DEF Station, IntakeStation, Untouched, Writing
  <2>2. AppendStation(j)'
    BY <2>0, <2>s, <2>c, <2>u DEF Station, AppendStation, LedgerStation, Writing
  <2>3. CatalogStation(j)'
    BY <1>d, <1>q, <1>r, <2>s, <2>c, <2>u DEF CatalogStation, Running
  <2>4. ClaimStation(j)'
    BY <2>0, <2>c, <2>u DEF Station, ClaimStation
  <2>5. LedgerStation(j)'
    BY <1>q, <2>0, <2>s, <2>c, <2>u DEF Station, LedgerStation, Gone
  <2> QED BY <2>1, <2>2, <2>3, <2>4, <2>5 DEF Station
<1> QED BY <1>1, <1>2, <1>3 DEF IInv

(* The flush at the end of Journal::open, after which receipts may go. *)
LEMMA ServeStep == ASSUME IInv, Serve PROVE IInv'
<1>0. TypeOK /\ ProcessInv BY DEF IInv
<1>d. /\ stable' \in [Ids -> SUBSET File] /\ disk' = disk /\ len' = len
      /\ \A j \in Ids : stable'[j] = {disk[j]}
  BY <1>0 DEF TypeOK, JournalTypeOK, Serve, OpenSync, SyncDirectory
<1>1. TypeOK'
  <2>1. JournalTypeOK' BY <1>0, <1>d DEF TypeOK, JournalTypeOK, Serve, OpenSync
  <2> QED BY <1>0, <2>1 DEF TypeOK, Modes, Serve, StartOnly
<1>2. ProcessInv'
  BY <1>0 DEF ProcessInv, Running, Serve, OpenSync, StartOnly
<1>3. ASSUME NEW j \in Ids PROVE Station(j)'
  <2>0. Station(j) /\ disk[j] \in stable[j] BY DEF IInv, Station, CatalogStation
  <2>1. Durable(j) => Durable(j)' BY <1>d, <2>0 DEF Durable
  <2>c. mode = "opening" /\ mode' = "up" /\ claims[j] = "none" /\ wpc = "recv" /\ page = {} /\ doomed = {}
    BY <1>0, <2>0 DEF Station, ClaimStation, ProcessInv, Serve, Running
  <2>u. UNCHANGED <<entries, ready, outcome, queue, wid, wpc, wres, claims, receipts,
                    traces, tx, commits, page, doomed>>
    BY DEF Serve, OpenSync, StartOnly
  <2>2. IntakeStation(j)' /\ AppendStation(j)'
    BY <1>d, <2>0, <2>1, <2>c, <2>u
    DEF Station, IntakeStation, AppendStation, Untouched, Writing
  <2>3. CatalogStation(j)'
    BY <1>d, <2>0, <2>c, <2>u
    DEF Station, CatalogStation, Published, Durable, Running, TraceFile, Inert
  <2>4. ClaimStation(j)' BY <2>0, <2>c, <2>u DEF Station, ClaimStation
  <2>5. LedgerStation(j)'
    BY <1>d, <2>0, <2>1, <2>c, <2>u DEF Station, LedgerStation, Gone
  <2> QED BY <2>2, <2>3, <2>4, <2>5 DEF Station
<1> QED BY <1>1, <1>2, <1>3 DEF IInv

(* Shutdown signal, end of the writer, exit after the drain timeout. *)
LEMMA ModeStep ==
    ASSUME IInv, BeginShutdown \/ WriterFinished \/ ExitAborted PROVE IInv'
<1>0. TypeOK /\ ProcessInv BY DEF IInv
<1>u. /\ UNCHANGED <<disk, stable, len, entries, due, ready, quarantined, quarantine_ids,
                     outcome, queue, used, wid, wpc, wres, claims, receipts, traces, tx,
                     commits, page, doomed, cursor, next, faults>>
      /\ \/ mode = "up" /\ mode' = "closing"
         \/ mode = "closing" /\ mode' = "done" /\ queue = <<>> /\ wpc = "recv"
         \/ mode = "aborted" /\ mode' = "down"
      /\ stops' = stops \/ stops' = stops + 1
  BY DEF BeginShutdown, WriterFinished, ExitAborted, StartOnly
<1>1. TypeOK' BY <1>0, <1>u DEF TypeOK, JournalTypeOK, Modes
<1>2. ProcessInv' BY <1>0, <1>u DEF ProcessInv, Running
<1>3. ASSUME NEW j \in Ids PROVE Station(j)'
  <2>0. Station(j) BY DEF IInv
  <2> QED BY <1>u, <2>0
      DEF Station, IntakeStation, AppendStation, CatalogStation, ClaimStation,
        LedgerStation, Untouched, Published, Durable, Gone, Writing, Appending,
        Inert, Running
<1> QED BY <1>1, <1>2, <1>3 DEF IInv

(* The process ends; a power loss may take the directory back. *)
LEMMA LoseProcessStep ==
    ASSUME IInv, LoseProcess, LosePower \/ UNCHANGED diskVars,
           mode' \in {"exited", "aborted", "down"}, stops' \in Nat
    PROVE  IInv'
<1>0. TypeOK /\ ProcessInv BY DEF IInv
<1>d. /\ disk' \in [Ids -> File] /\ stable' \in [Ids -> SUBSET File] /\ len' = len
      /\ \A j \in Ids : disk'[j] \in stable'[j] /\ stable'[j] \subseteq stable[j]
  <2>1. CASE UNCHANGED diskVars
    <3>1. \A j \in Ids : disk[j] \in stable[j] BY DEF IInv, Station, CatalogStation
    <3> QED BY <1>0, <2>1, <3>1 DEF TypeOK, JournalTypeOK
  <2>2. CASE LosePower
    <3>1. PICK d \in [Ids -> File] :
             /\ \A i \in Ids : d[i] \in stable[i]
             /\ disk' = d /\ stable' = [i \in Ids |-> {d[i]}] /\ len' = len
      BY <2>2 DEF LosePower
    <3> QED BY <3>1
  <2> QED BY <2>1, <2>2
<1>t. /\ tx' \in [Ids -> TxStates]
      /\ \A j \in Ids : tx'[j] # "open" /\ (tx'[j] = "none" <=> tx[j] = "none")
  BY <1>0 DEF TypeOK, TxStates, LoseProcess
<1>u. /\ UNCHANGED <<outcome, receipts, traces, commits, faults>>
      /\ entries' = {} /\ due' = {} /\ ready' = <<>> /\ queue' = <<>> /\ used' = 0
      /\ quarantined' = 0 /\ quarantine_ids' = {}
      /\ wpc' = "recv" /\ wid' = 0 /\ wres' = "none"
      /\ page' = {} /\ doomed' = {} /\ cursor' = 0 /\ next' = 0
      /\ claims' = [i \in Ids |-> "none"]
  BY DEF LoseProcess, ForgetCatalog
<1>1. TypeOK'
  <2>1. JournalTypeOK' BY <1>0, <1>d, <1>u, EmptySeqFacts DEF TypeOK, JournalTypeOK
  <2>2. claims' \in [Ids -> Phases] BY <1>u DEF Phases
  <2> QED BY <1>0, <1>t, <1>u, <2>1, <2>2, EmptySeqFacts DEF TypeOK, Modes, WriterSteps
<1>2. ProcessInv' BY <1>u, EmptySeqFacts DEF ProcessInv
<1>3. ASSUME NEW j \in Ids PROVE Station(j)'
  <2>0. Station(j) BY DEF IInv
  <2>1. (Durable(j) => Durable(j)') /\ (stable[j] = {"none"} => stable'[j] = {"none"})
    BY <1>d DEF Durable
  <2>2. claims'[j] = "none" BY <1>u
  <2>3. IntakeStation(j)'
    BY <1>t, <1>u, <2>0, <2>1, <2>2, EmptySeqFacts
    DEF Station, IntakeStation, Untouched, Writing
  <2>4. AppendStation(j)'
    BY <1>u, <2>0, <2>1 DEF Station, AppendStation, Writing
  <2>5. CatalogStation(j)'
    BY <1>d, <1>u, EmptySeqFacts DEF CatalogStation, Running
  <2>6. ClaimStation(j)' BY <1>t, <2>2 DEF ClaimStation
  <2>7. LedgerStation(j)'
    BY <1>d, <1>t, <1>u, <2>0, <2>1 DEF Station, LedgerStation, Gone
  <2> QED BY <2>3, <2>4, <2>5, <2>6, <2>7 DEF Station
<1> QED BY <1>1, <1>2, <1>3 DEF IInv

(* Clean exit, drain timeout and crash. *)
LEMMA StopStep == ASSUME IInv, ExitClean \/ DrainTimeout \/ Crash PROVE IInv'
<1>1. stops \in Nat BY DEF IInv, TypeOK
<1>2. stops' \in Nat BY <1>1 DEF ExitClean, DrainTimeout, Crash
<1> QED BY <1>2, LoseProcessStep DEF ExitClean, DrainTimeout, Crash

-----------------------------------------------------------------------------
(* An empty directory, an empty database and no process. *)
LEMMA InitIInv == Init => IInv
<1> SUFFICES ASSUME Init PROVE IInv OBVIOUS
<1>1. TypeOK
  <2>1. disk \in [Ids -> File] /\ stable \in [Ids -> SUBSET File]
    BY DEF Init, JournalInit, File
  <2> QED BY <2>1, EmptySeqFacts
      DEF Init, JournalInit, IdleProcess, TypeOK, JournalTypeOK, Modes, Outcomes,
          Phases, WriterSteps, TxStates
<1>2. ProcessInv
  BY EmptySeqFacts DEF Init, JournalInit, IdleProcess, ProcessInv
<1>3. ASSUME NEW i \in Ids PROVE Station(i)
  <2>1. /\ disk[i] = "none" /\ stable[i] = {"none"} /\ outcome[i] = "none"
        /\ claims[i] = "none" /\ tx[i] = "none" /\ commits[i] = 0
        /\ entries = {} /\ receipts = {} /\ traces = {} /\ page = {} /\ doomed = {}
        /\ ready = <<>> /\ queue = <<>> /\ wpc = "recv" /\ wres = "none"
        /\ mode = "down"
    BY DEF Init, JournalInit, IdleProcess
  <2> QED BY <2>1, EmptySeqFacts
      DEF Station, IntakeStation, AppendStation, CatalogStation, ClaimStation,
        LedgerStation, Untouched, Writing, Gone, Running
<1> QED BY <1>1, <1>2, <1>3 DEF IInv

(* Every step of the pipeline, and every step of its environment. *)
LEMMA NextIInv == IInv /\ [Next]_vars => IInv'
<1> SUFFICES ASSUME IInv, [Next]_vars PROVE IInv' OBVIOUS
<1>1. CASE UNCHANGED vars
  <2>1. TypeOK' BY <1>1 DEF vars, IInv, TypeOK, JournalTypeOK
  <2>2. ProcessInv' BY <1>1 DEF vars, IInv, ProcessInv
  <2>3. ASSUME NEW j \in Ids PROVE Station(j)'
    <3>0. Station(j) BY DEF IInv
    <3> QED BY <1>1, <3>0
        DEF vars, Station, IntakeStation, AppendStation, CatalogStation, ClaimStation,
          LedgerStation, Untouched, Published, Durable, Gone, Writing
  <2> QED BY <2>1, <2>2, <2>3 DEF IInv
<1>2. ASSUME NEW i \in Ids, Record(i) \/ RetryDue(i) PROVE IInv'
  BY <1>2, RecordStep, RetryDueStep
<1>3. ASSUME NEW i \in Ids, ReplayStep(i) PROVE IInv'
  BY <1>3, CheckReceiptStep, ReadRecordStep, BeginInsertStep, CommitInsertStep,
     AcknowledgeRemoveStep, AcknowledgeSyncStep, QuarantineRecordStep, QuarantineDoneStep
  DEF ReplayStep
<1>4. ASSUME NEW i \in Ids, OrphanDecided(i) \/ RotateTrace(i) \/ Corrupt(i) PROVE IInv'
  BY <1>4, OrphanDecidedStep, RotateTraceStep, CorruptStep
<1>5. CASE \/ WriterRecv \/ WriterReserve \/ WriterWrite \/ WriterRename
           \/ WriterSync \/ WriterQuarantine \/ WriterQuarSync \/ WriterRelease
  BY <1>5, WriterRecvStep, WriterReserveStep, WriterWriteStep, WriterRenameStep,
     WriterSyncStep, WriterQuarantineStep, WriterQuarSyncStep, WriterReleaseStep
<1>6. CASE ClaimRecord \/ CleanSelect \/ CleanFilter \/ CleanDelete
  BY <1>6, ClaimRecordStep, CleanSelectStep, CleanFilterStep, CleanDeleteStep
<1>7. CASE \/ OpenJournal \/ Serve \/ BeginShutdown \/ WriterFinished
           \/ ExitClean \/ DrainTimeout \/ ExitAborted \/ Crash
  BY <1>7, OpenJournalStep, ServeStep, ModeStep, StopStep
<1> QED BY <1>1, <1>2, <1>3, <1>4, <1>5, <1>6, <1>7 DEF Next

(* Every reachable state has every capture at a station. *)
THEOREM Invariance == Spec => []IInv
BY InitIInv, NextIInv, PTL DEF Spec

(* Type correctness, of the model of all the pipeline's state. *)
THEOREM TypeCorrect == Spec => []TypeOK
<1>1. IInv => TypeOK BY DEF IInv
<1> QED BY <1>1, Invariance, PTL

(* insert_journaled_trace takes effect at most once per capture, for any   *)
(* number of replays, lost COMMITs, crashes and cleaned receipts.          *)
THEOREM StoredAtMostOnce == Spec => []AtMostOnce
<1>1. IInv => AtMostOnce BY DEF IInv, Station, LedgerStation, AtMostOnce
<1> QED BY <1>1, Invariance, PTL

(* What Journal::append reported as written outlives every power loss      *)
(* until its trace is committed.                                           *)
THEOREM WrittenIsDurable == Spec => []WrittenSurvives
<1>1. IInv => WrittenSurvives
  BY DEF IInv, Station, AppendStation, LedgerStation, Durable, WrittenSurvives
<1> QED BY <1>1, Invariance, PTL

(* clean_receipts never deletes the receipt of a stored capture of which a *)
(* replayable record could come back.                                      *)
THEOREM ReceiptsOutlive == Spec => []ReceiptOutlivesRecord
<1>1. IInv => ReceiptOutlivesRecord
  <2> SUFFICES ASSUME IInv, NEW i \in Ids, commits[i] > 0, i \notin receipts
               PROVE  stable[i] \cap TraceFile = {}
    BY DEF ReceiptOutlivesRecord
  <2>1. commits[i] = 1 /\ stable[i] \subseteq Inert
    BY DEF IInv, Station, LedgerStation, Gone
  <2> QED BY <2>1 DEF Inert, TraceFile
<1> QED BY <1>1, Invariance, PTL
=============================================================================
