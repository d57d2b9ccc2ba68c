------------------------- MODULE DurableCaptureBounds -------------------------
(***************************************************************************)
(* What DurableCapture never exceeds or loses track of, for every set of   *)
(* captures and all limits: OwnershipIsExact, CleanExitIsDrained and       *)
(* WithinCapacity.  The proofs build on IInv of DurableCaptureProofs,      *)
(* which says where each capture is; the invariant here says who counts    *)
(* it there: OwnerInv for memory and ownership, CapacityInv for the        *)
(* directory and the counters of the catalog.                              *)
(*                                                                         *)
(* The last part shows that DurableCapture implements CaptureStore,        *)
(* whatever faults, crashes and restarts there are.                        *)
(***************************************************************************)
EXTENDS DurableCaptureProofs

(* The captures whose intake memory is reserved. *)
InMemory == {i \in Ids : InSeq(queue, i) \/ wid = i}

(* The writer holds a capture only while it appends it. *)
WriterInv == wpc = "recv" => wid = 0

(* A pending record is queued, with a replay task, with the writer, or it  *)
(* is what remains of an append whose quarantine failed.                   *)
Owned(i) ==
    i \in entries /\ claims[i] = "none" /\ ~InSeq(ready, i) =>
        \/ outcome[i] = "write_failed"
        \/ wid = i /\ (wpc = "release" => wres = "write_failed")

MemoryInv == used = SumOf(IntakeMem, InMemory) + SumOf(ReplayMem, Claimed) /\ used <= MemLimit

OwnerInv == WriterInv /\ MemoryInv /\ \A i \in Ids : Owned(i)

-----------------------------------------------------------------------------
(* A record file has its full length, and one that the storage damaged is  *)
(* not also the record it was.                                             *)
FileInv(i) ==
    /\ len[i] <= Size[i]
    /\ stable[i] \cap HeaderOK # {} => len[i] = Size[i]
    /\ "trace" \in stable[i] => "badbody" \notin stable[i]
    /\ Writing(i) /\ wpc = "write" => stable[i] = {"none"}
    /\ Writing(i) /\ wpc = "rename" => len[i] = Size[i] /\ stable[i] \cap TraceFile = {}

(* The directory against the catalog: what left the catalog was            *)
(* synchronized, and what is neither there nor counted as quarantine does  *)
(* not exist, the quarantines of stored captures excepted.                 *)
CountedInv(i) ==
    /\ i \in quarantine_ids => disk[i] = "quarantine" /\ i \notin entries
    /\ mode \in Running /\ i \notin entries =>
          /\ stable[i] = {disk[i]}
          /\ disk[i] = "none" \/ i \in quarantine_ids \/ SetAside(i)
    /\ mode = "opening" /\ disk[i] = "quarantine" => i \in quarantine_ids

May == {i \in Ids : stable[i] # {"none"} /\ ~SetAside(i)}
Aside == {i \in Ids : SetAside(i)}

(* The counters are sums, and what they count, without the quarantines of  *)
(* stored captures, is within the limits.                                  *)
CounterInv ==
    /\ bytes = SumOf(Size, entries)
    /\ quarantined = Cardinality(quarantine_ids)
    /\ quarantine_bytes = SumOf(len, quarantine_ids)
    /\ mode \notin Running \cup {"opening"} => quarantine_ids = {}

BudgetInv ==
    /\ SumOf(Size, entries) + SumOf(len, quarantine_ids \ Aside) <= MaxBytes
    /\ Cardinality(entries) + Cardinality(quarantine_ids \ Aside) <= MaxRecords

(* Between a stop and the end of the next open nothing is added. *)
RemainsInv == SumOf(len, May) <= MaxBytes /\ Cardinality(May) <= MaxRecords

CapacityInv ==
    /\ \A i \in Ids : FileInv(i) /\ CountedInv(i)
    /\ CounterInv /\ BudgetInv /\ RemainsInv

-----------------------------------------------------------------------------
(* Memory.                                                                 *)

(* The captures are finitely many and their sizes naturals. *)
LEMMA FiniteIds ==
  ASSUME NEW S, S \subseteq Ids
  PROVE  IsFiniteSet(S) /\ (\A x \in S : IntakeMem[x] \in Nat) /\ (\A x \in S : ReplayMem[x] \in Nat)
BY JournalAssumption, PipelineAssumption, FS_Subset

(* Nothing is reserved or freed. *)
LEMMA MemorySame ==
  ASSUME MemoryInv, used' = used, InMemory' = InMemory, Claimed' = Claimed
  PROVE  MemoryInv'
BY DEF MemoryInv

(* A capture is queued. *)
LEMMA MemoryIntake ==
  ASSUME MemoryInv, NEW i \in Ids, i \notin InMemory, used' = used + IntakeMem[i], used' <= MemLimit,
         InMemory' = InMemory \cup {i}, Claimed' = Claimed
  PROVE  MemoryInv'
<1>1. InMemory \subseteq Ids /\ Claimed \subseteq Ids BY DEF InMemory, Claimed
<1>2. SumOf(IntakeMem, InMemory \cup {i}) = SumOf(IntakeMem, InMemory) + IntakeMem[i]
      /\ SumOf(IntakeMem, InMemory) \in Nat
  <2>1. IsFiniteSet(InMemory) /\ \A x \in InMemory : IntakeMem[x] \in Nat BY <1>1, FiniteIds
  <2>2. IntakeMem[i] \in Nat BY PipelineAssumption
  <2> QED BY <2>1, <2>2, SumAdd
<1>3. SumOf(ReplayMem, Claimed) \in Nat BY <1>1, FiniteIds, SumType
<1>4. IntakeMem[i] \in Nat BY PipelineAssumption
<1> QED BY <1>2, <1>3, <1>4 DEF MemoryInv

(* A capture leaves the writer. *)
LEMMA MemoryRelease ==
  ASSUME MemoryInv, NEW i \in InMemory, used' = used - IntakeMem[i],
         InMemory' = InMemory \ {i}, Claimed' = Claimed
  PROVE  MemoryInv'
<1>1. InMemory \subseteq Ids /\ Claimed \subseteq Ids BY DEF InMemory, Claimed
<1>2. SumOf(IntakeMem, InMemory) = SumOf(IntakeMem, InMemory \ {i}) + IntakeMem[i]
      /\ SumOf(IntakeMem, InMemory \ {i}) \in Nat
  BY <1>1, FiniteIds, SumRemove
<1>3. SumOf(ReplayMem, Claimed) \in Nat BY <1>1, FiniteIds, SumType
<1>4. IntakeMem[i] \in Nat /\ MemLimit \in Nat BY <1>1, PipelineAssumption
<1> QED BY <1>2, <1>3, <1>4 DEF MemoryInv

(* A record is claimed. *)
LEMMA MemoryClaim ==
  ASSUME MemoryInv, NEW i \in Ids, i \notin Claimed, used' = used + ReplayMem[i], used' <= MemLimit,
         InMemory' = InMemory, Claimed' = Claimed \cup {i}
  PROVE  MemoryInv'
<1>1. InMemory \subseteq Ids /\ Claimed \subseteq Ids BY DEF InMemory, Claimed
<1>2. SumOf(ReplayMem, Claimed \cup {i}) = SumOf(ReplayMem, Claimed) + ReplayMem[i]
      /\ SumOf(ReplayMem, Claimed) \in Nat
  <2>1. IsFiniteSet(Claimed) /\ \A x \in Claimed : ReplayMem[x] \in Nat BY <1>1, FiniteIds
  <2>2. ReplayMem[i] \in Nat BY PipelineAssumption
  <2> QED BY <2>1, <2>2, SumAdd
<1>3. SumOf(IntakeMem, InMemory) \in Nat BY <1>1, FiniteIds, SumType
<1>4. ReplayMem[i] \in Nat BY PipelineAssumption
<1> QED BY <1>2, <1>3, <1>4 DEF MemoryInv

(* A replay task ends. *)
LEMMA MemoryEnd ==
  ASSUME MemoryInv, NEW i \in Claimed, used' = used - ReplayMem[i],
         InMemory' = InMemory, Claimed' = Claimed \ {i}
  PROVE  MemoryInv'
<1>1. InMemory \subseteq Ids /\ Claimed \subseteq Ids BY DEF InMemory, Claimed
<1>2. SumOf(ReplayMem, Claimed) = SumOf(ReplayMem, Claimed \ {i}) + ReplayMem[i]
      /\ SumOf(ReplayMem, Claimed \ {i}) \in Nat
  BY <1>1, FiniteIds, SumRemove
<1>3. SumOf(IntakeMem, InMemory) \in Nat BY <1>1, FiniteIds, SumType
<1>4. ReplayMem[i] \in Nat /\ MemLimit \in Nat BY <1>1, PipelineAssumption
<1> QED BY <1>2, <1>3, <1>4 DEF MemoryInv

(* A process that has gone holds nothing. *)
LEMMA MemoryNone ==
  ASSUME used' = 0, InMemory' = {}, Claimed' = {}
  PROVE  MemoryInv'
BY SumEmpty, PipelineAssumption DEF MemoryInv

-----------------------------------------------------------------------------
(* Ownership, action by action.                                            *)

(* DurableRecorder::record: the reservation goes with the capture. *)
LEMMA RecordOwner == ASSUME IInv, OwnerInv, NEW i \in Ids, Record(i) PROVE OwnerInv'
<1> USE DEF IInv, OwnerInv
<1>1. ~InSeq(queue, i) /\ ~Writing(i) BY DEF Station, IntakeStation, Record
<1>2. i \notin InMemory BY <1>1, JournalAssumption DEF InMemory, Writing, WriterInv
<1>3. MemoryInv'
  <2>1. Claimed' = Claimed BY DEF Claimed, Record
  <2>2. CASE queue' = queue /\ used' = used
    BY <2>1, <2>2, MemorySame DEF InMemory, Record, writerVars
  <2>3. CASE /\ queue' = Append(queue, i) /\ used' = used + IntakeMem[i]
             /\ ~(used + IntakeMem[i] > MemLimit)
    <3>1. InMemory' = InMemory \cup {i}
      <4>1. \A y : InSeq(queue', y) <=> InSeq(queue, y) \/ y = i BY <2>3, AppendFacts DEF TypeOK
      <4> QED BY <4>1 DEF InMemory, Record, writerVars
    <3>2. used' <= MemLimit
      <4>1. used \in Int /\ IntakeMem[i] \in Nat /\ MemLimit \in Nat BY PipelineAssumption DEF TypeOK
      <4> QED BY <2>3, <4>1
    <3> QED BY <1>2, <2>1, <2>3, <3>1, <3>2, MemoryIntake
  <2> QED BY <2>2, <2>3 DEF Record
<1>4. ASSUME NEW j \in Ids PROVE Owned(j)'
  <2>1. Owned(j) OBVIOUS
  <2>2. outcome'[j] = outcome[j] \/ outcome[j] = "none" BY DEF TypeOK, Record
  <2> QED BY <2>1, <2>2 DEF Owned, Record, writerVars, catalogVars
<1>5. WriterInv' BY DEF WriterInv, Record, writerVars
<1> QED BY <1>3, <1>4, <1>5

(* The writer takes the head of the channel: the reservation is now its    *)
(* own.                                                                    *)
LEMMA WriterRecvOwner == ASSUME IInv, OwnerInv, WriterRecv PROVE OwnerInv'
<1> USE DEF IInv, OwnerInv
<1>1. /\ wid' \in Ids /\ InSeq(queue, wid')
      /\ \A y : InSeq(queue', y) <=> InSeq(queue, y) /\ y # wid'
  <2>1. queue \in Seq(Ids) /\ Distinct(queue) /\ queue # <<>> BY DEF TypeOK, ProcessInv, WriterRecv
  <2> QED BY <2>1, TailFacts DEF WriterRecv
<1>2. wid = 0 BY DEF WriterInv, WriterRecv
<1>3. InMemory' = InMemory BY <1>1, <1>2, JournalAssumption DEF InMemory
<1>4. Claimed' = Claimed BY DEF Claimed, WriterRecv, WriterOnly
<1>5. MemoryInv' BY <1>3, <1>4, MemorySame DEF WriterRecv, WriterOnly
<1>6. ASSUME NEW j \in Ids PROVE Owned(j)'
  <2>1. Owned(j) /\ wid # j BY <1>2, JournalAssumption
  <2> QED BY <2>1 DEF Owned, WriterRecv, WriterOnly, catalogVars
<1>7. WriterInv' BY DEF WriterInv, WriterRecv
<1> QED BY <1>5, <1>6, <1>7

(* Steps of the append that leave the writer with its capture. *)
LEMMA WriterKeeps ==
  ASSUME IInv, OwnerInv, wpc # "recv", wpc' # "recv", UNCHANGED <<queue, wid, used, claims, outcome>>,
         \A j \in Ids : j # wid => (j \in entries' => j \in entries) /\ (InSeq(ready, j) => InSeq(ready', j)),
         wid \in entries' /\ ~InSeq(ready', wid) => (wpc' = "release" => wres' = "write_failed")
  PROVE  OwnerInv'
<1>1. MemoryInv' BY MemorySame DEF OwnerInv, InMemory, Claimed
<1>2. ASSUME NEW j \in Ids PROVE Owned(j)'
  <2>1. CASE j = wid BY <2>1 DEF Owned
  <2>2. CASE j # wid BY <2>2 DEF OwnerInv, Owned
  <2> QED BY <2>1, <2>2
<1> QED BY <1>1, <1>2 DEF OwnerInv, WriterInv

(* Journal::append enters the capture in the catalog. *)
LEMMA WriterReserveOwner == ASSUME IInv, OwnerInv, WriterReserve PROVE OwnerInv'
<1>1. wid \in Ids /\ wid \notin entries
  BY WriterFacts DEF WriterReserve, Station, IntakeStation, Writing, Untouched
<1>2. wpc = "reserve" /\ UNCHANGED <<queue, wid, used, claims, outcome>>
  BY DEF WriterReserve, GiveUp, WriterOnly
<1>3. CASE GiveUp("write_failed") /\ UNCHANGED catalogVars
  BY <1>1, <1>2, <1>3, WriterKeeps DEF GiveUp, catalogVars
<1>4. CASE GiveUp("journal_full") /\ UNCHANGED catalogVars
  BY <1>1, <1>2, <1>4, WriterKeeps DEF GiveUp, catalogVars
<1>5. CASE AppendReserve(wid) /\ wpc' = "write"
  BY <1>1, <1>2, <1>5, WriterKeeps DEF AppendReserve
<1> QED BY <1>3, <1>4, <1>5 DEF WriterReserve

(* The other steps of the append. *)
LEMMA WriterStepOwner ==
  ASSUME IInv, OwnerInv, WriterWrite \/ WriterRename \/ WriterQuarantine \/ WriterQuarSync
  PROVE  OwnerInv'
<1>1. /\ wpc # "recv" /\ wpc' # "recv" /\ UNCHANGED <<queue, wid, used, claims, outcome>>
      /\ entries' \subseteq entries /\ ready' = ready /\ (wpc' = "release" => wres' = "write_failed")
  <2>1. CASE WriterWrite
    BY <2>1 DEF WriterWrite, WriterStep, WriterOnly, catalogVars
  <2>2. CASE WriterRename
    BY <2>2 DEF WriterRename, WriterStep, WriterOnly, catalogVars
  <2>3. CASE WriterQuarantine
    BY <2>3 DEF WriterQuarantine, WriterOnly, catalogVars, GiveUp
  <2>4. CASE WriterQuarSync
    BY <2>4 DEF WriterQuarSync, WriterOnly, catalogVars, GiveUp, QuarantineSync, DropEntry
  <2> QED BY <2>1, <2>2, <2>3, <2>4
<1> QED BY <1>1, WriterKeeps

(* A written record is queued before the writer lets go of it. *)
LEMMA WriterSyncOwner == ASSUME IInv, OwnerInv, WriterSync PROVE OwnerInv'
<1>1. wpc = "sync" /\ wid \in Ids /\ UNCHANGED <<queue, wid, used, claims, outcome>>
  BY WriterFacts DEF WriterSync, GiveUp, WriterOnly
<1>2. CASE AppendPublish(wid) /\ GiveUp("written")
  <2>1. \A y : InSeq(ready', y) <=> InSeq(ready, y) \/ y = wid
    BY <1>1, <1>2, AppendFacts DEF AppendPublish, IInv, TypeOK, JournalTypeOK
  <2> QED BY <1>1, <1>2, <2>1, WriterKeeps DEF AppendPublish, GiveUp
<1>3. CASE wpc' = "quarantine" /\ UNCHANGED catalogVars
  BY <1>1, <1>3, WriterKeeps DEF catalogVars
<1> QED BY <1>2, <1>3 DEF WriterSync

(* The writer drops the reservation; without an error the record is        *)
(* queued.                                                                 *)
LEMMA WriterReleaseOwner == ASSUME IInv, OwnerInv, WriterRelease PROVE OwnerInv'
<1> USE DEF IInv, OwnerInv
<1>1. wid \in Ids /\ Station(wid) /\ wpc = "release" BY WriterFacts DEF WriterRelease
<1>2. ~InSeq(queue, wid) BY <1>1 DEF Station, IntakeStation, Writing
<1>3. wid \in InMemory /\ InMemory' = InMemory \ {wid}
  BY <1>1, <1>2, JournalAssumption DEF InMemory, WriterRelease
<1>4. MemoryInv'
  <2>1. Claimed' = Claimed BY DEF Claimed, WriterRelease
  <2>2. PICK w \in InMemory : w = wid BY <1>3
  <2> QED BY <1>3, <2>1, <2>2, MemoryRelease DEF WriterRelease
<1>5. ASSUME NEW j \in Ids PROVE Owned(j)'
  <2>1. Owned(j) OBVIOUS
  <2>2. CASE j = wid
    <3>1. outcome'[j] = wres BY <1>1, <2>2 DEF TypeOK, WriterRelease
    <3>2. outcome[j] = "enqueued" BY <1>1, <2>2 DEF Station, IntakeStation, Writing
    <3> QED BY <1>1, <2>1, <2>2, <3>1, <3>2 DEF Owned, WriterRelease, catalogVars
  <2>3. CASE j # wid
    <3>1. outcome'[j] = outcome[j] BY <1>1, <2>3 DEF TypeOK, WriterRelease
    <3> QED BY <2>1, <2>3, <3>1 DEF Owned, WriterRelease, catalogVars
  <2> QED BY <2>2, <2>3
<1> QED BY <1>4, <1>5 DEF WriterInv, WriterRelease

(* claim_ready: the record goes from the ready queue to a task, with its   *)
(* memory.                                                                 *)
LEMMA ClaimRecordOwner == ASSUME IInv, OwnerInv, ClaimRecord PROVE OwnerInv'
<1> USE DEF IInv, OwnerInv
<1>1. ready \in Seq(Ids) /\ Distinct(ready) /\ used \in Int BY DEF TypeOK, JournalTypeOK, ProcessInv
<1>2. PICK k \in 1 .. Len(ready) :
        /\ ClaimAt(k, Fits)
        /\ IF ready[k] \in entries
           THEN /\ claims' = [claims EXCEPT ![ready[k]] = "check"]
                /\ used' = used + ReplayMem[ready[k]]
           ELSE UNCHANGED <<claims, used>>
  BY DEF ClaimRecord
<1>3. PICK i \in Ids : i = ready[k] BY <1>1
<1>4. InSeq(ready, i) /\ i \in entries /\ claims[i] = "none"
  <2>1. InSeq(ready, i) BY <1>1, <1>3 DEF InSeq
  <2> QED BY <2>1 DEF Station, CatalogStation
<1>5. \A y : InSeq(ready', y) <=> InSeq(ready, y) /\ y # i
  BY <1>1, <1>2, <1>3, RotateFacts DEF ClaimAt
<1>6. claims'[i] = "check" /\ \A j \in Ids : j # i => claims'[j] = claims[j]
  BY <1>2, <1>3, <1>4 DEF TypeOK
<1>7. MemoryInv'
  <2>1. InMemory' = InMemory BY DEF InMemory, ClaimRecord, WorkerOnly, writerVars
  <2>2. i \notin Claimed /\ Claimed' = Claimed \cup {i} BY <1>4, <1>6 DEF Claimed
  <2>3. i \in Fits BY <1>2, <1>3, <1>4 DEF ClaimAt, Stops
  <2>4. used' = used + ReplayMem[i] /\ used' <= MemLimit BY <1>2, <1>3, <1>4, <2>3 DEF Fits
  <2> QED BY <2>1, <2>2, <2>4, MemoryClaim
<1>8. ASSUME NEW j \in Ids PROVE Owned(j)'
  <2>1. entries' = entries /\ UNCHANGED <<outcome, wid, wpc, wres>>
    BY <1>2 DEF ClaimAt, ClaimRecord, WorkerOnly, writerVars
  <2> QED BY <1>5, <1>6, <2>1 DEF Owned
<1> QED BY <1>7, <1>8 DEF WriterInv, ClaimRecord, WorkerOnly, writerVars

(* A replay task that ends with its record out of the catalog. *)
Leaves(i) == DropEntry(i) /\ EndTask(i) /\ ready' = ready
(* A step of a replay task moves on, fails, or leaves. *)
LEMMA ReplayShape ==
  ASSUME NEW i \in Ids, ReplayStep(i)
  PROVE  /\ claims[i] # "none" /\ WorkerOnly
         /\ \/ \E p : p # "none" /\ Goto(i, p)
            \/ Fail(i)
            \/ Leaves(i)
<1>1. CASE CheckReceipt(i) BY <1>1 DEF CheckReceipt
<1>2. CASE ReadRecord(i)
  <2>1. claims[i] # "none" /\ WorkerOnly BY <1>2 DEF ReadRecord
  <2>2. Goto(i, "insert") \/ Goto(i, "quarantine") \/ Fail(i) BY <1>2 DEF ReadRecord
  <2> QED BY <2>1, <2>2
<1>3. CASE BeginInsert(i) BY <1>3 DEF BeginInsert
<1>4. CASE CommitInsert(i) BY <1>4 DEF CommitInsert
<1>5. CASE AcknowledgeRemove(i) BY <1>5 DEF AcknowledgeRemove
<1>6. CASE AcknowledgeSync(i) BY <1>6 DEF AcknowledgeSync, AckSync, Leaves
<1>7. CASE QuarantineRecord(i) BY <1>7 DEF QuarantineRecord
<1>8. CASE QuarantineDone(i) BY <1>8 DEF QuarantineDone, QuarantineSync, Leaves
<1> QED BY <1>1, <1>2, <1>3, <1>4, <1>5, <1>6, <1>7, <1>8 DEF ReplayStep

(* A replay task gives its record back, or takes it out of the catalog. *)
LEMMA ReplayOwner == ASSUME IInv, OwnerInv, NEW i \in Ids, ReplayStep(i) PROVE OwnerInv'
<1> USE DEF IInv, OwnerInv
<1>0. claims[i] # "none" /\ UNCHANGED <<outcome, queue, wid, wpc, wres>> /\ claims \in [Ids -> Phases]
  BY ReplayShape DEF WorkerOnly, writerVars, TypeOK
<1>1. InMemory' = InMemory /\ i \in Claimed BY <1>0 DEF InMemory, Claimed
<1>2. WriterInv' BY <1>0 DEF WriterInv
<1>3. CASE \E p : p # "none" /\ Goto(i, p)
  <2>1. PICK p : p # "none" /\ Goto(i, p) BY <1>3
  <2>2. claims'[i] = p /\ (\A j \in Ids : j # i => claims'[j] = claims[j])
        /\ UNCHANGED <<used, entries, ready>>
    BY <1>0, <2>1 DEF Goto, catalogVars
  <2>3. Claimed' = Claimed BY <1>0, <2>1, <2>2 DEF Claimed
  <2>4. MemoryInv' BY <1>1, <2>2, <2>3, MemorySame
  <2>5. ASSUME NEW j \in Ids PROVE Owned(j)' BY <1>0, <2>1, <2>2 DEF Owned
  <2> QED BY <1>2, <2>4, <2>5
<1>4. CASE Fail(i) \/ Leaves(i)
  <2>1. EndTask(i) BY <1>4 DEF Fail, Leaves
  <2>2. claims'[i] = "none" /\ (\A j \in Ids : j # i => claims'[j] = claims[j])
        /\ used' = used - ReplayMem[i]
    BY <1>0, <2>1 DEF EndTask
  <2>3. Claimed' = Claimed \ {i} BY <2>2 DEF Claimed
  <2>4. MemoryInv' BY <1>1, <2>2, <2>3, MemoryEnd
  <2>5. /\ \A j \in Ids : j # i => (j \in entries' => j \in entries) /\ (InSeq(ready, j) => InSeq(ready', j))
        /\ i \in entries' => InSeq(ready', i)
    <3>1. CASE Fail(i)
      <4>1. CASE i \in entries
        <5>1. ready' = Append(ready, i) /\ entries' = entries BY <3>1, <4>1 DEF Fail, Retry
        <5> QED BY <5>1, AppendFacts DEF TypeOK, JournalTypeOK
      <4>2. CASE i \notin entries BY <3>1, <4>2 DEF Fail, Retry
      <4> QED BY <4>1, <4>2
    <3>2. CASE Leaves(i) BY <3>2 DEF Leaves, DropEntry
    <3> QED BY <1>4, <3>1, <3>2
  <2>6. ASSUME NEW j \in Ids PROVE Owned(j)' BY <1>0, <2>2, <2>5 DEF Owned
  <2> QED BY <1>2, <2>4, <2>6
<1> QED BY <1>3, <1>4, ReplayShape

(* Steps that touch neither queue, nor writer, nor claims. *)
LEMMA OthersOwner ==
  ASSUME IInv, OwnerInv, UNCHANGED <<outcome, queue, used, wid, wpc, wres, claims, entries, ready>>
  PROVE  OwnerInv'
<1>1. MemoryInv' BY MemorySame DEF OwnerInv, InMemory, Claimed
<1> QED BY <1>1 DEF OwnerInv, Owned, WriterInv

(* An order of a set holds each of its members. *)
LEMMA OrdersCover ==
  ASSUME NEW S, IsFiniteSet(S), NEW s \in Orders(S), NEW x \in S
  PROVE  InSeq(s, x)
<1> DEFINE D == 1 .. Cardinality(S)
           T == {s[k] : k \in D}
<1>1. Cardinality(S) \in Nat BY FS_CardinalityType
<1>2. s \in [D -> S] /\ \A j, k \in D : s[j] = s[k] => j = k BY DEF Orders
<1>3. s \in Bijection(D, T)
  <2>1. s \in [D -> T] BY <1>2
  <2> QED BY <1>2, <2>1 DEF Bijection, Injection, Surjection, IsInjective
<1>4. IsFiniteSet(D) /\ Cardinality(D) = Cardinality(S) BY <1>1, FS_Interval
<1>5. Cardinality(T) = Cardinality(S)
  <2>1. ExistsBijection(D, T) BY <1>3 DEF ExistsBijection
  <2> QED BY <1>4, <2>1, FS_Bijection
<1>6. T \subseteq S BY <1>2
<1>7. T = S BY <1>5, <1>6, FS_Subset
<1>8. PICK k \in D : s[k] = x BY <1>7
<1> QED BY <1>2, <1>8 DEF InSeq

(* The next start finds nothing reserved and queues every record. *)
LEMMA OpenOwner == ASSUME IInv, OwnerInv, OpenJournal PROVE OwnerInv'
<1>1. MemoryInv' BY MemorySame DEF OwnerInv, InMemory, Claimed, OpenJournal, StartOnly, intakeVars, writerVars
<1>2. ASSUME NEW j \in entries' PROVE InSeq(ready', j)
  <2>1. entries' \subseteq Ids /\ ready' \in Orders(entries') BY DEF OpenJournal, OpenScan
  <2>2. IsFiniteSet(entries') BY <2>1, JournalAssumption, FS_Subset
  <2> QED BY <2>1, <2>2, OrdersCover
<1> QED BY <1>1, <1>2 DEF OwnerInv, Owned, WriterInv, OpenJournal, StartOnly, writerVars

(* A crash frees everything. *)
LEMMA LoseOwner == ASSUME LoseProcess PROVE OwnerInv'
<1>1. Claimed' = {} BY DEF Claimed, LoseProcess
<1>2. InMemory' = {}
  <2>1. queue' = <<>> /\ wid' = 0 BY DEF LoseProcess
  <2> QED BY <2>1, JournalAssumption DEF InMemory, InSeq
<1>3. MemoryInv' BY <1>1, <1>2, MemoryNone DEF LoseProcess
<1> QED BY <1>3 DEF OwnerInv, Owned, WriterInv, LoseProcess, ForgetCatalog

(* Init. *)
LEMMA InitOwner == Init => OwnerInv
<1> SUFFICES ASSUME Init PROVE OwnerInv OBVIOUS
<1> USE DEF Init, IdleProcess, JournalInit
<1>1. Claimed = {} /\ InMemory = {} BY JournalAssumption DEF Claimed, InMemory, InSeq
<1>2. MemoryInv BY <1>1, SumEmpty, PipelineAssumption DEF MemoryInv
<1> QED BY <1>2 DEF OwnerInv, Owned, WriterInv

(* Every step. *)
LEMMA NextOwner == ASSUME IInv, OwnerInv, [Next]_vars PROVE OwnerInv'
<1>1. CASE \/ \E i \in Ids : RetryDue(i) \/ OrphanDecided(i) \/ RotateTrace(i) \/ Corrupt(i)
           \/ CleanSelect \/ CleanFilter \/ CleanDelete \/ Serve \/ BeginShutdown \/ WriterFinished
           \/ ExitAborted \/ UNCHANGED vars
  <2>1. UNCHANGED <<outcome, queue, used, wid, wpc, wres, claims, entries, ready>>
    <3>1. CASE \E i \in Ids : RetryDue(i)
      BY <3>1 DEF RetryDue, BecomeDue, WorkerOnly, writerVars
    <3>2. CASE \E i \in Ids : OrphanDecided(i) \/ RotateTrace(i) \/ Corrupt(i)
      BY <3>2 DEF OrphanDecided, RotateTrace, Corrupt, Elsewhere, intakeVars, writerVars, catalogVars
    <3>3. CASE CleanSelect \/ CleanFilter \/ CleanDelete
      BY <3>3 DEF CleanSelect, CleanFilter, CleanDelete, CleanOnly, intakeVars, writerVars, catalogVars
    <3>4. CASE Serve \/ BeginShutdown \/ WriterFinished \/ ExitAborted
      BY <3>4 DEF Serve, OpenSync, BeginShutdown, WriterFinished, ExitAborted, StartOnly,
                  intakeVars, writerVars, catalogVars
    <3>5. CASE UNCHANGED vars BY <3>5 DEF vars, intakeVars, writerVars, catalogVars
    <3> QED BY <1>1, <3>1, <3>2, <3>3, <3>4, <3>5
  <2> QED BY <2>1, OthersOwner
<1>2. CASE ExitClean \/ DrainTimeout \/ Crash BY <1>2, LoseOwner DEF ExitClean, DrainTimeout, Crash
<1> QED BY <1>1, <1>2, RecordOwner, WriterRecvOwner, WriterReserveOwner, WriterStepOwner,
       WriterSyncOwner, WriterReleaseOwner, ClaimRecordOwner, ReplayOwner, OpenOwner DEF Next

(* OwnerInv is OwnershipIsExact in terms of the sets used here. *)
LEMMA OwnerImplies == ASSUME IInv, OwnerInv PROVE OwnershipIsExact
<1>1. TypeOK /\ ProcessInv BY DEF IInv
<1>2. ready \in Seq(Ids) /\ queue \in Seq(Ids) /\ Distinct(ready)
  BY <1>1 DEF TypeOK, JournalTypeOK, ProcessInv
<1>3. \A y : (y \in Range(ready) <=> InSeq(ready, y)) /\ (y \in Range(queue) <=> InSeq(queue, y))
  BY DEF Range, InSeq
<1>4. PendingHasOneOwner
  <2>1. Cardinality(Range(ready)) = Len(ready) BY <1>2, DistinctCount
  <2>2. Range(ready) \subseteq Ids BY <1>2 DEF Range
  <2>3. \A i \in Ids : Station(i) /\ Owned(i) BY DEF IInv, OwnerInv
  <2>4. Range(ready) \cap Claimed = {} /\ Range(ready) \cup Claimed \subseteq entries
    BY <1>3, <2>2, <2>3 DEF Claimed, Station, CatalogStation, ClaimStation
  <2>5. ASSUME NEW i \in entries \ (Range(ready) \cup Claimed)
        PROVE  outcome[i] = "write_failed" \/ (wid = i /\ (wpc = "release" => wres = "write_failed"))
    <3>1. i \in Ids BY <1>1 DEF TypeOK, JournalTypeOK
    <3>2. i \in entries /\ ~InSeq(ready, i) /\ claims[i] = "none" BY <1>3, <2>5, <3>1 DEF Claimed
    <3>3. Owned(i) BY <2>3, <3>1
    <3> QED BY <3>2, <3>3 DEF Owned
  <2> QED BY <2>1, <2>4, <2>5 DEF PendingHasOneOwner
<1>5. MemoryExact
  <2>1. InMemory = Range(queue) \cup ({wid} \cap Ids)
    <3>1. Range(queue) \subseteq Ids BY <1>2 DEF Range
    <3> QED BY <1>3, <3>1 DEF InMemory
  <2>2. MemoryInv BY DEF OwnerInv
  <2> QED BY <2>1, <2>2 DEF MemoryInv, MemoryExact, SumOf
<1> QED BY <1>1, <1>4, <1>5 DEF OwnershipIsExact

(* Every pending record has exactly one owner that will see to it (the     *)
(* ready queue, a replay task or the writer), and the memory budget holds  *)
(* exactly the captures in the channel, with the writer and in replay,     *)
(* never more than the limit: for any number of captures, workers,         *)
(* failures and restarts (durable.rs, journal.rs).                         *)
THEOREM OwnershipHolds == Spec => []OwnershipIsExact
<1>1. Init => OwnerInv BY InitOwner
<1>2. IInv /\ OwnerInv /\ [Next]_vars => OwnerInv' BY NextOwner
<1>3. IInv /\ OwnerInv => OwnershipIsExact BY OwnerImplies
<1> QED BY <1>1, <1>2, <1>3, Invariance, PTL DEF Spec

-----------------------------------------------------------------------------
(* Capacity.                                                               *)

(* Sums and counts of files are naturals. *)
LEMMA FiniteSizes ==
  ASSUME NEW S, S \subseteq Ids, NEW L \in [Ids -> Nat]
  PROVE  /\ IsFiniteSet(S) /\ Cardinality(S) \in Nat
         /\ (\A x \in S : L[x] \in Nat) /\ (\A x \in S : Size[x] \in Nat)
         /\ SumOf(L, S) \in Nat /\ SumOf(Size, S) \in Nat
<1>1. IsFiniteSet(S) /\ (\A x \in S : L[x] \in Nat) /\ (\A x \in S : Size[x] \in Nat)
  BY JournalAssumption, FS_Subset
<1> QED BY <1>1, SumType, FS_CardinalityType

(* Fewer and shorter files take less room. *)
LEMMA Shrinks ==
  ASSUME NEW S, S \subseteq Ids, NEW T, T \subseteq S, NEW L \in [Ids -> Nat], NEW M \in [Ids -> Nat],
         \A x \in T : M[x] <= L[x]
  PROVE  SumOf(M, T) <= SumOf(L, S) /\ Cardinality(T) <= Cardinality(S)
<1>1. T \subseteq Ids /\ IsFiniteSet(S) /\ IsFiniteSet(T) BY FiniteSizes
<1>2. SumOf(M, T) <= SumOf(L, T) BY <1>1, SumLeq, FiniteSizes
<1>3. SumOf(L, T) <= SumOf(L, S)
  <2>1. \A x \in S : L[x] \in Nat OBVIOUS
  <2> QED BY <1>1, <2>1, SumSubset
<1>4. Cardinality(T) <= Cardinality(S) BY <1>1, FS_Subset
<1>5. SumOf(M, T) \in Nat /\ SumOf(L, T) \in Nat /\ SumOf(L, S) \in Nat BY <1>1, FiniteSizes
<1> QED BY <1>2, <1>3, <1>4, <1>5

(* Two disjoint sets of files. *)
LEMMA Together ==
  ASSUME NEW E, NEW Q, E \subseteq Ids, Q \subseteq Ids, E \cap Q = {}, NEW L \in [Ids -> Nat]
  PROVE  /\ SumOf(L, E \cup Q) = SumOf(L, E) + SumOf(L, Q)
         /\ Cardinality(E \cup Q) = Cardinality(E) + Cardinality(Q)
<1>1. IsFiniteSet(E) /\ IsFiniteSet(Q) /\ (\A x \in E : L[x] \in Nat) /\ (\A x \in Q : L[x] \in Nat)
  BY FiniteSizes
<1>2. SumOf(L, E \cup Q) = SumOf(L, E) + SumOf(L, Q) BY <1>1, SumUnion
<1>3. Cardinality(E \cup Q) = Cardinality(E) + Cardinality(Q)
  <2>1. Cardinality(E \cap Q) = 0 BY FS_EmptySet
  <2>2. Cardinality(E) \in Nat /\ Cardinality(Q) \in Nat BY <1>1, FS_CardinalityType
  <2>3. Cardinality(E \cup Q) = Cardinality(E) + Cardinality(Q) - Cardinality(E \cap Q) BY <1>1, FS_Union
  <2> QED BY <2>1, <2>2, <2>3
<1> QED BY <1>2, <1>3

(* What the catalog counts covers what the directory may hold. *)
LEMMA Covered ==
  ASSUME NEW E, NEW Q, NEW M, E \subseteq Ids, Q \subseteq Ids, E \cap Q = {}, M \subseteq E \cup Q,
         NEW L \in [Ids -> Nat], \A x \in Ids : L[x] <= Size[x],
         SumOf(Size, E) + SumOf(L, Q) <= MaxBytes, Cardinality(E) + Cardinality(Q) <= MaxRecords
  PROVE  SumOf(L, M) <= MaxBytes /\ Cardinality(M) <= MaxRecords
<1>1. SumOf(L, M) <= SumOf(L, E \cup Q) /\ Cardinality(M) <= Cardinality(E \cup Q)
  <2>1. E \cup Q \subseteq Ids /\ \A x \in M : L[x] <= L[x] OBVIOUS
  <2> QED BY <2>1, Shrinks
<1>2. /\ SumOf(L, E \cup Q) = SumOf(L, E) + SumOf(L, Q)
      /\ Cardinality(E \cup Q) = Cardinality(E) + Cardinality(Q)
  BY Together
<1>3. SumOf(L, E) <= SumOf(Size, E)
  <2>1. Size \in [Ids -> Nat] BY JournalAssumption
  <2> QED BY <2>1, Shrinks
<1>4. /\ SumOf(L, M) \in Nat /\ SumOf(L, E) \in Nat /\ SumOf(L, Q) \in Nat /\ SumOf(Size, E) \in Nat
      /\ Cardinality(M) \in Nat /\ Cardinality(E) \in Nat /\ Cardinality(Q) \in Nat
  <2>1. M \subseteq Ids OBVIOUS
  <2> QED BY <2>1, FiniteSizes
<1>5. MaxBytes \in Nat /\ MaxRecords \in Nat BY JournalAssumption
<1> QED BY <1>1, <1>2, <1>3, <1>4, <1>5

-----------------------------------------------------------------------------
(* The parts of CapacityInv a step preserves.                              *)

(* The directory stays, or shrinks to what it already might be. *)
LEMMA RemainsShrinks ==
  ASSUME TypeOK, RemainsInv, len' \in [Ids -> Nat],
         \A i \in Ids : /\ stable[i] = {"none"} => stable'[i] = {"none"}
                        /\ SetAside(i) => SetAside(i)'
                        /\ len'[i] <= len[i]
  PROVE  RemainsInv'
<1>1. May' \subseteq May /\ May \subseteq Ids BY DEF May
<1>2. PICK T, L : T = May' /\ L = len' OBVIOUS
<1>3. len \in [Ids -> Nat] BY DEF TypeOK, JournalTypeOK
<1>4. SumOf(L, T) <= SumOf(len, May) /\ Cardinality(T) <= Cardinality(May)
  BY <1>1, <1>2, <1>3, Shrinks
<1>5. /\ SumOf(L, T) \in Nat /\ SumOf(len, May) \in Nat
      /\ Cardinality(T) \in Nat /\ Cardinality(May) \in Nat
  BY <1>1, <1>2, <1>3, FiniteSizes
<1>6. SumOf(L, T) <= MaxBytes /\ Cardinality(T) <= MaxRecords
  BY <1>4, <1>5, JournalAssumption DEF RemainsInv
<1> QED BY <1>2, <1>6 DEF RemainsInv

(* While the process runs, the catalog accounts for the directory. *)
LEMMA RemainsCounted ==
  ASSUME TypeOK', mode' \in Running, BudgetInv', \A i \in Ids : FileInv(i)' /\ CountedInv(i)'
  PROVE  RemainsInv'
<1>1. PICK E, Q, M, L : /\ E = entries' /\ Q = (quarantine_ids \ Aside)'
                        /\ M = May' /\ L = len'
  OBVIOUS
<1>2. E \subseteq Ids /\ Q \subseteq Ids /\ L \in [Ids -> Nat]
  BY <1>1 DEF TypeOK, JournalTypeOK
<1>3. E \cap Q = {} BY <1>1, <1>2 DEF CountedInv
<1>4. M \subseteq E \cup Q
  <2> SUFFICES ASSUME NEW i \in M, i \notin E PROVE i \in Q OBVIOUS
  <2>1. i \in Ids /\ stable'[i] # {"none"} /\ ~SetAside(i)' BY <1>1 DEF May
  <2>2. i \in quarantine_ids' BY <1>1, <2>1 DEF CountedInv
  <2> QED BY <1>1, <2>1, <2>2 DEF Aside
<1>5. \A x \in Ids : L[x] <= Size[x] BY <1>1 DEF FileInv
<1>6. SumOf(Size, E) + SumOf(L, Q) <= MaxBytes /\ Cardinality(E) + Cardinality(Q) <= MaxRecords
  BY <1>1 DEF BudgetInv
<1>7. SumOf(L, M) <= MaxBytes /\ Cardinality(M) <= MaxRecords
  BY <1>2, <1>3, <1>4, <1>5, <1>6, Covered
<1> QED BY <1>1, <1>7 DEF RemainsInv

(* The counters are left alone. *)
LEMMA BudgetKept ==
  ASSUME TypeOK, CounterInv, BudgetInv, len' \in [Ids -> Nat],
         UNCHANGED <<entries, bytes, quarantined, quarantine_bytes, quarantine_ids>>,
         \A i \in quarantine_ids : len'[i] = len[i] /\ (SetAside(i) => SetAside(i)')
  PROVE  /\ BudgetInv'
         /\ (mode' \notin Running \cup {"opening"} => mode \notin Running \cup {"opening"}) => CounterInv'
<1>1. PICK L, Q, R : L = len' /\ Q = quarantine_ids \ Aside /\ R = (quarantine_ids \ Aside)' OBVIOUS
<1>2. R \subseteq Q /\ Q \subseteq quarantine_ids /\ quarantine_ids \subseteq Ids
      /\ len \in [Ids -> Nat] /\ entries \subseteq Ids
  BY <1>1 DEF Aside, TypeOK, JournalTypeOK
<1>3. SumOf(L, quarantine_ids) = SumOf(len, quarantine_ids)
  <2>1. IsFiniteSet(quarantine_ids) BY <1>2, FiniteSizes
  <2> QED BY <1>1, <2>1, SumSame
<1>4. SumOf(L, R) <= SumOf(len, Q) /\ Cardinality(R) <= Cardinality(Q)
  <2>1. Q \subseteq Ids /\ \A x \in R : L[x] <= len[x] BY <1>1, <1>2
  <2> QED BY <1>1, <1>2, <2>1, Shrinks
<1>5. SumOf(L, R) \in Nat /\ SumOf(len, Q) \in Nat /\ Cardinality(R) \in Nat /\ Cardinality(Q) \in Nat
  <2>1. R \subseteq Ids /\ Q \subseteq Ids BY <1>2
  <2> QED BY <1>1, <1>2, <2>1, FiniteSizes
<1>6. SumOf(Size, entries) \in Nat /\ Cardinality(entries) \in Nat BY <1>2, FiniteSizes
<1>7. SumOf(Size, entries) + SumOf(L, R) <= MaxBytes /\ Cardinality(entries) + Cardinality(R) <= MaxRecords
  BY <1>1, <1>4, <1>5, <1>6, JournalAssumption DEF BudgetInv
<1>8. BudgetInv' BY <1>1, <1>7 DEF BudgetInv
<1>9. ASSUME mode' \notin Running \cup {"opening"} => mode \notin Running \cup {"opening"} PROVE CounterInv'
  BY <1>1, <1>3, <1>9 DEF CounterInv
<1> QED BY <1>8, <1>9

(* The writer does not enter the write or the rename of a capture. *)
NoNewAppend ==
    \A i \in Ids : /\ Writing(i)' /\ wpc' = "write" => Writing(i) /\ wpc = "write"
                   /\ Writing(i)' /\ wpc' = "rename" => Writing(i) /\ wpc = "rename"
CommitsStay == \A i \in Ids : commits[i] > 0 => commits'[i] > 0

(* Steps that leave the directory and the counters alone. *)
LEMMA QuietCapacity ==
  ASSUME IInv, IInv', CapacityInv, NoNewAppend, CommitsStay,
         UNCHANGED <<disk, stable, len, entries, bytes, quarantined, quarantine_bytes, quarantine_ids>>,
         mode' \in Running => mode \in Running, mode' = "opening" => mode = "opening",
         mode' \notin Running \cup {"opening"} => mode \notin Running \cup {"opening"}
  PROVE  CapacityInv'
<1>1. len' \in [Ids -> Nat] /\ TypeOK /\ quarantine_ids \subseteq Ids BY DEF IInv, TypeOK, JournalTypeOK
<1>2. \A i \in Ids : SetAside(i) => SetAside(i)' BY DEF SetAside, CommitsStay
<1>3. \A i \in Ids : len'[i] <= len[i] BY <1>1
<1>4. RemainsInv' BY <1>1, <1>2, <1>3, RemainsShrinks DEF CapacityInv
<1>5. BudgetInv' /\ CounterInv' BY <1>1, <1>2, BudgetKept DEF CapacityInv
<1>6. ASSUME NEW i \in Ids PROVE FileInv(i)' /\ CountedInv(i)'
  <2>1. FileInv(i) /\ CountedInv(i) BY DEF CapacityInv
  <2>2. FileInv(i)' BY <2>1 DEF FileInv, NoNewAppend
  <2>3. CountedInv(i)' BY <1>2, <2>1 DEF CountedInv
  <2> QED BY <2>2, <2>3
<1> QED BY <1>4, <1>5, <1>6 DEF CapacityInv

(* A create, rename or unlink of the file of a pending record. *)
LEMMA SetCapacity ==
  ASSUME IInv, IInv', CapacityInv, NEW i \in Ids, NEW f, SetFile(i, f),
         \A j \in Ids : j # i => len'[j] = len[j],
         mode \in Running, i \in entries, ~SetAside(i), \A j \in Ids : FileInv(j)',
         UNCHANGED <<mode, commits, entries, bytes, quarantined, quarantine_bytes, quarantine_ids>>
  PROVE  CapacityInv'
<1>1. len' \in [Ids -> Nat] /\ TypeOK /\ TypeOK' /\ quarantine_ids \subseteq Ids
      /\ disk \in [Ids -> File] /\ stable \in [Ids -> SUBSET File]
  BY DEF IInv, TypeOK, JournalTypeOK
<1>2. \A j \in Ids : j # i => disk'[j] = disk[j] /\ stable'[j] = stable[j] BY <1>1 DEF SetFile
<1>3. \A j \in Ids : SetAside(j) => SetAside(j)' BY <1>2 DEF SetAside
<1>4. i \notin quarantine_ids BY DEF CapacityInv, CountedInv
<1>5. BudgetInv' /\ CounterInv'
  <2>1. \A j \in quarantine_ids : len'[j] = len[j] /\ (SetAside(j) => SetAside(j)')
    BY <1>1, <1>3, <1>4
  <2> QED BY <1>1, <2>1, BudgetKept DEF CapacityInv
<1>6. ASSUME NEW j \in Ids PROVE CountedInv(j)'
  <2>1. CountedInv(j) BY DEF CapacityInv
  <2>2. CASE j = i BY <1>4, <2>2 DEF CountedInv, Running
  <2>3. CASE j # i BY <1>2, <1>3, <2>1, <2>3 DEF CountedInv
  <2> QED BY <2>2, <2>3
<1>7. RemainsInv' BY <1>1, <1>5, <1>6, RemainsCounted
<1> QED BY <1>5, <1>6, <1>7 DEF CapacityInv

(* A directory sync leaves the sizes and contents of files as they are. *)
LEMMA FileSync ==
  ASSUME IInv, CapacityInv, SyncDirectory, NoNewAppend, NEW j \in Ids
  PROVE  /\ FileInv(j)' /\ stable'[j] = {disk[j]} /\ disk'[j] = disk[j] /\ len'[j] = len[j]
         /\ CommitsStay => (SetAside(j) => SetAside(j)')
<1>1. FileInv(j) /\ disk[j] \in stable[j] BY DEF CapacityInv, IInv, Station, CatalogStation
<1>2. stable'[j] = {disk[j]} /\ disk'[j] = disk[j] /\ len'[j] = len[j] BY DEF SyncDirectory
<1>3. FileInv(j)' BY <1>1, <1>2 DEF FileInv, NoNewAppend
<1>4. CommitsStay => (SetAside(j) => SetAside(j)') BY <1>1, <1>2 DEF SetAside, CommitsStay
<1> QED BY <1>2, <1>3, <1>4

(* A directory sync that leaves the catalog alone. *)
LEMMA SyncCapacity ==
  ASSUME IInv, IInv', CapacityInv, SyncDirectory, NoNewAppend,
         mode \in Running \cup {"opening"}, mode' \in Running,
         UNCHANGED <<commits, entries, bytes, quarantined, quarantine_bytes, quarantine_ids>>
  PROVE  CapacityInv'
<1>1. len' \in [Ids -> Nat] /\ TypeOK /\ TypeOK' /\ quarantine_ids \subseteq Ids
  BY DEF IInv, TypeOK, JournalTypeOK
<1>2. CommitsStay BY DEF CommitsStay
<1>3. \A j \in Ids : FileInv(j)' /\ len'[j] = len[j] /\ (SetAside(j) => SetAside(j)') BY <1>2, FileSync
<1>4. BudgetInv' /\ CounterInv'
  <2>1. mode' \notin Running \cup {"opening"} => mode \notin Running \cup {"opening"} OBVIOUS
  <2> QED BY <1>1, <1>3, <2>1, BudgetKept DEF CapacityInv
<1>5. ASSUME NEW j \in Ids PROVE CountedInv(j)'
  <2>1. CountedInv(j) /\ Station(j) BY DEF CapacityInv, IInv
  <2>2. stable'[j] = {disk[j]} /\ disk'[j] = disk[j] BY FileSync
  <2>3. mode' # "opening" BY DEF Running
  <2>4. j \notin entries => disk[j] = "none" \/ j \in quarantine_ids \/ SetAside(j)
    BY <2>1 DEF CountedInv, Station, CatalogStation, Inert
  <2> QED BY <1>3, <2>1, <2>2, <2>3, <2>4 DEF CountedInv
<1>6. RemainsInv' BY <1>1, <1>3, <1>4, <1>5, RemainsCounted
<1> QED BY <1>3, <1>4, <1>5, <1>6 DEF CapacityInv

(* A record leaves the catalog, for good or for the quarantine counters. *)
LEMMA DropCapacity ==
  ASSUME IInv, IInv', CapacityInv, SyncDirectory, NoNewAppend, NEW i \in Ids,
         mode \in Running, UNCHANGED <<mode, commits>>, i \in entries, DropEntry(i),
         \/ /\ UNCHANGED <<quarantined, quarantine_bytes, quarantine_ids>>
            /\ disk[i] = "none" \/ (disk[i] = "quarantine" /\ commits[i] > 0)
         \/ /\ disk[i] = "quarantine" /\ quarantined' = quarantined + 1
            /\ quarantine_bytes' = quarantine_bytes + len[i] /\ quarantine_ids' = quarantine_ids \cup {i}
  PROVE  CapacityInv'
<1>1. /\ len \in [Ids -> Nat] /\ len' = len /\ TypeOK' /\ quarantine_ids \subseteq Ids /\ entries \subseteq Ids
      /\ entries' = entries \ {i} /\ bytes' = bytes - Size[i]
  BY DEF IInv, TypeOK, JournalTypeOK, DropEntry, SyncDirectory
<1>2. CommitsStay BY DEF CommitsStay
<1>3. \A j \in Ids : FileInv(j)' /\ (SetAside(j) => SetAside(j)') BY <1>2, FileSync
<1>4. i \notin quarantine_ids BY DEF CapacityInv, CountedInv
<1>5. ASSUME NEW j \in Ids PROVE CountedInv(j)'
  <2>1. CountedInv(j) BY DEF CapacityInv
  <2>2. stable'[j] = {disk[j]} /\ disk'[j] = disk[j] BY FileSync
  <2>3. mode' # "opening" BY DEF Running
  <2>4. CASE j = i BY <1>1, <1>4, <2>2, <2>3, <2>4 DEF CountedInv, SetAside
  <2>5. CASE j # i BY <1>1, <1>3, <2>1, <2>2, <2>3, <2>5 DEF CountedInv
  <2> QED BY <2>4, <2>5
<1>6. /\ SumOf(Size, entries) = SumOf(Size, entries \ {i}) + Size[i]
      /\ SumOf(Size, entries \ {i}) \in Nat
      /\ Cardinality(entries) \in Nat /\ Cardinality(entries \ {i}) = Cardinality(entries) - 1
      /\ Size[i] \in Nat
  <2>1. IsFiniteSet(entries) /\ (\A x \in entries : Size[x] \in Nat) /\ Cardinality(entries) \in Nat
    BY <1>1, FiniteSizes
  <2>2. /\ SumOf(Size, entries) = SumOf(Size, entries \ {i}) + Size[i]
        /\ SumOf(Size, entries \ {i}) \in Nat
    BY <2>1, SumRemove
  <2>3. Cardinality(entries \ {i}) = Cardinality(entries) - 1 BY <2>1, FS_RemoveElement
  <2> QED BY <2>1, <2>2, <2>3
<1>7. /\ SumOf(len, quarantine_ids \cup {i}) = SumOf(len, quarantine_ids) + len[i]
      /\ Cardinality(quarantine_ids \cup {i}) = Cardinality(quarantine_ids) + 1
  <2>1. IsFiniteSet(quarantine_ids) /\ \A x \in quarantine_ids : len[x] \in Nat
    BY <1>1, FiniteSizes
  <2> QED BY <1>1, <1>4, <2>1, SumAdd, FS_AddElement
<1>8. CounterInv'
  <2>1. CounterInv /\ mode' \in Running \cup {"opening"} BY DEF CapacityInv
  <2>2. bytes' = SumOf(Size, entries') BY <1>1, <1>6, <2>1 DEF CounterInv
  <2>3. quarantined' = Cardinality(quarantine_ids') /\ quarantine_bytes' = SumOf(len', quarantine_ids')
    BY <1>1, <1>7, <2>1 DEF CounterInv
  <2> QED BY <2>1, <2>2, <2>3 DEF CounterInv
<1>9. BudgetInv'
  <2>1. PICK Q, R : Q = quarantine_ids \ Aside /\ R = (quarantine_ids \ Aside)' OBVIOUS
  <2>2. R \subseteq Q \cup {i} /\ Q \subseteq Ids /\ i \notin Q BY <1>1, <1>3, <1>4, <2>1 DEF Aside
  <2>3. SumOf(len, R) <= SumOf(len, Q \cup {i}) /\ Cardinality(R) <= Cardinality(Q \cup {i})
    <3>1. Q \cup {i} \subseteq Ids /\ \A x \in R : len[x] <= len[x] BY <1>1, <2>2
    <3> QED BY <1>1, <2>2, <3>1, Shrinks
  <2>4. /\ SumOf(len, Q \cup {i}) = SumOf(len, Q) + len[i] /\ SumOf(len, Q) \in Nat
        /\ Cardinality(Q \cup {i}) = Cardinality(Q) + 1 /\ Cardinality(Q) \in Nat
    <3>1. IsFiniteSet(Q) /\ (\A x \in Q : len[x] \in Nat) /\ Cardinality(Q) \in Nat
      BY <1>1, <2>2, FiniteSizes
    <3> QED BY <1>1, <2>2, <3>1, SumAdd, FS_AddElement
  <2>5. SumOf(len, R) \in Nat /\ Cardinality(R) \in Nat
    <3>1. R \subseteq Ids BY <2>2
    <3> QED BY <1>1, <3>1, FiniteSizes
  <2>6. len[i] <= Size[i] /\ len[i] \in Nat BY <1>1 DEF CapacityInv, FileInv
  <2>7. SumOf(Size, entries) + SumOf(len, Q) <= MaxBytes /\ Cardinality(entries) + Cardinality(Q) <= MaxRecords
    BY <2>1 DEF CapacityInv, BudgetInv
  <2>8. SumOf(Size, entries \ {i}) + SumOf(len, R) <= MaxBytes
    BY <1>6, <2>3, <2>4, <2>5, <2>6, <2>7, JournalAssumption
  <2>9. Cardinality(entries \ {i}) + Cardinality(R) <= MaxRecords
    BY <1>6, <2>3, <2>4, <2>5, <2>7, JournalAssumption
  <2> QED BY <1>1, <2>1, <2>8, <2>9 DEF BudgetInv
<1>10. RemainsInv' BY <1>1, <1>3, <1>5, <1>9, RemainsCounted
<1> QED BY <1>3, <1>5, <1>8, <1>9, <1>10 DEF CapacityInv

(* Journal::append reserves room, counting what is quarantined. *)
LEMMA ReserveCapacity ==
  ASSUME IInv, IInv', CapacityInv, WriterReserve, AppendReserve(wid), wpc' = "write", wid' = wid
  PROVE  CapacityInv'
<1>0. wid \in Ids /\ Untouched(wid) /\ mode \in Running
  BY WriterFacts DEF WriterReserve, Station, IntakeStation, Writing, Running
<1>1. PICK i \in Ids : i = wid BY <1>0
<1>2. /\ len \in [Ids -> Nat] /\ TypeOK' /\ quarantine_ids \subseteq Ids /\ entries \subseteq Ids
      /\ entries' = entries \cup {i} /\ bytes' = bytes + Size[i] /\ i \notin entries
      /\ UNCHANGED <<disk, stable, len, mode, commits, quarantined, quarantine_bytes, quarantine_ids>>
  BY <1>1 DEF IInv, TypeOK, JournalTypeOK, AppendReserve, diskVars, Duplicate, WriterReserve, WriterOnly, dbVars
<1>3. i \notin quarantine_ids /\ stable[i] = {"none"}
  BY <1>0, <1>1 DEF Untouched, CapacityInv, CountedInv, IInv, Station, CatalogStation
<1>4. ASSUME NEW j \in Ids PROVE FileInv(j)' /\ CountedInv(j)'
  <2>1. FileInv(j) /\ CountedInv(j) BY DEF CapacityInv
  <2>2. FileInv(j)' BY <1>1, <1>2, <1>3, <2>1 DEF FileInv, Writing
  <2>3. CountedInv(j)' BY <1>2, <1>3, <2>1 DEF CountedInv, SetAside
  <2> QED BY <2>2, <2>3
<1>5. /\ SumOf(Size, entries \cup {i}) = SumOf(Size, entries) + Size[i] /\ SumOf(Size, entries) \in Nat
      /\ Cardinality(entries \cup {i}) = Cardinality(entries) + 1
      /\ Cardinality(entries) \in Nat /\ Size[i] \in Nat
  <2>1. IsFiniteSet(entries) /\ (\A x \in entries : Size[x] \in Nat) /\ Cardinality(entries) \in Nat
    BY <1>2, FiniteSizes
  <2>2. Size[i] \in Nat BY JournalAssumption
  <2> QED BY <1>2, <2>1, <2>2, SumAdd, FS_AddElement
<1>6. CounterInv' BY <1>0, <1>2, <1>5 DEF CapacityInv, CounterInv
<1>7. BudgetInv'
  <2>1. PICK Q, R : Q = quarantine_ids \ Aside /\ R = (quarantine_ids \ Aside)' OBVIOUS
  <2>2. R = Q BY <1>2, <2>1 DEF Aside, SetAside
  <2>3. SumOf(len, Q) <= SumOf(len, quarantine_ids) /\ Cardinality(Q) <= Cardinality(quarantine_ids)
    <3>1. Q \subseteq quarantine_ids /\ \A x \in Q : len[x] <= len[x] BY <1>2, <2>1
    <3> QED BY <1>2, <3>1, Shrinks
  <2>4. /\ SumOf(len, Q) \in Nat /\ SumOf(len, quarantine_ids) \in Nat
        /\ Cardinality(Q) \in Nat /\ Cardinality(quarantine_ids) \in Nat
    <3>1. Q \subseteq Ids BY <1>2, <2>1
    <3> QED BY <1>2, <3>1, FiniteSizes
  <2>5. /\ SumOf(Size, entries) + SumOf(len, quarantine_ids) + Size[i] <= MaxBytes
        /\ Cardinality(entries) + Cardinality(quarantine_ids) < MaxRecords
    <3>1. CounterInv /\ ~Full(wid) BY DEF CapacityInv, AppendReserve
    <3> QED BY <1>1, <1>5, <2>4, <3>1, JournalAssumption DEF CounterInv, Full
  <2>6. SumOf(Size, entries \cup {i}) + SumOf(len, Q) <= MaxBytes BY <1>5, <2>3, <2>4, <2>5, JournalAssumption
  <2>7. Cardinality(entries \cup {i}) + Cardinality(Q) <= MaxRecords BY <1>5, <2>3, <2>4, <2>5, JournalAssumption
  <2> QED BY <1>2, <2>1, <2>2, <2>6, <2>7 DEF BudgetInv
<1>8. RemainsInv' BY <1>0, <1>2, <1>4, <1>7, RemainsCounted
<1> QED BY <1>4, <1>6, <1>7, <1>8 DEF CapacityInv

(* The process ends and takes its catalog with it. *)
LEMMA LoseCapacity ==
  ASSUME IInv, IInv', CapacityInv, LoseProcess, UNCHANGED diskVars \/ LosePower,
         mode' \notin Running \cup {"opening"}
  PROVE  CapacityInv'
<1>1. len' = len /\ len \in [Ids -> Nat] /\ TypeOK
      /\ entries' = {} /\ quarantine_ids' = {} /\ bytes' = 0 /\ quarantined' = 0 /\ quarantine_bytes' = 0
      /\ wpc' = "recv" /\ commits' = commits
  BY DEF diskVars, LosePower, LoseProcess, ForgetCatalog, IInv, TypeOK, JournalTypeOK
<1>2. ASSUME NEW j \in Ids
      PROVE  /\ stable'[j] \subseteq stable[j] /\ stable'[j] # {}
             /\ (stable'[j] = stable[j] \/ \E f \in stable[j] : stable'[j] = {f})
  <2>1. disk[j] \in stable[j] BY DEF IInv, Station, CatalogStation
  <2>2. CASE UNCHANGED diskVars BY <2>1, <2>2 DEF diskVars
  <2>3. CASE LosePower BY <2>3 DEF LosePower
  <2> QED BY <2>2, <2>3
<1>3. \A j \in Ids : /\ stable[j] = {"none"} => stable'[j] = {"none"}
                     /\ SetAside(j) => SetAside(j)'
                     /\ len'[j] <= len[j]
  BY <1>1, <1>2 DEF SetAside
<1>4. RemainsInv' BY <1>1, <1>3, RemainsShrinks DEF CapacityInv
<1>5. CounterInv' BY <1>1, SumEmpty, FS_EmptySet DEF CounterInv
<1>6. BudgetInv'
  <2>1. (quarantine_ids \ Aside)' = {} BY <1>1
  <2>2. SumOf(Size, {}) = 0 /\ SumOf(len', {}) = 0 /\ Cardinality({}) = 0 BY SumEmpty, FS_EmptySet
  <2> QED BY <1>1, <2>1, <2>2, JournalAssumption DEF BudgetInv
<1>7. ASSUME NEW j \in Ids PROVE FileInv(j)' /\ CountedInv(j)'
  <2>1. FileInv(j) BY DEF CapacityInv
  <2>2. FileInv(j)' BY <1>1, <1>2, <2>1 DEF FileInv, Writing
  <2>3. CountedInv(j)' BY <1>1 DEF CountedInv
  <2> QED BY <2>2, <2>3
<1> QED BY <1>4, <1>5, <1>6, <1>7 DEF CapacityInv

(* The storage damages a record. *)
LEMMA CorruptCapacity ==
  ASSUME IInv, IInv', CapacityInv, NEW i \in Ids, Corrupt(i)
  PROVE  CapacityInv'
<1>1. /\ len \in [Ids -> Nat] /\ len' \in [Ids -> Nat] /\ TypeOK /\ quarantine_ids \subseteq Ids
      /\ disk \in [Ids -> File] /\ stable \in [Ids -> SUBSET File]
  BY DEF IInv, TypeOK, JournalTypeOK
<1>2. PICK kind \in {"badbody", "badhead", "short"} : Damage(i, kind) BY PipelineAssumption DEF Corrupt
<1>3. /\ disk[i] = "trace" /\ disk'[i] = kind
      /\ stable'[i] = (stable[i] \ {"trace"}) \cup {kind}
      /\ len'[i] = IF kind = "short" THEN 0 ELSE len[i]
      /\ \A j \in Ids : j # i => disk'[j] = disk[j] /\ stable'[j] = stable[j] /\ len'[j] = len[j]
  BY <1>1, <1>2 DEF Damage
<1>4. /\ UNCHANGED <<mode, wid, wpc, commits>>
      /\ UNCHANGED <<entries, bytes, quarantined, quarantine_bytes, quarantine_ids>>
  BY DEF Corrupt, Elsewhere, catalogVars, writerVars, dbVars
<1>5. "trace" \in stable[i] /\ ~SetAside(i) /\ i \notin quarantine_ids
  BY <1>3 DEF IInv, Station, CatalogStation, CapacityInv, CountedInv, SetAside
<1>6. \A j \in Ids : SetAside(j) => SetAside(j)' BY <1>3, <1>4, <1>5 DEF SetAside
<1>7. BudgetInv' /\ CounterInv'
  <2>1. \A j \in quarantine_ids : len'[j] = len[j] /\ (SetAside(j) => SetAside(j)')
    BY <1>1, <1>3, <1>5, <1>6
  <2> QED BY <1>1, <1>4, <2>1, BudgetKept DEF CapacityInv
<1>8. RemainsInv'
  <2>1. ASSUME NEW j \in Ids PROVE (stable[j] = {"none"} => stable'[j] = {"none"}) /\ len'[j] <= len[j]
    <3>1. len[j] \in Nat BY <1>1
    <3> QED BY <1>3, <1>5, <3>1
  <2> QED BY <1>1, <1>6, <2>1, RemainsShrinks DEF CapacityInv
<1>9. ASSUME NEW j \in Ids PROVE FileInv(j)' /\ CountedInv(j)'
  <2>1. FileInv(j) /\ CountedInv(j) /\ CatalogStation(j) BY DEF CapacityInv, IInv, Station
  <2>2. CASE j = i
    <3>1. Size[j] \in Nat /\ len[j] \in Nat BY <1>1, JournalAssumption
    <3>2. FileInv(j)'
      BY <1>3, <1>4, <1>5, <2>1, <2>2, <3>1 DEF FileInv, Writing, HeaderOK, TraceFile
    <3>3. i \in entries \/ mode \notin Running BY <1>3, <1>5, <2>1, <2>2 DEF CatalogStation, Inert
    <3>4. CountedInv(j)' BY <1>3, <1>4, <1>5, <2>2, <3>3 DEF CountedInv
    <3> QED BY <3>2, <3>4
  <2>3. CASE j # i
    <3>1. FileInv(j)' BY <1>3, <1>4, <2>1, <2>3 DEF FileInv, Writing
    <3>2. CountedInv(j)' BY <1>3, <1>4, <1>6, <2>1, <2>3 DEF CountedInv
    <3> QED BY <3>1, <3>2
  <2> QED BY <2>2, <2>3
<1> QED BY <1>7, <1>8, <1>9 DEF CapacityInv

(* Journal::open counts what it finds. *)
LEMMA OpenCapacity == ASSUME IInv, IInv', CapacityInv, OpenJournal PROVE CapacityInv'
<1> DEFINE found == {i \in Ids : disk[i] \in HeaderOK}
           aside == {i \in Ids : Scanned(disk[i]) = "quarantine"}
<1>1. /\ len \in [Ids -> Nat] /\ len' = len /\ TypeOK /\ mode' = "opening"
      /\ entries' = found /\ quarantine_ids' = aside
      /\ bytes' = SumOf(Size, found) /\ quarantined' = Cardinality(aside)
      /\ quarantine_bytes' = SumOf(len, aside)
      /\ UNCHANGED <<commits, wpc, wid>> /\ wpc = "recv"
  BY DEF IInv, TypeOK, JournalTypeOK, OpenJournal, OpenScan, StartOnly, dbVars, writerVars,
         TotalSize, TotalLength, SumOf, ProcessInv
<1>2. ASSUME NEW j \in Ids
      PROVE  /\ disk'[j] = Scanned(disk[j]) /\ stable'[j] = stable[j] \cup {Scanned(disk[j])}
             /\ disk[j] \in stable[j] /\ disk[j] \in File
  BY DEF OpenJournal, OpenScan, IInv, Station, CatalogStation, TypeOK, JournalTypeOK
<1>3. \A j \in Ids : /\ stable[j] = {"none"} => stable'[j] = {"none"}
                     /\ SetAside(j) => SetAside(j)'
                     /\ len'[j] <= len[j]
  <2> SUFFICES ASSUME NEW j \in Ids
               PROVE  /\ stable[j] = {"none"} => stable'[j] = {"none"}
                      /\ SetAside(j) => SetAside(j)'
                      /\ len'[j] <= len[j]
    OBVIOUS
  <2>1. len[j] \in Nat BY <1>1
  <2>2. stable[j] = {"none"} => stable'[j] = {"none"} BY <1>2 DEF Scanned
  <2>3. SetAside(j) => SetAside(j)' BY <1>1, <1>2 DEF Scanned, SetAside, HeaderOK
  <2> QED BY <1>1, <2>1, <2>2, <2>3
<1>4. RemainsInv' BY <1>1, <1>3, RemainsShrinks DEF CapacityInv
<1>5. CounterInv' BY <1>1 DEF CounterInv
<1>6. BudgetInv'
  <2>1. PICK Q, L : Q = (quarantine_ids \ Aside)' /\ L = len' OBVIOUS
  <2>2. found \subseteq Ids /\ Q \subseteq Ids /\ found \cap Q = {}
    BY <1>1, <2>1 DEF Scanned, HeaderOK
  <2>3. found \cup Q \subseteq May
    <3>1. \A j \in found : j \in May BY <1>2 DEF May, SetAside, HeaderOK
    <3>2. \A j \in Q : j \in May BY <1>1, <1>2, <1>3, <2>1, <2>2 DEF May, Aside, Scanned, HeaderOK
    <3> QED BY <3>1, <3>2
  <2>4. SumOf(len, found \cup Q) <= SumOf(len, May) /\ Cardinality(found \cup Q) <= Cardinality(May)
    <3>1. May \subseteq Ids /\ \A x \in found \cup Q : len[x] <= len[x] BY <1>1, <2>2 DEF May
    <3> HIDE DEF found
    <3> QED BY <1>1, <2>3, <3>1, Shrinks
  <2>5. /\ SumOf(len, found \cup Q) = SumOf(len, found) + SumOf(len, Q)
        /\ Cardinality(found \cup Q) = Cardinality(found) + Cardinality(Q)
    <3> HIDE DEF found
    <3> QED BY <1>1, <2>2, Together
  <2>6. SumOf(len, found) = SumOf(Size, found)
    <3>1. \A j \in found : len[j] = Size[j]
      <4>1. \A j \in found : stable[j] \cap HeaderOK # {} BY <1>2
      <4> QED BY <4>1 DEF CapacityInv, FileInv
    <3>2. IsFiniteSet(found) BY <1>1, <2>2, FiniteSizes
    <3> HIDE DEF found
    <3> QED BY <3>1, <3>2, SumSame
  <2>7. /\ SumOf(len, found) \in Nat /\ SumOf(len, Q) \in Nat /\ SumOf(len, May) \in Nat
        /\ Cardinality(found) \in Nat /\ Cardinality(Q) \in Nat /\ Cardinality(May) \in Nat
    <3>1. May \subseteq Ids BY DEF May
    <3> HIDE DEF found
    <3> QED BY <1>1, <2>2, <3>1, FiniteSizes
  <2>8. SumOf(len, May) <= MaxBytes /\ Cardinality(May) <= MaxRecords BY DEF CapacityInv, RemainsInv
  <2> HIDE DEF found, aside
  <2>9. SumOf(Size, found) + SumOf(len, Q) <= MaxBytes BY <2>4, <2>5, <2>6, <2>7, <2>8, JournalAssumption
  <2>10. Cardinality(found) + Cardinality(Q) <= MaxRecords BY <2>4, <2>5, <2>7, <2>8, JournalAssumption
  <2> QED BY <1>1, <2>1, <2>9, <2>10 DEF BudgetInv
<1>7. ASSUME NEW j \in Ids PROVE FileInv(j)' /\ CountedInv(j)'
  <2>1. FileInv(j) BY DEF CapacityInv
  <2>2. FileInv(j)' BY <1>1, <1>2, <2>1 DEF FileInv, Writing, Scanned, HeaderOK
  <2>3. mode' \notin Running BY <1>1 DEF Running
  <2>4. CountedInv(j)' BY <1>1, <1>2, <2>3 DEF CountedInv, Scanned, HeaderOK
  <2> QED BY <2>2, <2>4
<1> QED BY <1>4, <1>5, <1>6, <1>7 DEF CapacityInv

-----------------------------------------------------------------------------
(* The actions.                                                            *)

(* The capture of a running append. *)
LEMMA AppendingFacts ==
  ASSUME IInv, CapacityInv, wpc \in Appending
  PROVE  /\ wid \in Ids /\ wid \in entries /\ ~SetAside(wid) /\ mode \in Running
         /\ FileInv(wid) /\ Station(wid) /\ Writing(wid)
         /\ len \in [Ids -> Nat] /\ stable \in [Ids -> SUBSET File] /\ disk \in [Ids -> File]
<1>1. wpc # "recv" BY DEF Appending
<1>2. wid \in Ids /\ Station(wid) /\ mode \in Running BY <1>1, WriterFacts DEF Running
<1>3. Writing(wid) /\ FileInv(wid) BY <1>1, <1>2 DEF Writing, CapacityInv
<1>4. wid \in entries /\ commits[wid] = 0 BY <1>2, <1>3 DEF Station, AppendStation
<1>5. len \in [Ids -> Nat] /\ stable \in [Ids -> SUBSET File] /\ disk \in [Ids -> File]
  BY DEF IInv, TypeOK, JournalTypeOK
<1> QED BY <1>2, <1>3, <1>4, <1>5 DEF SetAside

(* The other files. *)
LEMMA OtherFiles ==
  ASSUME IInv, CapacityInv, NEW i \in Ids, NEW f, SetFile(i, f), \A j \in Ids : j # i => len'[j] = len[j],
         \A j \in Ids : j # i => (Writing(j)' => Writing(j) /\ wpc' = wpc),
         NEW j \in Ids, j # i
  PROVE  FileInv(j)'
<1>1. stable'[j] = stable[j] /\ len'[j] = len[j] BY DEF SetFile, IInv, TypeOK, JournalTypeOK
<1>2. FileInv(j) BY DEF CapacityInv
<1> QED BY <1>1, <1>2 DEF FileInv

(* What the writer leaves alone while it appends. *)
LEMMA AppendCapacity ==
  ASSUME IInv, IInv', CapacityInv, NEW i \in Ids, i = wid, wpc \in Appending, wid' = wid, NEW f, SetFile(i, f),
         \A j \in Ids : j # i => len'[j] = len[j], FileInv(i)',
         UNCHANGED <<mode, commits, entries, bytes, quarantined, quarantine_bytes, quarantine_ids>>
  PROVE  CapacityInv'
<1>1. i \in entries /\ ~SetAside(i) /\ mode \in Running BY AppendingFacts
<1>2. \A j \in Ids : j # i => (Writing(j)' => Writing(j) /\ wpc' = wpc) BY DEF Writing
<1>3. ASSUME NEW j \in Ids PROVE FileInv(j)' BY <1>2, OtherFiles
<1> QED BY <1>1, <1>3, SetCapacity

(* The temporary file is written, whole or in part. *)
LEMMA WriterWriteCapacity == ASSUME IInv, IInv', CapacityInv, WriterWrite PROVE CapacityInv'
<1>1. wpc = "write" /\ wpc \in Appending BY DEF WriterWrite, WriterStep, Appending
<1>2. PICK i \in Ids : i = wid BY <1>1, AppendingFacts
<1>3. /\ wid' = wid /\ UNCHANGED <<mode, commits, entries, bytes, quarantined, quarantine_bytes, quarantine_ids>>
  BY DEF WriterWrite, WriterStep, WriterOnly, catalogVars, dbVars
<1>4. stable[i] = {"none"} /\ len \in [Ids -> Nat] /\ stable \in [Ids -> SUBSET File] /\ Size[i] \in Nat
  BY <1>1, <1>2, AppendingFacts, JournalAssumption DEF FileInv
<1>5. CASE AppendWrite(i) /\ wpc' = "rename"
  <2>1. SetFile(i, "partial") /\ len'[i] = Size[i] /\ \A j \in Ids : j # i => len'[j] = len[j]
    BY <1>4, <1>5 DEF AppendWrite
  <2>2. stable'[i] = {"none", "partial"} BY <1>4, <2>1 DEF SetFile
  <2>3. FileInv(i)' BY <1>4, <1>5, <2>1, <2>2 DEF FileInv, HeaderOK, TraceFile
  <2> QED BY <1>1, <1>2, <1>3, <2>1, <2>3, AppendCapacity
<1>6. CASE UNCHANGED diskVars /\ wpc' = "quarantine"
  <2>1. NoNewAppend /\ CommitsStay BY <1>3, <1>6 DEF NoNewAppend, CommitsStay
  <2> QED BY <1>3, <1>6, <2>1, QuietCapacity DEF diskVars
<1>7. ASSUME NEW n \in 0 .. Size[i] - 1, SetFile(i, "partial"), len' = [len EXCEPT ![i] = n], wpc' = "quarantine"
      PROVE  CapacityInv'
  <2>1. len'[i] = n /\ \A j \in Ids : j # i => len'[j] = len[j] BY <1>4, <1>7
  <2>2. stable'[i] = {"none", "partial"} BY <1>4, <1>7 DEF SetFile
  <2>3. FileInv(i)' BY <1>4, <1>7, <2>1, <2>2 DEF FileInv, HeaderOK, TraceFile
  <2> QED BY <1>1, <1>2, <1>3, <1>7, <2>1, <2>3, AppendCapacity
<1> QED BY <1>2, <1>5, <1>6, <1>7 DEF WriterWrite, WriterStep, AppendWriteFails

(* The temporary file gets the name of a record. *)
LEMMA WriterRenameCapacity == ASSUME IInv, IInv', CapacityInv, WriterRename PROVE CapacityInv'
<1>1. wpc = "rename" /\ wpc \in Appending BY DEF WriterRename, WriterStep, Appending
<1>2. PICK i \in Ids : i = wid BY <1>1, AppendingFacts
<1>3. /\ wid' = wid /\ UNCHANGED <<mode, commits, entries, bytes, quarantined, quarantine_bytes, quarantine_ids>>
  BY DEF WriterRename, WriterStep, WriterOnly, catalogVars, dbVars
<1>4. FileInv(i) /\ Writing(i) /\ stable \in [Ids -> SUBSET File] BY <1>1, <1>2, AppendingFacts
<1>5. CASE AppendRename(i) /\ wpc' = "sync"
  <2>1. SetFile(i, "trace") /\ len' = len BY <1>5 DEF AppendRename
  <2>2. stable'[i] = stable[i] \cup {"trace"} BY <1>4, <2>1 DEF SetFile
  <2>3. FileInv(i)' BY <1>1, <1>4, <1>5, <2>1, <2>2 DEF FileInv, TraceFile
  <2> QED BY <1>1, <1>2, <1>3, <2>1, <2>3, AppendCapacity
<1>6. CASE UNCHANGED diskVars /\ wpc' = "quarantine"
  <2>1. NoNewAppend /\ CommitsStay BY <1>3, <1>6 DEF NoNewAppend, CommitsStay
  <2> QED BY <1>3, <1>6, <2>1, QuietCapacity DEF diskVars
<1> QED BY <1>2, <1>5, <1>6 DEF WriterRename, WriterStep

(* A failed append renames what it has written. *)
LEMMA WriterQuarantineCapacity == ASSUME IInv, IInv', CapacityInv, WriterQuarantine PROVE CapacityInv'
<1>1. wpc = "quarantine" /\ wpc \in Appending BY DEF WriterQuarantine, Appending
<1>2. PICK i \in Ids : i = wid BY <1>1, AppendingFacts
<1>3. /\ wid' = wid /\ UNCHANGED <<mode, commits, entries, bytes, quarantined, quarantine_bytes, quarantine_ids>>
      /\ wpc' \in {"quarsync", "release"}
  BY DEF WriterQuarantine, WriterOnly, GiveUp, catalogVars, dbVars
<1>4. FileInv(i) /\ stable \in [Ids -> SUBSET File] BY <1>1, <1>2, AppendingFacts
<1>5. CASE SetFile(i, "quarantine") /\ UNCHANGED len
  <2>1. stable'[i] = stable[i] \cup {"quarantine"} BY <1>4, <1>5 DEF SetFile
  <2>2. FileInv(i)' BY <1>3, <1>4, <1>5, <2>1 DEF FileInv, HeaderOK
  <2> QED BY <1>1, <1>2, <1>3, <1>5, <2>2, AppendCapacity
<1>6. CASE UNCHANGED diskVars
  <2>1. NoNewAppend /\ CommitsStay BY <1>3 DEF NoNewAppend, CommitsStay
  <2> QED BY <1>3, <1>6, <2>1, QuietCapacity DEF diskVars
<1> QED BY <1>2, <1>5, <1>6 DEF WriterQuarantine, QuarantineRename

(* The rename of a failed append is made durable. *)
LEMMA WriterQuarSyncCapacity == ASSUME IInv, IInv', CapacityInv, WriterQuarSync PROVE CapacityInv'
<1>1. wpc = "quarsync" /\ wpc \in Appending BY DEF WriterQuarSync, Appending
<1>2. PICK i \in Ids : i = wid BY <1>1, AppendingFacts
<1>3. wpc' = "release" /\ UNCHANGED <<mode, commits>> BY DEF WriterQuarSync, WriterOnly, GiveUp, dbVars
<1>4. NoNewAppend /\ CommitsStay BY <1>3 DEF NoNewAppend, CommitsStay
<1>5. i \in entries /\ mode \in Running /\ disk[i] \in Inert
  <2>1. wid \in entries /\ mode \in Running /\ Station(wid) /\ Writing(wid) BY <1>1, AppendingFacts
  <2> QED BY <1>1, <1>2, <2>1 DEF Station, AppendStation
<1>6. CASE QuarantineSync(i)
  BY <1>3, <1>4, <1>5, <1>6, DropCapacity DEF QuarantineSync, Inert
<1>7. CASE UNCHANGED <<diskVars, catalogVars>>
  BY <1>3, <1>4, <1>7, QuietCapacity DEF diskVars, catalogVars
<1> QED BY <1>2, <1>6, <1>7 DEF WriterQuarSync

(* The rest of the append. *)
LEMMA WriterCapacity ==
  ASSUME IInv, IInv', CapacityInv, WriterRecv \/ WriterReserve \/ WriterSync \/ WriterRelease
  PROVE  CapacityInv'
<1>1. UNCHANGED <<mode, commits>> /\ CommitsStay
  BY DEF WriterRecv, WriterReserve, WriterSync, WriterRelease, WriterOnly, dbVars, CommitsStay
<1>2. CASE WriterRecv
  <2>1. NoNewAppend BY <1>2 DEF NoNewAppend, WriterRecv
  <2> QED BY <1>1, <1>2, <2>1, QuietCapacity DEF WriterRecv, diskVars, catalogVars
<1>3. CASE WriterReserve
  <2>1. CASE AppendReserve(wid) /\ wpc' = "write" /\ wid' = wid BY <1>3, <2>1, ReserveCapacity
  <2>2. CASE wpc' = "release" /\ UNCHANGED <<diskVars, catalogVars>>
    <3>1. NoNewAppend BY <2>2 DEF NoNewAppend
    <3> QED BY <1>1, <2>2, <3>1, QuietCapacity DEF diskVars, catalogVars
  <2> QED BY <1>3, <2>1, <2>2 DEF WriterReserve, GiveUp
<1>4. CASE WriterSync
  <2>1. wpc' \in {"release", "quarantine"} BY <1>4 DEF WriterSync, GiveUp
  <2>2. NoNewAppend BY <2>1 DEF NoNewAppend
  <2>3. mode \in Running
    <3>1. wpc \in Appending BY <1>4 DEF WriterSync, Appending
    <3> QED BY <3>1, AppendingFacts
  <2>4. CASE AppendPublish(wid) BY <1>1, <2>2, <2>3, <2>4, SyncCapacity DEF AppendPublish
  <2>5. CASE UNCHANGED <<diskVars, catalogVars>>
    BY <1>1, <2>2, <2>5, QuietCapacity DEF diskVars, catalogVars
  <2> QED BY <1>4, <2>4, <2>5 DEF WriterSync
<1>5. CASE WriterRelease
  <2>1. NoNewAppend BY <1>5 DEF NoNewAppend, WriterRelease
  <2> QED BY <1>1, <1>5, <2>1, QuietCapacity DEF WriterRelease, diskVars, catalogVars
<1> QED BY <1>2, <1>3, <1>4, <1>5

(* The replay task changes a file of its record, or the directory not at   *)
(* all.                                                                    *)
LEMMA ReplayCapacity == ASSUME IInv, IInv', CapacityInv, NEW i \in Ids, ReplayStep(i) PROVE CapacityInv'
<1>1. claims[i] # "none" /\ UNCHANGED <<mode, wpc, wid>>
  BY ReplayShape DEF WorkerOnly, writerVars
<1>2. NoNewAppend BY <1>1 DEF NoNewAppend, Writing
<1>4. Station(i) /\ i \in entries /\ mode \in Running BY <1>1 DEF IInv, Station, ClaimStation
<1>5. CommitsStay
  <2>1. CASE commits' = commits BY <2>1 DEF CommitsStay
  <2>2. CASE Committed(i)
    BY <2>2 DEF CommitsStay, Committed, IInv, TypeOK
  <2> QED BY <2>1, <2>2 DEF ReplayStep, CheckReceipt, ReadRecord, BeginInsert, CommitInsert,
       AcknowledgeRemove, AcknowledgeSync, QuarantineRecord, QuarantineDone, dbVars
<1>6. CASE UNCHANGED <<disk, stable, len, entries, bytes, quarantined, quarantine_bytes, quarantine_ids>>
  BY <1>1, <1>2, <1>5, <1>6, QuietCapacity
<1>7. ASSUME NEW f \in {"none", "quarantine"}, SetFile(i, f), UNCHANGED len,
             disk[i] \in TraceFile \cup {"partial"},
             UNCHANGED <<commits, entries, bytes, quarantined, quarantine_bytes, quarantine_ids>>
      PROVE  CapacityInv'
  <2>1. ~SetAside(i) BY <1>4, <1>7 DEF SetAside, Station, CatalogStation, TraceFile
  <2>2. ASSUME NEW j \in Ids PROVE FileInv(j)'
    <3>1. CASE j = i
      <4>1. stable'[i] = stable[i] \cup {f} BY <1>7 DEF SetFile, IInv, TypeOK, JournalTypeOK
      <4>2. ~(Writing(i) /\ wpc \in {"write", "rename"}) BY <1>1 DEF IInv, Station, AppendStation, Appending
      <4>3. FileInv(i) BY DEF CapacityInv
      <4> QED BY <1>1, <1>7, <3>1, <4>1, <4>2, <4>3 DEF FileInv, HeaderOK, Writing
    <3>2. CASE j # i BY <1>1, <1>7, <3>2, OtherFiles DEF Writing
    <3> QED BY <3>1, <3>2
  <2> QED BY <1>1, <1>4, <1>7, <2>1, <2>2, SetCapacity
<1>8. CASE AcknowledgeSync(i) /\ AckSync(i)
  <2>1. commits[i] > 0 /\ disk[i] \in Inert /\ commits' = commits
    BY <1>4, <1>8 DEF AcknowledgeSync, Station, ClaimStation, LedgerStation, dbVars
  <2> QED BY <1>1, <1>2, <1>4, <1>8, <2>1, DropCapacity DEF AckSync, Inert
<1>9. CASE QuarantineDone(i) /\ QuarantineSync(i)
  <2>1. disk[i] \in Inert /\ commits' = commits
    BY <1>4, <1>9 DEF QuarantineDone, Station, ClaimStation, dbVars
  <2> QED BY <1>1, <1>2, <1>4, <1>9, <2>1, DropCapacity DEF QuarantineSync, Inert
<1>10. ASSUME ~ UNCHANGED <<disk, stable, len, entries, bytes, quarantined, quarantine_bytes, quarantine_ids>>
       PROVE  CapacityInv'
  <2> USE DEF diskVars, catalogVars, dbVars, Goto, Fail, Retry
  <2>1. CASE CheckReceipt(i) BY <1>10, <2>1 DEF CheckReceipt
  <2>2. CASE ReadRecord(i) BY <1>10, <2>2 DEF ReadRecord
  <2>3. CASE BeginInsert(i) BY <1>10, <2>3 DEF BeginInsert
  <2>4. CASE CommitInsert(i) BY <1>10, <2>4 DEF CommitInsert
  <2>5. CASE AcknowledgeRemove(i) BY <1>7, <1>10, <2>5 DEF AcknowledgeRemove, AckRemove
  <2>6. CASE AcknowledgeSync(i) BY <1>8, <1>10, <2>6 DEF AcknowledgeSync
  <2>7. CASE QuarantineRecord(i) BY <1>7, <1>10, <2>7 DEF QuarantineRecord, QuarantineRename
  <2>8. CASE QuarantineDone(i) BY <1>9, <1>10, <2>8 DEF QuarantineDone
  <2> QED BY <2>1, <2>2, <2>3, <2>4, <2>5, <2>6, <2>7, <2>8 DEF ReplayStep
<1> QED BY <1>6, <1>10

(* Everything else. *)
LEMMA QuietActions ==
  ASSUME IInv, IInv', CapacityInv,
         \/ \E i \in Ids : Record(i) \/ RetryDue(i) \/ OrphanDecided(i) \/ RotateTrace(i)
         \/ ClaimRecord \/ CleanSelect \/ CleanFilter \/ CleanDelete
         \/ BeginShutdown \/ WriterFinished \/ ExitAborted \/ UNCHANGED vars
  PROVE  CapacityInv'
<1> USE DEF diskVars, catalogVars, dbVars, writerVars, intakeVars
<1>1. /\ UNCHANGED <<disk, stable, len, entries, bytes, quarantined, quarantine_bytes, quarantine_ids>>
      /\ UNCHANGED <<wpc, wid>>
  <2>1. CASE \E i \in Ids : Record(i) \/ RetryDue(i)
    BY <2>1 DEF Record, RetryDue, BecomeDue, WorkerOnly
  <2>2. CASE \E i \in Ids : OrphanDecided(i) \/ RotateTrace(i)
    BY <2>2 DEF OrphanDecided, RotateTrace, Elsewhere
  <2>3. CASE ClaimRecord BY <2>3 DEF ClaimRecord, ClaimAt, WorkerOnly
  <2>4. CASE CleanSelect \/ CleanFilter \/ CleanDelete BY <2>4 DEF CleanSelect, CleanFilter, CleanDelete, CleanOnly
  <2>5. CASE BeginShutdown \/ WriterFinished \/ ExitAborted
    BY <2>5 DEF BeginShutdown, WriterFinished, ExitAborted, StartOnly
  <2>6. CASE UNCHANGED vars BY <2>6 DEF vars
  <2> QED BY <2>1, <2>2, <2>3, <2>4, <2>5, <2>6
<1>2. NoNewAppend BY <1>1 DEF NoNewAppend, Writing
<1>3. CommitsStay
  <2>1. CASE commits' = commits BY <2>1 DEF CommitsStay
  <2>2. ASSUME NEW i \in Ids, Committed(i) PROVE CommitsStay
    BY <2>2 DEF CommitsStay, Committed, IInv, TypeOK
  <2>3. CASE \E i \in Ids : OrphanDecided(i) BY <2>1, <2>2, <2>3 DEF OrphanDecided
  <2>4. CASE \E i \in Ids : Record(i) \/ RetryDue(i) \/ RotateTrace(i)
    BY <2>1, <2>4 DEF Record, RetryDue, RotateTrace
  <2>5. CASE ClaimRecord \/ CleanSelect \/ CleanFilter \/ CleanDelete
    BY <2>1, <2>5 DEF ClaimRecord, CleanSelect, CleanFilter, CleanDelete, CleanOnly
  <2>6. CASE BeginShutdown \/ WriterFinished \/ ExitAborted \/ UNCHANGED vars
    BY <2>1, <2>6 DEF BeginShutdown, WriterFinished, ExitAborted, StartOnly, vars
  <2> QED BY <2>3, <2>4, <2>5, <2>6
<1>4. /\ mode' \in Running => mode \in Running
      /\ mode' = "opening" => mode = "opening"
      /\ mode' \notin Running \cup {"opening"} => mode \notin Running \cup {"opening"}
  <2>1. CASE mode' = mode BY <2>1
  <2>2. CASE BeginShutdown \/ WriterFinished \/ ExitAborted
    BY <2>2 DEF BeginShutdown, WriterFinished, ExitAborted, Running
  <2>3. mode' = mode \/ BeginShutdown \/ WriterFinished \/ ExitAborted
    BY DEF Record, RetryDue, OrphanDecided, RotateTrace, ClaimRecord, CleanSelect, CleanFilter, CleanDelete,
           WorkerOnly, Elsewhere, CleanOnly, vars
  <2> QED BY <2>1, <2>2, <2>3
<1> QED BY <1>1, <1>2, <1>3, <1>4, QuietCapacity

(* The directory is empty at first. *)
LEMMA InitCapacity == Init => CapacityInv
<1> SUFFICES ASSUME Init PROVE CapacityInv OBVIOUS
<1> USE DEF Init, IdleProcess, JournalInit
<1>1. \A i \in Ids : disk[i] = "none" /\ stable[i] = {"none"} /\ len[i] = 0 /\ Size[i] \in Nat
  BY JournalAssumption
<1>2. ASSUME NEW i \in Ids PROVE FileInv(i) /\ CountedInv(i)
  BY <1>1 DEF FileInv, CountedInv, HeaderOK, Writing, Running
<1>3. May = {} /\ entries = {} /\ quarantine_ids = {} BY <1>1 DEF May
<1>4. SumOf(Size, {}) = 0 /\ SumOf(len, {}) = 0 /\ Cardinality({}) = 0 BY SumEmpty, FS_EmptySet
<1>5. CounterInv BY <1>3, <1>4 DEF CounterInv
<1>6. BudgetInv
  <2>1. quarantine_ids \ Aside = {} BY <1>3
  <2> QED BY <1>3, <1>4, <2>1, JournalAssumption DEF BudgetInv
<1>7. RemainsInv BY <1>3, <1>4, JournalAssumption DEF RemainsInv
<1> QED BY <1>2, <1>5, <1>6, <1>7 DEF CapacityInv

(* Every step. *)
LEMMA NextCapacity == ASSUME IInv, IInv', CapacityInv, [Next]_vars PROVE CapacityInv'
<1>1. CASE Serve
  <2>1. /\ mode \in Running \cup {"opening"} /\ mode' \in Running /\ SyncDirectory
        /\ UNCHANGED <<commits, entries, bytes, quarantined, quarantine_bytes, quarantine_ids, wpc, wid>>
    BY <1>1 DEF Serve, OpenSync, StartOnly, catalogVars, dbVars, writerVars, Running
  <2>2. NoNewAppend BY <2>1 DEF NoNewAppend, Writing
  <2> QED BY <2>1, <2>2, SyncCapacity
<1>2. CASE ExitClean \/ DrainTimeout \/ Crash
  <2>1. LoseProcess /\ (UNCHANGED diskVars \/ LosePower) /\ mode' \notin Running \cup {"opening"}
    BY <1>2 DEF ExitClean, DrainTimeout, Crash, Running
  <2> QED BY <2>1, LoseCapacity
<1> QED BY <1>1, <1>2, QuietActions, ReplayCapacity, CorruptCapacity, OpenCapacity, WriterCapacity,
       WriterWriteCapacity, WriterRenameCapacity, WriterQuarantineCapacity, WriterQuarSyncCapacity DEF Next

(* CapacityInv implies WithinCapacity. *)
LEMMA CapacityImplies == CapacityInv => WithinCapacity
BY DEF CapacityInv, RemainsInv, CounterInv, May, WithinCapacity, TotalLength, TotalSize, SumOf

(* Whatever a power loss leaves in the journal directory fits the          *)
(* configured records and bytes, quarantines of captures that are stored   *)
(* anyway excepted, and the byte counter equals the sizes of the pending   *)
(* records: for every set of captures and all limits, through failed       *)
(* appends, quarantines, damage and restarts (Journal::open, append,       *)
(* acknowledge, quarantine).                                               *)
THEOREM CapacityHolds == Spec => []WithinCapacity
<1>1. Init => CapacityInv BY InitCapacity
<1>2. IInv /\ IInv' /\ CapacityInv /\ [Next]_vars => CapacityInv' BY NextCapacity
<1>3. CapacityInv => WithinCapacity BY CapacityImplies
<1> QED BY <1>1, <1>2, <1>3, Invariance, PTL DEF Spec

-----------------------------------------------------------------------------
(* A process that has exited is only touched by Postgres and the storage. *)
LEMMA ExitedSteps ==
  ASSUME IInv, mode = "exited", mode' = "exited", [Next]_vars
  PROVE  \/ \E j \in Ids : OrphanDecided(j) \/ RotateTrace(j) \/ Corrupt(j)
         \/ UNCHANGED vars
<1>1. wpc = "recv" /\ page = {} /\ doomed = {} /\ mode \notin Running /\ \A j \in Ids : claims[j] = "none"
  BY DEF IInv, ProcessInv, Running, Station, ClaimStation
<1>2. \A j \in Ids : ~ReplayStep(j) BY <1>1, ReplayShape
<1>3. ~(WriterReserve \/ WriterWrite \/ WriterRename \/ WriterSync \/ WriterQuarantine
        \/ WriterQuarSync \/ WriterRelease)
  BY <1>1 DEF WriterReserve, WriterWrite, WriterRename, WriterStep, WriterSync, WriterQuarantine,
              WriterQuarSync, WriterRelease
<1>4. ~(WriterRecv \/ ClaimRecord \/ CleanSelect \/ CleanFilter \/ CleanDelete)
  BY <1>1 DEF WriterRecv, ClaimRecord, CleanSelect, CleanFilter, CleanDelete
<1>5. \A j \in Ids : ~Record(j) /\ ~RetryDue(j) BY <1>1 DEF Record, RetryDue
<1>6. ~(OpenJournal \/ Serve \/ BeginShutdown \/ WriterFinished \/ ExitClean \/ DrainTimeout
        \/ ExitAborted \/ Crash)
  BY DEF OpenJournal, Serve, BeginShutdown, WriterFinished, ExitClean, DrainTimeout, ExitAborted, Crash
<1> QED BY <1>2, <1>3, <1>4, <1>5, <1>6 DEF Next

(* A process exits by ExitClean only. *)
LEMMA ExitsClean ==
  ASSUME IInv, mode # "exited", mode' = "exited", [Next]_vars
  PROVE  ExitClean
<1>1. \A j \in Ids : ~Record(j) /\ ~ReplayStep(j) /\ ~RetryDue(j) /\ ~OrphanDecided(j)
                     /\ ~RotateTrace(j) /\ ~Corrupt(j)
  <2>1. \A j \in Ids : ReplayStep(j) => mode' = mode BY ReplayShape DEF WorkerOnly
  <2> QED BY <2>1 DEF Record, RetryDue, WorkerOnly, OrphanDecided, RotateTrace, Corrupt, Elsewhere
<1>2. ~(WriterRecv \/ WriterReserve \/ WriterWrite \/ WriterRename \/ WriterSync \/ WriterQuarantine
        \/ WriterQuarSync \/ WriterRelease)
  BY DEF WriterRecv, WriterReserve, WriterWrite, WriterRename, WriterStep, WriterSync, WriterQuarantine,
         WriterQuarSync, WriterRelease, WriterOnly
<1>3. ~(ClaimRecord \/ CleanSelect \/ CleanFilter \/ CleanDelete)
  BY DEF ClaimRecord, WorkerOnly, CleanSelect, CleanFilter, CleanDelete, CleanOnly
<1>4. ~(OpenJournal \/ Serve \/ BeginShutdown \/ WriterFinished \/ DrainTimeout \/ ExitAborted \/ Crash)
  BY DEF OpenJournal, Serve, BeginShutdown, WriterFinished, DrainTimeout, ExitAborted, Crash
<1>5. ~UNCHANGED vars BY DEF vars
<1> QED BY <1>1, <1>2, <1>3, <1>4, <1>5 DEF Next

(* Every step, given both invariants. *)
LEMMA ExitStep == ASSUME IInv, CapacityInv, CleanExitIsDrained, [Next]_vars PROVE CleanExitIsDrained'
<1> SUFFICES ASSUME mode' = "exited", NEW i \in Ids
             PROVE  /\ disk'[i] \in Inert /\ stable'[i] = {disk'[i]}
                    /\ outcome'[i] = "written" => commits'[i] > 0 \/ disk'[i] = "quarantine"
  BY DEF CleanExitIsDrained
<1>1. CASE ExitClean
  <2>1. i \notin entries /\ mode \in Running /\ UNCHANGED <<disk, stable, outcome, commits>>
    BY <1>1 DEF ExitClean, LoseProcess, Running, diskVars
  <2>2. stable[i] = {disk[i]} /\ Station(i) BY <2>1 DEF CapacityInv, CountedInv, IInv
  <2> QED BY <2>1, <2>2 DEF Station, CatalogStation, AppendStation, Durable, Inert
<1>2. CASE mode = "exited"
  <2>1. \A j \in Ids : /\ disk[j] \in Inert /\ stable[j] = {disk[j]}
                       /\ outcome[j] = "written" => commits[j] > 0 \/ disk[j] = "quarantine"
    BY <1>2 DEF CleanExitIsDrained
  <2>2. UNCHANGED <<disk, stable, outcome>> /\ (commits[i] > 0 => commits'[i] > 0)
    <3>1. CASE UNCHANGED vars BY <3>1 DEF vars, diskVars, intakeVars, dbVars
    <3>2. ASSUME NEW j \in Ids, Corrupt(j) PROVE FALSE BY <2>1, <3>2 DEF Corrupt, Damage, Inert
    <3>3. ASSUME NEW j \in Ids, OrphanDecided(j) \/ RotateTrace(j)
          PROVE  UNCHANGED <<disk, stable, outcome>> /\ (commits[i] > 0 => commits'[i] > 0)
      BY <3>3 DEF OrphanDecided, RotateTrace, Committed, Elsewhere, diskVars, intakeVars, IInv, TypeOK
    <3> QED BY <1>2, <3>1, <3>2, <3>3, ExitedSteps
  <2> QED BY <2>1, <2>2
<1> QED BY <1>1, <1>2, ExitsClean

(* A pipeline that ended without the drain timeout left nothing to replay: *)
(* the captures it wrote are stored or set aside, and durably so           *)
(* (TracePipeline::drain, run_dispatcher).                                 *)
THEOREM CleanExitHolds == Spec => []CleanExitIsDrained
<1>1. Init => CapacityInv /\ CleanExitIsDrained BY InitCapacity DEF Init, CleanExitIsDrained
<1>2. IInv /\ IInv' /\ CapacityInv /\ CleanExitIsDrained /\ [Next]_vars => CapacityInv' /\ CleanExitIsDrained'
  BY NextCapacity, ExitStep
<1> QED BY <1>1, <1>2, Invariance, PTL DEF Spec

-----------------------------------------------------------------------------
(* The refinement.  Under the mapping of DurableCapture!Store almost every *)
(* step stutters.  Synchronizations and power losses hold more captures,   *)
(* the counter of a finished append accepts one, a COMMIT stores one,      *)
(* remove_file releases one, retention hides one.                          *)

Held == {i \in Ids : stable[i] \cap {"none", "partial"} = {}}
Accepted == {i \in Ids : outcome[i] = "written"}
Stored == {i \in Ids : commits[i] > 0}

(* A step of CaptureStore or none of its business. *)
StoreStep == Store!Next \/ UNCHANGED <<Held, Accepted, Stored, traces>>

USE DEF diskVars, catalogVars, intakeVars, writerVars, dbVars, cleanVars

(* The steps that change nothing the abstract store sees. *)
LEMMA Invisible ==
    ASSUME UNCHANGED <<commits, traces>>,
           \A j \in Ids : Durable(j)' <=> Durable(j),
           \A j \in Ids : outcome'[j] = "written" <=> outcome[j] = "written"
    PROVE  StoreStep
<1>1. Held' = Held BY DEF Held, Durable
<1>2. Accepted' = Accepted BY DEF Accepted
<1>3. Stored' = Stored BY DEF Stored
<1> QED BY <1>1, <1>2, <1>3 DEF StoreStep

(* The steps after which a power loss spares more captures than before. *)
LEMMA Holds ==
    ASSUME UNCHANGED <<outcome, commits, traces>>,
           \A j \in Ids : Durable(j) => Durable(j)'
    PROVE  StoreStep
<1>1. Held \subseteq Held' BY DEF Held, Durable
<1>2. PICK T \in SUBSET Ids : Held' = Held \cup T BY <1>1 DEF Held
<1>3. Accepted' = Accepted /\ Stored' = Stored BY DEF Accepted, Stored
<1>4. Store!Hold(T)
  BY <1>2, <1>3 DEF Store!Hold, Held, Accepted, Stored
<1> QED BY <1>4 DEF StoreStep, Store!Next

(* A synchronization keeps what was held. *)
LEMMA SyncHolds ==
    ASSUME IInv, SyncDirectory, UNCHANGED <<outcome, commits, traces>>
    PROVE  StoreStep
<1>1. \A j \in Ids : stable'[j] = {disk[j]} BY DEF SyncDirectory
<1>2. \A j \in Ids : disk[j] \in stable[j] BY DEF IInv, Station, CatalogStation
<1> QED BY <1>1, <1>2, Holds DEF Durable

(* A file that comes to a name which preserves the capture, or that was    *)
(* not durable, changes nothing.                                           *)
LEMMA SetFileInvisible ==
    ASSUME IInv, NEW i \in Ids, NEW f, SetFile(i, f),
           f \notin {"none", "partial"} \/ ~Durable(i),
           UNCHANGED <<outcome, commits, traces>>
    PROVE  StoreStep
<1>1. stable \in [Ids -> SUBSET File] BY DEF IInv, TypeOK, JournalTypeOK
<1>2. stable'[i] = stable[i] \cup {f} /\ \A j \in Ids : j # i => stable'[j] = stable[j]
  BY <1>1 DEF SetFile
<1>3. \A j \in Ids : Durable(j)' <=> Durable(j) BY <1>2 DEF Durable
<1> QED BY <1>3, Invisible

(* Steps that leave the directory, the outcomes and the ledger alone. *)
LEMMA QuietStep ==
    ASSUME UNCHANGED <<stable, outcome, commits, traces>> PROVE StoreStep
BY Invisible DEF Durable

(* COMMIT: the capture is stored from its durable copy. *)
LEMMA CommittedStores ==
    ASSUME IInv, NEW i \in Ids, tx[i] # "none", Committed(i),
           UNCHANGED <<stable, outcome>>
    PROVE  StoreStep
<1>1. commits[i] = 0 /\ commits'[i] = 1 /\ Durable(i)
      /\ \A j \in Ids : j # i => commits'[j] = commits[j]
  BY CommittedFacts
<1>2. i \in Held \ Stored BY <1>1 DEF Held, Stored, Durable
<1>3. Stored' = Stored \cup {i} BY <1>1 DEF Stored
<1>4. Held' = Held /\ Accepted' = Accepted BY DEF Held, Accepted
<1>5. traces' = traces \cup {i} BY DEF Committed
<1>6. Store!Store(i)
  BY <1>2, <1>3, <1>4, <1>5 DEF Store!Store, Held, Accepted, Stored
<1> QED BY <1>6 DEF StoreStep, Store!Next

(* The writer: only its last two steps are seen, the sync that makes the   *)
(* record durable and the counter that reports it.                         *)
LEMMA WriterStore ==
    ASSUME IInv, WriterNext PROVE StoreStep
<1>1. CASE WriterRecv \/ WriterReserve
  BY <1>1, QuietStep DEF WriterRecv, WriterReserve, WriterOnly, AppendReserve, GiveUp
<1>2. CASE WriterWrite
  <2>1. wid \in Ids /\ Station(wid) /\ wpc = "write"
    BY <1>2, WriterFacts DEF WriterWrite, WriterStep
  <2>2. ~Durable(wid)
    BY <2>1 DEF Station, AppendStation, CatalogStation, Writing, Durable
  <2>3. UNCHANGED <<outcome, commits, traces>>
    BY <1>2 DEF WriterWrite, WriterStep, WriterOnly
  <2>4. SetFile(wid, "partial") \/ UNCHANGED diskVars
    BY <1>2 DEF WriterWrite, WriterStep, AppendWrite, AppendWriteFails
  <2> QED BY <2>1, <2>2, <2>3, <2>4, SetFileInvisible, QuietStep
<1>3. CASE WriterRename
  <2>1. wid \in Ids BY <1>3, WriterFacts DEF WriterRename, WriterStep
  <2>2. UNCHANGED <<outcome, commits, traces>>
        /\ (SetFile(wid, "trace") \/ UNCHANGED diskVars)
    BY <1>3 DEF WriterRename, WriterStep, WriterOnly, AppendRename
  <2> QED BY <2>1, <2>2, SetFileInvisible, QuietStep
<1>4. CASE WriterSync
  <2>1. UNCHANGED <<outcome, commits, traces>> /\ (SyncDirectory \/ UNCHANGED diskVars)
    BY <1>4 DEF WriterSync, AppendPublish, WriterOnly
  <2> QED BY <2>1, SyncHolds, QuietStep
<1>5. CASE WriterQuarantine
  <2>1. wid \in Ids BY <1>5, WriterFacts DEF WriterQuarantine
  <2>2. UNCHANGED <<outcome, commits, traces>>
        /\ (SetFile(wid, "quarantine") \/ UNCHANGED diskVars)
    BY <1>5 DEF WriterQuarantine, WriterOnly, QuarantineRename
  <2> QED BY <2>1, <2>2, SetFileInvisible, QuietStep
<1>6. CASE WriterQuarSync
  <2>1. UNCHANGED <<outcome, commits, traces>> /\ (SyncDirectory \/ UNCHANGED diskVars)
    BY <1>6 DEF WriterQuarSync, QuarantineSync, WriterOnly
  <2> QED BY <2>1, SyncHolds, QuietStep
<1>7. CASE WriterRelease
  <2>1. wid \in Ids /\ Station(wid) BY <1>7, WriterFacts DEF WriterRelease
  <2>2. /\ outcome'[wid] = wres /\ outcome[wid] = "enqueued"
        /\ \A j \in Ids : j # wid => outcome'[j] = outcome[j]
    BY <1>7, <2>1 DEF WriterRelease, IInv, TypeOK, Station, IntakeStation, Writing
  <2>3. UNCHANGED <<stable, commits, traces>> BY <1>7 DEF WriterRelease
  <2>4. CASE wres # "written"
    BY <2>2, <2>3, <2>4, Invisible DEF Durable
  <2>5. CASE wres = "written"
    <3>0. PICK i \in Ids : i = wid BY <2>1
    <3>1. i \in Held \cup Stored
      BY <3>0, <1>7, <2>1, <2>5
      DEF Station, AppendStation, Writing, Durable, Held, Stored, WriterRelease
    <3>2. Accepted' = Accepted \cup {i} BY <2>1, <3>0, <2>2, <2>5 DEF Accepted
    <3>3. Held' = Held /\ Stored' = Stored BY <2>3 DEF Held, Stored
    <3>4. Store!Accept(i)
      BY <2>3, <3>1, <3>2, <3>3 DEF Store!Accept, Held, Accepted, Stored
    <3> QED BY <3>4 DEF StoreStep, Store!Next
  <2> QED BY <2>4, <2>5
<1> QED BY <1>1, <1>2, <1>3, <1>4, <1>5, <1>6, <1>7 DEF WriterNext

(* A replay task: COMMIT stores, remove_file releases, the syncs hold. *)
LEMMA ReplayStore ==
    ASSUME IInv, NEW i \in Ids, ReplayStep(i) PROVE StoreStep
<1>1. CASE CheckReceipt(i) \/ ReadRecord(i)
  BY <1>1, QuietStep DEF CheckReceipt, ReadRecord, WorkerOnly
<1>2. CASE BeginInsert(i)
  BY <1>2, QuietStep DEF BeginInsert, WorkerOnly
<1>3. CASE CommitInsert(i)
  <2>1. tx[i] = "open" BY <1>3 DEF IInv, Station, ClaimStation, CommitInsert
  <2>2. UNCHANGED <<stable, outcome>> /\ (Committed(i) \/ UNCHANGED <<traces, commits>>)
    BY <1>3 DEF CommitInsert, WorkerOnly
  <2> QED BY <2>1, <2>2, CommittedStores, QuietStep
<1>4. CASE AcknowledgeRemove(i)
  <2>1. UNCHANGED <<outcome, commits, traces>>
        /\ (SetFile(i, "none") \/ UNCHANGED diskVars)
    BY <1>4 DEF AcknowledgeRemove, AckRemove, WorkerOnly
  <2>2. commits[i] > 0
    BY <1>4 DEF AcknowledgeRemove, IInv, Station, ClaimStation, LedgerStation
  <2>3. CASE SetFile(i, "none")
    <3>1. stable \in [Ids -> SUBSET File] BY DEF IInv, TypeOK, JournalTypeOK
    <3>2. "none" \in stable'[i] /\ \A j \in Ids : j # i => stable'[j] = stable[j]
      BY <2>3, <3>1 DEF SetFile
    <3>3. Held' = Held \ {i} BY <3>2 DEF Held
    <3>4. Accepted' = Accepted /\ Stored' = Stored BY <2>1 DEF Accepted, Stored
    <3>5. i \in Stored BY <2>2 DEF Stored
    <3>6. Store!Release(i)
      BY <2>1, <3>3, <3>4, <3>5 DEF Store!Release, Held, Accepted, Stored
    <3> QED BY <3>6 DEF StoreStep, Store!Next
  <2> QED BY <2>1, <2>3, QuietStep
<1>5. CASE AcknowledgeSync(i) \/ QuarantineDone(i)
  <2>1. UNCHANGED <<outcome, commits, traces>> /\ (SyncDirectory \/ UNCHANGED diskVars)
    BY <1>5 DEF AcknowledgeSync, AckSync, QuarantineDone, QuarantineSync, WorkerOnly
  <2> QED BY <2>1, SyncHolds, QuietStep
<1>6. CASE QuarantineRecord(i)
  <2>1. UNCHANGED <<outcome, commits, traces>>
        /\ (SetFile(i, "quarantine") \/ UNCHANGED diskVars)
    BY <1>6 DEF QuarantineRecord, QuarantineRename, WorkerOnly
  <2> QED BY <2>1, SetFileInvisible, QuietStep
<1> QED BY <1>1, <1>2, <1>3, <1>4, <1>5, <1>6 DEF ReplayStep

(* Postgres, retention and the storage device. *)
LEMMA EnvironmentStore ==
    ASSUME IInv, NEW i \in Ids, OrphanDecided(i) \/ RotateTrace(i) \/ Corrupt(i)
    PROVE  StoreStep
<1>1. CASE OrphanDecided(i)
  <2>1. UNCHANGED <<stable, outcome>> /\ tx[i] # "none"
        /\ (Committed(i) \/ UNCHANGED <<traces, commits>>)
    BY <1>1 DEF OrphanDecided, Elsewhere
  <2> QED BY <2>1, CommittedStores, QuietStep
<1>2. CASE RotateTrace(i)
  <2>1. Held' = Held /\ Accepted' = Accepted /\ Stored' = Stored
    BY <1>2 DEF RotateTrace, Elsewhere, Held, Accepted, Stored
  <2>2. Store!Rotate(i)
    BY <1>2, <2>1 DEF Store!Rotate, Held, Accepted, Stored, RotateTrace
  <2> QED BY <2>2 DEF StoreStep, Store!Next
<1>3. CASE Corrupt(i)
  <2>1. PICK kind \in DamageKinds : Damage(i, kind) BY <1>3 DEF Corrupt
  <2>2. kind \notin {"none", "partial"} BY PipelineAssumption
  <2>3. stable \in [Ids -> SUBSET File] BY DEF IInv, TypeOK, JournalTypeOK
  <2>4. /\ stable'[i] = (stable[i] \ {"trace"}) \cup {kind}
        /\ \A j \in Ids : j # i => stable'[j] = stable[j]
    BY <2>1, <2>3 DEF Damage
  <2>5. \A j \in Ids : Durable(j)' <=> Durable(j) BY <2>2, <2>4 DEF Durable
  <2>6. UNCHANGED <<outcome, commits, traces>> BY <1>3 DEF Corrupt, Elsewhere
  <2> QED BY <2>5, <2>6, Invisible
<1> QED BY <1>1, <1>2, <1>3

(* Start and stop: the scan of Journal::open keeps every durable copy, a   *)
(* power loss leaves each file in one of its possible states.              *)
LEMMA ProcessStore ==
    ASSUME IInv,
           \/ OpenJournal \/ Serve \/ BeginShutdown \/ WriterFinished
           \/ ExitClean \/ DrainTimeout \/ ExitAborted \/ Crash
    PROVE  StoreStep
<1>1. CASE OpenJournal
  <2>1. ASSUME NEW j \in Ids PROVE Durable(j)' <=> Durable(j)
    <3>1. disk[j] \in stable[j] BY DEF IInv, Station, CatalogStation
    <3>2. stable'[j] = stable[j] \cup {Scanned(disk[j])} BY <1>1 DEF OpenJournal, OpenScan
    <3>3. Scanned(disk[j]) \in {"none", "partial"} => Scanned(disk[j]) = disk[j]
      BY DEF Scanned, HeaderOK
    <3> QED BY <3>1, <3>2, <3>3 DEF Durable
  <2>2. UNCHANGED <<outcome, commits, traces>> BY <1>1 DEF OpenJournal, StartOnly
  <2> QED BY <2>1, <2>2, Invisible
<1>2. CASE Serve
  <2>1. SyncDirectory /\ UNCHANGED <<outcome, commits, traces>>
    BY <1>2 DEF Serve, OpenSync, StartOnly
  <2> QED BY <2>1, SyncHolds
<1>3. CASE BeginShutdown \/ WriterFinished \/ ExitAborted
  BY <1>3, QuietStep DEF BeginShutdown, WriterFinished, ExitAborted, StartOnly
<1>4. CASE ExitClean \/ DrainTimeout \/ Crash
  <2>1. UNCHANGED <<outcome, commits, traces>> /\ (LosePower \/ UNCHANGED diskVars)
    BY <1>4 DEF ExitClean, DrainTimeout, Crash, LoseProcess
  <2>2. CASE LosePower
    <3>1. PICK d \in [Ids -> File] :
             /\ \A i \in Ids : d[i] \in stable[i]
             /\ stable' = [i \in Ids |-> {d[i]}]
      BY <2>2 DEF LosePower
    <3>2. \A j \in Ids : stable'[j] = {d[j]} BY <3>1
    <3>3. \A j \in Ids : Durable(j) => Durable(j)' BY <3>1, <3>2 DEF Durable
    <3> QED BY <2>1, <3>3, Holds
  <2> QED BY <2>1, <2>2, QuietStep
<1> QED BY <1>1, <1>2, <1>3, <1>4

(* Every step of the pipeline is a step of the abstract store. *)
LEMMA NextStore == IInv /\ [Next]_vars => StoreStep
<1> SUFFICES ASSUME IInv, [Next]_vars PROVE StoreStep OBVIOUS
<1>1. CASE UNCHANGED vars BY <1>1, QuietStep DEF vars
<1>2. ASSUME NEW i \in Ids, Record(i) PROVE StoreStep
  <2>1. outcome \in [Ids -> Outcomes] BY DEF IInv, TypeOK
  <2>2. \A j \in Ids : outcome'[j] = "written" <=> outcome[j] = "written"
    BY <1>2, <2>1 DEF Record
  <2>3. UNCHANGED <<stable, commits, traces>> BY <1>2 DEF Record
  <2> QED BY <2>2, <2>3, Invisible DEF Durable
<1>3. ASSUME NEW i \in Ids, RetryDue(i) PROVE StoreStep
  BY <1>3, QuietStep DEF RetryDue, WorkerOnly
<1>4. CASE ClaimRecord
  BY <1>4, QuietStep DEF ClaimRecord, WorkerOnly
<1>5. CASE CleanSelect \/ CleanFilter \/ CleanDelete
  BY <1>5, QuietStep DEF CleanSelect, CleanFilter, CleanDelete, CleanOnly
<1> QED BY <1>1, <1>2, <1>3, <1>4, <1>5, WriterStore, ReplayStore, EnvironmentStore,
           ProcessStore DEF Next, WriterNext

(* The empty pipeline is an empty store. *)
LEMMA InitStore == Init => Store!Init
<1> SUFFICES ASSUME Init PROVE Store!Init OBVIOUS
<1>1. \A i \in Ids : stable[i] = {"none"} /\ outcome[i] = "none" /\ commits[i] = 0
  BY DEF Init, JournalInit
<1> QED BY <1>1 DEF Init, Store!Init

(* The pipeline keeps every promise of CaptureStore: what it reports as    *)
(* written is held or stored, what it stores it stores once and from a     *)
(* held copy, and a copy is given up only after its capture was stored.    *)
THEOREM PipelineImplementsStore == Spec => ImplementsStore
<1>1. Init => Store!Init BY InitStore
<1>2. IInv /\ [Next]_vars =>
        [Store!Next]_<<{i \in Ids : stable[i] \cap {"none", "partial"} = {}},
                       {i \in Ids : outcome[i] = "written"},
                       {i \in Ids : commits[i] > 0}, traces>>
  BY NextStore DEF StoreStep, Held, Accepted, Stored
<1> QED BY <1>1, <1>2, Invariance, PTL DEF Spec, ImplementsStore, Store!Spec
=============================================================================
