------------------------ MODULE VolatileCaptureProofs ------------------------
(***************************************************************************)
(* EventsAreAccounted for every set of events and all limits.              *)
(*                                                                         *)
(* It is about sums and counts only, and not inductive: a step keeps them  *)
(* only if an event is in one place at a time.  Place(i) says where event  *)
(* i may be, PhaseInv what is left when the dispatcher drains, and Account *)
(* is EventsAreAccounted in terms of both.                                 *)
(***************************************************************************)
EXTENDS VolatileCapture, CollectionTheorems

TypeInv ==
    /\ recorders \in [Ids -> {"new", "reserved", "sent", "done"}]
    /\ queue \in Seq(Ids) /\ held \in SUBSET Ids
    /\ DOMAIN workers \in SUBSET Ids
    /\ workers \in [DOMAIN workers -> {"build", "insert", "release", "finished"}]
    /\ dispatcher \in {"run", "drain", "done", "aborted"}
    /\ metrics \in [Counters -> Nat]
    /\ stored \in SUBSET Ids

(* An event is with its recorder, in the channel, with the dispatcher or   *)
(* with a worker, and not stored before a worker has inserted it.          *)
Place(i) ==
    /\ recorders[i] \in {"new", "reserved"} =>
          ~InSeq(queue, i) /\ i \notin held \cup DOMAIN workers \cup stored
    /\ InSeq(queue, i) => i \notin held \cup DOMAIN workers \cup stored
    /\ i \in held => i \notin DOMAIN workers \cup stored
    /\ i \in DOMAIN workers /\ workers[i] \in {"build", "insert"} => i \notin stored

PhaseInv ==
    /\ dispatcher # "run" => queue = << >> /\ held = {}
    /\ dispatcher \in {"drain", "done"} => LastRecorderGone
    /\ dispatcher \in {"done", "aborted"} => DOMAIN workers = {}
    /\ Distinct(queue) /\ (\A i, j \in held : i = j)

Unsettled == {i \in Ids : \/ InSeq(queue, i) \/ i \in held
                          \/ i \in DOMAIN workers /\ workers[i] \in {"build", "insert"}}
Sent == {i \in Ids : recorders[i] = "sent"}
Kept == {i \in Ids : \/ recorders[i] = "reserved" \/ InSeq(queue, i) \/ i \in held
                     \/ i \in DOMAIN workers /\ workers[i] # "finished"}
Settled == metrics["persisted"] + metrics["build_failures"] + metrics["persist_failures"]

MemoryInv == used = SumOf(Size, Kept) /\ used <= MemLimit
LimitInv == Len(queue) <= QueueCap /\ Cardinality(DOMAIN workers) <= Workers
LedgerInv == dispatcher # "aborted" =>
                metrics["enqueued"] + Cardinality(Sent) = Settled + Cardinality(Unsettled)
StoredInv == metrics["persisted"] <= Cardinality(stored)

IInv == /\ TypeInv /\ PhaseInv /\ \A i \in Ids : Place(i)
        /\ MemoryInv /\ LimitInv /\ LedgerInv /\ StoredInv

-----------------------------------------------------------------------------
(* Sums and counts over sets of events.                                    *)

(* Events are finitely many, and their sizes naturals. *)
LEMMA FiniteEvents ==
  ASSUME NEW S, S \subseteq Ids
  PROVE  /\ IsFiniteSet(S) /\ Cardinality(S) \in Nat
         /\ (\A x \in S : Size[x] \in Nat) /\ SumOf(Size, S) \in Nat
<1>1. IsFiniteSet(S) /\ \A x \in S : Size[x] \in Nat BY VolatileAssumption, FS_Subset
<1> QED BY <1>1, SumType, FS_CardinalityType

(* An event joins a set. *)
LEMMA AddEvent ==
  ASSUME NEW S, S \subseteq Ids, NEW i \in Ids, i \notin S
  PROVE  /\ SumOf(Size, S \cup {i}) = SumOf(Size, S) + Size[i] /\ SumOf(Size, S) \in Nat
         /\ Cardinality(S \cup {i}) = Cardinality(S) + 1 /\ Cardinality(S) \in Nat
         /\ Size[i] \in Nat
<1>1. IsFiniteSet(S) /\ Cardinality(S) \in Nat /\ \A x \in S : Size[x] \in Nat BY FiniteEvents
<1>2. Size[i] \in Nat BY VolatileAssumption
<1>3. SumOf(Size, S \cup {i}) = SumOf(Size, S) + Size[i] /\ SumOf(Size, S) \in Nat BY <1>1, <1>2, SumAdd
<1>4. Cardinality(S \cup {i}) = Cardinality(S) + 1 BY <1>1, FS_AddElement
<1> QED BY <1>1, <1>2, <1>3, <1>4

(* An event leaves a set. *)
LEMMA DropEvent ==
  ASSUME NEW S, S \subseteq Ids, NEW i \in S
  PROVE  /\ SumOf(Size, S \ {i}) = SumOf(Size, S) - Size[i] /\ SumOf(Size, S) \in Nat
         /\ Cardinality(S \ {i}) = Cardinality(S) - 1 /\ Cardinality(S) \in Nat
         /\ Size[i] \in Nat /\ SumOf(Size, S \ {i}) \in Nat
<1>1. S \ {i} \subseteq Ids /\ i \in Ids /\ i \notin S \ {i} /\ (S \ {i}) \cup {i} = S OBVIOUS
<1>2. /\ SumOf(Size, (S \ {i}) \cup {i}) = SumOf(Size, S \ {i}) + Size[i] /\ SumOf(Size, S \ {i}) \in Nat
      /\ Cardinality((S \ {i}) \cup {i}) = Cardinality(S \ {i}) + 1 /\ Cardinality(S \ {i}) \in Nat
      /\ Size[i] \in Nat
  BY <1>1, AddEvent
<1>3. SumOf(Size, (S \ {i}) \cup {i}) = SumOf(Size, S) /\ Cardinality((S \ {i}) \cup {i}) = Cardinality(S)
  BY <1>1
<1>4. \A a, b, c \in Nat : a = b + c => b = a - c OBVIOUS
<1>5. SumOf(Size, S) \in Nat /\ Cardinality(S) \in Nat BY FiniteEvents
<1> QED BY <1>2, <1>3, <1>4, <1>5

(* Dropping one reservation. *)
LEMMA ReleaseOne == ASSUME NEW i \in Ids, Release({i}) PROVE used' = used - Size[i]
<1>1. Size[i] \in Nat BY VolatileAssumption
<1>2. SumOf(Size, {} \cup {i}) = SumOf(Size, {}) + Size[i] BY <1>1, SumAdd, FS_EmptySet
<1>3. SumOf(Size, {i}) = Size[i]
  <2>1. {} \cup {i} = {i} OBVIOUS
  <2> QED BY <1>1, <1>2, <2>1, SumEmpty
<1> QED BY <1>3 DEF Release, SumOf

(* Nothing is reserved or freed. *)
LEMMA MemoryKept == ASSUME MemoryInv, used' = used, Kept' = Kept PROVE MemoryInv'
BY DEF MemoryInv

(* One event is no longer in memory. *)
LEMMA MemoryFreed ==
  ASSUME MemoryInv, NEW i \in Kept, used' = used - Size[i], Kept' = Kept \ {i} PROVE MemoryInv'
<1>1. Kept \subseteq Ids BY DEF Kept
<1>2. /\ SumOf(Size, Kept \ {i}) = SumOf(Size, Kept) - Size[i] /\ SumOf(Size, Kept) \in Nat
      /\ Size[i] \in Nat
  BY <1>1, DropEvent
<1> QED BY <1>2, VolatileAssumption DEF MemoryInv

(* No event is accepted or settled. *)
LEMMA LedgerKept ==
  ASSUME LedgerInv, Sent' = Sent, Unsettled' = Unsettled, dispatcher' # "aborted" => dispatcher # "aborted",
         \A c \in {"enqueued", "persisted", "build_failures", "persist_failures"} : metrics'[c] = metrics[c]
  PROVE  LedgerInv'
BY DEF LedgerInv, Settled

(* One counter goes up. *)
LEMMA CountFacts ==
  ASSUME TypeInv, NEW c \in Counters, Count(c)
  PROVE  /\ metrics' \in [Counters -> Nat] /\ metrics'[c] = metrics[c] + 1
         /\ \A e \in Counters : metrics[e] \in Nat /\ (e # c => metrics'[e] = metrics[e])
BY DEF TypeInv, Count

(* A recorder moves on. *)
LEMMA RecorderFacts ==
  ASSUME TypeInv, NEW i \in Ids, NEW from, NEW to \in {"new", "reserved", "sent", "done"}, Recorder(i, from, to)
  PROVE  /\ recorders[i] = from /\ recorders'[i] = to
         /\ recorders' \in [Ids -> {"new", "reserved", "sent", "done"}]
         /\ \A j \in Ids : j # i => recorders'[j] = recorders[j]
BY DEF TypeInv, Recorder

(* A worker moves on. *)
LEMMA WorkerFacts ==
  ASSUME TypeInv, NEW i \in Ids, NEW from, NEW to \in {"build", "insert", "release", "finished"}, Worker(i, from, to)
  PROVE  /\ i \in DOMAIN workers /\ workers[i] = from /\ workers'[i] = to
         /\ DOMAIN workers' = DOMAIN workers
         /\ workers' \in [DOMAIN workers' -> {"build", "insert", "release", "finished"}]
         /\ \A j \in DOMAIN workers : j # i => workers'[j] = workers[j]
BY DEF TypeInv, Worker

-----------------------------------------------------------------------------
(* The actions.                                                            *)

(* TraceRecorder::record, first part. *)
LEMMA ReserveStep == ASSUME IInv, NEW i \in Ids, Reserve(i) PROVE IInv'
<1> USE DEF IInv
<1>0. UNCHANGED <<queue, held, workers, dispatcher, stored>> BY DEF Reserve
<1>1. CASE Fits(i) /\ Recorder(i, "new", "reserved") /\ used' = used + Size[i] /\ UNCHANGED metrics
  <2>1. /\ recorders[i] = "new" /\ recorders'[i] = "reserved"
        /\ recorders' \in [Ids -> {"new", "reserved", "sent", "done"}]
        /\ \A j \in Ids : j # i => recorders'[j] = recorders[j]
    BY <1>1, RecorderFacts
  <2>2. TypeInv' BY <1>0, <1>1, <2>1 DEF TypeInv
  <2>3. PhaseInv' BY <1>0, <2>1 DEF PhaseInv, LastRecorderGone
  <2>4. ASSUME NEW j \in Ids PROVE Place(j)' BY <1>0, <2>1 DEF Place
  <2>5. i \notin Kept /\ Kept' = Kept \cup {i} /\ Kept \subseteq Ids BY <1>0, <2>1 DEF Kept, Place
  <2>6. SumOf(Size, Kept \cup {i}) = SumOf(Size, Kept) + Size[i] BY <2>5, AddEvent
  <2>7. MemoryInv' BY <1>1, <2>5, <2>6 DEF MemoryInv, Fits
  <2>8. Sent' = Sent /\ Unsettled' = Unsettled BY <1>0, <2>1 DEF Sent, Unsettled
  <2>9. LedgerInv' BY <1>0, <1>1, <2>8, LedgerKept
  <2> QED BY <1>0, <1>1, <2>2, <2>3, <2>4, <2>7, <2>9 DEF LimitInv, StoredInv
<1>2. CASE Recorder(i, "new", "done") /\ Count("dropped_memory") /\ UNCHANGED used
  <2>1. /\ recorders[i] = "new" /\ recorders'[i] = "done"
        /\ recorders' \in [Ids -> {"new", "reserved", "sent", "done"}]
        /\ \A j \in Ids : j # i => recorders'[j] = recorders[j]
    BY <1>2, RecorderFacts
  <2>m. metrics' \in [Counters -> Nat] /\ \A e \in Counters : e # "dropped_memory" => metrics'[e] = metrics[e]
    BY <1>2, CountFacts DEF Counters
  <2>2. TypeInv' BY <1>0, <2>m, <2>1 DEF TypeInv
  <2>3. PhaseInv' BY <1>0, <2>1 DEF PhaseInv, LastRecorderGone
  <2>4. ASSUME NEW j \in Ids PROVE Place(j)' BY <1>0, <2>1 DEF Place
  <2>5. Kept' = Kept BY <1>0, <2>1 DEF Kept
  <2>6. MemoryInv' BY <1>2, <2>5, MemoryKept
  <2>7. Sent' = Sent /\ Unsettled' = Unsettled BY <1>0, <2>1 DEF Sent, Unsettled
  <2>8. LedgerInv' BY <1>0, <2>m, <2>7, LedgerKept DEF Counters
  <2> QED BY <1>0, <2>m, <2>2, <2>3, <2>4, <2>6, <2>8 DEF LimitInv, StoredInv, Counters
<1> QED BY <1>1, <1>2 DEF Reserve

(* A handler that never records. *)
LEMMA LeaveStep == ASSUME IInv, NEW i \in Ids, Leave(i) PROVE IInv'
<1> USE DEF IInv
<1>0. UNCHANGED <<queue, held, workers, dispatcher, used, metrics, stored>> /\ Recorder(i, "new", "done")
  BY DEF Leave
<1>1. /\ recorders[i] = "new" /\ recorders'[i] = "done"
      /\ recorders' \in [Ids -> {"new", "reserved", "sent", "done"}]
      /\ \A j \in Ids : j # i => recorders'[j] = recorders[j]
  BY <1>0, RecorderFacts
<1>2. TypeInv' BY <1>0, <1>1 DEF TypeInv
<1>3. PhaseInv' BY <1>0, <1>1 DEF PhaseInv, LastRecorderGone
<1>4. ASSUME NEW j \in Ids PROVE Place(j)' BY <1>0, <1>1 DEF Place
<1>5. Kept' = Kept BY <1>0, <1>1 DEF Kept
<1>6. MemoryInv' BY <1>0, <1>5, MemoryKept
<1>7. Sent' = Sent /\ Unsettled' = Unsettled BY <1>0, <1>1 DEF Sent, Unsettled
<1>8. LedgerInv' BY <1>0, <1>7, LedgerKept
<1> QED BY <1>0, <1>2, <1>3, <1>4, <1>6, <1>8 DEF LimitInv, StoredInv

(* try_send: the event goes to the channel, or its reservation is dropped. *)
LEMMA TrySendStep == ASSUME IInv, NEW i \in Ids, TrySend(i) PROVE IInv'
<1> USE DEF IInv
<1>0. UNCHANGED <<held, workers, dispatcher, stored>> BY DEF TrySend
<1>1. CASE ~Closed /\ Len(queue) < QueueCap /\ Recorder(i, "reserved", "sent")
           /\ queue' = Append(queue, i) /\ UNCHANGED <<metrics, used>>
  <2>1. /\ recorders[i] = "reserved" /\ recorders'[i] = "sent"
        /\ recorders' \in [Ids -> {"new", "reserved", "sent", "done"}]
        /\ \A j \in Ids : j # i => recorders'[j] = recorders[j]
    BY <1>1, RecorderFacts
  <2>2. ~InSeq(queue, i) /\ i \notin held \cup DOMAIN workers \cup stored BY <2>1 DEF Place
  <2>3. queue \in Seq(Ids) /\ Distinct(queue) BY DEF TypeInv, PhaseInv
  <2>4. /\ queue' \in Seq(Ids) /\ Distinct(queue') /\ Len(queue') = Len(queue) + 1
        /\ \A y : InSeq(queue', y) <=> InSeq(queue, y) \/ y = i
    BY <1>1, <2>2, <2>3, AppendFacts
  <2>5. TypeInv' BY <1>0, <1>1, <2>1, <2>4 DEF TypeInv
  <2>6. dispatcher = "run"
    <3>1. dispatcher \notin {"drain", "done"} BY <2>1 DEF PhaseInv, LastRecorderGone
    <3> QED BY <1>1, <3>1 DEF Closed, TypeInv
  <2>7. PhaseInv' BY <1>0, <2>4, <2>6 DEF PhaseInv
  <2>8. ASSUME NEW j \in Ids PROVE Place(j)' BY <1>0, <2>1, <2>2, <2>4 DEF Place
  <2>9. Kept' = Kept BY <1>0, <2>1, <2>4 DEF Kept
  <2>10. MemoryInv' BY <1>1, <2>9, MemoryKept
  <2>11. LimitInv'
    <3>1. Len(queue) \in Nat /\ QueueCap \in Nat BY <2>3, VolatileAssumption
    <3> QED BY <1>0, <1>1, <2>4, <3>1 DEF LimitInv
  <2>12. LedgerInv'
    <3>1. i \notin Sent /\ Sent' = Sent \cup {i} /\ Sent \subseteq Ids BY <2>1 DEF Sent
    <3>2. i \notin Unsettled /\ Unsettled' = Unsettled \cup {i} /\ Unsettled \subseteq Ids
      BY <1>0, <2>2, <2>4 DEF Unsettled
    <3>3. Cardinality(Sent') = Cardinality(Sent) + 1 /\ Cardinality(Sent) \in Nat BY <3>1, AddEvent
    <3>4. Cardinality(Unsettled') = Cardinality(Unsettled) + 1 /\ Cardinality(Unsettled) \in Nat
      BY <3>2, AddEvent
    <3>5. metrics["enqueued"] \in Nat /\ Settled \in Nat BY DEF TypeInv, Counters, Settled
    <3>6. Settled' = Settled BY <1>1 DEF Settled
    <3>7. metrics["enqueued"] + Cardinality(Sent) = Settled + Cardinality(Unsettled) BY <2>6 DEF LedgerInv
    <3>8. metrics["enqueued"] + Cardinality(Sent') = Settled + Cardinality(Unsettled')
      BY <3>3, <3>4, <3>5, <3>7
    <3>9. metrics'["enqueued"] = metrics["enqueued"] BY <1>1
    <3> QED BY <3>6, <3>8, <3>9 DEF LedgerInv
  <2> QED BY <1>0, <1>1, <2>5, <2>7, <2>8, <2>10, <2>11, <2>12 DEF StoredInv
<1>2. ASSUME NEW c \in {"dropped_full", "dropped_closed"}, Recorder(i, "reserved", "done"), Count(c),
             Release({i}), UNCHANGED queue
      PROVE  IInv'
  <2>1. /\ recorders[i] = "reserved" /\ recorders'[i] = "done"
        /\ recorders' \in [Ids -> {"new", "reserved", "sent", "done"}]
        /\ \A j \in Ids : j # i => recorders'[j] = recorders[j]
    BY <1>2, RecorderFacts
  <2>m. metrics' \in [Counters -> Nat] /\ \A e \in Counters : e # c => metrics'[e] = metrics[e]
    BY <1>2, CountFacts DEF Counters
  <2>2. TypeInv' BY <1>0, <1>2, <2>m, <2>1 DEF TypeInv
  <2>3. PhaseInv' BY <1>0, <1>2, <2>1 DEF PhaseInv, LastRecorderGone
  <2>4. ASSUME NEW j \in Ids PROVE Place(j)' BY <1>0, <1>2, <2>1 DEF Place
  <2>5. i \in Kept /\ Kept' = Kept \ {i} BY <1>0, <1>2, <2>1 DEF Kept, Place
  <2>6. MemoryInv' BY <1>2, <2>5, ReleaseOne, MemoryFreed
  <2>7. Sent' = Sent /\ Unsettled' = Unsettled BY <1>0, <1>2, <2>1 DEF Sent, Unsettled
  <2>8. LedgerInv'
    <3>1. \A e \in {"enqueued", "persisted", "build_failures", "persist_failures"} : e # c /\ e \in Counters
      BY <1>2 DEF Counters
    <3>2. \A e \in {"enqueued", "persisted", "build_failures", "persist_failures"} : metrics'[e] = metrics[e]
      BY <2>m, <3>1
    <3> QED BY <1>0, <2>7, <3>2, LedgerKept
  <2>9. metrics'["persisted"] = metrics["persisted"] BY <2>m DEF Counters
  <2> QED BY <1>0, <1>2, <2>2, <2>3, <2>4, <2>6, <2>8, <2>9 DEF LimitInv, StoredInv
<1> QED BY <1>1, <1>2 DEF TrySend

(* The counter of an accepted event, which other threads may overtake. *)
LEMMA EnqueuedStep == ASSUME IInv, NEW i \in Ids, Enqueued(i) PROVE IInv'
<1> USE DEF IInv
<1>0. UNCHANGED <<queue, held, workers, dispatcher, used, stored>> BY DEF Enqueued
<1>1. /\ recorders[i] = "sent" /\ recorders'[i] = "done"
      /\ recorders' \in [Ids -> {"new", "reserved", "sent", "done"}]
      /\ \A j \in Ids : j # i => recorders'[j] = recorders[j]
  BY RecorderFacts DEF Enqueued
<1>2. /\ metrics' \in [Counters -> Nat] /\ metrics'["enqueued"] = metrics["enqueued"] + 1
      /\ \A e \in Counters : metrics[e] \in Nat /\ (e # "enqueued" => metrics'[e] = metrics[e])
  BY CountFacts DEF Enqueued, Counters
<1>3. TypeInv' BY <1>0, <1>1, <1>2 DEF TypeInv
<1>4. PhaseInv' BY <1>0, <1>1 DEF PhaseInv, LastRecorderGone
<1>5. ASSUME NEW j \in Ids PROVE Place(j)' BY <1>0, <1>1 DEF Place
<1>6. Kept' = Kept /\ Unsettled' = Unsettled BY <1>0, <1>1 DEF Kept, Unsettled
<1>7. MemoryInv' BY <1>0, <1>6, MemoryKept
<1>8. LedgerInv'
  <2>1. i \in Sent /\ Sent' = Sent \ {i} /\ Sent \subseteq Ids BY <1>1 DEF Sent
  <2>2. Cardinality(Sent') = Cardinality(Sent) - 1 /\ Cardinality(Sent) \in Nat BY <2>1, DropEvent
  <2>3. Settled' = Settled /\ Settled \in Nat /\ metrics["enqueued"] \in Nat BY <1>2 DEF Settled, Counters
  <2>4. Cardinality(Unsettled) \in Nat
    <3>1. Unsettled \subseteq Ids BY DEF Unsettled
    <3> QED BY <3>1, FiniteEvents
  <2> QED BY <1>0, <1>2, <1>6, <2>2, <2>3, <2>4 DEF LedgerInv
<1> QED BY <1>0, <1>2, <1>3, <1>4, <1>5, <1>7, <1>8 DEF LimitInv, StoredInv, Counters

(* The dispatcher takes an event from the channel. *)
LEMMA ReceiveStep == ASSUME IInv, Receive PROVE IInv'
<1> USE DEF IInv
<1>0. UNCHANGED <<recorders, workers, dispatcher, used, metrics, stored>> /\ dispatcher = "run" /\ held = {}
  BY DEF Receive
<1>1. queue \in Seq(Ids) /\ Distinct(queue) /\ queue # << >> BY DEF TypeInv, PhaseInv, Receive
<1>2. PICK x \in Ids : x = Head(queue) BY <1>1
<1>3. /\ held' = {x} /\ InSeq(queue, x) /\ queue' \in Seq(Ids) /\ Distinct(queue')
      /\ \A y : InSeq(queue', y) <=> InSeq(queue, y) /\ y # x
  BY <1>1, <1>2, TailFacts DEF Receive
<1>4. Len(queue') = Len(queue) - 1 /\ Len(queue) \in Nat BY <1>1 DEF Receive
<1>5. TypeInv' BY <1>0, <1>2, <1>3 DEF TypeInv
<1>6. PhaseInv' BY <1>0, <1>3 DEF PhaseInv
<1>7. ASSUME NEW j \in Ids PROVE Place(j)'
  <2>1. Place(j) OBVIOUS
  <2> QED BY <1>0, <1>3, <2>1 DEF Place
<1>8. Kept' = Kept /\ Unsettled' = Unsettled /\ Sent' = Sent BY <1>0, <1>3 DEF Kept, Unsettled, Sent
<1>9. MemoryInv' BY <1>0, <1>8, MemoryKept
<1>10. LedgerInv' BY <1>0, <1>8, LedgerKept
<1>11. LimitInv' BY <1>0, <1>4, VolatileAssumption DEF LimitInv
<1> QED BY <1>0, <1>5, <1>6, <1>7, <1>9, <1>10, <1>11 DEF StoredInv

(* The dispatcher starts a worker. *)
LEMMA SpawnStep == ASSUME IInv, Spawn PROVE IInv'
<1> USE DEF IInv
<1>0. UNCHANGED <<recorders, queue, dispatcher, used, metrics, stored>> /\ dispatcher = "run" /\ held' = {}
      /\ HasRoom
  BY DEF Spawn
<1>1. PICK i \in held : workers' = [j \in DOMAIN workers \cup {i} |-> IF j = i THEN "build" ELSE workers[j]]
  BY DEF Spawn
<1>2. i \in Ids /\ held = {i} /\ i \notin DOMAIN workers /\ DOMAIN workers \subseteq Ids
  BY DEF TypeInv, PhaseInv, Place
<1>3. /\ DOMAIN workers' = DOMAIN workers \cup {i} /\ workers'[i] = "build"
      /\ \A j \in DOMAIN workers : workers'[j] = workers[j]
      /\ workers' \in [DOMAIN workers' -> {"build", "insert", "release", "finished"}]
  BY <1>1, <1>2 DEF TypeInv
<1>4. TypeInv' BY <1>0, <1>2, <1>3 DEF TypeInv
<1>5. PhaseInv' BY <1>0 DEF PhaseInv, LastRecorderGone
<1>6. ASSUME NEW j \in Ids PROVE Place(j)'
  <2>1. Place(j) OBVIOUS
  <2> QED BY <1>0, <1>2, <1>3, <2>1 DEF Place
<1>7. Kept' = Kept /\ Unsettled' = Unsettled /\ Sent' = Sent BY <1>0, <1>2, <1>3 DEF Kept, Unsettled, Sent
<1>8. MemoryInv' BY <1>0, <1>7, MemoryKept
<1>9. LedgerInv' BY <1>0, <1>7, LedgerKept
<1>10. LimitInv'
  <2>1. Cardinality(DOMAIN workers \cup {i}) = Cardinality(DOMAIN workers) + 1 /\ Cardinality(DOMAIN workers) \in Nat
    BY <1>2, AddEvent
  <2>2. Cardinality(DOMAIN workers) + 1 <= Workers BY <1>0, <2>1, VolatileAssumption DEF HasRoom
  <2> QED BY <1>0, <1>3, <2>1, <2>2 DEF LimitInv
<1> QED BY <1>0, <1>4, <1>5, <1>6, <1>8, <1>9, <1>10 DEF StoredInv

(* The dispatcher joins a worker that has finished. *)
LEMMA JoinStep == ASSUME IInv, JoinNext PROVE IInv'
<1> USE DEF IInv
<1>0. UNCHANGED <<recorders, queue, held, dispatcher, used, metrics, stored>> /\ dispatcher \in {"run", "drain"}
  BY DEF JoinNext
<1>1. PICK i \in DOMAIN workers \ Active : workers' = [j \in DOMAIN workers \ {i} |-> workers[j]]
  BY DEF JoinNext
<1>2. i \in DOMAIN workers /\ workers[i] = "finished" /\ DOMAIN workers \subseteq Ids BY DEF Active, TypeInv
<1>3. /\ DOMAIN workers' = DOMAIN workers \ {i}
      /\ \A j \in DOMAIN workers : j # i => workers'[j] = workers[j]
      /\ workers' \in [DOMAIN workers' -> {"build", "insert", "release", "finished"}]
  BY <1>1 DEF TypeInv
<1>4. TypeInv' BY <1>0, <1>3 DEF TypeInv
<1>5. PhaseInv' BY <1>0 DEF PhaseInv, LastRecorderGone
<1>6. ASSUME NEW j \in Ids PROVE Place(j)'
  <2>1. Place(j) OBVIOUS
  <2> QED BY <1>0, <1>3, <2>1 DEF Place
<1>7. Kept' = Kept /\ Unsettled' = Unsettled /\ Sent' = Sent BY <1>0, <1>2, <1>3 DEF Kept, Unsettled, Sent
<1>8. MemoryInv' BY <1>0, <1>7, MemoryKept
<1>9. LedgerInv' BY <1>0, <1>7, LedgerKept
<1>10. LimitInv'
  <2>1. Cardinality(DOMAIN workers \ {i}) = Cardinality(DOMAIN workers) - 1 /\ Cardinality(DOMAIN workers) \in Nat
    BY <1>2, DropEvent
  <2> QED BY <1>0, <1>3, <2>1, VolatileAssumption DEF LimitInv
<1> QED BY <1>0, <1>4, <1>5, <1>6, <1>8, <1>9, <1>10 DEF StoredInv

(* The dispatcher drains, and ends. *)
LEMMA CloseStep == ASSUME IInv, Close \/ Exit PROVE IInv'
<1> USE DEF IInv
<1>0. UNCHANGED <<recorders, queue, held, workers, used, metrics, stored>> BY DEF Close, Exit
<1>1. dispatcher' \in {"drain", "done"} /\ dispatcher # "aborted" BY DEF Close, Exit
<1>2. dispatcher' = "done" => DOMAIN workers = {} BY DEF Close, Exit
<1>3. queue = << >> /\ held = {} /\ LastRecorderGone BY DEF Close, Exit, PhaseInv
<1>4. TypeInv' BY <1>0, <1>1 DEF TypeInv
<1>5. PhaseInv' BY <1>0, <1>1, <1>2, <1>3 DEF PhaseInv, LastRecorderGone
<1>6. ASSUME NEW j \in Ids PROVE Place(j)' BY <1>0 DEF Place
<1>7. Kept' = Kept /\ Unsettled' = Unsettled /\ Sent' = Sent BY <1>0 DEF Kept, Unsettled, Sent
<1>8. MemoryInv' BY <1>0, <1>7, MemoryKept
<1>9. LedgerInv' BY <1>0, <1>1, <1>7, LedgerKept
<1> QED BY <1>0, <1>4, <1>5, <1>6, <1>8, <1>9 DEF LimitInv, StoredInv

(* A worker ends its event, under one counter. *)
LEMMA SettleLedger ==
  ASSUME IInv, NEW i \in Unsettled, NEW c \in {"persisted", "build_failures", "persist_failures"}, Count(c),
         Unsettled' = Unsettled \ {i}, Sent' = Sent, dispatcher' = dispatcher
  PROVE  LedgerInv'
<1>1. Unsettled \subseteq Ids BY DEF Unsettled
<1>2. Cardinality(Unsettled') = Cardinality(Unsettled) - 1 /\ Cardinality(Unsettled) \in Nat BY <1>1, DropEvent
<1>3. /\ metrics'[c] = metrics[c] + 1
      /\ \A e \in Counters : metrics[e] \in Nat /\ (e # c => metrics'[e] = metrics[e])
  BY CountFacts DEF Counters, IInv
<1>4. Settled' = Settled + 1 /\ Settled \in Nat BY <1>3 DEF Settled, Counters
<1>5. metrics'["enqueued"] = metrics["enqueued"] /\ metrics["enqueued"] \in Nat BY <1>3 DEF Counters
<1>6. Cardinality(Sent) \in Nat
  <2>1. Sent \subseteq Ids BY DEF Sent
  <2> QED BY <2>1, FiniteEvents
<1>7. ASSUME dispatcher # "aborted"
      PROVE  metrics["enqueued"] + Cardinality(Sent) = (Settled + 1) + (Cardinality(Unsettled) - 1)
  BY <1>2, <1>4, <1>5, <1>6, <1>7 DEF IInv, LedgerInv
<1> QED BY <1>2, <1>4, <1>5, <1>7 DEF LedgerInv

(* build_priced_trace. *)
LEMMA BuildStep == ASSUME IInv, NEW i \in Ids, Build(i) PROVE IInv'
<1> USE DEF IInv
<1>0. UNCHANGED <<recorders, queue, held, dispatcher, used, stored>> BY DEF Build
<1>1. PICK to \in {"insert", "release"} :
         Worker(i, "build", to) /\ (IF to = "insert" THEN UNCHANGED metrics ELSE Count("build_failures"))
  BY DEF Build
<1>2. /\ i \in DOMAIN workers /\ workers[i] = "build" /\ workers'[i] = to /\ DOMAIN workers' = DOMAIN workers
      /\ workers' \in [DOMAIN workers' -> {"build", "insert", "release", "finished"}]
      /\ \A j \in DOMAIN workers : j # i => workers'[j] = workers[j]
  BY <1>1, WorkerFacts
<1>m. metrics' \in [Counters -> Nat] /\ metrics'["persisted"] = metrics["persisted"]
  <2>1. CASE UNCHANGED metrics BY <2>1 DEF TypeInv
  <2>2. CASE Count("build_failures") BY <2>2, CountFacts DEF Counters
  <2> QED BY <1>1, <2>1, <2>2
<1>3. TypeInv' BY <1>0, <1>2, <1>m DEF TypeInv
<1>4. PhaseInv' BY <1>0, <1>2 DEF PhaseInv, LastRecorderGone
<1>5. ASSUME NEW j \in Ids PROVE Place(j)'
  <2>1. Place(j) OBVIOUS
  <2> QED BY <1>0, <1>2, <2>1 DEF Place
<1>6. Kept' = Kept /\ Sent' = Sent BY <1>0, <1>2 DEF Kept, Sent
<1>7. MemoryInv' BY <1>0, <1>6, MemoryKept
<1>8. LedgerInv'
  <2>1. CASE to = "insert"
    <3>1. Unsettled' = Unsettled BY <1>0, <1>2, <2>1 DEF Unsettled
    <3> QED BY <1>0, <1>1, <1>6, <2>1, <3>1, LedgerKept
  <2>2. CASE to = "release"
    <3>1. i \in Unsettled /\ Unsettled' = Unsettled \ {i} BY <1>0, <1>2, <2>2 DEF Unsettled, Place
    <3> QED BY <1>0, <1>1, <1>6, <2>2, <3>1, SettleLedger
  <2> QED BY <2>1, <2>2
<1> QED BY <1>0, <1>2, <1>m, <1>3, <1>4, <1>5, <1>7, <1>8 DEF LimitInv, StoredInv

(* insert_trace, whose commit may land although it is reported as failed. *)
LEMMA InsertStep == ASSUME IInv, NEW i \in Ids, InsertTrace(i) PROVE IInv'
<1> USE DEF IInv
<1>0. UNCHANGED <<recorders, queue, held, dispatcher, used>> BY DEF InsertTrace
<1>1. PICK c \in {"persisted", "persist_failures"} :
         Count(c) /\ stored' \in {stored, stored \cup {i}} /\ (c = "persisted" => stored' = stored \cup {i})
  BY DEF InsertTrace
<1>2. /\ i \in DOMAIN workers /\ workers[i] = "insert" /\ workers'[i] = "release"
      /\ DOMAIN workers' = DOMAIN workers
      /\ workers' \in [DOMAIN workers' -> {"build", "insert", "release", "finished"}]
      /\ \A j \in DOMAIN workers : j # i => workers'[j] = workers[j]
  BY WorkerFacts DEF InsertTrace
<1>m. /\ metrics' \in [Counters -> Nat] /\ metrics'[c] = metrics[c] + 1
      /\ \A e \in Counters : metrics[e] \in Nat /\ (e # c => metrics'[e] = metrics[e])
  BY <1>1, CountFacts DEF Counters
<1>3. TypeInv' BY <1>0, <1>1, <1>2, <1>m DEF TypeInv
<1>4. PhaseInv' BY <1>0, <1>2 DEF PhaseInv, LastRecorderGone
<1>5. i \notin stored /\ i \notin held /\ ~InSeq(queue, i) /\ recorders[i] \notin {"new", "reserved"}
  BY <1>2 DEF Place
<1>6. ASSUME NEW j \in Ids PROVE Place(j)'
  <2>1. Place(j) OBVIOUS
  <2>2. j # i => (j \in stored' <=> j \in stored) BY <1>1
  <2> QED BY <1>0, <1>2, <1>5, <2>1, <2>2 DEF Place
<1>7. Kept' = Kept /\ Sent' = Sent BY <1>0, <1>2 DEF Kept, Sent
<1>8. MemoryInv' BY <1>0, <1>7, MemoryKept
<1>9. LedgerInv'
  <2>1. i \in Unsettled /\ Unsettled' = Unsettled \ {i} BY <1>0, <1>2, <1>5 DEF Unsettled
  <2> QED BY <1>0, <1>1, <1>7, <2>1, SettleLedger
<1>10. StoredInv'
  <2>0. stored \subseteq Ids BY DEF TypeInv
  <2>1. /\ Cardinality(stored \cup {i}) = Cardinality(stored) + 1 /\ Cardinality(stored) \in Nat
    BY <1>5, <2>0, AddEvent
  <2>2. metrics["persisted"] \in Nat /\ metrics["persisted"] <= Cardinality(stored)
    BY <1>m DEF Counters, StoredInv
  <2>3. CASE c = "persisted"
    <3>1. metrics'["persisted"] = metrics["persisted"] + 1 BY <1>m, <2>3
    <3>2. Cardinality(stored') = Cardinality(stored) + 1 BY <1>1, <2>1, <2>3
    <3>3. metrics["persisted"] + 1 <= Cardinality(stored) + 1 BY <2>1, <2>2
    <3> QED BY <3>1, <3>2, <3>3 DEF StoredInv
  <2>4. CASE c = "persist_failures"
    <3>1. metrics'["persisted"] = metrics["persisted"] BY <1>m, <2>4 DEF Counters
    <3>2. Cardinality(stored') \in {Cardinality(stored), Cardinality(stored) + 1} BY <1>1, <2>1
    <3>3. metrics["persisted"] <= Cardinality(stored') BY <2>1, <2>2, <3>2
    <3> QED BY <3>1, <3>3 DEF StoredInv
  <2> QED BY <1>1, <2>3, <2>4
<1> QED BY <1>0, <1>2, <1>3, <1>4, <1>6, <1>8, <1>9, <1>10 DEF LimitInv

(* The reservation of a worker is dropped when its task ends. *)
LEMMA WorkerEndsStep == ASSUME IInv, NEW i \in Ids, WorkerEnds(i) PROVE IInv'
<1> USE DEF IInv
<1>0. UNCHANGED <<recorders, queue, held, dispatcher, metrics, stored>> /\ Release({i}) BY DEF WorkerEnds
<1>2. /\ i \in DOMAIN workers /\ workers[i] = "release" /\ workers'[i] = "finished"
      /\ DOMAIN workers' = DOMAIN workers
      /\ workers' \in [DOMAIN workers' -> {"build", "insert", "release", "finished"}]
      /\ \A j \in DOMAIN workers : j # i => workers'[j] = workers[j]
  BY WorkerFacts DEF WorkerEnds
<1>3. TypeInv' BY <1>0, <1>2 DEF TypeInv
<1>4. PhaseInv' BY <1>0, <1>2 DEF PhaseInv, LastRecorderGone
<1>5. ASSUME NEW j \in Ids PROVE Place(j)'
  <2>1. Place(j) OBVIOUS
  <2> QED BY <1>0, <1>2, <2>1 DEF Place
<1>6. i \in Kept /\ Kept' = Kept \ {i}
  <2>1. i \notin held /\ ~InSeq(queue, i) /\ recorders[i] # "reserved" BY <1>2 DEF Place
  <2> QED BY <1>0, <1>2, <2>1 DEF Kept
<1>7. MemoryInv' BY <1>0, <1>6, ReleaseOne, MemoryFreed
<1>8. Unsettled' = Unsettled /\ Sent' = Sent BY <1>0, <1>2 DEF Unsettled, Sent
<1>9. LedgerInv' BY <1>0, <1>8, LedgerKept
<1> QED BY <1>0, <1>2, <1>3, <1>4, <1>5, <1>7, <1>9 DEF LimitInv, StoredInv

(* The drain times out: whatever the pipeline holds is freed at once. *)
LEMMA DrainTimesOutStep == ASSUME IInv, DrainTimesOut PROVE IInv'
<1> USE DEF IInv
<1>0. /\ UNCHANGED <<recorders, metrics>> /\ queue' = << >> /\ held' = {} /\ workers' = << >>
      /\ dispatcher' = "aborted" /\ Release(ToSet(queue) \cup held \cup Active)
  BY DEF DrainTimesOut
<1>1. PICK landed \in SUBSET {i \in Active : workers[i] = "insert"} : stored' = stored \cup landed
  BY DEF DrainTimesOut
<1>2. DOMAIN workers' = {} /\ workers' \in [{} -> {"build", "insert", "release", "finished"}] BY <1>0
<1>3. landed \subseteq DOMAIN workers /\ DOMAIN workers \subseteq Ids /\ stored \subseteq Ids
  BY DEF Active, TypeInv
<1>4. TypeInv' BY <1>0, <1>1, <1>2, <1>3 DEF TypeInv
<1>5. \A y : ~InSeq(queue', y) BY <1>0 DEF InSeq
<1>6. PhaseInv' BY <1>0, <1>2 DEF PhaseInv, Distinct
<1>7. ASSUME NEW j \in Ids PROVE Place(j)'
  <2>1. Place(j) OBVIOUS
  <2> QED BY <1>0, <1>1, <1>2, <1>3, <1>5, <2>1 DEF Place
<1>8. MemoryInv'
  <2> DEFINE gone == ToSet(queue) \cup held \cup Active
  <2>1. \A y : y \in ToSet(queue) <=> InSeq(queue, y) BY DEF ToSet, InSeq
  <2>2. queue \in Seq(Ids) BY DEF TypeInv
  <2>3. ToSet(queue) \subseteq Ids BY <2>2 DEF ToSet
  <2>4. gone \subseteq Kept /\ Kept \subseteq Ids
    BY <2>1, <2>3 DEF Kept, Active, TypeInv
  <2>5. Kept' = Kept \ gone
    BY <1>0, <1>2, <1>5, <2>1 DEF Kept, Active, Place
  <2> HIDE DEF gone
  <2>6. /\ SumOf(Size, Kept \ gone) = SumOf(Size, Kept) - SumOf(Size, gone)
        /\ SumOf(Size, gone) \in Nat /\ SumOf(Size, Kept) \in Nat
    <3>1. IsFiniteSet(Kept) /\ \A x \in Kept : Size[x] \in Nat BY <2>4, FiniteEvents
    <3> QED BY <2>4, <3>1, SumSubset
  <2>7. used' = used - SumOf(Size, gone) BY <1>0 DEF Release, SumOf, gone
  <2> QED BY <2>5, <2>6, <2>7, VolatileAssumption DEF MemoryInv
<1>9. LimitInv' BY <1>0, <1>2, FS_EmptySet, VolatileAssumption DEF LimitInv
<1>10. StoredInv'
  <2>1. IsFiniteSet(stored') /\ Cardinality(stored) <= Cardinality(stored')
        /\ Cardinality(stored) \in Nat /\ Cardinality(stored') \in Nat
    <3>1. stored' \subseteq Ids /\ stored \subseteq stored' BY <1>1, <1>3
    <3> QED BY <1>3, <3>1, FiniteEvents, FS_Subset
  <2>2. metrics["persisted"] \in Nat BY DEF TypeInv, Counters
  <2> QED BY <1>0, <2>1, <2>2 DEF StoredInv
<1> QED BY <1>0, <1>4, <1>6, <1>7, <1>8, <1>9, <1>10 DEF LedgerInv

-----------------------------------------------------------------------------
(* VolatileInit. *)
LEMMA InitIInv == VolatileInit => IInv
<1> SUFFICES ASSUME VolatileInit PROVE IInv OBVIOUS
<1> USE DEF VolatileInit
<1>1. DOMAIN workers = {} /\ workers \in [{} -> {"build", "insert", "release", "finished"}] OBVIOUS
<1>2. \A y : ~InSeq(queue, y) BY DEF InSeq
<1>3. TypeInv BY <1>1 DEF TypeInv
<1>4. PhaseInv BY DEF PhaseInv, Distinct
<1>5. ASSUME NEW i \in Ids PROVE Place(i) BY <1>1, <1>2 DEF Place
<1>6. Kept = {} /\ Unsettled = {} /\ Sent = {} BY <1>1, <1>2 DEF Kept, Unsettled, Sent
<1>7. MemoryInv BY <1>6, SumEmpty, VolatileAssumption DEF MemoryInv
<1>8. LimitInv BY <1>1, FS_EmptySet, VolatileAssumption DEF LimitInv
<1>9. LedgerInv /\ StoredInv
  <2>1. \A c \in Counters : metrics[c] = 0 OBVIOUS
  <2> QED BY <1>6, <2>1, FS_EmptySet DEF LedgerInv, StoredInv, Settled, Counters
<1> QED BY <1>3, <1>4, <1>5, <1>7, <1>8, <1>9 DEF IInv

(* Stuttering. *)
LEMMA StutterStep == ASSUME IInv, UNCHANGED volatileVars PROVE IInv'
BY DEF volatileVars, IInv, TypeInv, PhaseInv, LastRecorderGone, Place, MemoryInv, Kept, LimitInv, LedgerInv, StoredInv,
       Settled, Sent, Unsettled

(* Every step. *)
LEMMA NextIInv == IInv /\ [VolatileNext]_volatileVars => IInv'
BY ReserveStep, LeaveStep, TrySendStep, EnqueuedStep, ReceiveStep, SpawnStep, JoinStep, CloseStep,
   BuildStep, InsertStep, WorkerEndsStep, DrainTimesOutStep, StutterStep DEF VolatileNext

(* The invariant implies EventsAreAccounted: the sets of both are the      *)
(* same.                                                                   *)
LEMMA Accounted == IInv => EventsAreAccounted
<1> SUFFICES ASSUME IInv PROVE EventsAreAccounted OBVIOUS
<1>0. TypeInv /\ PhaseInv /\ MemoryInv /\ LimitInv /\ LedgerInv /\ StoredInv BY DEF IInv
<1>1. \A y : y \in ToSet(queue) <=> InSeq(queue, y) BY DEF ToSet, InSeq
<1>2. queue \in Seq(Ids) BY <1>0 DEF TypeInv
<1>3. ToSet(queue) \subseteq Ids BY <1>2 DEF ToSet
<1>4. InMemory = Kept BY <1>0, <1>1, <1>3 DEF InMemory, Kept, Active, TypeInv
<1>5. ToSet(queue) \cup held \cup {i \in DOMAIN workers : workers[i] \in {"build", "insert"}} = Unsettled
  BY <1>0, <1>1, <1>3 DEF Unsettled, TypeInv
<1>6. used = MapThenSumSet(LAMBDA i : Size[i], InMemory) /\ used <= MemLimit
  BY <1>0, <1>4 DEF MemoryInv, SumOf
<1>7. ASSUME dispatcher = "done" PROVE Settled = metrics["enqueued"]
  <2>1. Sent = {} BY <1>0, <1>7 DEF PhaseInv, LastRecorderGone, Sent
  <2>2. \A y : ~InSeq(queue, y) BY <1>0, <1>7 DEF PhaseInv, InSeq
  <2>3. Unsettled = {} BY <1>0, <1>7, <2>2 DEF PhaseInv, Unsettled
  <2>4. metrics["enqueued"] \in Nat /\ Settled \in Nat BY <1>0 DEF TypeInv, Counters, Settled
  <2>5. metrics["enqueued"] + 0 = Settled + 0 BY <1>0, <1>7, <2>1, <2>3, FS_EmptySet DEF LedgerInv
  <2> QED BY <2>4, <2>5
<1> QED BY <1>0, <1>5, <1>6, <1>7 DEF EventsAreAccounted, LimitInv, LedgerInv, StoredInv, Settled, Sent

(* For every set of events and all limits, through failing builds and      *)
(* inserts, lost answers and an aborted drain, the memory budget of the    *)
(* dispatcher is exact and within its limit, and the counters of /metrics  *)
(* account for every event that was accepted.                              *)
THEOREM VolatileAccounts == VolatileSpec => []EventsAreAccounted
<1>1. VolatileInit => IInv BY InitIInv
<1>2. IInv /\ [VolatileNext]_volatileVars => IInv' BY NextIInv
<1>3. IInv => EventsAreAccounted BY Accounted
<1> QED BY <1>1, <1>2, <1>3, PTL DEF VolatileSpec
=============================================================================
