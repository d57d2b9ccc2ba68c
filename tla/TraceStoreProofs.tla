--------------------------- MODULE TraceStoreProofs ---------------------------
(***************************************************************************)
(* The trace store, for any traces, segments and limits, and any number of *)
(* retention transactions, file collectors, failures and power losses: the *)
(* invariants of the maintenance run and what an export streams.           *)
(*                                                                         *)
(* None of the invariants is inductive as it stands.  RetentionInv says    *)
(* what the one open retention transaction is about to delete, RollupInv   *)
(* what the counters of a bucket are while a transaction has it locked,    *)
(* SessionInv who holds the row of a session, and FileInv where the bodies *)
(* of a trace are before its commit, while it is stored, and after it was  *)
(* deleted.  ExportInv, at the end, says how the lines written so far      *)
(* follow from the traces the session had when the export began.           *)
(***************************************************************************)
EXTENDS SessionExport, CollectionTheorems

(* What a retention transaction may hold. *)
Txns == [kind : {"idle", "measured", "rotate", "age"},
         batch : SUBSET Traces, gone : SUBSET Traces, done : SUBSET Traces, cur : Traces \cup {0}, snap : SUBSET Traces,
         segs : SUBSET Segs, size : Int]

(* TypeOK, with the shape of the transactions. *)
TypeInv ==
    /\ rows \subseteq ever /\ ever \subseteq Traces /\ Legacy \subseteq ever /\ named \subseteq Segs
    /\ backend \in [Segs -> Backends]
    /\ session \in [Keys -> Traces \cup {0}] /\ tsess \in [Traces -> Traces \cup {0}]
    /\ DOMAIN rollup = Buckets /\ DOMAIN work = Buckets
    /\ queue \subseteq Segs /\ files \subseteq Segs /\ unsynced \subseteq Segs
    /\ revived \subseteq Segs
    /\ ipc \in [Traces -> InsertSteps] /\ iback \in [Traces -> Backends]
    /\ prune \in [Pruners -> Txns]
    /\ collect \in [Collectors -> Segs \cup {0}] /\ removed \subseteq Collectors
    /\ spc \in {"idle", "lock", "delete"} /\ empties \subseteq Keys
    /\ faults \in 0 .. MaxFaults

-----------------------------------------------------------------------------
(* The advisory lock: one retention transaction at a time. *)
PrunersInv ==
    /\ \A p \in Pruners : prune[p].kind = "idle" => prune[p] = Idle
    /\ \A p, q \in Pruners : prune[p].kind # "idle" /\ prune[q].kind # "idle" => p = q

(* What a retention transaction is about to do to traces and segments: it  *)
(* releases the segments that lose their last trace, and no other.         *)
Releases(x) ==
    /\ x.gone \subseteq rows /\ x.batch \subseteq rows \ x.gone
    /\ x.done \subseteq x.gone /\ (x.cur # 0 => x.cur \in x.gone \ x.done)
    /\ x.segs \subseteq Unreferenced(x.gone)
    /\ \A t \in x.gone : SegOf[t] \in Unreferenced(x.gone) => SegOf[t] \in x.segs

(* Rotation goes from the oldest trace on, and its running size is not     *)
(* more than what is stored without the released segments.  It has deleted *)
(* nothing when it has only measured the archive.                          *)
Rotates(x) ==
    x.kind \in {"measured", "rotate"} =>
        /\ \A t \in x.gone, u \in x.batch : Before(t, u)
        /\ x.size <= Bytes(Stored \ x.segs)
        /\ x.batch # {} => x.size > Limit
        /\ x.kind = "measured" => x.size > Limit /\ x.gone = {}

(* EvictsOnlyAsNeeded, of one transaction. *)
Needed(x) ==
    x.kind = "rotate" =>
        \A t \in x.gone : (\A u \in x.gone : ~Before(t, u)) =>
            Bytes(Stored \ (x.segs \cap Unreferenced(x.gone \ {t}))) > Limit

TxnInv(x) == Releases(x) /\ Rotates(x) /\ Needed(x)

RetentionInv == PrunersInv /\ \A p \in Pruners : TxnInv(prune[p])

-----------------------------------------------------------------------------
(* The traces that open transactions have added to rollups, and those they *)
(* have subtracted.                                                        *)
Added == {t \in Traces : ipc[t] = "commit"}
Subtracting == {t \in Traces : \E p \in Pruners : t \in prune[p].done}
InMinute(b, S) == {t \in S : Minute[t] = b}

(* The row of a bucket has one writer, and its counter is right for what   *)
(* is committed (rollup) and for what its writer sees (work).              *)
WriterInv ==
    /\ \A t, u \in Added : Minute[t] = Minute[u] => t = u
    /\ \A t \in Added, u \in Subtracting : Minute[t] # Minute[u]
CountInv(b) ==
    /\ rollup[b].total = Cardinality(InMinute(b, rows))
    /\ work[b].total = Cardinality(InMinute(b, (rows \cup Added) \ Subtracting))

RollupInv == WriterInv /\ \A b \in Buckets : CountInv(b)

-----------------------------------------------------------------------------
(* Who holds the row of a session: one insert, or the cleanup. *)
SessionLockInv ==
    /\ \A t, u \in Traces : ipc[t] # "idle" /\ ipc[u] # "idle" /\ KeyOf[t] = KeyOf[u] => t = u
    /\ \A t \in Traces : spc = "delete" /\ KeyOf[t] \in empties => ipc[t] = "idle"

(* An open insert: its trace is new, and its session is the one it will    *)
(* find when it commits.                                                   *)
InsertInv(t) ==
    ipc[t] # "idle" =>
        /\ t \notin ever
        /\ tsess[t] = IF session[KeyOf[t]] = 0 THEN t ELSE session[KeyOf[t]]

SessionInv == SessionLockInv /\ SessionsExist /\ \A t \in Traces : InsertInv(t)

-----------------------------------------------------------------------------
(* A trace that is stored has its segment, one that never was has not used *)
(* its segment, and one that is being inserted has written it.             *)
TraceInv(t) ==
    /\ t \in rows => backend[SegOf[t]] # "none"
    /\ t \notin ever => SegOf[t] \notin named /\ backend[SegOf[t]] = "none"
    /\ ipc[t] \in {"rollup", "commit"} =>
          iback[t] # "none" /\ (iback[t] = "filesystem" => SegOf[t] \in files)

(* A segment, its file and its place in the deletion queue. *)
SegmentInv(s) ==
    /\ backend[s] = "filesystem" => s \in files /\ s \in named
    /\ s \in named => backend[s] # "postgres"
    /\ s \in queue => s \in named /\ backend[s] = "none"
    /\ s \in (files \cap named) \ revived => backend[s] # "none" \/ s \in queue

CollectInv(c) ==
    /\ collect[c] # 0 => collect[c] \in queue
    /\ c \in removed => collect[c] # 0 /\ collect[c] \notin files
    /\ \A d \in Collectors : collect[c] # 0 /\ collect[d] = collect[c] => d = c

FileInv ==
    /\ NoOrphanSegment
    /\ \A t \in Traces : TraceInv(t)
    /\ \A s \in Segs : SegmentInv(s)
    /\ \A c \in Collectors : CollectInv(c)

IInv == TypeInv /\ RetentionInv /\ RollupInv /\ SessionInv /\ FileInv

-----------------------------------------------------------------------------
(* Facts about the constants.                                              *)

(* The session key, segment and minute of a trace are of their kinds. *)
LEMMA KeyOfTrace == ASSUME NEW t \in Traces
                    PROVE  KeyOf[t] \in Keys /\ Minute[t] \in Buckets /\ SegOf[t] \in Segs
BY StoreAssumption DEF Keys, Buckets, Range

(* A trace that was not committed yet has its segment for itself. *)
LEMMA OwnSegment ==
  ASSUME TypeInv, NEW t \in Traces, t \notin ever, NEW u \in Traces, SegOf[u] = SegOf[t]
  PROVE  u = t
BY StoreAssumption DEF TypeInv

(* ORDER BY started_at, id is a total order. *)
LEMMA BeforeIsOrder ==
  ASSUME NEW t \in Traces, NEW u \in Traces, NEW v \in Traces
  PROVE  /\ ~Before(t, t)
         /\ Before(t, u) /\ Before(u, v) => Before(t, v)
         /\ t = u \/ Before(t, u) \/ Before(u, t)
<1>1. /\ t \in Nat /\ u \in Nat /\ v \in Nat /\ At[t] \in Nat /\ At[u] \in Nat /\ At[v] \in Nat
  BY StoreAssumption
<1> QED BY <1>1 DEF Before

(* Sizes of sets of segments. *)
LEMMA BytesFacts ==
  ASSUME NEW S, S \subseteq Segs, NEW R, R \subseteq S
  PROVE  /\ Bytes(S) \in Nat /\ Bytes(R) \in Nat /\ Bytes(R) <= Bytes(S)
         /\ Bytes(S \ R) = Bytes(S) - Bytes(R)
<1>1. \A Z : Bytes(Z) = SumOf(SegBytes, Z) BY DEF Bytes, SumOf
<1>2. IsFiniteSet(S) /\ \A s \in S : SegBytes[s] \in Nat BY StoreAssumption, FS_Subset DEF Segs
<1>3. /\ SumOf(SegBytes, R) \in Nat /\ SumOf(SegBytes, S) \in Nat
      /\ SumOf(SegBytes, R) <= SumOf(SegBytes, S)
      /\ SumOf(SegBytes, S \ R) = SumOf(SegBytes, S) - SumOf(SegBytes, R)
  BY <1>2, SumSubset
<1> QED BY <1>1, <1>3

(* No segments take no space. *)
LEMMA BytesEmpty == Bytes({}) = 0
<1>1. \A Z : Bytes(Z) = SumOf(SegBytes, Z) BY DEF Bytes, SumOf
<1> QED BY <1>1, SumEmpty

(* What the index names are segments. *)
LEMMA StoredSegs == Stored \subseteq Segs
BY DEF Stored

(* Counting the traces of a minute. *)
LEMMA MinuteCount ==
  ASSUME NEW b, NEW S, S \subseteq Traces
  PROVE  /\ IsFiniteSet(InMinute(b, S)) /\ Cardinality(InMinute(b, S)) \in Nat
         /\ \A t \in Traces \ S : Minute[t] = b =>
               Cardinality(InMinute(b, S \cup {t})) = Cardinality(InMinute(b, S)) + 1
         /\ \A t \in S : Minute[t] = b =>
               Cardinality(InMinute(b, S \ {t})) = Cardinality(InMinute(b, S)) - 1
<1>1. IsFiniteSet(InMinute(b, S)) BY StoreAssumption, FS_Subset DEF InMinute
<1>2. ASSUME NEW t \in Traces \ S, Minute[t] = b
      PROVE  Cardinality(InMinute(b, S \cup {t})) = Cardinality(InMinute(b, S)) + 1
  <2>1. InMinute(b, S \cup {t}) = InMinute(b, S) \cup {t} /\ t \notin InMinute(b, S) BY <1>2 DEF InMinute
  <2> QED BY <1>1, <2>1, FS_AddElement
<1>3. ASSUME NEW t \in S, Minute[t] = b
      PROVE  Cardinality(InMinute(b, S \ {t})) = Cardinality(InMinute(b, S)) - 1
  <2>1. InMinute(b, S \ {t}) = InMinute(b, S) \ {t} /\ t \in InMinute(b, S) BY <1>3 DEF InMinute
  <2> QED BY <1>1, <2>1, FS_RemoveElement
<1> QED BY <1>1, <1>2, <1>3, FS_CardinalityType

-----------------------------------------------------------------------------
(* Retention transactions.                                                 *)

(* A transaction that has not begun deletes nothing. *)
LEMMA IdleTxn == Idle \in Txns /\ TxnInv(Idle)
BY StoreAssumption DEF Idle, Txns, TxnInv, Releases, Rotates, Needed

(* What a transaction relies on changes only with rows and segments. *)
LEMMA TxnFrame ==
  ASSUME rows' = rows, backend' = backend, NEW x PROVE TxnInv(x) => TxnInv(x)'
<1>1. Stored' = Stored BY DEF Stored
<1>2. \A g : Unreferenced(g)' = Unreferenced(g) BY <1>1 DEF Unreferenced
<1> QED BY <1>1, <1>2 DEF TxnInv, Releases, Rotates, Needed

(* Retention is as it was if neither it nor what it relies on changed. *)
LEMMA RetentionFrame ==
  ASSUME RetentionInv, rows' = rows, backend' = backend, prune' = prune PROVE RetentionInv'
BY TxnFrame DEF RetentionInv, PrunersInv

(* One transaction takes a step, ends, or begins when there is no other. *)
LEMMA TxnStep ==
  ASSUME TypeInv, RetentionInv, rows' = rows, backend' = backend,
         NEW p \in Pruners, NEW y \in Txns, prune' = [prune EXCEPT ![p] = y], TxnInv(y),
         y.kind = "idle" => y = Idle,
         y.kind # "idle" => \A q \in Pruners : q # p => prune[q].kind = "idle"
  PROVE  /\ prune' \in [Pruners -> Txns] /\ RetentionInv'
         /\ prune'[p] = y /\ \A q \in Pruners : q # p => prune'[q] = prune[q]
<1>1. /\ prune' \in [Pruners -> Txns]
      /\ prune'[p] = y /\ \A q \in Pruners : q # p => prune'[q] = prune[q]
  BY DEF TypeInv
<1>2. \A q \in Pruners : TxnInv(prune[q])' 
  <2> TAKE q \in Pruners
  <2>1. PICK z : z = prune'[q] OBVIOUS
  <2>2. TxnInv(z) BY <1>1, <2>1 DEF RetentionInv
  <2>3. TxnInv(z)' BY <2>2, TxnFrame
  <2> QED BY <2>1, <2>3 DEF TxnInv, Releases, Rotates, Needed
<1>3. PrunersInv' BY <1>1 DEF RetentionInv, PrunersInv
<1> QED BY <1>1, <1>2, <1>3 DEF RetentionInv

(* A statement waits or is done: the deletions stay as they are. *)
LEMMA SameTxn ==
  ASSUME NEW x \in Txns, NEW y \in Txns, TxnInv(x), y.kind = x.kind, y.batch = x.batch,
         y.gone = x.gone, y.segs = x.segs, y.size = x.size,
         y.done \subseteq y.gone, y.cur # 0 => y.cur \in y.gone \ y.done
  PROVE  TxnInv(y)
BY DEF TxnInv, Releases, Rotates, Needed

(* Beside the one that holds the advisory lock there is no other. *)
LEMMA OthersIdle ==
  ASSUME RetentionInv, NEW p \in Pruners, prune[p].kind # "idle"
  PROVE  \A q \in Pruners : q # p => prune[q].kind = "idle"
BY DEF RetentionInv, PrunersInv

(* A transaction that gets the advisory lock finds no other. *)
LEMMA LockedOut ==
  ASSUME try_prune_lock PROVE \A q \in Pruners : prune[q].kind = "idle"
BY DEF try_prune_lock, Idle

(* A transaction with something deleted or to delete has begun. *)
LEMMA Begun ==
  ASSUME TypeInv, RetentionInv, NEW p \in Pruners, prune[p].gone # {} \/ prune[p].cur # 0
  PROVE  prune[p].kind # "idle"
BY DEF RetentionInv, PrunersInv, Idle

(* Rotation begins: it has deleted nothing yet. *)
LEMMA RotateBeginTxn ==
  ASSUME TypeInv, RetentionInv, NEW p \in Pruners, RotateBegin(p)
  PROVE  /\ prune' \in [Pruners -> Txns] /\ RetentionInv'
         /\ \A q \in Pruners : prune'[q].done = prune[q].done
<1>1. PICK orphans, size, kind, y :
        /\ orphans \in SUBSET Unreferenced({})
        /\ size = Bytes(Stored \ orphans)
        /\ kind \in {"rotate", "measured"} /\ (kind = "measured" => ~(size <= Limit))
        /\ y = [Idle EXCEPT !.kind = kind, !.segs = orphans, !.size = size]
        /\ prune' = [prune EXCEPT ![p] = y]
  <2>1. PICK orphans \in SUBSET Unreferenced({}) :
          LET size == Bytes(Stored \ orphans)
              idle == queue \cup {s \in orphans : backend[s] = "filesystem"} # {} \/ size <= Limit
          IN  prune' = [prune EXCEPT ![p] =
                 [Idle EXCEPT !.kind = IF idle THEN "rotate" ELSE "measured",
                              !.segs = orphans, !.size = size]]
    BY DEF RotateBegin
  <2>2. PICK size : size = Bytes(Stored \ orphans) OBVIOUS
  <2>3. PICK kind : kind = IF queue \cup {s \in orphans : backend[s] = "filesystem"} # {} \/ size <= Limit
                           THEN "rotate" ELSE "measured"
    OBVIOUS
  <2>4. PICK y : y = [Idle EXCEPT !.kind = kind, !.segs = orphans, !.size = size] OBVIOUS
  <2>5. prune' = [prune EXCEPT ![p] = y] BY <2>1, <2>2, <2>3, <2>4
  <2>6. kind \in {"rotate", "measured"} /\ (kind = "measured" => ~(size <= Limit)) BY <2>3
  <2> QED BY <2>2, <2>4, <2>5, <2>6
<1>2. orphans \subseteq Segs BY <1>1 DEF Unreferenced, Stored
<1>3. size \in Nat /\ Limit \in Nat
  <2>1. Stored \subseteq Segs /\ Stored \ orphans \subseteq Stored BY StoredSegs
  <2> QED BY <1>1, <2>1, BytesFacts, StoreAssumption
<1>4. /\ y.kind = kind /\ y.segs = orphans /\ y.size = size /\ y.batch = {}
      /\ y.gone = {} /\ y.done = {} /\ y.cur = 0 /\ y \in Txns
  <2>1. y = [kind |-> kind, batch |-> {}, gone |-> {}, done |-> {}, cur |-> 0,
             snap |-> {}, segs |-> orphans, size |-> size]
    BY <1>1 DEF Idle
  <2>2. y \in Txns BY <1>1, <1>2, <1>3, <2>1 DEF Txns
  <2> QED BY <2>1, <2>2
<1>5. TxnInv(y)
  <2>1. Releases(y) BY <1>1, <1>4 DEF Releases
  <2>2. Rotates(y) BY <1>1, <1>3, <1>4 DEF Rotates
  <2>3. Needed(y) BY <1>4 DEF Needed
  <2> QED BY <2>1, <2>2, <2>3 DEF TxnInv
<1>6. rows' = rows /\ backend' = backend /\ \A q \in Pruners : prune[q] = Idle
  BY DEF RotateBegin, try_prune_lock
<1>7. \A q \in Pruners : prune[q].kind = "idle" /\ prune[q].done = {} BY <1>6 DEF Idle
<1>8. /\ prune' \in [Pruners -> Txns] /\ RetentionInv'
      /\ prune'[p] = y /\ \A q \in Pruners : q # p => prune'[q] = prune[q]
  BY <1>1, <1>4, <1>5, <1>6, <1>7, TxnStep
<1> QED BY <1>4, <1>7, <1>8

(* It selects its batch: what it measured may be less than what is stored  *)
(* by now, never more.                                                     *)
LEMMA RotateSelectTxn ==
  ASSUME TypeInv, RetentionInv, NEW p \in Pruners, RotateSelect(p)
  PROVE  /\ prune' \in [Pruners -> Txns] /\ RetentionInv'
         /\ \A q \in Pruners : prune'[q].done = prune[q].done
<1>1. PICK x \in Txns : x = prune[p] BY DEF TypeInv
<1>2. x.kind = "measured" /\ TxnInv(x) BY <1>1 DEF RotateSelect, RetentionInv
<1>3. PICK batch, y : /\ batch = Oldest(Batch)
                      /\ y = [x EXCEPT !.kind = "rotate", !.batch = batch]
                      /\ prune' = [prune EXCEPT ![p] = y]
  BY <1>1 DEF RotateSelect, TypeInv
<1>4. batch \subseteq rows /\ batch \subseteq Traces BY <1>3 DEF Oldest, TypeInv
<1>5. /\ y.kind = "rotate" /\ y.batch = batch /\ y.gone = x.gone /\ y.done = x.done
      /\ y.cur = x.cur /\ y.segs = x.segs /\ y.size = x.size /\ y \in Txns
  BY <1>3, <1>4 DEF Txns
<1>6. x.gone = {} /\ x.cur = 0 /\ x.size > Limit /\ x.size <= Bytes(Stored \ x.segs)
  BY <1>2 DEF TxnInv, Releases, Rotates
<1>7. TxnInv(y)
  <2>1. Releases(y) BY <1>2, <1>4, <1>5, <1>6 DEF TxnInv, Releases
  <2>2. Rotates(y) BY <1>5, <1>6 DEF Rotates
  <2>3. Needed(y) BY <1>5, <1>6 DEF Needed
  <2> QED BY <2>1, <2>2, <2>3 DEF TxnInv
<1>8. rows' = rows /\ backend' = backend BY DEF RotateSelect
<1>9. \A q \in Pruners : q # p => prune[q].kind = "idle" BY <1>1, <1>2, OthersIdle
<1>10. /\ prune' \in [Pruners -> Txns] /\ RetentionInv'
       /\ prune'[p] = y /\ \A q \in Pruners : q # p => prune'[q] = prune[q]
  BY <1>3, <1>5, <1>7, <1>8, <1>9, TxnStep
<1> QED BY <1>1, <1>5, <1>10

(* The deletion by age releases what loses its last trace. *)
LEMMA AgeDeleteTxn ==
  ASSUME TypeInv, RetentionInv, NEW p \in Pruners, AgeDelete(p)
  PROVE  /\ prune' \in [Pruners -> Txns] /\ RetentionInv'
         /\ \A q \in Pruners : prune'[q].done = prune[q].done
<1>1. PICK old, segs, y :
        /\ old \subseteq rows
        /\ segs = {s \in Unreferenced(old) : \E t \in old : SegOf[t] = s}
        /\ y = [Idle EXCEPT !.kind = "age", !.gone = old, !.segs = segs]
        /\ prune' = [prune EXCEPT ![p] = y]
  <2>1. PICK n \in 1 .. Batch : prune' = [prune EXCEPT ![p] =
            [Idle EXCEPT !.kind = "age", !.gone = Oldest(n),
                         !.segs = {s \in Unreferenced(Oldest(n)) : \E t \in Oldest(n) : SegOf[t] = s}]]
    BY DEF AgeDelete
  <2>2. Oldest(n) \subseteq rows BY DEF Oldest
  <2> QED BY <2>1, <2>2
<1>2. segs \subseteq Segs /\ old \subseteq Traces BY <1>1 DEF Unreferenced, Stored, TypeInv
<1>3. /\ y.kind = "age" /\ y.segs = segs /\ y.size = 0 /\ y.batch = {}
      /\ y.gone = old /\ y.done = {} /\ y.cur = 0 /\ y \in Txns
  <2>1. y = [kind |-> "age", batch |-> {}, gone |-> old, done |-> {}, cur |-> 0,
             snap |-> {}, segs |-> segs, size |-> 0]
    BY <1>1 DEF Idle
  <2>2. y \in Txns BY <1>2, <2>1 DEF Txns
  <2> QED BY <2>1, <2>2
<1>4. TxnInv(y)
  <2>1. Releases(y) BY <1>1, <1>3 DEF Releases
  <2>2. Rotates(y) /\ Needed(y) BY <1>3 DEF Rotates, Needed
  <2> QED BY <2>1, <2>2 DEF TxnInv
<1>5. rows' = rows /\ backend' = backend /\ \A q \in Pruners : prune[q] = Idle
  BY DEF AgeDelete, try_prune_lock
<1>6. \A q \in Pruners : prune[q].kind = "idle" /\ prune[q].done = {} BY <1>5 DEF Idle
<1>7. /\ prune' \in [Pruners -> Txns] /\ RetentionInv'
      /\ prune'[p] = y /\ \A q \in Pruners : q # p => prune'[q] = prune[q]
  BY <1>1, <1>3, <1>4, <1>5, <1>6, TxnStep
<1> QED BY <1>3, <1>6, <1>7

(* A trigger takes one of the deleted traces. *)
LEMMA TriggerStartTxn ==
  ASSUME TypeInv, RetentionInv, NEW p \in Pruners, TriggerStart(p)
  PROVE  /\ prune' \in [Pruners -> Txns] /\ RetentionInv'
         /\ \A q \in Pruners : prune'[q].done = prune[q].done
<1>1. PICK x \in Txns : x = prune[p] BY DEF TypeInv
<1>2. PICK t, snap, y :
        /\ t \in x.gone \ x.done
        /\ snap = {u \in rows \ x.gone : Minute[u] = Minute[t]}
        /\ y = [x EXCEPT !.cur = t, !.snap = snap]
        /\ prune' = [prune EXCEPT ![p] = y]
  <2>1. PICK t \in x.gone \ x.done :
          prune' = [prune EXCEPT ![p].cur = t,
                                 ![p].snap = {u \in rows \ x.gone : Minute[u] = Minute[t]}]
    BY <1>1 DEF TriggerStart
  <2>2. PICK snap : snap = {u \in rows \ x.gone : Minute[u] = Minute[t]} OBVIOUS
  <2>3. prune' = [prune EXCEPT ![p].cur = t, ![p].snap = snap] BY <2>1, <2>2
  <2>4. prune' = [prune EXCEPT ![p] = [x EXCEPT !.cur = t, !.snap = snap]] BY <1>1, <2>3 DEF TypeInv
  <2> QED BY <2>2, <2>4
<1>3. snap \in SUBSET Traces /\ t \in Traces BY <1>1, <1>2 DEF TypeInv, Txns
<1>4. /\ y \in Txns /\ y.kind = x.kind /\ y.batch = x.batch /\ y.gone = x.gone
      /\ y.segs = x.segs /\ y.size = x.size /\ y.done = x.done /\ y.cur = t
  BY <1>1, <1>2, <1>3 DEF Txns
<1>5. TxnInv(x) BY <1>1 DEF RetentionInv
<1>6. x.done \subseteq x.gone BY <1>5 DEF TxnInv, Releases
<1>7. y.done \subseteq y.gone /\ (y.cur # 0 => y.cur \in y.gone \ y.done) BY <1>2, <1>4, <1>6
<1>71. TxnInv(y) BY <1>4, <1>5, <1>7, SameTxn
<1>8. rows' = rows /\ backend' = backend BY DEF TriggerStart
<1>9. x.kind # "idle" /\ \A q \in Pruners : q # p => prune[q].kind = "idle"
  BY <1>1, <1>2, Begun, OthersIdle
<1>10. /\ prune' \in [Pruners -> Txns] /\ RetentionInv'
       /\ prune'[p] = y /\ \A q \in Pruners : q # p => prune'[q] = prune[q]
  BY <1>2, <1>4, <1>71, <1>8, <1>9, TxnStep
<1> QED BY <1>1, <1>4, <1>10

(* A trigger has run: its trace is subtracted from the bucket. *)
LEMMA TriggerDoneTxn ==
  ASSUME TypeInv, RetentionInv, NEW p \in Pruners, TriggerDone(p)
  PROVE  /\ prune' \in [Pruners -> Txns] /\ RetentionInv'
         /\ prune[p].cur \in rows /\ prune[p].cur \notin prune[p].done
         /\ \A q \in Pruners : q # p => prune[q].done = {} /\ prune'[q].done = {}
         /\ prune'[p].done = prune[p].done \cup {prune[p].cur}
<1>1. PICK x \in Txns : x = prune[p] BY DEF TypeInv
<1>2. PICK y : y = [x EXCEPT !.cur = 0, !.done = @ \cup {x.cur}] /\ prune' = [prune EXCEPT ![p] = y]
  BY <1>1 DEF TriggerDone, TypeInv
<1>3. TxnInv(x) /\ x.cur # 0 BY <1>1 DEF RetentionInv, TriggerDone
<1>4. x.done \subseteq x.gone /\ x.cur \in x.gone \ x.done /\ x.gone \subseteq rows
  BY <1>3 DEF TxnInv, Releases
<1>5. /\ y \in Txns /\ y.kind = x.kind /\ y.batch = x.batch /\ y.gone = x.gone
      /\ y.segs = x.segs /\ y.size = x.size /\ y.done = x.done \cup {x.cur} /\ y.cur = 0
  BY <1>2, <1>4 DEF Txns
<1>6. TxnInv(y) BY <1>3, <1>4, <1>5, SameTxn
<1>7. rows' = rows /\ backend' = backend BY DEF TriggerDone
<1>8. x.kind # "idle" /\ \A q \in Pruners : q # p => prune[q].kind = "idle"
  BY <1>1, <1>3, Begun, OthersIdle
<1>9. /\ prune' \in [Pruners -> Txns] /\ RetentionInv'
      /\ prune'[p] = y /\ \A q \in Pruners : q # p => prune'[q] = prune[q]
  BY <1>2, <1>5, <1>6, <1>7, <1>8, TxnStep
<1>10. \A q \in Pruners : q # p => prune[q] = Idle BY <1>8 DEF RetentionInv, PrunersInv
<1>11. Idle.done = {} BY DEF Idle
<1> QED BY <1>1, <1>4, <1>5, <1>9, <1>10, <1>11

(* A rollback forgets the deletions. *)
LEMMA PruneAbortTxn ==
  ASSUME TypeInv, RetentionInv, NEW p \in Pruners, PruneAbort(p)
  PROVE  /\ prune' \in [Pruners -> Txns] /\ RetentionInv'
         /\ \A q \in Pruners : prune'[q] = Idle /\ (q # p => prune[q] = Idle)
<1>1. /\ rows' = rows /\ backend' = backend /\ prune' = [prune EXCEPT ![p] = Idle]
      /\ prune[p].kind # "idle"
  BY DEF PruneAbort
<1>2. Idle.kind = "idle" BY DEF Idle
<1>3. /\ prune' \in [Pruners -> Txns] /\ RetentionInv'
      /\ prune'[p] = Idle /\ \A q \in Pruners : q # p => prune'[q] = prune[q]
  BY <1>1, <1>2, IdleTxn, TxnStep
<1>4. \A q \in Pruners : q # p => prune[q] = Idle BY <1>1, OthersIdle DEF RetentionInv, PrunersInv
<1> QED BY <1>3, <1>4

(* No transaction is left. *)
LEMMA AllIdle ==
  ASSUME prune' \in [Pruners -> {Idle}] PROVE RetentionInv'
<1>1. TxnInv(Idle)' BY StoreAssumption DEF Idle, Txns, TxnInv, Releases, Rotates, Needed
<1>2. \A p \in Pruners : prune'[p] = Idle OBVIOUS
<1>3. \A p \in Pruners : TxnInv(prune[p])'
  <2> TAKE p \in Pruners
  <2> QED BY <1>1, <1>2 DEF TxnInv, Releases, Rotates, Needed
<1>4. Idle.kind = "idle" BY DEF Idle
<1> QED BY <1>2, <1>3, <1>4 DEF RetentionInv, PrunersInv

(* After the commit no transaction is open. *)
LEMMA PruneCommitTxn ==
  ASSUME TypeInv, RetentionInv, NEW p \in Pruners, PruneCommit(p)
  PROVE  /\ prune' \in [Pruners -> Txns] /\ RetentionInv'
         /\ \A q \in Pruners : prune'[q] = Idle /\ (q # p => prune[q] = Idle)
<1>1. prune' = [prune EXCEPT ![p] = Idle] /\ prune[p].kind # "idle" BY DEF PruneCommit
<1>2. \A q \in Pruners : q # p => prune[q] = Idle BY <1>1, OthersIdle DEF RetentionInv, PrunersInv
<1>3. prune' \in [Pruners -> {Idle}] BY <1>1, <1>2 DEF TypeInv
<1> QED BY <1>2, <1>3, AllIdle, IdleTxn

(* The loop of rotate_batch deletes one more trace.  A trace that is still *)
(* there keeps its segment stored, so without this deletion the archive is *)
(* as large as before, which was too large.                                *)
LEMMA RotateDeleteTxn ==
  ASSUME TypeInv, RetentionInv, NEW p \in Pruners, RotateDelete(p)
  PROVE  /\ prune' \in [Pruners -> Txns] /\ RetentionInv'
         /\ \A q \in Pruners : prune'[q].done = prune[q].done
<1>1. PICK x \in Txns : x = prune[p] BY DEF TypeInv
<1>2. x.kind = "rotate" /\ x.gone = x.done /\ TxnInv(x)
  BY <1>1 DEF RotateDelete, RetentionInv
<1>3. PICK t, rest, size, segs, y :
        /\ t \in FirstOf(x.batch) /\ rest \in {{}, x.batch \ {t}}
        /\ size = x.size - Bytes(Released(p, t)) /\ (size <= Limit => rest = {})
        /\ segs = x.segs \cup ({SegOf[t]} \cap Unreferenced(x.gone \cup {t}))
        /\ y = [x EXCEPT !.gone = @ \cup {t}, !.batch = rest, !.size = size, !.segs = segs]
        /\ prune' = [prune EXCEPT ![p] = y]
  <2>1. PICK t, rest :
          /\ t \in FirstOf(x.batch) /\ rest \in {{}, x.batch \ {t}}
          /\ x.size - Bytes(Released(p, t)) <= Limit => rest = {}
          /\ prune' = [prune EXCEPT ![p] =
                [x EXCEPT !.gone = @ \cup {t}, !.batch = rest,
                          !.size = x.size - Bytes(Released(p, t)),
                          !.segs = @ \cup ({SegOf[t]} \cap Unreferenced(x.gone \cup {t}))]]
    BY <1>1 DEF RotateDelete
  <2>2. PICK size, segs : /\ size = x.size - Bytes(Released(p, t))
                          /\ segs = x.segs \cup ({SegOf[t]} \cap Unreferenced(x.gone \cup {t}))
    OBVIOUS
  <2>3. [x EXCEPT !.gone = @ \cup {t}, !.batch = rest,
                  !.size = x.size - Bytes(Released(p, t)),
                  !.segs = @ \cup ({SegOf[t]} \cap Unreferenced(x.gone \cup {t}))]
        = [x EXCEPT !.gone = @ \cup {t}, !.batch = rest, !.size = size, !.segs = segs]
    BY <2>2
  <2> QED BY <2>1, <2>2, <2>3
<1>4. /\ t \in x.batch /\ t \in rows /\ t \in Traces /\ t \notin x.gone
      /\ x.gone \subseteq rows /\ rest \subseteq x.batch \ {t} /\ x.batch \subseteq rows \ x.gone
      /\ rows \subseteq Traces /\ x.cur = 0 /\ SegOf[t] \in Segs
  BY <1>2, <1>3, KeyOfTrace DEF FirstOf, TxnInv, Releases, TypeInv
<1>5. Released(p, t) \subseteq Segs /\ segs \subseteq Segs
  BY <1>3, <1>4 DEF Released, Unreferenced, Stored, Txns
<1>6. x.size \in Int /\ size \in Int /\ Limit \in Nat
  <2>1. Bytes(Released(p, t)) \in Nat BY <1>5, BytesFacts
  <2>2. x.size \in Int /\ Limit \in Nat BY StoreAssumption DEF Txns
  <2> QED BY <1>3, <2>1, <2>2
<1>7. /\ y.kind = "rotate" /\ y.gone = x.gone \cup {t} /\ y.batch = rest /\ y.size = size
      /\ y.segs = segs /\ y.done = x.done /\ y.cur = 0 /\ y \in Txns
  BY <1>2, <1>3, <1>4, <1>5, <1>6 DEF Txns
<1>8. /\ x.segs \subseteq Unreferenced(x.gone) /\ x.segs \subseteq Segs
      /\ \A u \in x.gone : SegOf[u] \in Unreferenced(x.gone) => SegOf[u] \in x.segs
      /\ \A u \in x.gone, v \in x.batch : Before(u, v)
      /\ x.size <= Bytes(Stored \ x.segs) /\ x.size > Limit
  BY <1>2, <1>4 DEF TxnInv, Releases, Rotates, Txns
<1>9. Unreferenced(x.gone) \subseteq Unreferenced(x.gone \cup {t})
  BY DEF Unreferenced
<1>10. Releases(y)
  <2>1. y.gone \subseteq rows /\ y.batch \subseteq rows \ y.gone /\ y.done \subseteq y.gone
    BY <1>2, <1>4, <1>7
  <2>2. y.segs \subseteq Unreferenced(y.gone) BY <1>3, <1>7, <1>8, <1>9
  <2>3. ASSUME NEW u \in y.gone, SegOf[u] \in Unreferenced(y.gone) PROVE SegOf[u] \in y.segs
    <3>1. CASE SegOf[u] = SegOf[t] BY <1>3, <1>7, <2>3, <3>1
    <3>2. CASE SegOf[u] # SegOf[t]
      <4>1. u \in x.gone BY <1>7, <3>2
      <4>2. SegOf[u] \in Unreferenced(x.gone) BY <1>7, <2>3, <3>2 DEF Unreferenced
      <4> QED BY <1>3, <1>7, <1>8, <4>1, <4>2
    <3> QED BY <3>1, <3>2
  <2> QED BY <1>7, <2>1, <2>2, <2>3 DEF Releases
<1>11. Rotates(y)
  <2>1. ASSUME NEW u \in y.gone, NEW v \in y.batch PROVE Before(u, v)
    <3>1. v \in x.batch /\ v # t BY <1>4, <1>7
    <3>2. CASE u \in x.gone BY <1>8, <3>1, <3>2
    <3>3. CASE u = t
      <4>1. ~Before(v, t) BY <1>3, <3>1 DEF FirstOf
      <4>2. v \in Traces BY <1>4, <3>1
      <4> QED BY <1>4, <3>1, <3>3, <4>1, <4>2, BeforeIsOrder
    <3> QED BY <1>7, <3>2, <3>3
  <2>2. y.size <= Bytes(Stored \ y.segs)
    <3>1. PICK D : D = ({SegOf[t]} \cap Unreferenced(x.gone \cup {t})) \ x.segs OBVIOUS
    <3>2. D \subseteq Released(p, t) /\ D \subseteq Stored \ x.segs
      BY <1>1, <3>1 DEF Unreferenced, Released
    <3>3. Stored \ x.segs \subseteq Segs BY StoredSegs
    <3>4. Stored \ segs = (Stored \ x.segs) \ D BY <1>3, <3>1
    <3>5. Bytes(Stored \ x.segs) \in Nat /\ Bytes(Stored \ segs) = Bytes(Stored \ x.segs) - Bytes(D)
      BY <3>2, <3>3, <3>4, BytesFacts
    <3>6. Bytes(D) \in Nat /\ Bytes(Released(p, t)) \in Nat /\ Bytes(D) <= Bytes(Released(p, t))
      BY <1>5, <3>2, BytesFacts
    <3> QED BY <1>3, <1>6, <1>7, <1>8, <3>5, <3>6
  <2>3. y.batch # {} => y.size > Limit BY <1>3, <1>6, <1>7
  <2> QED BY <1>7, <2>1, <2>2, <2>3 DEF Rotates
<1>12. Needed(y)
  <2>1. SUFFICES ASSUME NEW v \in y.gone, \A u \in y.gone : ~Before(v, u)
                 PROVE  Bytes(Stored \ (y.segs \cap Unreferenced(y.gone \ {v}))) > Limit
    BY DEF Needed
  <2>2. v = t BY <1>4, <1>7, <1>8, <2>1
  <2>3. y.gone \ {v} = x.gone BY <1>4, <1>7, <2>2
  <2>4. SegOf[t] \notin Unreferenced(x.gone) BY <1>4 DEF Unreferenced
  <2>5. y.segs \cap Unreferenced(y.gone \ {v}) = x.segs BY <1>3, <1>7, <1>8, <2>3, <2>4
  <2>6. Bytes(Stored \ x.segs) \in Nat
    <3>1. Stored \ x.segs \subseteq Segs BY StoredSegs
    <3> QED BY <3>1, BytesFacts
  <2>7. Bytes(Stored \ (y.segs \cap Unreferenced(y.gone \ {v}))) = Bytes(Stored \ x.segs) BY <2>5
  <2> QED BY <1>6, <1>8, <2>6, <2>7
<1>13. rows' = rows /\ backend' = backend BY DEF RotateDelete
<1>14. \A q \in Pruners : q # p => prune[q].kind = "idle" BY <1>1, <1>2, OthersIdle
<1>15. /\ prune' \in [Pruners -> Txns] /\ RetentionInv'
       /\ prune'[p] = y /\ \A q \in Pruners : q # p => prune'[q] = prune[q]
  BY <1>3, <1>7, <1>10, <1>11, <1>12, <1>13, <1>14, TxnStep DEF TxnInv
<1> QED BY <1>1, <1>7, <1>15

(* An insert commits beside a retention transaction: its trace is not one  *)
(* the transaction deletes, and its segment not one it releases.           *)
LEMMA InsertCommitTxn ==
  ASSUME TypeInv, RetentionInv, FileInv, NEW t \in Traces, t \notin ever,
         rows' = rows \cup {t}, NEW k \in Backends \ {"none"},
         backend' = [backend EXCEPT ![SegOf[t]] = k], prune' = prune
  PROVE  RetentionInv'
<1>1. backend[SegOf[t]] = "none" /\ SegOf[t] \in Segs BY KeyOfTrace DEF FileInv, TraceInv
<1>2. Stored' = Stored \cup {SegOf[t]} /\ SegOf[t] \notin Stored
  BY <1>1 DEF Stored, TypeInv, Backends
<1>3. t \notin rows /\ rows \subseteq Traces BY DEF TypeInv
<1>4. \A g : g \subseteq rows => Unreferenced(g)' = Unreferenced(g)
  BY <1>2, <1>3 DEF Unreferenced
<1>5. ASSUME NEW x \in Txns, TxnInv(x) PROVE TxnInv(x)'
  <2>1. x.gone \subseteq rows /\ x.segs \subseteq Stored
    BY <1>5 DEF TxnInv, Releases, Unreferenced
  <2>2. Releases(x)' BY <1>3, <1>4, <1>5, <2>1 DEF TxnInv, Releases
  <2>3. \A Z : Z \subseteq Stored => /\ Bytes(Stored \ Z) \in Nat /\ Bytes(Stored' \ Z) \in Nat
                                     /\ Bytes(Stored \ Z) <= Bytes(Stored' \ Z)
    <3> SUFFICES ASSUME NEW Z PROVE /\ Bytes(Stored \ Z) \in Nat /\ Bytes(Stored' \ Z) \in Nat
                                    /\ Bytes(Stored \ Z) <= Bytes(Stored' \ Z)
      OBVIOUS
    <3>1. Stored' \ Z \subseteq Segs /\ Stored \ Z \subseteq Stored' \ Z BY <1>1, <1>2, StoredSegs
    <3> QED BY <3>1, BytesFacts
  <2>4. x.size \in Int /\ Limit \in Nat BY StoreAssumption DEF Txns
  <2>5. Rotates(x)' 
    <3>1. SUFFICES ASSUME x.kind \in {"measured", "rotate"}
                   PROVE  /\ \A u \in x.gone, v \in x.batch : Before(u, v)
                          /\ x.size <= Bytes(Stored' \ x.segs)
                          /\ x.batch # {} => x.size > Limit
                          /\ x.kind = "measured" => x.size > Limit /\ x.gone = {}
      BY DEF Rotates
    <3>2. /\ \A u \in x.gone, v \in x.batch : Before(u, v)
          /\ x.size <= Bytes(Stored \ x.segs)
          /\ x.batch # {} => x.size > Limit
          /\ x.kind = "measured" => x.size > Limit /\ x.gone = {}
      BY <1>5, <3>1 DEF TxnInv, Rotates
    <3>3. /\ Bytes(Stored \ x.segs) \in Nat /\ Bytes(Stored' \ x.segs) \in Nat
          /\ Bytes(Stored \ x.segs) <= Bytes(Stored' \ x.segs)
      BY <2>1, <2>3
    <3> QED BY <2>4, <3>2, <3>3
  <2>6. Needed(x)'
    <3>1. SUFFICES ASSUME x.kind = "rotate", NEW u \in x.gone, \A v \in x.gone : ~Before(u, v)
                   PROVE  Bytes(Stored' \ (x.segs \cap Unreferenced(x.gone \ {u})')) > Limit
      BY DEF Needed
    <3>2. PICK Z : Z = x.segs \cap Unreferenced(x.gone \ {u}) OBVIOUS
    <3>3. Bytes(Stored \ Z) > Limit BY <1>5, <3>1, <3>2 DEF TxnInv, Needed
    <3>4. Z = x.segs \cap Unreferenced(x.gone \ {u})' /\ Z \subseteq Stored BY <1>4, <2>1, <3>2
    <3>5. /\ Bytes(Stored \ Z) \in Nat /\ Bytes(Stored' \ Z) \in Nat
          /\ Bytes(Stored \ Z) <= Bytes(Stored' \ Z)
      BY <2>3, <3>4
    <3>6. Bytes(Stored' \ (x.segs \cap Unreferenced(x.gone \ {u})')) = Bytes(Stored' \ Z) BY <3>4
    <3> QED BY <2>4, <3>3, <3>5, <3>6
  <2> QED BY <2>2, <2>5, <2>6 DEF TxnInv
<1>6. \A p \in Pruners : TxnInv(prune[p])'
  <2> TAKE p \in Pruners
  <2>1. PICK x \in Txns : x = prune[p] BY DEF TypeInv
  <2>2. TxnInv(x)' BY <1>5, <2>1 DEF RetentionInv
  <2> QED BY <2>1, <2>2 DEF TxnInv, Releases, Rotates, Needed
<1> QED BY <1>6 DEF RetentionInv, PrunersInv

-----------------------------------------------------------------------------
(* Rollups.                                                                *)

(* The traces that are counted are traces of the store. *)
LEMMA RollupFacts ==
  ASSUME TypeInv, RetentionInv, SessionInv
  PROVE  /\ Subtracting \subseteq rows /\ rows \subseteq Traces
         /\ Added \subseteq Traces /\ Added \cap rows = {}
<1>1. \A p \in Pruners : prune[p].done \subseteq rows BY DEF RetentionInv, TxnInv, Releases
<1> QED BY <1>1 DEF Subtracting, Added, SessionInv, InsertInv, TypeInv

(* A minute counts the same traces if they are the same. *)
LEMMA SameMinute ==
  ASSUME NEW b, NEW S, NEW T, \A t : Minute[t] = b => (t \in S <=> t \in T)
  PROVE  InMinute(b, S) = InMinute(b, T)
BY DEF InMinute

(* Rollups are as they were if no trace nor counter changed. *)
LEMMA RollupFrame ==
  ASSUME RollupInv, rows' = rows, rollup' = rollup, work' = work,
         Added' = Added, Subtracting' = Subtracting
  PROVE  RollupInv'
BY DEF RollupInv, WriterInv, CountInv

(* What is subtracted changes only with the transactions. *)
LEMMA SubtractingFrame ==
  ASSUME \A p \in Pruners : prune'[p].done = prune[p].done PROVE Subtracting' = Subtracting
BY DEF Subtracting

(* The lock of a bucket: nobody else has touched its row. *)
LEMMA BucketLock ==
  ASSUME NEW b, NEW p, BucketLockedBy(b) \subseteq {p}
  PROVE  /\ p \notin Traces => \A t \in Added : Minute[t] # b
         /\ \A q \in Pruners : q # p => \A t \in prune[q].done : Minute[t] # b
BY DEF BucketLockedBy, Added

(* An insert counts its trace in a bucket that nobody else writes. *)
LEMMA InsertRollupCount ==
  ASSUME IInv, NEW t \in Traces, InsertRollup(t) PROVE RollupInv'
<1>1. PICK b \in Buckets : b = Minute[t] BY KeyOfTrace
<1>2. /\ ipc[t] = "rollup" /\ BucketLockedBy(b) = {} /\ ipc' = [ipc EXCEPT ![t] = "commit"]
      /\ rows' = rows /\ rollup' = rollup /\ prune' = prune
      /\ work' = [work EXCEPT ![b] = [total |-> work[b].total + 1, last |-> Max({work[b].last, At[t]})]]
  BY <1>1 DEF InsertRollup, InsertOnly, dbvars
<1>3. Added' = Added \cup {t} /\ t \notin Added BY <1>2 DEF Added, IInv, TypeInv
<1>4. Subtracting' = Subtracting BY <1>2 DEF Subtracting
<1>5. \A u \in Added \cup Subtracting : Minute[u] # b
  BY <1>2 DEF BucketLockedBy, Added, Subtracting
<1>6. /\ Subtracting \subseteq rows /\ rows \subseteq Traces
      /\ Added \subseteq Traces /\ Added \cap rows = {}
  BY RollupFacts DEF IInv
<1>7. t \notin rows /\ t \notin Subtracting
  BY <1>2, <1>6 DEF IInv, SessionInv, InsertInv, TypeInv
<1>8. WriterInv' BY <1>1, <1>3, <1>4, <1>5 DEF IInv, RollupInv, WriterInv
<1>9. ASSUME NEW c \in Buckets PROVE CountInv(c)'
  <2>1. CountInv(c) BY DEF IInv, RollupInv
  <2>2. PICK S : S = (rows \cup Added) \ Subtracting OBVIOUS
  <2>3. ((rows \cup Added) \ Subtracting)' = S \cup {t} BY <1>2, <1>3, <1>4, <1>7, <2>2
  <2>4. t \notin S /\ S \subseteq Traces BY <1>3, <1>6, <1>7, <2>2
  <2>5. CASE c = b
    <3>1. Cardinality(InMinute(b, S \cup {t})) = Cardinality(InMinute(b, S)) + 1
      BY <1>1, <2>4, MinuteCount
    <3>2. work'[b].total = work[b].total + 1 BY <1>2 DEF IInv, TypeInv
    <3> QED BY <1>2, <2>1, <2>2, <2>3, <2>5, <3>1, <3>2 DEF CountInv
  <2>6. CASE c # b
    <3>1. InMinute(c, S \cup {t}) = InMinute(c, S) BY <1>1, <2>6 DEF InMinute
    <3>2. work'[c] = work[c] BY <1>2, <2>6 DEF IInv, TypeInv
    <3> QED BY <1>2, <2>1, <2>2, <2>3, <3>1, <3>2 DEF CountInv
  <2> QED BY <2>5, <2>6
<1> QED BY <1>8, <1>9 DEF RollupInv

(* The insert is the only writer of its bucket, so what it commits counts  *)
(* the stored traces and its own.                                          *)
LEMMA InsertCommitCount ==
  ASSUME IInv, NEW t \in Traces, InsertCommit(t) PROVE RollupInv'
<1>1. PICK b \in Buckets : b = Minute[t] BY KeyOfTrace
<1>2. /\ ipc[t] = "commit" /\ ipc' = [ipc EXCEPT ![t] = "idle"] /\ rows' = rows \cup {t}
      /\ rollup' = [rollup EXCEPT ![b] = work[b]] /\ prune' = prune /\ work' = work
  BY <1>1 DEF InsertCommit, InsertOnly
<1>3. Added' = Added \ {t} /\ t \in Added BY <1>2 DEF Added, IInv, TypeInv
<1>4. Subtracting' = Subtracting BY <1>2 DEF Subtracting
<1>5. /\ Subtracting \subseteq rows /\ rows \subseteq Traces
      /\ Added \subseteq Traces /\ Added \cap rows = {}
  BY RollupFacts DEF IInv
<1>6. WriterInv BY DEF IInv, RollupInv
<1>7. WriterInv' BY <1>3, <1>4, <1>6 DEF WriterInv
<1>8. ASSUME NEW c \in Buckets PROVE CountInv(c)'
  <2>1. CountInv(c) BY DEF IInv, RollupInv
  <2>2. ((rows \cup Added) \ Subtracting)' = (rows \cup Added) \ Subtracting
    BY <1>2, <1>3, <1>4
  <2>3. rollup'[c].total = Cardinality(InMinute(c, rows'))
    <3>1. CASE c = b
      <4>1. InMinute(b, (rows \cup Added) \ Subtracting) = InMinute(b, rows \cup {t})
        BY <1>1, <1>3, <1>5, <1>6 DEF InMinute, WriterInv
      <4>2. rollup'[b] = work[b] BY <1>2 DEF IInv, TypeInv
      <4> QED BY <1>2, <2>1, <3>1, <4>1, <4>2 DEF CountInv
    <3>2. CASE c # b
      <4>1. InMinute(c, rows \cup {t}) = InMinute(c, rows) BY <1>1, <3>2 DEF InMinute
      <4>2. rollup'[c] = rollup[c] BY <1>2, <3>2 DEF IInv, TypeInv
      <4> QED BY <1>2, <2>1, <4>1, <4>2 DEF CountInv
    <3> QED BY <3>1, <3>2
  <2> QED BY <1>2, <2>1, <2>2, <2>3 DEF CountInv
<1> QED BY <1>7, <1>8 DEF RollupInv

(* A rollback of an insert takes its trace out of what it counted. *)
LEMMA InsertAbortCount ==
  ASSUME IInv, NEW t \in Traces, InsertAbort(t) PROVE RollupInv'
<1>1. PICK b \in Buckets : b = Minute[t] BY KeyOfTrace
<1>2. /\ ipc' = [ipc EXCEPT ![t] = "idle"] /\ rows' = rows
      /\ rollup' = rollup /\ prune' = prune
      /\ work' = IF ipc[t] = "commit" THEN [work EXCEPT ![b] = rollup[b]] ELSE work
  BY <1>1 DEF InsertAbort, InsertOnly
<1>3. Added' = Added \ {t} BY <1>2 DEF Added, IInv, TypeInv
<1>4. Subtracting' = Subtracting BY <1>2 DEF Subtracting
<1>5. /\ Subtracting \subseteq rows /\ rows \subseteq Traces
      /\ Added \subseteq Traces /\ Added \cap rows = {}
  BY RollupFacts DEF IInv
<1>6. CASE ipc[t] # "commit"
  <2>1. Added' = Added /\ work' = work BY <1>2, <1>3, <1>6 DEF Added
  <2> QED BY <1>2, <1>4, <2>1, RollupFrame DEF IInv
<1>7. CASE ipc[t] = "commit"
  <2>1. t \in Added BY <1>7 DEF Added
  <2>2. WriterInv BY DEF IInv, RollupInv
  <2>3. WriterInv' BY <1>3, <1>4, <2>2 DEF WriterInv
  <2>4. ASSUME NEW c \in Buckets PROVE CountInv(c)'
    <3>1. CountInv(c) BY DEF IInv, RollupInv
    <3>2. PICK S : S = (rows \cup (Added \ {t})) \ Subtracting OBVIOUS
    <3>3. ((rows \cup Added) \ Subtracting)' = S BY <1>2, <1>3, <1>4, <3>2
    <3>4. CASE c = b
      <4>1. InMinute(b, S) = InMinute(b, rows)
        BY <1>1, <1>5, <2>1, <2>2, <3>2 DEF InMinute, WriterInv
      <4>2. work'[b] = rollup[b] BY <1>2, <1>7 DEF IInv, TypeInv
      <4> QED BY <1>2, <3>1, <3>3, <3>4, <4>1, <4>2 DEF CountInv
    <3>5. CASE c # b
      <4>1. InMinute(c, S) = InMinute(c, (rows \cup Added) \ Subtracting)
        BY <1>1, <3>2, <3>5 DEF InMinute
      <4>2. work'[c] = work[c] BY <1>2, <1>7, <3>5 DEF IInv, TypeInv
      <4> QED BY <1>2, <3>1, <3>3, <4>1, <4>2 DEF CountInv
    <3> QED BY <3>4, <3>5
  <2> QED BY <2>3, <2>4 DEF RollupInv
<1> QED BY <1>6, <1>7

(* The trigger subtracts a trace that the bucket counts. *)
LEMMA TriggerDoneCount ==
  ASSUME IInv, NEW p \in Pruners, TriggerDone(p) PROVE RollupInv'
<1>1. PICK t : t = prune[p].cur OBVIOUS
<1>2. /\ t \in rows /\ t \notin prune[p].done
      /\ \A q \in Pruners : q # p => prune[q].done = {} /\ prune'[q].done = {}
      /\ prune'[p].done = prune[p].done \cup {t}
  BY <1>1, TriggerDoneTxn DEF IInv
<1>3. /\ Subtracting \subseteq rows /\ rows \subseteq Traces
      /\ Added \subseteq Traces /\ Added \cap rows = {}
  BY RollupFacts DEF IInv
<1>4. PICK b \in Buckets : b = Minute[t] BY <1>2, <1>3, KeyOfTrace
<1>5. /\ BucketLockedBy(b) \subseteq {p} /\ rows' = rows /\ rollup' = rollup /\ ipc' = ipc
      /\ work' = [work EXCEPT ![b] = Subtracted(work[b], t, prune[p].snap)]
  BY <1>1, <1>4 DEF TriggerDone, PruneOnly, ivars
<1>6. Added' = Added BY <1>5 DEF Added
<1>7. Subtracting' = Subtracting \cup {t} /\ t \notin Subtracting
  BY <1>2, <1>3 DEF Subtracting
<1>8. \A u \in Added : Minute[u] # b BY <1>5, BucketLock, StoreAssumption
<1>9. WriterInv' BY <1>4, <1>6, <1>7, <1>8 DEF IInv, RollupInv, WriterInv
<1>10. ASSUME NEW c \in Buckets PROVE CountInv(c)'
  <2>1. CountInv(c) BY DEF IInv, RollupInv
  <2>2. PICK S : S = (rows \cup Added) \ Subtracting OBVIOUS
  <2>3. ((rows \cup Added) \ Subtracting)' = S \ {t} BY <1>5, <1>6, <1>7, <2>2
  <2>4. t \in S /\ S \subseteq Traces BY <1>2, <1>3, <1>7, <2>2
  <2>5. CASE c = b
    <3>1. /\ Cardinality(InMinute(b, S \ {t})) = Cardinality(InMinute(b, S)) - 1
          /\ Cardinality(InMinute(b, S)) \in Nat
      BY <1>4, <2>4, MinuteCount
    <3>2. Cardinality(InMinute(b, S \ {t})) \in Nat
      <4>1. S \ {t} \subseteq Traces BY <2>4
      <4> QED BY <4>1, MinuteCount
    <3>3. work'[b].total = IF work[b].total <= 1 THEN 0 ELSE work[b].total - 1
      BY <1>5 DEF IInv, TypeInv, Subtracted, NoRow
    <3>4. work[b].total = Cardinality(InMinute(b, S)) BY <2>1, <2>2, <2>5 DEF CountInv
    <3>5. work'[b].total = Cardinality(InMinute(b, S \ {t})) BY <3>1, <3>2, <3>3, <3>4
    <3> QED BY <1>5, <2>1, <2>3, <2>5, <3>5 DEF CountInv
  <2>6. CASE c # b
    <3>1. InMinute(c, S \ {t}) = InMinute(c, S) BY <1>4, <2>6 DEF InMinute
    <3>2. work'[c] = work[c] BY <1>5, <2>6 DEF IInv, TypeInv
    <3> QED BY <1>5, <2>1, <2>2, <2>3, <3>1, <3>2 DEF CountInv
  <2> QED BY <2>5, <2>6
<1> QED BY <1>9, <1>10 DEF RollupInv

(* Only the open transaction subtracts. *)
LEMMA OneSubtracts ==
  ASSUME TypeInv, NEW p \in Pruners, \A q \in Pruners : q # p => prune[q] = Idle
  PROVE  Subtracting = prune[p].done
<1>1. Idle.done = {} BY DEF Idle
<1>2. prune[p].done \subseteq Traces BY DEF TypeInv, Txns
<1> QED BY <1>1, <1>2 DEF Subtracting

(* Without an open transaction nothing is subtracted. *)
LEMMA NothingSubtracted ==
  ASSUME \A q \in Pruners : prune'[q] = Idle PROVE Subtracting' = {}
<1>1. Idle.done = {} BY DEF Idle
<1> QED BY <1>1 DEF Subtracting

(* What retention commits no longer counts what it deleted. *)
LEMMA PruneCommitCount ==
  ASSUME IInv, NEW p \in Pruners, PruneCommit(p) PROVE RollupInv'
<1>1. \A q \in Pruners : prune'[q] = Idle /\ (q # p => prune[q] = Idle)
  BY PruneCommitTxn DEF IInv
<1>2. PICK D : D = Subtracting OBVIOUS
<1>3. D = prune[p].done /\ Subtracting' = {}
  BY <1>1, <1>2, OneSubtracts, NothingSubtracted DEF IInv
<1>4. /\ rows' = rows \ D /\ work' = work /\ ipc' = ipc
      /\ rollup' = [b \in Buckets |-> IF b \in Touched(p) THEN work[b] ELSE rollup[b]]
  BY <1>3 DEF PruneCommit, PruneOnly, ivars
<1>5. Added' = Added BY <1>4 DEF Added
<1>6. D \subseteq rows /\ Added \cap rows = {} BY <1>2, RollupFacts DEF IInv
<1>7. WriterInv BY DEF IInv, RollupInv
<1>8. WriterInv' BY <1>3, <1>5, <1>7 DEF WriterInv
<1>9. ASSUME NEW c \in Buckets PROVE CountInv(c)'
  <2>1. CountInv(c) BY DEF IInv, RollupInv
  <2>2. ((rows \cup Added) \ Subtracting)' = (rows \cup Added) \ Subtracting
    BY <1>2, <1>3, <1>4, <1>5, <1>6
  <2>3. rollup'[c].total = Cardinality(InMinute(c, rows'))
    <3>1. CASE c \in Touched(p)
      <4>1. InMinute(c, (rows \cup Added) \ Subtracting) = InMinute(c, rows \ D)
        BY <1>2, <1>3, <1>7, <3>1 DEF InMinute, WriterInv, Touched
      <4>2. rollup'[c] = work[c] BY <1>4, <3>1
      <4> QED BY <1>4, <2>1, <4>1, <4>2 DEF CountInv
    <3>2. CASE c \notin Touched(p)
      <4>1. InMinute(c, rows \ D) = InMinute(c, rows) BY <1>3, <3>2 DEF InMinute, Touched
      <4>2. rollup'[c] = rollup[c] BY <1>4, <3>2
      <4> QED BY <1>4, <2>1, <4>1, <4>2 DEF CountInv
    <3> QED BY <3>1, <3>2
  <2> QED BY <1>4, <2>1, <2>2, <2>3 DEF CountInv
<1> QED BY <1>8, <1>9 DEF RollupInv

(* A rollback of retention restores the counters. *)
LEMMA PruneAbortCount ==
  ASSUME IInv, NEW p \in Pruners, PruneAbort(p) PROVE RollupInv'
<1>1. \A q \in Pruners : prune'[q] = Idle /\ (q # p => prune[q] = Idle)
  BY PruneAbortTxn DEF IInv
<1>2. PICK D : D = Subtracting OBVIOUS
<1>3. D = prune[p].done /\ Subtracting' = {}
  BY <1>1, <1>2, OneSubtracts, NothingSubtracted DEF IInv
<1>4. /\ rows' = rows /\ rollup' = rollup /\ ipc' = ipc
      /\ work' = [b \in Buckets |-> IF b \in Touched(p) THEN rollup[b] ELSE work[b]]
  BY DEF PruneAbort, PruneOnly, ivars
<1>5. Added' = Added BY <1>4 DEF Added
<1>6. WriterInv BY DEF IInv, RollupInv
<1>7. WriterInv' BY <1>3, <1>5, <1>6 DEF WriterInv
<1>8. ASSUME NEW c \in Buckets PROVE CountInv(c)'
  <2>1. CountInv(c) BY DEF IInv, RollupInv
  <2>2. ((rows \cup Added) \ Subtracting)' = rows \cup Added BY <1>3, <1>4, <1>5
  <2>3. CASE c \in Touched(p)
    <3>1. InMinute(c, rows \cup Added) = InMinute(c, rows)
      BY <1>2, <1>3, <1>6, <2>3 DEF InMinute, WriterInv, Touched
    <3>2. work'[c] = rollup[c] BY <1>4, <2>3
    <3> QED BY <1>4, <2>1, <2>2, <3>1, <3>2 DEF CountInv
  <2>4. CASE c \notin Touched(p)
    <3>1. InMinute(c, rows \cup Added) = InMinute(c, (rows \cup Added) \ Subtracting)
      BY <1>2, <1>3, <2>4 DEF InMinute, Touched
    <3>2. work'[c] = work[c] BY <1>4, <2>4
    <3> QED BY <1>4, <2>1, <2>2, <3>1, <3>2 DEF CountInv
  <2> QED BY <2>3, <2>4
<1> QED BY <1>7, <1>8 DEF RollupInv

(* A power loss rolls every open transaction back. *)
LEMMA PowerLossCount ==
  ASSUME IInv, PowerLoss PROVE RollupInv'
<1>1. /\ rows' = rows /\ rollup' = rollup /\ work' = rollup
      /\ ipc' = [t \in Traces |-> "idle"] /\ prune' = [p \in Pruners |-> Idle]
  BY DEF PowerLoss
<1>2. Added' = {} /\ Subtracting' = {}
  <2>1. \A q \in Pruners : prune'[q] = Idle BY <1>1
  <2> QED BY <1>1, <2>1, NothingSubtracted DEF Added
<1>3. ((rows \cup Added) \ Subtracting)' = rows BY <1>1, <1>2
<1> QED BY <1>1, <1>2, <1>3 DEF IInv, RollupInv, WriterInv, CountInv

-----------------------------------------------------------------------------
(* One lemma for each action.                                              *)

(* insert_trace begins and takes the row of the session. *)
LEMMA InsertBeginInv ==
  ASSUME IInv, NEW t \in Traces, InsertBegin(t) PROVE IInv'
<1> USE DEF IInv
<1>1. /\ ipc[t] = "idle" /\ t \notin ever /\ ~SessionLocked(KeyOf[t])
      /\ ipc' = [ipc EXCEPT ![t] = "file"]
      /\ tsess' = [tsess EXCEPT ![t] = IF session[KeyOf[t]] = 0 THEN t ELSE session[KeyOf[t]]]
      /\ UNCHANGED <<rows, ever, named, backend, session, rollup, queue, work, files, iback, faults>>
      /\ UNCHANGED <<unsynced, revived, prune, collect, removed, spc, empties>>
  BY DEF InsertBegin, InsertOnly, cvars, svars
<1>2. KeyOf[t] \in Keys BY KeyOfTrace
<1>3. /\ ipc' \in [Traces -> InsertSteps] /\ ipc'[t] = "file"
      /\ \A u \in Traces : u # t => ipc'[u] = ipc[u] /\ tsess'[u] = tsess[u]
      /\ tsess' \in [Traces -> Traces \cup {0}]
      /\ tsess'[t] = IF session[KeyOf[t]] = 0 THEN t ELSE session[KeyOf[t]]
  <2>1. (IF session[KeyOf[t]] = 0 THEN t ELSE session[KeyOf[t]]) \in Traces \cup {0}
    BY <1>2 DEF TypeInv
  <2>2. tsess \in [Traces -> Traces \cup {0}] /\ ipc \in [Traces -> InsertSteps] /\ "file" \in InsertSteps
    BY DEF TypeInv, InsertSteps
  <2>3. PICK v \in Traces \cup {0} : v = IF session[KeyOf[t]] = 0 THEN t ELSE session[KeyOf[t]]
    BY <2>1
  <2>4. tsess' = [tsess EXCEPT ![t] = v] BY <1>1, <2>3
  <2> QED BY <1>1, <2>2, <2>3, <2>4
<1>4. TypeInv' BY <1>1, <1>3 DEF TypeInv
<1>5. RetentionInv' BY <1>1, RetentionFrame
<1>6. RollupInv'
  <2>1. Added' = Added BY <1>1, <1>3 DEF Added
  <2>2. Subtracting' = Subtracting BY <1>1 DEF Subtracting
  <2> QED BY <1>1, <2>1, <2>2, RollupFrame
<1>7. SessionInv'
  <2>1. SessionLockInv' BY <1>1, <1>3 DEF SessionInv, SessionLockInv, SessionLocked
  <2>2. SessionsExist' BY <1>1, <1>3 DEF SessionInv, SessionsExist, TypeInv
  <2>3. \A u \in Traces : InsertInv(u)' BY <1>1, <1>3 DEF SessionInv, InsertInv
  <2> QED BY <2>1, <2>2, <2>3 DEF SessionInv
<1>8. FileInv'
  <2>1. NoOrphanSegment' BY <1>1 DEF FileInv, NoOrphanSegment, Stored, Recorded
  <2>2. \A u \in Traces : TraceInv(u)' BY <1>1, <1>3 DEF FileInv, TraceInv
  <2>3. \A s \in Segs : SegmentInv(s)' BY <1>1 DEF FileInv, SegmentInv
  <2>4. \A c \in Collectors : CollectInv(c)' BY <1>1 DEF FileInv, CollectInv
  <2> QED BY <2>1, <2>2, <2>3, <2>4 DEF FileInv
<1> QED BY <1>4, <1>5, <1>6, <1>7, <1>8

(* insert_trace has stored the bodies of the trace. *)
LEMMA InsertBodiesInv ==
  ASSUME IInv, NEW t \in Traces, InsertBodies(t) PROVE IInv'
<1> USE DEF IInv
<1>1. /\ ipc[t] = "file" /\ ipc' = [ipc EXCEPT ![t] = "rollup"]
      /\ UNCHANGED <<rows, ever, named, backend, session, tsess, rollup, queue, work>>
      /\ UNCHANGED <<unsynced, revived, prune, collect, removed, spc, empties>>
  BY DEF InsertBodies, InsertOnly, cvars, svars, dbvars
<1>2. PICK k \in {"filesystem", "postgres"} :
        /\ iback' = [iback EXCEPT ![t] = k]
        /\ files' \in {files, files \cup {SegOf[t]}} /\ (k = "filesystem" => SegOf[t] \in files')
        /\ faults' \in 0 .. MaxFaults
  BY StoreAssumption DEF InsertBodies, Fault, TypeInv
<1>3. SegOf[t] \in Segs BY KeyOfTrace
<1>4. /\ ipc' \in [Traces -> InsertSteps] /\ ipc'[t] = "rollup"
      /\ iback' \in [Traces -> Backends] /\ iback'[t] = k
      /\ \A u \in Traces : u # t => ipc'[u] = ipc[u] /\ iback'[u] = iback[u]
  BY <1>1, <1>2 DEF TypeInv, InsertSteps, Backends
<1>5. TypeInv' BY <1>1, <1>2, <1>3, <1>4 DEF TypeInv
<1>6. RetentionInv' BY <1>1, RetentionFrame
<1>7. RollupInv'
  <2>1. Added' = Added BY <1>1, <1>4 DEF Added
  <2>2. Subtracting' = Subtracting BY <1>1 DEF Subtracting
  <2> QED BY <1>1, <2>1, <2>2, RollupFrame
<1>8. SessionInv'
  <2>1. SessionLockInv' BY <1>1, <1>4 DEF SessionInv, SessionLockInv
  <2>2. SessionsExist' BY <1>1 DEF SessionInv, SessionsExist
  <2>3. \A u \in Traces : InsertInv(u)' BY <1>1, <1>4 DEF SessionInv, InsertInv
  <2> QED BY <2>1, <2>2, <2>3 DEF SessionInv
<1>9. SegOf[t] \notin named /\ SegOf[t] \notin queue
  BY <1>1, <1>3 DEF FileInv, TraceInv, SessionInv, InsertInv, SegmentInv
<1>10. FileInv'
  <2>1. NoOrphanSegment' BY <1>1 DEF FileInv, NoOrphanSegment, Stored, Recorded
  <2>2. \A u \in Traces : TraceInv(u)' BY <1>1, <1>2, <1>4 DEF FileInv, TraceInv
  <2>3. \A s \in Segs : SegmentInv(s)' BY <1>1, <1>2, <1>9 DEF FileInv, SegmentInv
  <2>4. \A c \in Collectors : CollectInv(c)' BY <1>1, <1>2, <1>9 DEF FileInv, CollectInv
  <2> QED BY <2>1, <2>2, <2>3, <2>4 DEF FileInv
<1> QED BY <1>5, <1>6, <1>7, <1>8, <1>10

(* insert_trace adds the trace to its bucket. *)
LEMMA InsertRollupInv ==
  ASSUME IInv, NEW t \in Traces, InsertRollup(t) PROVE IInv'
<1> USE DEF IInv
<1>1. /\ ipc[t] = "rollup" /\ ipc' = [ipc EXCEPT ![t] = "commit"]
      /\ UNCHANGED <<rows, ever, named, backend, session, tsess, rollup, queue, files, iback, faults>>
      /\ UNCHANGED <<unsynced, revived, prune, collect, removed, spc, empties>>
      /\ DOMAIN work' = DOMAIN work
  BY DEF InsertRollup, InsertOnly, cvars, svars, dbvars
<1>2. /\ ipc' \in [Traces -> InsertSteps] /\ ipc'[t] = "commit"
      /\ \A u \in Traces : u # t => ipc'[u] = ipc[u]
  BY <1>1 DEF TypeInv, InsertSteps
<1>3. TypeInv' BY <1>1, <1>2 DEF TypeInv
<1>4. RetentionInv' BY <1>1, RetentionFrame
<1>5. RollupInv' BY InsertRollupCount
<1>6. SessionInv'
  <2>1. SessionLockInv' BY <1>1, <1>2 DEF SessionInv, SessionLockInv
  <2>2. SessionsExist' BY <1>1 DEF SessionInv, SessionsExist
  <2>3. \A u \in Traces : InsertInv(u)' BY <1>1, <1>2 DEF SessionInv, InsertInv
  <2> QED BY <2>1, <2>2, <2>3 DEF SessionInv
<1>7. FileInv'
  <2>1. NoOrphanSegment' BY <1>1 DEF FileInv, NoOrphanSegment, Stored, Recorded
  <2>2. \A u \in Traces : TraceInv(u)' BY <1>1, <1>2 DEF FileInv, TraceInv
  <2>3. \A s \in Segs : SegmentInv(s)' BY <1>1 DEF FileInv, SegmentInv
  <2>4. \A c \in Collectors : CollectInv(c)' BY <1>1 DEF FileInv, CollectInv
  <2> QED BY <2>1, <2>2, <2>3, <2>4 DEF FileInv
<1> QED BY <1>3, <1>4, <1>5, <1>6, <1>7

(* insert_trace commits: the trace is stored with its bodies. *)
LEMMA InsertCommitInv ==
  ASSUME IInv, NEW t \in Traces, InsertCommit(t) PROVE IInv'
<1> USE DEF IInv
<1>1. /\ ipc[t] = "commit" /\ ipc' = [ipc EXCEPT ![t] = "idle"]
      /\ rows' = rows \cup {t} /\ ever' = ever \cup {t}
      /\ named' = IF iback[t] = "filesystem" THEN named \cup {SegOf[t]} ELSE named
      /\ backend' = [backend EXCEPT ![SegOf[t]] = iback[t]]
      /\ session' = [session EXCEPT ![KeyOf[t]] = tsess[t]]
      /\ rollup' = [rollup EXCEPT ![Minute[t]] = work[Minute[t]]]
      /\ iback' = [iback EXCEPT ![t] = "none"]
      /\ UNCHANGED <<tsess, queue, work, files, faults>>
      /\ UNCHANGED <<unsynced, revived, prune, collect, removed, spc, empties>>
  BY DEF InsertCommit, InsertOnly, cvars, svars
<1>2. SegOf[t] \in Segs /\ KeyOf[t] \in Keys BY KeyOfTrace
<1>3. /\ t \notin ever /\ iback[t] \in Backends \ {"none"}
      /\ (iback[t] = "filesystem" => SegOf[t] \in files)
      /\ SegOf[t] \notin named /\ backend[SegOf[t]] = "none" /\ SegOf[t] \notin queue
      /\ tsess[t] = IF session[KeyOf[t]] = 0 THEN t ELSE session[KeyOf[t]]
  BY <1>1, <1>2 DEF FileInv, TraceInv, SessionInv, InsertInv, SegmentInv, TypeInv
<1>4. \A u \in Traces : u # t => SegOf[u] # SegOf[t] BY <1>3, OwnSegment
<1>5. /\ ipc' \in [Traces -> InsertSteps] /\ ipc'[t] = "idle"
      /\ iback' \in [Traces -> Backends]
      /\ \A u \in Traces : u # t => ipc'[u] = ipc[u] /\ iback'[u] = iback[u]
      /\ backend' \in [Segs -> Backends] /\ backend'[SegOf[t]] = iback[t]
      /\ \A s \in Segs : s # SegOf[t] => backend'[s] = backend[s]
      /\ session' \in [Keys -> Traces \cup {0}] /\ session'[KeyOf[t]] = tsess[t]
      /\ \A k \in Keys : k # KeyOf[t] => session'[k] = session[k]
  BY <1>1, <1>2, <1>3 DEF TypeInv, InsertSteps, Backends
<1>6. TypeInv'
  <2>1. rows' \subseteq ever' /\ ever' \subseteq Traces /\ Legacy \subseteq ever' /\ named' \subseteq Segs
    BY <1>1, <1>2 DEF TypeInv
  <2>2. DOMAIN rollup' = Buckets BY <1>1 DEF TypeInv
  <2> QED BY <1>1, <1>5, <2>1, <2>2 DEF TypeInv
<1>7. RetentionInv' BY <1>1, <1>3, InsertCommitTxn
<1>8. RollupInv' BY InsertCommitCount
<1>9. SessionInv'
  <2>1. SessionLockInv' BY <1>1, <1>5 DEF SessionInv, SessionLockInv
  <2>2. SessionsExist'
    <3>1. ASSUME NEW u \in rows' PROVE tsess[u] # 0 /\ session'[KeyOf[u]] = tsess[u]
      <4>1. CASE u = t BY <1>3, <1>5, <4>1, StoreAssumption
      <4>2. CASE u # t
        <5>1. u \in rows /\ u \in Traces /\ KeyOf[u] \in Keys BY <1>1, <4>2, KeyOfTrace DEF TypeInv
        <5>2. tsess[u] # 0 /\ session[KeyOf[u]] = tsess[u] BY <5>1 DEF SessionInv, SessionsExist
        <5> QED BY <1>3, <1>5, <5>1, <5>2
      <4> QED BY <4>1, <4>2
    <3> QED BY <1>1, <3>1 DEF SessionsExist
  <2>3. ASSUME NEW u \in Traces PROVE InsertInv(u)'
    <3>1. SUFFICES ASSUME ipc'[u] # "idle"
                   PROVE  u \notin ever' /\ tsess[u] = IF session'[KeyOf[u]] = 0 THEN u ELSE session'[KeyOf[u]]
      BY <1>1 DEF InsertInv
    <3>2. u # t /\ ipc[u] # "idle" BY <1>5, <3>1
    <3>3. KeyOf[u] # KeyOf[t] BY <1>1, <3>2 DEF SessionInv, SessionLockInv
    <3>4. session'[KeyOf[u]] = session[KeyOf[u]] BY <1>5, <3>3, KeyOfTrace
    <3> QED BY <1>1, <3>2, <3>4 DEF SessionInv, InsertInv
  <2> QED BY <2>1, <2>2, <2>3 DEF SessionInv
<1>10. FileInv'
  <2>1. NoOrphanSegment'
    <3>1. Stored' \subseteq Stored \cup {SegOf[t]} BY <1>5 DEF Stored
    <3>2. Recorded' = Recorded \cup {SegOf[t]} BY <1>1 DEF Recorded
    <3> QED BY <3>1, <3>2 DEF FileInv, NoOrphanSegment
  <2>2. ASSUME NEW u \in Traces PROVE TraceInv(u)'
    <3>1. CASE u = t BY <1>1, <1>3, <1>5, <3>1 DEF TraceInv
    <3>2. CASE u # t
      <4>1. SegOf[u] # SegOf[t] /\ SegOf[u] \in Segs BY <1>4, <3>2, KeyOfTrace
      <4>2. TraceInv(u) BY DEF FileInv
      <4> QED BY <1>1, <1>5, <3>2, <4>1, <4>2 DEF TraceInv
    <3> QED BY <3>1, <3>2
  <2>3. ASSUME NEW s \in Segs PROVE SegmentInv(s)'
    <3>1. CASE s = SegOf[t] BY <1>1, <1>3, <1>5, <3>1 DEF SegmentInv
    <3>2. CASE s # SegOf[t]
      <4>1. SegmentInv(s) BY DEF FileInv
      <4> QED BY <1>1, <1>5, <3>2, <4>1 DEF SegmentInv
    <3> QED BY <3>1, <3>2
  <2>4. \A c \in Collectors : CollectInv(c)' BY <1>1 DEF FileInv, CollectInv
  <2> QED BY <2>1, <2>2, <2>3, <2>4 DEF FileInv
<1> QED BY <1>6, <1>7, <1>8, <1>9, <1>10

(* insert_trace is rolled back; a file it wrote stays. *)
LEMMA InsertAbortInv ==
  ASSUME IInv, NEW t \in Traces, InsertAbort(t) PROVE IInv'
<1> USE DEF IInv
<1>1. /\ ipc[t] # "idle" /\ ipc' = [ipc EXCEPT ![t] = "idle"]
      /\ iback' = [iback EXCEPT ![t] = "none"] /\ tsess' = [tsess EXCEPT ![t] = 0]
      /\ UNCHANGED <<rows, ever, named, backend, session, rollup, queue, files>>
      /\ UNCHANGED <<unsynced, revived, prune, collect, removed, spc, empties>>
      /\ DOMAIN work' = DOMAIN work /\ faults' \in 0 .. MaxFaults
  BY StoreAssumption DEF InsertAbort, InsertOnly, cvars, svars, Fault, TypeInv
<1>2. /\ ipc' \in [Traces -> InsertSteps] /\ ipc'[t] = "idle"
      /\ iback' \in [Traces -> Backends] /\ tsess' \in [Traces -> Traces \cup {0}]
      /\ \A u \in Traces : u # t => /\ ipc'[u] = ipc[u] /\ iback'[u] = iback[u]
                                    /\ tsess'[u] = tsess[u]
  BY <1>1 DEF TypeInv, InsertSteps, Backends
<1>3. t \notin rows BY <1>1 DEF SessionInv, InsertInv, TypeInv
<1>4. TypeInv' BY <1>1, <1>2 DEF TypeInv
<1>5. RetentionInv' BY <1>1, RetentionFrame
<1>6. RollupInv' BY InsertAbortCount
<1>7. SessionInv'
  <2>1. SessionLockInv' BY <1>1, <1>2 DEF SessionInv, SessionLockInv
  <2>2. SessionsExist'
    <3>1. \A u \in rows : u # t /\ u \in Traces BY <1>3 DEF TypeInv
    <3> QED BY <1>1, <1>2, <3>1 DEF SessionInv, SessionsExist
  <2>3. \A u \in Traces : InsertInv(u)' BY <1>1, <1>2 DEF SessionInv, InsertInv
  <2> QED BY <2>1, <2>2, <2>3 DEF SessionInv
<1>8. FileInv'
  <2>1. NoOrphanSegment' BY <1>1 DEF FileInv, NoOrphanSegment, Stored, Recorded
  <2>2. ASSUME NEW u \in Traces PROVE TraceInv(u)'
    <3>1. TraceInv(u) BY DEF FileInv
    <3> QED BY <1>1, <1>2, <3>1 DEF TraceInv
  <2>3. \A s \in Segs : SegmentInv(s)' BY <1>1 DEF FileInv, SegmentInv
  <2>4. \A c \in Collectors : CollectInv(c)' BY <1>1 DEF FileInv, CollectInv
  <2> QED BY <2>1, <2>2, <2>3, <2>4 DEF FileInv
<1> QED BY <1>4, <1>5, <1>6, <1>7, <1>8

(* Before it commits, a retention transaction changes only itself and the  *)
(* rollup rows it has locked.                                              *)
LEMMA PruneInv ==
  ASSUME IInv, prune' \in [Pruners -> Txns], RetentionInv', RollupInv',
         PruneOnly, UNCHANGED <<rows, tsess, backend, rollup, queue>>,
         DOMAIN work' = Buckets, faults' \in 0 .. MaxFaults
  PROVE  IInv'
<1> USE DEF IInv
<1>1. /\ UNCHANGED <<rows, tsess, backend, rollup, queue, files, unsynced, revived, ipc, iback>>
      /\ UNCHANGED <<collect, removed, spc, empties, ever, named, session>>
  BY DEF PruneOnly, fvars, ivars, cvars, svars
<1>2. TypeInv' BY <1>1 DEF TypeInv
<1>3. SessionInv' BY <1>1 DEF SessionInv, SessionLockInv, SessionsExist, InsertInv
<1>4. FileInv'
  <2>1. NoOrphanSegment' BY <1>1 DEF FileInv, NoOrphanSegment, Stored, Recorded
  <2>2. \A u \in Traces : TraceInv(u)' BY <1>1 DEF FileInv, TraceInv
  <2>3. \A s \in Segs : SegmentInv(s)' BY <1>1 DEF FileInv, SegmentInv
  <2>4. \A c \in Collectors : CollectInv(c)' BY <1>1 DEF FileInv, CollectInv
  <2> QED BY <2>1, <2>2, <2>3, <2>4 DEF FileInv
<1> QED BY <1>2, <1>3, <1>4

(* It deletes traces and starts triggers: nothing is subtracted yet. *)
LEMMA DeletingInv ==
  ASSUME IInv, prune' \in [Pruners -> Txns], RetentionInv',
         \A q \in Pruners : prune'[q].done = prune[q].done,
         PruneOnly, UNCHANGED <<rows, tsess, backend, rollup, queue, work, faults>>
  PROVE  IInv'
<1>1. Added' = Added BY DEF Added, PruneOnly, ivars
<1>2. RollupInv' BY <1>1, SubtractingFrame, RollupFrame DEF IInv
<1>3. DOMAIN work' = Buckets /\ faults' \in 0 .. MaxFaults BY DEF IInv, TypeInv
<1> QED BY <1>2, <1>3, PruneInv

(* Rotation measures the archive. *)
LEMMA RotateBeginInv ==
  ASSUME IInv, NEW p \in Pruners, RotateBegin(p) PROVE IInv'
<1>1. PruneOnly /\ UNCHANGED <<rows, tsess, backend, rollup, queue, work, faults>> BY DEF RotateBegin
<1> QED BY <1>1, RotateBeginTxn, DeletingInv DEF IInv

(* Rotation takes the oldest traces. *)
LEMMA RotateSelectInv ==
  ASSUME IInv, NEW p \in Pruners, RotateSelect(p) PROVE IInv'
<1>1. PruneOnly /\ UNCHANGED <<rows, tsess, backend, rollup, queue, work, faults>> BY DEF RotateSelect
<1> QED BY <1>1, RotateSelectTxn, DeletingInv DEF IInv

(* Retention deletes by age. *)
LEMMA AgeDeleteInv ==
  ASSUME IInv, NEW p \in Pruners, AgeDelete(p) PROVE IInv'
<1>1. PruneOnly /\ UNCHANGED <<rows, tsess, backend, rollup, queue, work, faults>> BY DEF AgeDelete
<1> QED BY <1>1, AgeDeleteTxn, DeletingInv DEF IInv

(* Rotation deletes the next trace. *)
LEMMA RotateDeleteInv ==
  ASSUME IInv, NEW p \in Pruners, RotateDelete(p) PROVE IInv'
<1>1. PruneOnly /\ UNCHANGED <<rows, tsess, backend, rollup, queue, work, faults>> BY DEF RotateDelete
<1> QED BY <1>1, RotateDeleteTxn, DeletingInv DEF IInv

(* The trigger of a deleted trace waits for its bucket. *)
LEMMA TriggerStartInv ==
  ASSUME IInv, NEW p \in Pruners, TriggerStart(p) PROVE IInv'
<1>1. PruneOnly /\ UNCHANGED <<rows, tsess, backend, rollup, queue, work, faults>> BY DEF TriggerStart
<1> QED BY <1>1, TriggerStartTxn, DeletingInv DEF IInv

(* The trigger subtracts its trace. *)
LEMMA TriggerDoneInv ==
  ASSUME IInv, NEW p \in Pruners, TriggerDone(p) PROVE IInv'
<1>1. PruneOnly /\ UNCHANGED <<rows, tsess, backend, rollup, queue, faults>> /\ DOMAIN work' = DOMAIN work
  BY DEF TriggerDone
<1>2. prune' \in [Pruners -> Txns] /\ RetentionInv' BY TriggerDoneTxn DEF IInv
<1>3. DOMAIN work' = Buckets /\ faults' \in 0 .. MaxFaults BY <1>1 DEF IInv, TypeInv
<1> QED BY <1>1, <1>2, <1>3, TriggerDoneCount, PruneInv

(* Retention is rolled back. *)
LEMMA PruneAbortInv ==
  ASSUME IInv, NEW p \in Pruners, PruneAbort(p) PROVE IInv'
<1>1. PruneOnly /\ UNCHANGED <<rows, tsess, backend, rollup, queue>> /\ DOMAIN work' = Buckets
  BY DEF PruneAbort
<1>2. prune' \in [Pruners -> Txns] /\ RetentionInv' BY PruneAbortTxn DEF IInv
<1>3. faults' \in 0 .. MaxFaults BY StoreAssumption DEF PruneAbort, Fault, IInv, TypeInv
<1> QED BY <1>1, <1>2, <1>3, PruneAbortCount, PruneInv

(* The commit takes away the deleted traces and the segments that lost     *)
(* their last one, and queues the files of those.                          *)
LEMMA PruneCommitInv ==
  ASSUME IInv, NEW p \in Pruners, PruneCommit(p) PROVE IInv'
<1> USE DEF IInv
<1>1. PICK x \in Txns : x = prune[p] BY DEF TypeInv
<1>2. /\ rows' = rows \ x.gone
      /\ tsess' = [t \in Traces |-> IF t \in x.gone THEN 0 ELSE tsess[t]]
      /\ backend' = [s \in Segs |-> IF s \in x.segs THEN "none" ELSE backend[s]]
      /\ queue' = queue \cup {s \in x.segs : backend[s] = "filesystem"}
      /\ DOMAIN rollup' = Buckets
      /\ UNCHANGED <<files, unsynced, revived, ipc, iback, collect, removed, spc, empties>>
      /\ UNCHANGED <<ever, named, session, work, faults>>
  BY <1>1 DEF PruneCommit, PruneOnly, fvars, ivars, cvars, svars
<1>3. prune' \in [Pruners -> Txns] /\ RetentionInv' BY PruneCommitTxn
<1>4. RollupInv' BY PruneCommitCount
<1>5. /\ x.gone \subseteq rows /\ x.segs \subseteq Unreferenced(x.gone)
      /\ \A t \in x.gone : SegOf[t] \in Unreferenced(x.gone) => SegOf[t] \in x.segs
  BY <1>1 DEF RetentionInv, TxnInv, Releases
<1>6. x.segs \subseteq Stored /\ x.segs \subseteq Segs /\ \A t \in rows' : SegOf[t] \notin x.segs
  BY <1>2, <1>5 DEF Unreferenced, Stored
<1>7. /\ tsess' \in [Traces -> Traces \cup {0}]
      /\ \A t \in Traces \ x.gone : tsess'[t] = tsess[t]
      /\ backend' \in [Segs -> Backends]
      /\ \A s \in x.segs : backend'[s] = "none"
      /\ \A s \in Segs \ x.segs : backend'[s] = backend[s]
  BY <1>2, <1>6 DEF TypeInv, Backends
<1>8. TypeInv' BY <1>2, <1>3, <1>6, <1>7 DEF TypeInv
<1>9. SessionInv'
  <2>1. SessionLockInv' BY <1>2 DEF SessionInv, SessionLockInv
  <2>2. SessionsExist' BY <1>2, <1>7 DEF SessionInv, SessionsExist, TypeInv
  <2>3. ASSUME NEW u \in Traces PROVE InsertInv(u)'
    <3>1. u \notin ever => tsess'[u] = tsess[u] BY <1>5, <1>7 DEF TypeInv
    <3>2. InsertInv(u) BY DEF SessionInv
    <3> QED BY <1>2, <3>1, <3>2 DEF InsertInv
  <2> QED BY <2>1, <2>2, <2>3 DEF SessionInv
<1>10. FileInv'
  <2>1. NoOrphanSegment'
    <3>1. ASSUME NEW s \in Segs, backend'[s] # "none", s \notin Unindexed
          PROVE  \E t \in rows' : SegOf[t] = s
      <4>1. s \notin x.segs /\ s \in Stored BY <1>7, <3>1 DEF Stored
      <4>2. PICK t \in rows : SegOf[t] = s BY <3>1, <4>1 DEF FileInv, NoOrphanSegment, Recorded
      <4>3. CASE t \notin x.gone BY <1>2, <4>2, <4>3
      <4>4. CASE t \in x.gone
        <5>1. s \notin Unreferenced(x.gone) BY <1>5, <4>1, <4>2, <4>4
        <5> QED BY <1>2, <4>1, <5>1 DEF Unreferenced
      <4> QED BY <4>3, <4>4
    <3> QED BY <3>1 DEF NoOrphanSegment, Stored, Recorded
  <2>2. ASSUME NEW u \in Traces PROVE TraceInv(u)'
    <3>1. TraceInv(u) /\ SegOf[u] \in Segs BY KeyOfTrace DEF FileInv
    <3>2. u \in rows' => SegOf[u] \notin x.segs BY <1>6
    <3>3. backend'[SegOf[u]] \in {"none", backend[SegOf[u]]} BY <1>7, <3>1
    <3> QED BY <1>2, <1>7, <3>1, <3>2, <3>3 DEF TraceInv
  <2>3. ASSUME NEW s \in Segs PROVE SegmentInv(s)'
    <3>1. SegmentInv(s) BY DEF FileInv
    <3>2. CASE s \in x.segs
      <4>1. backend[s] \in {"filesystem", "postgres"} BY <1>6, <3>2 DEF Stored, TypeInv, Backends
      <4>2. backend'[s] = "none" /\ (s \in queue' <=> s \in queue \/ backend[s] = "filesystem")
        BY <1>2, <1>7, <3>2
      <4> QED BY <1>2, <3>1, <4>1, <4>2 DEF SegmentInv
    <3>3. CASE s \notin x.segs
      <4>1. backend'[s] = backend[s] /\ (s \in queue' <=> s \in queue) BY <1>2, <1>7, <3>3
      <4> QED BY <1>2, <3>1, <4>1 DEF SegmentInv
    <3> QED BY <3>2, <3>3
  <2>4. \A c \in Collectors : CollectInv(c)' BY <1>2 DEF FileInv, CollectInv
  <2> QED BY <2>1, <2>2, <2>3, <2>4 DEF FileInv
<1> QED BY <1>3, <1>4, <1>8, <1>9, <1>10

(* A file collector changes neither traces nor segments. *)
LEMMA CollectorInv ==
  ASSUME IInv, CollectOnly, TypeInv', files' \subseteq files,
         \A t \in Traces : ipc[t] \in {"rollup", "commit"} => SegOf[t] \notin files \ files',
         \A s \in Segs : SegmentInv(s)', \A c \in Collectors : CollectInv(c)'
  PROVE  IInv'
<1> USE DEF IInv
<1>1. /\ UNCHANGED <<rows, ever, named, backend, session, tsess, rollup, work>>
      /\ UNCHANGED <<ipc, iback, prune, spc, empties>>
  BY DEF CollectOnly, ivars, svars
<1>2. RetentionInv' BY <1>1, RetentionFrame
<1>3. RollupInv'
  <2>1. Added' = Added /\ Subtracting' = Subtracting BY <1>1 DEF Added, Subtracting
  <2> QED BY <1>1, <2>1, RollupFrame
<1>4. SessionInv' BY <1>1 DEF SessionInv, SessionLockInv, SessionsExist, InsertInv
<1>5. NoOrphanSegment' BY <1>1 DEF FileInv, NoOrphanSegment, Stored, Recorded
<1>6. ASSUME NEW t \in Traces PROVE TraceInv(t)'
  <2>1. TraceInv(t) BY DEF FileInv
  <2> QED BY <1>1, <2>1 DEF TraceInv
<1> QED BY <1>2, <1>3, <1>4, <1>5, <1>6 DEF FileInv

(* A collector takes a queued file. *)
LEMMA CollectPickInv ==
  ASSUME IInv, NEW c \in Collectors, CollectPick(c) PROVE IInv'
<1> USE DEF IInv
<1>1. PICK s \in queue : s \notin Range(collect) /\ collect' = [collect EXCEPT ![c] = s]
  BY DEF CollectPick
<1>2. CollectOnly /\ UNCHANGED <<queue, files, unsynced, revived, removed, faults>> /\ collect[c] = 0
  BY DEF CollectPick, fvars
<1>3. s \in Segs /\ s # 0 /\ \A d \in Collectors : collect[d] # s
  BY <1>1, StoreAssumption DEF TypeInv, Range
<1>4. /\ collect' \in [Collectors -> Segs \cup {0}] /\ collect'[c] = s
      /\ \A d \in Collectors : d # c => collect'[d] = collect[d]
  BY <1>1, <1>3 DEF TypeInv
<1>5. TypeInv' BY <1>2, <1>4 DEF TypeInv, CollectOnly, ivars, svars
<1>6. \A z \in Segs : SegmentInv(z)' BY <1>2 DEF FileInv, SegmentInv, CollectOnly
<1>7. ASSUME NEW d \in Collectors PROVE CollectInv(d)'
  <2>1. CollectInv(d) /\ CollectInv(c) BY DEF FileInv
  <2>2. CASE d = c BY <1>1, <1>2, <1>3, <1>4, <2>1, <2>2 DEF CollectInv
  <2>3. CASE d # c BY <1>1, <1>2, <1>3, <1>4, <2>1, <2>3 DEF CollectInv
  <2> QED BY <2>2, <2>3
<1> QED BY <1>2, <1>5, <1>6, <1>7, CollectorInv

(* Only a file without an index row is removed: not one an insert wrote. *)
LEMMA CollectRemoveInv ==
  ASSUME IInv, NEW c \in Collectors, CollectRemove(c) PROVE IInv'
<1> USE DEF IInv
<1>1. PICK s : s = collect[c] OBVIOUS
<1>2. /\ CollectOnly /\ UNCHANGED <<queue, revived, collect, faults>>
      /\ s # 0 /\ c \notin removed /\ files' = files \ {s}
      /\ unsynced' = unsynced \cup (files \cap {s}) /\ removed' = removed \cup {c}
  BY <1>1 DEF CollectRemove
<1>3. s \in queue /\ s \in Segs /\ backend[s] = "none" /\ s \in named
  BY <1>1, <1>2 DEF FileInv, CollectInv, SegmentInv, TypeInv
<1>4. TypeInv' BY <1>2, <1>3 DEF TypeInv, CollectOnly, ivars, svars
<1>5. \A t \in Traces : ipc[t] \in {"rollup", "commit"} => SegOf[t] # s
  BY <1>3 DEF SessionInv, InsertInv, FileInv, TraceInv
<1>6. ASSUME NEW z \in Segs PROVE SegmentInv(z)'
  <2>1. SegmentInv(z) BY DEF FileInv
  <2>2. backend' = backend /\ named' = named BY <1>2 DEF CollectOnly
  <2> QED BY <1>2, <1>3, <2>1, <2>2 DEF SegmentInv
<1>7. ASSUME NEW d \in Collectors PROVE CollectInv(d)'
  <2>1. CollectInv(d) /\ CollectInv(c) BY DEF FileInv
  <2> QED BY <1>1, <1>2, <1>3, <2>1 DEF CollectInv
<1> QED BY <1>2, <1>4, <1>5, <1>6, <1>7, CollectorInv

(* A collector takes the removed file off the queue. *)
LEMMA CollectCommitInv ==
  ASSUME IInv, NEW c \in Collectors, CollectCommit(c) PROVE IInv'
<1> USE DEF IInv
<1>1. PICK s : s = collect[c] OBVIOUS
<1>2. /\ CollectOnly /\ UNCHANGED <<files, unsynced, revived, faults>> /\ c \in removed
      /\ queue' = queue \ {s} /\ collect' = [collect EXCEPT ![c] = 0] /\ removed' = removed \ {c}
  BY <1>1 DEF CollectCommit, fvars
<1>3. s \in queue /\ s \in Segs /\ s # 0 /\ s \notin files
  BY <1>1, <1>2 DEF FileInv, CollectInv, TypeInv
<1>4. /\ collect' \in [Collectors -> Segs \cup {0}] /\ collect'[c] = 0
      /\ \A d \in Collectors : d # c => collect'[d] = collect[d]
  BY <1>2 DEF TypeInv
<1>5. TypeInv' BY <1>2, <1>4 DEF TypeInv, CollectOnly, ivars, svars
<1>6. ASSUME NEW z \in Segs PROVE SegmentInv(z)'
  <2>1. SegmentInv(z) BY DEF FileInv
  <2>2. backend' = backend /\ named' = named BY <1>2 DEF CollectOnly
  <2> QED BY <1>2, <1>3, <2>1, <2>2 DEF SegmentInv
<1>7. ASSUME NEW d \in Collectors PROVE CollectInv(d)'
  <2>1. CollectInv(d) /\ CollectInv(c) BY DEF FileInv
  <2> QED BY <1>1, <1>2, <1>3, <1>4, <2>1 DEF CollectInv
<1> QED BY <1>2, <1>5, <1>6, <1>7, CollectorInv

(* A collector gives up its file, which stays queued. *)
LEMMA CollectFailInv ==
  ASSUME IInv, NEW c \in Collectors, CollectFail(c) PROVE IInv'
<1> USE DEF IInv
<1>1. /\ CollectOnly /\ UNCHANGED <<queue, files, unsynced, revived>>
      /\ collect' = [collect EXCEPT ![c] = 0] /\ removed' = removed \ {c}
      /\ faults' \in 0 .. MaxFaults
  BY StoreAssumption DEF CollectFail, fvars, Fault, TypeInv
<1>2. /\ collect' \in [Collectors -> Segs \cup {0}] /\ collect'[c] = 0
      /\ \A d \in Collectors : d # c => collect'[d] = collect[d]
  BY <1>1 DEF TypeInv
<1>3. TypeInv' BY <1>1, <1>2 DEF TypeInv, CollectOnly, ivars, svars
<1>4. \A z \in Segs : SegmentInv(z)' BY <1>1 DEF FileInv, SegmentInv, CollectOnly
<1>5. ASSUME NEW d \in Collectors PROVE CollectInv(d)'
  <2>1. CollectInv(d) /\ CollectInv(c) BY DEF FileInv
  <2> QED BY <1>1, <1>2, <2>1 DEF CollectInv
<1> QED BY <1>1, <1>3, <1>4, <1>5, CollectorInv

(* The removals reach the disk. *)
LEMMA FlushUnlinksInv ==
  ASSUME IInv, FlushUnlinks PROVE IInv'
<1> USE DEF IInv
<1>1. /\ unsynced' = {} /\ UNCHANGED <<rows, ever, named, backend, session, tsess, rollup, queue, work>>
      /\ UNCHANGED <<files, revived, ipc, iback, prune, collect, removed, spc, empties, faults>>
  BY DEF FlushUnlinks, dbvars, ivars, cvars, svars
<1>2. CollectOnly BY <1>1 DEF CollectOnly, ivars, svars
<1>3. TypeInv' BY <1>1 DEF TypeInv
<1>4. \A z \in Segs : SegmentInv(z)' BY <1>1 DEF FileInv, SegmentInv
<1>5. \A d \in Collectors : CollectInv(d)' BY <1>1 DEF FileInv, CollectInv
<1> QED BY <1>1, <1>2, <1>3, <1>4, <1>5, CollectorInv

(* A power loss takes every transaction with it; the files that it brings  *)
(* back are recorded as such.                                              *)
LEMMA PowerLossInv ==
  ASSUME IInv, PowerLoss PROVE IInv'
<1> USE DEF IInv
<1>1. PICK back \in SUBSET unsynced : files' = files \cup back /\ revived' = revived \cup back
  BY DEF PowerLoss
<1>2. /\ unsynced' = {} /\ work' = rollup
      /\ ipc' = [t \in Traces |-> "idle"] /\ iback' = [t \in Traces |-> "none"]
      /\ tsess' = [t \in Traces |-> IF t \in rows THEN tsess[t] ELSE 0]
      /\ prune' = [p \in Pruners |-> Idle]
      /\ collect' = [c \in Collectors |-> 0] /\ removed' = {}
      /\ spc' = "idle" /\ empties' = {} /\ faults' \in 0 .. MaxFaults
      /\ UNCHANGED <<rows, ever, named, backend, session, rollup, queue>>
  BY StoreAssumption DEF PowerLoss, Fault, TypeInv
<1>3. TypeInv'
  <2>1. ipc' \in [Traces -> InsertSteps] /\ iback' \in [Traces -> Backends]
    BY <1>2 DEF InsertSteps, Backends
  <2>2. tsess' \in [Traces -> Traces \cup {0}] BY <1>2 DEF TypeInv
  <2>3. prune' \in [Pruners -> Txns] BY <1>2, IdleTxn
  <2>4. collect' \in [Collectors -> Segs \cup {0}] BY <1>2
  <2>5. files' \subseteq Segs /\ revived' \subseteq Segs BY <1>1 DEF TypeInv
  <2> QED BY <1>2, <2>1, <2>2, <2>3, <2>4, <2>5 DEF TypeInv
<1>4. RetentionInv'
  <2>1. prune' \in [Pruners -> {Idle}] BY <1>2
  <2> QED BY <2>1, AllIdle
<1>5. RollupInv' BY PowerLossCount
<1>6. SessionInv'
  <2>1. SessionLockInv' BY <1>2 DEF SessionLockInv
  <2>2. SessionsExist' BY <1>2 DEF SessionInv, SessionsExist, TypeInv
  <2>3. \A u \in Traces : InsertInv(u)' BY <1>2 DEF InsertInv
  <2> QED BY <2>1, <2>2, <2>3 DEF SessionInv
<1>7. FileInv'
  <2>1. NoOrphanSegment' BY <1>2 DEF FileInv, NoOrphanSegment, Stored, Recorded
  <2>2. \A u \in Traces : TraceInv(u)' BY <1>2 DEF FileInv, TraceInv
  <2>3. \A s \in Segs : SegmentInv(s)' BY <1>1, <1>2 DEF FileInv, SegmentInv
  <2>4. \A c \in Collectors : CollectInv(c)' BY <1>2 DEF CollectInv
  <2> QED BY <2>1, <2>2, <2>3, <2>4 DEF FileInv
<1> QED BY <1>3, <1>4, <1>5, <1>6, <1>7

(* Session cleanup changes sessions only. *)
LEMMA CleanerInv ==
  ASSUME IInv, CleanOnly, UNCHANGED faults, session' \in [Keys -> Traces \cup {0}],
         spc' \in {"idle", "lock", "delete"}, empties' \subseteq Keys, SessionInv'
  PROVE  IInv'
<1> USE DEF IInv
<1>1. /\ UNCHANGED <<rows, ever, named, backend, tsess, rollup, queue, work, faults>>
      /\ UNCHANGED <<files, unsynced, revived, ipc, iback, prune, collect, removed>>
  BY DEF CleanOnly, fvars, ivars, cvars
<1>2. TypeInv' BY <1>1 DEF TypeInv
<1>3. RetentionInv' BY <1>1, RetentionFrame
<1>4. RollupInv'
  <2>1. Added' = Added /\ Subtracting' = Subtracting BY <1>1 DEF Added, Subtracting
  <2> QED BY <1>1, <2>1, RollupFrame
<1>5. FileInv'
  <2>1. NoOrphanSegment' BY <1>1 DEF FileInv, NoOrphanSegment, Stored, Recorded
  <2>2. \A u \in Traces : TraceInv(u)' BY <1>1 DEF FileInv, TraceInv
  <2>3. \A s \in Segs : SegmentInv(s)' BY <1>1 DEF FileInv, SegmentInv
  <2>4. \A c \in Collectors : CollectInv(c)' BY <1>1 DEF FileInv, CollectInv
  <2> QED BY <2>1, <2>2, <2>3, <2>4 DEF FileInv
<1> QED BY <1>2, <1>3, <1>4, <1>5

(* The cleanup selects sessions without traces. *)
LEMMA SessionsSelectInv ==
  ASSUME IInv, SessionsSelect PROVE IInv'
<1> USE DEF IInv
<1>1. /\ CleanOnly /\ UNCHANGED <<session, faults>> /\ spc' = "lock"
      /\ empties' = {k \in Keys : session[k] # 0 /\ ~HasTrace(k)}
  BY DEF SessionsSelect
<1>2. UNCHANGED <<rows, ever, tsess, ipc>> BY <1>1 DEF CleanOnly, ivars
<1>3. SessionInv' BY <1>1, <1>2 DEF SessionInv, SessionLockInv, SessionsExist, InsertInv
<1>4. session' \in [Keys -> Traces \cup {0}] /\ empties' \subseteq Keys BY <1>1 DEF TypeInv
<1> QED BY <1>1, <1>3, <1>4, CleanerInv

(* The cleanup locks those whose row nobody holds. *)
LEMMA SessionsLockInv ==
  ASSUME IInv, SessionsLock PROVE IInv'
<1> USE DEF IInv
<1>1. /\ CleanOnly /\ UNCHANGED <<session, faults>> /\ spc' = "delete"
      /\ empties' = {k \in empties : session[k] # 0 /\ ~SessionLocked(k)}
  BY DEF SessionsLock
<1>2. UNCHANGED <<rows, ever, tsess, ipc>> BY <1>1 DEF CleanOnly, ivars
<1>3. SessionLockInv' BY <1>1, <1>2 DEF SessionInv, SessionLockInv, SessionLocked
<1>4. SessionInv' BY <1>1, <1>2, <1>3 DEF SessionInv, SessionsExist, InsertInv
<1>5. session' \in [Keys -> Traces \cup {0}] /\ empties' \subseteq Keys BY <1>1 DEF TypeInv
<1> QED BY <1>1, <1>4, <1>5, CleanerInv

(* The second look sees every trace that was committed before the row was  *)
(* locked, and none is committed while it is.                              *)
LEMMA SessionsDeleteInv ==
  ASSUME IInv, SessionsDelete PROVE IInv'
<1> USE DEF IInv
<1>1. /\ CleanOnly /\ UNCHANGED faults /\ spc = "delete" /\ spc' = "idle" /\ empties' = {}
      /\ session' = [k \in Keys |-> IF k \in empties /\ ~HasTrace(k) THEN 0 ELSE session[k]]
  BY DEF SessionsDelete
<1>2. UNCHANGED <<rows, ever, tsess, ipc>> BY <1>1 DEF CleanOnly, ivars
<1>3. session' \in [Keys -> Traces \cup {0}] BY <1>1 DEF TypeInv
<1>4. SessionLockInv' BY <1>1, <1>2 DEF SessionInv, SessionLockInv
<1>5. \A t \in rows : session'[KeyOf[t]] = session[KeyOf[t]]
  BY <1>1, KeyOfTrace DEF HasTrace, TypeInv
<1>6. SessionsExist' BY <1>2, <1>5 DEF SessionInv, SessionsExist
<1>7. \A t \in Traces : ipc[t] # "idle" => session'[KeyOf[t]] = session[KeyOf[t]]
  BY <1>1, KeyOfTrace DEF SessionInv, SessionLockInv
<1>8. \A t \in Traces : InsertInv(t)' BY <1>2, <1>7 DEF SessionInv, InsertInv
<1>9. SessionInv' BY <1>4, <1>6, <1>8 DEF SessionInv
<1> QED BY <1>1, <1>3, <1>9, CleanerInv

-----------------------------------------------------------------------------
(* The invariant holds initially and along every step.                     *)

(* The store starts with the traces of an older version. *)
LEMMA InitIInv == Init => IInv
<1> SUFFICES ASSUME Init PROVE IInv OBVIOUS
<1>1. /\ rows = Legacy /\ ever = Legacy /\ work = rollup
      /\ rollup = [b \in Buckets |-> RollupOf(b, Legacy)]
      /\ queue = {} /\ files = Stored /\ named = Stored /\ unsynced = {} /\ revived = {}
      /\ ipc = [t \in Traces |-> "idle"] /\ iback = [t \in Traces |-> "none"]
      /\ prune = [p \in Pruners |-> Idle]
      /\ collect = [c \in Collectors |-> 0] /\ removed = {}
      /\ spc = "idle" /\ empties = {} /\ faults = 0
  BY DEF Init
<1>2. backend = [s \in Segs |-> IF s \in {SegOf[t] : t \in Legacy} \cup Unindexed
                                THEN "filesystem" ELSE "none"]
  BY DEF Init
<1>3. /\ session = [k \in Keys |-> Max({t \in Legacy : KeyOf[t] = k} \cup {0})]
      /\ tsess = [t \in Traces |-> IF t \in Legacy THEN session[KeyOf[t]] ELSE 0]
  BY DEF Init
<1>4. ASSUME NEW k \in Keys
      PROVE  /\ session[k] \in Traces \cup {0}
             /\ \A t \in Legacy : KeyOf[t] = k => session[k] # 0
  <2>1. PICK S : S = {t \in Legacy : KeyOf[t] = k} \cup {0} OBVIOUS
  <2>2. 0 \in S /\ S \subseteq Legacy \cup {0} BY <2>1
  <2>7. S \subseteq Nat /\ S # {} /\ S \subseteq Traces \cup {0} BY <2>2, StoreAssumption
  <2>3. IsFiniteSet(S)
    <3>1. IsFiniteSet({t \in Legacy : KeyOf[t] = k}) BY StoreAssumption, FS_Subset
    <3> QED BY <2>1, <3>1, FS_AddElement
  <2>4. session[k] = Max(S) BY <1>3, <2>1
  <2>5. Max(S) \in S /\ \A y \in S : y <= Max(S) BY <2>7, <2>3, MaxFacts
  <2>6. \A t \in Legacy : t \in Nat /\ t # 0 BY StoreAssumption
  <2> QED BY <2>1, <2>7, <2>4, <2>5, <2>6
<1>5. TypeInv
  <2>1. session \in [Keys -> Traces \cup {0}] BY <1>3, <1>4
  <2>2. tsess \in [Traces -> Traces \cup {0}] BY <1>3, <2>1, KeyOfTrace, StoreAssumption
  <2>3. backend \in [Segs -> Backends] BY <1>2 DEF Backends
  <2>4. ipc \in [Traces -> InsertSteps] /\ iback \in [Traces -> Backends]
    BY <1>1 DEF InsertSteps, Backends
  <2>5. prune \in [Pruners -> Txns] BY <1>1, IdleTxn
  <2>6. collect \in [Collectors -> Segs \cup {0}] /\ faults \in 0 .. MaxFaults
    BY <1>1, StoreAssumption
  <2> QED BY <1>1, <2>1, <2>2, <2>3, <2>4, <2>5, <2>6, StoreAssumption, StoredSegs DEF TypeInv
<1>6. RetentionInv BY <1>1, IdleTxn DEF RetentionInv, PrunersInv, Idle
<1>7. RollupInv
  <2>1. Idle.done = {} BY DEF Idle
  <2>2. Added = {} /\ Subtracting = {} BY <1>1, <2>1 DEF Added, Subtracting
  <2>3. ASSUME NEW b \in Buckets PROVE CountInv(b)
    <3>1. rollup[b].total = Cardinality(InMinute(b, Legacy)) BY <1>1 DEF RollupOf, InMinute
    <3>2. (rows \cup Added) \ Subtracting = Legacy BY <1>1, <2>2
    <3> QED BY <1>1, <3>1, <3>2 DEF CountInv
  <2> QED BY <2>2, <2>3 DEF RollupInv, WriterInv
<1>8. SessionInv
  <2>1. SessionLockInv BY <1>1 DEF SessionLockInv
  <2>2. SessionsExist BY <1>1, <1>3, <1>4, KeyOfTrace, StoreAssumption DEF SessionsExist
  <2>3. \A t \in Traces : InsertInv(t) BY <1>1 DEF InsertInv
  <2> QED BY <2>1, <2>2, <2>3 DEF SessionInv
<1>9. FileInv
  <2>1. NoOrphanSegment BY <1>1, <1>2 DEF NoOrphanSegment, Stored, Recorded
  <2>2. ASSUME NEW t \in Traces PROVE TraceInv(t)
    <3>1. SegOf[t] \in Segs /\ SegOf[t] \notin Unindexed
      BY KeyOfTrace, StoreAssumption DEF Range
    <3>2. t \notin Legacy => \A u \in Legacy : SegOf[u] # SegOf[t] BY StoreAssumption
    <3> QED BY <1>1, <1>2, <3>1, <3>2 DEF TraceInv, Stored
  <2>3. \A s \in Segs : SegmentInv(s) BY <1>1, <1>2 DEF SegmentInv, Stored
  <2>4. \A c \in Collectors : CollectInv(c) BY <1>1 DEF CollectInv
  <2> QED BY <2>1, <2>2, <2>3, <2>4 DEF FileInv
<1> QED BY <1>5, <1>6, <1>7, <1>8, <1>9 DEF IInv

(* The invariant speaks of the state only. *)
LEMMA StutterIInv == IInv /\ UNCHANGED vars => IInv'
<1> SUFFICES ASSUME IInv, UNCHANGED vars PROVE IInv' OBVIOUS
<1>1. CollectOnly /\ UNCHANGED <<queue, files, unsynced, revived, collect, removed, faults>>
  BY DEF vars, dbvars, fvars, ivars, cvars, svars, CollectOnly
<1>2. TypeInv' BY <1>1 DEF IInv, TypeInv, CollectOnly, ivars, svars
<1>3. \A s \in Segs : SegmentInv(s)' BY <1>1 DEF IInv, FileInv, SegmentInv, CollectOnly
<1>4. \A c \in Collectors : CollectInv(c)' BY <1>1 DEF IInv, FileInv, CollectInv
<1> QED BY <1>1, <1>2, <1>3, <1>4, CollectorInv

(* Every step of the store keeps the invariant. *)
LEMMA NextIInv == IInv /\ Next => IInv'
<1> SUFFICES ASSUME IInv, Next PROVE IInv' OBVIOUS
<1>1. ASSUME NEW t \in Traces, InsertBegin(t) \/ InsertStep(t) \/ InsertAbort(t) PROVE IInv'
  BY <1>1, InsertBeginInv, InsertBodiesInv, InsertRollupInv, InsertCommitInv, InsertAbortInv DEF InsertStep
<1>2. ASSUME NEW p \in Pruners, RotateBegin(p) \/ AgeDelete(p) \/ PruneStep(p) \/ PruneAbort(p) PROVE IInv'
  BY <1>2, RotateBeginInv, RotateSelectInv, AgeDeleteInv, RotateDeleteInv, TriggerStartInv,
     TriggerDoneInv, PruneCommitInv, PruneAbortInv DEF PruneStep
<1>3. ASSUME NEW c \in Collectors, CollectStep(c) \/ CollectFail(c) PROVE IInv'
  BY <1>3, CollectPickInv, CollectRemoveInv, CollectCommitInv, CollectFailInv DEF CollectStep
<1> QED BY <1>1, <1>2, <1>3, FlushUnlinksInv, PowerLossInv, SessionsSelectInv, SessionsLockInv,
           SessionsDeleteInv DEF Next

(* Every state that inserts, retention, file collection, session cleanup   *)
(* and power losses lead to (ingest.rs, retention.rs, rotation.rs) is one  *)
(* of IInv.                                                                *)
THEOREM StoreInvariant == Spec => []IInv
<1>1. IInv /\ [Next]_vars => IInv' BY NextIInv, StutterIInv
<1> QED BY InitIInv, <1>1, PTL DEF Spec

(* Every stored trace can be read (archive.rs, rotation.rs): its segment   *)
(* is indexed, and in the filesystem if the index says so.                 *)
THEOREM BodiesAreReadable == Spec => []BodiesReadable
<1>1. IInv => BodiesReadable
  <2> SUFFICES ASSUME IInv, NEW t \in rows
               PROVE  /\ backend[SegOf[t]] # "none"
                      /\ backend[SegOf[t]] = "filesystem" => SegOf[t] \in files
    BY DEF BodiesReadable
  <2>1. t \in Traces /\ SegOf[t] \in Segs BY KeyOfTrace DEF IInv, TypeInv
  <2> QED BY <2>1 DEF IInv, FileInv, TraceInv, SegmentInv
<1> QED BY <1>1, StoreInvariant, PTL

(* Rollups count the retained traces (ingest.rs, update_rollup; the        *)
(* trigger remove_deleted_trace_from_rollup).                              *)
THEOREM RollupsAreExact == Spec => []RollupExact
<1>1. IInv => RollupExact BY DEF IInv, RollupInv, CountInv, InMinute, RollupExact
<1> QED BY <1>1, StoreInvariant, PTL

(* No dangling reference between traces, sessions and segments             *)
(* (retention.rs, delete_empty_sessions_before; the segment triggers).     *)
THEOREM ReferencesAlwaysHold == Spec => []ReferencesHold
<1>1. ASSUME IInv PROVE ReferencesHold
  <2>1. ASSUME NEW b \in Buckets PROVE rollup[b].total \in Nat /\ work[b].total \in Nat
    <3>1. CountInv(b) BY <1>1 DEF IInv, RollupInv
    <3>2. rows \subseteq Traces /\ (rows \cup Added) \ Subtracting \subseteq Traces
      BY <1>1 DEF IInv, TypeInv, Added
    <3> QED BY <3>1, <3>2, MinuteCount DEF CountInv
  <2>2. ASSUME NEW p \in Pruners
        PROVE  /\ prune[p].kind \in {"idle", "measured", "rotate", "age"}
               /\ prune[p].done \subseteq prune[p].gone /\ prune[p].segs \subseteq Segs
    <3>1. prune[p] \in Txns /\ TxnInv(prune[p]) BY <1>1 DEF IInv, TypeInv, RetentionInv
    <3> QED BY <3>1 DEF Txns, TxnInv, Releases
  <2>3. TypeOK BY <1>1, <2>1, <2>2 DEF IInv, TypeInv, TypeOK
  <2> QED BY <1>1, <2>3 DEF IInv, SessionInv, FileInv, ReferencesHold
<1> QED BY <1>1, StoreInvariant, PTL

(* Rotation (rotation.rs, rotate_batch) evicts no more than the limit on   *)
(* the size of the archive asks for.                                       *)
THEOREM EvictionIsNeeded == Spec => []EvictsOnlyAsNeeded
<1>1. IInv => EvictsOnlyAsNeeded BY DEF IInv, RetentionInv, TxnInv, Needed, EvictsOnlyAsNeeded
<1> QED BY <1>1, StoreInvariant, PTL

(* A file that lost its index row is queued for its removal or gone        *)
(* (rotation.rs, collect_archive_files; the archive_file_deletions queue). *)
THEOREM NoFileIsStranded == Spec => []NoStrandedFile
<1>1. IInv => NoStrandedFile BY DEF IInv, TypeInv, FileInv, SegmentInv, NoStrandedFile
<1> QED BY <1>1, StoreInvariant, PTL

-----------------------------------------------------------------------------
(* What a step leaves alone.                                               *)

(* A stored trace keeps its bodies where they are until it is deleted, and *)
(* a deleted trace does not come back: what a reader that has looked up a  *)
(* trace relies on (storage/bodies.rs).                                    *)
StoreKeeps ==
    /\ ever \subseteq ever' /\ rows' \cap ever \subseteq rows
    /\ \A t \in rows \cap rows' : backend'[SegOf[t]] = backend[SegOf[t]]

(* No step moves the bodies of a stored trace. *)
LEMMA NextKeeps == IInv /\ [Next]_vars => StoreKeeps
<1> SUFFICES ASSUME IInv, [Next]_vars PROVE StoreKeeps OBVIOUS
<1> USE DEF IInv
<1>1. CASE UNCHANGED <<rows, ever, backend>> BY <1>1 DEF StoreKeeps
<1>2. ASSUME NEW t \in Traces, InsertCommit(t) PROVE StoreKeeps
  <2>1. /\ ipc[t] = "commit" /\ rows' = rows \cup {t} /\ ever' = ever \cup {t}
        /\ backend' = [backend EXCEPT ![SegOf[t]] = iback[t]]
    BY <1>2 DEF InsertCommit
  <2>2. t \notin ever BY <2>1 DEF SessionInv, InsertInv
  <2>3. \A u \in rows : SegOf[u] # SegOf[t] /\ SegOf[u] \in Segs
    <3> TAKE u \in rows
    <3>1. u \in Traces /\ u # t BY <2>2 DEF TypeInv
    <3> QED BY <2>2, <3>1, OwnSegment, KeyOfTrace
  <2> QED BY <2>1, <2>2, <2>3 DEF StoreKeeps, TypeInv
<1>3. ASSUME NEW p \in Pruners, PruneCommit(p) PROVE StoreKeeps
  <2>1. PICK x : x = prune[p] /\ x.segs \subseteq Unreferenced(x.gone)
    BY DEF RetentionInv, TxnInv, Releases
  <2>2. /\ rows' = rows \ x.gone /\ ever' = ever
        /\ backend' = [s \in Segs |-> IF s \in x.segs THEN "none" ELSE backend[s]]
    BY <1>3, <2>1 DEF PruneCommit, PruneOnly
  <2>3. \A u \in rows' : SegOf[u] \in Segs /\ SegOf[u] \notin x.segs
    BY <2>1, <2>2, KeyOfTrace DEF Unreferenced, TypeInv
  <2> QED BY <2>2, <2>3 DEF StoreKeeps
<1>4. ASSUME NEW t \in Traces, InsertBegin(t) \/ InsertBodies(t) \/ InsertRollup(t) \/ InsertAbort(t)
      PROVE  UNCHANGED <<rows, ever, backend>>
  BY <1>4 DEF InsertBegin, InsertBodies, InsertRollup, InsertAbort, dbvars
<1>5. ASSUME NEW p \in Pruners, \/ RotateBegin(p) \/ RotateSelect(p) \/ AgeDelete(p) \/ RotateDelete(p)
                                \/ TriggerStart(p) \/ TriggerDone(p) \/ PruneAbort(p)
      PROVE  UNCHANGED <<rows, ever, backend>>
  BY <1>5 DEF RotateBegin, RotateSelect, AgeDelete, RotateDelete, TriggerStart, TriggerDone, PruneAbort, PruneOnly
<1>6. ASSUME NEW c \in Collectors, CollectStep(c) \/ CollectFail(c)
      PROVE  UNCHANGED <<rows, ever, backend>>
  BY <1>6 DEF CollectStep, CollectPick, CollectRemove, CollectCommit, CollectFail, CollectOnly
<1>7. FlushUnlinks \/ PowerLoss => UNCHANGED <<rows, ever, backend>>
  BY DEF FlushUnlinks, PowerLoss, dbvars
<1>8. SessionsSelect \/ SessionsLock \/ SessionsDelete => UNCHANGED <<rows, ever, backend>>
  BY DEF SessionsSelect, SessionsLock, SessionsDelete, CleanOnly
<1>9. UNCHANGED vars => UNCHANGED <<rows, ever, backend>> BY DEF vars, dbvars
<1> QED BY <1>1, <1>2, <1>3, <1>4, <1>5, <1>6, <1>7, <1>8, <1>9 DEF Next, InsertStep, PruneStep

(* No step of inserts, retention or collection moves or drops the bodies   *)
(* of a trace that stays stored, nor brings a deleted one back.            *)
THEOREM StoredTracesKeepBodies == Spec => [][StoreKeeps]_vars
<1>1. IInv /\ [Next]_vars => [StoreKeeps]_vars BY NextKeeps
<1> QED BY <1>1, StoreInvariant, PTL DEF Spec

(* An export only reads: with it the store behaves as without it. *)
THEOREM ExportOnlyReads == ExportSpec => Spec
<1>1. ExportInit => Init BY DEF ExportInit
<1>2. [ExportNext]_<<vars, export>> => [Next]_vars
  BY DEF ExportNext, ExportStep, Prepare, Send, WriteRow, WriteEnd, ExportStops, ClientReads,
         ClientLeaves, ExportOnly
<1> QED BY <1>1, <1>2, PTL DEF ExportSpec, Spec

-----------------------------------------------------------------------------
(* Session export.                                                         *)

Statuses == {"available", "unreadable", "missing"}
BodySets == [Directions -> [status : Statuses, truncated : BOOLEAN]]
Lines == [type : {"session"}, count : Nat] \cup [type : {"error"}]
             \cup [type : {"request"}, id : Traces, bodies : BodySets]
             \cup [type : {"end"}, count : Nat, truncated : Nat, unavailable : Nat, complete : BOOLEAN]

Exports == [pc : {"idle", "send", "row", "done"}, id : Traces \cup {0}, rows : SUBSET Traces,
            backend : {<< >>} \cup [Segs -> Backends], expected : Nat, cursor : Traces \cup {0},
            hand : Seq(Lines), channel : Seq(Lines), client : Seq(Lines),
            requests : Nat, truncated : Nat, unavailable : Nat]

(* The lines written so far. *)
Stream == (export.client \o export.channel) \o export.hand

(* What the snapshot says of a trace that is still stored is still true. *)
SnapshotInv ==
    /\ export.rows \subseteq ever
    /\ \A t \in export.rows \cap rows : export.backend[SegOf[t]] = backend[SegOf[t]]

(* The writer is at the first line, after the line of its cursor, or at    *)
(* the end, and its counts are those of the lines it has written.          *)
WriterAt(L) ==
    LET m == export.requests
    IN  /\ Len(L) \in {m + 1, m + 2} /\ L[1].type = "session"
        /\ \A i \in 2 .. m + 1 : L[i].type = "request"
        /\ Len(L) = m + 2 => L[Len(L)].type = "end" /\ export.pc = "send"
        /\ export.hand = << >> <=> export.pc = "row"
        /\ export.pc = "send" => Len(export.hand) = 1
        /\ export.cursor = 0 => m = 0
        /\ export.cursor # 0 =>
              /\ export.cursor \in export.rows
              /\ m = Cardinality({t \in export.rows : Before(t, export.cursor)}) + 1
        /\ export.expected = Cardinality(export.rows)
        /\ export.truncated = 0 /\ export.unavailable = 0
              <=> \A j \in 2 .. m + 1 : Whole(L[j].bodies)

StreamInv(L) ==
    /\ \A i \in 1 .. Len(L) : FaithfulLine(L, i)
    /\ export.pc \in {"send", "row"} => WriterAt(L)
    /\ export.pc = "idle" => L = << >>

ExportInv ==
    /\ export \in Exports /\ SnapshotInv
    /\ \E L \in Seq(Lines) : L = Stream /\ StreamInv(L)

(* A part of a stream from its beginning. *)
LEMMA FaithfulPrefix ==
  ASSUME NEW L \in Seq(Lines), NEW P \in Seq(Lines), Len(P) <= Len(L),
         \A i \in 1 .. Len(P) : P[i] = L[i], \A i \in 1 .. Len(L) : FaithfulLine(L, i)
  PROVE  \A i \in 1 .. Len(P) : FaithfulLine(P, i)
<1> SUFFICES ASSUME NEW i \in 1 .. Len(P) PROVE FaithfulLine(P, i) OBVIOUS
<1>1. i \in 1 .. Len(L) /\ P[i] = L[i] /\ FaithfulLine(L, i) /\ (i < Len(P) => i < Len(L)) OBVIOUS
<1>2. \A j \in 2 .. i - 1 : P[j] = L[j] OBVIOUS
<1> QED BY <1>1, <1>2 DEF FaithfulLine

(* A line stays right while the store changes. *)
LEMMA LineKept ==
  ASSUME NEW L, NEW i, FaithfulLine(L, i), export'.rows = export.rows,
         rows' \cap export.rows \subseteq rows
  PROVE  FaithfulLine(L, i)'
BY DEF FaithfulLine

(* Three parts of a stream, one after the other. *)
LEMMA StreamFacts ==
  ASSUME NEW c \in Seq(Lines), NEW d \in Seq(Lines), NEW h \in Seq(Lines)
  PROVE  /\ (c \o d) \o h \in Seq(Lines)
         /\ Len((c \o d) \o h) = Len(c) + Len(d) + Len(h)
         /\ \A i \in 1 .. Len(c) : ((c \o d) \o h)[i] = c[i]
         /\ \A i \in 1 .. Len(c) + Len(d) : ((c \o d) \o h)[i] = (c \o d)[i]
         /\ \A i \in 1 .. Len(h) : ((c \o d) \o h)[Len(c) + Len(d) + i] = h[i]
         /\ (c \o d) \o << >> = c \o d /\ (c \o << >>) \o d = c \o d
         /\ c \o (<< >> \o d) = c \o d /\ c \o d \in Seq(Lines) /\ c \o << >> = c
OBVIOUS

(* A line is a stream of one. *)
LEMMA OneLine ==
  ASSUME NEW x \in Lines
  PROVE  <<x>> \in Seq(Lines) /\ Len(<<x>>) = 1 /\ <<x>>[1] = x /\ Head(<<x>>) = x /\ <<x>> # << >>
OBVIOUS

(* Where the lines of the stream are. *)
LEMMA StreamIndex ==
  ASSUME export \in Exports
  PROVE  /\ Stream \in Seq(Lines)
         /\ Len(Stream) = Len(export.client) + Len(export.channel) + Len(export.hand)
         /\ \A i \in 1 .. Len(export.client) : Stream[i] = export.client[i]
         /\ \A i \in 1 .. Len(export.hand) :
               Stream[Len(export.client) + Len(export.channel) + i] = export.hand[i]
<1>1. PICK c \in Seq(Lines), d \in Seq(Lines), h \in Seq(Lines) :
        c = export.client /\ d = export.channel /\ h = export.hand
  BY DEF Exports
<1>2. PICK L : L = (c \o d) \o h OBVIOUS
<1>3. /\ L \in Seq(Lines) /\ Len(L) = Len(c) + Len(d) + Len(h)
      /\ \A i \in 1 .. Len(c) : L[i] = c[i]
      /\ \A i \in 1 .. Len(h) : L[Len(c) + Len(d) + i] = h[i]
  BY <1>2, StreamFacts
<1>4. Stream = L BY <1>1, <1>2 DEF Stream
<1> QED BY <1>1, <1>3, <1>4

(* The client has read a beginning of what was sent. *)
LEMMA ClientIsPrefix ==
  ASSUME export \in Exports, NEW L \in Seq(Lines), L = Stream, NEW c \in Seq(Lines), c = export.client
  PROVE  Len(c) <= Len(L) /\ \A i \in 1 .. Len(c) : c[i] = L[i]
<1>1. PICK d \in Seq(Lines), h \in Seq(Lines) : d = export.channel /\ h = export.hand
  BY DEF Exports
<1>2. Len(L) = Len(c) + Len(d) + Len(h) /\ \A i \in 1 .. Len(c) : L[i] = c[i]
  BY <1>1, StreamIndex
<1>3. Len(L) \in Nat /\ Len(c) \in Nat /\ Len(d) \in Nat /\ Len(h) \in Nat OBVIOUS
<1> QED BY <1>2, <1>3

(* The bodies of a trace that is still stored are read. *)
LEMMA BodiesLoaded ==
  ASSUME IInv, ExportInv, NEW t \in export.rows
  PROVE  /\ LoadTraceBodies(t) \in BodySets
         /\ t \in rows => \A d \in Directions :
               LoadTraceBodies(t)[d].status = "unreadable" => BodyOf[t][d].record = "none"
<1>1. t \in Traces /\ t \in ever /\ SegOf[t] \in Segs
  BY KeyOfTrace DEF ExportInv, SnapshotInv, IInv, TypeInv
<1>2. ASSUME NEW d \in Directions
      PROVE  /\ LoadTraceBodies(t)[d].status \in Statuses /\ LoadTraceBodies(t)[d].truncated \in BOOLEAN
             /\ LoadTraceBodies(t)[d] = [status |-> LoadTraceBodies(t)[d].status,
                                         truncated |-> LoadTraceBodies(t)[d].truncated]
             /\ LoadTraceBodies(t)[d].status = "unreadable" =>
                   BodyOf[t][d].record = "none" \/ ~DecodeSegment(SegOf[t])
  <2>1. PICK b \in Bodies : b = BodyOf[t][d] BY <1>1, ExportAssumption
  <2>2. b.record \in {"none", "complete", "partial"} /\ b.inline \in {"empty", "good", "damaged"}
    BY DEF Bodies
  <2>3. PICK status : status = CASE b.record # "none" -> IF DecodeSegment(SegOf[t]) THEN "available" ELSE "unreadable"
              [] b.record = "none" /\ b.inline = "empty" -> IF b.observed = 0 THEN "available" ELSE "missing"
              [] b.record = "none" /\ b.inline = "good" -> "available"
              [] b.record = "none" /\ b.inline = "damaged" -> "unreadable"
    OBVIOUS
  <2>4. status \in Statuses /\ (status = "unreadable" => b.record = "none" \/ ~DecodeSegment(SegOf[t]))
    BY <2>2, <2>3 DEF Statuses
  <2>5. PICK tr \in BOOLEAN : tr = (b.truncated \/ b.record = "partial") OBVIOUS
  <2>6. LoadTraceBodies(t)[d] = [status |-> status, truncated |-> tr]
    BY <2>1, <2>3, <2>5 DEF LoadTraceBodies, DecodeBody
  <2> QED BY <2>1, <2>4, <2>6
<1>3. LoadTraceBodies(t) \in BodySets
  <2>1. \A d \in Directions : LoadTraceBodies(t)[d] \in [status : Statuses, truncated : BOOLEAN]
    <3> TAKE d \in Directions
    <3>1. PICK st \in Statuses, tr \in BOOLEAN : LoadTraceBodies(t)[d] = [status |-> st, truncated |-> tr]
      BY <1>2
    <3> QED BY <3>1
  <2> QED BY <2>1 DEF BodySets, LoadTraceBodies
<1>4. t \in rows => DecodeSegment(SegOf[t])
  <2> SUFFICES ASSUME t \in rows PROVE DecodeSegment(SegOf[t]) OBVIOUS
  <2>1. export.backend[SegOf[t]] = backend[SegOf[t]] BY DEF ExportInv, SnapshotInv
  <2>2. backend[SegOf[t]] \in {"filesystem", "postgres"}
    BY <1>1 DEF IInv, FileInv, TraceInv, TypeInv, Backends
  <2>3. backend[SegOf[t]] = "filesystem" => SegOf[t] \in files
    BY <1>1 DEF IInv, FileInv, SegmentInv
  <2> QED BY <2>1, <2>2, <2>3 DEF DecodeSegment
<1> QED BY <1>2, <1>3, <1>4

(* The counts of a line are 0 when its bodies are whole. *)
LEMMA WholeCounts ==
  ASSUME NEW bodies \in BodySets
  PROVE  /\ TruncatedBodies(bodies) \in Nat /\ UnavailableBodies(bodies) \in Nat
         /\ (TruncatedBodies(bodies) = 0 /\ UnavailableBodies(bodies) = 0 <=> Whole(bodies))
<1> DEFINE A == {d \in Directions : bodies[d].truncated}
           B == {d \in Directions : bodies[d].status # "available"}
<1>1. IsFiniteSet(Directions)
  <2>1. IsFiniteSet({"request"}) BY FS_Singleton
  <2>2. Directions = {"request"} \cup {"response"} BY DEF Directions
  <2> QED BY <2>1, <2>2, FS_AddElement
<1>2. IsFiniteSet(A) /\ IsFiniteSet(B)
  <2>1. A \subseteq Directions /\ B \subseteq Directions OBVIOUS
  <2> QED BY <1>1, <2>1, FS_Subset
<1>3. /\ Cardinality(A) \in Nat /\ (Cardinality(A) = 0 <=> A = {})
      /\ Cardinality(B) \in Nat /\ (Cardinality(B) = 0 <=> B = {})
  <2> HIDE DEF A, B
  <2> QED BY <1>2, FS_CardinalityType, FS_EmptySet
<1>4. A = {} /\ B = {} <=> Whole(bodies) BY DEF Whole
<1> QED BY <1>3, <1>4 DEF TruncatedBodies, UnavailableBodies

(* The parts of an export that the invariant speaks of. *)
LEMMA ExportFields ==
  ASSUME export \in Exports
  PROVE  /\ export.client \in Seq(Lines) /\ export.channel \in Seq(Lines) /\ export.hand \in Seq(Lines)
         /\ export.requests \in Nat /\ export.truncated \in Nat /\ export.unavailable \in Nat
         /\ export.rows \subseteq Traces /\ export.expected \in Nat /\ IsFiniteSet(export.rows)
BY StoreAssumption, FS_Subset DEF Exports

(* The store takes a step beside the export. *)
LEMMA StoreStepExport ==
  ASSUME IInv, ExportInv, [Next]_vars, UNCHANGED export PROVE ExportInv'
<1>1. StoreKeeps BY NextKeeps
<1>2. SnapshotInv'
  <2>1. \A t \in export.rows : t \in rows' => t \in rows
    BY <1>1 DEF StoreKeeps, ExportInv, SnapshotInv
  <2> QED BY <1>1, <2>1 DEF StoreKeeps, ExportInv, SnapshotInv
<1>3. PICK L \in Seq(Lines) : L = Stream /\ StreamInv(L) BY DEF ExportInv
<1>4. L = Stream' BY <1>3 DEF Stream
<1>5. StreamInv(L)'
  <2>1. \A i \in 1 .. Len(L) : FaithfulLine(L, i)'
    <3>1. rows' \cap export.rows \subseteq rows BY <1>1 DEF StoreKeeps, ExportInv, SnapshotInv
    <3> QED BY <1>3, <3>1, LineKept DEF StreamInv
  <2> QED BY <1>3, <2>1 DEF StreamInv, WriterAt
<1> QED BY <1>2, <1>3, <1>4, <1>5 DEF ExportInv

(* The export begins with the header of the session. *)
LEMMA PrepareInv ==
  ASSUME IInv, ExportInv, NEW k \in Keys, Prepare(k) PROVE ExportInv'
<1>1. PICK mine, id, n, line :
        /\ mine = {t \in rows : tsess[t] = session[k]} /\ id = session[k] /\ n = Cardinality(mine)
        /\ line = [type |-> "session", count |-> n]
        /\ export' = [NoExport EXCEPT !.pc = "send", !.id = id, !.rows = mine,
                          !.backend = backend, !.expected = n, !.hand = <<line>>]
  BY DEF Prepare
<1>2. UNCHANGED <<rows, ever, backend>> BY DEF Prepare, ExportOnly, vars, dbvars
<1>3. mine \subseteq rows /\ mine \subseteq ever /\ mine \subseteq Traces /\ IsFiniteSet(mine)
  <2>1. mine \subseteq rows /\ mine \subseteq ever /\ mine \subseteq Traces BY <1>1 DEF IInv, TypeInv
  <2> QED BY <2>1, FS_Subset, StoreAssumption
<1>4. n \in Nat /\ id \in Traces \cup {0} /\ line \in Lines /\ backend \in [Segs -> Backends]
  BY <1>1, <1>3, FS_CardinalityType DEF IInv, TypeInv, Lines
<1>5. export' = [pc |-> "send", id |-> id, rows |-> mine, backend |-> backend, expected |-> n, cursor |-> 0,
                 hand |-> <<line>>, channel |-> << >>, client |-> << >>,
                 requests |-> 0, truncated |-> 0, unavailable |-> 0]
  BY <1>1 DEF NoExport
<1>6. export' \in Exports BY <1>3, <1>4, <1>5 DEF Exports
<1>7. SnapshotInv' BY <1>2, <1>3, <1>5 DEF SnapshotInv
<1>8. PICK L \in Seq(Lines) : L = <<line>> BY <1>4, OneLine
<1>9. L = Stream'
  <2>1. (<< >> \o << >>) \o <<line>> = <<line>> BY <1>4
  <2> QED BY <1>5, <1>8, <2>1 DEF Stream
<1>10. Len(L) = 1 /\ L[1] = line /\ line.type = "session" /\ Len(<<line>>) = 1 /\ <<line>> # << >>
  BY <1>1, <1>4, <1>8, OneLine
<1>11. FaithfulLine(L, 1)'
  <2>1. export'.rows = mine /\ line \in {[type |-> "session", count |-> Cardinality(mine)], [type |-> "error"]}
    BY <1>1, <1>5
  <2> QED BY <1>10, <2>1 DEF FaithfulLine
<1>12. WriterAt(L)'
  <2>1. /\ export'.rows = mine /\ export'.pc = "send" /\ export'.hand = <<line>> /\ export'.expected = n
        /\ export'.requests = 0 /\ export'.cursor = 0 /\ export'.truncated = 0 /\ export'.unavailable = 0
    BY <1>5
  <2>2. \A j \in 2 .. 0 + 1 : FALSE OBVIOUS
  <2>3. Cardinality(mine) = n BY <1>1
  <2> QED BY <1>10, <2>1, <2>2, <2>3 DEF WriterAt
<1>13. StreamInv(L)' BY <1>5, <1>10, <1>11, <1>12 DEF StreamInv
<1> QED BY <1>6, <1>7, <1>9, <1>13 DEF ExportInv

(* The channel takes the line of the writer. *)
LEMMA SendInv ==
  ASSUME IInv, ExportInv, Send PROVE ExportInv'
<1>1. PICK L \in Seq(Lines) : L = Stream /\ StreamInv(L) BY DEF ExportInv
<1>2. UNCHANGED <<rows, ever, backend>> BY DEF Send, ExportOnly, vars, dbvars
<1>3. export \in Exports /\ export.pc = "send" /\ export.channel = << >> BY DEF ExportInv, Send
<1>4. PICK pc, ch : /\ pc = (IF Head(export.hand).type = "end" THEN "done" ELSE "row")
                    /\ ch = << >> \o export.hand
                    /\ export' = [export EXCEPT !.channel = ch, !.hand = << >>, !.pc = pc]
  BY <1>3 DEF Send
<1>5. WriterAt(L) BY <1>1, <1>3 DEF StreamInv
<1>6. ch = export.hand /\ ch \in Seq(Lines) /\ pc \in {"done", "row"} BY <1>3, <1>4, ExportFields
<1>7. /\ export' \in Exports /\ export'.pc = pc /\ export'.channel = ch /\ export'.hand = << >>
      /\ export'.client = export.client /\ export'.rows = export.rows
      /\ export'.backend = export.backend /\ export'.expected = export.expected
      /\ export'.cursor = export.cursor /\ export'.requests = export.requests
      /\ export'.truncated = export.truncated /\ export'.unavailable = export.unavailable
  BY <1>3, <1>4, <1>6 DEF Exports
<1>8. SnapshotInv' BY <1>2, <1>7 DEF SnapshotInv, ExportInv
<1>9. L = Stream' BY <1>1, <1>3, <1>6, <1>7, ExportFields, StreamFacts DEF Stream
<1>10. \A i \in 1 .. Len(L) : FaithfulLine(L, i)' BY <1>1, <1>2, <1>7, LineKept DEF StreamInv
<1>11. ASSUME pc = "row" PROVE WriterAt(L)'
  <2>1. Len(export.hand) = 1 /\ Head(export.hand).type # "end" BY <1>3, <1>4, <1>5, <1>11 DEF WriterAt
  <2>2. L[Len(L)] = export.hand[1] /\ export.hand[1] = Head(export.hand)
    <3>1. /\ Len(L) = Len(export.client) + Len(export.channel) + Len(export.hand)
          /\ \A i \in 1 .. Len(export.hand) :
                L[Len(export.client) + Len(export.channel) + i] = export.hand[i]
      BY <1>1, <1>3, StreamIndex
    <3> QED BY <2>1, <3>1, <1>3, ExportFields
  <2>3. Len(L) = export.requests + 1 BY <1>3, <1>5, <2>1, <2>2, ExportFields DEF WriterAt
  <2> QED BY <1>2, <1>5, <1>7, <1>11, <2>3, <1>3, ExportFields DEF WriterAt
<1>12. StreamInv(L)' BY <1>6, <1>7, <1>10, <1>11 DEF StreamInv
<1> QED BY <1>7, <1>8, <1>9, <1>12 DEF ExportInv

(* One more line follows what has been written. *)
LEMMA LineAdded ==
  ASSUME NEW L \in Seq(Lines), NEW x \in Lines, NEW M \in Seq(Lines), M = L \o <<x>>
  PROVE  Len(M) = Len(L) + 1 /\ M[Len(L) + 1] = x /\ \A i \in 1 .. Len(L) : M[i] = L[i]
OBVIOUS

(* A faithful stream with one more faithful line. *)
LEMMA FaithfulMore ==
  ASSUME NEW L \in Seq(Lines), NEW x \in Lines, NEW M \in Seq(Lines), M = L \o <<x>>,
         \A i \in 1 .. Len(L) : FaithfulLine(L, i), \A i \in 2 .. Len(L) : L[i].type = "request",
         FaithfulLine(M, Len(L) + 1)
  PROVE  \A i \in 1 .. Len(M) : FaithfulLine(M, i)
<1> SUFFICES ASSUME NEW i \in 1 .. Len(L) PROVE FaithfulLine(M, i) BY LineAdded
<1>1. M[i] = L[i] /\ FaithfulLine(L, i) /\ \A j \in 2 .. i - 1 : M[j] = L[j] BY LineAdded
<1>2. i > 1 => M[i].type = "request" BY <1>1
<1> QED BY <1>1, <1>2 DEF FaithfulLine

(* The first trace after the cursor is the next of the session. *)
LEMMA NextIsNext ==
  ASSUME export \in Exports, NEW t \in NextRow,
         export.cursor = 0 => export.requests = 0,
         export.cursor # 0 => /\ export.cursor \in export.rows
                              /\ export.requests = Cardinality({u \in export.rows : Before(u, export.cursor)}) + 1
  PROVE  t \in export.rows /\ Cardinality({u \in export.rows : Before(u, t)}) = export.requests
<1>1. PICK R, c : R = export.rows /\ c = export.cursor OBVIOUS
<1>2. R \subseteq Traces /\ IsFiniteSet(R) BY <1>1, ExportFields
<1>3. /\ t \in R /\ t \in Traces /\ (c = 0 \/ Before(c, t))
      /\ \A u \in R : (c = 0 \/ Before(c, u)) => ~Before(u, t)
  BY <1>1, <1>2 DEF NextRow, After
<1>4. CASE c = 0
  <2>1. {u \in R : Before(u, t)} = {} BY <1>3, <1>4
  <2> QED BY <1>1, <1>3, <1>4, <2>1, FS_EmptySet
<1>5. CASE c # 0
  <2>1. c \in R /\ c \in Traces BY <1>1, <1>2, <1>5
  <2>2. PICK B : B = {u \in R : Before(u, c)} OBVIOUS
  <2>3. IsFiniteSet(B) /\ c \notin B
    <3>1. B \subseteq R /\ ~Before(c, c) BY <2>1, <2>2, BeforeIsOrder
    <3> QED BY <1>2, <2>2, <3>1, FS_Subset
  <2>4. {u \in R : Before(u, t)} = B \cup {c}
    <3>1. ASSUME NEW u \in R, Before(u, t) PROVE u \in B \cup {c}
      <4>1. ~Before(c, u) /\ u \in Traces BY <1>2, <1>3, <1>5, <3>1
      <4> QED BY <2>1, <2>2, <4>1, BeforeIsOrder
    <3>2. ASSUME NEW u \in R, Before(u, c) PROVE Before(u, t)
      <4>1. u \in Traces BY <1>2
      <4> QED BY <1>3, <1>5, <2>1, <3>2, <4>1, BeforeIsOrder
    <3> QED BY <1>3, <1>5, <2>1, <2>2, <3>1, <3>2
  <2>5. Cardinality(B \cup {c}) = Cardinality(B) + 1 BY <2>3, FS_AddElement
  <2> QED BY <1>1, <1>3, <1>5, <2>2, <2>4, <2>5
<1> QED BY <1>4, <1>5

(* The writer writes the line of the next trace. *)
LEMMA WriteRowInv ==
  ASSUME IInv, ExportInv, WriteRow PROVE ExportInv'
<1>1. PICK L \in Seq(Lines) : L = Stream /\ StreamInv(L) BY DEF ExportInv
<1>2. UNCHANGED <<rows, ever, backend>> BY DEF WriteRow, ExportOnly, vars, dbvars
<1>3. export \in Exports /\ export.pc = "row" /\ WriterAt(L) BY <1>1 DEF ExportInv, WriteRow, StreamInv
<1>4. PICK t, bodies, x, r, tr, un :
        /\ t \in NextRow
        /\ bodies = LoadTraceBodies(t) /\ x = [type |-> "request", id |-> t, bodies |-> bodies]
        /\ tr = export.truncated + TruncatedBodies(bodies)
        /\ un = export.unavailable + UnavailableBodies(bodies)
        /\ r = export.requests + 1
        /\ export' = [export EXCEPT !.pc = "send", !.cursor = t, !.requests = r,
                          !.truncated = tr, !.unavailable = un, !.hand = <<x>>]
  <2>1. PICK t \in NextRow :
          export' = [export EXCEPT !.pc = "send", !.cursor = t, !.requests = export.requests + 1,
              !.truncated = export.truncated + TruncatedBodies(LoadTraceBodies(t)),
              !.unavailable = export.unavailable + UnavailableBodies(LoadTraceBodies(t)),
              !.hand = <<[type |-> "request", id |-> t, bodies |-> LoadTraceBodies(t)]>>]
    BY DEF WriteRow
  <2> QED BY <2>1
<1>5. t \in export.rows /\ Cardinality({u \in export.rows : Before(u, t)}) = export.requests
  BY <1>3, <1>4, NextIsNext DEF WriterAt
<1>6. /\ bodies \in BodySets
      /\ t \in rows => \A d \in Directions :
            bodies[d].status = "unreadable" => BodyOf[t][d].record = "none"
  BY <1>4, <1>5, BodiesLoaded
<1>7. t \in Traces /\ x \in Lines /\ x.type = "request" /\ x.id = t /\ x.bodies = bodies
  BY <1>3, <1>4, <1>5, <1>6, ExportFields DEF Lines
<1>8. /\ tr \in Nat /\ un \in Nat
      /\ tr = 0 /\ un = 0 <=> (export.truncated = 0 /\ export.unavailable = 0) /\ Whole(bodies)
  <2>1. /\ TruncatedBodies(bodies) \in Nat /\ UnavailableBodies(bodies) \in Nat
        /\ (TruncatedBodies(bodies) = 0 /\ UnavailableBodies(bodies) = 0 <=> Whole(bodies))
    BY <1>6, WholeCounts
  <2>2. export.truncated \in Nat /\ export.unavailable \in Nat BY <1>3, ExportFields
  <2> QED BY <1>4, <2>1, <2>2
<1>9. <<x>> \in Seq(Lines) /\ Len(<<x>>) = 1 /\ <<x>> # << >> BY <1>7, OneLine
<1>10. PICK m \in Nat : m = export.requests BY <1>3, ExportFields
<1>11. /\ export' \in Exports /\ export'.pc = "send" /\ export'.channel = export.channel
       /\ export'.hand = <<x>>
       /\ export'.client = export.client /\ export'.rows = export.rows
       /\ export'.backend = export.backend /\ export'.expected = export.expected
       /\ export'.cursor = t /\ export'.requests = m + 1
       /\ export'.truncated = tr /\ export'.unavailable = un
  <2>1. r \in Nat /\ r = m + 1 BY <1>4, <1>10
  <2>2. export' = [export EXCEPT !.pc = "send", !.cursor = t, !.requests = r,
                       !.truncated = tr, !.unavailable = un, !.hand = <<x>>]
    BY <1>4
  <2>3. export' \in Exports BY <1>3, <1>7, <1>8, <1>9, <2>1, <2>2 DEF Exports
  <2> QED BY <1>3, <2>1, <2>2, <2>3 DEF Exports
<1>12. SnapshotInv' BY <1>2, <1>11 DEF SnapshotInv, ExportInv
<1>13. Len(L) = m + 1 /\ \A i \in 2 .. m + 1 : L[i].type = "request"
  BY <1>3, <1>10 DEF WriterAt
<1>14. PICK M \in Seq(Lines) : M = L \o <<x>> /\ M = Stream'
  <2>1. PICK c \in Seq(Lines), d \in Seq(Lines) : c = export.client /\ d = export.channel
    BY <1>3, ExportFields
  <2>2. export.hand = << >> BY <1>3 DEF WriterAt
  <2>3. L = c \o d BY <1>1, <2>1, <2>2, StreamFacts DEF Stream
  <2>4. Stream' = (c \o d) \o <<x>> BY <1>11, <2>1 DEF Stream
  <2>5. (c \o d) \o <<x>> \in Seq(Lines) BY <1>9, <2>1, StreamFacts
  <2> QED BY <2>3, <2>4, <2>5
<1>15. Len(M) = m + 2 /\ M[m + 2] = x /\ \A i \in 1 .. m + 1 : M[i] = L[i]
  BY <1>7, <1>13, <1>14, LineAdded
<1>16. FaithfulLine(M, m + 2)
  <2>1. ~(m + 2 < m + 2) /\ m + 2 # 1 /\ m = (m + 2) - 2 OBVIOUS
  <2> QED BY <1>5, <1>6, <1>7, <1>10, <1>15, <2>1 DEF FaithfulLine
<1>17. \A i \in 1 .. Len(M) : FaithfulLine(M, i)
  <2>1. (m + 1) + 1 = m + 2 OBVIOUS
  <2>2. FaithfulLine(M, Len(L) + 1) BY <1>13, <1>16, <2>1
  <2>3. \A i \in 1 .. Len(L) : FaithfulLine(L, i) BY <1>1 DEF StreamInv
  <2>4. \A i \in 2 .. Len(L) : L[i].type = "request" BY <1>13
  <2> QED BY <1>7, <1>14, <2>2, <2>3, <2>4, FaithfulMore
<1>18. \A i \in 1 .. Len(M) : FaithfulLine(M, i)' BY <1>2, <1>11, <1>17, LineKept
<1>19. WriterAt(M)'
  <2>1. \A i \in 2 .. m + 2 : M[i].type = "request" BY <1>7, <1>13, <1>15
  <2>2. M[1].type = "session" BY <1>3, <1>15 DEF WriterAt
  <2>3. (tr = 0 /\ un = 0) <=> \A j \in 2 .. m + 2 : Whole(M[j].bodies)
    <3>1. export.truncated = 0 /\ export.unavailable = 0 <=> \A j \in 2 .. m + 1 : Whole(L[j].bodies)
      BY <1>3, <1>10 DEF WriterAt
    <3>2. Whole(M[m + 2].bodies) <=> Whole(bodies) BY <1>7, <1>15
    <3>3. (\A j \in 2 .. m + 1 : Whole(L[j].bodies)) <=> (\A j \in 2 .. m + 1 : Whole(M[j].bodies))
      BY <1>15
    <3>4. (\A j \in 2 .. m + 2 : Whole(M[j].bodies))
            <=> (\A j \in 2 .. m + 1 : Whole(M[j].bodies)) /\ Whole(M[m + 2].bodies)
      OBVIOUS
    <3> QED BY <1>8, <3>1, <3>2, <3>3, <3>4
  <2>4. export.expected = Cardinality(export.rows) /\ t # 0 BY <1>3, <1>7, StoreAssumption DEF WriterAt
  <2>5. Len(M) = (m + 1) + 1 /\ Len(M) # (m + 1) + 2 /\ (m + 1) + 1 = m + 2 BY <1>15
  <2>6. Len(M) \in {export'.requests + 1, export'.requests + 2} /\ ~(Len(M) = export'.requests + 2)
    BY <1>11, <2>5
  <2>7. \A i \in 2 .. export'.requests + 1 : M[i].type = "request" BY <1>11, <2>1, <2>5
  <2>8. export'.truncated = 0 /\ export'.unavailable = 0
          <=> \A j \in 2 .. export'.requests + 1 : Whole(M[j].bodies)
    BY <1>11, <2>3, <2>5
  <2>9. export'.cursor \in export'.rows
          /\ export'.requests = Cardinality({u \in export'.rows : Before(u, export'.cursor)}) + 1
    BY <1>5, <1>10, <1>11
  <2> QED BY <1>9, <1>11, <2>2, <2>4, <2>6, <2>7, <2>8, <2>9 DEF WriterAt
<1>20. StreamInv(M)' BY <1>11, <1>18, <1>19 DEF StreamInv
<1> QED BY <1>11, <1>12, <1>14, <1>20 DEF ExportInv

(* The writer writes the last line. *)
LEMMA WriteEndInv ==
  ASSUME IInv, ExportInv, WriteEnd PROVE ExportInv'
<1>1. PICK L \in Seq(Lines) : L = Stream /\ StreamInv(L) BY DEF ExportInv
<1>2. UNCHANGED <<rows, ever, backend>> BY DEF WriteEnd, ExportOnly, vars, dbvars
<1>3. export \in Exports /\ export.pc = "row" /\ WriterAt(L) BY <1>1 DEF ExportInv, WriteEnd, StreamInv
<1>4. PICK m \in Nat : m = export.requests /\ m = Cardinality(export.rows)
  BY <1>3, ExportFields DEF WriteEnd, WriterAt
<1>5. PICK complete \in BOOLEAN : complete = (export.truncated = 0 /\ export.unavailable = 0) OBVIOUS
<1>6. PICK x : /\ x = [type |-> "end", count |-> m, truncated |-> export.truncated,
                       unavailable |-> export.unavailable, complete |-> complete]
               /\ export' = [export EXCEPT !.pc = "send", !.hand = <<x>>]
  BY <1>4, <1>5 DEF WriteEnd
<1>7. x \in Lines /\ x.type = "end" /\ x.count = m /\ x.complete = complete
  BY <1>3, <1>4, <1>6, ExportFields DEF Lines
<1>8. <<x>> \in Seq(Lines) /\ Len(<<x>>) = 1 /\ <<x>> # << >> BY <1>7, OneLine
<1>9. /\ export' \in Exports /\ export'.pc = "send" /\ export'.channel = export.channel
      /\ export'.hand = <<x>>
      /\ export'.client = export.client /\ export'.rows = export.rows
      /\ export'.backend = export.backend /\ export'.expected = export.expected
      /\ export'.cursor = export.cursor /\ export'.requests = m
      /\ export'.truncated = export.truncated /\ export'.unavailable = export.unavailable
  BY <1>3, <1>4, <1>6, <1>8 DEF Exports
<1>10. SnapshotInv' BY <1>2, <1>9 DEF SnapshotInv, ExportInv
<1>11. Len(L) = m + 1 /\ \A i \in 2 .. m + 1 : L[i].type = "request"
  BY <1>3, <1>4 DEF WriterAt
<1>12. PICK M \in Seq(Lines) : M = L \o <<x>> /\ M = Stream'
  <2>1. PICK c \in Seq(Lines), d \in Seq(Lines) : c = export.client /\ d = export.channel
    BY <1>3, ExportFields
  <2>2. export.hand = << >> BY <1>3 DEF WriterAt
  <2>3. L = c \o d BY <1>1, <2>1, <2>2, StreamFacts DEF Stream
  <2>4. Stream' = (c \o d) \o <<x>> BY <1>9, <2>1 DEF Stream
  <2>5. (c \o d) \o <<x>> \in Seq(Lines) BY <1>8, <2>1, StreamFacts
  <2> QED BY <2>3, <2>4, <2>5
<1>13. Len(M) = m + 2 /\ M[m + 2] = x /\ \A i \in 1 .. m + 1 : M[i] = L[i]
  BY <1>7, <1>11, <1>12, LineAdded
<1>14. complete <=> \A j \in 2 .. m + 1 : Whole(M[j].bodies)
  <2>1. export.truncated = 0 /\ export.unavailable = 0 <=> \A j \in 2 .. m + 1 : Whole(L[j].bodies)
    BY <1>3, <1>4 DEF WriterAt
  <2>2. complete <=> export.truncated = 0 /\ export.unavailable = 0 BY <1>5
  <2>3. (\A j \in 2 .. m + 1 : Whole(L[j].bodies)) <=> (\A j \in 2 .. m + 1 : Whole(M[j].bodies))
    BY <1>13
  <2> QED BY <2>1, <2>2, <2>3
<1>15. FaithfulLine(M, m + 2)
  <2>1. ~(m + 2 < m + 2) /\ m + 2 # 1 /\ (m + 2) - 1 = m + 1 OBVIOUS
  <2>2. x.complete <=> \A j \in 2 .. (m + 2) - 1 : Whole(M[j].bodies) BY <1>7, <1>14, <2>1
  <2> QED BY <1>4, <1>7, <1>13, <2>1, <2>2 DEF FaithfulLine
<1>16. \A i \in 1 .. Len(M) : FaithfulLine(M, i)
  <2>1. (m + 1) + 1 = m + 2 OBVIOUS
  <2>2. FaithfulLine(M, Len(L) + 1) BY <1>11, <1>15, <2>1
  <2>3. \A i \in 1 .. Len(L) : FaithfulLine(L, i) BY <1>1 DEF StreamInv
  <2>4. \A i \in 2 .. Len(L) : L[i].type = "request" BY <1>11
  <2> QED BY <1>7, <1>12, <2>2, <2>3, <2>4, FaithfulMore
<1>17. \A i \in 1 .. Len(M) : FaithfulLine(M, i)' BY <1>2, <1>9, <1>16, LineKept
<1>18. WriterAt(M)'
  <2>1. \A i \in 2 .. m + 1 : M[i].type = "request" BY <1>11, <1>13
  <2>2. M[1].type = "session" /\ M[Len(M)].type = "end" BY <1>3, <1>7, <1>13 DEF WriterAt
  <2>3. (export.truncated = 0 /\ export.unavailable = 0) <=> \A j \in 2 .. m + 1 : Whole(M[j].bodies)
    BY <1>5, <1>14
  <2>4. /\ export.expected = Cardinality(export.rows)
        /\ export.cursor = 0 => m = 0
        /\ export.cursor # 0 =>
              /\ export.cursor \in export.rows
              /\ m = Cardinality({t \in export.rows : Before(t, export.cursor)}) + 1
    BY <1>3, <1>4 DEF WriterAt
  <2> QED BY <1>8, <1>9, <1>13, <2>1, <2>2, <2>3, <2>4 DEF WriterAt
<1>19. StreamInv(M)' BY <1>9, <1>17, <1>18 DEF StreamInv
<1> QED BY <1>9, <1>10, <1>12, <1>19 DEF ExportInv

(* The writer ends before it has written everything. *)
LEMMA ExportStopsInv ==
  ASSUME IInv, ExportInv, ExportStops PROVE ExportInv'
<1>1. PICK L \in Seq(Lines) : L = Stream /\ StreamInv(L) BY DEF ExportInv
<1>2. UNCHANGED <<rows, ever, backend>> BY DEF ExportStops, ExportOnly, vars, dbvars
<1>3. export \in Exports /\ export.pc \in {"send", "row"} /\ WriterAt(L)
  BY <1>1 DEF ExportInv, ExportStops, StreamInv
<1>4. PICK x, ch : /\ x = [type |-> "error"]
                   /\ ch = (IF export.channel # << >> THEN export.channel ELSE <<x>>)
                   /\ export' = [export EXCEPT !.pc = "done", !.hand = << >>, !.channel = ch]
  BY DEF ExportStops
<1>5. x \in Lines /\ x.type = "error" BY <1>4 DEF Lines
<1>6. <<x>> \in Seq(Lines) /\ ch \in Seq(Lines) BY <1>3, <1>4, <1>5, OneLine, ExportFields
<1>7. /\ export' \in Exports /\ export'.pc = "done" /\ export'.channel = ch
      /\ export'.hand = << >>
      /\ export'.client = export.client /\ export'.rows = export.rows
      /\ export'.backend = export.backend
  <2>1. << >> \in Seq(Lines) OBVIOUS
  <2>2. export' \in Exports BY <1>3, <1>4, <1>6, <2>1 DEF Exports
  <2> QED BY <1>3, <1>4, <2>2 DEF Exports
<1>8. SnapshotInv' BY <1>2, <1>7 DEF SnapshotInv, ExportInv
<1>9. PICK c \in Seq(Lines), d \in Seq(Lines), h \in Seq(Lines) :
        c = export.client /\ d = export.channel /\ h = export.hand
  BY <1>3, ExportFields
<1>10. L = (c \o d) \o h BY <1>1, <1>9 DEF Stream
<1>11. PICK M \in Seq(Lines) : M = c \o ch /\ M = Stream'
  <2>1. Stream' = (c \o ch) \o << >> BY <1>7, <1>9 DEF Stream
  <2>2. (c \o ch) \o << >> = c \o ch /\ c \o ch \in Seq(Lines) BY <1>6, StreamFacts
  <2> QED BY <2>1, <2>2
<1>12. \A i \in 1 .. Len(L) : FaithfulLine(L, i) BY <1>1 DEF StreamInv
<1>13. \A i \in 1 .. Len(M) : FaithfulLine(M, i)
  <2>1. CASE d # << >>
    <3>1. M = c \o d BY <1>4, <1>9, <1>11, <2>1
    <3>2. Len(M) = Len(c) + Len(d) BY <3>1
    <3>3. Len(M) <= Len(L) /\ \A i \in 1 .. Len(M) : M[i] = L[i]
      BY <1>10, <3>1, <3>2, StreamFacts
    <3> QED BY <1>12, <3>3, FaithfulPrefix
  <2>2. CASE d = << >>
    <3>1. M = c \o <<x>> BY <1>4, <1>9, <1>11, <2>2
    <3>2. L = c \o h BY <1>10, <2>2, StreamFacts
    <3>3. Len(L) = Len(c) + Len(h) /\ \A i \in 1 .. Len(c) : c[i] = L[i] BY <3>2
    <3>4. \A i \in 1 .. Len(c) : FaithfulLine(c, i)
      <4>1. Len(c) <= Len(L) BY <3>3
      <4> QED BY <1>12, <3>3, <4>1, FaithfulPrefix
    <3>5. \A i \in 2 .. Len(c) : c[i].type = "request"
      <4>1. PICK m \in Nat : m = export.requests BY <1>3, ExportFields
      <4>2. /\ Len(L) \in {m + 1, m + 2} /\ \A i \in 2 .. m + 1 : L[i].type = "request"
            /\ Len(L) = m + 2 => export.pc = "send"
            /\ export.pc = "send" => Len(h) = 1
        BY <1>3, <1>9, <4>1 DEF WriterAt
      <4>3. Len(c) \in Nat /\ Len(h) \in Nat OBVIOUS
      <4>4. Len(c) <= m + 1
        <5>1. CASE Len(L) = m + 1 BY <3>3, <4>1, <4>3, <5>1
        <5>2. CASE Len(L) = m + 2
          <6>1. Len(h) = 1 BY <4>2, <5>2
          <6> QED BY <3>3, <4>1, <4>3, <5>2, <6>1
        <5> QED BY <4>2, <5>1, <5>2
      <4> QED BY <3>3, <4>1, <4>2, <4>3, <4>4
    <3>6. Len(M) = Len(c) + 1 /\ M[Len(c) + 1] = x BY <1>5, <3>1, LineAdded
    <3>7. FaithfulLine(M, Len(c) + 1)
      <4>1. ~(Len(c) + 1 < Len(c) + 1) OBVIOUS
      <4>2. x \in {[type |-> "session", count |-> Cardinality(export.rows)], [type |-> "error"]} BY <1>4
      <4> QED BY <1>5, <3>6, <4>1, <4>2 DEF FaithfulLine
    <3> QED BY <1>5, <3>1, <3>4, <3>5, <3>7, FaithfulMore
  <2> QED BY <2>1, <2>2
<1>14. \A i \in 1 .. Len(M) : FaithfulLine(M, i)' BY <1>2, <1>7, <1>13, LineKept
<1>15. StreamInv(M)' BY <1>7, <1>14 DEF StreamInv
<1> QED BY <1>7, <1>8, <1>11, <1>15 DEF ExportInv

(* The client reads a part of the stream. *)
LEMMA ClientReadsInv ==
  ASSUME IInv, ExportInv, ClientReads PROVE ExportInv'
<1>1. PICK L \in Seq(Lines) : L = Stream /\ StreamInv(L) BY DEF ExportInv
<1>2. UNCHANGED <<rows, ever, backend>> BY DEF ClientReads, ExportOnly, vars, dbvars
<1>3. export \in Exports BY DEF ExportInv
<1>4. PICK c \in Seq(Lines), d \in Seq(Lines), h \in Seq(Lines) :
        c = export.client /\ d = export.channel /\ h = export.hand
  BY <1>3, ExportFields
<1>5. PICK cd \in Seq(Lines) : cd = c \o d BY StreamFacts
<1>6. export' = [export EXCEPT !.channel = << >>, !.client = cd] BY <1>4, <1>5 DEF ClientReads
<1>7. /\ export' \in Exports /\ export'.channel = << >> /\ export'.client = cd
      /\ export'.pc = export.pc /\ export'.hand = export.hand /\ export'.rows = export.rows
      /\ export'.backend = export.backend /\ export'.expected = export.expected
      /\ export'.cursor = export.cursor /\ export'.requests = export.requests
      /\ export'.truncated = export.truncated /\ export'.unavailable = export.unavailable
  <2>1. << >> \in Seq(Lines) OBVIOUS
  <2>2. export' \in Exports BY <1>3, <1>6, <2>1 DEF Exports
  <2> QED BY <1>3, <1>6, <2>2 DEF Exports
<1>8. SnapshotInv' BY <1>2, <1>7 DEF SnapshotInv, ExportInv
<1>9. L = Stream'
  <2>1. L = cd \o h BY <1>1, <1>4, <1>5 DEF Stream
  <2>2. Stream' = (cd \o << >>) \o h BY <1>4, <1>7 DEF Stream
  <2> QED BY <2>1, <2>2, StreamFacts
<1>10. \A i \in 1 .. Len(L) : FaithfulLine(L, i)' BY <1>1, <1>2, <1>7, LineKept DEF StreamInv
<1>11. StreamInv(L)' BY <1>1, <1>7, <1>10 DEF StreamInv, WriterAt
<1> QED BY <1>7, <1>8, <1>9, <1>11 DEF ExportInv

(* The client closes the connection. *)
LEMMA ClientLeavesInv ==
  ASSUME IInv, ExportInv, ClientLeaves PROVE ExportInv'
<1>1. PICK L \in Seq(Lines) : L = Stream /\ StreamInv(L) BY DEF ExportInv
<1>2. UNCHANGED <<rows, ever, backend>> BY DEF ClientLeaves, ExportOnly, vars, dbvars
<1>3. export \in Exports BY DEF ExportInv
<1>4. export' = [export EXCEPT !.pc = "done", !.hand = << >>, !.channel = << >>] BY DEF ClientLeaves
<1>5. /\ export' \in Exports /\ export'.pc = "done" /\ export'.channel = << >>
      /\ export'.hand = << >>
      /\ export'.client = export.client /\ export'.rows = export.rows
      /\ export'.backend = export.backend
  <2>1. << >> \in Seq(Lines) OBVIOUS
  <2>2. export' \in Exports BY <1>3, <1>4, <2>1 DEF Exports
  <2> QED BY <1>3, <1>4, <2>2 DEF Exports
<1>6. SnapshotInv' BY <1>2, <1>5 DEF SnapshotInv, ExportInv
<1>7. PICK c \in Seq(Lines) : c = export.client BY <1>3, ExportFields
<1>8. c = Stream' BY <1>5, <1>7 DEF Stream
<1>9. Len(c) <= Len(L) /\ \A i \in 1 .. Len(c) : c[i] = L[i]
  BY <1>1, <1>3, <1>7, ClientIsPrefix
<1>10. \A i \in 1 .. Len(c) : FaithfulLine(c, i) BY <1>1, <1>9, FaithfulPrefix DEF StreamInv
<1>11. \A i \in 1 .. Len(c) : FaithfulLine(c, i)' BY <1>2, <1>5, <1>10, LineKept
<1>12. StreamInv(c)' BY <1>5, <1>11 DEF StreamInv
<1> QED BY <1>5, <1>6, <1>8, <1>12 DEF ExportInv

(* No export has begun. *)
LEMMA InitExport == ExportInit => ExportInv
<1> SUFFICES ASSUME export = NoExport PROVE ExportInv BY DEF ExportInit
<1>1. << >> \in Seq(Lines) /\ Len(<< >>) = 0 OBVIOUS
<1>2. export \in Exports BY <1>1 DEF NoExport, Exports
<1>3. SnapshotInv BY DEF NoExport, SnapshotInv
<1>4. << >> = Stream BY DEF NoExport, Stream
<1>5. StreamInv(<< >>) BY <1>1 DEF NoExport, StreamInv
<1> QED BY <1>1, <1>2, <1>3, <1>4, <1>5 DEF ExportInv

(* How the lines follow from the session is an invariant. *)
LEMMA ExportInvariant == ExportSpec => []ExportInv
<1>1. IInv /\ ExportInv /\ [ExportNext]_<<vars, export>> => ExportInv'
  <2> SUFFICES ASSUME IInv, ExportInv, [ExportNext]_<<vars, export>> PROVE ExportInv' OBVIOUS
  <2>1. CASE ExportStep
    BY <2>1, PrepareInv, SendInv, WriteRowInv, WriteEndInv, ExportStopsInv, ClientReadsInv,
       ClientLeavesInv DEF ExportStep
  <2>2. CASE [Next]_vars /\ UNCHANGED export BY <2>2, StoreStepExport
  <2> QED BY <2>1, <2>2 DEF ExportNext
<1>2. ExportSpec => []IInv BY ExportOnlyReads, StoreInvariant
<1> QED BY InitExport, <1>1, <1>2, PTL DEF ExportSpec

(* What a client has of an export (storage/session_export.rs) is at any    *)
(* time the beginning of what the session held when it was asked for,      *)
(* however the store changes meanwhile and the export ends.                *)
THEOREM ExportsAreFaithful == ExportSpec => []ExportIsFaithful
<1>1. ExportInv => ExportIsFaithful
  <2> SUFFICES ASSUME ExportInv PROVE ExportIsFaithful OBVIOUS
  <2>1. PICK L \in Seq(Lines) : L = Stream /\ StreamInv(L) BY DEF ExportInv
  <2>2. PICK c \in Seq(Lines) : c = export.client BY ExportFields DEF ExportInv
  <2>3. export \in Exports BY DEF ExportInv
  <2>4. Len(c) <= Len(L) /\ \A i \in 1 .. Len(c) : c[i] = L[i]
    BY <2>1, <2>2, <2>3, ClientIsPrefix
  <2>5. \A i \in 1 .. Len(c) : FaithfulLine(c, i) BY <2>1, <2>4, FaithfulPrefix DEF StreamInv
  <2> QED BY <2>2, <2>5 DEF ExportIsFaithful
<1> QED BY <1>1, ExportInvariant, PTL
=============================================================================
