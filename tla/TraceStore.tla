------------------------------ MODULE TraceStore ------------------------------
(***************************************************************************)
(* The trace store under concurrent ingestion and maintenance: the insert  *)
(* transaction (storage/ingest.rs, storage/archive.rs), size rotation and  *)
(* file collection (storage/rotation.rs), age retention and session        *)
(* cleanup (storage/retention.rs), and the triggers they rely on           *)
(* (migrations/005_archive_rotation.sql).                                  *)
(*                                                                         *)
(* Postgres runs at READ COMMITTED: a statement sees what was committed    *)
(* when it began and what its own transaction did; a row written by an     *)
(* open transaction is locked until that transaction ends, and a waiting   *)
(* statement continues with its OLD snapshot.  The rows that transactions  *)
(* contend for are the session of a key and the minute bucket of a rollup; *)
(* their locks are derived from the transactions' program counters.        *)
(*                                                                         *)
(* Data: a trace has one archive segment and one session key; a session's  *)
(* uuid is the trace that created it; a rollup row keeps total and         *)
(* last_seen, its sums behave as total does and a row of total 0 is no     *)
(* row.  Legacy traces were stored by older versions and may share a       *)
(* segment; segments in Unindexed lost their records in an older version.  *)
(***************************************************************************)
EXTENDS Integers, FiniteSets, Sequences, FiniteSetsExt, Functions

CONSTANTS
    Traces,      \* trace ids
    Legacy,      \* traces that exist from the start
    SegOf,       \* [Traces -> Segs], the segment with the bodies of a trace
    Unindexed,   \* segments without records at the start
    SegBytes,    \* [Segs -> Nat], compressed_bytes
    KeyOf,       \* [Traces -> keys], session_key
    At,          \* [Traces -> Nat], started_at
    Minute,      \* [Traces -> buckets], date_trunc('minute', started_at)
    Limit,       \* rotate_size_bytes
    Batch,       \* retention_prune_batch_size
    Pruners,     \* concurrent size and age retention tasks
    Collectors,  \* concurrent file collectors
    MaxFaults    \* failed writes, aborted transactions, power losses

Segs == DOMAIN SegBytes
Keys == Range(KeyOf)
Buckets == Range(Minute)

ASSUME StoreAssumption ==
    /\ Traces \subseteq Nat \ {0} /\ IsFiniteSet(Traces)
    /\ IsFiniteSet(Segs) /\ 0 \notin Segs /\ Pruners \cap Traces = {}
    /\ Legacy \subseteq Traces
    /\ SegOf \in [Traces -> Segs] /\ SegBytes \in [Segs -> Nat]
    /\ DOMAIN KeyOf = Traces /\ DOMAIN Minute = Traces
    /\ At \in [Traces -> Nat \ {0}]
    /\ Unindexed \subseteq Segs \ Range(SegOf)
    /\ \A t, u \in Traces : SegOf[t] = SegOf[u] => t = u \/ {t, u} \subseteq Legacy
    /\ Limit \in Nat /\ Batch \in Nat \ {0} /\ MaxFaults \in Nat

VARIABLES
    rows,      \* committed request_traces
    ever,      \* traces that were committed at some time (history)
    named,     \* segments whose file was indexed at some time (history)
    backend,   \* [Segs -> Backends], committed payload_archive_segments
    session,   \* [Keys -> Traces \cup {0}], uuid of the session of a key
    tsess,     \* [Traces -> Traces \cup {0}], session_id of a trace
    rollup,    \* [Buckets -> [total, last]], committed trace_rollups_minute
    work,      \* the version of a rollup row its lock holder has written
    queue,     \* archive_file_deletions
    files,     \* segment files in the archive directory
    unsynced,  \* removed files that a power loss can bring back
    revived,   \* files that one brought back (history)
    ipc,       \* [Traces -> InsertSteps], the insert transaction of a trace
    iback,     \* [Traces -> Backends], where it put the bodies
    prune,     \* [Pruners -> prune transaction], see Idle
    collect,   \* [Collectors -> Segs \cup {0}], the row a collector locked
    removed,   \* collectors that have removed the file
    spc,       \* session cleanup: its step
    empties,   \* and the sessions it found empty
    faults

ivars == <<ipc, iback>>
fvars == <<files, unsynced, revived>>
dbvars == <<rows, ever, named, backend, session, tsess, rollup, queue>>
cvars == <<collect, removed>>
svars == <<spc, empties>>
vars == <<dbvars, work, fvars, ivars, prune, cvars, svars, faults>>

Backends == {"none", "filesystem", "postgres"}
InsertSteps == {"idle", "file", "rollup", "commit"}
NoRow == [total |-> 0, last |-> 0]

(* A prune transaction: its kind, the traces still to delete, the deleted  *)
(* ones, those whose rollup trigger has run, the one whose trigger waits,  *)
(* the snapshot of that trigger, the segments released, the running size.  *)
Idle == [kind |-> "idle", batch |-> {}, gone |-> {}, done |-> {}, cur |-> 0,
         snap |-> {}, segs |-> {}, size |-> 0]

Bytes(S) == MapThenSumSet(LAMBDA s : SegBytes[s], S)
Stored == {s \in Segs : backend[s] # "none"}
Recorded == {SegOf[t] : t \in rows}

TypeOK ==
    /\ rows \subseteq ever /\ ever \subseteq Traces /\ named \subseteq Segs
    /\ backend \in [Segs -> Backends]
    /\ session \in [Keys -> Traces \cup {0}] /\ tsess \in [Traces -> Traces \cup {0}]
    /\ \A b \in Buckets : rollup[b].total \in Nat /\ work[b].total \in Nat
    /\ queue \subseteq Segs /\ files \subseteq Segs /\ unsynced \subseteq Segs
    /\ revived \subseteq Segs
    /\ ipc \in [Traces -> InsertSteps] /\ iback \in [Traces -> Backends]
    /\ \A p \in Pruners : /\ prune[p].kind \in {"idle", "measured", "rotate", "age"}
                          /\ prune[p].done \subseteq prune[p].gone
                          /\ prune[p].segs \subseteq Segs
    /\ collect \in [Collectors -> Segs \cup {0}] /\ removed \subseteq Collectors
    /\ spc \in {"idle", "lock", "delete"} /\ empties \subseteq Keys
    /\ faults \in 0 .. MaxFaults

(* The rollup that insertion of the traces S leaves in a bucket. *)
RollupOf(b, S) ==
    LET here == {t \in S : Minute[t] = b}
    IN  [total |-> Cardinality(here), last |-> Max({At[t] : t \in here} \cup {0})]

(* What older versions left: their sessions carry the id of one trace. *)
Init ==
    /\ rows = Legacy /\ ever = Legacy
    /\ backend = [s \in Segs |-> IF s \in {SegOf[t] : t \in Legacy} \cup Unindexed
                                 THEN "filesystem" ELSE "none"]
    /\ session = [k \in Keys |-> Max({t \in Legacy : KeyOf[t] = k} \cup {0})]
    /\ tsess = [t \in Traces |-> IF t \in Legacy THEN session[KeyOf[t]] ELSE 0]
    /\ rollup = [b \in Buckets |-> RollupOf(b, Legacy)] /\ work = rollup
    /\ queue = {} /\ files = Stored /\ named = Stored /\ unsynced = {} /\ revived = {}
    /\ ipc = [t \in Traces |-> "idle"] /\ iback = [t \in Traces |-> "none"]
    /\ prune = [p \in Pruners |-> Idle]
    /\ collect = [c \in Collectors |-> 0] /\ removed = {}
    /\ spc = "idle" /\ empties = {}
    /\ faults = 0

Fault == faults < MaxFaults /\ faults' = faults + 1

-----------------------------------------------------------------------------
(* Row locks.                                                              *)

BucketLockedBy(b) ==
    {t \in Traces : ipc[t] = "commit" /\ Minute[t] = b}
        \cup {p \in Pruners : \E t \in prune[p].done : Minute[t] = b}

SessionLocked(k) ==
    \/ \E t \in Traces : ipc[t] # "idle" /\ KeyOf[t] = k
    \/ spc = "delete" /\ k \in empties

(* pg_try_advisory_xact_lock(1819045236, 1) *)
try_prune_lock == \A p \in Pruners : prune[p] = Idle

-----------------------------------------------------------------------------
(* insert_trace_internal.                                                  *)

InsertOnly == UNCHANGED <<unsynced, revived, prune, cvars, svars>>

(* upsert_session: waits for the row, reuses its uuid or makes one. *)
InsertBegin(t) ==
    /\ ipc[t] = "idle" /\ t \notin ever
    /\ ~SessionLocked(KeyOf[t])
    /\ ipc' = [ipc EXCEPT ![t] = "file"]
    /\ tsess' = [tsess EXCEPT ![t] = IF session[KeyOf[t]] = 0 THEN t ELSE session[KeyOf[t]]]
    /\ InsertOnly
    /\ UNCHANGED <<rows, ever, named, backend, session, rollup, queue, work, files, iback, faults>>

(* persist_archive_segment: the file, or after a failed write the blob. *)
InsertBodies(t) ==
    /\ ipc[t] = "file"
    /\ ipc' = [ipc EXCEPT ![t] = "rollup"]
    /\ \/ /\ iback' = [iback EXCEPT ![t] = "filesystem"]
          /\ files' = files \cup {SegOf[t]} /\ UNCHANGED faults
       \/ /\ iback' = [iback EXCEPT ![t] = "postgres"]
          /\ files' \in {files, files \cup {SegOf[t]}} /\ Fault
    /\ InsertOnly /\ UNCHANGED <<dbvars, work>>

(* Mutant of InsertRollup: the bucket is written without its lock. *)
InsertRollupUnlocked(t) ==
    LET b == Minute[t]
    IN  /\ ipc[t] = "rollup"
        /\ ipc' = [ipc EXCEPT ![t] = "commit"]
        /\ work' = [work EXCEPT ![b] = [total |-> @.total + 1, last |-> Max({@.last, At[t]})]]
        /\ InsertOnly /\ UNCHANGED <<dbvars, files, iback, faults>>

(* update_rollup: the upsert waits for the bucket row. *)
InsertRollup(t) ==
    LET b == Minute[t]
    IN  /\ ipc[t] = "rollup" /\ BucketLockedBy(b) = {}
        /\ ipc' = [ipc EXCEPT ![t] = "commit"]
        /\ work' = [work EXCEPT ![b] = [total |-> @.total + 1, last |-> Max({@.last, At[t]})]]
        /\ InsertOnly /\ UNCHANGED <<dbvars, files, iback, faults>>

InsertCommit(t) ==
    /\ ipc[t] = "commit"
    /\ ipc' = [ipc EXCEPT ![t] = "idle"]
    /\ rows' = rows \cup {t} /\ ever' = ever \cup {t}
    /\ named' = IF iback[t] = "filesystem" THEN named \cup {SegOf[t]} ELSE named
    /\ backend' = [backend EXCEPT ![SegOf[t]] = iback[t]]
    /\ session' = [session EXCEPT ![KeyOf[t]] = tsess[t]]
    /\ rollup' = [rollup EXCEPT ![Minute[t]] = work[Minute[t]]]
    /\ iback' = [iback EXCEPT ![t] = "none"]
    /\ InsertOnly /\ UNCHANGED <<tsess, queue, work, files, faults>>

(* An error or a crash: the transaction leaves at most its file behind. *)
InsertAbort(t) ==
    /\ ipc[t] # "idle"
    /\ ipc' = [ipc EXCEPT ![t] = "idle"]
    /\ iback' = [iback EXCEPT ![t] = "none"]
    /\ tsess' = [tsess EXCEPT ![t] = 0]
    /\ work' = IF ipc[t] = "commit" THEN [work EXCEPT ![Minute[t]] = rollup[Minute[t]]] ELSE work
    /\ Fault /\ InsertOnly
    /\ UNCHANGED <<rows, ever, named, backend, session, rollup, queue, files>>

-----------------------------------------------------------------------------
(* Retention transactions.                                                 *)

PruneOnly == UNCHANGED <<fvars, ivars, cvars, svars, ever, named, session>>

Before(t, u) == At[t] < At[u] \/ (At[t] = At[u] /\ t < u)

(* ORDER BY started_at, id LIMIT n *)
Oldest(n) == {t \in rows : Cardinality({u \in rows : Before(u, t)}) < n}
FirstOf(S) == {t \in S : \A u \in S : ~Before(u, t)}

(* Mutants of Unreferenced: a segment goes with its first record; the      *)
(* check does not see the deletions of its own transaction.                *)
UnreferencedEarly(gone) == {s \in Stored : \E t \in gone : SegOf[t] = s}
UnreferencedStale(gone) ==
    {s \in Stored : \A t \in rows : SegOf[t] = s =>
                        t \in gone /\ \A u \in rows \ {t} : SegOf[u] # s}

(* Segments without a record once the traces in gone are deleted. *)
Unreferenced(gone) == {s \in Stored : \A t \in rows \ gone : SegOf[t] # s}

(* rotate_batch up to its footprint.  Orphans go first, and while any file *)
(* is waiting for its removal no request is evicted.                       *)
RotateBegin(p) ==
    /\ try_prune_lock
    /\ \E orphans \in SUBSET Unreferenced({}) :
          LET n == Cardinality(Unreferenced({}))
              pending == queue \cup {s \in orphans : backend[s] = "filesystem"}
              size == Bytes(Stored \ orphans)
              idle == pending # {} \/ size <= Limit
          IN  /\ Cardinality(orphans) = IF n < Batch THEN n ELSE Batch
              /\ orphans # {} \/ ~idle
              /\ prune' = [prune EXCEPT ![p] =
                    [Idle EXCEPT !.kind = IF idle THEN "rotate" ELSE "measured",
                                 !.segs = orphans, !.size = size]]
    /\ PruneOnly /\ UNCHANGED <<rows, tsess, backend, rollup, queue, work, faults>>

(* The SELECT of the traces to evict, a later statement: an insert may     *)
(* have committed since the archive was measured.                          *)
RotateSelect(p) ==
    /\ prune[p].kind = "measured"
    /\ prune' = [prune EXCEPT ![p].kind = "rotate", ![p].batch = Oldest(Batch)]
    /\ PruneOnly /\ UNCHANGED <<rows, tsess, backend, rollup, queue, work, faults>>

(* Mutant of Released: only a segment that was never shared is counted. *)
ReleasedAlone(p, t) == {s \in {SegOf[t]} : \A u \in rows \ {t} : SegOf[u] # s}

(* What the deletion of t releases, given what p has deleted already. *)
Released(p, t) == {s \in {SegOf[t]} : \A u \in rows \ (prune[p].gone \cup {t}) : SegOf[u] # s}

(* One turn of rotate_batch's loop: it ends when the size fits or the time *)
(* is up.  Triggers release the segment; the rollup trigger follows.       *)
RotateDelete(p) ==
    LET x == prune[p]
    IN  /\ x.kind = "rotate" /\ x.gone = x.done
        /\ \E t \in FirstOf(x.batch) : \E rest \in {{}, x.batch \ {t}} :
              LET size == x.size - Bytes(Released(p, t))
              IN  /\ size <= Limit => rest = {}
                  /\ prune' = [prune EXCEPT ![p] =
                        [x EXCEPT !.gone = @ \cup {t}, !.batch = rest, !.size = size,
                                  !.segs = @ \cup ({SegOf[t]} \cap Unreferenced(x.gone \cup {t}))]]
        /\ PruneOnly /\ UNCHANGED <<rows, tsess, backend, rollup, queue, work, faults>>

(* delete_request_traces_before: one statement deletes the batch. *)
AgeDelete(p) ==
    /\ try_prune_lock
    /\ \E n \in 1 .. Batch :
          LET old == Oldest(n)
          IN  /\ Cardinality(old) = n
              /\ prune' = [prune EXCEPT ![p] =
                    [Idle EXCEPT !.kind = "age", !.gone = old,
                                 !.segs = {s \in Unreferenced(old) : \E t \in old : SegOf[t] = s}]]
    /\ PruneOnly /\ UNCHANGED <<rows, tsess, backend, rollup, queue, work, faults>>

(* remove_deleted_trace_from_rollup for one deleted row: the statement     *)
(* takes its snapshot and then waits for the bucket.                       *)
TriggerStart(p) ==
    /\ prune[p].cur = 0
    /\ \E t \in prune[p].gone \ prune[p].done :
          prune' = [prune EXCEPT ![p].cur = t,
                        ![p].snap = {u \in rows \ prune[p].gone : Minute[u] = Minute[t]}]
    /\ PruneOnly /\ UNCHANGED <<rows, tsess, backend, rollup, queue, work, faults>>

(* The row after the subtraction; a row that reaches total 0 is deleted. *)
Subtracted(row, t, snap) ==
    IF row.total <= 1 THEN NoRow
    ELSE [total |-> row.total - 1,
          last |-> IF row.last = At[t] /\ snap # {} THEN Max({At[u] : u \in snap}) ELSE row.last]

TriggerDone(p) ==
    LET t == prune[p].cur
        b == Minute[t]
    IN  /\ t # 0 /\ BucketLockedBy(b) \subseteq {p}
        /\ work' = [work EXCEPT ![b] = Subtracted(@, t, prune[p].snap)]
        /\ prune' = [prune EXCEPT ![p].cur = 0, ![p].done = @ \cup {t}]
        /\ PruneOnly /\ UNCHANGED <<rows, tsess, backend, rollup, queue, faults>>

Touched(p) == {b \in Buckets : \E t \in prune[p].done : Minute[t] = b}

(* Mutant of PruneCommit: it waits until no insert is under way. *)
PruneCommitExclusive(p) ==
    LET x == prune[p]
    IN  /\ x.kind \in {"rotate", "age"} /\ x.batch = {} /\ x.gone = x.done
        /\ \A t \in Traces : ipc[t] = "idle"
        /\ rows' = rows \ x.gone
        /\ tsess' = [t \in Traces |-> IF t \in x.gone THEN 0 ELSE tsess[t]]
        /\ backend' = [s \in Segs |-> IF s \in x.segs THEN "none" ELSE backend[s]]
        /\ queue' = queue \cup {s \in x.segs : backend[s] = "filesystem"}
        /\ rollup' = [b \in Buckets |-> IF b \in Touched(p) THEN work[b] ELSE rollup[b]]
        /\ prune' = [prune EXCEPT ![p] = Idle]
        /\ PruneOnly /\ UNCHANGED <<work, faults>>

(* COMMIT: rows, segments, rollups and the queue of files change at once. *)
PruneCommit(p) ==
    LET x == prune[p]
    IN  /\ x.kind \in {"rotate", "age"} /\ x.batch = {} /\ x.gone = x.done
        /\ rows' = rows \ x.gone
        /\ tsess' = [t \in Traces |-> IF t \in x.gone THEN 0 ELSE tsess[t]]
        /\ backend' = [s \in Segs |-> IF s \in x.segs THEN "none" ELSE backend[s]]
        /\ queue' = queue \cup {s \in x.segs : backend[s] = "filesystem"}
        /\ rollup' = [b \in Buckets |-> IF b \in Touched(p) THEN work[b] ELSE rollup[b]]
        /\ prune' = [prune EXCEPT ![p] = Idle]
        /\ PruneOnly /\ UNCHANGED <<work, faults>>

(* Mutant of PruneAbort: the advisory lock survives the rollback. *)
PruneAbortLocked(p) ==
    /\ prune[p].kind # "idle"
    /\ work' = [b \in Buckets |-> IF b \in Touched(p) THEN rollup[b] ELSE work[b]]
    /\ prune' = [prune EXCEPT ![p] = [Idle EXCEPT !.size = Limit + 1]]
    /\ Fault /\ PruneOnly /\ UNCHANGED <<rows, tsess, backend, rollup, queue>>

PruneAbort(p) ==
    /\ prune[p].kind # "idle"
    /\ work' = [b \in Buckets |-> IF b \in Touched(p) THEN rollup[b] ELSE work[b]]
    /\ prune' = [prune EXCEPT ![p] = Idle]
    /\ Fault /\ PruneOnly /\ UNCHANGED <<rows, tsess, backend, rollup, queue>>

-----------------------------------------------------------------------------
(* collect_archive_files: lock a row, remove the file, delete the row.     *)

CollectOnly == UNCHANGED <<rows, ever, named, backend, session, tsess, rollup, work,
                           ivars, prune, svars>>

CollectPick(c) ==
    /\ collect[c] = 0
    /\ \E s \in queue \ Range(collect) : collect' = [collect EXCEPT ![c] = s]
    /\ CollectOnly /\ UNCHANGED <<queue, fvars, removed, faults>>

(* Mutant of CollectRemove: a missing file is an error. *)
CollectRemoveStrict(c) ==
    /\ collect[c] # 0 /\ c \notin removed /\ collect[c] \in files
    /\ files' = files \ {collect[c]}
    /\ unsynced' = unsynced \cup {collect[c]}
    /\ removed' = removed \cup {c}
    /\ CollectOnly /\ UNCHANGED <<queue, revived, collect, faults>>

(* A file that is already gone is fine. *)
CollectRemove(c) ==
    /\ collect[c] # 0 /\ c \notin removed
    /\ files' = files \ {collect[c]}
    /\ unsynced' = unsynced \cup (files \cap {collect[c]})
    /\ removed' = removed \cup {c}
    /\ CollectOnly /\ UNCHANGED <<queue, revived, collect, faults>>

(* Mutant of CollectCommit: the row goes before the file. *)
CollectCommitEarly(c) ==
    /\ collect[c] # 0
    /\ queue' = queue \ {collect[c]}
    /\ IF c \in removed
       THEN collect' = [collect EXCEPT ![c] = 0] /\ removed' = removed \ {c}
       ELSE UNCHANGED <<collect, removed>>
    /\ CollectOnly /\ UNCHANGED <<fvars, faults>>

CollectCommit(c) ==
    /\ c \in removed
    /\ queue' = queue \ {collect[c]}
    /\ collect' = [collect EXCEPT ![c] = 0] /\ removed' = removed \ {c}
    /\ CollectOnly /\ UNCHANGED <<fvars, faults>>

(* The removal fails, the connection is lost, or the process crashes. *)
CollectFail(c) ==
    /\ collect[c] # 0
    /\ collect' = [collect EXCEPT ![c] = 0] /\ removed' = removed \ {c}
    /\ Fault /\ CollectOnly /\ UNCHANGED <<queue, fvars>>

(* The filesystem writes its metadata back, or power fails before it does. *)
FlushUnlinks ==
    /\ unsynced # {} /\ unsynced' = {}
    /\ UNCHANGED <<dbvars, work, files, revived, ivars, prune, cvars, svars, faults>>

(* A power loss takes all transactions with it. *)
PowerLoss ==
    /\ \E back \in SUBSET unsynced : files' = files \cup back /\ revived' = revived \cup back
    /\ unsynced' = {}
    /\ work' = rollup
    /\ ipc' = [t \in Traces |-> "idle"] /\ iback' = [t \in Traces |-> "none"]
    /\ tsess' = [t \in Traces |-> IF t \in rows THEN tsess[t] ELSE 0]
    /\ prune' = [p \in Pruners |-> Idle]
    /\ collect' = [c \in Collectors |-> 0] /\ removed' = {}
    /\ spc' = "idle" /\ empties' = {}
    /\ Fault /\ UNCHANGED <<rows, ever, named, backend, session, rollup, queue>>

-----------------------------------------------------------------------------
(* delete_empty_sessions_before.                                           *)

CleanOnly == UNCHANGED <<rows, ever, named, backend, tsess, rollup, queue, work, fvars,
                         ivars, prune, cvars>>

HasTrace(k) == \E t \in rows : KeyOf[t] = k

(* The SELECT's snapshot, ... *)
SessionsSelect ==
    /\ spc = "idle" /\ spc' = "lock"
    /\ empties' = {k \in Keys : session[k] # 0 /\ ~HasTrace(k)}
    /\ empties' # {}
    /\ CleanOnly /\ UNCHANGED <<session, faults>>

(* ... its FOR UPDATE SKIP LOCKED, which comes later, ... *)
SessionsLock ==
    /\ spc = "lock" /\ spc' = "delete"
    /\ empties' = {k \in empties : session[k] # 0 /\ ~SessionLocked(k)}
    /\ CleanOnly /\ UNCHANGED <<session, faults>>

(* Mutant of SessionsDelete: no second look after locking. *)
SessionsDeleteBlind ==
    /\ spc = "delete" /\ spc' = "idle"
    /\ session' = [k \in Keys |-> IF k \in empties THEN 0 ELSE session[k]]
    /\ empties' = {} /\ CleanOnly /\ UNCHANGED faults

(* ... and the DELETE, which looks again in a fresh statement. *)
SessionsDelete ==
    /\ spc = "delete" /\ spc' = "idle"
    /\ session' = [k \in Keys |-> IF k \in empties /\ ~HasTrace(k) THEN 0 ELSE session[k]]
    /\ empties' = {} /\ CleanOnly /\ UNCHANGED faults

InsertStep(t) == InsertBodies(t) \/ InsertRollup(t) \/ InsertCommit(t)
PruneStep(p) ==
    RotateSelect(p) \/ RotateDelete(p) \/ TriggerStart(p) \/ TriggerDone(p) \/ PruneCommit(p)
CollectStep(c) == CollectPick(c) \/ CollectRemove(c) \/ CollectCommit(c)

Next ==
    \/ \E t \in Traces : InsertBegin(t) \/ InsertStep(t) \/ InsertAbort(t)
    \/ \E p \in Pruners : RotateBegin(p) \/ AgeDelete(p) \/ PruneStep(p) \/ PruneAbort(p)
    \/ \E c \in Collectors : CollectStep(c) \/ CollectFail(c)
    \/ FlushUnlinks \/ PowerLoss
    \/ SessionsSelect \/ SessionsLock \/ SessionsDelete

Spec == Init /\ [][Next]_vars

-----------------------------------------------------------------------------
(* Safety.                                                                 *)

(* The bodies of every stored trace can be read: its segment is indexed,   *)
(* and a segment indexed in the filesystem has its file, although files    *)
(* are removed in the background and transactions roll back.               *)
BodiesReadable ==
    \A t \in rows : /\ backend[SegOf[t]] # "none"
                    /\ backend[SegOf[t]] = "filesystem" => SegOf[t] \in files

(* Rollups match the retained traces, however inserts, retention, errors   *)
(* and rollbacks interleave ("GREATEST(0, total - 1)" never saturates).    *)
RollupExact ==
    \A b \in Buckets : rollup[b].total = Cardinality({t \in rows : Minute[t] = b})

(* Session cleanup never takes away the session of a stored trace: "so a   *)
(* concurrent insert cannot be orphaned".                                  *)
SessionsExist ==
    \A t \in rows : tsess[t] # 0 /\ session[KeyOf[t]] = tsess[t]

(* A segment shared by several traces goes with the last of them: none is  *)
(* left without a record, except those an older version left behind.       *)
NoOrphanSegment == Stored \subseteq Recorded \cup Unindexed

(* No dangling reference either way between traces, their sessions and     *)
(* their segments, whatever retention, cleanup and inserts overlap.        *)
ReferencesHold == TypeOK /\ SessionsExist /\ NoOrphanSegment

(* Rotation evicts no more than the limit asks for: without its last       *)
(* victim the archive would still exceed the limit.                        *)
EvictsOnlyAsNeeded ==
    \A p \in Pruners : prune[p].kind = "rotate" =>
        \A t \in prune[p].gone :
            (\A u \in prune[p].gone : ~Before(t, u))
                => Bytes(Stored \ (prune[p].segs \cap Unreferenced(prune[p].gone \ {t}))) > Limit

(* A file whose index row was deleted is queued or gone: "crashes and      *)
(* temporary filesystem failures cannot silently strand files".  Not so a  *)
(* file whose removal a power loss has undone.                             *)
NoStrandedFile ==
    \A s \in (files \cap named) \ revived : backend[s] # "none" \/ s \in queue

(* "Subtract atomically from the same bucket that insertion updates": the  *)
(* last_seen of a bucket is never before a trace that the bucket counts.   *)
LastSeenCovers == \A t \in rows : rollup[Minute[t]].last >= At[t]

-----------------------------------------------------------------------------
(* Liveness.  Fairness: tasks are scheduled, the maintenance loop keeps    *)
(* running, Postgres grants a lock that stays free.                        *)

Fairness ==
    /\ \A t \in Traces : WF_vars(InsertStep(t))
    /\ \A p \in Pruners : WF_vars(PruneStep(p)) /\ WF_vars(RotateBegin(p))
    /\ \A c \in Collectors : WF_vars(CollectStep(c))

FairSpec == Spec /\ Fairness

(* Transactions never wait for each other in a circle: every insert ends. *)
InsertsEnd == \A t \in Traces : ipc[t] # "idle" ~> ipc[t] = "idle"

(* Every queued file is collected, through failures and restarts. *)
QueueDrains == \A s \in Segs : s \in queue ~> s \notin queue

(* No transaction and no queued file waits for ever. *)
WorkEnds == InsertsEnd /\ QueueDrains

(* An archive above its limit gets back below it. *)
SizeIsBounded == Bytes(Stored) > Limit ~> Bytes(Stored) <= Limit
=============================================================================
