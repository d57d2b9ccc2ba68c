----------------------------- MODULE PluginCache -----------------------------
(***************************************************************************)
(* The key/value cache the host shares between all plugin invocations      *)
(* (plugins/cache.rs).  get and put run under one mutex and read the clock *)
(* inside it, so each is one step; trace workers call them in any order.   *)
(***************************************************************************)
EXTENDS Integers, Sequences, SequencesExt, FiniteSets

CONSTANTS
    Keys,        \* digests of the keys plugins use
    Capacity,    \* [plugin_cache] capacity, 0 disables the cache
    DefaultTTL,  \* [plugin_cache] ttl_secs
    MaxEntryTTL, \* MAX_ENTRY_TTL_SECS
    MaxTime      \* bound on the clock

VARIABLES
    now,     \* Instant::now()
    entries, \* key -> [value, expires_at]
    order,   \* least recently used key first
    used     \* ghost: when each stored key was last written or read

cacheVars == <<entries, order, used>>

CacheInit ==
    /\ now = 0 /\ entries = << >> /\ order = << >>
    /\ used = [k \in Keys |-> 0]

-----------------------------------------------------------------------------
Without(f, S) == [k \in DOMAIN f \ S |-> f[k]]

(* Mutant of Fresh: the entry lives for one instant too long. *)
FreshLate(k) == k \in DOMAIN entries /\ now <= entries[k].expires_at

Fresh(k) == k \in DOMAIN entries /\ now < entries[k].expires_at

(* Mutant of GetHit: a read does not make the key recently used. *)
GetHitQuiet(k) ==
    /\ Capacity > 0 /\ Fresh(k)
    /\ used' = [used EXCEPT ![k] = now]
    /\ UNCHANGED <<entries, order>>

GetHit(k) ==
    /\ Capacity > 0 /\ Fresh(k)
    /\ order' = IF k \in Range(order) THEN Append(RemoveFirst(order, k), k) ELSE order
    /\ used' = [used EXCEPT ![k] = now]
    /\ UNCHANGED entries

(* VecDeque::retain: what s has besides k, in the order of s. *)
Retain(s, k) ==
    LET places == {n \in DOMAIN s : s[n] # k}
        Place(j) == CHOOSE n \in places : Cardinality({m \in places : m <= n}) = j
    IN  [j \in 1 .. Cardinality(places) |-> s[Place(j)]]

(* An expired entry is dropped by the read that meets it. *)
GetMiss(k) ==
    /\ Capacity = 0 \/ ~Fresh(k)
    /\ entries' = Without(entries, {k})
    /\ order' = Retain(order, k)
    /\ used' = [used EXCEPT ![k] = 0]

-----------------------------------------------------------------------------
Lifetime(ttl) == IF ttl = 0 THEN DefaultTTL ELSE ttl

(* How many keys put removes: the front of order, as long as a new key     *)
(* finds the table full.                                                   *)
Excess(k) ==
    IF k \in DOMAIN entries \/ Cardinality(DOMAIN entries) < Capacity THEN 0
    ELSE Cardinality(DOMAIN entries) - Capacity + 1

Evicted(k) == {order[n] : n \in 1 .. Excess(k)}
Remaining(k) == SubSeq(order, Excess(k) + 1, Len(order))

Put(k, v, ttl) ==
    /\ Capacity > 0 /\ ttl <= MaxEntryTTL
    /\ entries' = [c \in (DOMAIN entries \ Evicted(k)) \cup {k} |->
                     IF c = k THEN [value |-> v, expires_at |-> now + Lifetime(ttl)]
                     ELSE entries[c]]
    /\ order' = Append(IF k \in DOMAIN entries THEN RemoveFirst(Remaining(k), k)
                       ELSE Remaining(k), k)
    /\ used' = [c \in Keys |-> IF c = k THEN now
                              ELSE IF c \in Evicted(k) THEN 0 ELSE used[c]]

(* Too long a key or value (fits), too long a lifetime, or no cache at     *)
(* all: the call returns -1 and changes nothing.                           *)
PutRejected(fits, ttl) ==
    /\ Capacity = 0 \/ ~fits \/ ttl > MaxEntryTTL
    /\ UNCHANGED cacheVars

-----------------------------------------------------------------------------
(* No entry outlives the upper bound for lifetimes. *)
CacheTypeOK ==
    /\ now \in 0 .. MaxTime
    /\ DOMAIN entries \subseteq Keys
    /\ \A k \in DOMAIN entries : entries[k].expires_at \in 1 .. now + MaxEntryTTL
    /\ order \in Seq(Keys)
    /\ used \in [Keys -> 0 .. MaxTime]

(* "Front is the least recently used key; mirrors `entries` exactly"       *)
(* (cache.rs:41), whatever the workers' calls, expiries and evictions, and *)
(* there are never more than Capacity of them.                             *)
OrderIsLru ==
    /\ Range(order) = DOMAIN entries
    /\ Len(order) = Cardinality(DOMAIN entries)
    /\ Len(order) <= Capacity
    /\ \A n \in 1 .. Len(order) - 1 : used[order[n]] <= used[order[n + 1]]
=============================================================================
