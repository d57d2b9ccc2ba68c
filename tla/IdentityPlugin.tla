---------------------------- MODULE IdentityPlugin ----------------------------
(***************************************************************************)
(* The LiteLLM identity plugin (litellm-user-plugin/src/lib.rs) run by the *)
(* trace workers: each invocation asks the cache for the identity behind a *)
(* key, else the gateway, and stores what it resolved.  Invocations of     *)
(* several workers interleave between the host calls, the gateway may give *)
(* a key to another user at any time, and other plugins share the cache.   *)
(***************************************************************************)
EXTENDS PluginCache

CONSTANTS
    OtherKeys,   \* keys that other plugins use
    Users,       \* users of the gateway
    Invokers,    \* trace workers
    IdentityTTL, \* IDENTITY_CACHE_TTL_SECS
    Timeout,     \* timeout_ms of the plugin
    MaxChanges   \* bound on changes at the gateway

VARIABLES
    owner,   \* the gateway: the user of each key
    changes, \* changes made there so far
    lastHad, \* ghost: when each key last belonged to each user
    runs     \* the last invocation by each worker

gatewayVars == <<owner, changes, lastHad>>
vars == <<now, cacheVars, gatewayVars, runs>>

NoUser == 0          \* a team or service key
Never == -1
LiteKeys == Keys \ OtherKeys
Owners == Users \cup {NoUser}

(* An identity: the user and whether the name was resolved as well. *)
Identity(u, n) == [user |-> u, named |-> n]
Nobody == Identity(NoUser, FALSE)
Identities == [user : Owners, named : BOOLEAN]

(* A user resolved to the end, or a key without one. *)
Cacheable == {Nobody} \cup {Identity(u, TRUE) : u \in Users}

(* An invocation; lag is a ghost: how long ago the user it reported had    *)
(* the key, MaxTime + 1 if never.                                          *)
Runs == [pc : {"cache", "key", "user", "put", "emit", "done"}, key : LiteKeys,
         since : 0 .. MaxTime, id : Identities, lag : 0 .. MaxTime + 1]

Over(lag) == [pc |-> "done", key |-> CHOOSE k \in LiteKeys : TRUE,
              since |-> 0, id |-> Nobody, lag |-> lag]

TypeOK ==
    /\ CacheTypeOK
    /\ owner \in [LiteKeys -> Owners] /\ changes \in 0 .. MaxChanges
    /\ lastHad \in [LiteKeys -> [Owners -> {Never} \cup 0 .. MaxTime]]
    /\ runs \in [Invokers -> Runs]

Init ==
    /\ CacheInit
    /\ owner \in [LiteKeys -> Users] /\ changes = 0
    /\ lastHad = [k \in LiteKeys |-> [u \in Owners |->
                    IF u = owner[k] THEN 0 ELSE Never]]
    /\ runs = [w \in Invokers |-> Over(0)]

-----------------------------------------------------------------------------
(* Time, the gateway and the other plugins.                                *)

(* The host traps an invocation that is still running at its deadline. *)
Overdue(w) == runs[w].pc # "done" /\ now >= runs[w].since + Timeout

Tick ==
    /\ now < MaxTime /\ \A w \in Invokers : ~Overdue(w)
    /\ now' = now + 1
    /\ lastHad' = [k \in LiteKeys |-> [lastHad[k] EXCEPT ![owner[k]] = now + 1]]
    /\ UNCHANGED <<cacheVars, owner, changes, runs>>

Reassign(k, u) ==
    /\ changes < MaxChanges /\ u # owner[k]
    /\ owner' = [owner EXCEPT ![k] = u] /\ changes' = changes + 1
    /\ lastHad' = [lastHad EXCEPT ![k][u] = now]
    /\ UNCHANGED <<now, cacheVars, runs>>

OtherPlugin(k) ==
    /\ \/ GetHit(k) \/ GetMiss(k)
       \/ \E ttl \in {0, MaxEntryTTL + 1} :
             Put(k, Nobody, ttl) \/ PutRejected(TRUE, ttl)
    /\ UNCHANGED <<now, gatewayVars, runs>>

-----------------------------------------------------------------------------
(* One invocation of the on_request_start hook.                            *)

Step(w, from, to) ==
    /\ runs[w].pc = from /\ runs' = [runs EXCEPT ![w].pc = to]

Learn(w, from, to, id) ==
    /\ runs[w].pc = from
    /\ runs' = [runs EXCEPT ![w].pc = to, ![w].id = id]

Invoke(w, k) ==
    /\ runs[w].pc = "done"
    /\ runs' = [runs EXCEPT ![w] = [pc |-> "cache", key |-> k, since |-> now,
                                    id |-> Nobody, lag |-> 0]]
    /\ UNCHANGED <<now, cacheVars, gatewayVars>>

CachedIdentity(w) ==
    LET k == runs[w].key
    IN  /\ \/ GetHit(k) /\ Learn(w, "cache", "emit", entries[k].value)
           \/ GetMiss(k) /\ Step(w, "cache", "key")
        /\ UNCHANGED <<now, gatewayVars>>

(* http_get answers only before the deadline of the invocation. *)
Answered(w) == ~Overdue(w)

(* No origin, a URL that is not allowed, no answer, another status than    *)
(* 200 or no JSON: the lookup failed, the trace gets a tag.                *)
LookupFails(w, from) == Step(w, from, "emit")

(* A JSON document without an "info" object is no failure here: user_id    *)
(* stays None and the plugin goes on as for a team key.                    *)
KeyLookup(w) ==
    /\ \/ LookupFails(w, "key")
       \/ Answered(w) /\ Step(w, "key", "put")
       \/ /\ Answered(w) /\ owner[runs[w].key] # NoUser
          /\ Learn(w, "key", "user", Identity(owner[runs[w].key], FALSE))
    /\ UNCHANGED <<now, cacheVars, gatewayVars>>

(* Mutant of UserLookup: an identity without its name is cached. *)
UserLookupLax(w) ==
    /\ \/ Step(w, "user", "put")
       \/ Answered(w) /\ Learn(w, "user", "put", Identity(runs[w].id.user, TRUE))
    /\ UNCHANGED <<now, cacheVars, gatewayVars>>

UserLookup(w) ==
    /\ \/ LookupFails(w, "user")
       \/ Answered(w) /\ Learn(w, "user", "put", Identity(runs[w].id.user, TRUE))
    /\ UNCHANGED <<now, cacheVars, gatewayVars>>

(* A document of escaped characters may exceed the size of a cache value. *)
StoreIdentity(w) ==
    /\ Step(w, "put", "emit")
    /\ \/ Put(runs[w].key, runs[w].id, IdentityTTL)
       \/ PutRejected(FALSE, IdentityTTL)
    /\ UNCHANGED <<now, gatewayVars>>

Lag(k, u) ==
    IF u = NoUser THEN 0
    ELSE IF lastHad[k][u] = Never THEN MaxTime + 1 ELSE now - lastHad[k][u]

Emit(w) ==
    /\ runs[w].pc = "emit"
    /\ runs' = [runs EXCEPT ![w] = Over(Lag(runs[w].key, runs[w].id.user))]
    /\ UNCHANGED <<now, cacheVars, gatewayVars>>

(* run_hook turns the trap into a warning; nothing is reported. *)
Trap(w) ==
    /\ Overdue(w)
    /\ runs' = [runs EXCEPT ![w] = Over(0)]
    /\ UNCHANGED <<now, cacheVars, gatewayVars>>

Next ==
    \/ Tick
    \/ \E k \in LiteKeys, u \in Owners : Reassign(k, u)
    \/ \E k \in OtherKeys : OtherPlugin(k)
    \/ \E w \in Invokers :
          \/ \E k \in LiteKeys : Invoke(w, k)
          \/ CachedIdentity(w) \/ KeyLookup(w) \/ UserLookup(w)
          \/ StoreIdentity(w) \/ Emit(w) \/ Trap(w)

Spec == Init /\ [][Next]_vars

-----------------------------------------------------------------------------
(* A trace is only attributed to a user who really had its key, and not    *)
(* longer ago than the lifetime of an entry and two invocations: the one   *)
(* that asked the gateway and stored the answer late, and the one that     *)
(* read the entry just before it expired.  A slow invocation that stores   *)
(* an older answer over a newer one does not break this.  "Partial"        *)
(* resolutions are never cached (lib.rs:34): a user in the cache has been  *)
(* resolved to the end, a failed user lookup is not kept for an hour.      *)
AttributionIsRecent ==
    /\ \A w \in Invokers : runs[w].lag < IdentityTTL + 2 * Timeout
    /\ \A k \in DOMAIN entries \ OtherKeys : entries[k].value \in Cacheable

(* The failed and unparseable resolutions of lib.rs:34 are not cached      *)
(* either: a key cached as one "that genuinely has no user" (lib.rs:206)   *)
(* was without one at some time.                                           *)
CachedIsGenuine ==
    \A k \in DOMAIN entries \ OtherKeys :
        entries[k].value.user = NoUser => lastHad[k][NoUser] # Never
=============================================================================
