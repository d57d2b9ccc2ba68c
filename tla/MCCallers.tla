------------------------------ MODULE MCCallers ------------------------------
(***************************************************************************)
(* The components that tell who a caller is, for TLC, one at a time: the   *)
(* sessions of the administration UI (extended), the throttle of local     *)
(* logins and the identity plugin of the proxy (instantiated).  They share *)
(* no state, so that a run of all three at once would only multiply them.  *)
(***************************************************************************)
EXTENDS UiSessions, TLC

CONSTANTS
    Names, MaxFailures, Window, Lockout, MaxTracked, LoginTime,
    Keys, OtherKeys, Capacity, DefaultTTL, MaxEntryTTL, IdentityTTL,
    Timeout, Users, Invokers, MaxChanges, PluginTime

(* What validation and the code's own limits leave of the settings. *)
ASSUME CallerConstants ==
    /\ {StateTtl, SessionTtl, BatchSize} \subseteq Nat \ {0}
    /\ IsFiniteSet(Tasks)
    /\ {MaxFailures, Window, Lockout, MaxTracked} \subseteq Nat \ {0}
    /\ {LoginTime, PluginTime} \subseteq Nat
    /\ OtherKeys \subseteq Keys /\ OtherKeys # Keys /\ 0 \notin Users
    /\ {Capacity, Timeout, MaxEntryTTL, MaxChanges} \subseteq Nat
    /\ {DefaultTTL, IdentityTTL} \subseteq 1 .. MaxEntryTTL

VARIABLES
    area,                                \* the component of this behaviour
    attempts, logins, tried,
    entries, order, used, owner, changes, lastHad, runs

L == INSTANCE LocalLogin WITH MaxTime <- LoginTime, tasks <- logins
P == INSTANCE IdentityPlugin WITH MaxTime <- PluginTime

sessionVars == <<tables, made, jar, tasks, late, ghosts>>
loginVars == <<attempts, logins, tried>>
pluginVars == <<entries, order, used, owner, changes, lastHad, runs>>
allVars == <<area, now, sessionVars, loginVars, pluginVars>>

MCInit ==
    /\ area \in {"sessions", "logins", "plugin"}
    /\ Init /\ L!Init /\ P!Init

SessionStep == area = "sessions" /\ Next /\ UNCHANGED <<area, loginVars, pluginVars>>
LoginStep == area = "logins" /\ L!Next /\ UNCHANGED <<area, sessionVars, pluginVars>>
PluginStep == area = "plugin" /\ P!Next /\ UNCHANGED <<area, sessionVars, loginVars>>

MCNext == SessionStep \/ LoginStep \/ PluginStep

MCSpec == MCInit /\ [][MCNext]_allVars

(* Two of the names are also the browsers, so that few permutations do. *)
Symmetry == Permutations(Browsers) \cup Permutations(Tasks)

-----------------------------------------------------------------------------
(* Of LocalLogin: a name gets max_failures tries and, once it is locked,   *)
(* one more for every login that was already past the check; the table     *)
(* stays within max_tracked_entries.                                       *)
TriesAreBounded == area = "logins" => L!TypeOK /\ L!TriesAreBounded

(* Of LocalLogin: a lock ends with its time, a correct login that had been *)
(* let in before, or the eviction of the entry seen least recently.        *)
LockHolds == L!LockHolds

(* Of PluginCache: the order mirrors the entries, least recently used      *)
(* first, and there are never more than the capacity.                      *)
OrderIsLru == area = "plugin" => P!OrderIsLru

(* Of IdentityPlugin: a trace is attributed to a user who had its key not  *)
(* long ago, and no partial resolution is cached.                          *)
AttributionIsRecent == area = "plugin" => P!TypeOK /\ P!AttributionIsRecent
=============================================================================
