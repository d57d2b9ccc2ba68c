---------------------------- MODULE LoginThrottle ----------------------------
(***************************************************************************)
(* The in-memory login throttle (login_throttle.rs).  Its three operations *)
(* run under one mutex, but Instant::now() is read before the mutex is     *)
(* taken: they may be applied with times t that do not grow.               *)
(***************************************************************************)
EXTENDS Integers, FiniteSets

CONSTANTS
    Names,       \* pairs of trimmed lower-case user name and address
    MaxFailures, \* max_failures
    Window,      \* window_secs
    Lockout,     \* lockout_secs
    MaxTracked   \* max_tracked_entries

(* All limits are positive: a zero among them disables the throttle        *)
(* (enabled), which then changes nothing.                                  *)

VARIABLE attempts    \* name -> failures, first_failure, locked_until, last_seen

NotLocked == 0
Tracked == DOMAIN attempts

LimitedUntil(locked, t) == locked > t

(* Instant::duration_since does not go below zero. *)
Elapsed(first, t) == IF t > first THEN t - first ELSE 0

(* Mutant of Kept: an entry is forgotten with its window, locked or not. *)
KeptInWindow(s, t) == Elapsed(s.first, t) <= Window

Kept(s, t) == LimitedUntil(s.locked, t) \/ Elapsed(s.first, t) <= Window

Pruned(t) == [n \in {m \in Tracked : Kept(attempts[m], t)} |-> attempts[n]]

(* check_at: prunes and says whether the name is locked. *)
Limited(n, t) == n \in DOMAIN Pruned(t) /\ LimitedUntil(Pruned(t)[n].locked, t)

Check(t) == attempts' = Pruned(t)

-----------------------------------------------------------------------------
Oldest(table) == {n \in DOMAIN table :
                    \A m \in DOMAIN table : table[n].last <= table[m].last}

(* Mutant of Victims: the limit is checked after it has been passed. *)
VictimsLate(table, n) ==
    IF n \notin DOMAIN table /\ Cardinality(DOMAIN table) > MaxTracked
    THEN {{v} : v \in Oldest(table)} ELSE {{}}

(* What remove_oldest may remove to make room for n: one entry that was    *)
(* seen least recently, whichever the hash map yields first.               *)
Victims(table, n) ==
    IF n \notin DOMAIN table /\ Cardinality(DOMAIN table) >= MaxTracked
    THEN {{v} : v \in Oldest(table)} ELSE {{}}

Fresh(t) == [failures |-> 0, first |-> t, locked |-> NotLocked, last |-> t]

Restarted(s, t) == IF Elapsed(s.first, t) > Window THEN Fresh(t) ELSE s

(* Mutant of Failed: one failure more than allowed goes unlocked. *)
FailedLate(s, t) ==
    IF LimitedUntil(s.locked, t) THEN [s EXCEPT !.last = t]
    ELSE LET r == Restarted(s, t)
         IN  [r EXCEPT !.failures = @ + 1, !.last = t,
                !.locked = IF r.failures + 1 > MaxFailures THEN t + Lockout ELSE @]

(* One more failure of an entry that is not locked, which may lock it. *)
Failed(s, t) ==
    IF LimitedUntil(s.locked, t) THEN [s EXCEPT !.last = t]
    ELSE LET r == Restarted(s, t)
         IN  [r EXCEPT !.failures = @ + 1, !.last = t,
                !.locked = IF r.failures + 1 >= MaxFailures THEN t + Lockout ELSE @]

(* record_failure_at; gone is what it evicted. *)
RecordFailure(n, t, gone) ==
    LET table == Pruned(t)
        state == IF n \in DOMAIN table THEN table[n] ELSE Fresh(t)
    IN  /\ gone \in Victims(table, n)
        /\ attempts' = [m \in (DOMAIN table \ gone) \cup {n} |->
                          IF m = n THEN Failed(state, t) ELSE table[m]]

RecordSuccess(n) == attempts' = [m \in Tracked \ {n} |-> attempts[m]]
=============================================================================
