------------------------------ MODULE LocalLogin ------------------------------
(***************************************************************************)
(* POST /login of the administration UI (auth.rs): the throttle is asked   *)
(* first, the password is verified on the blocking pool, and the outcome   *)
(* is reported to the throttle.  Every request is a task: others run       *)
(* between its steps, and it is dropped if its connection closes while it  *)
(* awaits the verification.                                                *)
(***************************************************************************)
EXTENDS LoginThrottle

CONSTANTS
    Tasks,   \* requests in progress
    MaxTime  \* bound on the clock

VARIABLES
    now,
    tasks,   \* the handlers; stamp is the time read for the next throttle call
    tried    \* ghost: failed logins of each name since it could start anew

vars == <<now, attempts, tasks, tried>>

None == "none"
Idle == [pc |-> "idle", name |-> None, stamp |-> 0]
Pcs == {"idle", "check", "verify", "fail", "success"}

Times == 0 .. MaxTime

TypeOK ==
    /\ now \in Times
    /\ Tracked \subseteq Names
    /\ \A n \in Tracked : attempts[n] \in
          [failures : Nat \ {0}, first : Times, locked : 0 .. MaxTime + Lockout, last : Times]
    /\ \A n \in Tracked : attempts[n].locked <= attempts[n].last + 1 + Lockout
    /\ tasks \in [Tasks -> [pc : Pcs, name : Names \cup {None}, stamp : Times]]
    /\ tried \in [Names -> Nat]

Init ==
    /\ now = 0 /\ attempts = << >>
    /\ tasks = [h \in Tasks |-> Idle]
    /\ tried = [n \in Names |-> 0]

-----------------------------------------------------------------------------
(* Between reading the clock and taking the mutex less than a unit of time *)
(* passes, so that stamps are late by one at most.                         *)
Tick ==
    /\ now < MaxTime /\ now' = now + 1
    /\ \A h \in Tasks : tasks[h].pc \in {"check", "fail"} => tasks[h].stamp = now
    /\ UNCHANGED <<attempts, tasks, tried>>

Goto(h, from, to) ==
    /\ tasks[h].pc = from
    /\ tasks' = [tasks EXCEPT ![h] = IF to = "idle" THEN Idle
                                       ELSE [@ EXCEPT !.pc = to, !.stamp = 0]]

(* Goes on and reads the clock for the next call of the throttle. *)
GotoStamped(h, from, to) ==
    /\ tasks[h].pc = from
    /\ tasks' = [tasks EXCEPT ![h].pc = to, ![h].stamp = now]

Login(h, n) ==
    /\ tasks[h].pc = "idle"
    /\ tasks' = [tasks EXCEPT ![h] = [pc |-> "check", name |-> n, stamp |-> now]]
    /\ UNCHANGED <<now, attempts, tried>>

(* The ghost of a name goes with its entry. *)
Forget == tried' = [n \in Names |-> IF n \in DOMAIN attempts' THEN tried[n] ELSE 0]

(* Mutant of LoginCheck: the throttle's answer is not heeded. *)
LoginUnchecked(h) ==
    /\ Goto(h, "check", "verify")
    /\ Check(tasks[h].stamp) /\ Forget
    /\ UNCHANGED now

(* 429 for a locked name. *)
LoginCheck(h) ==
    LET limited == Limited(tasks[h].name, tasks[h].stamp)
    IN  /\ \/ limited /\ Goto(h, "check", "idle")
           \/ ~limited /\ Goto(h, "check", "verify")
        /\ Check(tasks[h].stamp) /\ Forget
        /\ UNCHANGED now

(* The verification ends, or the task that makes it fails (500).  Too long *)
(* a name or password is a failure without a verification.                 *)
Verified(h) ==
    /\ \/ GotoStamped(h, "verify", "fail")
       \/ Goto(h, "verify", "success")
       \/ Goto(h, "verify", "idle")
    /\ UNCHANGED <<now, attempts, tried>>

(* The failure at t belongs with the earlier ones of its name: a lock is   *)
(* on, or none has been yet and the window is still open.                  *)
GoesOn(n, t) ==
    /\ n \in Tracked
    /\ \/ LimitedUntil(attempts[n].locked, t)
       \/ attempts[n].locked = NotLocked /\ Elapsed(attempts[n].first, t) <= Window

(* 401, or 429 if this or an earlier failure locked the name. *)
LoginFailed(h) ==
    LET n == tasks[h].name
        t == tasks[h].stamp
    IN  /\ Goto(h, "fail", "idle")
        /\ \E gone \in SUBSET Names : RecordFailure(n, t, gone)
        /\ tried' = [m \in Names |->
                        IF m = n THEN (IF GoesOn(n, t) THEN tried[n] + 1 ELSE 1)
                        ELSE IF m \in DOMAIN attempts' THEN tried[m] ELSE 0]
        /\ UNCHANGED now

(* create_session follows, see UiSessions. *)
LoginOk(h) ==
    /\ Goto(h, "success", "idle")
    /\ RecordSuccess(tasks[h].name) /\ Forget
    /\ UNCHANGED now

TaskDropped(h) ==
    /\ tasks[h].pc = "verify"
    /\ tasks' = [tasks EXCEPT ![h] = Idle]
    /\ UNCHANGED <<now, attempts, tried>>

Next ==
    \/ Tick
    \/ \E h \in Tasks :
          \/ \E n \in Names : Login(h, n)
          \/ LoginCheck(h) \/ Verified(h) \/ LoginFailed(h) \/ LoginOk(h)
          \/ TaskDropped(h)

Spec == Init /\ [][Next]_vars

-----------------------------------------------------------------------------
(* A name gets max_failures tries before it is locked, and during a lock   *)
(* only the logins that were past the check when it began can fail: one    *)
(* per other request in progress, however they overlap and whichever order *)
(* their stamps are applied in.  Tries start anew with a new window, after *)
(* a lock that has run out, and when the entry was cleared or evicted, so  *)
(* this bounds an entry and not a span of time: windows are fixed, and     *)
(* max_failures - 1 failures at the end of one may precede max_failures at *)
(* the beginning of the next.  The table of entries never exceeds          *)
(* max_tracked_entries.                                                    *)
TriesAreBounded ==
    /\ Cardinality(Tracked) <= MaxTracked
    /\ \A n \in Names : tried[n] <= MaxFailures + Cardinality(Tasks) - 1

(* What a step leaves of the locks. *)
LockKept ==
    \A n \in Tracked : LimitedUntil(attempts[n].locked, now) =>
        \/ n \in DOMAIN attempts' /\ attempts'[n].locked >= attempts[n].locked
        \/ \E h \in Tasks : tasks[h].pc = "success" /\ tasks[h].name = n
                            /\ tasks'[h].pc = "idle"
        \/ \E h \in Tasks : tasks[h].pc = "fail" /\ tasks'[h].pc = "idle"
                            /\ Cardinality(DOMAIN attempts') = MaxTracked
                            /\ n \in Oldest(Pruned(tasks[h].stamp))

(* A lock is never shortened: it ends with its time, with a correct login  *)
(* of the same name that had been let in before, or by an eviction from a  *)
(* full table in which nothing was seen less recently.                     *)
LockHolds == [][LockKept]_vars
=============================================================================
