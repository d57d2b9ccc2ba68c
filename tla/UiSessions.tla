------------------------------ MODULE UiSessions ------------------------------
(***************************************************************************)
(* Sessions of the administration UI (auth.rs, storage/audit.rs and the    *)
(* last two deletes of storage/retention.rs): signing in locally or with   *)
(* an OAuth provider, requests that need a session, logging out, revoking  *)
(* a session, and the pruner that removes expired rows.                    *)
(*                                                                         *)
(* Every handler is a task.  It carries the cookies its browser had when   *)
(* the request was sent, and is dropped if the connection closes while it  *)
(* awaits.  Its statements run under a timeout: once that has elapsed, or  *)
(* the handler was dropped, the server may still execute the statement     *)
(* later, or never.  What the provider's answers are made of is in         *)
(* OAuthProvider, the throttle of local logins in LocalLogin.              *)
(***************************************************************************)
EXTENDS Naturals, FiniteSets, Sequences

CONSTANTS
    Browsers, Tasks,
    StateTtl, SessionTtl,   \* OAUTH_STATE_TTL_SECS, session_ttl_hours
    BatchSize,              \* retention_prune_batch_size
    MaxTime,                \* bound on the clock
    MaxStates, MaxSessions, \* bounds on the tokens made
    MaxLate                 \* bound on the statements left behind at once

ASSUME SessionAssumption ==
    /\ StateTtl \in Nat /\ SessionTtl \in Nat
    /\ MaxStates \in Nat /\ MaxSessions \in Nat

VARIABLES
    now,
    states,    \* oauth_states: token -> expires_at
    sessions,  \* ui_sessions: token -> expires_at
    made,      \* how many tokens of each kind were made: they never repeat
    jar,       \* the cookies of every browser, 0: none
    tasks,     \* the handlers
    late,      \* statements whose handler no longer waits for them
    starter,   \* ghost: the browser each state token was given to, and its expires_at
    redeemed   \* ghost: of each login let through with it, whether it was that browser in time

tables == <<states, sessions>>
ghosts == <<starter, redeemed>>
vars == <<now, tables, made, jar, tasks, late, ghosts>>

StateTokens == 1 .. MaxStates
SessionTokens == 1 .. MaxSessions
NoRows == [k \in {} |-> 0]
NoCookies == [state |-> 0, session |-> 0]
Pcs == {"idle", "insert_state", "consume_state", "finish", "insert_session", "signed_in",
        "lookup", "delete_session", "logout", "logged_out"}

(* A handler: its browser, the cookies it carries, the token it works on   *)
(* with its expires_at, whether the browser came from the provider, and    *)
(* whether the session it carries had ended when it was sent.              *)
Idle == [pc |-> "idle", by |-> "nobody", session |-> 0, token |-> 0,
         expires |-> 0, oauth |-> FALSE, stale |-> FALSE]

Init ==
    /\ now = 0
    /\ states = NoRows /\ sessions = NoRows
    /\ made = [state |-> 0, session |-> 0]
    /\ jar = [b \in Browsers |-> NoCookies]
    /\ tasks = [h \in Tasks |-> Idle]
    /\ late = {}
    /\ starter = [s \in StateTokens |-> {}]
    /\ redeemed = [s \in StateTokens |-> << >>]

Insert(rows, k, t) == [r \in DOMAIN rows \cup {k} |-> IF r = k THEN t ELSE rows[r]]
Delete(rows, ks) == [r \in DOMAIN rows \ ks |-> rows[r]]

-----------------------------------------------------------------------------
(* Statements.  A row counts while expires_at > now(). *)

(* Mutant of Redeemable: an expired state is accepted. *)
RedeemableEver(s) == s \in DOMAIN states

Redeemable(s) == s \in DOMAIN states /\ states[s] > now
Live(k) == k \in DOMAIN sessions /\ sessions[k] > now

Execute(q) ==
    CASE q.op = "insert_state" ->
            states' = Insert(states, q.token, q.expires) /\ UNCHANGED sessions
      [] q.op = "consume_state" ->
            /\ states' = Delete(states, {s \in {q.token} : Redeemable(s)})
            /\ UNCHANGED sessions
      [] q.op = "insert_session" ->
            sessions' = Insert(sessions, q.token, q.expires) /\ UNCHANGED states
      [] q.op = "delete_session" ->
            sessions' = Delete(sessions, {q.token}) /\ UNCHANGED states

(* The statement a handler awaits, if it is one that writes. *)
Statement(h) ==
    LET t == tasks[h]
        Of(op, token) == [op |-> op, token |-> token, expires |-> t.expires]
    IN  CASE t.pc = "logout" -> {Of("delete_session", t.session)}
          [] t.pc \in {"insert_state", "consume_state", "insert_session", "delete_session"} ->
                {Of(t.pc, t.token)}
          [] OTHER -> {}

(* auth_db_timeout: the statement is answered in time, or the handler goes *)
(* on without an answer and the statement failed or is left behind.        *)
Answered(h) == (\A q \in Statement(h) : Execute(q)) /\ UNCHANGED late
Unanswered(h) ==
    /\ UNCHANGED tables
    /\ late' \in {late, late \cup Statement(h)} /\ Cardinality(late') <= MaxLate

LateStatement ==
    \E q \in late :
        /\ late' = late \ {q}
        /\ Execute(q) \/ UNCHANGED tables
        /\ UNCHANGED <<now, made, jar, tasks, ghosts>>

-----------------------------------------------------------------------------
At(h, pc) == tasks[h].pc = pc
Goto(h, pc) == tasks' = [tasks EXCEPT ![h].pc = pc]
Finish(h) == tasks' = [tasks EXCEPT ![h] = Idle]
SetCookie(h, name, token) == jar' = [jar EXCEPT ![tasks[h].by][name] = token]

(* A request of b, handled up to its first await. *)
Send(h, b, pc, token, expires) ==
    /\ At(h, "idle")
    /\ tasks' = [tasks EXCEPT ![h] =
          [Idle EXCEPT !.pc = pc, !.by = b, !.token = token, !.expires = expires]]

(* A request that reads the session cookie. *)
SendSession(h, b, pc) ==
    /\ At(h, "idle") /\ jar[b].session # 0
    /\ tasks' = [tasks EXCEPT ![h] =
          [Idle EXCEPT !.pc = pc, !.by = b, !.session = jar[b].session,
                       !.stale = pc = "lookup" /\ ~Live(jar[b].session)]]

(* GET /oauth/start, past the discovery of the provider. *)
OauthStart(h, b) ==
    /\ made.state < MaxStates
    /\ made' = [made EXCEPT !.state = @ + 1]
    /\ Send(h, b, "insert_state", made.state + 1, now + StateTtl)
    /\ UNCHANGED <<now, tables, jar, late, ghosts>>

(* The redirect carries the state to the browser; 502, without a cookie,   *)
(* if the authorization endpoint is no URL, 500 if the insert failed.      *)
OauthStarted(h) ==
    LET s == tasks[h].token
    IN  /\ At(h, "insert_state") /\ Finish(h)
        /\ \/ /\ Answered(h) /\ SetCookie(h, "state", s)
              /\ starter' = [starter EXCEPT ![s] = {<<tasks[h].by, tasks[h].expires>>}]
           \/ (Answered(h) \/ Unanswered(h)) /\ UNCHANGED <<jar, starter>>
        /\ UNCHANGED <<now, made, redeemed>>

(* GET /oauth/callback with a state that was sent to the provider.  401    *)
(* unless it equals the cookie, 400 for an empty or overlong code; both    *)
(* clear the state cookie.                                                 *)
StateCookieMatches(b, s) == jar[b].state = s
OauthCallback(h, b, s) ==
    /\ At(h, "idle") /\ starter[s] # {}
    /\ \/ /\ StateCookieMatches(b, s)
          /\ Send(h, b, "consume_state", s, 0) /\ UNCHANGED jar
       \/ jar' = [jar EXCEPT ![b].state = 0] /\ UNCHANGED tasks
    /\ UNCHANGED <<now, tables, made, late, ghosts>>

(* The state is redeemed; 401 if it is not there or has expired, 500       *)
(* without an answer, which leaves the state cookie.                       *)
OauthConsume(h) ==
    LET s == tasks[h].token
    IN  /\ At(h, "consume_state")
        /\ \/ /\ Redeemable(s) /\ Answered(h) /\ Goto(h, "finish")
              /\ redeemed' = [redeemed EXCEPT ![s] = Append(@,
                    \E begun \in starter[s] : tasks[h].by = begun[1] /\ now < begun[2])]
              /\ UNCHANGED jar
           \/ /\ ~Redeemable(s) /\ Answered(h) /\ Finish(h)
              /\ SetCookie(h, "state", 0) /\ UNCHANGED redeemed
           \/ Unanswered(h) /\ Finish(h) /\ UNCHANGED <<jar, redeemed>>
        /\ UNCHANGED <<now, made, starter>>

(* create_session: a new token, to be inserted. *)
CreateSession(h, oauth) ==
    /\ made.session < MaxSessions
    /\ made' = [made EXCEPT !.session = @ + 1]
    /\ tasks' = [tasks EXCEPT ![h] =
          [@ EXCEPT !.pc = "insert_session", !.token = made.session + 1,
                    !.expires = now + SessionTtl, !.oauth = oauth]]

(* FinishOauth accepts the user, or the login fails (401). *)
OauthFinish(h) ==
    /\ At(h, "finish")
    /\ \/ CreateSession(h, TRUE) /\ UNCHANGED jar
       \/ Finish(h) /\ SetCookie(h, "state", 0) /\ UNCHANGED made
    /\ UNCHANGED <<now, tables, late, ghosts>>

(* POST /login once the throttle and the password let it through. *)
LocalLogin(h, b) ==
    /\ At(h, "idle") /\ made.session < MaxSessions
    /\ made' = [made EXCEPT !.session = @ + 1]
    /\ Send(h, b, "insert_session", made.session + 1, now + SessionTtl)
    /\ UNCHANGED <<now, tables, jar, late, ghosts>>

(* The session is stored and audited; 500 otherwise, which for OAuth       *)
(* clears the state cookie.                                                *)
SessionInserted(h) ==
    /\ At(h, "insert_session")
    /\ \/ Answered(h) /\ Goto(h, "signed_in") /\ UNCHANGED jar
       \/ /\ Unanswered(h) /\ Finish(h)
          /\ IF tasks[h].oauth THEN SetCookie(h, "state", 0) ELSE UNCHANGED jar
    /\ UNCHANGED <<now, made, ghosts>>

(* However the audit insert ended. *)
SignedIn(h) ==
    /\ At(h, "signed_in") /\ Finish(h)
    /\ jar' = [jar EXCEPT ![tasks[h].by] =
          [state |-> IF tasks[h].oauth THEN 0 ELSE @.state, session |-> tasks[h].token]]
    /\ UNCHANGED <<now, tables, made, late, ghosts>>

(* A request behind require_auth, or GET /me: 401 without the cookie. *)
Request(h, b) ==
    /\ SendSession(h, b, "lookup")
    /\ UNCHANGED <<now, tables, made, jar, late, ghosts>>

(* current_user.  Of the handlers behind it only DELETE /ui-sessions/{hash} *)
(* changes this state; 401 if the session is not live, 500 on an error.     *)

(* Mutant of Admitted: expires_at is left to the pruner. *)
AdmittedByRow(h) == tasks[h].session \in DOMAIN sessions

Admitted(h) == Live(tasks[h].session)
Lookup(h) ==
    /\ At(h, "lookup")
    /\ \/ /\ Admitted(h)
          /\ \E k \in 1 .. made.session :
                tasks' = [tasks EXCEPT ![h] =
                   [@ EXCEPT !.pc = "delete_session", !.session = 0, !.token = k]]
       \/ Finish(h)
    /\ UNCHANGED <<now, tables, made, jar, late, ghosts>>

(* 404 if there was no such row; else an audit event, which changes        *)
(* nothing here, and 200; 500 on an error.                                 *)
RevokeUiSession(h) ==
    /\ At(h, "delete_session") /\ Finish(h)
    /\ Answered(h) \/ Unanswered(h)
    /\ UNCHANGED <<now, made, jar, ghosts>>

(* POST /logout: however the delete and the audit insert end, the answer   *)
(* clears the cookie, also if the request had none.                        *)
Logout(h, b) ==
    /\ \/ SendSession(h, b, "logout")
       \/ jar[b].session = 0 /\ Send(h, b, "logged_out", 0, 0)
    /\ UNCHANGED <<now, tables, made, jar, late, ghosts>>
LogoutDelete(h) ==
    /\ At(h, "logout")
    /\ tasks' = [tasks EXCEPT ![h] = [Idle EXCEPT !.pc = "logged_out", !.by = tasks[h].by]]
    /\ Answered(h) \/ Unanswered(h)
    /\ UNCHANGED <<now, made, jar, ghosts>>
LoggedOut(h) ==
    /\ At(h, "logged_out") /\ Finish(h) /\ SetCookie(h, "session", 0)
    /\ UNCHANGED <<now, tables, made, late, ghosts>>

(* The connection closes: the handler is dropped where it waits. *)
Dropped(h) ==
    /\ ~At(h, "idle") /\ Finish(h) /\ Unanswered(h)
    /\ UNCHANGED <<now, made, jar, ghosts>>

-----------------------------------------------------------------------------
(* prune_retention, its last two statements, in a pass that began at       *)
(* since: BatchSize rows of a table at most, the longest expired first.    *)
(* An earlier statement that fails ends the pass; one that finds nothing   *)
(* to remove changes nothing.                                              *)

(* Mutant of Doomed: any rows are removed. *)
DoomedEarly(rows, since) == {ks \in SUBSET DOMAIN rows : Cardinality(ks) <= BatchSize}

Doomed(rows, since) ==
    LET expired == {k \in DOMAIN rows : rows[k] < since}
    IN  {ks \in SUBSET expired :
            /\ Cardinality(ks) <= BatchSize
            /\ Cardinality(ks) = BatchSize \/ ks = expired
            /\ \A k \in ks, r \in expired \ ks : rows[k] <= rows[r]}

DeleteExpiredUiSessions(since) ==
    /\ \E ks \in Doomed(sessions, since) \ {{}} : sessions' = Delete(sessions, ks)
    /\ UNCHANGED <<now, states, made, jar, tasks, late, ghosts>>
DeleteExpiredOauthStates(since) ==
    /\ \E ks \in Doomed(states, since) \ {{}} : states' = Delete(states, ks)
    /\ UNCHANGED <<now, sessions, made, jar, tasks, late, ghosts>>

Tick ==
    /\ now < MaxTime /\ now' = now + 1
    /\ UNCHANGED <<tables, made, jar, tasks, late, ghosts>>

Next ==
    \/ Tick \/ LateStatement
    \/ \E since \in 0 .. now :
          DeleteExpiredUiSessions(since) \/ DeleteExpiredOauthStates(since)
    \/ \E h \in Tasks :
          \/ \E b \in Browsers :
                \/ OauthStart(h, b) \/ LocalLogin(h, b) \/ Request(h, b) \/ Logout(h, b)
                \/ \E s \in StateTokens : OauthCallback(h, b, s)
          \/ OauthStarted(h) \/ OauthConsume(h) \/ OauthFinish(h)
          \/ SessionInserted(h) \/ SignedIn(h)
          \/ Lookup(h) \/ RevokeUiSession(h)
          \/ LogoutDelete(h) \/ LoggedOut(h) \/ Dropped(h)

Spec == Init /\ [][Next]_vars

-----------------------------------------------------------------------------
(* However a callback is repeated, shared, delayed or timed out, a state   *)
(* lets one login through at most, in the browser that started it and      *)
(* before it expired (auth.rs, oauth_callback).                            *)
StateRedeemedOnce ==
    \A s \in StateTokens :
        Len(redeemed[s]) <= 1 /\ \A i \in 1 .. Len(redeemed[s]) : redeemed[s][i]

(* A session that has ended when a request is sent (expired, logged out or *)
(* revoked, by whichever handler) does not let that request in.            *)
EndedSessionsAreRefused ==
    \A h \in Tasks : tasks[h].pc = "delete_session" => ~tasks[h].stale

(* A session ends because it expired, or because someone let in ended it:  *)
(* the holder of its cookie by a logout, or a revocation; neither the      *)
(* pruner nor a late statement takes away any other.                       *)
SessionsEndForAReason ==
    [][\A k \in DOMAIN sessions \ DOMAIN sessions' :
         \/ sessions[k] <= now
         \/ \E h \in Tasks :
               \/ tasks[h].pc = "logout" /\ tasks[h].session = k
               \/ tasks[h].pc = "delete_session" /\ tasks[h].token = k
         \/ \E q \in late : q.op = "delete_session" /\ q.token = k]_vars
=============================================================================
