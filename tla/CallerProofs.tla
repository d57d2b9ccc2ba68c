---------------------------- MODULE CallerProofs ----------------------------
(***************************************************************************)
(* Who a caller is: the three components of MCCallers, for any number of   *)
(* browsers, handlers, names, keys, users and workers and all settings.    *)
(*                                                                         *)
(* I. Sessions.  Nothing the runs check is inductive, because a token is   *)
(* safe only if no insert of it is to come.  StateInv says so of state     *)
(* tokens: who may still insert one, that this is one handler or one late  *)
(* statement, and that a token in a cookie or on its way back was given to *)
(* that browser.  SessionInv says so of sessions (Known), from which it    *)
(* follows that a session that has ended has ended for good.               *)
(*                                                                         *)
(* II. Logins.  Until its first lock the tries of a name are the failures  *)
(* of its entry.  A lock begins with max_failures of them at most, and     *)
(* only the other logins in progress can be past the check; each of them   *)
(* fails once under the lock and is then gone (Past, NameInv).             *)
(*                                                                         *)
(* III. Identities.  The order of the cache is that of the last uses, over *)
(* the keys of the entries (CacheInv).  What an invocation has learnt from *)
(* the gateway was so after it began (HadSince); an entry ends within its  *)
(* lifetime and one timeout from the time its user had the key, so that    *)
(* what is read from it is at most one timeout older (HadLately).          *)
(***************************************************************************)
EXTENDS MCCallers, CollectionTheorems

-----------------------------------------------------------------------------
(* I. The sessions of the administration UI.                               *)

Ops == {"insert_state", "consume_state", "insert_session", "delete_session"}
Statements == [op : Ops, token : Nat, expires : Nat]
Handlers == [pc : Pcs, by : Browsers \cup {"nobody"}, session : Nat, token : Nat,
             expires : Nat, oauth : BOOLEAN, stale : BOOLEAN]
Outcomes == {<< >>, <<TRUE>>}
IsRows(rows) == \A k \in DOMAIN rows : rows[k] \in Nat

TypeOK ==
    /\ now \in Nat
    /\ IsRows(states) /\ IsRows(sessions)
    /\ made \in [state : Nat, session : Nat] /\ made.state <= MaxStates
    /\ jar \in [Browsers -> [state : Nat, session : Nat]]
    /\ tasks \in [Tasks -> Handlers]
    /\ \A h \in Tasks : tasks[h].pc # "idle" => tasks[h].by \in Browsers
    /\ late \subseteq Statements
    /\ starter \in [StateTokens -> SUBSET (Browsers \X Nat)]
    /\ redeemed \in [StateTokens -> Outcomes]

(* Someone has yet to insert the row, and how. *)
Inserts(h, op, k) == tasks[h].pc = op /\ tasks[h].token = k
LateInsert(op, k) == \E q \in late : q.op = op /\ q.token = k

(* The state was given to browser b, with this expires_at. *)
GivenTo(s, b, e) == s \in StateTokens /\ e \in Nat /\ starter[s] = {<<b, e>>}

(* Of a state token: once redeemed its row is gone, and while it has a row *)
(* this row expires as the browser was told.                               *)
TokenInv(s) ==
    /\ starter[s] = {} => redeemed[s] = << >>
    /\ redeemed[s] # << >> => s \notin DOMAIN states
    /\ s > made.state => starter[s] = {}
    /\ \A b \in Browsers, e \in Nat : <<b, e>> \in starter[s] =>
          starter[s] = {<<b, e>>} /\ (s \in DOMAIN states => states[s] = e)

(* A token is inserted by one handler or one late statement, and given to  *)
(* its browser only when no insert of it is to come.                       *)
StartInv(h) ==
    tasks[h].pc = "insert_state" =>
        /\ tasks[h].token \in 1 .. made.state /\ starter[tasks[h].token] = {}
        /\ ~LateInsert("insert_state", tasks[h].token)
        /\ \A g \in Tasks : Inserts(g, "insert_state", tasks[h].token) => g = h
LateStateInv ==
    \A q \in late : q.op = "insert_state" =>
        q.token \in 1 .. made.state /\ starter[q.token] = {}

(* Who redeems a token, or holds its cookie, is who it was given to. *)
ConsumeInv(h) ==
    tasks[h].pc = "consume_state" => \E e \in Nat : GivenTo(tasks[h].token, tasks[h].by, e)
CookieInv(b) == jar[b].state # 0 => \E e \in Nat : GivenTo(jar[b].state, b, e)

StateInv ==
    /\ \A s \in StateTokens : TokenInv(s)
    /\ \A h \in Tasks : StartInv(h) /\ ConsumeInv(h)
    /\ \A b \in Browsers : CookieInv(b)
    /\ LateStateInv

(* The session has been inserted for good: no insert of it is to come. *)
Known(k) ==
    /\ k \in 1 .. made.session
    /\ \A h \in Tasks : ~Inserts(h, "insert_session", k)
    /\ ~LateInsert("insert_session", k)

HandlerInv(h) ==
    /\ tasks[h].session # 0 => Known(tasks[h].session)
    /\ tasks[h].pc = "signed_in" => Known(tasks[h].token)
    /\ tasks[h].pc = "insert_session" =>
          /\ tasks[h].token \in 1 .. made.session
          /\ ~LateInsert("insert_session", tasks[h].token)
          /\ \A g \in Tasks : Inserts(g, "insert_session", tasks[h].token) => g = h

(* A session that had ended when the request was sent has ended for good. *)
StaleInv(h) ==
    tasks[h].stale => /\ tasks[h].pc = "lookup" /\ tasks[h].session # 0
                      /\ ~Live(tasks[h].session)

SessionInv ==
    /\ \A b \in Browsers : jar[b].session # 0 => Known(jar[b].session)
    /\ \A h \in Tasks : HandlerInv(h) /\ StaleInv(h)
    /\ \A q \in late : q.op = "insert_session" => q.token \in 1 .. made.session

IInv == TypeOK /\ StateInv /\ SessionInv

-----------------------------------------------------------------------------
(* Init. *)
LEMMA InitIInv == Init => IInv
<1> SUFFICES ASSUME Init PROVE IInv OBVIOUS
<1> USE SessionAssumption DEF Init
<1>1. TypeOK
  BY DEF TypeOK, IsRows, NoRows, NoCookies, Idle, Handlers, Pcs, Outcomes
<1>2. StateInv
  BY DEF StateInv, TokenInv, StartInv, ConsumeInv, CookieInv, LateStateInv,
         StateTokens, NoRows, NoCookies, Idle
<1>3. SessionInv
  BY DEF SessionInv, HandlerInv, StaleInv, NoCookies, Idle
<1> QED BY <1>1, <1>2, <1>3 DEF IInv

-----------------------------------------------------------------------------
(* What a statement can do to the tables. *)
LEMMA ExecuteRows ==
  ASSUME TypeOK, NEW q \in Statements, Execute(q)
  PROVE  /\ IsRows(states') /\ IsRows(sessions')
         /\ \A k \in DOMAIN states' :
               \/ k \in DOMAIN states /\ states'[k] = states[k]
               \/ q.op = "insert_state" /\ k = q.token /\ states'[k] = q.expires
         /\ \A k \in DOMAIN sessions' :
               \/ k \in DOMAIN sessions /\ sessions'[k] = sessions[k]
               \/ q.op = "insert_session" /\ k = q.token /\ sessions'[k] = q.expires
         /\ \A k \in DOMAIN sessions \ DOMAIN sessions' :
               q.op = "delete_session" /\ k = q.token
<1> USE DEF TypeOK, IsRows, Statements, Ops, Insert, Delete, Redeemable
<1>1. CASE q.op = "insert_state" BY <1>1 DEF Execute
<1>2. CASE q.op = "consume_state" BY <1>2 DEF Execute
<1>3. CASE q.op = "insert_session" BY <1>3 DEF Execute
<1>4. CASE q.op = "delete_session" BY <1>4 DEF Execute
<1> QED BY <1>1, <1>2, <1>3, <1>4

(* What a step may have done to the tables and to the late statements, of  *)
(* which handler h awaited one or none.                                    *)
Effect(h) ==
    /\ IsRows(states') /\ IsRows(sessions')
    /\ late' \subseteq Statements /\ late \subseteq late'
    /\ \A q \in late' \ late :
          /\ q.op \in {"insert_state", "insert_session"} => Inserts(h, q.op, q.token)
          /\ UNCHANGED tables
    /\ \A k \in DOMAIN states' :
          \/ k \in DOMAIN states /\ states'[k] = states[k]
          \/ Inserts(h, "insert_state", k) /\ states'[k] = tasks[h].expires
    /\ \A k \in DOMAIN sessions' :
          \/ k \in DOMAIN sessions /\ sessions'[k] = sessions[k]
          \/ Inserts(h, "insert_session", k) /\ sessions'[k] = tasks[h].expires
    /\ \A k \in DOMAIN sessions \ DOMAIN sessions' :
          \/ tasks[h].pc = "logout" /\ tasks[h].session = k
          \/ tasks[h].pc = "delete_session" /\ tasks[h].token = k

(* A step without a statement. *)
LEMMA NoEffect ==
  ASSUME TypeOK, NEW h \in Tasks, UNCHANGED <<tables, late>>
  PROVE  Effect(h)
BY DEF TypeOK, Effect, IsRows, tables

(* The statement of a handler is a statement. *)
LEMMA StatementType ==
  ASSUME TypeOK, NEW h \in Tasks, NEW q \in Statement(h)
  PROVE  /\ q \in Statements /\ Statement(h) = {q}
         /\ q.expires = tasks[h].expires
         /\ \/ /\ tasks[h].pc = q.op /\ q.op \in Ops /\ q.token = tasks[h].token
            \/ /\ tasks[h].pc = "logout" /\ q.op = "delete_session"
               /\ q.token = tasks[h].session
<1>1. tasks[h].token \in Nat /\ tasks[h].session \in Nat /\ tasks[h].expires \in Nat
  BY DEF TypeOK, Handlers
<1>2. CASE tasks[h].pc = "logout"
  <2>1. Statement(h) = {[op |-> "delete_session", token |-> tasks[h].session, expires |-> tasks[h].expires]}
    BY <1>2 DEF Statement
  <2>2. q = [op |-> "delete_session", token |-> tasks[h].session, expires |-> tasks[h].expires]
    BY <2>1
  <2>3. q \in Statements BY <2>2, <1>1 DEF Statements, Ops
  <2> QED BY <1>2, <2>1, <2>2, <2>3
<1>3. CASE tasks[h].pc \in Ops
  <2>1. Statement(h) = {[op |-> tasks[h].pc, token |-> tasks[h].token, expires |-> tasks[h].expires]}
    BY <1>3 DEF Statement, Ops
  <2>2. q = [op |-> tasks[h].pc, token |-> tasks[h].token, expires |-> tasks[h].expires]
    BY <2>1
  <2>3. q \in Statements BY <2>2, <1>1, <1>3 DEF Statements
  <2> QED BY <1>3, <2>1, <2>2, <2>3
<1>4. CASE tasks[h].pc \notin Ops \cup {"logout"}
  <2>1. Statement(h) = {} BY <1>4 DEF Statement, Ops
  <2> QED BY <2>1
<1> QED BY <1>2, <1>3, <1>4

(* A handler at a statement has one. *)
LEMMA HasStatement ==
  ASSUME TypeOK, NEW h \in Tasks, tasks[h].pc \in Ops \cup {"logout"}
  PROVE  \E q : q \in Statement(h)
BY DEF Statement, Ops

(* The statement is executed and its answer arrives. *)
LEMMA AnsweredEffect ==
  ASSUME TypeOK, NEW h \in Tasks, tasks[h].pc \in Ops \cup {"logout"}, Answered(h)
  PROVE  Effect(h)
<1>1. PICK q \in Statement(h) : TRUE BY HasStatement
<1>2. /\ q \in Statements /\ q.expires = tasks[h].expires
      /\ \/ /\ tasks[h].pc = q.op /\ q.op \in Ops /\ q.token = tasks[h].token
         \/ /\ tasks[h].pc = "logout" /\ q.op = "delete_session"
            /\ q.token = tasks[h].session
  BY StatementType
<1>3. Execute(q) /\ late' = late BY DEF Answered
<1>4. /\ IsRows(states') /\ IsRows(sessions')
      /\ \A k \in DOMAIN states' :
            \/ k \in DOMAIN states /\ states'[k] = states[k]
            \/ q.op = "insert_state" /\ k = q.token /\ states'[k] = q.expires
      /\ \A k \in DOMAIN sessions' :
            \/ k \in DOMAIN sessions /\ sessions'[k] = sessions[k]
            \/ q.op = "insert_session" /\ k = q.token /\ sessions'[k] = q.expires
      /\ \A k \in DOMAIN sessions \ DOMAIN sessions' :
            q.op = "delete_session" /\ k = q.token
  BY <1>2, <1>3, ExecuteRows
<1>5. late' \subseteq Statements /\ late \subseteq late' /\ late' \ late = {}
  BY <1>3 DEF TypeOK
<1> QED BY <1>2, <1>4, <1>5 DEF Effect, Inserts, Ops

(* The statement is executed or left behind, and no answer arrives. *)
LEMMA UnansweredEffect ==
  ASSUME TypeOK, NEW h \in Tasks, Unanswered(h)
  PROVE  Effect(h)
<1>1. late' \subseteq late \cup Statement(h) /\ late \subseteq late' /\ UNCHANGED tables
  BY DEF Unanswered
<1>2. \A q \in Statement(h) :
        /\ q \in Statements
        /\ q.op \in {"insert_state", "insert_session"} => Inserts(h, q.op, q.token)
  <2> TAKE q \in Statement(h)
  <2> QED BY StatementType DEF Inserts
<1>3. /\ \A k \in DOMAIN states' : k \in DOMAIN states /\ states'[k] = states[k]
      /\ \A k \in DOMAIN sessions' : k \in DOMAIN sessions /\ sessions'[k] = sessions[k]
      /\ DOMAIN sessions \ DOMAIN sessions' = {}
      /\ IsRows(states') /\ IsRows(sessions')
  BY <1>1 DEF TypeOK, IsRows, tables
<1>4. late' \subseteq Statements BY <1>1, <1>2 DEF TypeOK
<1> QED BY <1>1, <1>2, <1>3, <1>4 DEF Effect

(* Time passes: what has expired stays expired. *)
LEMMA TickStep == ASSUME IInv, Tick PROVE IInv'
<1> USE DEF IInv, Tick, tables, ghosts
<1>1. TypeOK' BY DEF TypeOK
<1>2. StateInv' BY DEF StateInv, TokenInv, StartInv, ConsumeInv, CookieInv, LateStateInv, LateInsert, Inserts, GivenTo
<1>3. \A k \in Nat : Live(k)' => Live(k) BY DEF TypeOK, IsRows, Live
<1>4. \A k : Known(k) => Known(k)' BY DEF Known, LateInsert, Inserts
<1>5. SessionInv' BY <1>3, <1>4 DEF TypeOK, SessionInv, HandlerInv, StaleInv, LateInsert, Inserts, Handlers
<1> QED BY <1>1, <1>2, <1>5

(* A statement left behind is executed now. *)
LEMMA LateStatementStep == ASSUME IInv, LateStatement PROVE IInv'
<1> USE DEF IInv, tables, ghosts
<1>1. PICK q \in late :
        /\ late' = late \ {q}
        /\ Execute(q) \/ UNCHANGED tables
        /\ UNCHANGED <<now, made, jar, tasks, ghosts>>
  BY DEF LateStatement
<1>2. q \in Statements BY DEF TypeOK
<1>3. /\ IsRows(states') /\ IsRows(sessions')
      /\ \A k \in DOMAIN states' :
            \/ k \in DOMAIN states /\ states'[k] = states[k]
            \/ q.op = "insert_state" /\ k = q.token /\ states'[k] = q.expires
      /\ \A k \in DOMAIN sessions' :
            \/ k \in DOMAIN sessions /\ sessions'[k] = sessions[k]
            \/ q.op = "insert_session" /\ k = q.token /\ sessions'[k] = q.expires
  <2>1. CASE Execute(q) BY <1>2, <2>1, ExecuteRows
  <2>2. CASE UNCHANGED tables BY <2>2 DEF TypeOK, IsRows
  <2> QED BY <1>1, <2>1, <2>2
<1>4. TypeOK' BY <1>1, <1>3 DEF TypeOK
<1>5. \A op, k : LateInsert(op, k)' => LateInsert(op, k) BY <1>1 DEF LateInsert
<1>6. \A s \in StateTokens : TokenInv(s)'
  <2> TAKE s \in StateTokens
  <2>1. TokenInv(s) BY DEF StateInv
  <2>2. \/ s \in DOMAIN states' => s \in DOMAIN states /\ states'[s] = states[s]
        \/ starter[s] = {}
    BY <1>1, <1>3 DEF StateInv, LateStateInv
  <2> QED BY <1>1, <2>1, <2>2 DEF TokenInv
<1>7. StateInv'
  BY <1>1, <1>5, <1>6 DEF StateInv, StartInv, ConsumeInv, CookieInv, LateStateInv, Inserts, GivenTo
<1>8. \A k : Known(k) => Known(k)' BY <1>1, <1>5 DEF Known, Inserts
<1>9. \A k : Known(k) /\ Live(k)' => Live(k) BY <1>1, <1>3 DEF Known, Live, LateInsert
<1>10. SessionInv' BY <1>1, <1>5, <1>8, <1>9 DEF SessionInv, HandlerInv, StaleInv, Inserts
<1> QED BY <1>4, <1>7, <1>10

-----------------------------------------------------------------------------
(* Steps of a handler that leaves its statement, if it had one. *)

(* Sessions: the handler keeps the session it carries or forgets it, and a *)
(* cookie is cleared or set to the session that has just been inserted.    *)
LEMMA SessionsWhenLeaving ==
  ASSUME IInv, NEW h \in Tasks, NEW t \in Handlers, Effect(h), TypeOK',
         tasks' = [tasks EXCEPT ![h] = t], now' = now, made'.session = made.session,
         t.pc # "insert_session",
         t.session \in {0, tasks[h].session} \/ Known(t.session),
         t.stale => t.pc = "lookup" /\ t.session # 0 /\ ~Live(t.session),
         t.pc = "signed_in" =>
             tasks[h].pc = "insert_session" /\ t.token = tasks[h].token /\ late' = late,
         \A b \in Browsers :
             \/ jar'[b].session \in {0, jar[b].session}
             \/ tasks[h].pc = "signed_in" /\ jar'[b].session = tasks[h].token
  PROVE  SessionInv'
<1> USE DEF IInv
<1>1. \A g \in Tasks : g # h => tasks'[g] = tasks[g] BY DEF TypeOK
<1>2. tasks'[h] = t BY DEF TypeOK
<1>3. \A k : LateInsert("insert_session", k)' =>
               LateInsert("insert_session", k) \/ Inserts(h, "insert_session", k)
  BY DEF LateInsert, Effect
<1>4. \A g \in Tasks : \A k : Inserts(g, "insert_session", k)' => g # h /\ Inserts(g, "insert_session", k)
  BY <1>1, <1>2 DEF Inserts
<1>5. \A k : Known(k) => Known(k)' BY <1>3, <1>4 DEF Known
<1>6. \A k : Known(k) /\ Live(k)' => Live(k) BY DEF Known, Live, Effect
<1>7. t.pc = "signed_in" => Known(t.token)'
  <2> HAVE t.pc = "signed_in"
  <2>1. /\ t.token \in 1 .. made.session /\ ~LateInsert("insert_session", t.token)
        /\ \A g \in Tasks : Inserts(g, "insert_session", t.token) => g = h
    BY DEF SessionInv, HandlerInv
  <2>2. \A g \in Tasks : ~Inserts(g, "insert_session", t.token)' BY <2>1, <1>4
  <2>3. ~LateInsert("insert_session", t.token)' BY <2>1 DEF LateInsert
  <2> QED BY <2>1, <2>2, <2>3 DEF Known
<1>8. \A b \in Browsers : (jar[b].session # 0 => Known(jar[b].session))'
  <2> SUFFICES ASSUME NEW b \in Browsers, NEW k, k = jar'[b].session, k # 0
               PROVE  Known(k)'
    BY DEF Known, Inserts, LateInsert
  <2>1. CASE k \in {0, jar[b].session} BY <2>1, <1>5 DEF SessionInv
  <2>2. CASE tasks[h].pc = "signed_in" /\ k = tasks[h].token
    BY <2>2, <1>5 DEF SessionInv, HandlerInv
  <2> QED BY <2>1, <2>2
<1>9. \A g \in Tasks : HandlerInv(g)'
  <2> SUFFICES ASSUME NEW g \in Tasks, NEW k, NEW j, k = tasks'[g].session, j = tasks'[g].token
               PROVE  /\ k # 0 => Known(k)'
                      /\ tasks'[g].pc = "signed_in" => Known(j)'
                      /\ tasks'[g].pc = "insert_session" =>
                            /\ j \in 1 .. made'.session /\ ~LateInsert("insert_session", j)'
                            /\ \A f \in Tasks : Inserts(f, "insert_session", j)' => f = g
    BY DEF HandlerInv, Known, Inserts, LateInsert
  <2>1. CASE g = h BY <2>1, <1>2, <1>5, <1>7 DEF SessionInv, HandlerInv
  <2>2. CASE g # h
    <3>1. k # 0 => Known(k)' BY <2>2, <1>1, <1>5 DEF SessionInv, HandlerInv
    <3>2. tasks'[g].pc = "signed_in" => Known(j)' BY <2>2, <1>1, <1>5 DEF SessionInv, HandlerInv
    <3>3. ASSUME tasks'[g].pc = "insert_session"
          PROVE  /\ j \in 1 .. made'.session /\ ~LateInsert("insert_session", j)'
                 /\ \A f \in Tasks : Inserts(f, "insert_session", j)' => f = g
      <4>1. /\ j \in 1 .. made.session /\ ~LateInsert("insert_session", j)
            /\ \A f \in Tasks : Inserts(f, "insert_session", j) => f = g
        BY <2>2, <1>1, <3>3 DEF SessionInv, HandlerInv
      <4> QED BY <4>1, <2>2, <1>3, <1>4
    <3> QED BY <3>1, <3>2, <3>3
  <2> QED BY <2>1, <2>2
<1>10. \A g \in Tasks : StaleInv(g)'
  BY <1>1, <1>2, <1>6 DEF SessionInv, StaleInv, HandlerInv
<1>11. \A q \in late' : q.op = "insert_session" => q.token \in 1 .. made'.session
  BY DEF SessionInv, HandlerInv, Effect, Inserts
<1> QED BY <1>8, <1>9, <1>10, <1>11 DEF SessionInv

(* States: the handler does not go on to insert or redeem one, and cookies *)
(* are cleared at most.                                                    *)
LEMMA StatesWhenLeaving ==
  ASSUME IInv, NEW h \in Tasks, NEW t \in Handlers, Effect(h), TypeOK',
         tasks' = [tasks EXCEPT ![h] = t], UNCHANGED <<now, ghosts>>,
         made'.state = made.state,
         t.pc # "insert_state",
         t.pc = "consume_state" => \E e \in Nat : GivenTo(t.token, t.by, e),
         \A b \in Browsers : jar'[b].state \in {0, jar[b].state}
  PROVE  StateInv'
<1> USE DEF IInv, ghosts
<1>1. \A g \in Tasks : g # h => tasks'[g] = tasks[g] BY DEF TypeOK
<1>2. tasks'[h] = t BY DEF TypeOK
<1>3. \A k : LateInsert("insert_state", k)' =>
               LateInsert("insert_state", k) \/ Inserts(h, "insert_state", k)
  BY DEF LateInsert, Effect
<1>4. \A g \in Tasks : \A k : Inserts(g, "insert_state", k)' => g # h /\ Inserts(g, "insert_state", k)
  BY <1>1, <1>2 DEF Inserts
<1>5. \A s \in StateTokens : TokenInv(s)'
  <2> TAKE s \in StateTokens
  <2>1. starter[s] = {} \/ ~Inserts(h, "insert_state", s) BY DEF StateInv, StartInv, Inserts
  <2> QED BY <2>1 DEF StateInv, TokenInv, Effect
<1>6. \A g \in Tasks : StartInv(g)'
  <2> TAKE g \in Tasks
  <2>1. CASE g = h BY <2>1, <1>2 DEF StartInv
  <2>2. CASE g # h
    <3> SUFFICES ASSUME tasks'[g].pc = "insert_state", NEW k, k = tasks'[g].token
                 PROVE  /\ k \in 1 .. made'.state /\ starter[k] = {}
                        /\ ~LateInsert("insert_state", k)'
                        /\ \A f \in Tasks : Inserts(f, "insert_state", k)' => f = g
      BY DEF StartInv, Inserts, LateInsert
    <3>1. /\ k \in 1 .. made.state /\ starter[k] = {}
          /\ ~LateInsert("insert_state", k)
          /\ \A f \in Tasks : Inserts(f, "insert_state", k) => f = g
      BY <2>2, <1>1 DEF StateInv, StartInv
    <3> QED BY <3>1, <2>2, <1>3, <1>4
  <2> QED BY <2>1, <2>2
<1>7. \A g \in Tasks : ConsumeInv(g)'
  BY <1>1, <1>2 DEF StateInv, ConsumeInv, GivenTo
<1>8. \A b \in Browsers : CookieInv(b)' BY DEF StateInv, CookieInv, GivenTo
<1>9. LateStateInv' BY DEF StateInv, StartInv, LateStateInv, Effect, Inserts
<1> QED BY <1>5, <1>6, <1>7, <1>8, <1>9 DEF StateInv

(* Types, when a handler moves on. *)
LEMMA TypesWhenMoving ==
  ASSUME TypeOK, NEW h \in Tasks, NEW t \in Handlers, Effect(h),
         tasks' = [tasks EXCEPT ![h] = t], t.pc # "idle" => t.by \in Browsers,
         now' = now, made' \in [state : Nat, session : Nat], made'.state <= MaxStates,
         jar' \in [Browsers -> [state : Nat, session : Nat]],
         starter' \in [StateTokens -> SUBSET (Browsers \X Nat)],
         redeemed' \in [StateTokens -> Outcomes]
  PROVE  TypeOK'
BY DEF TypeOK, Effect

(* A handler that has ended. *)
LEMMA IdleType == Idle \in Handlers
BY DEF Idle, Handlers, Pcs

(* A cookie is set or cleared. *)
LEMMA CookieType ==
  ASSUME TypeOK, NEW h \in Tasks, tasks[h].pc # "idle", NEW k \in Nat
  PROVE  /\ SetCookie(h, "state", k) =>
              /\ jar' \in [Browsers -> [state : Nat, session : Nat]]
              /\ \A b \in Browsers :
                    /\ jar'[b].session = jar[b].session
                    /\ jar'[b].state = IF b = tasks[h].by THEN k ELSE jar[b].state
         /\ SetCookie(h, "session", k) =>
              /\ jar' \in [Browsers -> [state : Nat, session : Nat]]
              /\ \A b \in Browsers :
                    /\ jar'[b].state = jar[b].state
                    /\ jar'[b].session = IF b = tasks[h].by THEN k ELSE jar[b].session
BY DEF TypeOK, SetCookie

(* The common case: the handler ends, and cookies are cleared at most. *)
LEMMA EndStep ==
  ASSUME IInv, NEW h \in Tasks, Effect(h), Finish(h), UNCHANGED <<now, made, ghosts>>,
         jar' \in [Browsers -> [state : Nat, session : Nat]],
         \A b \in Browsers :
             /\ jar'[b].state \in {0, jar[b].state}
             /\ \/ jar'[b].session \in {0, jar[b].session}
                \/ tasks[h].pc = "signed_in" /\ jar'[b].session = tasks[h].token
  PROVE  IInv'
<1>1. tasks' = [tasks EXCEPT ![h] = Idle] BY DEF Finish
<1>2. Idle \in Handlers BY IdleType
<1>3. /\ Idle.pc = "idle" /\ Idle.session = 0 /\ Idle.stale = FALSE BY DEF Idle
<1>4. TypeOK'
  BY <1>1, <1>2, <1>3, TypesWhenMoving DEF IInv, TypeOK, ghosts
<1>5. StateInv' BY <1>1, <1>2, <1>3, <1>4, StatesWhenLeaving
<1>6. SessionInv' BY <1>1, <1>2, <1>3, <1>4, SessionsWhenLeaving
<1> QED BY <1>4, <1>5, <1>6 DEF IInv

(* The provider refuses, or cannot be asked. *)
LEMMA OauthFinishEnds ==
  ASSUME IInv, NEW h \in Tasks, At(h, "finish"), Finish(h), SetCookie(h, "state", 0),
         UNCHANGED <<now, made, tables, late, ghosts>>
  PROVE  IInv'
BY NoEffect, CookieType, EndStep DEF IInv, At

(* The answer that sets the session cookie: the session is inserted for    *)
(* good.                                                                   *)
LEMMA SignedInStep == ASSUME IInv, NEW h \in Tasks, SignedIn(h) PROVE IInv'
<1>1. Effect(h) BY NoEffect DEF SignedIn, IInv
<1>2. tasks[h].by \in Browsers /\ tasks[h].token \in Nat BY DEF SignedIn, At, IInv, TypeOK, Handlers
<1>3. /\ jar' \in [Browsers -> [state : Nat, session : Nat]]
      /\ \A b \in Browsers :
            /\ jar'[b].state \in {0, jar[b].state}
            /\ jar'[b].session \in {jar[b].session, tasks[h].token}
  BY <1>2 DEF SignedIn, IInv, TypeOK
<1> QED BY <1>1, <1>3, EndStep DEF SignedIn, At

(* The answer that clears the session cookie. *)
LEMMA LoggedOutStep == ASSUME IInv, NEW h \in Tasks, LoggedOut(h) PROVE IInv'
BY NoEffect, CookieType, EndStep DEF IInv, At, LoggedOut

(* Cookies, when no answer is sent. *)
LEMMA JarUnchanged ==
  ASSUME TypeOK, UNCHANGED jar
  PROVE  jar' \in [Browsers -> [state : Nat, session : Nat]]
BY DEF TypeOK

(* An administrator revokes a session. *)
LEMMA RevokeStep == ASSUME IInv, NEW h \in Tasks, RevokeUiSession(h) PROVE IInv'
<1>1. Effect(h)
  BY AnsweredEffect, UnansweredEffect DEF RevokeUiSession, At, Ops, IInv
<1> QED BY <1>1, JarUnchanged, EndStep DEF RevokeUiSession, IInv

(* The client goes away: the statement may be left behind. *)
LEMMA DroppedStep == ASSUME IInv, NEW h \in Tasks, Dropped(h) PROVE IInv'
<1>1. Effect(h) BY UnansweredEffect DEF Dropped, IInv
<1> QED BY <1>1, JarUnchanged, EndStep DEF Dropped, IInv

(* logout deletes the session and answers, whether it succeeded or not. *)
LEMMA LogoutDeleteStep == ASSUME IInv, NEW h \in Tasks, LogoutDelete(h) PROVE IInv'
<1> DEFINE t == [Idle EXCEPT !.pc = "logged_out", !.by = tasks[h].by]
<1>1. Effect(h)
  BY AnsweredEffect, UnansweredEffect DEF LogoutDelete, At, IInv
<1>2. tasks' = [tasks EXCEPT ![h] = t] BY DEF LogoutDelete
<1>3. /\ t \in Handlers /\ t.by \in Browsers
      /\ t.pc = "logged_out" /\ t.session = 0 /\ t.stale = FALSE
  BY DEF LogoutDelete, At, IInv, TypeOK, Idle, Handlers, Pcs
<1> HIDE DEF t
<1>4. TypeOK'
  BY <1>1, <1>2, <1>3, TypesWhenMoving, JarUnchanged DEF IInv, TypeOK, ghosts, LogoutDelete
<1>5. StateInv' BY <1>1, <1>2, <1>3, <1>4, StatesWhenLeaving DEF LogoutDelete
<1>6. SessionInv' BY <1>1, <1>2, <1>3, <1>4, SessionsWhenLeaving DEF LogoutDelete
<1> QED BY <1>4, <1>5, <1>6 DEF IInv

(* current_user looks the session up. *)
LEMMA LookupStep == ASSUME IInv, NEW h \in Tasks, Lookup(h) PROVE IInv'
<1>1. Effect(h) BY NoEffect DEF Lookup, IInv
<1>2. CASE Finish(h) BY <1>1, <1>2, JarUnchanged, EndStep DEF Lookup, IInv
<1>3. ASSUME Admitted(h), NEW k \in 1 .. made.session,
             tasks' = [tasks EXCEPT ![h] =
                   [@ EXCEPT !.pc = "delete_session", !.session = 0, !.token = k]]
      PROVE  IInv'
  <2> DEFINE t == [tasks[h] EXCEPT !.pc = "delete_session", !.session = 0, !.token = k]
  <2>1. tasks' = [tasks EXCEPT ![h] = t] BY <1>3
  <2>2. tasks[h].stale = FALSE
    BY <1>3 DEF Admitted, IInv, SessionInv, StaleInv, TypeOK, Handlers
  <2>3. /\ t \in Handlers /\ t.by \in Browsers
        /\ t.pc = "delete_session" /\ t.session = 0 /\ t.stale = FALSE
    <3>1. tasks[h] \in Handlers /\ tasks[h].by \in Browsers
      BY DEF Lookup, At, IInv, TypeOK
    <3>2. k \in Nat BY DEF IInv, TypeOK
    <3> QED BY <2>2, <3>1, <3>2 DEF Handlers, Pcs
  <2> HIDE DEF t
  <2>4. TypeOK'
    BY <1>1, <2>1, <2>3, TypesWhenMoving, JarUnchanged DEF IInv, TypeOK, ghosts, Lookup
  <2>5. StateInv' BY <1>1, <2>1, <2>3, <2>4, StatesWhenLeaving DEF Lookup
  <2>6. SessionInv' BY <1>1, <2>1, <2>3, <2>4, SessionsWhenLeaving DEF Lookup
  <2> QED BY <2>4, <2>5, <2>6 DEF IInv
<1> QED BY <1>2, <1>3 DEF Lookup

(* A session is inserted, or the login fails. *)
LEMMA SessionInsertedStep == ASSUME IInv, NEW h \in Tasks, SessionInserted(h) PROVE IInv'
<1>1. CASE Answered(h) /\ Goto(h, "signed_in") /\ UNCHANGED jar
  <2> DEFINE t == [tasks[h] EXCEPT !.pc = "signed_in"]
  <2>1. Effect(h) /\ late' = late BY <1>1, AnsweredEffect DEF SessionInserted, At, Ops, Answered, IInv
  <2>2. tasks' = [tasks EXCEPT ![h] = t] BY <1>1 DEF Goto
  <2>3. tasks[h].stale = FALSE
    BY DEF IInv, SessionInserted, At, SessionInv, StaleInv, TypeOK, Handlers
  <2>4. /\ t \in Handlers /\ t.by \in Browsers /\ t.token = tasks[h].token
        /\ t.pc = "signed_in" /\ t.session = tasks[h].session /\ t.stale = FALSE
    BY <2>3 DEF SessionInserted, At, IInv, TypeOK, Handlers, Pcs
  <2> HIDE DEF t
  <2>5. TypeOK'
    BY <1>1, <2>1, <2>2, <2>4, TypesWhenMoving, JarUnchanged DEF IInv, TypeOK, ghosts, SessionInserted
  <2>6. StateInv' BY <1>1, <2>1, <2>2, <2>4, <2>5, StatesWhenLeaving DEF SessionInserted
  <2>7. SessionInv' BY <1>1, <2>1, <2>2, <2>4, <2>5, SessionsWhenLeaving DEF SessionInserted, At
  <2> QED BY <2>5, <2>6, <2>7 DEF IInv
<1>2. CASE /\ Unanswered(h) /\ Finish(h)
           /\ IF tasks[h].oauth THEN SetCookie(h, "state", 0) ELSE UNCHANGED jar
  <2>1. Effect(h) BY <1>2, UnansweredEffect DEF IInv
  <2>2. /\ jar' \in [Browsers -> [state : Nat, session : Nat]]
        /\ \A b \in Browsers : jar'[b].state \in {0, jar[b].state} /\ jar'[b].session = jar[b].session
    BY <1>2, CookieType, JarUnchanged DEF IInv, SessionInserted, At
  <2> QED BY <1>2, <2>1, <2>2, EndStep DEF SessionInserted
<1> QED BY <1>1, <1>2 DEF SessionInserted

(* Tokens made so far. *)
LEMMA MadeStates == ASSUME TypeOK PROVE 1 .. made.state \subseteq StateTokens
<1>1. made.state \in Nat /\ made.state <= MaxStates BY DEF TypeOK
<1> QED BY <1>1, SessionAssumption DEF StateTokens

(* The state is inserted and its cookie given to the browser. *)
LEMMA OauthStartedStep == ASSUME IInv, NEW h \in Tasks, OauthStarted(h) PROVE IInv'
<1> DEFINE s == tasks[h].token
<1>0. At(h, "insert_state") /\ Finish(h) /\ UNCHANGED <<now, made, redeemed>> BY DEF OauthStarted
<1>1. CASE (Answered(h) \/ Unanswered(h)) /\ UNCHANGED <<jar, starter>>
  <2>1. Effect(h) BY <1>0, <1>1, AnsweredEffect, UnansweredEffect DEF At, Ops, IInv
  <2> QED BY <1>0, <1>1, <2>1, JarUnchanged, EndStep DEF IInv, ghosts
<1>2. ASSUME Answered(h), SetCookie(h, "state", s),
             starter' = [starter EXCEPT ![s] = {<<tasks[h].by, tasks[h].expires>>}]
      PROVE  IInv'
  <2>1. Effect(h) /\ late' = late
    BY <1>0, <1>2, AnsweredEffect DEF At, Ops, IInv, Answered
  <2>2. PICK b0 \in Browsers, e0 \in Nat, k0 \in StateTokens :
          b0 = tasks[h].by /\ e0 = tasks[h].expires /\ k0 = tasks[h].token
    <3>1. tasks[h].pc = "insert_state" BY <1>0 DEF At
    <3>2. tasks[h].by \in Browsers BY <3>1 DEF IInv, TypeOK
    <3>3. tasks[h] \in Handlers BY DEF IInv, TypeOK
    <3>4. tasks[h].expires \in Nat BY <3>3 DEF Handlers
    <3>5. tasks[h].token \in 1 .. made.state BY <3>1 DEF IInv, StateInv, StartInv
    <3>6. tasks[h].token \in StateTokens BY <3>5, MadeStates DEF IInv
    <3> QED BY <3>2, <3>4, <3>6
  <2>3. /\ k0 \in 1 .. made.state /\ starter[k0] = {} /\ ~LateInsert("insert_state", k0)
        /\ \A g \in Tasks : Inserts(g, "insert_state", k0) => g = h
    BY <1>0, <2>2 DEF At, IInv, StateInv, StartInv
  <2>4. /\ starter' \in [StateTokens -> SUBSET (Browsers \X Nat)]
        /\ starter'[k0] = {<<b0, e0>>}
        /\ \A k \in StateTokens : k # k0 => starter'[k] = starter[k]
    BY <1>2, <2>2 DEF IInv, TypeOK
  <2>5. /\ jar' \in [Browsers -> [state : Nat, session : Nat]]
        /\ \A b \in Browsers :
              /\ jar'[b].session = jar[b].session
              /\ jar'[b].state = IF b = b0 THEN k0 ELSE jar[b].state
    <3>1. k0 \in Nat BY SessionAssumption DEF StateTokens
    <3> QED BY <1>0, <1>2, <2>2, <3>1, CookieType DEF IInv, At
  <2>6. tasks' = [tasks EXCEPT ![h] = Idle] /\ Idle \in Handlers BY <1>0, IdleType DEF Finish
  <2>7. /\ Idle.pc = "idle" /\ Idle.session = 0 /\ Idle.stale = FALSE BY DEF Idle
  <2>8. TypeOK'
    BY <1>0, <2>1, <2>4, <2>5, <2>6, <2>7, TypesWhenMoving DEF IInv, TypeOK
  <2>9. SessionInv' BY <1>0, <2>1, <2>5, <2>6, <2>7, <2>8, SessionsWhenLeaving
  <2>10. tasks'[h] = Idle /\ \A g \in Tasks : g # h => tasks'[g] = tasks[g]
    BY <2>6 DEF IInv, TypeOK
  <2>11. k0 \in DOMAIN states' => states'[k0] = e0
    <3>1. PICK q \in Statement(h) : TRUE BY <1>0, HasStatement DEF At, Ops, IInv
    <3>2. q.op = "insert_state" /\ q.token = k0 /\ q.expires = e0
      BY <1>0, <2>2, StatementType DEF At, IInv
    <3>3. states' = Insert(states, k0, e0) BY <1>2, <3>1, <3>2 DEF Answered, Execute
    <3> QED BY <3>3 DEF Insert
  <2>12. \A k \in StateTokens : TokenInv(k)'
    <3> TAKE k \in StateTokens
    <3>1. CASE k = k0
      <4>1. redeemed[k0] = << >> BY <2>3 DEF IInv, StateInv, TokenInv
      <4>2. ~(k0 > made.state) BY <2>3 DEF IInv, TypeOK
      <4> QED BY <1>0, <3>1, <4>1, <4>2, <2>4, <2>11 DEF TokenInv
    <3>2. CASE k # k0
      <4>1. \A j \in DOMAIN states' : j # k0 => j \in DOMAIN states /\ states'[j] = states[j]
        BY <2>1, <2>2 DEF Effect, Inserts
      <4> QED BY <1>0, <3>2, <4>1, <2>4 DEF IInv, StateInv, TokenInv
    <3> QED BY <3>1, <3>2
  <2>13. \A g \in Tasks : StartInv(g)'
    <3> SUFFICES ASSUME NEW g \in Tasks, tasks'[g].pc = "insert_state", NEW k, k = tasks'[g].token
                 PROVE  /\ k \in 1 .. made'.state /\ starter'[k] = {}
                        /\ ~LateInsert("insert_state", k)'
                        /\ \A f \in Tasks : Inserts(f, "insert_state", k)' => f = g
      BY DEF StartInv, Inserts, LateInsert
    <3>1. g # h /\ tasks[g] = tasks'[g] BY <2>7, <2>10
    <3>2. k # k0 BY <3>1, <2>3 DEF Inserts
    <3>3. /\ k \in 1 .. made.state /\ starter[k] = {}
          /\ ~LateInsert("insert_state", k)
          /\ \A f \in Tasks : Inserts(f, "insert_state", k) => f = g
      BY <3>1 DEF IInv, StateInv, StartInv
    <3>4. starter'[k] = {} BY <3>2, <3>3, <2>4, MadeStates DEF IInv
    <3>5. ~LateInsert("insert_state", k)' BY <3>3, <2>1 DEF LateInsert
    <3>6. \A f \in Tasks : Inserts(f, "insert_state", k)' => Inserts(f, "insert_state", k)
      BY <2>7, <2>10 DEF Inserts
    <3> QED BY <1>0, <3>3, <3>4, <3>5, <3>6
  <2>14. \A b, e, k : GivenTo(k, b, e) => GivenTo(k, b, e)'
    BY <2>3, <2>4 DEF GivenTo
  <2>15. \A g \in Tasks : ConsumeInv(g)'
    <3> SUFFICES ASSUME NEW g \in Tasks, tasks'[g].pc = "consume_state",
                        NEW k, NEW b, k = tasks'[g].token, b = tasks'[g].by
                 PROVE  \E e \in Nat : GivenTo(k, b, e)'
      BY DEF ConsumeInv, GivenTo
    <3>1. g # h /\ tasks[g] = tasks'[g] BY <2>7, <2>10
    <3> QED BY <3>1, <2>14 DEF IInv, StateInv, ConsumeInv
  <2>16. \A b \in Browsers : CookieInv(b)'
    <3> TAKE b \in Browsers
    <3>1. CASE b = b0 BY <3>1, <2>4, <2>5 DEF CookieInv, GivenTo
    <3>2. CASE b # b0
      <4> SUFFICES ASSUME NEW k, k = jar'[b].state, k # 0 PROVE \E e \in Nat : GivenTo(k, b, e)'
        BY DEF CookieInv, GivenTo
      <4>1. k = jar[b].state BY <3>2, <2>5
      <4> QED BY <4>1, <2>14 DEF IInv, StateInv, CookieInv
    <3> QED BY <3>1, <3>2
  <2>17. LateStateInv'
    <3> SUFFICES ASSUME NEW q \in late', q.op = "insert_state"
                 PROVE  q.token \in 1 .. made'.state /\ starter'[q.token] = {}
      BY DEF LateStateInv
    <3>1. q \in late /\ q.token # k0 BY <2>1, <2>3 DEF LateInsert
    <3>2. q.token \in 1 .. made.state /\ starter[q.token] = {} BY <3>1 DEF IInv, StateInv, LateStateInv
    <3> QED BY <1>0, <3>1, <3>2, <2>4, MadeStates DEF IInv
  <2> QED BY <2>8, <2>9, <2>12, <2>13, <2>15, <2>16, <2>17 DEF IInv, StateInv
<1> QED BY <1>1, <1>2 DEF OauthStarted

(* The state is redeemed: its row is deleted and returned by one           *)
(* statement.                                                              *)
LEMMA OauthConsumeStep == ASSUME IInv, NEW h \in Tasks, OauthConsume(h) PROVE IInv'
<1>0. At(h, "consume_state") /\ UNCHANGED <<now, made, starter>> BY DEF OauthConsume
<1>1. CASE Unanswered(h) /\ Finish(h) /\ UNCHANGED <<jar, redeemed>>
  <2>1. Effect(h) BY <1>1, UnansweredEffect DEF IInv
  <2> QED BY <1>0, <1>1, <2>1, JarUnchanged, EndStep DEF IInv, ghosts
<1>2. CASE /\ Answered(h) /\ Finish(h) /\ SetCookie(h, "state", 0) /\ UNCHANGED redeemed
  <2>1. Effect(h) BY <1>0, <1>2, AnsweredEffect DEF At, Ops, IInv
  <2> QED BY <1>0, <1>2, <2>1, CookieType, EndStep DEF IInv, ghosts, At
<1>3. ASSUME Redeemable(tasks[h].token), Answered(h), Goto(h, "finish"), UNCHANGED jar,
             redeemed' = [redeemed EXCEPT ![tasks[h].token] = Append(@,
                 \E begun \in starter[tasks[h].token] : tasks[h].by = begun[1] /\ now < begun[2])]
      PROVE  IInv'
  <2> DEFINE t == [tasks[h] EXCEPT !.pc = "finish"]
  <2>1. Effect(h) /\ late' = late
    BY <1>0, <1>3, AnsweredEffect DEF At, Ops, IInv, Answered
  <2>2. PICK k0, b0, e0 : /\ k0 = tasks[h].token /\ b0 = tasks[h].by /\ e0 \in Nat
                          /\ GivenTo(k0, b0, e0)
    BY <1>0 DEF At, IInv, StateInv, ConsumeInv
  <2>3. b0 \in Browsers BY <1>0, <2>2 DEF At, IInv, TypeOK
  <2>4. k0 \in StateTokens /\ k0 \in DOMAIN states /\ states[k0] = e0 /\ now < e0 /\ starter[k0] = {<<b0, e0>>}
    <3>1. k0 \in StateTokens /\ starter[k0] = {<<b0, e0>>} BY <2>2 DEF GivenTo
    <3>2. k0 \in DOMAIN states /\ states[k0] > now BY <1>3, <2>2 DEF Redeemable
    <3>3. states[k0] = e0 BY <3>1, <3>2, <2>2, <2>3 DEF IInv, StateInv, TokenInv
    <3> QED BY <3>1, <3>2, <3>3, <2>2 DEF IInv, TypeOK
  <2>5. redeemed[k0] = << >> BY <2>4 DEF IInv, StateInv, TokenInv
  <2>6. (\E begun \in starter[k0] : b0 = begun[1] /\ now < begun[2]) = TRUE BY <2>4
  <2>7. redeemed' = [redeemed EXCEPT ![k0] = <<TRUE>>]
    <3>1. Append(redeemed[k0], TRUE) = <<TRUE>> BY <2>5
    <3> QED BY <1>3, <2>2, <2>6, <3>1
  <2>8. k0 \notin DOMAIN states'
    <3>1. PICK q \in Statement(h) : TRUE BY <1>0, HasStatement DEF At, Ops, IInv
    <3>2. q.op = "consume_state" /\ q.token = k0 BY <1>0, <2>2, StatementType DEF At, IInv
    <3>3. states' = Delete(states, {s \in {k0} : Redeemable(s)}) BY <1>3, <3>1, <3>2 DEF Answered, Execute
    <3> QED BY <1>3, <2>2, <3>3 DEF Delete
  <2>9. tasks' = [tasks EXCEPT ![h] = t] BY <1>3 DEF Goto
  <2>10. tasks[h] \in Handlers /\ tasks[h].by \in Browsers /\ tasks[h].stale = FALSE
    BY <1>0 DEF At, IInv, TypeOK, Handlers, SessionInv, StaleInv
  <2>11. /\ t \in Handlers /\ t.by \in Browsers
         /\ t.pc = "finish" /\ t.session = tasks[h].session /\ t.stale = FALSE
    BY <2>10 DEF Handlers, Pcs
  <2> HIDE DEF t
  <2>12. redeemed' \in [StateTokens -> Outcomes] BY <2>7 DEF IInv, TypeOK, Outcomes
  <2>13. TypeOK'
    BY <1>0, <1>3, <2>1, <2>9, <2>11, <2>12, TypesWhenMoving, JarUnchanged DEF IInv, TypeOK
  <2>14. SessionInv' BY <1>0, <1>3, <2>1, <2>9, <2>11, <2>13, SessionsWhenLeaving
  <2>15. tasks'[h] = t /\ \A g \in Tasks : g # h => tasks'[g] = tasks[g]
    BY <2>9 DEF IInv, TypeOK
  <2>16. \A k \in DOMAIN states' : k \in DOMAIN states /\ states'[k] = states[k]
    BY <1>0, <2>1 DEF Effect, Inserts, At
  <2>17. \A k \in StateTokens : TokenInv(k)'
    <3> TAKE k \in StateTokens
    <3>1. CASE k = k0 BY <1>0, <3>1, <2>3, <2>4, <2>8, <2>2 DEF IInv, StateInv, TokenInv
    <3>2. CASE k # k0
      <4>1. redeemed'[k] = redeemed[k] BY <3>2, <2>7 DEF IInv, TypeOK
      <4> QED BY <1>0, <2>16, <4>1 DEF IInv, StateInv, TokenInv
    <3> QED BY <3>1, <3>2
  <2>18. \A g \in Tasks : \A k : Inserts(g, "insert_state", k)' => Inserts(g, "insert_state", k)
    BY <2>11, <2>15 DEF Inserts
  <2>19. \A g \in Tasks : StartInv(g)'
    <3> SUFFICES ASSUME NEW g \in Tasks, tasks'[g].pc = "insert_state", NEW k, k = tasks'[g].token
                 PROVE  /\ k \in 1 .. made'.state /\ starter'[k] = {}
                        /\ ~LateInsert("insert_state", k)'
                        /\ \A f \in Tasks : Inserts(f, "insert_state", k)' => f = g
      BY DEF StartInv, Inserts, LateInsert
    <3>1. tasks[g] = tasks'[g] BY <2>11, <2>15
    <3> QED BY <1>0, <3>1, <2>1, <2>18 DEF IInv, StateInv, StartInv, LateInsert
  <2>20. \A g \in Tasks : ConsumeInv(g)'
    BY <1>0, <2>11, <2>15 DEF IInv, StateInv, ConsumeInv, GivenTo
  <2>21. \A b \in Browsers : CookieInv(b)'
    BY <1>0, <1>3 DEF IInv, StateInv, CookieInv, GivenTo
  <2>22. LateStateInv' BY <1>0, <2>1 DEF IInv, StateInv, LateStateInv
  <2> QED BY <2>13, <2>14, <2>17, <2>19, <2>20, <2>21, <2>22 DEF IInv, StateInv
<1> QED BY <1>1, <1>2, <1>3 DEF OauthConsume

-----------------------------------------------------------------------------
(* Steps in which a handler begins. *)

(* Moving on without a statement of its own, the tables unchanged: what    *)
(* the other handlers rely on stays.                                       *)
LEMMA NewSessionStep ==
  ASSUME IInv, NEW h \in Tasks, NEW t \in Handlers,
         tasks' = [tasks EXCEPT ![h] = t], t.by \in Browsers,
         made.session < MaxSessions, made' = [made EXCEPT !.session = @ + 1],
         t.pc = "insert_session", t.token = made.session + 1, t.stale = FALSE,
         t.session \in {0, tasks[h].session},
         UNCHANGED <<now, tables, jar, late, ghosts>>
  PROVE  IInv'
<1> USE DEF tables
<1>1. Effect(h) BY NoEffect DEF IInv
<1>2. made.session \in Nat /\ made'.session = made.session + 1 /\ made'.state = made.state
      /\ made' \in [state : Nat, session : Nat]
  BY DEF IInv, TypeOK
<1>3. TypeOK' BY <1>1, <1>2, TypesWhenMoving, JarUnchanged DEF IInv, TypeOK, ghosts
<1>4. StateInv'
  BY <1>1, <1>2, <1>3, StatesWhenLeaving
<1>5. tasks'[h] = t /\ \A g \in Tasks : g # h => tasks'[g] = tasks[g] BY DEF IInv, TypeOK
<1> DEFINE n == made.session + 1
<1>6. \A g \in Tasks : ~Inserts(g, "insert_session", n)
  BY <1>2 DEF Inserts, IInv, SessionInv, HandlerInv
<1>7. \A op, k : LateInsert(op, k)' <=> LateInsert(op, k) BY DEF LateInsert
<1>8. \A k : Known(k) => Known(k)'
  <2> SUFFICES ASSUME NEW k, Known(k) PROVE Known(k)' OBVIOUS
  <2>1. k \in 1 .. made.session /\ k # n BY <1>2 DEF Known
  <2>2. k \in 1 .. made'.session BY <2>1, <1>2
  <2>3. \A g \in Tasks : ~Inserts(g, "insert_session", k)' BY <1>5, <2>1 DEF Known, Inserts
  <2> QED BY <1>7, <2>2, <2>3 DEF Known
<1>9. ~LateInsert("insert_session", n)
  BY <1>2 DEF LateInsert, IInv, SessionInv
<1>10. \A g \in Tasks : HandlerInv(g)'
  <2> SUFFICES ASSUME NEW g \in Tasks, NEW k, NEW j, k = tasks'[g].session, j = tasks'[g].token
               PROVE  /\ k # 0 => Known(k)'
                      /\ tasks'[g].pc = "signed_in" => Known(j)'
                      /\ tasks'[g].pc = "insert_session" =>
                            /\ j \in 1 .. made'.session /\ ~LateInsert("insert_session", j)'
                            /\ \A f \in Tasks : Inserts(f, "insert_session", j)' => f = g
    BY DEF HandlerInv, Known, Inserts, LateInsert
  <2>1. k # 0 => Known(k)' BY <1>5, <1>8 DEF IInv, SessionInv, HandlerInv
  <2>2. CASE g = h
    <3>1. j = n /\ tasks'[g].pc = "insert_session" BY <2>2, <1>5
    <3>2. j \in 1 .. made'.session BY <3>1, <1>2
    <3>3. ~LateInsert("insert_session", j)' BY <3>1, <1>7, <1>9
    <3>4. \A f \in Tasks : Inserts(f, "insert_session", j)' => f = g
      BY <3>1, <2>2, <1>5, <1>6 DEF Inserts
    <3> QED BY <2>1, <3>1, <3>2, <3>3, <3>4
  <2>3. CASE g # h
    <3>1. tasks'[g].pc = "signed_in" => Known(j)' BY <2>3, <1>5, <1>8 DEF IInv, SessionInv, HandlerInv
    <3>2. ASSUME tasks'[g].pc = "insert_session"
          PROVE  /\ j \in 1 .. made'.session /\ ~LateInsert("insert_session", j)'
                 /\ \A f \in Tasks : Inserts(f, "insert_session", j)' => f = g
      <4>1. /\ j \in 1 .. made.session /\ ~LateInsert("insert_session", j)
            /\ \A f \in Tasks : Inserts(f, "insert_session", j) => f = g
        BY <2>3, <1>5, <3>2 DEF IInv, SessionInv, HandlerInv
      <4>2. j \in 1 .. made'.session /\ j # n BY <4>1, <1>2
      <4> QED BY <4>1, <4>2, <2>3, <1>5, <1>7 DEF Inserts
    <3> QED BY <2>1, <3>1, <3>2
  <2> QED BY <2>2, <2>3
<1>11. \A g \in Tasks : StaleInv(g)' BY <1>5 DEF IInv, SessionInv, StaleInv, Live
<1>12. \A b \in Browsers : (jar[b].session # 0 => Known(jar[b].session))'
  <2> SUFFICES ASSUME NEW b \in Browsers, NEW k, k = jar'[b].session, k # 0
               PROVE  Known(k)'
    BY DEF Known, Inserts, LateInsert
  <2> QED BY <1>8 DEF IInv, SessionInv
<1>13. \A q \in late' : q.op = "insert_session" => q.token \in 1 .. made'.session
  <2>1. 1 .. made.session \subseteq 1 .. made'.session BY <1>2
  <2> QED BY <2>1 DEF IInv, SessionInv
<1> QED BY <1>3, <1>4, <1>10, <1>11, <1>12, <1>13 DEF IInv, SessionInv

(* A local login makes a session. *)
LEMMA LocalLoginStep ==
  ASSUME IInv, NEW h \in Tasks, NEW b \in Browsers, LocalLogin(h, b) PROVE IInv'
<1> DEFINE t == [Idle EXCEPT !.pc = "insert_session", !.by = b,
                             !.token = made.session + 1, !.expires = now + SessionTtl]
<1>1. tasks' = [tasks EXCEPT ![h] = t] BY DEF LocalLogin, Send
<1>2. made.session + 1 \in Nat /\ now + SessionTtl \in Nat BY SessionAssumption DEF IInv, TypeOK
<1>3. /\ t \in Handlers /\ t.by \in Browsers
      /\ t.pc = "insert_session" /\ t.token = made.session + 1 /\ t.stale = FALSE /\ t.session = 0
  BY <1>2 DEF Idle, Handlers, Pcs
<1> HIDE DEF t
<1> QED BY <1>1, <1>3, NewSessionStep DEF LocalLogin

(* A redeemed state makes a session. *)
LEMMA OauthFinishStep == ASSUME IInv, NEW h \in Tasks, OauthFinish(h) PROVE IInv'
<1>1. CASE Finish(h) /\ SetCookie(h, "state", 0) /\ UNCHANGED made
  BY <1>1, OauthFinishEnds DEF OauthFinish
<1>2. CASE CreateSession(h, TRUE) /\ UNCHANGED jar
  <2> DEFINE t == [tasks[h] EXCEPT !.pc = "insert_session", !.token = made.session + 1,
                                   !.expires = now + SessionTtl, !.oauth = TRUE]
  <2>1. tasks' = [tasks EXCEPT ![h] = t] BY <1>2 DEF CreateSession
  <2>2. made.session + 1 \in Nat /\ now + SessionTtl \in Nat BY SessionAssumption DEF IInv, TypeOK
  <2>3. tasks[h] \in Handlers /\ tasks[h].by \in Browsers /\ tasks[h].stale = FALSE
    BY DEF OauthFinish, At, IInv, TypeOK, Handlers, SessionInv, StaleInv
  <2>4. /\ t \in Handlers /\ t.by \in Browsers /\ t.session = tasks[h].session
        /\ t.pc = "insert_session" /\ t.token = made.session + 1 /\ t.stale = FALSE
    BY <2>2, <2>3 DEF Handlers, Pcs
  <2> HIDE DEF t
  <2> QED BY <1>2, <2>1, <2>4, NewSessionStep DEF OauthFinish, CreateSession
<1> QED BY <1>1, <1>2 DEF OauthFinish

(* oauth_start makes a state. *)
LEMMA OauthStartStep ==
  ASSUME IInv, NEW h \in Tasks, NEW b \in Browsers, OauthStart(h, b) PROVE IInv'
<1> DEFINE n == made.state + 1
           t == [Idle EXCEPT !.pc = "insert_state", !.by = b, !.token = n, !.expires = now + StateTtl]
<1> USE DEF tables, ghosts
<1>1. tasks' = [tasks EXCEPT ![h] = t] BY DEF OauthStart, Send
<1>2. now + StateTtl \in Nat BY SessionAssumption DEF IInv, TypeOK
<1>3. /\ made.state \in Nat /\ n \in Nat /\ made' \in [state : Nat, session : Nat]
      /\ made'.state = n /\ made'.session = made.session
  BY DEF IInv, TypeOK, OauthStart
<1>4. /\ t \in Handlers /\ t.by \in Browsers
      /\ t.pc = "insert_state" /\ t.token = n /\ t.stale = FALSE /\ t.session = 0
  BY <1>2, <1>3 DEF Idle, Handlers, Pcs
<1> HIDE DEF t
<1>5. Effect(h) /\ UNCHANGED <<now, tables, jar, late, ghosts>> BY NoEffect DEF OauthStart, IInv
<1>6. n <= MaxStates BY <1>3, SessionAssumption DEF OauthStart
<1>7. TypeOK' BY <1>1, <1>3, <1>4, <1>5, <1>6, TypesWhenMoving, JarUnchanged DEF IInv, TypeOK
<1>8. SessionInv' BY <1>1, <1>3, <1>4, <1>5, <1>7, SessionsWhenLeaving
<1>9. tasks'[h] = t /\ \A g \in Tasks : g # h => tasks'[g] = tasks[g] BY <1>1 DEF IInv, TypeOK
<1>10. n \in StateTokens /\ n > made.state /\ n \in 1 .. made'.state
  BY <1>3, <1>6, SessionAssumption DEF StateTokens
<1>11. starter[n] = {} BY <1>10 DEF IInv, StateInv, TokenInv
<1>12. \A s \in StateTokens : TokenInv(s)'
  <2> TAKE s \in StateTokens
  <2>1. s > made'.state => s > made.state
    BY <1>3, SessionAssumption DEF StateTokens
  <2> QED BY <1>5, <2>1 DEF IInv, StateInv, TokenInv
<1>13. ~LateInsert("insert_state", n) BY <1>3 DEF LateInsert, IInv, StateInv, LateStateInv
<1>14. \A g \in Tasks : ~Inserts(g, "insert_state", n) BY <1>3 DEF Inserts, IInv, StateInv, StartInv
<1>15. \A k : LateInsert("insert_state", k)' <=> LateInsert("insert_state", k) BY <1>5 DEF LateInsert
<1>16. \A g \in Tasks : StartInv(g)'
  <2> SUFFICES ASSUME NEW g \in Tasks, tasks'[g].pc = "insert_state", NEW k, k = tasks'[g].token
               PROVE  /\ k \in 1 .. made'.state /\ starter'[k] = {}
                      /\ ~LateInsert("insert_state", k)'
                      /\ \A f \in Tasks : Inserts(f, "insert_state", k)' => f = g
    BY DEF StartInv, Inserts, LateInsert
  <2>1. CASE g = h
    <3>1. k = n BY <2>1, <1>4, <1>9
    <3>2. \A f \in Tasks : Inserts(f, "insert_state", k)' => f = g
      BY <3>1, <2>1, <1>9, <1>14 DEF Inserts
    <3> QED BY <3>1, <3>2, <1>5, <1>10, <1>11, <1>13, <1>15
  <2>2. CASE g # h
    <3>1. /\ k \in 1 .. made.state /\ starter[k] = {} /\ ~LateInsert("insert_state", k)
          /\ \A f \in Tasks : Inserts(f, "insert_state", k) => f = g
      BY <2>2, <1>9 DEF IInv, StateInv, StartInv
    <3>2. k \in 1 .. made'.state /\ k # n BY <3>1, <1>3
    <3>3. \A f \in Tasks : Inserts(f, "insert_state", k)' => f = g
      BY <3>1, <3>2, <1>4, <1>9 DEF Inserts
    <3> QED BY <3>1, <3>2, <3>3, <1>5, <1>15
  <2> QED BY <2>1, <2>2
<1>17. \A g \in Tasks : ConsumeInv(g)'
  BY <1>4, <1>5, <1>9 DEF IInv, StateInv, ConsumeInv, GivenTo
<1>18. \A c \in Browsers : CookieInv(c)' BY <1>5 DEF IInv, StateInv, CookieInv, GivenTo
<1>19. LateStateInv'
  <2>1. 1 .. made.state \subseteq 1 .. made'.state BY <1>3
  <2> QED BY <2>1, <1>5 DEF IInv, StateInv, LateStateInv
<1> QED BY <1>7, <1>8, <1>12, <1>16, <1>17, <1>18, <1>19 DEF IInv, StateInv

(* The browser comes back with a state. *)
LEMMA OauthCallbackStep ==
  ASSUME IInv, NEW h \in Tasks, NEW b \in Browsers, NEW s \in StateTokens, OauthCallback(h, b, s)
  PROVE  IInv'
<1>1. Effect(h) /\ At(h, "idle") /\ UNCHANGED <<now, tables, made, late, ghosts>>
  BY NoEffect DEF OauthCallback, IInv
<1>2. CASE jar' = [jar EXCEPT ![b].state = 0] /\ UNCHANGED tasks
  <2> DEFINE t == tasks[h]
  <2>1. tasks' = [tasks EXCEPT ![h] = t] /\ t \in Handlers /\ t.pc = "idle" /\ ~t.stale
    BY <1>1, <1>2 DEF IInv, TypeOK, SessionInv, StaleInv, At
  <2>2. /\ jar' \in [Browsers -> [state : Nat, session : Nat]]
        /\ \A c \in Browsers : jar'[c].state \in {0, jar[c].state} /\ jar'[c].session = jar[c].session
    BY <1>2 DEF IInv, TypeOK
  <2>3. TypeOK' BY <1>1, <2>1, <2>2, TypesWhenMoving DEF IInv, TypeOK, ghosts
  <2>4. PICK u \in Handlers : u = t BY <2>1
  <2>5. SessionInv' BY <1>1, <2>1, <2>2, <2>3, <2>4, SessionsWhenLeaving
  <2>6. StateInv' BY <1>1, <2>1, <2>2, <2>3, <2>4, StatesWhenLeaving
  <2> QED BY <2>3, <2>5, <2>6 DEF IInv
<1>3. CASE /\ StateCookieMatches(b, s)
           /\ Send(h, b, "consume_state", s, 0) /\ UNCHANGED jar
  <2> DEFINE t == [Idle EXCEPT !.pc = "consume_state", !.by = b, !.token = s, !.expires = 0]
  <2>1. tasks' = [tasks EXCEPT ![h] = t] BY <1>3 DEF Send
  <2>2. s \in Nat /\ s # 0 BY SessionAssumption DEF StateTokens
  <2>3. /\ t \in Handlers /\ t.by = b /\ t.token = s
        /\ t.pc = "consume_state" /\ t.stale = FALSE /\ t.session = 0
    BY <2>2 DEF Idle, Handlers, Pcs
  <2> HIDE DEF t
  <2>4. \E e \in Nat : GivenTo(t.token, t.by, e)
    BY <1>3, <2>2, <2>3 DEF IInv, StateInv, CookieInv, StateCookieMatches
  <2>5. TypeOK' BY <1>1, <1>3, <2>1, <2>3, TypesWhenMoving, JarUnchanged DEF IInv, TypeOK, ghosts
  <2>6. SessionInv' BY <1>1, <1>3, <2>1, <2>3, <2>5, SessionsWhenLeaving
  <2>7. StateInv' BY <1>1, <1>3, <2>1, <2>3, <2>4, <2>5, StatesWhenLeaving
  <2> QED BY <2>5, <2>6, <2>7 DEF IInv
<1> QED BY <1>2, <1>3 DEF OauthCallback

(* A request that carries the session cookie. *)
LEMMA SendSessionStep ==
  ASSUME IInv, NEW h \in Tasks, NEW b \in Browsers, NEW pc \in {"lookup", "logout"},
         SendSession(h, b, pc), UNCHANGED <<now, tables, made, jar, late, ghosts>>
  PROVE  IInv'
<1> DEFINE t == [Idle EXCEPT !.pc = pc, !.by = b, !.session = jar[b].session,
                             !.stale = pc = "lookup" /\ ~Live(jar[b].session)]
<1>1. tasks' = [tasks EXCEPT ![h] = t] /\ jar[b].session # 0 BY DEF SendSession
<1>2. jar[b].session \in Nat /\ pc \in Pcs BY DEF IInv, TypeOK, Pcs
<1>3. PICK old \in BOOLEAN : old = (pc = "lookup" /\ ~Live(jar[b].session)) OBVIOUS
<1>4. /\ t \in Handlers /\ t.by = b /\ t.pc = pc /\ t.session = jar[b].session /\ t.stale = old
  BY <1>2, <1>3 DEF Idle, Handlers
<1> HIDE DEF t
<1>5. Effect(h) BY NoEffect DEF IInv
<1>6. PICK u \in Handlers : u = t BY <1>4
<1>7. Known(u.session) BY <1>1, <1>4, <1>6 DEF IInv, SessionInv
<1>8. u.stale => u.pc = "lookup" /\ u.session # 0 /\ ~Live(u.session) BY <1>1, <1>3, <1>4, <1>6
<1>9. /\ tasks' = [tasks EXCEPT ![h] = u] /\ u.by \in Browsers
      /\ u.pc \notin {"insert_session", "insert_state", "consume_state", "signed_in"}
  BY <1>1, <1>4, <1>6
<1>10. TypeOK' BY <1>5, <1>9, TypesWhenMoving, JarUnchanged DEF IInv, TypeOK, ghosts
<1>11. SessionInv' BY <1>5, <1>7, <1>8, <1>9, <1>10, SessionsWhenLeaving
<1>12. StateInv' BY <1>5, <1>9, <1>10, StatesWhenLeaving
<1> QED BY <1>10, <1>11, <1>12 DEF IInv

(* The browser logs out. *)
LEMMA LogoutStep == ASSUME IInv, NEW h \in Tasks, NEW b \in Browsers, Logout(h, b) PROVE IInv'
<1>1. CASE SendSession(h, b, "logout") BY <1>1, SendSessionStep DEF Logout
<1>2. CASE Send(h, b, "logged_out", 0, 0)
  <2> DEFINE t == [Idle EXCEPT !.pc = "logged_out", !.by = b, !.token = 0, !.expires = 0]
  <2>1. tasks' = [tasks EXCEPT ![h] = t] BY <1>2 DEF Send
  <2>2. /\ t \in Handlers /\ t.by = b
        /\ t.pc = "logged_out" /\ t.stale = FALSE /\ t.session = 0
    BY DEF Idle, Handlers, Pcs
  <2> HIDE DEF t
  <2>3. Effect(h) BY NoEffect DEF Logout, IInv
  <2>4. TypeOK' BY <2>1, <2>2, <2>3, TypesWhenMoving, JarUnchanged DEF IInv, TypeOK, ghosts, Logout
  <2>5. SessionInv' BY <2>1, <2>2, <2>3, <2>4, SessionsWhenLeaving DEF Logout
  <2>6. StateInv' BY <2>1, <2>2, <2>3, <2>4, StatesWhenLeaving DEF Logout
  <2> QED BY <2>4, <2>5, <2>6 DEF IInv
<1> QED BY <1>1, <1>2 DEF Logout

-----------------------------------------------------------------------------
(* The pruner removes rows, and only expired ones. *)
LEMMA PruneStep ==
  ASSUME IInv, UNCHANGED <<now, made, jar, tasks, late, ghosts>>,
         \A k \in DOMAIN states' : k \in DOMAIN states /\ states'[k] = states[k],
         \A k \in DOMAIN sessions' : k \in DOMAIN sessions /\ sessions'[k] = sessions[k]
  PROVE  IInv'
<1> USE DEF IInv, ghosts
<1>1. TypeOK' BY DEF TypeOK, IsRows
<1>2. StateInv'
  BY DEF StateInv, TokenInv, StartInv, ConsumeInv, CookieInv, LateStateInv, LateInsert, Inserts, GivenTo
<1>3. \A k : Live(k)' => Live(k) BY DEF Live
<1>4. \A k : Known(k)' <=> Known(k) BY DEF Known, LateInsert, Inserts
<1>5. SessionInv' BY <1>3, <1>4 DEF SessionInv, HandlerInv, StaleInv, LateInsert, Inserts
<1> QED BY <1>1, <1>2, <1>5

(* delete_expired_ui_sessions. *)
LEMMA PruneUiSessionsStep ==
  ASSUME IInv, NEW since \in 0 .. now, DeleteExpiredUiSessions(since)
  PROVE  IInv' /\ \A k \in DOMAIN sessions \ DOMAIN sessions' : sessions[k] <= now
<1>1. PICK ks \in Doomed(sessions, since) : sessions' = Delete(sessions, ks)
  BY DEF DeleteExpiredUiSessions
<1>2. \A k \in DOMAIN sessions' : k \in DOMAIN sessions /\ sessions'[k] = sessions[k]
  BY <1>1 DEF Delete
<1>3. \A k \in DOMAIN sessions \ DOMAIN sessions' : k \in ks BY <1>1 DEF Delete
<1>4. \A k \in ks : k \in DOMAIN sessions /\ sessions[k] < since BY DEF Doomed
<1>5. \A k \in DOMAIN sessions \ DOMAIN sessions' : sessions[k] <= now
  BY <1>3, <1>4 DEF IInv, TypeOK, IsRows
<1> QED BY <1>2, <1>5, PruneStep DEF DeleteExpiredUiSessions

(* delete_expired_oauth_states. *)
LEMMA PruneOauthStatesStep ==
  ASSUME IInv, NEW since \in 0 .. now, DeleteExpiredOauthStates(since) PROVE IInv'
<1>1. PICK ks \in Doomed(states, since) : states' = Delete(states, ks)
  BY DEF DeleteExpiredOauthStates
<1>2. \A k \in DOMAIN states' : k \in DOMAIN states /\ states'[k] = states[k]
  BY <1>1 DEF Delete
<1> QED BY <1>2, PruneStep DEF DeleteExpiredOauthStates

-----------------------------------------------------------------------------
(* Every step. *)
LEMMA StepIInv == ASSUME IInv, [Next]_vars PROVE IInv'
<1>1. CASE UNCHANGED vars
  BY <1>1, PruneStep DEF vars, tables, ghosts
<1>2. CASE Next
  BY <1>2, TickStep, LateStatementStep, PruneUiSessionsStep, PruneOauthStatesStep,
     OauthStartStep, LocalLoginStep, SendSessionStep, LogoutStep, OauthCallbackStep,
     OauthStartedStep, OauthConsumeStep, OauthFinishStep, SessionInsertedStep, SignedInStep,
     LookupStep, RevokeStep, LogoutDeleteStep, LoggedOutStep, DroppedStep
     DEF Next, Request
<1> QED BY <1>1, <1>2

(* The inductive invariant holds throughout. *)
THEOREM UiSessionsInvariant == Spec => []IInv
BY InitIInv, StepIInv, PTL DEF Spec

(* However a callback is repeated, shared, delayed or timed out, a state   *)
(* lets one login through at most, of the browser that started it and in   *)
(* time (auth.rs, oauth_callback): for any number of browsers, handlers    *)
(* and tokens, any lifetimes and any number of statements left behind.     *)
THEOREM StateIsRedeemedOnce == Spec => []StateRedeemedOnce
<1>1. IInv => StateRedeemedOnce
  <2> SUFFICES ASSUME IInv, NEW s \in StateTokens
               PROVE  Len(redeemed[s]) <= 1 /\ \A i \in 1 .. Len(redeemed[s]) : redeemed[s][i]
    BY DEF StateRedeemedOnce
  <2>1. redeemed[s] \in Outcomes BY DEF IInv, TypeOK
  <2>2. CASE redeemed[s] = << >> BY <2>2
  <2>3. CASE redeemed[s] = <<TRUE>>
    <3>1. Len(redeemed[s]) = 1 /\ redeemed[s][1] = TRUE BY <2>3
    <3> QED BY <3>1
  <2> QED BY <2>1, <2>2, <2>3 DEF Outcomes
<1> QED BY <1>1, UiSessionsInvariant, PTL

(* A session that had ended when a request was sent does not let that      *)
(* request in (auth.rs, current_user): no insert of it can still come,     *)
(* neither from a handler nor from a statement left behind.                *)
THEOREM EndedSessionsStayOut == Spec => []EndedSessionsAreRefused
<1>1. IInv => EndedSessionsAreRefused
  BY DEF IInv, SessionInv, StaleInv, EndedSessionsAreRefused
<1> QED BY <1>1, UiSessionsInvariant, PTL

(* Rows that a handler's step takes away. *)
LEMMA HandlerEffect ==
  ASSUME IInv, NEW h \in Tasks,
         \/ OauthStarted(h) \/ OauthConsume(h) \/ OauthFinish(h)
         \/ SessionInserted(h) \/ SignedIn(h)
         \/ Lookup(h) \/ RevokeUiSession(h)
         \/ LogoutDelete(h) \/ LoggedOut(h) \/ Dropped(h)
  PROVE  Effect(h)
<1> USE NoEffect, AnsweredEffect, UnansweredEffect DEF IInv, At, Ops
<1>1. CASE OauthStarted(h) BY <1>1 DEF OauthStarted
<1>2. CASE OauthConsume(h) BY <1>2 DEF OauthConsume
<1>3. CASE OauthFinish(h) BY <1>3 DEF OauthFinish
<1>4. CASE SessionInserted(h) BY <1>4 DEF SessionInserted
<1>5. CASE SignedIn(h) BY <1>5 DEF SignedIn
<1>6. CASE Lookup(h) BY <1>6 DEF Lookup
<1>7. CASE RevokeUiSession(h) BY <1>7 DEF RevokeUiSession
<1>8. CASE LogoutDelete(h) BY <1>8 DEF LogoutDelete
<1>9. CASE LoggedOut(h) BY <1>9 DEF LoggedOut
<1>10. CASE Dropped(h) BY <1>10 DEF Dropped
<1> QED BY <1>1, <1>2, <1>3, <1>4, <1>5, <1>6, <1>7, <1>8, <1>9, <1>10

(* A session that leaves ui_sessions had expired, or someone let in ended  *)
(* it: the holder of its cookie by a logout, or a revocation, at once or   *)
(* by a statement left behind.                                             *)
THEOREM SessionsEndOnlyForAReason == Spec => SessionsEndForAReason
<1> DEFINE Reason(k) ==
      \/ sessions[k] <= now
      \/ \E h \in Tasks :
            \/ tasks[h].pc = "logout" /\ tasks[h].session = k
            \/ tasks[h].pc = "delete_session" /\ tasks[h].token = k
      \/ \E q \in late : q.op = "delete_session" /\ q.token = k
<1>1. ASSUME IInv, [Next]_vars, NEW k \in DOMAIN sessions \ DOMAIN sessions'
      PROVE  Reason(k)
  <2>1. CASE sessions' = sessions BY <2>1
  <2>2. CASE LateStatement
    <3>1. PICK q \in late : Execute(q) \/ UNCHANGED tables BY <2>2 DEF LateStatement
    <3>2. q \in Statements BY <1>1 DEF IInv, TypeOK
    <3>3. CASE Execute(q) BY <1>1, <3>2, <3>3, ExecuteRows DEF IInv
    <3> QED BY <3>1, <3>3, <2>1 DEF tables
  <2>3. CASE \E since \in 0 .. now : DeleteExpiredUiSessions(since)
    BY <1>1, <2>3, PruneUiSessionsStep
  <2>4. ASSUME NEW h \in Tasks, Effect(h) PROVE Reason(k)
    BY <2>4 DEF Effect
  <2>5. ASSUME NEW h \in Tasks,
               \/ OauthStarted(h) \/ OauthConsume(h) \/ OauthFinish(h)
               \/ SessionInserted(h) \/ SignedIn(h)
               \/ Lookup(h) \/ RevokeUiSession(h)
               \/ LogoutDelete(h) \/ LoggedOut(h) \/ Dropped(h)
        PROVE  Reason(k)
    BY <1>1, <2>4, <2>5, HandlerEffect
  <2> HIDE DEF Reason
  <2> QED BY <1>1, <2>1, <2>2, <2>3, <2>5
     DEF Next, vars, tables, Tick, DeleteExpiredOauthStates, OauthStart, LocalLogin, Request,
         Logout, OauthCallback
<1>2. IInv /\ [Next]_vars =>
        [\A k \in DOMAIN sessions \ DOMAIN sessions' :
           \/ sessions[k] <= now
           \/ \E h \in Tasks :
                 \/ tasks[h].pc = "logout" /\ tasks[h].session = k
                 \/ tasks[h].pc = "delete_session" /\ tasks[h].token = k
           \/ \E q \in late : q.op = "delete_session" /\ q.token = k]_vars
  BY <1>1
<1> QED BY <1>2, UiSessionsInvariant, PTL DEF Spec, SessionsEndForAReason

-----------------------------------------------------------------------------
(* II. The throttle of local logins.                                       *)

Entry == [failures : Nat \ {0}, first : L!Times, locked : Nat, last : L!Times]

(* The logins of n that were let past the check and whose failure would    *)
(* fall under a lock until l.                                              *)
Past(ls, c, n, l) ==
    {h \in Tasks : /\ ls[h].name = n
                   /\ \/ ls[h].pc = "verify" /\ c < l
                      \/ ls[h].pc = "fail" /\ ls[h].stamp < l}

Bound == MaxFailures + Cardinality(Tasks) - 1

(* Before a lock the tries are the failures of the entry; from then on     *)
(* they leave room for the logins that are past the check.                 *)
NameInv(k, table, s, ls, c, n) ==
    /\ n \notin table => k = 0
    /\ n \in table /\ s.locked = 0 => k = s.failures /\ k < MaxFailures
    /\ n \in table /\ s.locked # 0 => k + Cardinality(Past(ls, c, n, s.locked)) <= Bound

(* What CallerConstants says of the throttle's settings. *)
LEMMA LoginNumbers ==
    /\ MaxFailures \in Nat \ {0} /\ Window \in Nat \ {0}
    /\ Lockout \in Nat \ {0} /\ MaxTracked \in Nat \ {0} /\ LoginTime \in Nat
    /\ IsFiniteSet(Tasks) /\ Cardinality(Tasks) \in Nat
BY CallerConstants, FS_CardinalityType

(* The clock of the model counts in natural numbers. *)
LEMMA TimesNatural == L!Times \subseteq Nat
BY LoginNumbers DEF L!Times


(* The instance of the throttle counts as everyone does. *)
LEMMA LoginCardinality == \A S : L!Cardinality(S) = Cardinality(S)
BY DEF L!Cardinality, Cardinality

(* The logins past the check are finitely many. *)
LEMMA PastFinite ==
  ASSUME NEW ls, NEW c, NEW n, NEW l
  PROVE  /\ IsFiniteSet(Past(ls, c, n, l)) /\ Cardinality(Past(ls, c, n, l)) \in Nat
         /\ Past(ls, c, n, l) \subseteq Tasks
<1>1. Past(ls, c, n, l) \subseteq Tasks BY DEF Past
<1>2. IsFiniteSet(Past(ls, c, n, l)) BY <1>1, LoginNumbers, FS_Subset
<1> QED BY <1>1, <1>2, FS_CardinalityType

(* A part of a finite set that misses one of its elements. *)
LEMMA OneLess ==
  ASSUME NEW S, IsFiniteSet(S), NEW x \in S, NEW T, T \subseteq S \ {x}
  PROVE  Cardinality(T) + 1 <= Cardinality(S) /\ Cardinality(T) \in Nat /\ Cardinality(S) \in Nat
<1>1. IsFiniteSet(S \ {x}) /\ Cardinality(S \ {x}) = Cardinality(S) - 1 BY FS_RemoveElement
<1>2. IsFiniteSet(T) /\ Cardinality(T) <= Cardinality(S \ {x}) BY <1>1, FS_Subset
<1>3. Cardinality(T) \in Nat /\ Cardinality(S) \in Nat /\ Cardinality(S \ {x}) \in Nat
  BY <1>1, <1>2, FS_CardinalityType
<1> QED BY <1>1, <1>2, <1>3

(* Nothing is past the check that was not before. *)
LEMMA NoneAdded ==
  ASSUME NEW k \in Nat, NEW table, NEW s, NEW ls, NEW lt, NEW c, NEW d, NEW n,
         NameInv(k, table, s, ls, c, n),
         n \in table => Past(lt, d, n, s.locked) \subseteq Past(ls, c, n, s.locked)
  PROVE  NameInv(k, table, s, lt, d, n)
<1>1. CASE n \in table /\ s.locked # 0
  <2>1. Past(lt, d, n, s.locked) \subseteq Past(ls, c, n, s.locked) BY <1>1
  <2>2. Cardinality(Past(lt, d, n, s.locked)) <= Cardinality(Past(ls, c, n, s.locked))
    BY <2>1, PastFinite, FS_Subset
  <2>3. Bound \in Int BY LoginNumbers DEF Bound
  <2>4. k + Cardinality(Past(ls, c, n, s.locked)) <= Bound BY <1>1 DEF NameInv
  <2>5. k + Cardinality(Past(lt, d, n, s.locked)) <= Bound BY <2>2, <2>3, <2>4, PastFinite
  <2> QED BY <1>1, <2>5 DEF NameInv
<1>2. CASE ~(n \in table /\ s.locked # 0) BY <1>2 DEF NameInv
<1> QED BY <1>1, <1>2

-----------------------------------------------------------------------------
(* The state of the throttle.                                              *)

LoginTypes ==
    /\ L!TypeOK
    /\ IsFiniteSet(L!Tracked) /\ Cardinality(L!Tracked) <= MaxTracked
    /\ \A n \in L!Tracked : attempts[n].locked <= now + Lockout
    /\ \A h \in Tasks : logins[h].pc # "idle" => logins[h].name \in Names
    /\ \A h \in Tasks : logins[h].pc \in {"check", "fail"} =>
          logins[h].stamp <= now /\ now <= logins[h].stamp + 1

TriedInv ==
    \A n \in Names : NameInv(tried[n], L!Tracked, attempts[n], logins, now, n)

LoginInv == LoginTypes /\ TriedInv

(* An entry of the table or, with no failure yet, a new one. *)
Started == [failures : Nat, first : L!Times, locked : Nat, last : L!Times]

(* One failure on an entry: counted while not locked, a lock at            *)
(* max_failures.                                                           *)
LEMMA FailedFacts ==
  ASSUME NEW s \in Started, NEW t \in L!Times, L!Kept(s, t), NEW r, r = L!Failed(s, t)
  PROVE  /\ r \in Started /\ r.first = s.first /\ r.last = t
         /\ s.locked > t => r.failures = s.failures /\ r.locked = s.locked
         /\ ~(s.locked > t) =>
              /\ r.failures = s.failures + 1 /\ t <= s.first + Window
              /\ r.locked = IF s.failures + 1 >= MaxFailures THEN t + Lockout ELSE s.locked
<1>1. /\ s.failures \in Nat /\ s.first \in Nat /\ s.locked \in Nat /\ t \in Nat
      /\ s.first \in L!Times /\ s.last \in L!Times
      /\ s = [failures |-> s.failures, first |-> s.first, locked |-> s.locked, last |-> s.last]
  BY TimesNatural DEF Started
<1>2. CASE s.locked > t
  <2>1. r = [failures |-> s.failures, first |-> s.first, locked |-> s.locked, last |-> t]
    BY <1>1, <1>2 DEF L!Failed, L!LimitedUntil
  <2> QED BY <1>1, <1>2, <2>1 DEF Started
<1>3. CASE ~(s.locked > t)
  <2>1. L!Elapsed(s.first, t) <= Window BY <1>3 DEF L!Kept, L!LimitedUntil
  <2>2. t <= s.first + Window BY <1>1, <2>1, LoginNumbers DEF L!Elapsed
  <2>3. L!Restarted(s, t) = s
    <3>1. L!Elapsed(s.first, t) \in Nat BY <1>1 DEF L!Elapsed
    <3> QED BY <2>1, <3>1, LoginNumbers DEF L!Restarted
  <2>4. r = [failures |-> s.failures + 1, first |-> s.first, last |-> t,
             locked |-> IF s.failures + 1 >= MaxFailures THEN t + Lockout ELSE s.locked]
    <3>1. r = [s EXCEPT !.failures = s.failures + 1, !.last = t,
                !.locked = IF s.failures + 1 >= MaxFailures THEN t + Lockout ELSE s.locked]
      BY <1>3, <2>3 DEF L!Failed, L!LimitedUntil
    <3> QED BY <1>1, <3>1
  <2>5. (IF s.failures + 1 >= MaxFailures THEN t + Lockout ELSE s.locked) \in Nat BY <1>1, LoginNumbers
  <2> QED BY <1>1, <1>3, <2>2, <2>4, <2>5 DEF Started
<1> QED BY <1>2, <1>3

(* The entries of the table are well formed. *)
LEMMA EntryFacts ==
  ASSUME L!TypeOK, NEW n \in L!Tracked
  PROVE  n \in Names /\ attempts[n] \in Entry /\ attempts[n] \in Started
         /\ attempts[n].locked <= LoginTime + Lockout
<1>1. n \in Names /\ attempts[n] \in [failures : Nat \ {0}, first : L!Times,
                                       locked : 0 .. LoginTime + Lockout, last : L!Times]
  BY DEF L!TypeOK
<1> QED BY <1>1, LoginNumbers DEF Entry, Started

(* prune_expired leaves entries as they are and drops no locked one. *)
LEMMA PrunedFacts ==
  ASSUME NEW t
  PROVE  /\ DOMAIN L!Pruned(t) = {m \in L!Tracked : L!Kept(attempts[m], t)}
         /\ \A m \in DOMAIN L!Pruned(t) : L!Pruned(t)[m] = attempts[m]
BY DEF L!Pruned

-----------------------------------------------------------------------------
(* The steps of a login.                                                   *)

(* What makes room in the table. *)
LEMMA VictimsFacts ==
  ASSUME NEW table, NEW n, NEW gone, gone \in L!Victims(table, n)
  PROVE  /\ gone \subseteq DOMAIN table /\ n \notin gone
         /\ \/ gone = {} /\ (n \in DOMAIN table \/ ~(Cardinality(DOMAIN table) >= MaxTracked))
            \/ /\ n \notin DOMAIN table /\ Cardinality(DOMAIN table) >= MaxTracked
               /\ \E v \in L!Oldest(table) : gone = {v}
<1>1. CASE n \notin DOMAIN table /\ Cardinality(DOMAIN table) >= MaxTracked
  <2>1. PICK v \in L!Oldest(table) : gone = {v} BY <1>1, LoginCardinality DEF L!Victims
  <2>2. v \in DOMAIN table BY DEF L!Oldest
  <2> QED BY <1>1, <2>1, <2>2
<1>2. CASE ~(n \notin DOMAIN table /\ Cardinality(DOMAIN table) >= MaxTracked)
  <2>1. gone = {} BY <1>2, LoginCardinality DEF L!Victims
  <2> QED BY <1>2, <2>1
<1> QED BY <1>1, <1>2

(* A failure, spelled out: the entry s it finds or makes becomes r. *)
FailureOf(h, n, t, gone, s, r) ==
    /\ n = logins[h].name /\ t = logins[h].stamp /\ t <= now /\ now <= t + 1
    /\ gone \in L!Victims(L!Pruned(t), n)
    /\ DOMAIN attempts' = (DOMAIN L!Pruned(t) \ gone) \cup {n} /\ attempts'[n] = r
    /\ \A m \in DOMAIN L!Pruned(t) \ gone : m # n => attempts'[m] = attempts[m]
    /\ s = IF n \in DOMAIN L!Pruned(t) THEN attempts[n] ELSE L!Fresh(t)
    /\ r.first = s.first /\ r.last = t
    /\ s.locked > t => n \in DOMAIN L!Pruned(t) /\ r.failures = s.failures /\ r.locked = s.locked
    /\ ~(s.locked > t) =>
         /\ r.failures = s.failures + 1 /\ t <= s.first + Window
         /\ r.locked = IF s.failures + 1 >= MaxFailures THEN t + Lockout ELSE s.locked
    /\ tried' = [m \in Names |->
                    IF m = n THEN (IF L!GoesOn(n, t) THEN tried[n] + 1 ELSE 1)
                    ELSE IF m \in DOMAIN attempts' THEN tried[m] ELSE 0]
    /\ now' = now /\ logins[h].pc = "fail" /\ logins' = [logins EXCEPT ![h] = L!Idle]

(* Every failure is one of those. *)
LEMMA FailureFacts ==
  ASSUME LoginInv, NEW h \in Tasks, L!LoginFailed(h)
  PROVE  \E n \in Names, t \in L!Times, gone \in SUBSET Names, s \in Started, r \in Entry :
            FailureOf(h, n, t, gone, s, r)
<1>1. PICK n, t : n = logins[h].name /\ t = logins[h].stamp OBVIOUS
<1>2. logins[h].pc = "fail" /\ logins' = [logins EXCEPT ![h] = L!Idle] /\ now' = now
  BY DEF L!LoginFailed, L!Goto
<1>3. n \in Names /\ t \in L!Times /\ t <= now /\ now <= t + 1
  BY <1>1, <1>2 DEF LoginInv, LoginTypes, L!TypeOK
<1>4. PICK gone \in SUBSET Names : L!RecordFailure(n, t, gone)
  BY <1>1 DEF L!LoginFailed
<1>5. PICK s : s = IF n \in DOMAIN L!Pruned(t) THEN attempts[n] ELSE L!Fresh(t) OBVIOUS
<1>6. PICK r : r = L!Failed(s, t) OBVIOUS
<1>7. /\ gone \in L!Victims(L!Pruned(t), n)
      /\ attempts' = [m \in (DOMAIN L!Pruned(t) \ gone) \cup {n} |->
                         IF m = n THEN r ELSE L!Pruned(t)[m]]
  <2>1. s = IF n \in DOMAIN L!Pruned(t) THEN L!Pruned(t)[n] ELSE L!Fresh(t) BY <1>5, PrunedFacts
  <2> QED BY <1>4, <1>6, <2>1 DEF L!RecordFailure
<1>8. /\ s \in Started /\ L!Kept(s, t) /\ t \in Nat
      /\ s.locked > t => n \in DOMAIN L!Pruned(t) /\ s.failures # 0
  <2>0. t \in Nat BY <1>3, TimesNatural
  <2>1. CASE n \in DOMAIN L!Pruned(t)
    <3>1. s = attempts[n] /\ n \in L!Tracked /\ L!Kept(s, t) BY <1>5, <2>1, PrunedFacts
    <3>2. s \in Started /\ s \in Entry BY <3>1, EntryFacts DEF LoginInv, LoginTypes
    <3> QED BY <2>0, <2>1, <3>1, <3>2 DEF Entry
  <2>2. CASE n \notin DOMAIN L!Pruned(t)
    <3>1. s = [failures |-> 0, first |-> t, locked |-> 0, last |-> t]
      BY <1>5, <2>2 DEF L!Fresh, L!NotLocked
    <3>2. s \in Started BY <1>3, <3>1 DEF Started
    <3>3. L!Kept(s, t) BY <2>0, <3>1, LoginNumbers DEF L!Kept, L!Elapsed
    <3> QED BY <2>0, <3>1, <3>2, <3>3
  <2> QED BY <2>1, <2>2
<1>9. /\ r \in Started /\ r.first = s.first /\ r.last = t
      /\ s.locked > t => r.failures = s.failures /\ r.locked = s.locked
      /\ ~(s.locked > t) =>
           /\ r.failures = s.failures + 1 /\ t <= s.first + Window
           /\ r.locked = IF s.failures + 1 >= MaxFailures THEN t + Lockout ELSE s.locked
  BY <1>3, <1>6, <1>8, FailedFacts
<1>10. r \in Entry
  <2>1. s.failures \in Nat /\ r.failures \in Nat BY <1>8, <1>9 DEF Started
  <2>2. r.failures # 0 BY <1>8, <1>9, <2>1
  <2> QED BY <1>9, <2>1, <2>2 DEF Entry, Started
<1>11. attempts'[n] = r BY <1>7
<1>12. tried' = [m \in Names |->
                    IF m = n THEN (IF L!GoesOn(n, t) THEN tried[n] + 1 ELSE 1)
                    ELSE IF m \in DOMAIN attempts' THEN tried[m] ELSE 0]
  BY <1>1 DEF L!LoginFailed
<1>13. \A m \in DOMAIN L!Pruned(t) \ gone : m # n => attempts'[m] = attempts[m]
  BY <1>7, PrunedFacts
<1>14. DOMAIN attempts' = (DOMAIN L!Pruned(t) \ gone) \cup {n} BY <1>7
<1>15. s.locked > t => n \in DOMAIN L!Pruned(t) /\ r.failures = s.failures /\ r.locked = s.locked
  BY <1>8, <1>9
<1>16. FailureOf(h, n, t, gone, s, r)
  BY <1>1, <1>2, <1>3, <1>5, <1>7, <1>9, <1>11, <1>12, <1>13, <1>14, <1>15 DEF FailureOf
<1> QED BY <1>3, <1>8, <1>10, <1>16

(* The failing name. *)
LEMMA FailingName ==
  ASSUME LoginInv, NEW h \in Tasks, NEW n \in Names, NEW t \in L!Times,
         NEW gone, NEW s \in Started, NEW r \in Entry, FailureOf(h, n, t, gone, s, r)
  PROVE  tried'[n] \in Nat /\ NameInv(tried'[n], {n}, r, logins', now, n)
<1> DEFINE old == Past(logins, now, n, s.locked)
           new == Past(logins', now, n, r.locked)
<1>1. /\ tried[n] \in Nat /\ now \in Nat /\ t \in Nat
      /\ s.failures \in Nat /\ s.locked \in Nat /\ r.locked \in Nat /\ r.failures \in Nat
      /\ logins \in [Tasks -> [pc : L!Pcs, name : Names \cup {L!None}, stamp : L!Times]]
  BY TimesNatural DEF LoginInv, LoginTypes, L!TypeOK, Entry, Started
<1>2. h \notin new /\ new \subseteq Tasks \ {h}
  <2>1. logins'[h].pc = "idle" BY <1>1 DEF FailureOf, L!Idle
  <2> QED BY <2>1 DEF Past
<1>3. Cardinality(new) + 1 <= Cardinality(Tasks) /\ Cardinality(new) \in Nat
  BY <1>2, LoginNumbers, OneLess
<1>4. tried'[n] = IF L!GoesOn(n, t) THEN tried[n] + 1 ELSE 1 BY DEF FailureOf
<1>5. s = IF n \in DOMAIN L!Pruned(t) THEN attempts[n] ELSE L!Fresh(t) BY DEF FailureOf
<1>6. Bound = MaxFailures + Cardinality(Tasks) - 1 /\ Cardinality(Tasks) \in Nat /\ MaxFailures \in Nat \ {0}
  BY LoginNumbers DEF Bound
<1>7. CASE s.locked > t
  <2>1. /\ n \in DOMAIN L!Pruned(t) /\ r.failures = s.failures /\ r.locked = s.locked
        /\ logins[h].pc = "fail" /\ logins[h].stamp = t /\ logins[h].name = n
        /\ logins' = [logins EXCEPT ![h] = L!Idle]
    BY <1>7 DEF FailureOf
  <2>2. n \in L!Tracked /\ s = attempts[n] BY <1>5, <2>1, PrunedFacts
  <2>3. L!GoesOn(n, t) BY <1>7, <2>2 DEF L!GoesOn, L!LimitedUntil
  <2>4. s.locked # 0 BY <1>1, <1>7
  <2>5. h \in old BY <1>1, <1>7, <2>1 DEF Past
  <2>6. new \subseteq old \ {h}
    <3>1. \A g \in Tasks : g # h => logins'[g] = logins[g] BY <1>1, <2>1
    <3> QED BY <1>2, <2>1, <3>1 DEF Past
  <2>7. Cardinality(new) + 1 <= Cardinality(old) /\ Cardinality(old) \in Nat
    BY <2>5, <2>6, PastFinite, OneLess
  <2>8. tried[n] + Cardinality(old) <= Bound
    BY <2>2, <2>4 DEF LoginInv, TriedInv, NameInv
  <2>9. tried'[n] + Cardinality(new) <= Bound
    BY <1>1, <1>3, <1>4, <1>6, <2>3, <2>7, <2>8
  <2>10. tried'[n] \in Nat /\ r.locked # 0 BY <1>1, <1>4, <2>1, <2>4
  <2> QED BY <2>9, <2>10 DEF NameInv
<1>8. CASE ~(s.locked > t)
  <2>1. /\ r.failures = s.failures + 1
        /\ r.locked = IF s.failures + 1 >= MaxFailures THEN t + Lockout ELSE s.locked
    BY <1>8 DEF FailureOf
  <2>2. CASE n \in DOMAIN L!Pruned(t) /\ s.locked = 0
    <3>1. n \in L!Tracked /\ s = attempts[n] /\ L!Kept(s, t) BY <1>5, <2>2, PrunedFacts
    <3>2. tried[n] = s.failures /\ tried[n] < MaxFailures
      BY <2>2, <3>1 DEF LoginInv, TriedInv, NameInv
    <3>3. L!GoesOn(n, t)
      BY <1>8, <2>2, <3>1 DEF L!GoesOn, L!Kept, L!LimitedUntil, L!NotLocked
    <3>4. tried'[n] = s.failures + 1 /\ tried'[n] <= MaxFailures
      BY <1>1, <1>4, <1>6, <3>2, <3>3
    <3>5. CASE s.failures + 1 >= MaxFailures
      <4>1. tried'[n] + Cardinality(new) <= Bound BY <1>1, <1>3, <1>6, <3>4
      <4>2. r.locked # 0 BY <1>1, <2>1, <3>5, LoginNumbers
      <4> QED BY <1>1, <3>4, <4>1, <4>2 DEF NameInv
    <3>6. CASE ~(s.failures + 1 >= MaxFailures)
      <4>1. r.locked = 0 /\ tried'[n] = r.failures /\ tried'[n] < MaxFailures
        BY <1>1, <1>6, <2>1, <2>2, <3>4, <3>6
      <4> QED BY <1>1, <4>1 DEF NameInv
    <3> QED BY <3>5, <3>6
  <2>3. CASE n \in DOMAIN L!Pruned(t) /\ s.locked # 0
    <3>1. n \in L!Tracked /\ s = attempts[n] BY <1>5, <2>3, PrunedFacts
    <3>2. ~L!GoesOn(n, t) BY <1>8, <2>3, <3>1 DEF L!GoesOn, L!LimitedUntil, L!NotLocked
    <3>3. tried'[n] = 1 BY <1>4, <3>2
    <3>4. r.locked # 0 BY <1>1, <2>1, <2>3, LoginNumbers
    <3>5. 1 + Cardinality(new) <= Bound BY <1>3, <1>6
    <3> QED BY <3>3, <3>4, <3>5 DEF NameInv
  <2>4. CASE n \notin DOMAIN L!Pruned(t)
    <3>1. s.failures = 0 /\ s.locked = 0 BY <1>5, <2>4 DEF L!Fresh, L!NotLocked
    <3>2. ~L!GoesOn(n, t)
      <4>1. n \in L!Tracked => ~L!Kept(attempts[n], t) BY <2>4, PrunedFacts
      <4> QED BY <4>1 DEF L!GoesOn, L!Kept
    <3>3. tried'[n] = 1 /\ r.failures = 1 BY <1>1, <1>4, <2>1, <3>1, <3>2
    <3>4. CASE MaxFailures = 1
      <4>1. r.locked # 0 BY <1>1, <2>1, <3>1, <3>4, LoginNumbers
      <4>2. 1 + Cardinality(new) <= Bound BY <1>3, <1>6
      <4> QED BY <3>3, <4>1, <4>2 DEF NameInv
    <3>5. CASE MaxFailures # 1
      <4>1. r.locked = 0 /\ 1 < MaxFailures BY <1>1, <1>6, <2>1, <3>1, <3>5
      <4> QED BY <3>3, <4>1 DEF NameInv
    <3> QED BY <3>4, <3>5
  <2> QED BY <2>2, <2>3, <2>4
<1> QED BY <1>7, <1>8

(* A failure keeps the types of the table and the bound for every name. *)
LEMMA LoginFailedTypes ==
  ASSUME LoginInv, NEW h \in Tasks, L!LoginFailed(h)
  PROVE  LoginTypes' /\ TriedInv'
<1>1. PICK n \in Names, t \in L!Times, gone \in SUBSET Names, s \in Started, r \in Entry :
         FailureOf(h, n, t, gone, s, r)
  BY FailureFacts
<1> USE DEF FailureOf
<1>2. PICK D : D = DOMAIN L!Pruned(t) OBVIOUS
<1>3. D \subseteq L!Tracked /\ gone \subseteq D /\ n \notin gone /\ D \subseteq Names
  <2>1. D \subseteq L!Tracked BY <1>2, PrunedFacts
  <2>2. L!Tracked \subseteq Names BY DEF LoginInv, LoginTypes, L!TypeOK
  <2> QED BY <1>1, <1>2, <2>1, <2>2, VictimsFacts
<1>4. IsFiniteSet(L!Tracked') /\ Cardinality(L!Tracked') <= MaxTracked
  <2>1. L!Tracked' = (D \ gone) \cup {n} BY <1>1, <1>2 DEF L!Tracked
  <2>2. /\ IsFiniteSet(D) /\ Cardinality(D) \in Nat /\ Cardinality(D) <= MaxTracked
    <3>1. IsFiniteSet(L!Tracked) /\ Cardinality(L!Tracked) <= MaxTracked BY DEF LoginInv, LoginTypes
    <3>2. IsFiniteSet(D) /\ Cardinality(D) <= Cardinality(L!Tracked) BY <1>3, <3>1, FS_Subset
    <3>3. Cardinality(L!Tracked) \in Nat /\ Cardinality(D) \in Nat BY <3>1, <3>2, FS_CardinalityType
    <3> QED BY <3>1, <3>2, <3>3, LoginNumbers
  <2>3. CASE gone = {} /\ n \in D
    <3>1. (D \ gone) \cup {n} = D BY <2>3
    <3> QED BY <2>1, <2>2, <3>1
  <2>4. CASE gone = {} /\ n \notin D /\ ~(Cardinality(D) >= MaxTracked)
    <3>1. (D \ gone) \cup {n} = D \cup {n} BY <2>4
    <3>2. IsFiniteSet(D \cup {n}) /\ Cardinality(D \cup {n}) = Cardinality(D) + 1 BY <2>2, <2>4, FS_AddElement
    <3> QED BY <2>1, <2>2, <2>4, <3>1, <3>2, LoginNumbers
  <2>5. CASE n \notin D /\ \E v \in L!Oldest(L!Pruned(t)) : gone = {v}
    <3>1. PICK v \in D : gone = {v} BY <1>3, <2>5
    <3>2. IsFiniteSet(D \ {v}) /\ Cardinality(D \ {v}) = Cardinality(D) - 1 BY <2>2, FS_RemoveElement
    <3>3. n \notin D \ {v} BY <2>5
    <3>4. /\ IsFiniteSet((D \ {v}) \cup {n})
          /\ Cardinality((D \ {v}) \cup {n}) = Cardinality(D \ {v}) + 1
      BY <3>2, <3>3, FS_AddElement
    <3> QED BY <2>1, <2>2, <3>1, <3>2, <3>4, LoginNumbers
  <2> QED BY <1>1, <1>2, <2>3, <2>4, <2>5, VictimsFacts
<1>5. t \in Nat /\ now \in Nat /\ LoginTime \in Nat /\ now \in L!Times /\ now <= LoginTime /\ t <= LoginTime
  BY TimesNatural, LoginNumbers DEF LoginInv, LoginTypes, L!TypeOK, L!Times
<1>6. /\ s.locked \in Nat /\ r.locked \in Nat /\ s.locked <= now + Lockout
      /\ r.locked <= now + Lockout
  <2>1. s.locked \in Nat /\ r.locked \in Nat BY DEF Started, Entry
  <2>2. s.locked <= now + Lockout
    <3>1. CASE n \in DOMAIN L!Pruned(t)
      <4>1. n \in L!Tracked /\ s = attempts[n] BY <1>1, <1>2, <1>3, <3>1
      <4> QED BY <4>1 DEF LoginInv, LoginTypes
    <3>2. CASE n \notin DOMAIN L!Pruned(t)
      <4>1. s.locked = 0 BY <1>1, <3>2 DEF L!Fresh, L!NotLocked
      <4> QED BY <1>5, <4>1, LoginNumbers
    <3> QED BY <3>1, <3>2
  <2> QED BY <1>1, <1>5, <2>1, <2>2, LoginNumbers
<1>7. ASSUME NEW m \in L!Tracked'
      PROVE  /\ m \in Names /\ attempts'[m].locked <= now + Lockout
             /\ attempts'[m] \in [failures : Nat \ {0}, first : L!Times,
                                  locked : 0 .. LoginTime + Lockout, last : L!Times]
             /\ attempts'[m].locked <= attempts'[m].last + 1 + Lockout
  <2>1. CASE m = n
    <3>1. r.locked \in 0 .. LoginTime + Lockout BY <1>5, <1>6, LoginNumbers
    <3>2. r \in [failures : Nat \ {0}, first : L!Times,
                 locked : 0 .. LoginTime + Lockout, last : L!Times]
      BY <3>1 DEF Entry
    <3>3. r.locked <= r.last + 1 + Lockout BY <1>1, <1>5, <1>6, LoginNumbers
    <3> QED BY <1>1, <1>6, <2>1, <3>2, <3>3
  <2>2. CASE m # n
    <3>1. m \in D \ gone BY <1>1, <1>2, <2>2 DEF L!Tracked
    <3>2. attempts'[m] = attempts[m] /\ m \in L!Tracked BY <1>1, <1>2, <1>3, <2>2, <3>1
    <3> QED BY <3>2 DEF LoginInv, LoginTypes, L!TypeOK
  <2> QED BY <2>1, <2>2
<1>8. /\ logins' \in [Tasks -> [pc : L!Pcs, name : Names \cup {L!None}, stamp : L!Times]]
      /\ \A g \in Tasks : g # h => logins'[g] = logins[g]
      /\ logins'[h].pc = "idle"
  <2>1. /\ L!Idle.pc = "idle"
        /\ L!Idle \in [pc : L!Pcs, name : Names \cup {L!None}, stamp : L!Times]
    BY LoginNumbers DEF L!Idle, L!Pcs, L!Times
  <2> QED BY <1>1, <2>1 DEF LoginInv, LoginTypes, L!TypeOK
<1>9. ASSUME NEW m \in Names
      PROVE  /\ tried'[m] \in Nat
             /\ NameInv(tried'[m], L!Tracked', attempts'[m], logins', now, m)
  <2>0. tried[m] \in Nat /\ NameInv(tried[m], L!Tracked, attempts[m], logins, now, m)
    BY DEF LoginInv, LoginTypes, L!TypeOK, TriedInv
  <2>1. CASE m = n
    <3>1. m \in L!Tracked' /\ attempts'[m] = r BY <1>1, <2>1 DEF L!Tracked
    <3>2. tried'[n] \in Nat /\ NameInv(tried'[n], {n}, r, logins', now, n)
      <4> HIDE DEF FailureOf
      <4> QED BY <1>1, FailingName
    <3> QED BY <2>1, <3>1, <3>2 DEF NameInv
  <2>2. CASE m # n /\ m \notin L!Tracked'
    <3>1. m \notin L!Tracked' /\ tried'[m] = 0 BY <1>1, <2>2 DEF L!Tracked
    <3> QED BY <3>1 DEF NameInv
  <2>3. CASE m # n /\ m \in L!Tracked'
    <3>1. m \in D \ gone BY <1>1, <1>2, <2>3 DEF L!Tracked
    <3>2. /\ m \in L!Tracked' /\ m \in L!Tracked /\ attempts'[m] = attempts[m]
          /\ tried'[m] = tried[m]
      BY <1>1, <1>2, <1>3, <2>3, <3>1 DEF L!Tracked
    <3>3. Past(logins', now, m, attempts[m].locked) \subseteq Past(logins, now, m, attempts[m].locked)
      BY <1>8 DEF Past
    <3>4. NameInv(tried[m], L!Tracked, attempts[m], logins', now, m)
      BY <2>0, <3>3, NoneAdded
    <3> QED BY <2>0, <3>2, <3>4 DEF NameInv
  <2> QED BY <2>1, <2>2, <2>3
<1>10. tried' \in [Names -> Nat]
  <2>1. tried' = [m \in Names |-> tried'[m]] BY <1>1
  <2> QED BY <1>9, <2>1
<1>11. L!TypeOK' BY <1>1, <1>5, <1>7, <1>8, <1>10 DEF L!TypeOK, L!Tracked
<1>12. LoginTypes' BY <1>1, <1>4, <1>7, <1>8, <1>11 DEF LoginInv, LoginTypes
<1>13. TriedInv' BY <1>1, <1>9 DEF TriedInv
<1> QED BY <1>12, <1>13

(* The handlers, of what LoginTypes says. *)
LoginTasks ==
    /\ logins \in [Tasks -> [pc : L!Pcs, name : Names \cup {L!None}, stamp : L!Times]]
    /\ \A h \in Tasks : logins[h].pc # "idle" => logins[h].name \in Names
    /\ \A h \in Tasks : logins[h].pc \in {"check", "fail"} =>
          logins[h].stamp <= now /\ now <= logins[h].stamp + 1

(* The part of the types that is about handlers. *)
LEMMA TasksOf == LoginTypes => LoginTasks /\ now \in L!Times /\ now \in Nat
BY TimesNatural DEF LoginTypes, LoginTasks, L!TypeOK

(* A handler goes on, to a step that has its own time or none. *)
LEMMA OneTask ==
  ASSUME LoginTypes, NEW h \in Tasks, NEW x, logins' = [logins EXCEPT ![h] = x], now' = now,
         x \in [pc : L!Pcs, name : Names \cup {L!None}, stamp : L!Times],
         x.pc # "idle" => x.name \in Names, x.pc \in {"check", "fail"} => x.stamp = now
  PROVE  LoginTasks'
<1>1. LoginTasks /\ now \in Nat BY TasksOf
<1>2. logins' \in [Tasks -> [pc : L!Pcs, name : Names \cup {L!None}, stamp : L!Times]]
  BY <1>1 DEF LoginTasks
<1>3. \A g \in Tasks : logins'[g] = IF g = h THEN x ELSE logins[g] BY <1>1 DEF LoginTasks
<1> QED BY <1>1, <1>2, <1>3 DEF LoginTasks

(* A handler that goes on keeps what is said of handlers. *)
LEMMA GotoTasks ==
  ASSUME LoginTypes, NEW h \in Tasks, NEW from, NEW to \in {"idle", "verify", "success"},
         from # "idle", L!Goto(h, from, to), now' = now
  PROVE  LoginTasks'
<1>1. LoginTasks BY TasksOf
<1>2. /\ L!Idle.pc = "idle"
      /\ L!Idle \in [pc : L!Pcs, name : Names \cup {L!None}, stamp : L!Times]
  BY LoginNumbers DEF L!Idle, L!Pcs, L!Times
<1>3. PICK x : x = IF to = "idle" THEN L!Idle ELSE [logins[h] EXCEPT !.pc = to, !.stamp = 0] OBVIOUS
<1>4. logins[h].pc = from /\ logins' = [logins EXCEPT ![h] = x] BY <1>3 DEF L!Goto
<1>5. CASE to = "idle" BY <1>2, <1>3, <1>4, <1>5, OneTask
<1>6. CASE to # "idle"
  <2>1. x = [logins[h] EXCEPT !.pc = to, !.stamp = 0] BY <1>3, <1>6
  <2>2. x.pc = to /\ x.name = logins[h].name /\ x.name \in Names
    BY <1>1, <1>4, <2>1 DEF LoginTasks
  <2>3. 0 \in L!Times BY LoginNumbers DEF L!Times
  <2>4. x \in [pc : L!Pcs, name : Names \cup {L!None}, stamp : L!Times]
    BY <1>1, <2>1, <2>3 DEF LoginTasks, L!Pcs
  <2> QED BY <1>4, <2>2, <2>4, OneTask
<1> QED BY <1>5, <1>6

(* Neither table nor tries change, and no login passes the check. *)
LEMMA OnlyTasks ==
  ASSUME LoginInv, LoginTasks', UNCHANGED <<now, attempts, tried>>,
         \A g \in Tasks : \/ logins'[g] = logins[g] \/ logins'[g].pc \notin {"verify", "fail"}
                          \/ /\ logins[g].pc = "verify" /\ logins'[g].pc = "fail"
                             /\ logins'[g].name = logins[g].name /\ logins'[g].stamp = now
  PROVE  LoginInv'
<1>1. L!TypeOK' BY DEF LoginInv, LoginTypes, L!TypeOK, LoginTasks, L!Tracked
<1>2. LoginTypes' BY <1>1 DEF LoginInv, LoginTypes, LoginTasks, L!Tracked
<1>3. ASSUME NEW n \in Names
      PROVE  NameInv(tried[n], L!Tracked, attempts[n], logins', now, n)
  <2>1. tried[n] \in Nat /\ NameInv(tried[n], L!Tracked, attempts[n], logins, now, n)
    BY DEF LoginInv, LoginTypes, L!TypeOK, TriedInv
  <2>2. Past(logins', now, n, attempts[n].locked) \subseteq Past(logins, now, n, attempts[n].locked)
    BY DEF Past
  <2> QED BY <2>1, <2>2, NoneAdded
<1>4. TriedInv' BY <1>3 DEF TriedInv, L!Tracked
<1> QED BY <1>2, <1>4 DEF LoginInv

(* Entries leave the table, and nothing else happens to it. *)
LEMMA FewerEntries ==
  ASSUME LoginInv, LoginTasks', now' = now, L!Tracked' \subseteq L!Tracked,
         \A n \in L!Tracked' : attempts'[n] = attempts[n],
         tried' \in [Names -> Nat]
  PROVE  LoginTypes'
<1>1. IsFiniteSet(L!Tracked') /\ Cardinality(L!Tracked') <= MaxTracked
  <2>1. IsFiniteSet(L!Tracked) /\ Cardinality(L!Tracked) <= MaxTracked BY DEF LoginInv, LoginTypes
  <2>2. IsFiniteSet(L!Tracked') /\ Cardinality(L!Tracked') <= Cardinality(L!Tracked) BY <2>1, FS_Subset
  <2>3. Cardinality(L!Tracked) \in Nat /\ Cardinality(L!Tracked') \in Nat BY <2>1, <2>2, FS_CardinalityType
  <2> QED BY <2>1, <2>2, <2>3, LoginNumbers
<1>2. L!TypeOK' BY DEF LoginInv, LoginTypes, L!TypeOK, LoginTasks
<1> QED BY <1>1, <1>2 DEF LoginInv, LoginTypes, LoginTasks

(* The ghost follows the table. *)
LEMMA ForgetFacts ==
  ASSUME LoginInv, L!Forget
  PROVE  /\ tried' \in [Names -> Nat]
         /\ \A n \in Names : tried'[n] = IF n \in L!Tracked' THEN tried[n] ELSE 0
BY DEF LoginInv, LoginTypes, L!TypeOK, L!Forget, L!Tracked

(* The check prunes and lets in or answers 429. *)
LEMMA LoginCheckInv ==
  ASSUME LoginInv, NEW h \in Tasks, L!LoginCheck(h) PROVE LoginInv'
<1>1. PICK t : t = logins[h].stamp OBVIOUS
<1>2. attempts' = L!Pruned(t) /\ L!Forget /\ UNCHANGED now BY <1>1 DEF L!LoginCheck, L!Check
<1>3. logins[h].pc = "check" BY DEF L!LoginCheck, L!Goto
<1>4. t \in L!Times /\ t <= now /\ t \in Nat /\ now \in Nat
  BY <1>1, <1>3, TimesNatural DEF LoginInv, LoginTypes, L!TypeOK
<1>5. LoginTasks' BY <1>2, GotoTasks DEF L!LoginCheck, LoginInv
<1>6. L!Tracked' \subseteq L!Tracked /\ \A n \in L!Tracked' : attempts'[n] = attempts[n]
  BY <1>2, PrunedFacts DEF L!Tracked
<1>7. LoginTypes' BY <1>2, <1>5, <1>6, FewerEntries, ForgetFacts
<1>8. ASSUME NEW n \in Names
      PROVE  NameInv(tried'[n], L!Tracked', attempts'[n], logins', now, n)
  <2>0. tried[n] \in Nat /\ NameInv(tried[n], L!Tracked, attempts[n], logins, now, n)
    BY DEF LoginInv, LoginTypes, L!TypeOK, TriedInv
  <2>1. CASE n \in L!Tracked'
    <3>1. /\ n \in L!Tracked' /\ n \in L!Tracked /\ attempts'[n] = attempts[n]
          /\ tried'[n] = tried[n]
      BY <1>2, <1>6, <2>1, ForgetFacts
    <3>2. attempts[n].locked \in Nat BY <3>1, <2>1, EntryFacts DEF LoginInv, LoginTypes, Entry
    <3>3. \A g \in Tasks : g # h => logins'[g] = logins[g]
      BY DEF L!LoginCheck, L!Goto, LoginInv, LoginTypes, L!TypeOK
    <3>4. h \notin Past(logins', now, n, attempts[n].locked)
      <4>1. CASE L!Goto(h, "check", "idle")
        <5>1. logins'[h].pc = "idle"
          BY <4>1 DEF L!Goto, L!Idle, LoginInv, LoginTypes, L!TypeOK
        <5> QED BY <5>1 DEF Past
      <4>2. CASE ~L!Limited(logins[h].name, t) /\ L!Goto(h, "check", "verify")
        <5>1. logins'[h].pc = "verify" /\ logins'[h].name = logins[h].name
          BY <4>2 DEF L!Goto, LoginInv, LoginTypes, L!TypeOK
        <5>2. ASSUME logins[h].name = n PROVE ~(now < attempts[n].locked)
          <6>1. n \in DOMAIN L!Pruned(t) /\ L!Pruned(t)[n] = attempts[n]
            BY <1>2, <2>1, PrunedFacts DEF L!Tracked
          <6>2. ~(attempts[n].locked > t) BY <4>2, <5>2, <6>1 DEF L!Limited, L!LimitedUntil
          <6> QED BY <1>4, <3>2, <6>2
        <5> QED BY <5>1, <5>2 DEF Past
      <4> QED BY <1>1, <4>1, <4>2 DEF L!LoginCheck
    <3>5. Past(logins', now, n, attempts[n].locked) \subseteq Past(logins, now, n, attempts[n].locked)
      BY <3>3, <3>4 DEF Past
    <3>6. NameInv(tried[n], L!Tracked, attempts[n], logins', now, n)
      BY <2>0, <3>5, NoneAdded
    <3> QED BY <3>1, <3>6 DEF NameInv
  <2>2. CASE n \notin L!Tracked'
    <3>1. n \notin L!Tracked' /\ tried'[n] = 0 BY <1>2, <2>2, ForgetFacts
    <3> QED BY <3>1 DEF NameInv
  <2> QED BY <2>1, <2>2
<1>9. TriedInv' BY <1>2, <1>8 DEF TriedInv
<1> QED BY <1>7, <1>9 DEF LoginInv

(* A correct login clears its name. *)
LEMMA LoginOkInv ==
  ASSUME LoginInv, NEW h \in Tasks, L!LoginOk(h) PROVE LoginInv'
<1>1. PICK n : n = logins[h].name OBVIOUS
<1>2. attempts' = [m \in L!Tracked \ {n} |-> attempts[m]] /\ now' = now /\ L!Forget
  BY <1>1 DEF L!LoginOk, L!RecordSuccess
<1>3. LoginTasks' BY <1>2, GotoTasks DEF L!LoginOk, LoginInv
<1>4. L!Tracked' = L!Tracked \ {n} /\ \A m \in L!Tracked' : attempts'[m] = attempts[m]
  BY <1>2 DEF L!Tracked
<1>5. LoginTypes' BY <1>2, <1>3, <1>4, FewerEntries, ForgetFacts
<1>6. \A g \in Tasks : logins'[g] = logins[g] \/ logins'[g].pc = "idle"
  BY DEF L!LoginOk, L!Goto, L!Idle, LoginInv, LoginTypes, L!TypeOK
<1>7. ASSUME NEW m \in Names
      PROVE  NameInv(tried'[m], L!Tracked', attempts'[m], logins', now, m)
  <2>0. tried[m] \in Nat /\ NameInv(tried[m], L!Tracked, attempts[m], logins, now, m)
    BY DEF LoginInv, LoginTypes, L!TypeOK, TriedInv
  <2>1. CASE m \in L!Tracked'
    <3>1. /\ m \in L!Tracked' /\ m \in L!Tracked /\ attempts'[m] = attempts[m]
          /\ tried'[m] = tried[m]
      BY <1>2, <1>4, <2>1, ForgetFacts
    <3>2. Past(logins', now, m, attempts[m].locked) \subseteq Past(logins, now, m, attempts[m].locked)
      BY <1>6 DEF Past
    <3>3. NameInv(tried[m], L!Tracked, attempts[m], logins', now, m)
      BY <2>0, <3>2, NoneAdded
    <3> QED BY <3>1, <3>3 DEF NameInv
  <2>2. CASE m \notin L!Tracked'
    <3>1. m \notin L!Tracked' /\ tried'[m] = 0 BY <1>2, <2>2, ForgetFacts
    <3> QED BY <3>1 DEF NameInv
  <2> QED BY <2>1, <2>2
<1>8. TriedInv' BY <1>2, <1>7 DEF TriedInv
<1> QED BY <1>5, <1>8 DEF LoginInv

(* Time passes: fewer logins are under a lock. *)
LEMMA TickInv == ASSUME LoginInv, L!Tick PROVE LoginInv'
<1>1. /\ now' = now + 1 /\ now' \in L!Times /\ now' \in Nat /\ now \in L!Times /\ now \in Nat
      /\ UNCHANGED <<attempts, logins, tried>>
  BY TimesNatural, LoginNumbers DEF L!Tick, L!Times, LoginInv, LoginTypes, L!TypeOK
<1>2. ASSUME NEW n \in Names
      PROVE  NameInv(tried[n], L!Tracked, attempts[n], logins, now', n)
  <2>1. tried[n] \in Nat /\ NameInv(tried[n], L!Tracked, attempts[n], logins, now, n)
    BY DEF LoginInv, LoginTypes, L!TypeOK, TriedInv
  <2>2. ASSUME n \in L!Tracked
        PROVE  Past(logins, now', n, attempts[n].locked) \subseteq Past(logins, now, n, attempts[n].locked)
    <3>1. attempts[n].locked \in Nat BY <2>2, EntryFacts DEF LoginInv, LoginTypes, Entry
    <3>2. now' < attempts[n].locked => now < attempts[n].locked BY <1>1, <3>1
    <3> QED BY <3>2 DEF Past
  <2> QED BY <2>1, <2>2, NoneAdded
<1>4. L!TypeOK' BY <1>1 DEF LoginInv, LoginTypes, L!TypeOK, L!Tracked
<1>5. \A n \in L!Tracked : attempts[n].locked <= now + Lockout /\ attempts[n].locked \in Nat
  BY EntryFacts DEF LoginInv, LoginTypes, Entry
<1>6. \A h \in Tasks : logins[h].pc \in {"check", "fail"} => logins[h].stamp = now BY DEF L!Tick
<1>7. LoginTypes' BY <1>1, <1>4, <1>5, <1>6, LoginNumbers DEF LoginInv, LoginTypes, L!Tracked
<1>8. TriedInv' BY <1>1, <1>2 DEF TriedInv, L!Tracked
<1> QED BY <1>7, <1>8 DEF LoginInv

(* The steps of a login that do not touch the throttle. *)
LEMMA OtherLoginsInv ==
  ASSUME LoginInv, NEW h \in Tasks,
         L!Verified(h) \/ L!TaskDropped(h) \/ \E n \in Names : L!Login(h, n)
  PROVE  LoginInv'
<1>1. UNCHANGED <<now, attempts, tried>> BY DEF L!Verified, L!TaskDropped, L!Login
<1>2. LoginTypes /\ LoginTasks /\ now \in L!Times BY TasksOf DEF LoginInv
<1>3. CASE L!Goto(h, "verify", "success") \/ L!Goto(h, "verify", "idle")
  <2>1. LoginTasks' BY <1>1, <1>2, <1>3, GotoTasks
  <2>2. ASSUME NEW g \in Tasks
        PROVE  logins'[g] = logins[g] \/ logins'[g].pc \in {"success", "idle"}
    <3>1. CASE L!Goto(h, "verify", "success")
      <4>1. logins' = [logins EXCEPT ![h] = [logins[h] EXCEPT !.pc = "success", !.stamp = 0]]
        BY <3>1 DEF L!Goto
      <4> QED BY <1>2, <4>1 DEF LoginTasks
    <3>2. CASE L!Goto(h, "verify", "idle") BY <1>2, <3>2 DEF L!Goto, L!Idle, LoginTasks
    <3> QED BY <1>3, <3>1, <3>2
  <2> QED BY <1>1, <2>1, <2>2, OnlyTasks
<1>4. CASE L!GotoStamped(h, "verify", "fail")
  <2>1. PICK x : x = [logins[h] EXCEPT !.pc = "fail", !.stamp = now] OBVIOUS
  <2>2. logins' = [logins EXCEPT ![h] = x] /\ logins[h].pc = "verify"
    BY <1>2, <1>4, <2>1 DEF L!GotoStamped, LoginTasks
  <2>3. x.pc = "fail" /\ x.stamp = now /\ x.name = logins[h].name /\ x.name \in Names
    BY <1>2, <2>1, <2>2 DEF LoginTasks
  <2>4. x \in [pc : L!Pcs, name : Names \cup {L!None}, stamp : L!Times]
    BY <1>2, <2>1 DEF LoginTasks, L!Pcs
  <2>5. LoginTasks' BY <1>1, <1>2, <2>2, <2>3, <2>4, OneTask
  <2>6. \A g \in Tasks : logins'[g] = IF g = h THEN x ELSE logins[g] BY <1>2, <2>2 DEF LoginTasks
  <2> QED BY <1>1, <2>2, <2>3, <2>5, <2>6, OnlyTasks
<1>5. CASE L!TaskDropped(h)
  <2>1. L!Goto(h, "verify", "idle") BY <1>5 DEF L!TaskDropped, L!Goto
  <2> QED BY <1>3, <2>1
<1>6. ASSUME NEW n \in Names, L!Login(h, n) PROVE LoginInv'
  <2>1. PICK x : x = [pc |-> "check", name |-> n, stamp |-> now] OBVIOUS
  <2>2. logins' = [logins EXCEPT ![h] = x] BY <1>6, <2>1 DEF L!Login
  <2>3. /\ x \in [pc : L!Pcs, name : Names \cup {L!None}, stamp : L!Times]
        /\ x.name \in Names /\ x.stamp = now /\ x.pc = "check"
    BY <1>2, <2>1 DEF L!Pcs
  <2>4. LoginTasks' BY <1>1, <1>2, <2>2, <2>3, OneTask
  <2>5. \A g \in Tasks : logins'[g] = IF g = h THEN x ELSE logins[g] BY <1>2, <2>2 DEF LoginTasks
  <2> QED BY <1>1, <2>3, <2>4, <2>5, OnlyTasks
<1> QED BY <1>3, <1>4, <1>5, <1>6 DEF L!Verified

(* The empty table satisfies the invariant. *)
LEMMA LoginInit == L!Init => LoginInv
<1> SUFFICES ASSUME L!Init PROVE LoginInv OBVIOUS
<1>1. /\ now = 0 /\ L!Tracked = {} /\ logins = [h \in Tasks |-> L!Idle]
      /\ tried = [n \in Names |-> 0] /\ 0 \in L!Times
  BY LoginNumbers DEF L!Init, L!Tracked, L!Times
<1>2. /\ L!Idle.pc = "idle"
      /\ L!Idle \in [pc : L!Pcs, name : Names \cup {L!None}, stamp : L!Times]
  BY <1>1 DEF L!Idle, L!Pcs
<1>3. L!TypeOK BY <1>1, <1>2 DEF L!TypeOK
<1>4. IsFiniteSet(L!Tracked) /\ Cardinality(L!Tracked) <= MaxTracked
  BY <1>1, FS_EmptySet, LoginNumbers
<1>5. LoginTypes BY <1>1, <1>2, <1>3, <1>4 DEF LoginTypes
<1>6. ASSUME NEW n \in Names PROVE NameInv(tried[n], L!Tracked, attempts[n], logins, now, n)
  BY <1>1 DEF NameInv
<1> QED BY <1>5, <1>6 DEF LoginInv, TriedInv

(* Every step of the component keeps the invariant. *)
LEMMA LoginNext == ASSUME LoginInv, L!Next PROVE LoginInv'
<1>1. ASSUME NEW h \in Tasks, L!LoginFailed(h) PROVE LoginInv' BY <1>1, LoginFailedTypes DEF LoginInv
<1> QED BY <1>1, TickInv, LoginCheckInv, LoginOkInv, OtherLoginsInv DEF L!Next

(* The invariant gives the types and the bound on the tries. *)
LEMMA LoginImplies == LoginInv => L!TypeOK /\ L!TriesAreBounded
<1> SUFFICES ASSUME LoginInv PROVE L!TypeOK /\ L!TriesAreBounded OBVIOUS
<1>1. L!TypeOK /\ L!Cardinality(L!Tracked) <= MaxTracked
  BY LoginCardinality DEF LoginInv, LoginTypes
<1>2. ASSUME NEW n \in Names PROVE tried[n] <= Bound
  <2>1. tried[n] \in Nat /\ NameInv(tried[n], L!Tracked, attempts[n], logins, now, n)
    BY DEF LoginInv, LoginTypes, L!TypeOK, TriedInv
  <2>2. Cardinality(Past(logins, now, n, attempts[n].locked)) \in Nat BY PastFinite
  <2> QED BY <2>1, <2>2, LoginNumbers DEF NameInv, Bound
<1> QED BY <1>1, <1>2, LoginCardinality DEF L!TriesAreBounded, Bound

(* A locked entry survives every step but the ones LockKept names. *)
LEMMA LockedStays ==
  ASSUME LoginInv, L!Next \/ UNCHANGED L!vars PROVE L!LockKept
<1>0. \A n \in L!Tracked : attempts[n] \in Entry /\ attempts[n].locked \in Nat
  BY EntryFacts DEF LoginInv, LoginTypes, Entry
<1>1. CASE UNCHANGED attempts BY <1>0, <1>1 DEF L!LockKept, L!Tracked
<1>2. now \in Nat /\ \A t \in L!Times : t \in Nat BY TimesNatural DEF LoginInv, LoginTypes, L!TypeOK
<1>3. ASSUME NEW n \in L!Tracked, attempts[n].locked > now, NEW t \in L!Times, t <= now
      PROVE  n \in DOMAIN L!Pruned(t) /\ L!Pruned(t)[n] = attempts[n] /\ attempts[n].locked > t
  <2>1. attempts[n].locked > t BY <1>0, <1>2, <1>3
  <2>2. L!Kept(attempts[n], t) BY <2>1 DEF L!Kept, L!LimitedUntil
  <2> QED BY <2>1, <2>2, PrunedFacts
<1>4. ASSUME NEW h \in Tasks, L!LoginCheck(h) PROVE L!LockKept
  <2>1. PICK t : t = logins[h].stamp OBVIOUS
  <2>2. attempts' = L!Pruned(t) BY <1>4, <2>1 DEF L!LoginCheck, L!Check
  <2>3. logins[h].pc = "check" BY <1>4 DEF L!LoginCheck, L!Goto
  <2>4. t \in L!Times /\ t <= now BY <2>1, <2>3 DEF LoginInv, LoginTypes, L!TypeOK
  <2> QED BY <1>0, <1>3, <2>2, <2>4 DEF L!LockKept, L!LimitedUntil
<1>5. ASSUME NEW h \in Tasks, L!LoginOk(h) PROVE L!LockKept
  <2>1. PICK n : n = logins[h].name OBVIOUS
  <2>2. attempts' = [m \in L!Tracked \ {n} |-> attempts[m]] BY <1>5, <2>1 DEF L!LoginOk, L!RecordSuccess
  <2>3. logins[h].pc = "success" /\ logins'[h].pc = "idle"
    BY <1>5 DEF L!LoginOk, L!Goto, L!Idle, LoginInv, LoginTypes, L!TypeOK
  <2> QED BY <1>0, <2>1, <2>2, <2>3 DEF L!LockKept
<1>6. ASSUME NEW h \in Tasks, L!LoginFailed(h) PROVE L!LockKept
  <2>1. PICK n \in Names, t \in L!Times, gone \in SUBSET Names, s \in Started, r \in Entry :
           FailureOf(h, n, t, gone, s, r)
    BY <1>6, FailureFacts
  <2> USE DEF FailureOf
  <2> SUFFICES ASSUME NEW m \in L!Tracked, attempts[m].locked > now
               PROVE  \/ m \in DOMAIN attempts' /\ attempts'[m].locked >= attempts[m].locked
                      \/ /\ logins[h].pc = "fail" /\ logins'[h].pc = "idle"
                         /\ L!Cardinality(DOMAIN attempts') = MaxTracked
                         /\ m \in L!Oldest(L!Pruned(logins[h].stamp))
    BY DEF L!LockKept, L!LimitedUntil
  <2>2. m \in DOMAIN L!Pruned(t) /\ attempts[m].locked > t BY <1>3, <2>1
  <2>3. CASE m = n
    <3>1. s = attempts[m] BY <2>1, <2>2, <2>3
    <3>2. attempts'[m].locked = attempts[m].locked /\ m \in DOMAIN attempts' BY <2>1, <2>2, <2>3, <3>1
    <3> QED BY <1>0, <3>2
  <2>4. CASE m # n /\ m \notin gone
    <3>1. attempts'[m] = attempts[m] /\ m \in DOMAIN attempts' BY <2>1, <2>2, <2>4
    <3> QED BY <1>0, <3>1
  <2>5. CASE m \in gone
    <3>1. PICK D : D = DOMAIN L!Pruned(t) OBVIOUS
    <3>2. n \notin D /\ Cardinality(D) >= MaxTracked /\ gone = {m} /\ m \in L!Oldest(L!Pruned(t))
      BY <2>1, <2>5, <3>1, VictimsFacts
    <3>3. IsFiniteSet(D) /\ Cardinality(D) = MaxTracked
      <4>1. IsFiniteSet(L!Tracked) /\ Cardinality(L!Tracked) <= MaxTracked BY DEF LoginInv, LoginTypes
      <4>2. D \subseteq L!Tracked BY <3>1, PrunedFacts
      <4>3. IsFiniteSet(D) /\ Cardinality(D) <= Cardinality(L!Tracked) BY <4>1, <4>2, FS_Subset
      <4>4. Cardinality(L!Tracked) \in Nat /\ Cardinality(D) \in Nat BY <4>1, <4>3, FS_CardinalityType
      <4> QED BY <3>2, <4>1, <4>3, <4>4, LoginNumbers
    <3>4. IsFiniteSet(D \ {m}) /\ Cardinality(D \ {m}) = MaxTracked - 1
      BY <2>2, <3>1, <3>3, FS_RemoveElement
    <3>5. Cardinality((D \ {m}) \cup {n}) = MaxTracked - 1 + 1 BY <3>2, <3>4, FS_AddElement
    <3>6. Cardinality(DOMAIN attempts') = MaxTracked BY <2>1, <3>1, <3>2, <3>5, LoginNumbers
    <3>7. logins'[h].pc = "idle" BY <2>1 DEF L!Idle, LoginInv, LoginTypes, L!TypeOK
    <3> QED BY <2>1, <3>2, <3>6, <3>7, LoginCardinality
  <2> QED BY <2>3, <2>4, <2>5
<1>7. ASSUME NEW h \in Tasks, L!Verified(h) \/ L!TaskDropped(h) \/ \E n \in Names : L!Login(h, n)
      PROVE  UNCHANGED attempts
  BY <1>7 DEF L!Verified, L!TaskDropped, L!Login
<1>8. L!Tick \/ UNCHANGED L!vars => UNCHANGED attempts BY DEF L!Tick, L!vars
<1> QED BY <1>1, <1>4, <1>5, <1>6, <1>7, <1>8 DEF L!Next

(* The component as it is, and as one of the areas of MCSpec. *)
THEOREM ThrottleInvariant == L!Spec => []LoginInv
<1>1. LoginInv /\ [L!Next]_L!vars => LoginInv'
  <2>1. LoginInv /\ UNCHANGED L!vars => LoginInv'
    <3> SUFFICES ASSUME LoginInv, UNCHANGED L!vars PROVE LoginInv' OBVIOUS
    <3>1. UNCHANGED <<now, attempts, logins, tried>> BY DEF L!vars
    <3>2. LoginTasks' BY <3>1, TasksOf DEF LoginInv, LoginTasks
    <3> QED BY <3>1, <3>2, OnlyTasks
  <2> QED BY <2>1, LoginNext
<1> QED BY <1>1, LoginInit, PTL DEF L!Spec

ThrottleArea == IF area = "logins" THEN LoginInv ELSE L!Tracked = {}

(* The other areas of MCSpec leave the table empty. *)
LEMMA ThrottleInMC == MCSpec => []ThrottleArea
<1>1. MCInit => ThrottleArea BY LoginInit DEF MCInit, ThrottleArea, L!Init, L!Tracked
<1>2. ThrottleArea /\ [MCNext]_allVars => ThrottleArea'
  <2> SUFFICES ASSUME ThrottleArea, [MCNext]_allVars PROVE ThrottleArea' OBVIOUS
  <2>1. area' = area BY DEF MCNext, SessionStep, LoginStep, PluginStep, allVars
  <2>2. CASE area # "logins"
    <3>1. attempts' = attempts
      BY <2>2 DEF MCNext, SessionStep, LoginStep, PluginStep, allVars, loginVars
    <3> QED BY <2>1, <2>2, <3>1 DEF ThrottleArea, L!Tracked
  <2>3. CASE area = "logins" /\ L!Next BY <2>1, <2>3, LoginNext DEF ThrottleArea
  <2>4. CASE area = "logins" /\ UNCHANGED allVars
    <3>1. UNCHANGED <<now, attempts, logins, tried>> BY <2>4 DEF allVars, loginVars
    <3>2. LoginInv BY <2>4 DEF ThrottleArea
    <3>3. LoginTasks' BY <3>1, <3>2, TasksOf DEF LoginInv, LoginTasks
    <3>4. LoginInv' BY <3>1, <3>2, <3>3, OnlyTasks
    <3> QED BY <2>1, <2>4, <3>4 DEF ThrottleArea
  <2> QED BY <2>2, <2>3, <2>4 DEF MCNext, SessionStep, LoginStep, PluginStep
<1> QED BY <1>1, <1>2, PTL DEF MCSpec

(* A name gets max_failures tries before it is locked and, during a lock,  *)
(* at most one for every other login in progress, past the check when the  *)
(* lock began: for every setting of the throttle, any number of            *)
(* overlapping logins and names, and stamps applied out of order; the      *)
(* table stays within max_tracked_entries (auth.rs, login;                 *)
(* login_throttle.rs, record_failure_at).                                  *)
THEOREM TriesStayBounded == MCSpec => []TriesAreBounded
<1>1. ThrottleArea => TriesAreBounded BY LoginImplies DEF ThrottleArea, TriesAreBounded
<1> QED BY <1>1, ThrottleInMC, PTL

(* A lock is never shortened (login_throttle.rs, prune_expired,            *)
(* remove_oldest, record_success_at): it ends with its time, with a login  *)
(* let in before, or by an eviction from a full table.                     *)
THEOREM LocksAreKept == MCSpec => LockHolds
<1>1. ThrottleArea /\ [MCNext]_allVars => [L!LockKept]_L!vars
  <2> SUFFICES ASSUME ThrottleArea, [MCNext]_allVars PROVE L!LockKept \/ UNCHANGED L!vars OBVIOUS
  <2>1. CASE area # "logins" BY <2>1 DEF ThrottleArea, L!LockKept
  <2>2. CASE area = "logins" /\ L!Next BY <2>2, LockedStays DEF ThrottleArea
  <2>3. CASE UNCHANGED allVars BY <2>3 DEF allVars, loginVars, L!vars
  <2> QED BY <2>1, <2>2, <2>3 DEF MCNext, SessionStep, LoginStep, PluginStep
<1> QED BY <1>1, ThrottleInMC, PTL DEF MCSpec, LockHolds, L!LockHolds

-----------------------------------------------------------------------------
(* III. The cache of the plugins and the identity plugin.                  *)

-----------------------------------------------------------------------------
(* The order of the cache.                                                 *)

(* s without what is at place p. *)
CutAt(s, p) == [j \in 1 .. Len(s) - 1 |-> s[IF j < p THEN j ELSE j + 1]]

(* Keys in the order of their use, each once. *)
InOrder(s, u) ==
    /\ s \in Seq(Keys) /\ Distinct(s)
    /\ \A i, j \in 1 .. Len(s) : i < j => u[s[i]] <= u[s[j]]

(* The instance of the cache counts and ranges as everyone does. *)
LEMMA PluginCardinality == \A S : P!Cardinality(S) = Cardinality(S) /\ P!Range(S) = Range(S)
BY DEF P!Cardinality, Cardinality, P!Range, Range

(* What is left when one key leaves is still in order. *)
LEMMA DroppedFacts ==
  ASSUME NEW s, NEW u, InOrder(s, u), NEW p \in 1 .. Len(s), NEW r, r = CutAt(s, p)
  PROVE  /\ InOrder(r, u) /\ Len(r) = Len(s) - 1 /\ Range(r) = Range(s) \ {s[p]}
<1>0. s \in Seq(Keys) /\ Distinct(s) /\ Len(s) \in Nat /\ DOMAIN s = 1 .. Len(s) /\ p \in Nat
  BY DEF InOrder
<1>01. Len(s) - 1 \in Nat BY <1>0
<1>1. PICK n \in Nat : n = Len(s) - 1 BY <1>01
<1>2. r = [j \in 1 .. n |-> s[IF j < p THEN j ELSE j + 1]] BY <1>1 DEF CutAt
<1>3. \A j \in 1 .. n : /\ (IF j < p THEN j ELSE j + 1) \in 1 .. Len(s)
                        /\ (IF j < p THEN j ELSE j + 1) # p
  BY <1>0, <1>1
<1>4. r \in Seq(Keys) /\ Len(r) = n /\ DOMAIN r = 1 .. n
  <2>1. \A j \in 1 .. n : s[IF j < p THEN j ELSE j + 1] \in Keys BY <1>0, <1>3
  <2> QED BY <1>2, <2>1
<1>5. \A j \in 1 .. n : r[j] = s[IF j < p THEN j ELSE j + 1] BY <1>2
<1>6. Distinct(r)
  <2> SUFFICES ASSUME NEW i \in 1 .. n, NEW j \in 1 .. n, r[i] = r[j] PROVE i = j BY <1>4 DEF Distinct
  <2>1. (IF i < p THEN i ELSE i + 1) = (IF j < p THEN j ELSE j + 1)
    BY <1>0, <1>3, <1>5 DEF Distinct
  <2> QED BY <1>0, <2>1
<1>7. ASSUME NEW i \in 1 .. n, NEW j \in 1 .. n, i < j PROVE u[r[i]] <= u[r[j]]
  <2>1. (IF i < p THEN i ELSE i + 1) < (IF j < p THEN j ELSE j + 1) BY <1>0, <1>7
  <2> QED BY <1>3, <1>5, <2>1 DEF InOrder
<1>8. Range(r) = Range(s) \ {s[p]}
  <2>1. ASSUME NEW j \in 1 .. n PROVE r[j] \in Range(s) \ {s[p]}
    BY <1>0, <1>3, <1>5 DEF Distinct, Range
  <2>2. ASSUME NEW i \in 1 .. Len(s), i # p PROVE \E j \in 1 .. n : r[j] = s[i]
    <3>1. CASE i < p
      <4>1. i \in 1 .. n BY <1>0, <1>1, <3>1
      <4> QED BY <1>5, <3>1, <4>1
    <3>2. CASE i > p
      <4>1. i - 1 \in 1 .. n /\ ~(i - 1 < p) /\ (i - 1) + 1 = i BY <1>0, <1>1, <3>2
      <4>2. r[i - 1] = s[i] BY <1>5, <4>1
      <4> QED BY <4>1, <4>2
    <3> QED BY <1>0, <2>2, <3>1, <3>2
  <2>3. ASSUME NEW y \in Range(r) PROVE y \in Range(s) \ {s[p]}
    BY <1>4, <2>1 DEF Range
  <2>4. ASSUME NEW y \in Range(s) \ {s[p]} PROVE y \in Range(r)
    <3>1. PICK i \in 1 .. Len(s) : y = s[i] BY <1>0 DEF Range
    <3>2. i # p BY <3>1
    <3> QED BY <1>4, <2>2, <3>1, <3>2 DEF Range
  <2> QED BY <2>3, <2>4
<1> QED BY <1>1, <1>4, <1>6, <1>7, <1>8 DEF InOrder

(* Arithmetic of the places after p. *)
LEMMA AfterPlace ==
  ASSUME NEW m \in Nat, NEW p \in 1 .. m
  PROVE  (p = m \/ p + 1 <= m) /\ m - (p + 1) + 1 = m - p
OBVIOUS

(* VecDeque::remove at the position of k. *)
LEMMA RemoveFirstDrops ==
  ASSUME NEW s \in Seq(Keys), Distinct(s), NEW p \in 1 .. Len(s)
  PROVE  P!RemoveFirst(s, s[p]) = CutAt(s, p)
<1>0. Len(s) \in Nat /\ DOMAIN s = 1 .. Len(s) /\ p \in Nat OBVIOUS
<1>1. {i \in 1 .. Len(s) : s[i] = s[p]} = {p} BY <1>0 DEF Distinct
<1>2. P!Min({p}) = p BY <1>0 DEF P!Min
<1>4. P!RemoveFirst(s, s[p]) = SubSeq(s, 1, p - 1) \o SubSeq(s, p + 1, Len(s))
  <2>1. P!RemoveFirst(s, s[p]) =
           LET I == {i \in 1 .. Len(s) : s[i] = s[p]}
               m == IF I # {} THEN P!Min(I) ELSE 0
           IN  IF \E i \in 1 .. Len(s) : s[i] = s[p]
               THEN SubSeq(s, 1, m - 1) \o SubSeq(s, m + 1, Len(s)) ELSE s
    BY DEF P!RemoveFirst, P!RemoveAt, P!SelectInSeq
  <2> QED BY <1>0, <1>1, <1>2, <2>1
<1>5. SubSeq(s, 1, p - 1) \o SubSeq(s, p + 1, Len(s)) = CutAt(s, p)
  <2> DEFINE a == SubSeq(s, 1, p - 1)
             b == SubSeq(s, p + 1, Len(s))
             n == Len(s) - 1
  <2>1. p - 1 \in Nat /\ Len(s) - p \in Nat /\ n \in Nat BY <1>0
  <2>2. /\ a \in Seq(Keys) /\ Len(a) = p - 1 /\ \A i \in 1 .. p - 1 : a[i] = s[i]
    BY <1>0
  <2>3. /\ b \in Seq(Keys) /\ Len(b) = Len(s) - p
    <3>1. b \in Seq(Keys) BY <1>0
    <3>2. (p = Len(s) \/ p + 1 <= Len(s)) /\ Len(s) - (p + 1) + 1 = Len(s) - p BY <1>0, AfterPlace
    <3>3. CASE p + 1 <= Len(s)
      <4>1. Len(b) = Len(s) - (p + 1) + 1 BY <1>0, <3>3
      <4> QED BY <3>1, <3>2, <4>1
    <3>4. CASE p = Len(s)
      <4>1. Len(b) = 0 BY <1>0, <3>4
      <4> QED BY <1>0, <3>1, <3>4, <4>1
    <3> QED BY <3>2, <3>3, <3>4
  <2>31. \A i \in 1 .. Len(s) - p : b[i] = s[p + i]
    <3> TAKE i \in 1 .. Len(s) - p
    <3>1. b[i] = s[(p + 1) + i - 1] BY <1>0
    <3>2. (p + 1) + i - 1 = p + i BY <1>0
    <3> QED BY <3>1, <3>2
  <2> HIDE DEF a, b
  <2>4. /\ a \o b \in Seq(Keys) /\ Len(a \o b) = Len(a) + Len(b)
        /\ DOMAIN (a \o b) = 1 .. Len(a) + Len(b)
        /\ \A i \in 1 .. Len(a) + Len(b) : (a \o b)[i] = IF i <= Len(a) THEN a[i] ELSE b[i - Len(a)]
    <3>0. a \in Seq(Keys) /\ b \in Seq(Keys) BY <2>2, <2>3
    <3>1. a \o b \in Seq(Keys) BY <3>0
    <3>2. Len(a \o b) = Len(a) + Len(b) BY <3>0
    <3>3. \A i \in 1 .. Len(a) + Len(b) : (a \o b)[i] = IF i <= Len(a) THEN a[i] ELSE b[i - Len(a)] BY <3>0
    <3> QED BY <3>1, <3>2, <3>3
  <2>41. Len(a) + Len(b) = n BY <1>0, <2>1, <2>2, <2>3
  <2>5. \A i \in 1 .. n : (a \o b)[i] = s[IF i < p THEN i ELSE i + 1]
    <3> TAKE i \in 1 .. n
    <3>1. CASE i < p
      <4>1. i \in 1 .. p - 1 /\ i <= Len(a) BY <1>0, <2>2, <3>1
      <4> QED BY <2>2, <2>4, <2>41, <3>1, <4>1
    <3>2. CASE ~(i < p)
      <4>1. i - Len(a) \in 1 .. Len(s) - p /\ p + (i - Len(a)) = i + 1 /\ ~(i <= Len(a)) BY <1>0, <2>2, <3>2
      <4>2. b[i - Len(a)] = s[i + 1] BY <2>31, <4>1
      <4> QED BY <2>4, <2>41, <3>2, <4>1, <4>2
    <3> QED BY <3>1, <3>2
  <2>6. a \o b = [i \in 1 .. n |-> (a \o b)[i]]
    <3>1. PICK c : c = a \o b OBVIOUS
    <3>2. c \in Seq(Keys) /\ DOMAIN c = 1 .. n BY <2>4, <2>41, <3>1
    <3>3. c = [i \in 1 .. n |-> c[i]] BY <3>2
    <3> QED BY <3>1, <3>3
  <2>7. a \o b = [i \in 1 .. n |-> s[IF i < p THEN i ELSE i + 1]] BY <2>5, <2>6
  <2> QED BY <2>7 DEF CutAt, a, b
<1> QED BY <1>4, <1>5

(* The sizes that tell a place in the rest. *)
LEMMA IntervalSize ==
  ASSUME NEW n \in Nat
  PROVE  IsFiniteSet(1 .. n) /\ Cardinality(1 .. n) = n
<1>1. 1 \in Int /\ n \in Int OBVIOUS
<1>2. IsFiniteSet(1 .. n) /\ Cardinality(1 .. n) = IF 1 > n THEN 0 ELSE n - 1 + 1 BY <1>1, FS_Interval
<1> QED BY <1>2

(* An interval without one of its numbers. *)
LEMMA PunchedSize ==
  ASSUME NEW n \in Nat, NEW p \in 1 .. n
  PROVE  IsFiniteSet((1 .. n) \ {p}) /\ Cardinality((1 .. n) \ {p}) = n - 1
<1>1. IsFiniteSet(1 .. n) /\ Cardinality(1 .. n) = n BY IntervalSize
<1> QED BY <1>1, FS_RemoveElement

(* The places of Retain. *)
Kept(s, k) == {n \in DOMAIN s : s[n] # k}
KeptPlace(s, k, j) == CHOOSE n \in Kept(s, k) : Cardinality({m \in Kept(s, k) : m <= n}) = j

(* Retain by its places. *)
LEMMA RetainUnfolds ==
  ASSUME NEW s, NEW k
  PROVE  P!Retain(s, k) = [j \in 1 .. Cardinality(Kept(s, k)) |-> s[KeptPlace(s, k, j)]]
BY DEF P!Retain, Kept, KeptPlace, P!Cardinality, Cardinality

(* VecDeque::retain of what is at place p. *)
LEMMA RetainDrops ==
  ASSUME NEW s \in Seq(Keys), Distinct(s), NEW p \in 1 .. Len(s)
  PROVE  P!Retain(s, s[p]) = CutAt(s, p)
<1> DEFINE K == Kept(s, s[p])
<1>0. Len(s) \in Nat /\ DOMAIN s = 1 .. Len(s) OBVIOUS
<1>1. PICK l \in Nat : l = Len(s) BY <1>0
<1>2. K = (1 .. l) \ {p} BY <1>0, <1>1 DEF Distinct, Kept
<1>3. p \in 1 .. l BY <1>1
<1>4. Cardinality(K) = l - 1 BY <1>2, <1>3, PunchedSize
<1>5. ASSUME NEW n \in K PROVE Cardinality({m \in K : m <= n}) = IF n < p THEN n ELSE n - 1
  <2>1. n \in 1 .. l /\ n # p BY <1>2, <1>5
  <2>2. CASE n < p
    <3>1. {m \in K : m <= n} = 1 .. n BY <1>2, <1>3, <2>1, <2>2
    <3>2. n \in Nat BY <2>1
    <3> QED BY <2>2, <3>1, <3>2, IntervalSize
  <2>3. CASE ~(n < p)
    <3>1. {m \in K : m <= n} = (1 .. n) \ {p} BY <1>2, <1>3, <2>1, <2>3
    <3>2. n \in Nat /\ p \in 1 .. n BY <1>3, <2>1, <2>3
    <3>3. Cardinality((1 .. n) \ {p}) = n - 1 BY <3>2, PunchedSize
    <3> QED BY <2>3, <3>1, <3>3
  <2> QED BY <2>2, <2>3
<1>6. ASSUME NEW j \in 1 .. l - 1
      PROVE  KeptPlace(s, s[p], j) = IF j < p THEN j ELSE j + 1
  <2> DEFINE i == IF j < p THEN j ELSE j + 1
  <2>1. i \in K BY <1>2, <1>3, <1>6
  <2>2. (IF i < p THEN i ELSE i - 1) = j BY <1>3, <1>6
  <2>3. Cardinality({m \in K : m <= i}) = j BY <1>5, <2>1, <2>2
  <2>4. ASSUME NEW n \in K, Cardinality({m \in K : m <= n}) = j PROVE n = i
    <3>1. (IF n < p THEN n ELSE n - 1) = j BY <1>5, <2>4
    <3>2. n \in 1 .. l /\ n # p BY <1>2, <2>4
    <3> QED BY <1>3, <3>1, <3>2
  <2> HIDE DEF i
  <2>5. (CHOOSE n \in K : Cardinality({m \in K : m <= n}) = j) = i BY <2>1, <2>3, <2>4
  <2> QED BY <2>5 DEF KeptPlace, i
<1>7. P!Retain(s, s[p]) = [j \in 1 .. l - 1 |-> s[KeptPlace(s, s[p], j)]] BY <1>4, RetainUnfolds
<1>8. P!Retain(s, s[p]) = [j \in 1 .. l - 1 |-> s[IF j < p THEN j ELSE j + 1]] BY <1>6, <1>7
<1> QED BY <1>1, <1>8 DEF CutAt

(* VecDeque::retain of a key that is not there. *)
LEMMA RetainAll ==
  ASSUME NEW s \in Seq(Keys), NEW k, k \notin Range(s)
  PROVE  P!Retain(s, k) = s
<1> DEFINE K == Kept(s, k)
<1>0. Len(s) \in Nat /\ DOMAIN s = 1 .. Len(s) OBVIOUS
<1>1. PICK l \in Nat : l = Len(s) BY <1>0
<1>2. K = 1 .. l BY <1>0, <1>1 DEF Kept, Range
<1>4. Cardinality(K) = l BY <1>2, IntervalSize
<1>5. ASSUME NEW n \in K PROVE Cardinality({m \in K : m <= n}) = n
  <2>1. {m \in K : m <= n} = 1 .. n /\ n \in Nat BY <1>2
  <2> QED BY <2>1, IntervalSize
<1>6. ASSUME NEW j \in 1 .. l PROVE KeptPlace(s, k, j) = j
  <2>1. j \in K BY <1>2
  <2>2. \A n \in K : Cardinality({m \in K : m <= n}) = j <=> n = j BY <1>5, <2>1
  <2>3. (CHOOSE n \in K : Cardinality({m \in K : m <= n}) = j) = j BY <2>1, <2>2
  <2> QED BY <2>3 DEF KeptPlace
<1>7. P!Retain(s, k) = [j \in 1 .. l |-> s[KeptPlace(s, k, j)]] BY <1>4, RetainUnfolds
<1>8. P!Retain(s, k) = [j \in 1 .. l |-> s[j]] BY <1>6, <1>7
<1>9. s = [j \in 1 .. l |-> s[j]] BY <1>0, <1>1
<1> QED BY <1>8, <1>9

(* The front leaves. *)
LEMMA FrontDrops ==
  ASSUME NEW s \in Seq(Keys), Len(s) # 0
  PROVE  SubSeq(s, 2, Len(s)) = CutAt(s, 1) /\ 1 \in 1 .. Len(s)
<1>0. Len(s) \in Nat \ {0} /\ DOMAIN s = 1 .. Len(s) OBVIOUS
<1>1. PICK l \in Nat \ {0} : l = Len(s) BY <1>0
<1> DEFINE b == SubSeq(s, 2, l)
<1>2. b \in Seq(Keys) BY <1>1
<1>3. Len(b) = l - 1
  <2>1. CASE l = 1
    <3>1. Len(b) = 0 BY <1>1, <2>1
    <3> QED BY <2>1, <3>1
  <2>2. CASE l # 1
    <3>1. Len(b) = l - 2 + 1 BY <1>1, <2>2
    <3>2. l - 2 + 1 = l - 1 OBVIOUS
    <3> QED BY <3>1, <3>2
  <2> QED BY <2>1, <2>2
<1>4. \A j \in 1 .. l - 1 : b[j] = s[j + 1]
  <2> TAKE j \in 1 .. l - 1
  <2>1. b[j] = s[2 + j - 1] BY <1>1, <1>3
  <2>2. 2 + j - 1 = j + 1 OBVIOUS
  <2> QED BY <2>1, <2>2
<1> HIDE DEF b
<1>5. b = [j \in 1 .. l - 1 |-> b[j]] BY <1>2, <1>3
<1>6. \A j \in 1 .. l - 1 : b[j] = s[IF j < 1 THEN j ELSE j + 1] BY <1>4
<1>7. b = [j \in 1 .. l - 1 |-> s[IF j < 1 THEN j ELSE j + 1]] BY <1>5, <1>6
<1>8. 1 \in 1 .. Len(s) BY <1>0
<1> QED BY <1>1, <1>7, <1>8 DEF CutAt, b

(* A key is used now. *)
LEMMA PushOrder ==
  ASSUME NEW s, NEW u, InOrder(s, u), NEW k \in Keys, k \notin Range(s), NEW v,
         \A y \in Range(s) : v[y] = u[y] /\ u[y] <= v[k]
  PROVE  /\ InOrder(Append(s, k), v) /\ Len(Append(s, k)) = Len(s) + 1
         /\ Range(Append(s, k)) = Range(s) \cup {k}
<1> DEFINE r == Append(s, k)
<1>0. s \in Seq(Keys) /\ Distinct(s) BY DEF InOrder
<1>1. PICK l \in Nat : l = Len(s) BY <1>0
<1>2. DOMAIN s = 1 .. l BY <1>0, <1>1
<1>3. r \in Seq(Keys) /\ Len(r) = l + 1 /\ r[l + 1] = k BY <1>0, <1>1
<1>4. \A i \in 1 .. l : r[i] = s[i] BY <1>0, <1>1
<1>5. DOMAIN r = 1 .. l + 1 BY <1>3
<1> HIDE DEF r
<1>6. \A i \in 1 .. l : s[i] \in Range(s) BY <1>2 DEF Range
<1>7. \A i \in 1 .. l + 1 : i = l + 1 \/ i \in 1 .. l OBVIOUS
<1>8. Distinct(r)
  <2> SUFFICES ASSUME NEW i \in 1 .. l + 1, NEW j \in 1 .. l + 1, r[i] = r[j] PROVE i = j
    BY <1>5 DEF Distinct
  <2>1. CASE i \in 1 .. l /\ j \in 1 .. l BY <1>0, <1>2, <1>4, <2>1 DEF Distinct
  <2>2. CASE i \in 1 .. l /\ j = l + 1 BY <1>3, <1>4, <1>6, <2>2
  <2>3. CASE j \in 1 .. l /\ i = l + 1 BY <1>3, <1>4, <1>6, <2>3
  <2> QED BY <1>7, <2>1, <2>2, <2>3
<1>9. ASSUME NEW i \in 1 .. l + 1, NEW j \in 1 .. l + 1, i < j PROVE v[r[i]] <= v[r[j]]
  <2>1. i \in 1 .. l BY <1>9
  <2>2. r[i] = s[i] /\ s[i] \in Range(s) BY <1>4, <1>6, <2>1
  <2>3. CASE j = l + 1
    <3>1. r[j] = k BY <1>3, <2>3
    <3>2. v[s[i]] = u[s[i]] /\ u[s[i]] <= v[k] BY <2>2
    <3> QED BY <2>2, <3>1, <3>2
  <2>4. CASE j \in 1 .. l
    <3>1. r[j] = s[j] /\ s[j] \in Range(s) BY <1>4, <1>6, <2>4
    <3>2. u[s[i]] <= u[s[j]] BY <1>1, <1>9, <2>1, <2>4 DEF InOrder
    <3>3. v[s[i]] = u[s[i]] /\ v[s[j]] = u[s[j]] BY <2>2, <3>1
    <3> QED BY <2>2, <3>1, <3>2, <3>3
  <2> QED BY <1>7, <2>3, <2>4
<1>10. Range(r) = Range(s) \cup {k}
  <2>1. ASSUME NEW y \in Range(r) PROVE y \in Range(s) \cup {k}
    <3>1. PICK i \in 1 .. l + 1 : y = r[i] BY <1>5 DEF Range
    <3> QED BY <1>3, <1>4, <1>6, <1>7, <3>1
  <2>2. ASSUME NEW y \in Range(s) PROVE y \in Range(r)
    <3>1. PICK i \in 1 .. l : y = s[i] BY <1>2 DEF Range
    <3>2. i \in DOMAIN r /\ y = r[i] BY <1>4, <1>5, <3>1
    <3> QED BY <3>2 DEF Range
  <2>3. k \in Range(r)
    <3>1. l + 1 \in DOMAIN r BY <1>5
    <3> QED BY <1>3, <3>1 DEF Range
  <2> QED BY <2>1, <2>2, <2>3
<1>11. InOrder(r, v) BY <1>3, <1>8, <1>9 DEF InOrder
<1> QED BY <1>1, <1>3, <1>10, <1>11 DEF r

-----------------------------------------------------------------------------
(* The cache.                                                              *)

(* The order is that of the last uses, over the keys of the entries. *)
CacheInv ==
    /\ now \in Nat /\ now <= PluginTime
    /\ used \in [Keys -> Nat] /\ \A c \in Keys : used[c] <= now
    /\ InOrder(order, used) /\ Range(order) = DOMAIN entries
    /\ Len(order) <= Capacity
    /\ \A c \in DOMAIN entries :
         /\ entries[c].expires_at \in Nat \ {0}
         /\ entries[c].expires_at <= now + MaxEntryTTL

(* No step of the cache makes up an entry. *)
NoneMade ==
    /\ DOMAIN entries' \subseteq DOMAIN entries
    /\ \A c \in DOMAIN entries' : entries'[c] = entries[c]

(* Types of the cache that the proofs keep needing. *)
LEMMA OrderIn ==
  ASSUME CacheInv
  PROVE  /\ order \in Seq(Keys) /\ Distinct(order) /\ Len(order) \in Nat
         /\ DOMAIN order = 1 .. Len(order) /\ DOMAIN entries \subseteq Keys
         /\ Capacity \in Nat /\ MaxEntryTTL \in Nat /\ DefaultTTL \in 1 .. MaxEntryTTL
<1>1. order \in Seq(Keys) /\ Distinct(order) BY DEF CacheInv, InOrder
<1>2. Len(order) \in Nat /\ DOMAIN order = 1 .. Len(order) BY <1>1
<1>3. Range(order) \subseteq Keys BY <1>1, <1>2 DEF Range
<1> QED BY <1>1, <1>2, <1>3, CallerConstants DEF CacheInv

(* The place of a stored key. *)
LEMMA PlaceOf ==
  ASSUME CacheInv, NEW k \in Range(order)
  PROVE  \E p \in 1 .. Len(order) : order[p] = k
BY OrderIn DEF Range

(* An empty cache satisfies the invariant. *)
LEMMA CacheStart == ASSUME P!CacheInit PROVE CacheInv
<1>1. /\ now = 0 /\ entries = << >> /\ order = << >> /\ used = [k \in Keys |-> 0] BY DEF P!CacheInit
<1>2. DOMAIN entries = {} /\ Range(order) = {} /\ Len(order) = 0 BY <1>1 DEF Range
<1>3. order \in Seq(Keys) /\ Distinct(order) BY <1>1 DEF Distinct
<1>4. InOrder(order, used) BY <1>2, <1>3 DEF InOrder
<1> QED BY <1>1, <1>2, <1>4, CallerConstants DEF CacheInv

(* A hit moves its key to the back of the order (cache.rs, get). *)
LEMMA HitKeeps ==
  ASSUME CacheInv, NEW k \in Keys, P!GetHit(k), now' = now
  PROVE  CacheInv' /\ NoneMade
<1>0. /\ k \in DOMAIN entries /\ entries' = entries
      /\ used' = [used EXCEPT ![k] = now]
      /\ order' = IF k \in Range(order) THEN Append(P!RemoveFirst(order, k), k) ELSE order
  BY PluginCardinality DEF P!GetHit, P!Fresh
<1>1. PICK p \in 1 .. Len(order) : order[p] = k BY <1>0, PlaceOf DEF CacheInv
<1>2. P!RemoveFirst(order, k) = CutAt(order, p) BY <1>1, OrderIn, RemoveFirstDrops
<1>3. PICK r : r = CutAt(order, p) OBVIOUS
<1>4. InOrder(r, used) /\ Len(r) = Len(order) - 1 /\ Range(r) = Range(order) \ {k}
  BY <1>1, <1>3, DroppedFacts DEF CacheInv
<1>5. order' = Append(r, k) BY <1>0, <1>2, <1>3 DEF CacheInv
<1>6. used' \in [Keys -> Nat] /\ used'[k] = now /\ \A y \in Keys : y # k => used'[y] = used[y]
  BY <1>0 DEF CacheInv
<1>7. \A y \in Range(r) : used'[y] = used[y] /\ used[y] <= used'[k]
  BY <1>4, <1>6, OrderIn DEF CacheInv
<1>8. InOrder(order', used') /\ Len(order') = Len(r) + 1 /\ Range(order') = Range(r) \cup {k}
  BY <1>4, <1>5, <1>7, PushOrder
<1>9. Len(order') <= Capacity /\ Range(order') = DOMAIN entries'
  <2>1. Len(order') = Len(order) BY <1>4, <1>8, OrderIn
  <2>2. Range(order') = Range(order) BY <1>0, <1>4, <1>8 DEF CacheInv
  <2> QED BY <1>0, <2>1, <2>2 DEF CacheInv
<1>10. \A c \in Keys : used'[c] <= now BY <1>6 DEF CacheInv
<1> QED BY <1>0, <1>6, <1>8, <1>9, <1>10 DEF CacheInv, NoneMade

(* A miss drops an expired entry with its place (cache.rs, get). *)
LEMMA MissKeeps ==
  ASSUME CacheInv, NEW k \in Keys, P!GetMiss(k), now' = now
  PROVE  CacheInv' /\ NoneMade
<1>0. /\ entries' = [c \in DOMAIN entries \ {k} |-> entries[c]]
      /\ used' = [used EXCEPT ![k] = 0]
      /\ order' = P!Retain(order, k)
  BY DEF P!GetMiss, P!Without
<1>1. /\ InOrder(order', used) /\ Len(order') <= Len(order) /\ Range(order') = Range(order) \ {k}
      /\ Len(order') \in Nat
  <2>1. CASE k \in Range(order)
    <3>1. PICK p \in 1 .. Len(order) : order[p] = k BY <2>1, PlaceOf
    <3>2. order' = CutAt(order, p) BY <1>0, <3>1, OrderIn, RetainDrops
    <3>3. InOrder(order', used) /\ Len(order') = Len(order) - 1 /\ Range(order') = Range(order) \ {k}
      BY <3>1, <3>2, DroppedFacts DEF CacheInv
    <3>4. Len(order') \in Nat BY <3>3 DEF InOrder
    <3> QED BY <3>3, <3>4, OrderIn
  <2>2. CASE k \notin Range(order)
    <3>1. order' = order BY <1>0, <2>2, OrderIn, RetainAll
    <3> QED BY <2>2, <3>1, OrderIn DEF CacheInv
  <2> QED BY <2>1, <2>2
<1>2. used' \in [Keys -> Nat] /\ \A y \in Keys : used'[y] = (IF y = k THEN 0 ELSE used[y])
  BY <1>0 DEF CacheInv
<1>3. InOrder(order', used')
  <2>1. PICK q : q = order' OBVIOUS
  <2>2. q \in Seq(Keys) /\ Distinct(q) BY <1>1, <2>1 DEF InOrder
  <2>3. \A i \in 1 .. Len(q) : q[i] \in Keys /\ q[i] # k
    <3>1. DOMAIN q = 1 .. Len(q) BY <2>2
    <3>2. \A i \in DOMAIN q : q[i] \in Range(q) BY DEF Range
    <3>3. Range(q) = Range(order) \ {k} BY <1>1, <2>1
    <3> QED BY <2>2, <3>1, <3>2, <3>3
  <2>4. \A i, j \in 1 .. Len(q) : i < j => used[q[i]] <= used[q[j]] BY <1>1, <2>1 DEF InOrder
  <2>5. \A i, j \in 1 .. Len(q) : i < j => used'[q[i]] <= used'[q[j]] BY <1>2, <2>3, <2>4
  <2> QED BY <2>1, <2>2, <2>5 DEF InOrder
<1>4. Len(order') <= Capacity /\ Range(order') = DOMAIN entries'
  BY <1>0, <1>1, OrderIn DEF CacheInv
<1>5. \A c \in Keys : used'[c] <= now BY <1>2 DEF CacheInv
<1> QED BY <1>0, <1>2, <1>3, <1>4, <1>5 DEF CacheInv, NoneMade

(* What put evicts: the front, when a new key finds the table full. *)
LEMMA EvictedFacts ==
  ASSUME CacheInv, Capacity > 0, NEW k \in Keys
  PROVE  \/ /\ P!Evicted(k) = {} /\ P!Remaining(k) = order
            /\ k \in DOMAIN entries \/ Len(order) < Capacity
         \/ /\ k \notin DOMAIN entries /\ Len(order) # 0
            /\ P!Evicted(k) = {order[1]} /\ P!Remaining(k) = CutAt(order, 1)
<1>0. PICK l \in Nat : l = Len(order) BY OrderIn
<1>1. P!Cardinality(DOMAIN entries) = l
  BY <1>0, OrderIn, DistinctCount, PluginCardinality DEF CacheInv
<1>2. l <= Capacity /\ Capacity \in Nat BY <1>0, OrderIn DEF CacheInv
<1>3. CASE k \in DOMAIN entries \/ l < Capacity
  <2>1. P!Excess(k) = 0 BY <1>1, <1>3 DEF P!Excess
  <2>2. P!Evicted(k) = {} BY <2>1 DEF P!Evicted
  <2>3. P!Remaining(k) = SubSeq(order, 1, Len(order)) BY <2>1 DEF P!Remaining
  <2>4. SubSeq(order, 1, Len(order)) = order
    <3>1. PICK b : b = SubSeq(order, 1, l) OBVIOUS
    <3>2. b \in Seq(Keys) /\ Len(b) = l BY <1>0, <3>1, OrderIn
    <3>3. \A i \in 1 .. l : b[i] = order[i] BY <1>0, <3>1, OrderIn
    <3>4. b = [i \in 1 .. l |-> b[i]] BY <3>2
    <3>5. order = [i \in 1 .. l |-> order[i]] BY <1>0, OrderIn
    <3> QED BY <1>0, <3>1, <3>3, <3>4, <3>5
  <2> QED BY <1>0, <1>3, <2>2, <2>3, <2>4
<1>4. CASE ~(k \in DOMAIN entries \/ l < Capacity)
  <2>1. l = Capacity BY <1>2, <1>4
  <2>2. P!Excess(k) = 1 BY <1>1, <1>2, <1>4, <2>1 DEF P!Excess
  <2>3. P!Evicted(k) = {order[1]}
    <3>1. 1 .. 1 = {1} OBVIOUS
    <3> QED BY <2>2, <3>1 DEF P!Evicted
  <2>4. P!Remaining(k) = SubSeq(order, 2, Len(order)) BY <2>2 DEF P!Remaining
  <2>5. Len(order) # 0 BY <1>0, <1>2, <2>1
  <2> QED BY <1>4, <2>3, <2>4, <2>5, FrontDrops, OrderIn
<1> QED BY <1>3, <1>4

(* put evicts the front if it has to and appends its key (cache.rs, put). *)
LEMMA PutKeeps ==
  ASSUME CacheInv, NEW k \in Keys, NEW v, NEW ttl \in Nat, P!Put(k, v, ttl), now' = now
  PROVE  /\ CacheInv'
         /\ DOMAIN entries' \subseteq DOMAIN entries \cup {k}
         /\ \A c \in DOMAIN entries' : c # k => entries'[c] = entries[c]
         /\ entries'[k].value = v /\ entries'[k].expires_at = now + P!Lifetime(ttl)
<1> DEFINE E == P!Evicted(k)
           new == [value |-> v, expires_at |-> now + P!Lifetime(ttl)]
<1>0. /\ Capacity > 0 /\ ttl <= MaxEntryTTL
      /\ entries' = [c \in (DOMAIN entries \ E) \cup {k} |-> IF c = k THEN new ELSE entries[c]]
      /\ order' = Append(IF k \in DOMAIN entries THEN P!RemoveFirst(P!Remaining(k), k)
                         ELSE P!Remaining(k), k)
      /\ used' = [c \in Keys |-> IF c = k THEN now ELSE IF c \in E THEN 0 ELSE used[c]]
  BY DEF P!Put
<1>1. \E r : /\ InOrder(r, used) /\ order' = Append(r, k) /\ Len(r) < Capacity
             /\ k \notin Range(r) /\ Range(r) \cap E = {}
             /\ Range(r) \cup {k} = (DOMAIN entries \ E) \cup {k}
  <2>0. Range(order) = DOMAIN entries /\ Len(order) <= Capacity /\ InOrder(order, used) BY DEF CacheInv
  <2>1. CASE k \in DOMAIN entries
    <3>1. E = {} /\ P!Remaining(k) = order BY <1>0, <2>1, EvictedFacts
    <3>2. PICK p \in 1 .. Len(order) : order[p] = k BY <2>1, PlaceOf DEF CacheInv
    <3>3. PICK r : r = CutAt(order, p) OBVIOUS
    <3>4. P!RemoveFirst(order, k) = r BY <3>2, <3>3, OrderIn, RemoveFirstDrops
    <3>5. InOrder(r, used) /\ Len(r) = Len(order) - 1 /\ Range(r) = Range(order) \ {k}
      BY <2>0, <3>2, <3>3, DroppedFacts
    <3>6. order' = Append(r, k) BY <1>0, <2>1, <3>1, <3>4
    <3>7. Len(r) < Capacity BY <2>0, <3>5, OrderIn
    <3>8. /\ k \notin Range(r) /\ Range(r) \cap E = {}
          /\ Range(r) \cup {k} = (DOMAIN entries \ E) \cup {k} BY <2>0, <3>1, <3>5
    <3> QED BY <3>5, <3>6, <3>7, <3>8
  <2>2. CASE k \notin DOMAIN entries /\ E = {}
    <3>1. order' = Append(P!Remaining(k), k) BY <1>0, <2>2
    <3>2. P!Remaining(k) = order /\ Len(order) < Capacity BY <1>0, <2>2, EvictedFacts
    <3>3. order' = Append(order, k) BY <3>1, <3>2
    <3> QED BY <2>0, <2>2, <3>2, <3>3
  <2>3. CASE k \notin DOMAIN entries /\ E # {}
    <3>1. order' = Append(P!Remaining(k), k) BY <1>0, <2>3
    <3>2. Len(order) # 0 /\ E = {order[1]} /\ P!Remaining(k) = CutAt(order, 1) BY <1>0, <2>3, EvictedFacts
    <3>3. PICK r : r = CutAt(order, 1) OBVIOUS
    <3>4. 1 \in 1 .. Len(order) BY <3>2, OrderIn
    <3>5. InOrder(r, used) /\ Len(r) = Len(order) - 1 /\ Range(r) = Range(order) \ {order[1]}
      BY <2>0, <3>3, <3>4, DroppedFacts
    <3>6. order' = Append(r, k) BY <3>1, <3>2, <3>3
    <3>7. Len(r) < Capacity BY <2>0, <3>5, OrderIn
    <3>8. /\ k \notin Range(r) /\ Range(r) \cap E = {}
          /\ Range(r) \cup {k} = (DOMAIN entries \ E) \cup {k} BY <2>0, <2>3, <3>2, <3>5
    <3> QED BY <3>5, <3>6, <3>7, <3>8
  <2> QED BY <2>1, <2>2, <2>3
<1>2. PICK r : /\ InOrder(r, used) /\ order' = Append(r, k) /\ Len(r) < Capacity
               /\ k \notin Range(r) /\ Range(r) \cap E = {}
               /\ Range(r) \cup {k} = (DOMAIN entries \ E) \cup {k}
  BY <1>1
<1> HIDE DEF E
<1>3. /\ used' \in [Keys -> Nat] /\ used'[k] = now
      /\ \A y \in Keys : y # k => used'[y] = IF y \in E THEN 0 ELSE used[y]
  BY <1>0 DEF CacheInv
<1>4. \A y \in Range(r) : y \in Keys /\ y # k /\ y \notin E BY <1>2, OrderIn
<1>5. \A y \in Range(r) : used'[y] = used[y] /\ used[y] <= used'[k] BY <1>3, <1>4 DEF CacheInv
<1>6. InOrder(order', used') /\ Len(order') = Len(r) + 1 /\ Range(order') = Range(r) \cup {k}
  BY <1>2, <1>5, PushOrder
<1>7. Len(order') <= Capacity
  <2>1. Len(r) \in Nat BY <1>2 DEF InOrder
  <2> QED BY <1>2, <1>6, <2>1, OrderIn
<1>8. DOMAIN entries' = (DOMAIN entries \ E) \cup {k} /\ entries'[k] = new
  BY <1>0
<1>9. \A c \in DOMAIN entries' : c # k => c \in DOMAIN entries /\ entries'[c] = entries[c] BY <1>0
<1>10. P!Lifetime(ttl) \in Nat \ {0} /\ P!Lifetime(ttl) <= MaxEntryTTL
  BY <1>0, OrderIn DEF P!Lifetime
<1>11. new.value = v /\ new.expires_at = now + P!Lifetime(ttl) OBVIOUS
<1>12. \A c \in Keys : used'[c] <= now BY <1>3 DEF CacheInv
<1>13. ASSUME NEW c \in DOMAIN entries'
       PROVE  /\ entries'[c].expires_at \in Nat \ {0}
              /\ entries'[c].expires_at <= now + MaxEntryTTL
  <2>1. CASE c = k
    <3>1. now + P!Lifetime(ttl) \in Nat \ {0} /\ now + P!Lifetime(ttl) <= now + MaxEntryTTL
      BY <1>10, OrderIn DEF CacheInv
    <3> QED BY <1>8, <1>11, <2>1, <3>1
  <2>2. CASE c # k BY <1>9, <2>2 DEF CacheInv
  <2> QED BY <2>1, <2>2
<1>14. CacheInv' BY <1>2, <1>3, <1>6, <1>7, <1>8, <1>12, <1>13 DEF CacheInv
<1> QED BY <1>8, <1>9, <1>11, <1>14

(* The invariant gives the type of the cache and OrderIsLru. *)
LEMMA CacheShown == ASSUME CacheInv PROVE P!CacheTypeOK /\ P!OrderIsLru
<1>1. P!Range(order) = DOMAIN entries BY PluginCardinality DEF CacheInv
<1>2. Len(order) = P!Cardinality(DOMAIN entries) BY OrderIn, DistinctCount, PluginCardinality DEF CacheInv
<1>3. \A n \in 1 .. Len(order) - 1 : used[order[n]] <= used[order[n + 1]]
  <2> TAKE n \in 1 .. Len(order) - 1
  <2>1. n \in 1 .. Len(order) /\ n + 1 \in 1 .. Len(order) /\ n < n + 1 BY OrderIn
  <2> QED BY <2>1 DEF CacheInv, InOrder
<1>4. P!OrderIsLru BY <1>1, <1>2, <1>3 DEF CacheInv, P!OrderIsLru
<1>5. \A k \in DOMAIN entries : entries[k].expires_at \in 1 .. now + MaxEntryTTL BY OrderIn DEF CacheInv
<1>6. used \in [Keys -> 0 .. PluginTime]
  <2>1. PluginTime \in Nat BY CallerConstants
  <2>2. \A c \in Keys : used[c] \in 0 .. PluginTime BY <2>1 DEF CacheInv
  <2> QED BY <2>2 DEF CacheInv
<1>7. now \in 0 .. PluginTime BY CallerConstants DEF CacheInv
<1> QED BY <1>4, <1>5, <1>6, <1>7, OrderIn DEF P!CacheTypeOK

-----------------------------------------------------------------------------
(* The identity plugin.                                                    *)

Steps == {"cache", "key", "user", "put", "emit", "done"}

(* The user u had the key k at t or later; until less than an entry's      *)
(* lifetime and an invocation before t.                                    *)
HadSince(k, u, t) == u = 0 \/ (lastHad[k][u] # -1 /\ t <= lastHad[k][u])
HadLately(k, u, t) == 
    u = 0 \/ (lastHad[k][u] # -1 /\ t < lastHad[k][u] + Timeout + IdentityTTL)

GatewayInv ==
    /\ owner \in [P!LiteKeys -> P!Owners]
    /\ changes \in Nat /\ changes <= MaxChanges
    /\ lastHad \in [P!LiteKeys -> [P!Owners -> Int]]
    /\ \A k \in P!LiteKeys :
         /\ \A u \in P!Owners : lastHad[k][u] >= -1 /\ lastHad[k][u] <= now
         /\ lastHad[k][owner[k]] = now

(* An entry ends within its lifetime and one invocation from the time at   *)
(* which its user had the key.                                             *)
EntryInv ==
    \A k \in DOMAIN entries \ OtherKeys :
        /\ entries[k].value \in P!Cacheable
        /\ HadLately(k, entries[k].value.user, entries[k].expires_at - 1)

(* An invocation that is not over is within its deadline, and what it has  *)
(* learnt was so after it began, unless it is from the cache.              *)
RunInv(r) ==
    /\ r \in P!Runs /\ r.lag < IdentityTTL + 2 * Timeout
    /\ r.pc # "done" => r.since <= now /\ now <= r.since + Timeout
    /\ r.pc \in {"cache", "key"} => r.id = P!Nobody
    /\ r.pc = "user" => r.id.user \in Users
    /\ r.pc = "put" => r.id \in P!Cacheable
    /\ r.pc \in {"user", "put"} => HadSince(r.key, r.id.user, r.since)
    /\ r.pc = "emit" => HadLately(r.key, r.id.user, r.since)

PluginInv ==
    /\ CacheInv /\ GatewayInv /\ EntryInv
    /\ runs \in [Invokers -> P!Runs]
    /\ \A w \in Invokers : RunInv(runs[w])

(* What CallerConstants says of the plugin's settings. *)
LEMMA PluginNumbers ==
    /\ Timeout \in Nat /\ IdentityTTL \in Nat \ {0} /\ IdentityTTL <= MaxEntryTTL
    /\ MaxEntryTTL \in Nat /\ MaxChanges \in Nat /\ PluginTime \in Nat /\ Capacity \in Nat
    /\ OtherKeys \subseteq Keys /\ P!LiteKeys # {} /\ 0 \notin Users
    /\ P!Owners = Users \cup {0} /\ P!LiteKeys = Keys \ OtherKeys
BY CallerConstants DEF P!LiteKeys, P!Owners, P!NoUser

(* Identities and the ones that may be cached. *)
LEMMA Identified ==
    /\ P!Nobody \in P!Identities /\ P!Nobody.user = 0 /\ P!Nobody \in P!Cacheable
    /\ \A u \in P!Owners, n \in BOOLEAN :
         P!Identity(u, n) \in P!Identities /\ P!Identity(u, n).user = u
    /\ \A u \in Users : P!Identity(u, TRUE) \in P!Cacheable
    /\ \A i \in P!Cacheable : i \in P!Identities /\ i.user \in P!Owners
    /\ \A i \in P!Identities : i.user \in P!Owners
<1> USE PluginNumbers
<1>1. \A u \in P!Owners, n \in BOOLEAN :
         P!Identity(u, n) \in P!Identities /\ P!Identity(u, n).user = u
  BY DEF P!Identity, P!Identities
<1>2. P!Nobody = P!Identity(0, FALSE) BY DEF P!Nobody, P!NoUser
<1>3. P!Cacheable = {P!Nobody} \cup {P!Identity(u, TRUE) : u \in Users} BY DEF P!Cacheable
<1>4. \A i \in P!Identities : i.user \in P!Owners BY DEF P!Identities
<1>5. P!Nobody \in P!Identities /\ P!Nobody.user = 0 BY <1>1, <1>2
<1> QED BY <1>1, <1>3, <1>4, <1>5

(* The fields of an invocation. *)
LEMMA RunFields ==
  ASSUME NEW r \in P!Runs
  PROVE  /\ r.pc \in Steps /\ r.key \in P!LiteKeys /\ r.since \in Nat /\ r.since <= PluginTime
         /\ r.id \in P!Identities /\ r.id.user \in P!Owners /\ r.lag \in Nat
<1>1. /\ r.pc \in Steps /\ r.key \in P!LiteKeys /\ r.since \in 0 .. PluginTime
      /\ r.id \in P!Identities /\ r.lag \in 0 .. PluginTime + 1
  BY DEF P!Runs, Steps
<1> QED BY <1>1, Identified, PluginNumbers

(* An invocation with another pc. *)
LEMMA RunStep ==
  ASSUME NEW r \in P!Runs, NEW to \in Steps
  PROVE  /\ [r EXCEPT !.pc = to] \in P!Runs
         /\ [r EXCEPT !.pc = to].pc = to /\ [r EXCEPT !.pc = to].key = r.key
         /\ [r EXCEPT !.pc = to].since = r.since /\ [r EXCEPT !.pc = to].id = r.id
         /\ [r EXCEPT !.pc = to].lag = r.lag
BY DEF P!Runs, Steps

(* An invocation that is over. *)
LEMMA RunOver ==
  ASSUME NEW l \in Nat, l <= PluginTime + 1
  PROVE  P!Over(l) \in P!Runs /\ P!Over(l).pc = "done" /\ P!Over(l).lag = l
<1>1. (CHOOSE k \in P!LiteKeys : TRUE) \in P!LiteKeys BY PluginNumbers
<1>2. 0 \in 0 .. PluginTime /\ l \in 0 .. PluginTime + 1 BY PluginNumbers
<1> QED BY <1>1, <1>2, Identified DEF P!Over, P!Runs

(* One invocation moves. *)
LEMMA OneRun ==
  ASSUME PluginInv, NEW w \in Invokers, NEW q, runs' = [runs EXCEPT ![w] = q], RunInv(q),
         UNCHANGED <<now, owner, changes, lastHad>>, CacheInv', EntryInv'
  PROVE  PluginInv'
<1>1. GatewayInv' BY DEF PluginInv, GatewayInv
<1>2. q \in P!Runs BY DEF RunInv
<1>3. runs \in [Invokers -> P!Runs] BY DEF PluginInv
<1>4. runs' \in [Invokers -> P!Runs] /\ runs'[w] = q /\ \A x \in Invokers : x # w => runs'[x] = runs[x]
  BY <1>2, <1>3
<1>5. ASSUME NEW x \in Invokers PROVE RunInv(runs[x])'
  <2>1. RunInv(runs'[x]) BY <1>4 DEF PluginInv
  <2> QED BY <2>1 DEF RunInv, HadSince, HadLately
<1> QED BY <1>1, <1>4, <1>5 DEF PluginInv

(* Entries that stay were learnt as lately as before. *)
LEMMA EntriesStay ==
  ASSUME PluginInv, NoneMade, lastHad' = lastHad
  PROVE  EntryInv'
<1> SUFFICES ASSUME NEW k \in DOMAIN entries' \ OtherKeys
             PROVE  /\ entries'[k].value \in P!Cacheable
                    /\ HadLately(k, entries[k].value.user, entries[k].expires_at - 1)'
  BY DEF EntryInv
<1>1. k \in DOMAIN entries \ OtherKeys /\ entries'[k] = entries[k] BY DEF NoneMade
<1> QED BY <1>1 DEF PluginInv, EntryInv, HadLately

(* The cache is left alone. *)
LEMMA SameCache ==
  ASSUME PluginInv, UNCHANGED <<now, entries, order, used>>
  PROVE  CacheInv' /\ NoneMade
BY DEF PluginInv, CacheInv, NoneMade, InOrder

(* What has been had stays so. *)
LEMMA LateHad ==
  ASSUME PluginInv, NEW k \in P!LiteKeys, NEW u \in P!Owners, NEW t \in Int,
         lastHad'[k][u] \in Int, lastHad[k][u] <= lastHad'[k][u]
  PROVE  /\ HadSince(k, u, t) => HadSince(k, u, t)'
         /\ HadLately(k, u, t) => HadLately(k, u, t)'
<1>1. lastHad[k][u] \in Int /\ lastHad[k][u] >= -1 BY DEF PluginInv, GatewayInv
<1> QED BY <1>1, PluginNumbers DEF HadSince, HadLately

(* The gateway or the clock moves. *)
LEMMA HadGrows ==
  ASSUME PluginInv, GatewayInv', CacheInv', entries' = entries, runs' = runs, now' \in Nat, now <= now',
         \A w \in Invokers : runs[w].pc # "done" => now' <= runs[w].since + Timeout,
         \A k \in P!LiteKeys, u \in P!Owners : lastHad[k][u] <= lastHad'[k][u]
  PROVE  PluginInv'
<1>0. \A k \in P!LiteKeys, u \in P!Owners : lastHad'[k][u] \in Int BY DEF GatewayInv
<1>1. EntryInv'
  <2> SUFFICES ASSUME NEW k \in DOMAIN entries \ OtherKeys
               PROVE  /\ entries[k].value \in P!Cacheable
                      /\ HadLately(k, entries[k].value.user, entries[k].expires_at - 1)'
    BY DEF EntryInv
  <2>1. /\ entries[k].value \in P!Cacheable
        /\ HadLately(k, entries[k].value.user, entries[k].expires_at - 1)
    BY DEF PluginInv, EntryInv
  <2>2. k \in P!LiteKeys /\ entries[k].value.user \in P!Owners
    BY <2>1, Identified, OrderIn, PluginNumbers DEF PluginInv
  <2>3. entries[k].expires_at - 1 \in Int BY DEF PluginInv, CacheInv
  <2>4. PICK t \in Int : t = entries[k].expires_at - 1 BY <2>3
  <2>5. PICK u \in P!Owners : u = entries[k].value.user BY <2>2
  <2>6. HadLately(k, u, t) BY <2>1, <2>4, <2>5
  <2>7. HadLately(k, u, t)' BY <1>0, <2>2, <2>6, LateHad
  <2> QED BY <2>1, <2>4, <2>5, <2>7 DEF HadLately
<1>2. ASSUME NEW w \in Invokers PROVE RunInv(runs[w])'
  <2>1. PICK r : r = runs[w] OBVIOUS
  <2>2. RunInv(r) BY <2>1 DEF PluginInv
  <2>3. r \in P!Runs BY <2>2 DEF RunInv
  <2>4. r.key \in P!LiteKeys /\ r.id.user \in P!Owners /\ r.since \in Nat BY <2>3, RunFields
  <2>5. PICK k \in P!LiteKeys, u \in P!Owners, t \in Int : k = r.key /\ u = r.id.user /\ t = r.since BY <2>4
  <2>6. HadSince(k, u, t) => HadSince(k, u, t)' BY <1>0, LateHad
  <2>7. HadLately(k, u, t) => HadLately(k, u, t)' BY <1>0, LateHad
  <2>8. HadSince(r.key, r.id.user, r.since) => HadSince(k, u, t) BY <2>5
  <2>9. HadLately(r.key, r.id.user, r.since) => HadLately(k, u, t) BY <2>5
  <2>10. r.pc # "done" => r.since <= now' /\ now' <= r.since + Timeout
    BY <2>1, <2>2, <2>4 DEF RunInv, PluginInv, CacheInv
  <2>11. /\ r.pc \in {"user", "put"} => HadSince(k, u, t)'
         /\ r.pc = "emit" => HadLately(k, u, t)'
    BY <2>2, <2>6, <2>7, <2>8, <2>9 DEF RunInv
  <2>12. runs'[w] = r BY <2>1
  <2> QED BY <2>2, <2>5, <2>10, <2>11, <2>12 DEF RunInv, HadSince, HadLately
<1> QED BY <1>1, <1>2 DEF PluginInv

(* Time passes: every owner has its keys now, nobody is overdue. *)
LEMMA ClockKeeps == ASSUME PluginInv, P!Tick PROVE PluginInv'
<1>0. /\ now < PluginTime /\ now' = now + 1 /\ UNCHANGED <<entries, order, used, owner, changes, runs>>
      /\ \A w \in Invokers : ~P!Overdue(w)
      /\ lastHad' = [k \in P!LiteKeys |-> [lastHad[k] EXCEPT ![owner[k]] = now + 1]]
  BY DEF P!Tick, P!cacheVars
<1>1. now \in Nat /\ now + 1 \in Nat BY DEF PluginInv, CacheInv
<1>2. CacheInv'
  <2>1. \A c \in Keys : used[c] \in Nat /\ used[c] <= now + 1 BY <1>1 DEF PluginInv, CacheInv
  <2>2. \A c \in DOMAIN entries : /\ entries[c].expires_at \in Nat \ {0}
                                  /\ entries[c].expires_at <= now + 1 + MaxEntryTTL
    BY <1>1, PluginNumbers DEF PluginInv, CacheInv
  <2>3. now + 1 <= PluginTime BY <1>0, <1>1, PluginNumbers
  <2> QED BY <1>0, <1>1, <2>1, <2>2, <2>3 DEF PluginInv, CacheInv, InOrder
<1>3. ASSUME NEW k \in P!LiteKeys
      PROVE  /\ lastHad'[k] \in [P!Owners -> Int]
             /\ lastHad'[k][owner[k]] = now + 1
             /\ \A u \in P!Owners : u # owner[k] => lastHad'[k][u] = lastHad[k][u]
  <2>1. owner[k] \in P!Owners /\ lastHad[k] \in [P!Owners -> Int] BY DEF PluginInv, GatewayInv
  <2>2. lastHad'[k] = [lastHad[k] EXCEPT ![owner[k]] = now + 1] BY <1>0
  <2> QED BY <1>1, <2>1, <2>2
<1>4. GatewayInv'
  <2>1. lastHad' \in [P!LiteKeys -> [P!Owners -> Int]]
    <3>1. PICK h : h = lastHad' OBVIOUS
    <3>2. h = [k \in P!LiteKeys |-> h[k]] BY <1>0, <3>1
    <3>3. \A k \in P!LiteKeys : h[k] \in [P!Owners -> Int] BY <1>3, <3>1
    <3> QED BY <3>1, <3>2, <3>3
  <2>2. \A k \in P!LiteKeys, u \in P!Owners : lastHad'[k][u] >= -1 /\ lastHad'[k][u] <= now + 1
    <3> TAKE k \in P!LiteKeys, u \in P!Owners
    <3>1. lastHad[k][u] \in Int /\ lastHad[k][u] >= -1 /\ lastHad[k][u] <= now BY DEF PluginInv, GatewayInv
    <3>2. lastHad'[k][u] = now + 1 \/ lastHad'[k][u] = lastHad[k][u] BY <1>3
    <3> QED BY <1>1, <3>1, <3>2
  <2>3. \A k \in P!LiteKeys : lastHad'[k][owner[k]] = now + 1 BY <1>3
  <2> QED BY <1>0, <2>1, <2>2, <2>3 DEF PluginInv, GatewayInv
<1>5. \A k \in P!LiteKeys, u \in P!Owners : lastHad[k][u] <= lastHad'[k][u]
  <2> TAKE k \in P!LiteKeys, u \in P!Owners
  <2>1. lastHad[k][u] \in Int /\ lastHad[k][u] <= now BY DEF PluginInv, GatewayInv
  <2>2. lastHad'[k][u] = now + 1 \/ lastHad'[k][u] = lastHad[k][u] BY <1>3
  <2> QED BY <1>1, <2>1, <2>2
<1>6. \A w \in Invokers : runs[w].pc # "done" => now + 1 <= runs[w].since + Timeout
  <2> TAKE w \in Invokers
  <2>1. runs[w].since \in Nat BY RunFields DEF PluginInv
  <2>2. runs[w].pc # "done" => ~(now >= runs[w].since + Timeout) BY <1>0 DEF P!Overdue
  <2> QED BY <1>1, <2>1, <2>2, PluginNumbers
<1>7. now <= now' BY <1>0, <1>1
<1> QED BY <1>0, <1>1, <1>2, <1>4, <1>5, <1>6, <1>7, HadGrows

(* The gateway gives a key to another user. *)
LEMMA ReassignKeeps ==
  ASSUME PluginInv, NEW k \in P!LiteKeys, NEW u \in P!Owners, P!Reassign(k, u) PROVE PluginInv'
<1>0. /\ changes < MaxChanges /\ changes' = changes + 1 /\ owner' = [owner EXCEPT ![k] = u]
      /\ lastHad' = [lastHad EXCEPT ![k][u] = now] /\ UNCHANGED <<now, entries, order, used, runs>>
  BY DEF P!Reassign, P!cacheVars
<1>1. now \in Nat BY DEF PluginInv, CacheInv
<1>2. CacheInv' BY <1>0, SameCache
<1>3. lastHad \in [P!LiteKeys -> [P!Owners -> Int]] /\ owner \in [P!LiteKeys -> P!Owners]
  BY DEF PluginInv, GatewayInv
<1>4. /\ lastHad' \in [P!LiteKeys -> [P!Owners -> Int]] /\ lastHad'[k][u] = now
      /\ \A c \in P!LiteKeys, v \in P!Owners : lastHad'[c][v] = IF c = k /\ v = u THEN now ELSE lastHad[c][v]
  BY <1>0, <1>1, <1>3
<1>5. /\ owner' \in [P!LiteKeys -> P!Owners]
      /\ \A c \in P!LiteKeys : owner'[c] = IF c = k THEN u ELSE owner[c]
  BY <1>0, <1>3
<1>6. \A c \in P!LiteKeys, v \in P!Owners : lastHad[c][v] \in Int /\ lastHad[c][v] >= -1 /\ lastHad[c][v] <= now
  BY DEF PluginInv, GatewayInv
<1>7. GatewayInv'
  <2>1. \A c \in P!LiteKeys, v \in P!Owners : lastHad'[c][v] >= -1 /\ lastHad'[c][v] <= now
    BY <1>1, <1>4, <1>6
  <2>2. \A c \in P!LiteKeys : lastHad'[c][owner'[c]] = now
    <3> TAKE c \in P!LiteKeys
    <3>1. CASE c = k BY <1>4, <1>5, <3>1
    <3>2. CASE c # k
      <4>1. owner'[c] = owner[c] /\ owner[c] \in P!Owners /\ lastHad[c][owner[c]] = now
        BY <1>5, <1>3, <3>2 DEF PluginInv, GatewayInv
      <4> QED BY <1>4, <3>2, <4>1
    <3> QED BY <3>1, <3>2
  <2>3. changes' \in Nat /\ changes' <= MaxChanges BY <1>0, PluginNumbers DEF PluginInv, GatewayInv
  <2> QED BY <1>0, <1>4, <1>5, <2>1, <2>2, <2>3 DEF GatewayInv
<1>8. \A c \in P!LiteKeys, v \in P!Owners : lastHad[c][v] <= lastHad'[c][v] BY <1>1, <1>4, <1>6
<1>9. \A w \in Invokers : runs[w].pc # "done" => now' <= runs[w].since + Timeout
  BY <1>0 DEF PluginInv, RunInv
<1> QED BY <1>0, <1>1, <1>2, <1>7, <1>8, <1>9, HadGrows

(* Another plugin uses the cache, with keys of its own. *)
LEMMA OtherPluginKeeps ==
  ASSUME PluginInv, NEW k \in OtherKeys, P!OtherPlugin(k) PROVE PluginInv'
<1>0. UNCHANGED <<now, owner, changes, lastHad, runs>> BY DEF P!OtherPlugin, P!gatewayVars
<1>1. CacheInv /\ k \in Keys BY PluginNumbers DEF PluginInv
<1>2. CacheInv' /\ EntryInv'
  <2>1. CASE P!GetHit(k) BY <1>0, <1>1, <2>1, HitKeeps, EntriesStay
  <2>2. CASE P!GetMiss(k) BY <1>0, <1>1, <2>2, MissKeeps, EntriesStay
  <2>3. ASSUME NEW ttl \in {0, MaxEntryTTL + 1}, P!Put(k, P!Nobody, ttl) PROVE CacheInv' /\ EntryInv'
    <3>1. ttl \in Nat BY PluginNumbers
    <3>2. /\ CacheInv' /\ DOMAIN entries' \subseteq DOMAIN entries \cup {k}
          /\ \A c \in DOMAIN entries' : c # k => entries'[c] = entries[c]
      BY <1>0, <1>1, <2>3, <3>1, PutKeeps
    <3>3. EntryInv'
      <4> SUFFICES ASSUME NEW c \in DOMAIN entries' \ OtherKeys
                   PROVE  /\ entries'[c].value \in P!Cacheable
                          /\ HadLately(c, entries[c].value.user, entries[c].expires_at - 1)'
        BY DEF EntryInv
      <4>1. c # k /\ c \in DOMAIN entries \ OtherKeys /\ entries'[c] = entries[c] BY <3>2
      <4> QED BY <1>0, <4>1 DEF PluginInv, EntryInv, HadLately
    <3> QED BY <3>2, <3>3
  <2>4. ASSUME NEW ttl, P!PutRejected(TRUE, ttl) PROVE CacheInv' /\ EntryInv'
    <3>1. UNCHANGED <<entries, order, used>> BY <2>4 DEF P!PutRejected, P!cacheVars
    <3> QED BY <1>0, <3>1, SameCache, EntriesStay
  <2> QED BY <2>1, <2>2, <2>3, <2>4 DEF P!OtherPlugin
<1>3. GatewayInv' BY <1>0 DEF PluginInv, GatewayInv
<1>4. ASSUME NEW w \in Invokers PROVE RunInv(runs[w])'
  <2>1. RunInv(runs[w]) BY DEF PluginInv
  <2> QED BY <1>0, <2>1 DEF RunInv, HadSince, HadLately
<1> QED BY <1>0, <1>2, <1>3, <1>4 DEF PluginInv

(* An invocation and what is known of it. *)
LEMMA RunOf ==
  ASSUME PluginInv, NEW w \in Invokers
  PROVE  /\ RunInv(runs[w]) /\ runs[w] \in P!Runs
         /\ \A to : [runs EXCEPT ![w].pc = to] = [runs EXCEPT ![w] = [runs[w] EXCEPT !.pc = to]]
         /\ \A to, i : [runs EXCEPT ![w].pc = to, ![w].id = i] =
                       [runs EXCEPT ![w] = [runs[w] EXCEPT !.pc = to, !.id = i]]
<1>1. runs \in [Invokers -> P!Runs] /\ RunInv(runs[w]) BY DEF PluginInv
<1>2. \A to : [runs EXCEPT ![w].pc = to] = [runs EXCEPT ![w] = [runs[w] EXCEPT !.pc = to]] BY <1>1
<1>3. \A to, i : [runs EXCEPT ![w].pc = to, ![w].id = i] =
                       [runs EXCEPT ![w] = [runs[w] EXCEPT !.pc = to, !.id = i]] BY <1>1
<1> QED BY <1>1, <1>2, <1>3

(* Nothing is claimed of a key without a user. *)
LEMMA NobodyHad == \A k, t : HadSince(k, 0, t) /\ HadLately(k, 0, t)
BY DEF HadSince, HadLately

(* An invocation begins, knowing nobody. *)
LEMMA InvokeKeeps ==
  ASSUME PluginInv, NEW w \in Invokers, NEW k \in P!LiteKeys, P!Invoke(w, k) PROVE PluginInv'
<1> DEFINE q == [pc |-> "cache", key |-> k, since |-> now, id |-> P!Nobody, lag |-> 0]
<1>0. UNCHANGED <<now, entries, order, used, owner, changes, lastHad>> /\ runs' = [runs EXCEPT ![w] = q]
  BY DEF P!Invoke, P!cacheVars, P!gatewayVars
<1>1. CacheInv' /\ EntryInv' BY <1>0, SameCache, EntriesStay
<1>2. now \in 0 .. PluginTime /\ now \in Nat BY PluginNumbers DEF PluginInv, CacheInv
<1>3. q \in P!Runs
  <2>1. 0 \in 0 .. PluginTime + 1 BY PluginNumbers
  <2> QED BY <1>2, <2>1, Identified DEF P!Runs
<1>4. RunInv(q)
  <2>1. q.lag < IdentityTTL + 2 * Timeout /\ now <= now + Timeout BY <1>2, PluginNumbers
  <2> QED BY <1>2, <1>3, <2>1 DEF RunInv
<1> HIDE DEF q
<1> QED BY <1>0, <1>1, <1>4, OneRun

(* A fresh entry has not outlived its user by more than its lifetime and a *)
(* timeout.                                                                *)
LEMMA CachedKeeps ==
  ASSUME PluginInv, NEW w \in Invokers, P!CachedIdentity(w) PROVE PluginInv'
<1>0. UNCHANGED <<now, owner, changes, lastHad>> BY DEF P!CachedIdentity, P!gatewayVars
<1>1. PICK r : r = runs[w] OBVIOUS
<1>2. RunInv(r) /\ r \in P!Runs BY <1>1, RunOf
<1>3. PICK k \in P!LiteKeys : k = r.key BY <1>2, RunFields
<1>4. k \in Keys /\ k \notin OtherKeys /\ CacheInv BY PluginNumbers DEF PluginInv
<1>5. CASE P!GetHit(k) /\ P!Learn(w, "cache", "emit", entries[k].value)
  <2>1. CacheInv' /\ EntryInv' BY <1>0, <1>4, <1>5, HitKeeps, EntriesStay
  <2>2. k \in DOMAIN entries \ OtherKeys /\ now < entries[k].expires_at BY <1>4, <1>5 DEF P!GetHit, P!Fresh
  <2>3. PICK i : i = entries[k].value OBVIOUS
  <2>4. i \in P!Cacheable /\ HadLately(k, i.user, entries[k].expires_at - 1) BY <2>2, <2>3 DEF PluginInv, EntryInv
  <2>5. i \in P!Identities /\ i.user \in P!Owners BY <2>4, Identified
  <2>6. r.pc = "cache" /\ runs' = [runs EXCEPT ![w].pc = "emit", ![w].id = i]
    BY <1>1, <1>5, <2>3 DEF P!Learn
  <2> DEFINE q == [r EXCEPT !.pc = "emit", !.id = i]
  <2>7. runs' = [runs EXCEPT ![w] = q] BY <1>1, <2>6, RunOf
  <2>8. /\ q \in P!Runs /\ q.pc = "emit" /\ q.key = k /\ q.since = r.since /\ q.id = i /\ q.lag = r.lag
    <3>1. "emit" \in Steps BY DEF Steps
    <3> QED BY <1>2, <1>3, <2>5, <3>1 DEF P!Runs
  <2> HIDE DEF q
  <2>9. r.since \in Nat /\ r.since <= now /\ now <= r.since + Timeout BY <1>2, <2>6, RunFields DEF RunInv
  <2>10. entries[k].expires_at \in Nat /\ now \in Nat BY <2>2, <1>4 DEF CacheInv
  <2>11. HadLately(k, i.user, r.since)
    <3>1. CASE i.user = 0 BY <3>1, NobodyHad
    <3>2. CASE i.user # 0
      <4>1. /\ lastHad[k][i.user] # -1
            /\ entries[k].expires_at - 1 < lastHad[k][i.user] + Timeout + IdentityTTL
        BY <2>4, <3>2 DEF HadLately
      <4>2. lastHad[k][i.user] \in Int BY <2>5 DEF PluginInv, GatewayInv
      <4>3. r.since <= entries[k].expires_at - 1 BY <2>2, <2>9, <2>10
      <4>4. r.since < lastHad[k][i.user] + Timeout + IdentityTTL BY <2>9, <2>10, <4>1, <4>2, <4>3, PluginNumbers
      <4> QED BY <4>1, <4>4 DEF HadLately
    <3> QED BY <3>1, <3>2
  <2>12. RunInv(q) BY <1>2, <2>8, <2>9, <2>11 DEF RunInv
  <2> QED BY <1>0, <2>1, <2>7, <2>12, OneRun
<1>6. CASE P!GetMiss(k) /\ P!Step(w, "cache", "key")
  <2>1. CacheInv' /\ EntryInv' BY <1>0, <1>4, <1>6, MissKeeps, EntriesStay
  <2>2. r.pc = "cache" /\ runs' = [runs EXCEPT ![w].pc = "key"] BY <1>1, <1>6 DEF P!Step
  <2> DEFINE q == [r EXCEPT !.pc = "key"]
  <2>3. runs' = [runs EXCEPT ![w] = q] BY <1>1, <2>2, RunOf
  <2>4. /\ q \in P!Runs /\ q.pc = "key" /\ q.key = k /\ q.since = r.since /\ q.id = r.id /\ q.lag = r.lag
    BY <1>2, <1>3, RunStep DEF Steps
  <2> HIDE DEF q
  <2>5. RunInv(q) BY <1>2, <2>2, <2>4 DEF RunInv
  <2> QED BY <1>0, <2>1, <2>3, <2>5, OneRun
<1> QED BY <1>1, <1>3, <1>5, <1>6 DEF P!CachedIdentity

(* A step without the cache: the invocation goes on, or learns who it is. *)
LEMMA StepKeeps ==
  ASSUME PluginInv, NEW w \in Invokers, NEW from, NEW to \in Steps \ {"done"}, from # "done",
         P!Step(w, from, to), UNCHANGED <<now, entries, order, used, owner, changes, lastHad>>,
         \/ from = "key" /\ to \in {"put", "emit"}
         \/ from = "user" /\ to = "emit"
  PROVE  PluginInv'
<1>0. CacheInv' /\ EntryInv' BY SameCache, EntriesStay
<1>1. PICK r : r = runs[w] OBVIOUS
<1>2. RunInv(r) /\ r \in P!Runs BY <1>1, RunOf
<1>3. r.pc = from /\ runs' = [runs EXCEPT ![w].pc = to] BY <1>1 DEF P!Step
<1> DEFINE q == [r EXCEPT !.pc = to]
<1>4. runs' = [runs EXCEPT ![w] = q] BY <1>1, <1>3, RunOf
<1>5. /\ q \in P!Runs /\ q.pc = to /\ q.key = r.key /\ q.since = r.since /\ q.id = r.id /\ q.lag = r.lag
  BY <1>2, RunStep
<1> HIDE DEF q
<1>6. /\ r.lag < IdentityTTL + 2 * Timeout /\ r.since <= now /\ now <= r.since + Timeout
  BY <1>2, <1>3 DEF RunInv
<1>7. CASE from = "key"
  <2>1. r.id = P!Nobody BY <1>2, <1>3, <1>7 DEF RunInv
  <2>2. HadSince(r.key, r.id.user, r.since) /\ HadLately(r.key, r.id.user, r.since)
    BY <2>1, Identified, NobodyHad
  <2>3. RunInv(q) BY <1>5, <1>6, <1>7, <2>1, <2>2, Identified DEF RunInv
  <2> QED BY <1>0, <1>4, <2>3, OneRun
<1>8. CASE from = "user"
  <2>1. HadSince(r.key, r.id.user, r.since) BY <1>2, <1>3, <1>8 DEF RunInv
  <2>2. HadLately(r.key, r.id.user, r.since)
    <3>1. CASE r.id.user = 0 BY <3>1, NobodyHad
    <3>2. CASE r.id.user # 0
      <4>1. lastHad[r.key][r.id.user] # -1 /\ r.since <= lastHad[r.key][r.id.user]
        BY <2>1, <3>2 DEF HadSince
      <4>2. lastHad[r.key][r.id.user] \in Int /\ r.since \in Nat BY <1>2, RunFields DEF PluginInv, GatewayInv
      <4>3. r.since < lastHad[r.key][r.id.user] + Timeout + IdentityTTL BY <4>1, <4>2, PluginNumbers
      <4> QED BY <4>1, <4>3 DEF HadLately
    <3> QED BY <3>1, <3>2
  <2>3. RunInv(q) BY <1>5, <1>6, <1>8, <2>2 DEF RunInv
  <2> QED BY <1>0, <1>4, <2>3, OneRun
<1> QED BY <1>7, <1>8

(* The gateway names the owner of the key at this time. *)
LEMMA KeyLookupKeeps ==
  ASSUME PluginInv, NEW w \in Invokers, P!KeyLookup(w) PROVE PluginInv'
<1>0. UNCHANGED <<now, entries, order, used, owner, changes, lastHad>>
  BY DEF P!KeyLookup, P!cacheVars, P!gatewayVars
<1>1. CASE P!LookupFails(w, "key") BY <1>0, <1>1, StepKeeps DEF P!LookupFails, Steps
<1>2. CASE P!Step(w, "key", "put") BY <1>0, <1>2, StepKeeps DEF Steps
<1>3. CASE /\ owner[runs[w].key] # P!NoUser
           /\ P!Learn(w, "key", "user", P!Identity(owner[runs[w].key], FALSE))
  <2>0. CacheInv' /\ EntryInv' BY <1>0, SameCache, EntriesStay
  <2>1. PICK r : r = runs[w] OBVIOUS
  <2>2. RunInv(r) /\ r \in P!Runs BY <2>1, RunOf
  <2>3. r.key \in P!LiteKeys /\ r.since \in Nat BY <2>2, RunFields
  <2>4. PICK u \in P!Owners : u = owner[r.key] BY <2>3 DEF PluginInv, GatewayInv
  <2>5. u \in Users /\ lastHad[r.key][u] = now
    BY <1>3, <2>1, <2>3, <2>4, PluginNumbers DEF P!NoUser, PluginInv, GatewayInv
  <2>6. PICK i : i = P!Identity(u, FALSE) OBVIOUS
  <2>7. i \in P!Identities /\ i.user = u BY <2>6, Identified
  <2>8. r.pc = "key" /\ runs' = [runs EXCEPT ![w].pc = "user", ![w].id = i]
    BY <1>3, <2>1, <2>4, <2>6 DEF P!Learn
  <2> DEFINE q == [r EXCEPT !.pc = "user", !.id = i]
  <2>9. runs' = [runs EXCEPT ![w] = q] BY <2>1, <2>8, RunOf
  <2>10. /\ q \in P!Runs /\ q.pc = "user" /\ q.key = r.key /\ q.since = r.since /\ q.id = i /\ q.lag = r.lag
    BY <2>2, <2>7 DEF P!Runs
  <2> HIDE DEF q
  <2>11. r.since <= now /\ now <= r.since + Timeout BY <2>2, <2>8 DEF RunInv
  <2>12. now \in Nat BY DEF PluginInv, CacheInv
  <2>13. HadSince(r.key, u, r.since)
    <3>1. now # -1 BY <2>12
    <3> QED BY <2>5, <2>11, <3>1 DEF HadSince
  <2>14. RunInv(q) BY <2>2, <2>5, <2>7, <2>10, <2>11, <2>13 DEF RunInv
  <2> QED BY <1>0, <2>0, <2>9, <2>14, OneRun
<1> QED BY <1>1, <1>2, <1>3 DEF P!KeyLookup

(* The name is resolved: the identity may be cached. *)
LEMMA UserLookupKeeps ==
  ASSUME PluginInv, NEW w \in Invokers, P!UserLookup(w) PROVE PluginInv'
<1>0. UNCHANGED <<now, entries, order, used, owner, changes, lastHad>>
  BY DEF P!UserLookup, P!cacheVars, P!gatewayVars
<1>1. CASE P!LookupFails(w, "user") BY <1>0, <1>1, StepKeeps DEF P!LookupFails, Steps
<1>2. CASE P!Learn(w, "user", "put", P!Identity(runs[w].id.user, TRUE))
  <2>0. CacheInv' /\ EntryInv' BY <1>0, SameCache, EntriesStay
  <2>1. PICK r : r = runs[w] OBVIOUS
  <2>2. RunInv(r) /\ r \in P!Runs BY <2>1, RunOf
  <2>3. r.pc = "user" BY <1>2, <2>1 DEF P!Learn
  <2>4. r.id.user \in Users BY <2>2, <2>3 DEF RunInv
  <2>5. PICK u \in Users : u = r.id.user BY <2>4
  <2>6. PICK i : i = P!Identity(u, TRUE) OBVIOUS
  <2>7. u \in P!Owners BY PluginNumbers
  <2>8. i \in P!Identities /\ i.user = u /\ i \in P!Cacheable BY <2>6, <2>7, Identified
  <2>9. runs' = [runs EXCEPT ![w].pc = "put", ![w].id = i] BY <1>2, <2>1, <2>5, <2>6 DEF P!Learn
  <2> DEFINE q == [r EXCEPT !.pc = "put", !.id = i]
  <2>10. runs' = [runs EXCEPT ![w] = q] BY <2>1, <2>9, RunOf
  <2>11. /\ q \in P!Runs /\ q.pc = "put" /\ q.key = r.key /\ q.since = r.since /\ q.id = i /\ q.lag = r.lag
    BY <2>2, <2>8 DEF P!Runs
  <2> HIDE DEF q
  <2>12. r.since <= now /\ now <= r.since + Timeout BY <2>2, <2>3 DEF RunInv
  <2>13. HadSince(r.key, u, r.since) BY <2>2, <2>3, <2>5 DEF RunInv
  <2>14. RunInv(q) BY <2>2, <2>8, <2>11, <2>12, <2>13 DEF RunInv
  <2> QED BY <1>0, <2>0, <2>10, <2>14, OneRun
<1> QED BY <1>1, <1>2 DEF P!UserLookup

(* The entry is written within the deadline of who asked the gateway. *)
LEMMA StoreKeeps ==
  ASSUME PluginInv, NEW w \in Invokers, P!StoreIdentity(w) PROVE PluginInv'
<1>0. UNCHANGED <<now, owner, changes, lastHad>> /\ P!Step(w, "put", "emit")
  BY DEF P!StoreIdentity, P!gatewayVars
<1>1. PICK r : r = runs[w] OBVIOUS
<1>2. RunInv(r) /\ r \in P!Runs BY <1>1, RunOf
<1>3. PICK k \in P!LiteKeys, u \in P!Owners, i \in P!Identities : k = r.key /\ u = r.id.user /\ i = r.id
  BY <1>2, RunFields
<1>4. k \in Keys /\ k \notin OtherKeys /\ CacheInv BY PluginNumbers DEF PluginInv
<1>5. r.pc = "put" /\ runs' = [runs EXCEPT ![w].pc = "emit"] BY <1>0, <1>1 DEF P!Step
<1>6. /\ i \in P!Cacheable /\ HadSince(k, u, r.since) /\ r.since <= now /\ now <= r.since + Timeout
  BY <1>2, <1>3, <1>5 DEF RunInv
<1>7. r.since \in Nat /\ now \in Nat /\ lastHad[k][u] \in Int
  BY <1>2, <1>4, RunFields DEF CacheInv, PluginInv, GatewayInv
<1>8. HadLately(k, u, r.since) /\ HadLately(k, u, now + IdentityTTL - 1)
  <2>1. CASE u = 0 BY <2>1, NobodyHad
  <2>2. CASE u # 0
    <3>1. lastHad[k][u] # -1 /\ r.since <= lastHad[k][u] BY <1>6, <2>2 DEF HadSince
    <3>2. /\ r.since < lastHad[k][u] + Timeout + IdentityTTL
          /\ now + IdentityTTL - 1 < lastHad[k][u] + Timeout + IdentityTTL
      BY <1>6, <1>7, <3>1, PluginNumbers
    <3> QED BY <3>1, <3>2 DEF HadLately
  <2> QED BY <2>1, <2>2
<1>9. CacheInv' /\ EntryInv'
  <2>1. CASE P!Put(r.key, r.id, IdentityTTL)
    <3>0. P!Put(k, i, IdentityTTL) BY <1>3, <2>1
    <3>1. /\ CacheInv' /\ DOMAIN entries' \subseteq DOMAIN entries \cup {k}
          /\ \A c \in DOMAIN entries' : c # k => entries'[c] = entries[c]
          /\ entries'[k].value = i /\ entries'[k].expires_at = now + P!Lifetime(IdentityTTL)
      BY <1>0, <1>4, <3>0, PluginNumbers, PutKeeps
    <3>2. P!Lifetime(IdentityTTL) = IdentityTTL BY PluginNumbers DEF P!Lifetime
    <3>3. ASSUME NEW c \in DOMAIN entries' \ OtherKeys
          PROVE  /\ entries'[c].value \in P!Cacheable
                 /\ HadLately(c, entries[c].value.user, entries[c].expires_at - 1)'
      <4>1. CASE c = k
        <5>1. entries'[c].value.user = u /\ entries'[c].expires_at - 1 = now + IdentityTTL - 1
          <6>1. entries'[c].value = i /\ i.user = u BY <1>3, <3>1, <4>1
          <6>2. entries'[c].expires_at = now + IdentityTTL BY <3>1, <3>2, <4>1
          <6>3. entries'[c].value.user = u BY <6>1
          <6>4. entries'[c].expires_at - 1 = now + IdentityTTL - 1 BY <1>7, <6>2, PluginNumbers
          <6> QED BY <6>3, <6>4
        <5>2. HadLately(k, u, now + IdentityTTL - 1) BY <1>8
        <5> QED BY <1>0, <1>6, <3>1, <4>1, <5>1, <5>2 DEF HadLately
      <4>2. CASE c # k
        <5>1. c \in DOMAIN entries \ OtherKeys /\ entries'[c] = entries[c] BY <3>1, <4>2
        <5> QED BY <1>0, <5>1 DEF PluginInv, EntryInv, HadLately
      <4> QED BY <4>1, <4>2
    <3> QED BY <3>1, <3>3 DEF EntryInv
  <2>2. CASE P!PutRejected(FALSE, IdentityTTL)
    <3>1. UNCHANGED <<entries, order, used>> BY <2>2 DEF P!PutRejected, P!cacheVars
    <3> QED BY <1>0, <3>1, SameCache, EntriesStay
  <2> QED BY <1>1, <2>1, <2>2 DEF P!StoreIdentity
<1> DEFINE q == [r EXCEPT !.pc = "emit"]
<1>10. runs' = [runs EXCEPT ![w] = q] BY <1>1, <1>5, RunOf
<1>11. /\ q \in P!Runs /\ q.pc = "emit" /\ q.key = r.key /\ q.since = r.since /\ q.id = r.id /\ q.lag = r.lag
  BY <1>2, RunStep DEF Steps
<1> HIDE DEF q
<1>12. RunInv(q) BY <1>2, <1>3, <1>6, <1>8, <1>11 DEF RunInv
<1> QED BY <1>0, <1>9, <1>10, <1>12, OneRun

(* The invocation is over. *)
LEMMA OverKeeps ==
  ASSUME PluginInv, NEW w \in Invokers, NEW l \in Nat, l <= PluginTime + 1, l < IdentityTTL + 2 * Timeout,
         runs' = [runs EXCEPT ![w] = P!Over(l)],
         UNCHANGED <<now, entries, order, used, owner, changes, lastHad>>
  PROVE  PluginInv'
<1>0. CacheInv' /\ EntryInv' BY SameCache, EntriesStay
<1>1. PICK q : q = P!Over(l) OBVIOUS
<1>2. q \in P!Runs /\ q.pc = "done" /\ q.lag = l BY <1>1, RunOver
<1>3. RunInv(q) BY <1>2 DEF RunInv
<1> QED BY <1>0, <1>1, <1>3, OneRun

(* Who is reported had the key within the lifetime of an entry and two     *)
(* invocations.                                                            *)
LEMMA EmitKeeps ==
  ASSUME PluginInv, NEW w \in Invokers, P!Emit(w) PROVE PluginInv'
<1>1. PICK r : r = runs[w] OBVIOUS
<1>2. RunInv(r) /\ r \in P!Runs BY <1>1, RunOf
<1>3. PICK k \in P!LiteKeys, u \in P!Owners : k = r.key /\ u = r.id.user BY <1>2, RunFields
<1>4. PICK l : l = P!Lag(k, u) OBVIOUS
<1>5. /\ r.pc = "emit" /\ runs' = [runs EXCEPT ![w] = P!Over(l)]
      /\ UNCHANGED <<now, entries, order, used, owner, changes, lastHad>>
  BY <1>1, <1>3, <1>4 DEF P!Emit, P!cacheVars, P!gatewayVars
<1>6. HadLately(k, u, r.since) /\ now <= r.since + Timeout BY <1>2, <1>3, <1>5 DEF RunInv
<1>7. /\ r.since \in Nat /\ now \in Nat /\ now <= PluginTime
      /\ lastHad[k][u] \in Int /\ lastHad[k][u] >= -1 /\ lastHad[k][u] <= now
  BY <1>2, RunFields DEF PluginInv, CacheInv, GatewayInv
<1>8. l \in Nat /\ l <= PluginTime + 1 /\ l < IdentityTTL + 2 * Timeout
  <2>1. CASE u = 0
    <3>1. l = 0 BY <1>4, <2>1 DEF P!Lag, P!NoUser
    <3> QED BY <3>1, PluginNumbers
  <2>2. CASE u # 0
    <3>1. lastHad[k][u] # -1 /\ r.since < lastHad[k][u] + Timeout + IdentityTTL
      BY <1>6, <2>2 DEF HadLately
    <3>2. l = now - lastHad[k][u] BY <1>4, <2>2, <3>1 DEF P!Lag, P!NoUser, P!Never
    <3> QED BY <1>6, <1>7, <3>1, <3>2, PluginNumbers
  <2> QED BY <2>1, <2>2
<1> QED BY <1>5, <1>8, OverKeeps

(* An overdue invocation reports nothing. *)
LEMMA TrapKeeps ==
  ASSUME PluginInv, NEW w \in Invokers, P!Trap(w) PROVE PluginInv'
<1>1. /\ runs' = [runs EXCEPT ![w] = P!Over(0)]
      /\ UNCHANGED <<now, entries, order, used, owner, changes, lastHad>>
  BY DEF P!Trap, P!cacheVars, P!gatewayVars
<1>2. 0 \in Nat /\ 0 <= PluginTime + 1 /\ 0 < IdentityTTL + 2 * Timeout BY PluginNumbers
<1> QED BY <1>1, <1>2, OverKeeps

(* The initial states satisfy the invariant. *)
LEMMA PluginInit == P!Init => PluginInv
<1> SUFFICES ASSUME P!Init PROVE PluginInv OBVIOUS
<1>0. /\ owner \in [P!LiteKeys -> Users] /\ changes = 0
      /\ lastHad = [k \in P!LiteKeys |-> [u \in P!Owners |-> IF u = owner[k] THEN 0 ELSE P!Never]]
      /\ runs = [w \in Invokers |-> P!Over(0)]
  BY DEF P!Init
<1>1. CacheInv BY CacheStart DEF P!Init
<1>2. now = 0 /\ DOMAIN entries = {} BY DEF P!Init, P!CacheInit
<1>3. GatewayInv
  <2>1. owner \in [P!LiteKeys -> P!Owners] BY <1>0, PluginNumbers
  <2>2. \A k \in P!LiteKeys, u \in P!Owners : lastHad[k][u] = IF u = owner[k] THEN 0 ELSE -1
    BY <1>0 DEF P!Never
  <2>3. lastHad \in [P!LiteKeys -> [P!Owners -> Int]] BY <1>0 DEF P!Never
  <2>4. \A k \in P!LiteKeys, u \in P!Owners : lastHad[k][u] >= -1 /\ lastHad[k][u] <= now BY <1>2, <2>2
  <2>5. \A k \in P!LiteKeys : lastHad[k][owner[k]] = now BY <1>2, <2>1, <2>2
  <2>6. changes \in Nat /\ changes <= MaxChanges BY <1>0, PluginNumbers
  <2> QED BY <2>1, <2>3, <2>4, <2>5, <2>6 DEF GatewayInv
<1>4. EntryInv BY <1>2 DEF EntryInv
<1>5. PICK q : q = P!Over(0) OBVIOUS
<1>6. q \in P!Runs /\ q.pc = "done" /\ q.lag = 0 BY <1>5, PluginNumbers, RunOver
<1>7. q.lag < IdentityTTL + 2 * Timeout BY <1>6, PluginNumbers
<1>8. RunInv(q) BY <1>6, <1>7 DEF RunInv
<1>9. runs \in [Invokers -> P!Runs] /\ \A w \in Invokers : runs[w] = q BY <1>0, <1>5, <1>6
<1> QED BY <1>1, <1>3, <1>4, <1>8, <1>9 DEF PluginInv

(* Every step of the component keeps the invariant. *)
LEMMA PluginNext == PluginInv /\ P!Next => PluginInv'
<1> SUFFICES ASSUME PluginInv, P!Next PROVE PluginInv' OBVIOUS
<1>1. CASE P!Tick BY <1>1, ClockKeeps
<1>2. ASSUME NEW k \in P!LiteKeys, NEW u \in P!Owners, P!Reassign(k, u) PROVE PluginInv' BY <1>2, ReassignKeeps
<1>3. ASSUME NEW k \in OtherKeys, P!OtherPlugin(k) PROVE PluginInv' BY <1>3, OtherPluginKeeps
<1>4. ASSUME NEW w \in Invokers, NEW k \in P!LiteKeys, P!Invoke(w, k) PROVE PluginInv' BY <1>4, InvokeKeeps
<1>5. ASSUME NEW w \in Invokers, P!CachedIdentity(w) PROVE PluginInv' BY <1>5, CachedKeeps
<1>6. ASSUME NEW w \in Invokers, P!KeyLookup(w) PROVE PluginInv' BY <1>6, KeyLookupKeeps
<1>7. ASSUME NEW w \in Invokers, P!UserLookup(w) PROVE PluginInv' BY <1>7, UserLookupKeeps
<1>8. ASSUME NEW w \in Invokers, P!StoreIdentity(w) PROVE PluginInv' BY <1>8, StoreKeeps
<1>9. ASSUME NEW w \in Invokers, P!Emit(w) PROVE PluginInv' BY <1>9, EmitKeeps
<1>10. ASSUME NEW w \in Invokers, P!Trap(w) PROVE PluginInv' BY <1>10, TrapKeeps
<1> QED BY <1>1, <1>2, <1>3, <1>4, <1>5, <1>6, <1>7, <1>8, <1>9, <1>10 DEF P!Next

(* So does a step of another component. *)
LEMMA PluginRests ==
  ASSUME PluginInv, UNCHANGED <<now, entries, order, used, owner, changes, lastHad, runs>>
  PROVE  PluginInv'
<1>1. CacheInv' /\ EntryInv' BY SameCache, EntriesStay
<1>2. GatewayInv' BY DEF PluginInv, GatewayInv
<1>3. ASSUME NEW w \in Invokers PROVE RunInv(runs[w])'
  <2>1. RunInv(runs[w]) BY DEF PluginInv
  <2> QED BY <2>1 DEF RunInv, HadSince, HadLately
<1> QED BY <1>1, <1>2, <1>3 DEF PluginInv

(* The invariant gives the properties of the run. *)
LEMMA PluginImplies == ASSUME PluginInv PROVE P!TypeOK /\ P!OrderIsLru /\ P!AttributionIsRecent
<1>1. P!CacheTypeOK /\ P!OrderIsLru BY CacheShown DEF PluginInv
<1>2. changes \in 0 .. MaxChanges /\ owner \in [P!LiteKeys -> P!Owners] /\ runs \in [Invokers -> P!Runs]
  BY PluginNumbers DEF PluginInv, GatewayInv
<1>3. lastHad \in [P!LiteKeys -> [P!Owners -> {P!Never} \cup 0 .. PluginTime]]
  <2>0. now \in Nat /\ now <= PluginTime BY DEF PluginInv, CacheInv
  <2>1. lastHad \in [P!LiteKeys -> [P!Owners -> Int]] BY DEF PluginInv, GatewayInv
  <2>2. \A k \in P!LiteKeys, u \in P!Owners : lastHad[k][u] \in {P!Never} \cup 0 .. PluginTime
    <3> TAKE k \in P!LiteKeys, u \in P!Owners
    <3>1. lastHad[k][u] \in Int /\ lastHad[k][u] >= -1 /\ lastHad[k][u] <= now BY DEF PluginInv, GatewayInv
    <3> QED BY <2>0, <3>1, PluginNumbers DEF P!Never
  <2>3. \A k \in P!LiteKeys : lastHad[k] \in [P!Owners -> {P!Never} \cup 0 .. PluginTime] BY <2>1, <2>2
  <2> QED BY <2>1, <2>3
<1>4. P!AttributionIsRecent BY DEF PluginInv, RunInv, EntryInv, P!AttributionIsRecent
<1> QED BY <1>1, <1>2, <1>3, <1>4 DEF P!TypeOK

(* The inductive invariant of the plugin and its cache (lib.rs,            *)
(* on_request_start; cache.rs, get and put), as a component of its own.    *)
THEOREM IdentityInvariant == P!Spec => []PluginInv
<1>1. PluginInv /\ [P!Next]_P!vars => PluginInv'
  BY PluginNext, PluginRests DEF P!vars, P!cacheVars, P!gatewayVars
<1> QED BY <1>1, PluginInit, PTL DEF P!Spec

PluginArea == area = "plugin" => PluginInv

(* The component as one of the areas of MCSpec. *)
LEMMA PluginInMC == MCSpec => []PluginArea
<1>1. MCInit => PluginArea BY PluginInit DEF MCInit, PluginArea
<1>2. PluginArea /\ [MCNext]_allVars => PluginArea'
  <2> SUFFICES ASSUME PluginArea, [MCNext]_allVars PROVE PluginArea' OBVIOUS
  <2>1. area' = area BY DEF MCNext, SessionStep, LoginStep, PluginStep, allVars
  <2>2. CASE area # "plugin" BY <2>1, <2>2 DEF PluginArea
  <2>3. CASE area = "plugin" /\ P!Next BY <2>1, <2>3, PluginNext DEF PluginArea
  <2>4. CASE area = "plugin" /\ UNCHANGED allVars
    BY <2>1, <2>4, PluginRests DEF PluginArea, allVars, pluginVars
  <2> QED BY <2>2, <2>3, <2>4 DEF MCNext, SessionStep, LoginStep, PluginStep
<1> QED BY <1>1, <1>2, PTL DEF MCSpec

(* "Front is the least recently used key; mirrors `entries` exactly"       *)
(* (cache.rs:41): for every capacity and lifetime, any number of keys and  *)
(* of workers, through hits, expiries, evictions and overwrites.           *)
THEOREM CacheOrderIsLru == MCSpec => []OrderIsLru
<1>1. PluginArea => OrderIsLru BY PluginImplies DEF PluginArea, OrderIsLru
<1> QED BY <1>1, PluginInMC, PTL

(* A trace is attributed to a user who had its key within the lifetime of  *)
(* an entry and two timeouts, and only full resolutions are cached         *)
(* (lib.rs:34): for every lifetime and timeout, any number of workers,     *)
(* users and keys, however invocations overlap with changes at the         *)
(* gateway.                                                                *)
THEOREM AttributionsAreRecent == MCSpec => []AttributionIsRecent
<1>1. PluginArea => AttributionIsRecent BY PluginImplies DEF PluginArea, AttributionIsRecent
<1> QED BY <1>1, PluginInMC, PTL
=============================================================================
