-------------------------- MODULE AuthSessionsProofs --------------------------
(***************************************************************************)
(* What registrations and logouts promise, for any number of tabs, e-mail  *)
(* addresses and requests, and any losses, expiries and reloads.           *)
(*                                                                         *)
(* An open registration is the only one for its address, which has no      *)
(* account yet: that is what its commit relies on.  Tokens are not given   *)
(* out twice, because a session that ends stays a row: that is why a token *)
(* once dead cannot come alive in another row.  And a token whose answer   *)
(* has not arrived is known to nobody: no cookie holds it, so no logout    *)
(* can have ended it before the browser gets it.                           *)
(***************************************************************************)
EXTENDS AuthSessions, FiniteSetTheorems, TLAPS

-----------------------------------------------------------------------------
(***************************************************************************)
(* The inductive invariant.                                                *)
(***************************************************************************)

\* A request keeps its identifier, operation and address, and has no result
\* while nobody has looked at it.
Request(q) ==
    /\ DOMAIN q = {"id", "tab", "op", "email", "good", "cookie", "phase", "session", "result"}
    /\ q.id \in Nat /\ q.id < sent
    /\ q.phase \in {"sent", "open", "done"}
    /\ q.phase = "sent" => q.result = "none"

Registering(q) == q.op = "register" /\ q.phase = "open"

\* An open registration is alone with its address.
Alone ==
    /\ \A q, r \in requests : Registering(q) /\ Registering(r) /\ q.email = r.email => q = r
    /\ \A q \in requests : Registering(q) => q.email \notin accounts

\* The tokens are numbers of rows, each used once.
Tokens ==
    /\ IsFiniteSet(sessions)
    /\ \A s \in sessions : /\ DOMAIN s = {"token", "user", "live"}
                           /\ s.token \in Nat /\ s.token <= Cardinality(sessions)
    /\ \A s, t \in sessions : s.token = t.token => s = t

AuthInv ==
    /\ sent \in Nat
    /\ \A q \in requests : Request(q)
    /\ \A q, r \in requests : q.id = r.id => q = r
    /\ Alone
    /\ Tokens

\* There are no accounts and no sessions at first.
LEMMA InitAuthInv == Init => AuthInv
  BY FS_EmptySet DEF Init, AuthInv, Alone, Tokens

-----------------------------------------------------------------------------
(***************************************************************************)
(* Sessions.                                                               *)
(***************************************************************************)

\* Rows that are rewritten under their tokens are as many as before.
LEMMA SameRows ==
    ASSUME NEW S, NEW T, IsFiniteSet(S),
           \A s, t \in S : s.token = t.token => s = t,
           \A s, t \in T : s.token = t.token => s = t,
           \A s \in S : \E t \in T : t.token = s.token,
           \A t \in T : \E s \in S : t.token = s.token
    PROVE  IsFiniteSet(T) /\ Cardinality(T) = Cardinality(S)
  <1> DEFINE f == [s \in S |-> CHOOSE t \in T : t.token = s.token]
  <1>1. \A s \in S : f[s] \in T /\ f[s].token = s.token
    OBVIOUS
  <1>2. f \in [S -> T]
    BY <1>1
  <1> HIDE DEF f
  <1>3. f \in Injection(S, T)
    BY <1>1, <1>2 DEF Injection, IsInjective
  <1>4. f \in Surjection(S, T)
    <2>1. ASSUME NEW t \in T PROVE \E s \in S : f[s] = t
      <3>1. PICK s \in S : t.token = s.token
        OBVIOUS
      <3>2. f[s] = t
        BY <1>1, <3>1
      <3>3. QED
        BY <3>2
    <2>2. QED
      BY <1>2, <2>1 DEF Surjection
  <1>5. ExistsBijection(S, T)
    BY <1>3, <1>4 DEF ExistsBijection, Bijection
  <1>6. QED
    BY <1>5, FS_Bijection

\* A session that ends keeps its row and its token.
LEMMA EndedTokens ==
    ASSUME Tokens, NEW D \in SUBSET sessions,
           sessions' = {IF s \in D THEN [s EXCEPT !.live = FALSE] ELSE s : s \in sessions}
    PROVE  Tokens' /\ Cardinality(sessions') = Cardinality(sessions)
  <1> DEFINE E(s) == IF s \in D THEN [s EXCEPT !.live = FALSE] ELSE s
  <1>1. \A s \in sessions : DOMAIN E(s) = {"token", "user", "live"} /\ E(s).token = s.token
    BY DEF Tokens
  <1>2. /\ \A t \in sessions' : \E s \in sessions : t = E(s)
        /\ \A s \in sessions : E(s) \in sessions'
    OBVIOUS
  <1> HIDE DEF E
  <1>3. /\ \A s \in sessions : \E t \in sessions' : t.token = s.token
        /\ \A t \in sessions' : \E s \in sessions : t.token = s.token
    BY <1>1, <1>2
  <1>4. \A s, t \in sessions' : s.token = t.token => s = t
    BY <1>1, <1>2 DEF Tokens
  <1>5. IsFiniteSet(sessions') /\ Cardinality(sessions') = Cardinality(sessions)
    <2>1. IsFiniteSet(sessions) /\ \A s, t \in sessions : s.token = t.token => s = t
      BY DEF Tokens
    <2>2. QED
      BY <1>3, <1>4, <2>1, SameRows
  <1>6. \A t \in sessions' : /\ DOMAIN t = {"token", "user", "live"}
                             /\ t.token \in Nat /\ t.token <= Cardinality(sessions')
    <2>1. ASSUME NEW t \in sessions'
          PROVE  /\ DOMAIN t = {"token", "user", "live"}
                 /\ t.token \in Nat /\ t.token <= Cardinality(sessions')
      <3>1. PICK s \in sessions : t = E(s)
        BY <1>2
      <3>2. s.token \in Nat /\ s.token <= Cardinality(sessions)
        BY DEF Tokens
      <3>3. QED
        BY <1>1, <1>5, <3>1, <3>2
    <2>2. QED
      BY <2>1
  <1>7. QED
    BY <1>4, <1>5, <1>6 DEF Tokens

\* A new session has a token that none had.
LEMMA IssuedTokens ==
    ASSUME Tokens, NEW user,
           sessions' = sessions \union {[token |-> Token, user |-> user, live |-> TRUE]}
    PROVE  Tokens' /\ Cardinality(sessions') = Cardinality(sessions) + 1
  <1> DEFINE new == [token |-> Token, user |-> user, live |-> TRUE]
  <1>1. DOMAIN new = {"token", "user", "live"} /\ new.token = Cardinality(sessions) + 1
    BY DEF Token
  <1>2. IsFiniteSet(sessions) /\ Cardinality(sessions) \in Nat
    BY FS_CardinalityType DEF Tokens
  <1>3. sessions' = sessions \union {new}
    OBVIOUS
  <1> HIDE DEF new
  <1>4. \A s \in sessions : s.token \in Nat /\ s.token <= Cardinality(sessions)
    BY DEF Tokens
  <1>5. new \notin sessions
    BY <1>1, <1>2, <1>4
  <1>6. IsFiniteSet(sessions') /\ Cardinality(sessions') = Cardinality(sessions) + 1
    BY <1>2, <1>3, <1>5, FS_AddElement
  <1>7. \A s \in sessions' : /\ DOMAIN s = {"token", "user", "live"}
                             /\ s.token \in Nat /\ s.token <= Cardinality(sessions')
    BY <1>1, <1>2, <1>3, <1>4, <1>6 DEF Tokens
  <1>8. \A s, t \in sessions' : s.token = t.token => s = t
    BY <1>1, <1>2, <1>3, <1>4 DEF Tokens
  <1>9. QED
    BY <1>6, <1>7, <1>8 DEF Tokens

-----------------------------------------------------------------------------
(***************************************************************************)
(* Requests.                                                               *)
(***************************************************************************)

\* A request is sent under an identifier of its own.
LEMMA SendStep ==
    ASSUME AuthInv, NEW t, NEW op, NEW email, NEW good, Sends(t, op, email, good),
           UNCHANGED <<accounts, sessions>>
    PROVE  AuthInv'
  <1> DEFINE new == Call(t, op, email, good)
  <1>1. sent \in Nat /\ sent' = sent + 1 /\ requests' = requests \union {new}
    BY DEF Sends, AuthInv
  <1>2. /\ DOMAIN new = {"id", "tab", "op", "email", "good", "cookie", "phase", "session", "result"}
        /\ new.id = sent /\ new.phase = "sent" /\ new.result = "none"
    BY DEF Call
  <1> HIDE DEF new
  <1>3. \A q \in requests : Request(q)
    BY DEF AuthInv
  <1>4. \A q \in requests' : Request(q)'
    BY <1>1, <1>2, <1>3 DEF Request
  <1>5. \A q, r \in requests' : q.id = r.id => q = r
    BY <1>1, <1>2, <1>3 DEF AuthInv, Request
  <1>6. Alone'
    BY <1>1, <1>2 DEF AuthInv, Alone, Registering
  <1>7. Tokens'
    BY DEF AuthInv, Tokens
  <1>8. QED
    BY <1>1, <1>4, <1>5, <1>6, <1>7 DEF AuthInv

\* A request is handled: it becomes r.
LEMMA HandledStep ==
    ASSUME AuthInv, NEW q \in requests, NEW r, Step(q, r), sent' = sent, Tokens',
           Request(r), r.id = q.id, r.phase # "sent",
           \/ accounts' = accounts
           \/ Registering(q) /\ ~Registering(r) /\ accounts' = accounts \union {q.email},
           Registering(r) => /\ r.email \notin accounts
                             /\ accounts' = accounts
                             /\ \A p \in requests : Registering(p) => p.email # r.email
    PROVE  AuthInv'
  <1>1. requests' = (requests \ {q}) \union {r} /\ sent' \in Nat
    BY DEF Step, AuthInv
  <1>2. \A p \in requests' : Request(p)'
    BY <1>1 DEF AuthInv, Request
  <1>3. \A p, o \in requests' : p.id = o.id => p = o
    BY <1>1 DEF AuthInv
  <1>4. Alone'
    <2>1. \A p, o \in requests' : Registering(p) /\ Registering(o) /\ p.email = o.email => p = o
      BY <1>1 DEF AuthInv, Alone
    <2>2. \A p \in requests' : Registering(p) => p.email \notin accounts'
      BY <1>1 DEF AuthInv, Alone
    <2>3. QED
      BY <2>1, <2>2 DEF Alone, Registering
  <1>5. QED
    BY <1>1, <1>2, <1>3, <1>4 DEF AuthInv

\* The server's steps: one request is taken on.
LEMMA ServeStep == ASSUME AuthInv, NEW q \in requests, Serve(q) PROVE AuthInv'
  <1>0. Request(q) /\ Alone /\ Tokens /\ UNCHANGED <<jar, tab, bounds>>
    BY DEF AuthInv, Serve, RegisterInsert, RegisterCommit, LoginRead, LoginIssue, Authenticate, Finish
  <1>1. sent' = sent
    BY <1>0 DEF bounds
  <1>2. ASSUME UNCHANGED serverVars PROVE Tokens' /\ accounts' = accounts
    BY <1>0, <1>2 DEF serverVars, Tokens
  <1>3. CASE RegisterInsert(q)
    <2>1. accounts' = accounts /\ Tokens'
      BY <1>2, <1>3 DEF RegisterInsert
    <2>2. CASE q.email \in accounts
      <3> DEFINE r == [q EXCEPT !.phase = "done", !.result = "email_already_registered"]
      <3>1. Step(q, r)
        BY <1>3, <2>2 DEF RegisterInsert, Refuse
      <3>2. Request(r) /\ r.id = q.id /\ r.phase = "done"
        BY <1>0 DEF Request
      <3> HIDE DEF r
      <3>3. ~Registering(r)
        BY <3>2 DEF Registering
      <3>4. QED
        BY <1>1, <2>1, <3>1, <3>2, <3>3, HandledStep
    <2>3. CASE q.email \notin accounts
      <3> DEFINE r == [q EXCEPT !.phase = "open"]
      <3>1. Step(q, r) /\ \A p \in requests : Registering(p) => p.email # q.email
        BY <1>3, <2>3 DEF RegisterInsert, Registering
      <3>2. Request(r) /\ r.id = q.id /\ r.phase = "open" /\ r.op = q.op /\ r.email = q.email
        BY <1>0 DEF Request
      <3> HIDE DEF r
      <3>3. QED
        BY <1>1, <2>1, <2>3, <3>1, <3>2, HandledStep
    <2>4. QED
      BY <2>2, <2>3
  <1>4. CASE RegisterCommit(q)
    <2> DEFINE r == [q EXCEPT !.phase = "done", !.result = "ok", !.session = Token]
    <2>1. /\ Registering(q) /\ accounts' = accounts \union {q.email} /\ Step(q, r)
          /\ sessions' = sessions \union {[token |-> Token, user |-> q.email, live |-> TRUE]}
      BY <1>4 DEF RegisterCommit, Issue, Registering
    <2>2. Request(r) /\ r.id = q.id /\ r.phase = "done"
      BY <1>0 DEF Request
    <2> HIDE DEF r
    <2>3. Tokens'
      BY <1>0, <2>1, IssuedTokens
    <2>4. ~Registering(r)
      BY <2>2 DEF Registering
    <2>5. QED
      BY <1>1, <2>1, <2>2, <2>3, <2>4, HandledStep
  <1>5. CASE LoginRead(q)
    <2>1. accounts' = accounts /\ Tokens' /\ q.op = "login"
      BY <1>2, <1>5 DEF LoginRead
    <2>2. PICK r \in {[q EXCEPT !.phase = "open"], [q EXCEPT !.phase = "done", !.result = "invalid_credentials"]} :
             Step(q, r)
      BY <1>5 DEF LoginRead, Refuse
    <2>3. Request(r) /\ r.id = q.id /\ r.phase # "sent" /\ r.op = "login"
      BY <1>0, <2>1, <2>2 DEF Request
    <2>4. ~Registering(r)
      BY <2>3 DEF Registering
    <2>5. QED
      BY <1>1, <2>1, <2>2, <2>3, <2>4, HandledStep
  <1>6. CASE LoginIssue(q)
    <2> DEFINE r == [q EXCEPT !.phase = "done", !.result = "ok", !.session = Token]
    <2>1. /\ accounts' = accounts /\ Step(q, r)
          /\ sessions' = sessions \union {[token |-> Token, user |-> q.email, live |-> TRUE]}
      BY <1>6 DEF LoginIssue, Issue
    <2>2. Request(r) /\ r.id = q.id /\ r.phase = "done"
      BY <1>0 DEF Request
    <2> HIDE DEF r
    <2>3. Tokens'
      BY <1>0, <2>1, IssuedTokens
    <2>4. ~Registering(r)
      BY <2>2 DEF Registering
    <2>5. QED
      BY <1>1, <2>1, <2>2, <2>3, <2>4, HandledStep
  <1>7. CASE Authenticate(q)
    <2>1. accounts' = accounts /\ Tokens' /\ q.op \in {"session", "logout", "work"}
      BY <1>2, <1>7 DEF Authenticate
    <2>2. PICK r \in {[q EXCEPT !.phase = "done", !.result = "authentication_required"],
                      [q EXCEPT !.phase = "done", !.result = "ok", !.email = UserOf(q.cookie)],
                      [q EXCEPT !.phase = "open", !.email = UserOf(q.cookie)]} : Step(q, r)
      BY <1>7 DEF Authenticate, Refuse
    <2>3. Request(r) /\ r.id = q.id /\ r.phase # "sent" /\ r.op = q.op
      BY <1>0, <2>2 DEF Request
    <2>4. ~Registering(r)
      BY <2>1, <2>3 DEF Registering
    <2>5. QED
      BY <1>1, <2>1, <2>2, <2>3, <2>4, HandledStep
  <1>8. CASE Finish(q)
    <2> DEFINE r == [q EXCEPT !.phase = "done", !.result = "ok"]
               D == {s \in sessions : q.op = "logout" /\ s.token = q.cookie}
    <2>1. accounts' = accounts /\ Step(q, r) /\ q.op \in {"logout", "work"}
      BY <1>8 DEF Finish
    <2>2. Request(r) /\ r.id = q.id /\ r.phase = "done"
      BY <1>0 DEF Request
    <2> HIDE DEF r
    <2>3. Tokens'
      <3>1. CASE q.op = "work"
        BY <1>0, <1>8, <3>1 DEF Finish, Tokens
      <3>2. CASE q.op = "logout"
        <4>1. sessions' = {IF s.token = q.cookie THEN [s EXCEPT !.live = FALSE] ELSE s : s \in sessions}
          BY <1>8, <3>2 DEF Finish
        <4>2. sessions' = {IF s \in D THEN [s EXCEPT !.live = FALSE] ELSE s : s \in sessions}
          BY <3>2, <4>1
        <4>3. D \in SUBSET sessions
          OBVIOUS
        <4> HIDE DEF D
        <4>4. QED
          BY <1>0, <4>2, <4>3, EndedTokens
      <3>3. QED
        BY <2>1, <3>1, <3>2
    <2>4. ~Registering(r)
      BY <2>2 DEF Registering
    <2>5. QED
      BY <1>1, <2>1, <2>2, <2>3, <2>4, HandledStep
  <1>9. QED
    BY <1>3, <1>4, <1>5, <1>6, <1>7, <1>8 DEF Serve

\* A page is reloaded: its requests belong to no tab any more.
LEMMA ReloadStep == ASSUME AuthInv, NEW t \in Tabs, Reload(t) PROVE AuthInv'
  <1> DEFINE F(q) == IF q.tab = t THEN [q EXCEPT !.tab = None] ELSE q
  <1>1. requests' = {F(q) : q \in requests} /\ UNCHANGED <<accounts, sessions, sent>>
    BY DEF Reload, serverVars
  <1>2. \A q \in requests : /\ Request(F(q)) /\ F(q).id = q.id /\ F(q).op = q.op
                            /\ F(q).phase = q.phase /\ F(q).email = q.email
    BY DEF AuthInv, Request
  <1>3. \A r \in requests' : \E q \in requests : r = F(q)
    BY <1>1
  <1> HIDE DEF F
  <1>4. \A r \in requests' : Request(r)'
    BY <1>1, <1>2, <1>3 DEF Request
  <1>5. \A r, o \in requests' : r.id = o.id => r = o
    BY <1>2, <1>3 DEF AuthInv
  <1>6. Alone'
    <2>1. \A q \in requests : Registering(F(q)) => Registering(q)
      BY <1>2 DEF Registering
    <2>2. \A r, o \in requests' : Registering(r) /\ Registering(o) /\ r.email = o.email => r = o
      BY <1>2, <1>3, <2>1 DEF AuthInv, Alone
    <2>3. \A r \in requests' : Registering(r) => r.email \notin accounts'
      BY <1>1, <1>2, <1>3, <2>1 DEF AuthInv, Alone
    <2>4. QED
      BY <2>2, <2>3 DEF Alone, Registering
  <1>7. Tokens' /\ sent' \in Nat
    BY <1>1 DEF AuthInv, Tokens
  <1>8. QED
    BY <1>4, <1>5, <1>6, <1>7 DEF AuthInv

\* An answer arrives or is lost, and nothing else of the server changes.
LEMMA FewerStep ==
    ASSUME AuthInv, requests' \subseteq requests, UNCHANGED <<accounts, sessions, sent>> PROVE AuthInv'
  BY DEF AuthInv, Request, Alone, Registering, Tokens

\* A session expires.
LEMMA ExpireStep == ASSUME AuthInv, NEW s \in sessions, Expire(s) PROVE AuthInv'
  <1>1. UNCHANGED <<accounts, requests, sent>>
        /\ sessions' = (sessions \ {s}) \union {[s EXCEPT !.live = FALSE]}
    BY DEF Expire
  <1>2. sessions' = {IF t \in {s} THEN [t EXCEPT !.live = FALSE] ELSE t : t \in sessions}
    BY <1>1
  <1>3. Tokens'
    <2>1. {s} \in SUBSET sessions
      OBVIOUS
    <2>2. QED
      BY <1>2, <2>1, EndedTokens DEF AuthInv
  <1>4. QED
    BY <1>1, <1>3 DEF AuthInv, Request, Alone, Registering

-----------------------------------------------------------------------------
(***************************************************************************)
(* The theorems.                                                           *)
(***************************************************************************)

\* The steps, told apart by what they do to the requests.
LEMMA Kinds ==
    ASSUME Next
    PROVE  \/ (\E t, op, email, good : Sends(t, op, email, good)) /\ UNCHANGED <<accounts, sessions>>
           \/ \E t \in Tabs : Reload(t)
           \/ \E q \in requests : Serve(q)
           \/ requests' \subseteq requests /\ UNCHANGED <<accounts, sessions, sent>>
           \/ \E s \in sessions : Expire(s)
  <1>1. ASSUME NEW t \in Tabs, OpenTab(t)
        PROVE  (\E u, op, email, good : Sends(u, op, email, good)) /\ UNCHANGED <<accounts, sessions>>
    BY <1>1 DEF OpenTab, serverVars
  <1>2. ASSUME NEW t \in Tabs, NEW e, NEW o, NEW g, Submit(t, e, o, g)
        PROVE  (\E u, op, email, good : Sends(u, op, email, good)) /\ UNCHANGED <<accounts, sessions>>
    BY <1>2 DEF Submit, serverVars
  <1>3. ASSUME NEW t \in Tabs, NEW o, Use(t, o)
        PROVE  (\E u, op, email, good : Sends(u, op, email, good)) /\ UNCHANGED <<accounts, sessions>>
    BY <1>3 DEF Use, serverVars
  <1>4. ASSUME NEW q \in requests, Deliver(q) \/ Lose(q)
        PROVE  requests' \subseteq requests /\ UNCHANGED <<accounts, sessions, sent>>
    BY <1>4 DEF Deliver, Lose, serverVars, bounds
  <1>5. QED
    BY <1>1, <1>2, <1>3, <1>4 DEF Next

\* Every step keeps the invariant.
LEMMA NextAuthInv == AuthInv /\ [Next]_vars => AuthInv'
  <1> SUFFICES ASSUME AuthInv, [Next]_vars PROVE AuthInv'
    OBVIOUS
  <1>1. CASE UNCHANGED vars
    BY <1>1, FewerStep DEF vars, serverVars, bounds
  <1>2. CASE Next
    BY <1>2, Kinds, SendStep, ReloadStep, ServeStep, FewerStep, ExpireStep
  <1>3. QED
    BY <1>1, <1>2

\* The invariant holds in every state of the browser and the server.
THEOREM AuthInvariant == Spec => []AuthInv
  <1>1. QED
    BY InitAuthInv, NextAuthInv, PTL DEF Spec

\* A request that is handled keeps its identifier.
LEMMA ServedKeepsId ==
    ASSUME NEW q, Request(q), Serve(q) PROVE \E r : Step(q, r) /\ r.id = q.id
  <1>1. /\ [q EXCEPT !.phase = "open"].id = q.id
        /\ \A e : [q EXCEPT !.phase = "open", !.email = e].id = q.id
        /\ \A c : [q EXCEPT !.phase = "done", !.result = c].id = q.id
        /\ \A c, e : [q EXCEPT !.phase = "done", !.result = c, !.email = e].id = q.id
        /\ \A c, t : [q EXCEPT !.phase = "done", !.result = c, !.session = t].id = q.id
    BY DEF Request
  <1>2. \/ Step(q, [q EXCEPT !.phase = "open"])
        \/ \E e : Step(q, [q EXCEPT !.phase = "open", !.email = e])
        \/ \E c : Step(q, [q EXCEPT !.phase = "done", !.result = c])
        \/ \E c, e : Step(q, [q EXCEPT !.phase = "done", !.result = c, !.email = e])
        \/ \E c, t : Step(q, [q EXCEPT !.phase = "done", !.result = c, !.session = t])
    BY Zenon DEF Serve, RegisterInsert, RegisterCommit, LoginRead, LoginIssue, Authenticate, Finish,
       Refuse, Issue
  <1>3. ASSUME Step(q, [q EXCEPT !.phase = "open"]) PROVE \E r : Step(q, r) /\ r.id = q.id
    BY <1>1, <1>3, Zenon
  <1>4. ASSUME NEW e, Step(q, [q EXCEPT !.phase = "open", !.email = e])
        PROVE  \E r : Step(q, r) /\ r.id = q.id
    <2> DEFINE x == [q EXCEPT !.phase = "open", !.email = e]
    <2>1. Step(q, x) /\ x.id = q.id
      BY <1>1, <1>4
    <2> HIDE DEF x
    <2>2. QED
      BY <2>1, Zenon
  <1>5. ASSUME NEW c, Step(q, [q EXCEPT !.phase = "done", !.result = c])
        PROVE  \E r : Step(q, r) /\ r.id = q.id
    <2> DEFINE x == [q EXCEPT !.phase = "done", !.result = c]
    <2>1. Step(q, x) /\ x.id = q.id
      BY <1>1, <1>5
    <2> HIDE DEF x
    <2>2. QED
      BY <2>1, Zenon
  <1>6. ASSUME NEW c, NEW e, Step(q, [q EXCEPT !.phase = "done", !.result = c, !.email = e])
        PROVE  \E r : Step(q, r) /\ r.id = q.id
    <2> DEFINE x == [q EXCEPT !.phase = "done", !.result = c, !.email = e]
    <2>1. Step(q, x) /\ x.id = q.id
      BY <1>1, <1>6
    <2> HIDE DEF x
    <2>2. QED
      BY <2>1, Zenon
  <1>7. ASSUME NEW c, NEW t, Step(q, [q EXCEPT !.phase = "done", !.result = c, !.session = t])
        PROVE  \E r : Step(q, r) /\ r.id = q.id
    <2> DEFINE x == [q EXCEPT !.phase = "done", !.result = c, !.session = t]
    <2>1. Step(q, x) /\ x.id = q.id
      BY <1>1, <1>7
    <2> HIDE DEF x
    <2>2. QED
      BY <2>1, Zenon
  <1>8. QED
    BY <1>2, <1>3, <1>4, <1>5, <1>6, <1>7, Zenon

\* A request stays as it is, or is handled.
LEMMA HandledOrNot ==
    ASSUME AuthInv, [Next]_vars, NEW q \in requests, NEW r \in requests', r.id = q.id
    PROVE  \/ r.phase = q.phase /\ r.result = q.result
           \/ Serve(q) /\ Step(q, r)
  <1>0. /\ sent \in Nat /\ Request(q) /\ \A p \in requests : Request(p)
        /\ \A p \in requests : p.id = q.id => p = q
    BY DEF AuthInv
  <1>1. CASE r \in requests
    BY <1>0, <1>1
  <1>2. CASE r \notin requests
    <2>1. ~(requests' \subseteq requests) /\ Next
      BY <1>2 DEF vars
    <2>2. ASSUME NEW t, NEW op, NEW email, NEW good, Sends(t, op, email, good) PROVE FALSE
      <3>1. r = Call(t, op, email, good)
        BY <1>2, <2>2 DEF Sends
      <3>2. r.id = sent
        BY <3>1 DEF Call
      <3>3. QED
        BY <1>0, <3>2 DEF Request
    <2>3. ASSUME NEW t \in Tabs, Reload(t) PROVE r.phase = q.phase /\ r.result = q.result
      <3>1. PICK p \in requests : r = IF p.tab = t THEN [p EXCEPT !.tab = None] ELSE p
        BY <2>3 DEF Reload
      <3>2. r = [p EXCEPT !.tab = None]
        BY <1>2, <3>1
      <3>3. r.id = p.id /\ r.phase = p.phase /\ r.result = p.result
        BY <1>0, <3>2 DEF Request
      <3>4. QED
        BY <1>0, <3>3
    <2>4. ASSUME NEW p \in requests, Serve(p) PROVE Serve(q) /\ Step(q, r)
      <3>1. PICK x : Step(p, x) /\ x.id = p.id
        BY <1>0, <2>4, ServedKeepsId
      <3>2. r = x
        BY <1>2, <3>1 DEF Step
      <3>3. p = q
        BY <1>0, <3>1, <3>2
      <3>4. QED
        BY <2>4, <3>1, <3>2, <3>3
    <2>5. ASSUME NEW s \in sessions, Expire(s) PROVE FALSE
      BY <2>1, <2>5 DEF Expire
    <2>6. QED
      BY <2>1, <2>2, <2>3, <2>4, <2>5, Kinds
  <1>3. QED
    BY <1>1, <1>2

\* Two registrations never both succeed for one address, and one is refused
\* only when the address has an account (the unique index of the users).
THEOREM AuthOneAccountPerEmail == Spec => OneAccountPerEmail
  <1> DEFINE P(q) ==
          q.op = "register" /\ q.phase # "done" /\ (\E r \in requests' : r.id = q.id /\ r.phase = "done") =>
             LET r == CHOOSE x \in requests' : x.id = q.id IN (r.result = "ok") <=> q.email \notin accounts
  <1>1. ASSUME AuthInv, AuthInv', [Next]_vars, NEW q \in requests PROVE P(q)
    <2> SUFFICES ASSUME q.op = "register", q.phase # "done",
                        NEW r \in requests', r.id = q.id, r.phase = "done"
                 PROVE  (r.result = "ok") <=> q.email \notin accounts
      <3>1. \A o, p \in requests' : o.id = p.id => o = p
        BY <1>1 DEF AuthInv
      <3>2. ASSUME NEW r \in requests', r.id = q.id PROVE (CHOOSE x \in requests' : x.id = q.id) = r
        BY <3>1, <3>2
      <3>3. QED
        BY <3>2
    <2>1. Serve(q) /\ Step(q, r) /\ Request(q)
      BY <1>1, HandledOrNot DEF AuthInv
    <2>2. r \notin requests
      BY <1>1 DEF AuthInv
    <2>3. RegisterInsert(q) \/ RegisterCommit(q)
      BY <2>1 DEF Serve, LoginRead, LoginIssue, Authenticate, Finish
    <2>4. CASE RegisterInsert(q)
      <3>1. CASE q.email \in accounts
        <4> DEFINE x == [q EXCEPT !.phase = "done", !.result = "email_already_registered"]
        <4>1. Step(q, x)
          BY <2>4, <3>1 DEF RegisterInsert, Refuse
        <4>2. x.result = "email_already_registered"
          BY <2>1 DEF Request
        <4> HIDE DEF x
        <4>3. r = x
          BY <2>2, <4>1 DEF Step
        <4>4. QED
          BY <3>1, <4>2, <4>3
      <3>2. CASE q.email \notin accounts
        <4> DEFINE x == [q EXCEPT !.phase = "open"]
        <4>1. Step(q, x)
          BY <2>4, <3>2 DEF RegisterInsert
        <4>2. x.phase = "open"
          BY <2>1 DEF Request
        <4> HIDE DEF x
        <4>3. r = x
          BY <2>2, <4>1 DEF Step
        <4>4. QED
          BY <4>2, <4>3
      <3>3. QED
        BY <3>1, <3>2
    <2>5. CASE RegisterCommit(q)
      <3> DEFINE x == [q EXCEPT !.phase = "done", !.result = "ok", !.session = Token]
      <3>1. Step(q, x) /\ Registering(q)
        BY <2>5 DEF RegisterCommit, Issue, Registering
      <3>2. x.result = "ok"
        BY <2>1 DEF Request
      <3> HIDE DEF x
      <3>3. r = x
        BY <2>2, <3>1 DEF Step
      <3>4. q.email \notin accounts
        BY <1>1, <3>1 DEF AuthInv, Alone
      <3>5. QED
        BY <3>2, <3>3, <3>4
    <2>6. QED
      BY <2>3, <2>4, <2>5
  <1>2. AuthInv /\ AuthInv' /\ [Next]_vars => [\A q \in requests : P(q)]_vars
    BY <1>1
  <1>3. OneAccountPerEmail <=> [][\A q \in requests : P(q)]_vars
    BY DEF OneAccountPerEmail
  <1> HIDE DEF P
  <1>4. QED
    BY <1>2, <1>3, AuthInvariant, PTL DEF Spec

-----------------------------------------------------------------------------
(***************************************************************************)
(* Cookies.                                                                *)
(***************************************************************************)
Given(token) == token \in Nat /\ token <= Cardinality(sessions)

\* An answer with cookies that the browser does not have yet.
Answering(q) == q.op \in {"register", "login"} /\ q.phase = "done" /\ q.result = "ok"

\* A token whose answer is under way is nobody's cookie.
Secret(q) ==
    /\ Given(q.session) /\ q.session # jar /\ q.session \notin loggedOut
    /\ \A r \in requests : r.cookie # q.session
    /\ \A r \in requests : Answering(r) /\ r.session = q.session => r = q

CookieInv ==
    /\ jar = None \/ Given(jar)
    /\ \A q \in requests : q.cookie = None \/ Given(q.cookie)
    /\ \A q \in requests : Answering(q) => Secret(q)
    /\ \A q \in requests : q.op = "logout" /\ q.phase = "open" => \E s \in sessions : s.token = q.cookie
    /\ \A token \in loggedOut : \E s \in sessions : s.token = token /\ ~s.live

\* There are no cookies at first.
LEMMA InitCookieInv == Init => CookieInv
  BY DEF Init, CookieInv

\* The rows of the sessions only become more, and none comes alive.
LEMMA SessionsGrow ==
    ASSUME AuthInv, [Next]_vars
    PROVE  /\ Cardinality(sessions) \in Nat /\ Cardinality(sessions') \in Nat
           /\ Cardinality(sessions) <= Cardinality(sessions')
           /\ \A s \in sessions : \E t \in sessions' : t.token = s.token /\ (~s.live => ~t.live)
  <1>0. Tokens /\ Tokens' /\ Cardinality(sessions) \in Nat /\ Cardinality(sessions') \in Nat
    <2>1. Tokens /\ Tokens'
      BY NextAuthInv DEF AuthInv
    <2>2. QED
      BY <2>1, FS_CardinalityType DEF Tokens
  <1>1. CASE sessions' = sessions
    BY <1>0, <1>1
  <1>2. ASSUME NEW user, sessions' = sessions \union {[token |-> Token, user |-> user, live |-> TRUE]}
        PROVE  /\ Cardinality(sessions) <= Cardinality(sessions')
               /\ \A s \in sessions : \E t \in sessions' : t.token = s.token /\ (~s.live => ~t.live)
    <2>1. Cardinality(sessions') = Cardinality(sessions) + 1
      BY <1>0, <1>2, IssuedTokens
    <2>2. sessions \subseteq sessions'
      BY <1>2
    <2>3. QED
      BY <1>0, <2>1, <2>2
  <1>3. ASSUME NEW D \in SUBSET sessions,
               sessions' = {IF s \in D THEN [s EXCEPT !.live = FALSE] ELSE s : s \in sessions}
        PROVE  /\ Cardinality(sessions) <= Cardinality(sessions')
               /\ \A s \in sessions : \E t \in sessions' : t.token = s.token /\ (~s.live => ~t.live)
    <2>1. Cardinality(sessions') = Cardinality(sessions)
      BY <1>0, <1>3, EndedTokens
    <2>2. ASSUME NEW s \in sessions PROVE \E t \in sessions' : t.token = s.token /\ (~s.live => ~t.live)
      <3> DEFINE t == IF s \in D THEN [s EXCEPT !.live = FALSE] ELSE s
      <3>1. t \in sessions'
        BY <1>3
      <3>2. t.token = s.token /\ (~s.live => ~t.live)
        BY <1>0 DEF Tokens
      <3> HIDE DEF t
      <3>3. QED
        BY <3>1, <3>2
    <2>3. QED
      BY <1>0, <2>1, <2>2
  <1>4. \/ sessions' = sessions
        \/ \E user : sessions' = sessions \union {[token |-> Token, user |-> user, live |-> TRUE]}
        \/ \E D \in SUBSET sessions :
              sessions' = {IF s \in D THEN [s EXCEPT !.live = FALSE] ELSE s : s \in sessions}
    <2>1. CASE UNCHANGED vars
      BY <2>1 DEF vars, serverVars
    <2>2. ASSUME NEW q \in requests, Serve(q)
          PROVE \/ sessions' = sessions
                \/ \E user : sessions' = sessions \union {[token |-> Token, user |-> user, live |-> TRUE]}
                \/ \E D \in SUBSET sessions :
                      sessions' = {IF s \in D THEN [s EXCEPT !.live = FALSE] ELSE s : s \in sessions}
      <3>1. CASE RegisterCommit(q) \/ LoginIssue(q)
        BY <3>1 DEF RegisterCommit, LoginIssue, Issue
      <3>2. CASE Finish(q)
        <4> DEFINE D == {s \in sessions : s.token = q.cookie}
        <4>1. \/ sessions' = sessions
              \/ sessions' = {IF s \in D THEN [s EXCEPT !.live = FALSE] ELSE s : s \in sessions}
          BY <3>2 DEF Finish
        <4>2. D \in SUBSET sessions
          OBVIOUS
        <4> HIDE DEF D
        <4>3. QED
          BY <4>1, <4>2
      <3>3. CASE RegisterInsert(q) \/ LoginRead(q) \/ Authenticate(q)
        BY <3>3 DEF RegisterInsert, LoginRead, Authenticate, serverVars
      <3>4. QED
        BY <2>2, <3>1, <3>2, <3>3 DEF Serve
    <2>3. ASSUME NEW s \in sessions, Expire(s)
          PROVE \E D \in SUBSET sessions :
                   sessions' = {IF t \in D THEN [t EXCEPT !.live = FALSE] ELSE t : t \in sessions}
      <3>1. {s} \in SUBSET sessions /\ sessions' = (sessions \ {s}) \union {[s EXCEPT !.live = FALSE]}
        BY <2>3 DEF Expire
      <3>2. sessions' = {IF t \in {s} THEN [t EXCEPT !.live = FALSE] ELSE t : t \in sessions}
        BY <3>1
      <3>3. QED
        BY <3>1, <3>2
    <2>4. ASSUME NEW t \in Tabs, Reload(t) PROVE sessions' = sessions
      BY <2>4 DEF Reload, serverVars
    <2>5. QED
      BY <2>1, <2>2, <2>3, <2>4, Kinds
  <1>5. QED
    BY <1>0, <1>1, <1>2, <1>3, <1>4

\* A step that issues no session: requests go, come with the cookies of the
\* jar, or become others with their own; the jar may get what one of them
\* brought.
LEMMA CookiesKept ==
    ASSUME AuthInv, CookieInv, [Next]_vars,
           \A r \in requests' :
              \/ r.cookie = jar /\ ~Answering(r)
              \/ \E q \in requests : /\ r.cookie = q.cookie
                                     /\ Answering(r) => Answering(q) /\ r.session = q.session /\ r.id = q.id,
           \A r \in requests' : r.op = "logout" /\ r.phase = "open" => \E s \in sessions : s.token = r.cookie,
           \/ jar' \in {jar, None}
           \/ \E q \in requests : Answering(q) /\ jar' = q.session /\ \A r \in requests' : r.id # q.id,
           \A token \in loggedOut' :
              \/ token \in loggedOut
              \/ /\ \E q \in requests : q.cookie = token
                 /\ \E s \in sessions' : s.token = token /\ ~s.live
    PROVE  CookieInv'
  <1>0. /\ \A token : Given(token) => Given(token)' /\ token # None
        /\ \A q, r \in requests' : q.id = r.id => q = r
        /\ \A s \in sessions : \E t \in sessions' : t.token = s.token /\ (~s.live => ~t.live)
    BY SessionsGrow, NextAuthInv, AuthAssumption DEF Given, AuthInv
  <1>1. jar' = None \/ Given(jar)'
    BY <1>0 DEF CookieInv, Secret
  <1>2. \A r \in requests' : r.cookie = None \/ Given(r.cookie)'
    BY <1>0 DEF CookieInv
  <1>3. ASSUME NEW r \in requests', Answering(r) PROVE Secret(r)'
    <2>1. PICK q \in requests : /\ r.cookie = q.cookie /\ Answering(q)
                                /\ r.session = q.session /\ r.id = q.id
      BY <1>3
    <2>2. Secret(q)
      BY <2>1 DEF CookieInv
    <2>3. Given(r.session)' /\ r.session # jar'
      BY <1>0, <2>1, <2>2 DEF CookieInv, Secret
    <2>4. r.session \notin loggedOut'
      BY <2>1, <2>2 DEF Secret
    <2>5. \A o \in requests' : o.cookie # r.session
      BY <2>1, <2>2 DEF Secret
    <2>6. \A o \in requests' : Answering(o) /\ o.session = r.session => o = r
      <3>1. ASSUME NEW o \in requests', Answering(o), o.session = r.session PROVE o = r
        <4>1. PICK p \in requests : Answering(p) /\ o.session = p.session /\ o.id = p.id
          BY <3>1
        <4>2. p = q
          BY <2>1, <2>2, <3>1, <4>1 DEF Secret
        <4>3. QED
          BY <1>0, <2>1, <4>1, <4>2
      <3>2. QED
        BY <3>1
    <2>7. QED
      BY <2>3, <2>4, <2>5, <2>6 DEF Secret, Answering
  <1>4. \A r \in requests' : r.op = "logout" /\ r.phase = "open" => \E s \in sessions' : s.token = r.cookie
    BY <1>0
  <1>5. \A token \in loggedOut' : \E s \in sessions' : s.token = token /\ ~s.live
    <2>1. ASSUME NEW token \in loggedOut PROVE \E s \in sessions' : s.token = token /\ ~s.live
      <3>1. PICK s \in sessions : s.token = token /\ ~s.live
        BY DEF CookieInv
      <3>2. QED
        BY <1>0, <3>1
    <2>2. QED
      BY <2>1
  <1>6. QED
    BY <1>1, <1>2, <1>3, <1>4, <1>5 DEF CookieInv, Answering

\* A session is issued: its token is none that anyone has.
LEMMA CookiesIssued ==
    ASSUME AuthInv, CookieInv, [Next]_vars, NEW q \in requests, NEW email, Issue(q, email),
           q.op \in {"register", "login"}, UNCHANGED <<jar, loggedOut>>
    PROVE  CookieInv'
  <1>a. PICK k : k = Token
    OBVIOUS
  <1> DEFINE r == [q EXCEPT !.phase = "done", !.result = "ok", !.session = Token]
  <1>0. /\ \A token : Given(token) => Given(token)' /\ token # None /\ token # k
        /\ \A p, o \in requests' : p.id = o.id => p = o
        /\ \A s \in sessions : \E t \in sessions' : t.token = s.token /\ (~s.live => ~t.live)
        /\ Cardinality(sessions) \in Nat
    BY <1>a, SessionsGrow, NextAuthInv, AuthAssumption DEF Given, AuthInv, Token
  <1>1. Given(k)' /\ k # None
    <2>1. Cardinality(sessions') = Cardinality(sessions) + 1
      BY IssuedTokens DEF Issue, AuthInv
    <2>2. QED
      BY <1>a, <1>0, <2>1, AuthAssumption DEF Given, Token
  <1>2. /\ requests' = (requests \ {q}) \union {r}
        /\ r.cookie = q.cookie /\ r.session = k /\ r.op = q.op /\ r.id = q.id /\ r.phase = "done"
    BY <1>a DEF Issue, Step, AuthInv, Request
  <1> HIDE DEF r
  <1>3. jar' = None \/ Given(jar)'
    BY <1>0 DEF CookieInv
  <1>4. \A p \in requests' : p.cookie = None \/ Given(p.cookie)'
    BY <1>0, <1>2 DEF CookieInv
  <1>5. \A token \in loggedOut : Given(token)
    BY DEF CookieInv, AuthInv, Tokens, Given
  <1>6. ASSUME NEW p \in requests', Answering(p) PROVE Secret(p)'
    <2>1. CASE p = r
      <3>1. k # jar' /\ k \notin loggedOut'
        BY <1>0, <1>1, <1>5 DEF CookieInv
      <3>2. \A o \in requests' : o.cookie # k
        BY <1>0, <1>1, <1>2 DEF CookieInv
      <3>3. \A o \in requests' : Answering(o) /\ o.session = k => o = r
        BY <1>0, <1>2 DEF CookieInv, Secret
      <3>4. QED
        BY <1>1, <1>2, <2>1, <3>1, <3>2, <3>3 DEF Secret, Answering
    <2>2. CASE p # r
      <3>1. p \in requests /\ Secret(p)
        BY <1>2, <1>6, <2>2 DEF CookieInv
      <3>2. Given(p.session)' /\ p.session # jar' /\ p.session \notin loggedOut' /\ p.session # k
        BY <1>0, <3>1 DEF Secret
      <3>3. \A o \in requests' : o.cookie # p.session
        BY <1>2, <3>1 DEF Secret
      <3>4. \A o \in requests' : Answering(o) /\ o.session = p.session => o = p
        BY <1>2, <3>1, <3>2 DEF Secret
      <3>5. QED
        BY <3>2, <3>3, <3>4 DEF Secret, Answering
    <2>3. QED
      BY <2>1, <2>2
  <1>7. \A p \in requests' : p.op = "logout" /\ p.phase = "open" => \E s \in sessions' : s.token = p.cookie
    BY <1>0, <1>2 DEF CookieInv
  <1>8. \A token \in loggedOut' : \E s \in sessions' : s.token = token /\ ~s.live
    <2>1. ASSUME NEW token \in loggedOut PROVE \E s \in sessions' : s.token = token /\ ~s.live
      <3>1. PICK s \in sessions : s.token = token /\ ~s.live
        BY DEF CookieInv
      <3>2. QED
        BY <1>0, <3>1
    <2>2. QED
      BY <2>1
  <1>9. QED
    BY <1>3, <1>4, <1>6, <1>7, <1>8 DEF CookieInv, Answering

\* The server's steps.
LEMMA ServeCookies ==
    ASSUME AuthInv, CookieInv, [Next]_vars, NEW q \in requests, Serve(q) PROVE CookieInv'
  <1>0. Request(q) /\ UNCHANGED jar
    BY DEF AuthInv, Serve, RegisterInsert, RegisterCommit, LoginRead, LoginIssue, Authenticate, Finish
  <1>1. CASE RegisterCommit(q)
    BY <1>0, <1>1, CookiesIssued DEF RegisterCommit, Issue
  <1>2. CASE LoginIssue(q)
    BY <1>0, <1>2, CookiesIssued DEF LoginIssue, Issue
  <1>3. ASSUME NEW r, Step(q, r), r.cookie = q.cookie, ~Answering(r),
               r.op = "logout" /\ r.phase = "open" => \E s \in sessions : s.token = r.cookie,
               \A token \in loggedOut' :
                  \/ token \in loggedOut
                  \/ /\ \E p \in requests : p.cookie = token
                     /\ \E s \in sessions' : s.token = token /\ ~s.live
        PROVE  CookieInv'
    <2>1. \A p \in requests' :
             \/ p.cookie = jar /\ ~Answering(p)
             \/ \E o \in requests : /\ p.cookie = o.cookie
                                    /\ Answering(p) => Answering(o) /\ p.session = o.session /\ p.id = o.id
      BY <1>3 DEF Step
    <2>2. \A p \in requests' : p.op = "logout" /\ p.phase = "open" => \E s \in sessions : s.token = p.cookie
      BY <1>3 DEF Step, CookieInv
    <2>3. QED
      BY <1>0, <1>3, <2>1, <2>2, CookiesKept
  <1>4. CASE RegisterInsert(q)
    <2>1. PICK r \in {[q EXCEPT !.phase = "open"],
                      [q EXCEPT !.phase = "done", !.result = "email_already_registered"]} : Step(q, r)
      BY <1>4 DEF RegisterInsert, Refuse
    <2>2. r.cookie = q.cookie /\ r.op = "register" /\ ~Answering(r) /\ loggedOut' = loggedOut
      BY <1>0, <1>4, <2>1 DEF Request, RegisterInsert, Answering, serverVars
    <2>3. QED
      BY <1>3, <2>1, <2>2
  <1>5. CASE LoginRead(q)
    <2>1. PICK r \in {[q EXCEPT !.phase = "open"],
                      [q EXCEPT !.phase = "done", !.result = "invalid_credentials"]} : Step(q, r)
      BY <1>5 DEF LoginRead, Refuse
    <2>2. r.cookie = q.cookie /\ r.op = "login" /\ ~Answering(r) /\ loggedOut' = loggedOut
      BY <1>0, <1>5, <2>1 DEF Request, LoginRead, Answering, serverVars
    <2>3. QED
      BY <1>3, <2>1, <2>2
  <1>6. CASE Authenticate(q)
    <2>1. q.op \in {"session", "logout", "work"} /\ loggedOut' = loggedOut
      BY <1>6 DEF Authenticate, serverVars
    <2>2. CASE ~Live(q.cookie)
      <3> DEFINE r == [q EXCEPT !.phase = "done", !.result = "authentication_required"]
      <3>1. Step(q, r)
        BY <1>6, <2>2 DEF Authenticate, Refuse
      <3>2. r.cookie = q.cookie /\ r.op = q.op /\ r.phase = "done" /\ ~Answering(r)
        BY <1>0, <2>1 DEF Request, Answering
      <3> HIDE DEF r
      <3>3. QED
        BY <1>3, <2>1, <3>1, <3>2
    <2>3. CASE Live(q.cookie)
      <3>1. PICK r \in {[q EXCEPT !.phase = "done", !.result = "ok", !.email = UserOf(q.cookie)],
                        [q EXCEPT !.phase = "open", !.email = UserOf(q.cookie)]} : Step(q, r)
        BY <1>6, <2>3 DEF Authenticate
      <3>2. r.cookie = q.cookie /\ r.op = q.op /\ ~Answering(r)
        BY <1>0, <2>1, <3>1 DEF Request, Answering
      <3>3. \E s \in sessions : s.token = r.cookie
        BY <2>3, <3>2 DEF Live
      <3>4. QED
        BY <1>3, <2>1, <3>1, <3>2, <3>3
    <2>4. QED
      BY <2>2, <2>3
  <1>7. CASE Finish(q)
    <2> DEFINE r == [q EXCEPT !.phase = "done", !.result = "ok"]
    <2>1. Step(q, r) /\ q.op \in {"logout", "work"} /\ q.phase = "open"
      BY <1>7 DEF Finish
    <2>2. r.cookie = q.cookie /\ r.op = q.op /\ r.phase = "done" /\ ~Answering(r)
      BY <1>0, <2>1 DEF Request, Answering
    <2> HIDE DEF r
    <2>3. CASE q.op = "work"
      BY <1>3, <1>7, <2>1, <2>2, <2>3 DEF Finish
    <2>4. CASE q.op = "logout"
      <3>1. /\ loggedOut' = loggedOut \union {q.cookie}
            /\ sessions' = {IF s.token = q.cookie THEN [s EXCEPT !.live = FALSE] ELSE s : s \in sessions}
        BY <1>7, <2>4 DEF Finish
      <3>2. PICK s \in sessions : s.token = q.cookie
        BY <2>1, <2>4 DEF CookieInv
      <3>3. [s EXCEPT !.live = FALSE] \in sessions'
        BY <3>1, <3>2
      <3>4. [s EXCEPT !.live = FALSE].token = q.cookie /\ ~[s EXCEPT !.live = FALSE].live
        BY <3>2 DEF AuthInv, Tokens
      <3>5. \E t \in sessions' : t.token = q.cookie /\ ~t.live
        BY <3>3, <3>4
      <3>6. QED
        BY <1>3, <2>1, <2>2, <3>1, <3>5
    <2>5. QED
      BY <2>1, <2>3, <2>4
  <1>8. QED
    BY <1>1, <1>2, <1>4, <1>5, <1>6, <1>7 DEF Serve

\* Every step keeps the cookies apart.
LEMMA NextCookieInv == AuthInv /\ CookieInv /\ [Next]_vars => CookieInv'
  <1> SUFFICES ASSUME AuthInv, CookieInv, [Next]_vars PROVE CookieInv'
    OBVIOUS
  <1>1. ASSUME requests' \subseteq requests, jar' \in {jar, None}, loggedOut' = loggedOut PROVE CookieInv'
    <2>1. \A r \in requests' : \E q \in requests :
             /\ r.cookie = q.cookie
             /\ Answering(r) => Answering(q) /\ r.session = q.session /\ r.id = q.id
      BY <1>1
    <2>2. \A r \in requests' : r.op = "logout" /\ r.phase = "open" => \E s \in sessions : s.token = r.cookie
      BY <1>1 DEF CookieInv
    <2>3. QED
      BY <1>1, <2>1, <2>2, CookiesKept
  <1>2. CASE UNCHANGED vars
    BY <1>1, <1>2 DEF vars, serverVars
  <1>3. ASSUME NEW t, NEW op, NEW email, NEW good, Sends(t, op, email, good), UNCHANGED <<jar, loggedOut>>
        PROVE  CookieInv'
    <2> DEFINE new == Call(t, op, email, good)
    <2>1. requests' = requests \union {new} /\ new.cookie = jar /\ new.phase = "sent"
      BY <1>3 DEF Sends, Call
    <2> HIDE DEF new
    <2>2. \A r \in requests' :
             \/ r.cookie = jar /\ ~Answering(r)
             \/ \E q \in requests : /\ r.cookie = q.cookie
                                    /\ Answering(r) => Answering(q) /\ r.session = q.session /\ r.id = q.id
      BY <2>1 DEF Answering
    <2>3. \A r \in requests' : r.op = "logout" /\ r.phase = "open" => \E s \in sessions : s.token = r.cookie
      BY <2>1 DEF CookieInv
    <2>4. QED
      BY <1>3, <2>2, <2>3, CookiesKept
  <1>4. ASSUME NEW t \in Tabs,
               \/ OpenTab(t)
               \/ \E e, o, g : Submit(t, e, o, g)
               \/ \E o : Use(t, o)
        PROVE  CookieInv'
    <2>1. (\E u, op, email, good : Sends(u, op, email, good)) /\ UNCHANGED <<jar, loggedOut>>
      BY <1>4 DEF OpenTab, Submit, Use, serverVars
    <2>2. QED
      BY <1>3, <2>1
  <1>5. ASSUME NEW t \in Tabs, Reload(t) PROVE CookieInv'
    <2> DEFINE F(q) == IF q.tab = t THEN [q EXCEPT !.tab = None] ELSE q
    <2>1. requests' = {F(q) : q \in requests} /\ UNCHANGED <<jar, loggedOut>>
      BY <1>5 DEF Reload, serverVars
    <2>2. \A q \in requests : /\ F(q).id = q.id /\ F(q).op = q.op /\ F(q).cookie = q.cookie
                              /\ F(q).phase = q.phase /\ F(q).result = q.result /\ F(q).session = q.session
      BY DEF AuthInv, Request
    <2>3. \A r \in requests' : \E q \in requests : r = F(q)
      BY <2>1
    <2> HIDE DEF F
    <2>4. \A r \in requests' : \E q \in requests :
             /\ r.cookie = q.cookie
             /\ Answering(r) => Answering(q) /\ r.session = q.session /\ r.id = q.id
      BY <2>2, <2>3 DEF Answering
    <2>5. \A r \in requests' : r.op = "logout" /\ r.phase = "open" => \E s \in sessions : s.token = r.cookie
      BY <2>2, <2>3 DEF CookieInv
    <2>6. QED
      BY <2>1, <2>4, <2>5, CookiesKept
  <1>6. ASSUME NEW q \in requests, Lose(q) PROVE CookieInv'
    BY <1>1, <1>6 DEF Lose, serverVars
  <1>7. ASSUME NEW q \in requests, Deliver(q) PROVE CookieInv'
    <2>1. requests' = requests \ {q} /\ jar' = Cookies(q) /\ loggedOut' = loggedOut /\ q.phase = "done"
      BY <1>7 DEF Deliver, serverVars
    <2>2. CASE jar' \in {jar, None}
      BY <1>1, <2>1, <2>2
    <2>3. CASE jar' \notin {jar, None}
      <3>1. Answering(q) /\ jar' = q.session
        BY <2>1, <2>3 DEF Cookies, Answering
      <3>2. \A r \in requests' : r.id # q.id
        BY <2>1 DEF AuthInv
      <3>3. \A r \in requests' : r.op = "logout" /\ r.phase = "open" => \E s \in sessions : s.token = r.cookie
        BY <2>1 DEF CookieInv
      <3>4. QED
        BY <2>1, <3>1, <3>2, <3>3, CookiesKept
    <2>4. QED
      BY <2>2, <2>3
  <1>8. ASSUME NEW s \in sessions, Expire(s) PROVE CookieInv'
    BY <1>1, <1>8 DEF Expire
  <1>9. QED
    BY <1>2, <1>4, <1>5, <1>6, <1>7, <1>8, ServeCookies DEF Next

\* The cookies of an answer under way are nobody's, in every state.
LEMMA CookieInvariant == Spec => []CookieInv
  <1>1. QED
    BY InitCookieInv, NextCookieInv, AuthInvariant, PTL DEF Spec

\* Once a logout was carried out (Finish), a request with its cookies that has
\* not been authenticated by then is refused (authenticate), and no answer
\* that is under way gives the browser these cookies.
THEOREM AuthLoggedOutStaysOut == Spec => LoggedOutStaysOut
  <1> DEFINE P(q) ==
          q.op \in {"session", "logout", "work"} /\ q.cookie \in loggedOut /\ q.phase = "sent" =>
             ~\E r \in requests' : r.id = q.id /\ (r.phase = "open" \/ r.result = "ok")
  <1>1. ASSUME AuthInv, CookieInv, [Next]_vars, NEW q \in requests PROVE P(q)
    <2> SUFFICES ASSUME q.op \in {"session", "logout", "work"}, q.cookie \in loggedOut,
                        q.phase = "sent", NEW r \in requests', r.id = q.id
                 PROVE  ~(r.phase = "open" \/ r.result = "ok")
      OBVIOUS
    <2>1. Request(q)
      BY <1>1 DEF AuthInv
    <2>2. CASE r.phase = q.phase /\ r.result = q.result
      BY <2>1, <2>2 DEF Request
    <2>3. CASE Serve(q) /\ Step(q, r)
      <3>1. CASE r \in requests
        <4>1. r = q
          BY <1>1, <3>1 DEF AuthInv
        <4>2. QED
          BY <2>1, <4>1 DEF Request
      <3>2. CASE r \notin requests
        <4> DEFINE x == [q EXCEPT !.phase = "done", !.result = "authentication_required"]
        <4>1. Authenticate(q)
          BY <2>3 DEF Serve, RegisterInsert, RegisterCommit, LoginRead, LoginIssue, Finish
        <4>2. ~Live(q.cookie)
          <5>1. PICK s \in sessions : s.token = q.cookie /\ ~s.live
            BY <1>1 DEF CookieInv
          <5>2. QED
            BY <1>1, <5>1 DEF Live, AuthInv, Tokens
        <4>3. Step(q, x)
          BY <4>1, <4>2 DEF Authenticate, Refuse
        <4>4. x.phase = "done" /\ x.result = "authentication_required"
          BY <2>1 DEF Request
        <4> HIDE DEF x
        <4>5. r = x
          BY <3>2, <4>3 DEF Step
        <4>6. QED
          BY <4>4, <4>5
      <3>3. QED
        BY <3>1, <3>2
    <2>4. QED
      BY <1>1, <2>2, <2>3, HandledOrNot
  <1>2. ASSUME AuthInv, CookieInv, [Next]_vars PROVE jar' \in {jar, None} \/ jar' \notin loggedOut
    <2>1. CASE jar' # jar
      <3>1. PICK q \in requests : Deliver(q)
        BY <1>2, <2>1 DEF vars, Next, OpenTab, Reload, Submit, Use, Serve, RegisterInsert, RegisterCommit,
           LoginRead, LoginIssue, Authenticate, Finish, Lose, Expire
      <3>2. jar' = None \/ (Answering(q) /\ jar' = q.session)
        BY <2>1, <3>1 DEF Deliver, Cookies, Answering
      <3>3. QED
        BY <1>2, <3>2 DEF CookieInv, Secret
    <2>2. QED
      BY <2>1
  <1>3. AuthInv /\ CookieInv /\ [Next]_vars =>
           [/\ \A q \in requests : P(q)
            /\ jar' \in {jar, None} \/ jar' \notin loggedOut]_vars
    BY <1>1, <1>2
  <1>4. LoggedOutStaysOut <=>
           [][/\ \A q \in requests : P(q)
              /\ jar' \in {jar, None} \/ jar' \notin loggedOut]_vars
    BY DEF LoggedOutStaysOut
  <1> HIDE DEF P
  <1>5. QED
    BY <1>3, <1>4, AuthInvariant, CookieInvariant, PTL DEF Spec
=============================================================================
