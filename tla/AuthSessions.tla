----------------------------- MODULE AuthSessions -----------------------------
(***************************************************************************)
(* Accounts and sessions: auth.py at the server, AuthProvider and          *)
(* AuthScreen in the browser.                                              *)
(*                                                                         *)
(* The tabs of a browser share one cookie jar, but each has a provider of  *)
(* its own.  A request takes the cookies along when it is sent, is handled *)
(* in two steps (a read, and the rest of its transaction), and changes the *)
(* jar only when its answer arrives.  Answers arrive in any order, or get  *)
(* lost; sessions expire; a page is reloaded while it waits.               *)
(***************************************************************************)
EXTENDS Integers, FiniteSets

CONSTANTS
    Tabs, Emails, None,
    MaxRequests, MaxLosses, MaxExpiries, MaxReloads     \* bounds

ASSUME AuthAssumption == MaxRequests \in Nat /\ MaxLosses \in Nat /\ None \notin Emails \union Nat

VARIABLES
    accounts,   \* e-mail addresses with a committed account
    sessions,   \* rows of auth sessions, the number is the token
    loggedOut,  \* history: the tokens whose logout was carried out
    jar,        \* the token whose session and CSRF cookies the browser has
    tab,        \* AuthProvider and AuthScreen of each tab
    requests, sent, losses, expiries, reloads

serverVars == <<accounts, sessions, loggedOut>>
bounds == <<sent, losses, expiries, reloads>>
vars == <<serverVars, jar, tab, requests, bounds>>

Closed == [status |-> "closed", user |-> None, busy |-> FALSE]

Init ==
    /\ accounts = {} /\ sessions = {} /\ loggedOut = {} /\ jar = None
    /\ tab = [t \in Tabs |-> Closed]
    /\ requests = {} /\ sent = 0 /\ losses = 0 /\ expiries = 0 /\ reloads = 0

-----------------------------------------------------------------------------
(***************************************************************************)
(* The pages                                                               *)
(***************************************************************************)
\* A request, with the cookies of the moment.
Call(t, op, email, good) ==
    [id |-> sent, tab |-> t, op |-> op, email |-> email, good |-> good, cookie |-> jar,
     phase |-> "sent", session |-> None, result |-> "none"]

Sends(t, op, email, good) ==
    /\ sent < MaxRequests /\ sent' = sent + 1
    /\ requests' = requests \union {Call(t, op, email, good)}

\* The effect of a new AuthProvider asks for the session.
OpenTab(t) ==
    /\ tab[t].status = "closed"
    /\ Sends(t, "session", None, FALSE)
    /\ tab' = [tab EXCEPT ![t] = [status |-> "loading", user |-> None, busy |-> FALSE]]
    /\ UNCHANGED <<serverVars, jar, losses, expiries, reloads>>

\* The requests of the old page end for the browser, not for the server.
Reload(t) ==
    /\ tab[t].status # "closed" /\ reloads < MaxReloads
    /\ tab' = [tab EXCEPT ![t] = Closed]
    /\ requests' = {IF q.tab = t THEN [q EXCEPT !.tab = None] ELSE q : q \in requests}
    /\ reloads' = reloads + 1
    /\ UNCHANGED <<serverVars, jar, sent, losses, expiries>>

Submit(t, email, op, good) ==
    /\ tab[t].status = "anonymous" /\ ~tab[t].busy
    /\ Sends(t, op, email, good)
    /\ tab' = [tab EXCEPT ![t].busy = TRUE]
    /\ UNCHANGED <<serverVars, jar, losses, expiries, reloads>>

\* logout and the requests of the application; neither disables anything.
Use(t, op) ==
    /\ tab[t].status = "authenticated"
    /\ Sends(t, op, None, FALSE)
    /\ UNCHANGED <<serverVars, jar, tab, losses, expiries, reloads>>

-----------------------------------------------------------------------------
(***************************************************************************)
(* The server                                                              *)
(***************************************************************************)
Step(q, r) == requests' = (requests \ {q}) \union {r}
Refuse(q, code) == Step(q, [q EXCEPT !.phase = "done", !.result = code])

Token == Cardinality(sessions) + 1

\* _issue_session, with the commit.
Issue(q, email) ==
    /\ sessions' = sessions \union {[token |-> Token, user |-> email, live |-> TRUE]}
    /\ Step(q, [q EXCEPT !.phase = "done", !.result = "ok", !.session = Token])
    /\ UNCHANGED loggedOut

\* Mutant: the registration looks for the address before its transaction.
RegisterInsert_Unlocked(q) ==
    /\ q.op = "register" /\ q.phase = "sent"
    /\ IF q.email \in accounts THEN Refuse(q, "email_already_registered")
       ELSE Step(q, [q EXCEPT !.phase = "open"])
    /\ UNCHANGED <<serverVars, jar, tab, bounds>>

\* The insert of the user row: the unique index makes a second transaction
\* with this e-mail address wait for the first.
RegisterInsert(q) ==
    /\ q.op = "register" /\ q.phase = "sent"
    /\ ~\E r \in requests : r.op = "register" /\ r.phase = "open" /\ r.email = q.email
    /\ IF q.email \in accounts THEN Refuse(q, "email_already_registered")
       ELSE Step(q, [q EXCEPT !.phase = "open"])
    /\ UNCHANGED <<serverVars, jar, tab, bounds>>

RegisterCommit(q) ==
    /\ q.op = "register" /\ q.phase = "open"
    /\ accounts' = accounts \union {q.email}
    /\ Issue(q, q.email)
    /\ UNCHANGED <<jar, tab, bounds>>

LoginRead(q) ==
    /\ q.op = "login" /\ q.phase = "sent"
    /\ IF q.email \in accounts /\ q.good THEN Step(q, [q EXCEPT !.phase = "open"])
       ELSE Refuse(q, "invalid_credentials")
    /\ UNCHANGED <<serverVars, jar, tab, bounds>>

LoginIssue(q) ==
    /\ q.op = "login" /\ q.phase = "open"
    /\ Issue(q, q.email)
    /\ UNCHANGED <<accounts, jar, tab, bounds>>

Live(token) == \E s \in sessions : s.token = token /\ s.live
UserOf(token) == (CHOOSE s \in sessions : s.token = token).user

\* authenticate and require_csrf: the two cookies are always of one session.
Authenticate(q) ==
    /\ q.op \in {"session", "logout", "work"} /\ q.phase = "sent"
    /\ IF ~Live(q.cookie) THEN Refuse(q, "authentication_required")
       ELSE IF q.op = "session" THEN Step(q, [q EXCEPT !.phase = "done", !.result = "ok", !.email = UserOf(q.cookie)])
       ELSE Step(q, [q EXCEPT !.phase = "open", !.email = UserOf(q.cookie)])
    /\ UNCHANGED <<serverVars, jar, tab, bounds>>

\* Mutant: a logout only clears the cookies of the browser.
Finish_CookiesOnly(q) ==
    /\ q.op \in {"logout", "work"} /\ q.phase = "open"
    /\ loggedOut' = IF q.op = "logout" THEN loggedOut \union {q.cookie} ELSE loggedOut
    /\ Step(q, [q EXCEPT !.phase = "done", !.result = "ok"])
    /\ UNCHANGED <<accounts, sessions, jar, tab, bounds>>

\* The rest of the transaction; the session is not looked at again.
Finish(q) ==
    /\ q.op \in {"logout", "work"} /\ q.phase = "open"
    /\ loggedOut' = IF q.op = "logout" THEN loggedOut \union {q.cookie} ELSE loggedOut
    /\ sessions' = IF q.op = "work" THEN sessions
                   ELSE {IF s.token = q.cookie THEN [s EXCEPT !.live = FALSE] ELSE s : s \in sessions}
    /\ Step(q, [q EXCEPT !.phase = "done", !.result = "ok"])
    /\ UNCHANGED <<accounts, jar, tab, bounds>>

Expire(s) ==
    /\ s \in sessions /\ s.live /\ expiries < MaxExpiries /\ expiries' = expiries + 1
    /\ sessions' = (sessions \ {s}) \union {[s EXCEPT !.live = FALSE]}
    /\ UNCHANGED <<accounts, loggedOut, jar, tab, requests, sent, losses, reloads>>

-----------------------------------------------------------------------------
(***************************************************************************)
(* Answers                                                                 *)
(***************************************************************************)
Cookies(q) ==
    IF q.result # "ok" THEN jar
    ELSE CASE q.op \in {"register", "login"} -> q.session
           [] q.op = "logout" -> None
           [] OTHER -> jar

Signed(user) == [status |-> "authenticated", user |-> user, busy |-> FALSE]
Anonymous == [status |-> "anonymous", user |-> None, busy |-> FALSE]

\* Mutant: the screen stays disabled after a refused attempt.
PageAfter_StaysBusy(q) ==
    CASE q.op = "session" -> IF q.result = "ok" THEN Signed(q.email) ELSE Anonymous
      [] q.op \in {"register", "login"} -> IF q.result = "ok" THEN Signed(q.email) ELSE tab[q.tab]
      [] q.op = "logout" -> IF q.result = "ok" THEN Anonymous ELSE tab[q.tab]
      [] q.op = "work" -> IF q.result = "authentication_required" THEN Anonymous ELSE tab[q.tab]

\* A failed logout changes nothing; a provider that is already showing the
\* sign-in screen keeps it, and what is typed there.
PageAfter(q) ==
    CASE q.op = "session" -> IF q.result = "ok" THEN Signed(q.email) ELSE Anonymous
      [] q.op \in {"register", "login"} -> IF q.result = "ok" THEN Signed(q.email) ELSE [tab[q.tab] EXCEPT !.busy = FALSE]
      [] q.op = "logout" -> IF q.result # "ok" \/ tab[q.tab].status = "anonymous" THEN tab[q.tab] ELSE Anonymous
      [] q.op = "work" -> IF q.result # "authentication_required" \/ tab[q.tab].status = "anonymous" THEN tab[q.tab]
                          ELSE Anonymous

Deliver(q) ==
    /\ q.phase = "done" /\ q.tab # None
    /\ jar' = Cookies(q)
    /\ tab' = [tab EXCEPT ![q.tab] = PageAfter(q)]
    /\ requests' = requests \ {q}
    /\ UNCHANGED <<serverVars, bounds>>

\* The network fails before the request or after its answer, the server fails
\* within it and its transaction is rolled back, or the page that asked is gone.
Lose(q) ==
    /\ \/ q.tab # None /\ losses < MaxLosses /\ losses' = losses + 1
       \/ q.tab = None /\ q.phase = "done" /\ UNCHANGED losses
    /\ tab' = IF q.tab = None THEN tab
              ELSE [tab EXCEPT ![q.tab] = CASE q.op = "session" -> [status |-> "error", user |-> None, busy |-> FALSE]
                                            [] q.op \in {"register", "login"} -> [@ EXCEPT !.busy = FALSE]
                                            [] OTHER -> @]
    /\ requests' = requests \ {q}
    /\ UNCHANGED <<serverVars, jar, sent, expiries, reloads>>

-----------------------------------------------------------------------------
Serve(q) == RegisterInsert(q) \/ RegisterCommit(q) \/ LoginRead(q) \/ LoginIssue(q) \/ Authenticate(q) \/ Finish(q)

Next ==
    \/ \E t \in Tabs :
          \/ OpenTab(t) \/ Reload(t)
          \/ \E e \in Emails, good \in BOOLEAN : Submit(t, e, "login", good)
          \/ \E e \in Emails : Submit(t, e, "register", TRUE)
          \/ \E op \in {"logout", "work"} : Use(t, op)
    \/ \E q \in requests : Serve(q) \/ Deliver(q) \/ Lose(q)
    \/ \E s \in sessions : Expire(s)

Spec == Init /\ [][Next]_vars

\* The server goes on with what it has begun, and a fetch ends.
FairSpec ==
    Spec /\ \A i \in 0..(MaxRequests - 1) :
                WF_vars(\E q \in requests : q.id = i /\ (Serve(q) \/ Deliver(q) \/ Lose(q)))

-----------------------------------------------------------------------------
(***************************************************************************)
(* Properties                                                              *)
(***************************************************************************)
WaitingFor(t, ops) == \E q \in requests : q.tab = t /\ q.op \in ops

\* A page that shows its loading line or a disabled button waits for an answer.
TypeOK ==
    /\ accounts \subseteq Emails
    /\ \A s \in sessions : s.token \in 1..MaxRequests /\ s.user \in accounts
    /\ jar = None \/ \E s \in sessions : s.token = jar
    /\ \A t \in Tabs :
          /\ tab[t].status \in {"closed", "loading", "anonymous", "authenticated", "error"}
          /\ tab[t].status = "loading" => WaitingFor(t, {"session"})
          /\ tab[t].busy => WaitingFor(t, {"register", "login"})

\* Two registrations never both succeed for one address, and one is refused
\* only when the address has an account: one that waits for another that
\* fails goes on.
OneAccountPerEmail ==
    [][\A q \in requests :
          q.op = "register" /\ q.phase # "done" /\ (\E r \in requests' : r.id = q.id /\ r.phase = "done") =>
             LET r == CHOOSE x \in requests' : x.id = q.id IN (r.result = "ok") <=> q.email \notin accounts]_vars

\* Once a logout was carried out, its session is over for every tab: no
\* request with its cookies that has not been authenticated by then gets
\* through, and no answer that is still under way gives the browser these
\* cookies back, in whatever order answers arrive.
LoggedOutStaysOut ==
    [][/\ \A q \in requests :
             q.op \in {"session", "logout", "work"} /\ q.cookie \in loggedOut /\ q.phase = "sent" =>
                ~\E r \in requests' : r.id = q.id /\ (r.phase = "open" \/ r.result = "ok")
       /\ jar' \in {jar, None} \/ jar' \notin loggedOut]_vars

\* No page waits for ever: loading ends in a screen, and the sign-in button
\* comes back.
PagesSettle ==
    \A t \in Tabs : (tab[t].status = "loading" \/ tab[t].busy) ~> (tab[t].status # "loading" /\ ~tab[t].busy)
=============================================================================
