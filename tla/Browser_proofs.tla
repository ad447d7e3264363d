---------------------------- MODULE Browser_proofs ----------------------------
(***************************************************************************)
(* Proofs about the browser's side (MCBrowser): its cookies, for any       *)
(* number of logins, logouts, failures and restarts (BrowserLogin); the    *)
(* session the page shows, for any number of calls that overlap            *)
(* (WebSession); and the repository card, for any number of commands,      *)
(* fetches and resets (RepoCard).                                          *)
(***************************************************************************)
EXTENDS MCBrowser, Sequences, FiniteSetTheorems, TLAPS

(* The cookies *)

LogoutSteps == {"idle", "revoke", "no content", "error", "out", "refused", "lost"}

(* The shape of the variables, and where the login of the state cookie is. *)
Shape ==
    /\ sessionCookie \in Logins \cup {None} /\ stateCookie \in Logins \cup {None}
    /\ rows \in [Logins -> {None, "active", "revoked"}]
    /\ login \in [Logins -> Steps]
    /\ logout \in [Logouts -> [pc : LogoutSteps, token : Logins \cup {None}]]
    /\ stateCookie # None => login[stateCookie] \notin {"idle", "in", "failed"}
    /\ faults \in 0 .. MaxFaults /\ restarts \in 0 .. MaxRestarts

(* A token the browser holds, or has sent with a logout, is that of a login which
   came to its end; its row was written, and only a logout touches it afterwards. *)
Reached(o) == logout[o].pc \notin {"idle", "revoke"}
RevokedBy(l) == \E o \in Logouts : logout[o].token = l /\ Reached(o)

TokensAreOfLogins ==
    /\ sessionCookie # None => login[sessionCookie] = "in"
    /\ \A o \in Logouts :
          IF logout[o].pc = "idle" THEN logout[o].token = None
          ELSE logout[o].token \in Logins /\ login[logout[o].token] = "in"

RowsAreKept ==
    /\ \A l \in Logins : login[l] = "answer" => rows[l] = "active"
    /\ \A l \in Logins : login[l] = "in" => rows[l] = "active" \/ RevokedBy(l)

RevokedStay ==
    \A o \in Logouts : logout[o].pc \in {"no content", "out"} => rows[logout[o].token] = "revoked"

Inv == Shape /\ TokensAreOfLogins /\ RowsAreKept /\ RevokedStay
-----------------------------------------------------------------------------
LEMMA Counts ==
  ASSUME Fault, faults \in 0 .. MaxFaults PROVE faults' \in 0 .. MaxFaults
  BY BrowserLoginAssumption DEF Fault

LEMMA NoneApart == None \notin Logins /\ None \in Logins \cup {None}
  BY BrowserLoginAssumption

LEMMA InvInit == Init => Inv
<1> SUFFICES ASSUME Init PROVE Inv
  OBVIOUS
<1>1. Shape
  BY BrowserLoginAssumption DEF Init, Shape, LogoutSteps, Steps
<1>2. TokensAreOfLogins /\ RowsAreKept /\ RevokedStay
  BY DEF Init, TokensAreOfLogins, RowsAreKept, RevokedStay
<1>3. QED
  BY <1>1, <1>2 DEF Inv

(* A login that has not come to its end has no token in use. *)
LEMMA Unused ==
  ASSUME Inv, NEW l \in Logins, login[l] # "in"
  PROVE  /\ sessionCookie # l
         /\ \A o \in Logouts : logout[o].token # l
  BY NoneApart DEF Inv, TokensAreOfLogins

(* A step of a login: the logouts stay, and what is left to show is said of the
   login's own step. *)
LEMMA LoginStep ==
  ASSUME Inv, NEW l \in Logins, NEW from \in Steps, NEW to \in Steps,
         from # "in", LoginGoes(l, from, to), UNCHANGED logout,
         sessionCookie' = sessionCookie \/ (sessionCookie' = l /\ to = "in"),
         \A m \in Logins \ {l} : rows'[m] = rows[m],
         to \in {"answer", "in"} => rows'[l] = "active"
  PROVE  TokensAreOfLogins' /\ RowsAreKept' /\ RevokedStay'
<1>1. login \in [Logins -> Steps] /\ sessionCookie \in Logins \cup {None}
  BY DEF Inv, Shape
<1>2. /\ login[l] = from
      /\ \A m \in Logins : login'[m] = IF m = l THEN to ELSE login[m]
  BY <1>1 DEF LoginGoes
<1>3. sessionCookie # l /\ \A o \in Logouts : logout[o].token # l
  BY <1>2, Unused
<1>4. TokensAreOfLogins'
  BY <1>1, <1>2, <1>3, NoneApart DEF Inv, TokensAreOfLogins
<1>5. RowsAreKept'
  BY <1>2 DEF Inv, RowsAreKept, RevokedBy, Reached
<1>6. RevokedStay'
  BY <1>3 DEF Inv, RevokedStay, TokensAreOfLogins
<1>7. QED
  BY <1>4, <1>5, <1>6

(* A step of a logout that keeps its token. *)
LEMMA LogoutStep ==
  ASSUME Inv, NEW o \in Logouts, NEW pc \in LogoutSteps \ {"idle", "revoke"},
         logout[o].pc # "idle", LogoutGoes(o, pc), UNCHANGED login,
         sessionCookie' \in {None, sessionCookie},
         \/ UNCHANGED rows
         \/ rows' = [rows EXCEPT ![logout[o].token] = "revoked"],
         pc \in {"no content", "out"} => rows'[logout[o].token] = "revoked"
  PROVE  Inv' <=> Shape'
<1> DEFINE t == logout[o].token
<1>1. /\ logout \in [Logouts -> [pc : LogoutSteps, token : Logins \cup {None}]]
      /\ rows \in [Logins -> {None, "active", "revoked"}]
  BY DEF Inv, Shape
<1>2. t \in Logins /\ login[t] = "in"
  BY DEF Inv, TokensAreOfLogins
<1>3. \A p \in Logouts : /\ logout'[p].token = logout[p].token
                         /\ logout'[p].pc = IF p = o THEN pc ELSE logout[p].pc
  <2>1. logout' = [logout EXCEPT ![o].pc = pc]
    BY DEF LogoutGoes
  <2>2. logout \in [Logouts -> [pc : LogoutSteps, token : Logins \cup {None}]]
    BY <1>1
  <2>3. ASSUME NEW p \in Logouts, p # o PROVE logout'[p] = logout[p]
    BY ONLY <2>1, <2>2, <2>3
  <2>4. logout'[o].token = logout[o].token /\ logout'[o].pc = pc
    BY ONLY <2>1, <2>2
  <2>5. QED
    BY ONLY <2>3, <2>4
<1>4. TokensAreOfLogins'
  BY <1>2, <1>3 DEF Inv, TokensAreOfLogins
<1>5. \A l \in Logins : rows'[l] = rows[l] \/ (l = t /\ rows'[l] = "revoked")
  BY <1>1
<1>6. Reached(o)' /\ \A p \in Logouts : Reached(p) => Reached(p)'
  BY <1>3 DEF Reached
<1>7. \A l \in Logins : RevokedBy(l) \/ l = t => RevokedBy(l)'
  BY <1>3, <1>6 DEF RevokedBy
<1>8. RowsAreKept'
  BY <1>2, <1>5, <1>7 DEF Inv, RowsAreKept
<1>9. RevokedStay'
  <2> SUFFICES ASSUME NEW p \in Logouts, logout'[p].pc \in {"no content", "out"}
               PROVE  rows'[logout'[p].token] = "revoked"
    BY DEF RevokedStay
  <2>1. CASE p = o
    BY <2>1, <1>3
  <2>2. CASE p # o
    <3>1. logout'[p].token = logout[p].token /\ logout[p].pc \in {"no content", "out"}
      BY <2>2, <1>3
    <3>2. logout[p].token \in Logins /\ rows[logout[p].token] = "revoked"
      BY <3>1 DEF Inv, RevokedStay, TokensAreOfLogins
    <3>3. QED
      BY <3>1, <3>2, <1>5
  <2>3. QED
    BY <2>1, <2>2
<1>10. QED
  BY <1>4, <1>8, <1>9 DEF Inv
-----------------------------------------------------------------------------
(* The steps of Next *)

LEMMA LoginKeeps ==
  ASSUME Inv, NEW l \in Logins,
         \/ GitHubLogin(l) \/ Callback(l) \/ Exchange(l) \/ ExchangeFails(l)
         \/ CreateBrowserSession(l) \/ CreateFails(l)
         \/ Answer(l) \/ AnswerFailure(l) \/ AnswerLost(l)
  PROVE  Inv'
<1> USE NoneApart DEF cookies
<1>0. Shape
  BY DEF Inv
<1>1. CASE GitHubLogin(l)
  <2>1. Shape'
    BY <1>0, <1>1 DEF GitHubLogin, LoginGoes, Shape, Steps
  <2>2. QED
    BY <1>1, <2>1, LoginStep DEF GitHubLogin, Inv, Steps
<1>2. CASE Callback(l)
  <2>1. Shape'
    BY <1>0, <1>2 DEF Callback, LoginGoes, Shape, Steps
  <2>2. CASE stateCookie = l
    BY <1>2, <2>1, <2>2, LoginStep DEF Callback, Inv, Steps
  <2>3. CASE stateCookie # l
    BY <1>2, <2>1, <2>3, LoginStep DEF Callback, Inv, Steps
  <2>4. QED
    BY <2>2, <2>3
<1>3. CASE Exchange(l)
  <2>1. Shape'
    BY <1>0, <1>3 DEF Exchange, LoginGoes, Shape, Steps
  <2>2. QED
    BY <1>3, <2>1, LoginStep DEF Exchange, Inv, Steps
<1>4. CASE ExchangeFails(l)
  <2>1. Shape'
    BY <1>0, <1>4, Counts DEF ExchangeFails, LoginGoes, Shape, Steps
  <2>2. QED
    BY <1>4, <2>1, LoginStep DEF ExchangeFails, Inv, Steps
<1>5. CASE CreateBrowserSession(l)
  <2>1. Shape'
    BY <1>0, <1>5 DEF CreateBrowserSession, LoginGoes, Shape, Steps
  <2>2. /\ rows'[l] = "active"
        /\ \A m \in Logins \ {l} : rows'[m] = rows[m]
    BY <1>0, <1>5 DEF CreateBrowserSession, Shape
  <2>3. QED
    BY <1>5, <2>1, <2>2, LoginStep DEF CreateBrowserSession, Inv, Steps
<1>6. CASE CreateFails(l)
  <2>1. Shape'
    BY <1>0, <1>6, Counts DEF CreateFails, LoginGoes, Shape, Steps
  <2>2. \A m \in Logins \ {l} : rows'[m] = rows[m]
    BY <1>0, <1>6 DEF CreateFails, Shape
  <2>3. QED
    BY <1>6, <2>1, <2>2, LoginStep DEF CreateFails, Inv, Steps
<1>7. CASE Answer(l)
  <2>1. Shape'
    BY <1>0, <1>7 DEF Answer, LoginGoes, Shape, Steps
  <2>2. rows'[l] = "active"
    BY <1>7 DEF Answer, LoginGoes, Inv, RowsAreKept
  <2>3. QED
    BY <1>7, <2>1, <2>2, LoginStep DEF Answer, Inv, Steps
<1>8. CASE AnswerFailure(l)
  <2>1. Shape'
    BY <1>0, <1>8 DEF AnswerFailure, LoginGoes, Shape, Steps
  <2>2. QED
    BY <1>8, <2>1, LoginStep DEF AnswerFailure, Inv, Steps
<1>9. CASE AnswerLost(l)
  <2>1. Shape'
    BY <1>0, <1>9, Counts DEF AnswerLost, LoginGoes, Shape, Steps
  <2>2. QED
    BY <1>9, <2>1, LoginStep DEF AnswerLost, Inv, Steps
<1>10. QED
  BY <1>1, <1>2, <1>3, <1>4, <1>5, <1>6, <1>7, <1>8, <1>9

LEMMA SendLogoutKeeps ==
  ASSUME Inv, NEW o \in Logouts, SendLogout(o)
  PROVE  Inv'
<1> USE NoneApart
<1>1. Shape
  BY DEF Inv
<1>2. Shape'
  BY <1>1 DEF SendLogout, cookies, Shape, LogoutSteps
<1>3. \A p \in Logouts :
         logout'[p] = IF p = o THEN [pc |-> "revoke", token |-> sessionCookie] ELSE logout[p]
  BY <1>1 DEF SendLogout, Shape
<1>4. logout[o].token = None
  BY DEF SendLogout, Inv, TokensAreOfLogins
<1>5. TokensAreOfLogins'
  BY <1>1, <1>3 DEF SendLogout, cookies, Inv, TokensAreOfLogins, Shape
<1>6. \A l \in Logins : RevokedBy(l) => RevokedBy(l)'
  BY <1>3, <1>4 DEF RevokedBy, Reached
<1>7. RowsAreKept'
  BY <1>6 DEF SendLogout, cookies, Inv, RowsAreKept
<1>8. RevokedStay'
  <2> SUFFICES ASSUME NEW p \in Logouts, logout'[p].pc \in {"no content", "out"}
               PROVE  rows'[logout'[p].token] = "revoked"
    BY DEF RevokedStay
  <2>1. logout'[o].pc = "revoke"
    BY <1>1 DEF SendLogout, Shape
  <2>2. logout'[p] = logout[p]
    BY <1>3, <2>1
  <2>3. UNCHANGED rows
    BY DEF SendLogout
  <2>4. QED
    BY <2>2, <2>3 DEF Inv, RevokedStay
<1>9. QED
  BY <1>2, <1>5, <1>7, <1>8 DEF Inv

LEMMA LogoutKeeps ==
  ASSUME Inv, NEW o \in Logouts,
         \/ RevokeBrowserSession(o) \/ RevokeFails(o) \/ LogoutAnswer(o) \/ LogoutLost(o)
  PROVE  Inv'
<1> USE NoneApart DEF cookies
<1>1. Shape /\ logout[o].token \in Logins
  BY DEF Inv, TokensAreOfLogins, RevokeBrowserSession, RevokeFails, LogoutAnswer, LogoutLost
<1>2. CASE RevokeBrowserSession(o)
  <2>1. Shape'
    BY <1>1, <1>2 DEF RevokeBrowserSession, LogoutGoes, Shape, LogoutSteps
  <2>2. rows'[logout[o].token] = "revoked"
    BY <1>1, <1>2 DEF RevokeBrowserSession, Shape
  <2>3. QED
    BY <1>2, <2>1, <2>2, LogoutStep DEF RevokeBrowserSession, LogoutSteps
<1>3. CASE RevokeFails(o)
  <2>1. Shape'
    <3>1. faults' \in 0 .. MaxFaults
      BY <1>1, <1>3, Counts DEF RevokeFails, Shape
    <3>2. rows' \in [Logins -> {None, "active", "revoked"}]
      BY <1>1, <1>3 DEF RevokeFails, Shape
    <3>3. QED
      BY <1>1, <1>3, <3>1, <3>2, ZenonT(30) DEF RevokeFails, LogoutGoes, Shape, LogoutSteps
  <2>2. QED
    BY <1>3, <2>1, LogoutStep DEF RevokeFails, LogoutSteps
<1>4. CASE LogoutAnswer(o)
  <2>1. Shape'
    BY <1>1, <1>4 DEF LogoutAnswer, LogoutGoes, Shape, LogoutSteps
  <2>2. CASE logout[o].pc = "error"
    BY <1>4, <2>1, <2>2, LogoutStep DEF LogoutAnswer, LogoutSteps
  <2>3. CASE logout[o].pc = "no content"
    <3>1. rows[logout[o].token] = "revoked"
      BY <2>3 DEF Inv, RevokedStay
    <3>2. QED
      BY <1>4, <2>1, <2>3, <3>1, LogoutStep DEF LogoutAnswer, LogoutSteps
  <2>4. QED
    BY <1>4, <2>2, <2>3 DEF LogoutAnswer
<1>5. CASE LogoutLost(o)
  <2>1. Shape'
    BY <1>1, <1>5, Counts DEF LogoutLost, LogoutGoes, Shape, LogoutSteps
  <2>2. QED
    BY <1>5, <2>1, LogoutStep DEF LogoutLost, LogoutSteps
<1>6. QED
  BY <1>2, <1>3, <1>4, <1>5

LEMMA RestartKeeps == ASSUME Inv, Restart PROVE Inv'
<1>1. Shape'
  <2>1. restarts' \in 0 .. MaxRestarts
    <3>1. restarts \in 0 .. MaxRestarts /\ restarts < MaxRestarts /\ restarts' = restarts + 1
      BY DEF Restart, Inv, Shape
    <3>2. QED
      BY <3>1, BrowserLoginAssumption
  <2>2. sessionCookie' \in Logins \cup {None} /\ UNCHANGED <<stateCookie, rows, login, logout, faults>>
    BY DEF Restart
  <2>3. QED
    BY <2>1, <2>2 DEF Inv, Shape
<1>2. TokensAreOfLogins' /\ RowsAreKept' /\ RevokedStay'
  BY DEF Restart, Inv, TokensAreOfLogins, RowsAreKept, RevokedBy, Reached, RevokedStay
<1>3. QED
  BY <1>1, <1>2 DEF Inv

LEMMA InvStep == Inv /\ [Next]_vars => Inv'
<1> SUFFICES ASSUME Inv, [Next]_vars PROVE Inv'
  OBVIOUS
<1>1. CASE Next
  BY <1>1, LoginKeeps, SendLogoutKeeps, LogoutKeeps, RestartKeeps DEF Next
<1>2. CASE UNCHANGED vars
  BY <1>2 DEF vars, cookies, Inv, Shape, TokensAreOfLogins, RowsAreKept, RevokedBy, Reached,
              RevokedStay
<1>3. QED
  BY <1>1, <1>2

LEMMA InvAlways == Spec => []Inv
  BY InvInit, InvStep, PTL DEF Spec
-----------------------------------------------------------------------------
(* The variables keep their types; the state cookie is that of a login which has
   not come back (GitHubLoginWithReadiness, GitHubCallback). *)
THEOREM TypeCorrect == Spec => []TypeOK
<1>1. Inv => TypeOK
  BY DEF Inv, Shape, TypeOK, LogoutSteps
<1>2. QED
  BY <1>1, InvAlways, PTL

(* The session cookie a browser holds is that of a row the store has, unless a
   logout was sent with that very token: whatever fails and in whatever order the
   tabs' answers arrive (GitHubCallback, Logout). *)
THEOREM CookieKnown == Spec => []CookieIsKnown
<1>1. Inv => CookieIsKnown
  BY DEF Inv, Shape, TokensAreOfLogins, RowsAreKept, RevokedBy, Reached, CookieIsKnown
<1>2. QED
  BY <1>1, InvAlways, PTL

(* A logout that is answered without an error has ended its session for good, also
   when it races with other logins and logouts (Logout, RevokeBrowserSession). *)
THEOREM OutRevoked == Spec => []OutMeansRevoked
<1>1. Inv => OutMeansRevoked
  BY DEF Inv, RevokedStay, OutMeansRevoked
<1>2. QED
  BY <1>1, InvAlways, PTL
-----------------------------------------------------------------------------
(* The session that is shown *)

Purposes == {"lookup", "retry", "new-session", "reset", "logout"}
Shown == 0 .. MaxSessions
Calls == [no : Nat, purpose : Purposes, stage : {"refresh", "call"}, expected : Shown,
          fallback : Shown, keep : BOOLEAN, answer : Page!Answers]

WebShape ==
    /\ created \in Shown /\ current \in {0, created} /\ signedIn \in BOOLEAN
    /\ hook \in [session : Shown, status : {"loading", "ready", "error"},
                 absence : {"none", "missing", "unauthenticated"}]
    /\ override \in {Page!Follow} \cup Shown
    /\ error \in [shown : BOOLEAN, retry : Shown] /\ (error.retry # 0 => error.shown)
    /\ pending \in {"none", "new-session", "reset", "logout"}
    /\ signedOut \in BOOLEAN /\ tried \in BOOLEAN /\ dismissed \in BOOLEAN
    /\ last \in Page!Answers \cup {Page!NoAnswer}

(* A call under way is one of those started; lookups are answered by lookups. *)
TasksInv ==
    /\ started \in 1 .. MaxTasks
    /\ tasks \subseteq Calls /\ IsFiniteSet(tasks) /\ Cardinality(tasks) <= started
    /\ \A t \in tasks : t.no \in 1 .. started /\ (t.stage = "refresh" => t.answer # Page!Ok)

(* The hook has what the last lookup returned.  What stands in for it is said, or was, or
   is the session of a create whose lookup is under way. *)
LookedUp(t) == t.stage = "refresh" /\ t.purpose = "new-session"

StandsInv ==
    /\ hook.session = last.id
    /\ override # Page!Follow /\ ~signedOut /\ ~dismissed =>
          error.shown \/ \E t \in tasks : LookedUp(t)

WebInv == WebShape /\ TasksInv /\ StandsInv
-----------------------------------------------------------------------------
(* Answers, calls and the hook *)

LEMMA LimitsAre == MaxSessions \in Nat /\ MaxTasks \in Nat \ {0} /\ 0 \in Shown /\ Page!Follow = -1
  BY PageAssumption DEF Shown, Page!Follow

LEMMA AnswerIs ==
  ASSUME NEW a \in Page!Answers
  PROVE  /\ a.id \in Shown
         /\ a.kind \in {"found", "missing", "unauthenticated", "failed", "waiting", "ok"}
         /\ a.kind = "found" => a.id > 0
         /\ a.kind \in {"missing", "unauthenticated"} => a.id = 0
         /\ a.kind = "failed" <=> a = Page!Failed
         /\ a.kind = "waiting" <=> a = Page!Waiting
         /\ a.kind = "ok" <=> a = Page!Ok
<1>1. CASE \E i \in 1 .. MaxSessions : a = Page!Found(i)
  BY <1>1, LimitsAre DEF Page!Found, Shown, Page!Failed, Page!Waiting, Page!Ok
<1>2. CASE a \in {Page!Missing, Page!Unauthenticated, Page!Failed, Page!Waiting, Page!Ok}
  BY <1>2, LimitsAre DEF Shown, Page!Failed, Page!Waiting, Page!Ok, Page!Missing, Page!Unauthenticated
<1>3. QED
  BY <1>1, <1>2 DEF Page!Answers, Page!SessionIds

LEMMA AreAnswers ==
  /\ {Page!Missing, Page!Unauthenticated, Page!Failed, Page!Waiting, Page!Ok} \subseteq Page!Answers
  /\ \A i \in 1 .. MaxSessions : Page!Found(i) \in Page!Answers /\ Page!Found(i) # Page!Ok
  /\ {Page!Missing, Page!Unauthenticated, Page!Failed, Page!Waiting} \cap {Page!Ok} = {}
<1>1. \A i \in 1 .. MaxSessions : Page!Found(i) # Page!Ok
  BY DEF Page!Found, Page!Ok
<1>2. {Page!Missing, Page!Unauthenticated, Page!Failed, Page!Waiting} \cap {Page!Ok} = {}
  BY DEF Page!Missing, Page!Unauthenticated, Page!Failed, Page!Waiting, Page!Ok
<1>3. QED
  BY <1>1, <1>2 DEF Page!Answers, Page!SessionIds

LEMMA CallIs ==
  ASSUME NEW t \in Calls
  PROVE  /\ t.no \in Nat /\ t.purpose \in Purposes /\ t.stage \in {"refresh", "call"}
         /\ t.expected \in Shown /\ t.fallback \in Shown /\ t.keep \in BOOLEAN
         /\ t.answer \in Page!Answers
         /\ t = [no |-> t.no, purpose |-> t.purpose, stage |-> t.stage, expected |-> t.expected,
                 fallback |-> t.fallback, keep |-> t.keep, answer |-> t.answer]
  BY DEF Calls

(* A call that is answered, and one that goes on with a lookup. *)
Going(t, purpose, stage, expected, answer) ==
    [no |-> t.no, purpose |-> purpose, stage |-> stage, expected |-> expected,
     fallback |-> t.fallback, keep |-> t.keep, answer |-> answer]

LEMMA GoingIs ==
  ASSUME NEW t \in Calls, NEW p \in Purposes, NEW st \in {"refresh", "call"}, NEW e \in Shown,
         NEW a \in Page!Answers
  PROVE  /\ Going(t, p, st, e, a) \in Calls /\ Going(t, p, st, e, a).no = t.no
         /\ Going(t, p, st, e, a).purpose = p /\ Going(t, p, st, e, a).stage = st
         /\ Going(t, p, st, e, a).answer = a
<1>1. t.no \in Nat /\ t.fallback \in Shown /\ t.keep \in BOOLEAN
  BY CallIs
<1>2. QED
  BY <1>1 DEF Going, Calls

LEMMA GoesOn ==
  ASSUME NEW h, NEW no, NEW p, NEW s, NEW e, NEW f, NEW k, NEW a,
         h = [no |-> no, purpose |-> p, stage |-> s, expected |-> e, fallback |-> f, keep |-> k, answer |-> a]
  PROVE  /\ \A x : [h EXCEPT !.answer = x] = [no |-> no, purpose |-> p, stage |-> s, expected |-> e,
                                             fallback |-> f, keep |-> k, answer |-> x]
         /\ \A x : [h EXCEPT !.stage = x] = [no |-> no, purpose |-> p, stage |-> x, expected |-> e,
                                            fallback |-> f, keep |-> k, answer |-> a]
         /\ \A x : [h EXCEPT !.expected = x] = [no |-> no, purpose |-> p, stage |-> s, expected |-> x,
                                               fallback |-> f, keep |-> k, answer |-> a]
         /\ \A x : [h EXCEPT !.purpose = x] = [no |-> no, purpose |-> x, stage |-> s, expected |-> e,
                                              fallback |-> f, keep |-> k, answer |-> a]
<1>1. ASSUME NEW x PROVE [h EXCEPT !.answer = x] = [no |-> no, purpose |-> p, stage |-> s, expected |-> e,
                                                   fallback |-> f, keep |-> k, answer |-> x]
  OBVIOUS
<1>2. ASSUME NEW x PROVE [h EXCEPT !.stage = x] = [no |-> no, purpose |-> p, stage |-> x, expected |-> e,
                                                  fallback |-> f, keep |-> k, answer |-> a]
  OBVIOUS
<1>3. ASSUME NEW x PROVE [h EXCEPT !.expected = x] = [no |-> no, purpose |-> p, stage |-> s, expected |-> x,
                                                     fallback |-> f, keep |-> k, answer |-> a]
  OBVIOUS
<1>4. ASSUME NEW x PROVE [h EXCEPT !.purpose = x] = [no |-> no, purpose |-> x, stage |-> s, expected |-> e,
                                                    fallback |-> f, keep |-> k, answer |-> a]
  OBVIOUS
<1>5. QED
  BY <1>1, <1>2, <1>3, <1>4

LEMMA Answered ==
  ASSUME NEW t \in Calls, NEW a
  PROVE  [t EXCEPT !.answer = a] = Going(t, t.purpose, t.stage, t.expected, a)
  BY CallIs, GoesOn DEF Going

LEMMA GoesToLookup ==
  ASSUME NEW t \in Calls, NEW a
  PROVE  [t EXCEPT !.stage = "refresh", !.answer = a] = Going(t, t.purpose, "refresh", t.expected, a)
<1> DEFINE r == "refresh"
           g == [t EXCEPT !.stage = r]
<1>1. [t EXCEPT !.stage = "refresh", !.answer = a] = [g EXCEPT !.answer = a]
  OBVIOUS
<1> HIDE DEF r
<1>2. g = Going(t, t.purpose, r, t.expected, t.answer)
  BY CallIs, GoesOn DEF Going
<1> HIDE DEF g
<1>3. [g EXCEPT !.answer = a] = Going(t, t.purpose, r, t.expected, a)
  BY <1>2, GoesOn DEF Going
<1>4. QED
  BY <1>1, <1>3 DEF r

LEMMA CreateGoesOn ==
  ASSUME NEW t \in Calls, NEW e, NEW a
  PROVE  [t EXCEPT !.stage = "refresh", !.expected = e, !.answer = a]
            = Going(t, t.purpose, "refresh", e, a)
<1> DEFINE r == "refresh"
           g == [t EXCEPT !.stage = r]
           h == [g EXCEPT !.expected = e]
<1>1. [t EXCEPT !.stage = "refresh", !.expected = e, !.answer = a] = [h EXCEPT !.answer = a]
  OBVIOUS
<1> HIDE DEF r
<1>2. g = Going(t, t.purpose, r, t.expected, t.answer)
  BY CallIs, GoesOn DEF Going
<1> HIDE DEF g
<1>3. h = Going(t, t.purpose, r, e, t.answer)
  BY <1>2, GoesOn DEF Going
<1> HIDE DEF h
<1>4. [h EXCEPT !.answer = a] = Going(t, t.purpose, r, e, a)
  BY <1>3, GoesOn DEF Going
<1>5. QED
  BY <1>1, <1>4 DEF r

LEMMA LogoutGoesOn ==
  ASSUME NEW t \in Calls, NEW a
  PROVE  [t EXCEPT !.purpose = "lookup", !.stage = "refresh", !.answer = a]
            = Going(t, "lookup", "refresh", t.expected, a)
<1> DEFINE p == "lookup"
           r == "refresh"
           g == [t EXCEPT !.purpose = p]
           h == [g EXCEPT !.stage = r]
<1>1. [t EXCEPT !.purpose = "lookup", !.stage = "refresh", !.answer = a] = [h EXCEPT !.answer = a]
  OBVIOUS
<1> HIDE DEF p, r
<1>2. g = Going(t, p, t.stage, t.expected, t.answer)
  BY CallIs, GoesOn DEF Going
<1> HIDE DEF g
<1>3. h = Going(t, p, r, t.expected, t.answer)
  BY <1>2, GoesOn DEF Going
<1> HIDE DEF h
<1>4. [h EXCEPT !.answer = a] = Going(t, p, r, t.expected, a)
  BY <1>3, GoesOn DEF Going
<1>5. QED
  BY <1>1, <1>4 DEF p, r

Hooks == [session : Shown, status : {"loading", "ready", "error"},
          absence : {"none", "missing", "unauthenticated"}]

LEMMA LoadingHook ==
  ASSUME WebShape
  PROVE  Page!Loading \in Hooks /\ Page!Loading.session = hook.session /\ Page!Loading.status = "loading"
<1>1. hook \in Hooks
  BY DEF WebShape, Hooks
<1>2. QED
  BY <1>1 DEF Page!Loading, Hooks

LEMMA DisplayedIs == ASSUME WebShape PROVE Page!Displayed \in Shown
<1>1. hook \in Hooks
  BY DEF WebShape, Hooks
<1>2. hook.session \in Shown
  BY <1>1 DEF Hooks
<1>3. Page!Effective \in Shown
  BY <1>2, LimitsAre DEF Page!Effective
<1>4. QED
  BY <1>3 DEF Page!Displayed, WebShape

(* How the page's effects settle. *)
LEMMA Settles ==
  ASSUME WebShape, NEW o \in {Page!Follow} \cup Shown, NEW h \in Hooks, NEW out \in BOOLEAN,
         Page!Settle(o, h, out)
  PROVE  /\ hook' = h /\ signedOut' = out /\ override' \in {Page!Follow} \cup Shown
         /\ override' = o \/ override' = Page!Follow
         /\ o > 0 /\ h.status = "ready" /\ ~out /\ h.session = o => override' = Page!Follow
         /\ dismissed' \in BOOLEAN /\ tried' \in BOOLEAN
         /\ ~dismissed' /\ override' # Page!Follow => ~dismissed
<1>1. /\ hook' = h /\ signedOut' = out /\ override' = Page!Caught(o, h, out)
      /\ dismissed' = (dismissed /\ override' # Page!Follow)
  BY DEF Page!Settle
<1>2. tried' \in BOOLEAN
  BY DEF Page!Settle
<1>3. /\ Page!Caught(o, h, out) \in {o, Page!Follow}
      /\ o > 0 /\ h.status = "ready" /\ ~out /\ h.session = o => Page!Caught(o, h, out) = Page!Follow
  BY DEF Page!Caught
<1>4. QED
  BY <1>1, <1>2, <1>3

(* Messages and the calls that start. *)
LEMMA MessageIs ==
  ASSUME NEW r \in Shown
  PROVE  /\ Page!Message(r) \in [shown : BOOLEAN, retry : Shown] /\ Page!Message(r).shown
         /\ Page!NoError \in [shown : BOOLEAN, retry : Shown] /\ Page!NoError.retry = 0
         /\ ~Page!NoError.shown
  BY LimitsAre DEF Page!Message, Page!NoError

LEMMA Begins ==
  ASSUME WebShape, TasksInv, Page!CanStart,
         NEW p \in Purposes, NEW st \in {"refresh", "call"}, NEW e \in Shown,
         Page!Begin(Page!Task(p, st, e))
  PROVE  TasksInv' /\ tasks \subseteq tasks'
<1> DEFINE t == Page!Task(p, st, e)
<1>1. /\ started \in Nat /\ started' = started + 1 /\ started' \in 1 .. MaxTasks
      /\ tasks' = tasks \cup {t}
  BY LimitsAre DEF Page!Begin, Page!CanStart, TasksInv
<1>2. t \in Calls /\ t.no = started + 1 /\ t.answer = Page!Waiting
  <2>1. t = [no |-> started + 1, purpose |-> p, stage |-> st, expected |-> e,
             fallback |-> Page!Displayed, keep |-> hook.session # 0, answer |-> Page!Waiting]
    BY DEF Page!Task
  <2>2. Page!Displayed \in Shown /\ Page!Waiting \in Page!Answers /\ started + 1 \in Nat
    BY <1>1, DisplayedIs, AreAnswers
  <2> DEFINE d == Page!Displayed
             k == hook.session # 0
             w == Page!Waiting
             m == started + 1
  <2>3. k \in BOOLEAN
    OBVIOUS
  <2>4. t = [no |-> m, purpose |-> p, stage |-> st, expected |-> e, fallback |-> d, keep |-> k, answer |-> w]
        /\ d \in Shown /\ w \in Page!Answers /\ m \in Nat
    BY <2>1, <2>2
  <2> HIDE DEF d, k, w, m, t
  <2>5. t \in Calls /\ t.no = m /\ t.answer = w
    BY <2>3, <2>4 DEF Calls
  <2>6. QED
    BY <2>5 DEF m, w
<1> HIDE DEF t
<1>3. IsFiniteSet(tasks') /\ Cardinality(tasks') <= started'
  <2>1. /\ IsFiniteSet(tasks') /\ Cardinality(tasks) \in Nat
        /\ Cardinality(tasks') = IF t \in tasks THEN Cardinality(tasks) ELSE Cardinality(tasks) + 1
    BY <1>1, FS_AddElement, FS_CardinalityType DEF TasksInv
  <2>2. Cardinality(tasks) <= started
    BY DEF TasksInv
  <2>3. QED
    BY <1>1, <2>1, <2>2
<1>4. Page!Waiting # Page!Ok
  BY DEF Page!Waiting, Page!Ok
<1>5. \A u \in tasks' : u \in Calls /\ u.no \in 1 .. started' /\ (u.stage = "refresh" => u.answer # Page!Ok)
  BY <1>1, <1>2, <1>4 DEF TasksInv
<1>6. QED
  BY <1>1, <1>3, <1>5 DEF TasksInv

(* A call gives way to itself, further on. *)
LEMMA Replaces ==
  ASSUME TasksInv, NEW t \in tasks, NEW u \in Calls, u.no = t.no,
         u.stage = "refresh" => u.answer # Page!Ok, Page!Replace(t, u), started' = started
  PROVE  TasksInv'
<1>1. tasks' = (tasks \ {t}) \cup {u}
  BY DEF Page!Replace
<1>2. /\ IsFiniteSet(tasks \ {t}) /\ Cardinality(tasks \ {t}) = Cardinality(tasks) - 1
      /\ Cardinality(tasks) \in Nat
  BY FS_RemoveElement, FS_CardinalityType DEF TasksInv
<1>3. /\ IsFiniteSet(tasks') /\ Cardinality(tasks') <= Cardinality(tasks)
  <2> DEFINE S == tasks \ {t}
  <2>0. IsFiniteSet(S) /\ Cardinality(S) = Cardinality(tasks) - 1 /\ Cardinality(S) \in Nat
    BY <1>2, FS_CardinalityType
  <2>1. /\ IsFiniteSet(S \cup {u})
        /\ Cardinality(S \cup {u}) = IF u \in S THEN Cardinality(S) ELSE Cardinality(S) + 1
    BY <2>0, FS_AddElement
  <2>2. QED
    BY <1>1, <1>2, <2>0, <2>1
<1>4. Cardinality(tasks') \in Nat
  BY <1>3, FS_CardinalityType
<1>5. Cardinality(tasks') <= started
  BY <1>2, <1>3, <1>4 DEF TasksInv
<1>6. \A v \in tasks' : v \in Calls /\ v.no \in 1 .. started /\ (v.stage = "refresh" => v.answer # Page!Ok)
  BY <1>1 DEF TasksInv
<1>7. QED
  BY <1>3, <1>5, <1>6 DEF TasksInv

LEMMA Ends ==
  ASSUME TasksInv, NEW t \in tasks, tasks' = tasks \ {t}, started' = started
  PROVE  TasksInv'
<1>1. /\ IsFiniteSet(tasks') /\ Cardinality(tasks') = Cardinality(tasks) - 1
      /\ Cardinality(tasks) \in Nat
  BY FS_RemoveElement, FS_CardinalityType DEF TasksInv
<1>2. Cardinality(tasks') <= started
  BY <1>1 DEF TasksInv
<1>3. QED
  BY <1>1, <1>2 DEF TasksInv
-----------------------------------------------------------------------------
(* An answer to a lookup *)

LEMMA LoadIs ==
  ASSUME WebShape, StandsInv, NEW t \in Calls, t.answer # Page!Waiting, t.answer # Page!Ok
  PROVE  /\ Page!Load(t) \in Hooks
         /\ Page!Took(t) \in Page!Answers \cup {Page!NoAnswer}
         /\ Page!Load(t).session = Page!Took(t).id
         /\ t.answer.kind = "found" => Page!Load(t).session = t.answer.id /\ Page!Load(t).status = "ready"
<1>0. hook \in Hooks /\ hook.session = last.id
  BY DEF WebShape, Hooks, StandsInv
<1>1. /\ t.answer \in Page!Answers /\ t.answer.id \in Shown
      /\ t.answer.kind \in {"found", "missing", "unauthenticated", "failed"}
      /\ t.answer.kind \in {"missing", "unauthenticated"} => t.answer.id = 0
      /\ t.answer.kind = "failed" <=> t.answer = Page!Failed
  BY CallIs, AnswerIs
<1>2. CASE t.answer.kind = "found"
  <2>1. Page!Load(t) = [session |-> t.answer.id, status |-> "ready", absence |-> "none"]
    BY <1>2 DEF Page!Load
  <2>2. Page!Took(t) = t.answer
    BY <1>1, <1>2 DEF Page!Took
  <2>3. QED
    BY <1>1, <1>2, <2>1, <2>2 DEF Hooks
<1>3. CASE t.answer.kind \in {"missing", "unauthenticated"}
  <2>1. Page!Load(t) = [session |-> 0, status |-> "ready", absence |-> t.answer.kind]
    BY <1>3 DEF Page!Load
  <2>2. Page!Took(t) = t.answer
    BY <1>1, <1>3 DEF Page!Took
  <2>3. QED
    BY <1>1, <1>3, <2>1, <2>2, LimitsAre DEF Hooks
<1>4. CASE t.answer.kind = "failed" /\ t.keep
  <2>1. Page!Load(t) = [hook EXCEPT !.status = "ready"]
    BY <1>4 DEF Page!Load
  <2>2. Page!Took(t) = last
    BY <1>1, <1>4 DEF Page!Took
  <2>3. Page!Load(t) \in Hooks /\ Page!Load(t).session = hook.session
    BY <1>0, <2>1 DEF Hooks
  <2>4. QED
    BY <1>0, <1>4, <2>2, <2>3 DEF WebShape
<1>5. CASE t.answer.kind = "failed" /\ ~t.keep
  <2>1. Page!Load(t) = [session |-> 0, status |-> "error", absence |-> "none"]
    BY <1>5 DEF Page!Load
  <2>2. Page!Took(t) = Page!NoAnswer /\ Page!NoAnswer.id = 0
    BY <1>1, <1>5 DEF Page!Took, Page!NoAnswer
  <2>3. QED
    BY <1>5, <2>1, <2>2, LimitsAre DEF Hooks
<1>6. QED
  BY <1>1, <1>2, <1>3, <1>4, <1>5

Notices == [shown : BOOLEAN, retry : Shown]

(* The notice and the override it leaves: those of before, a message, or the session the
   lookup has found. *)
LEMMA ContinuedIs ==
  ASSUME WebShape, NEW t \in Calls, t.answer # Page!Waiting, t.answer # Page!Ok
  PROVE  /\ Page!Continued(t).override \in {Page!Follow} \cup Shown
         /\ Page!Continued(t).error \in Notices
         /\ Page!Continued(t).error.retry # 0 => Page!Continued(t).error.shown
         /\ \/ /\ Page!Continued(t).override = override /\ Page!Continued(t).error = error
               /\ t.purpose = "lookup"
            \/ Page!Continued(t).error.shown
            \/ t.answer.kind = "found" /\ Page!Continued(t).override = t.answer.id /\ t.answer.id > 0
<1> DEFINE out == Page!Continued(t)
<1>0. ASSUME NEW o, NEW e PROVE Page!Outcomes(o, e).override = o /\ Page!Outcomes(o, e).error = e
  BY DEF Page!Outcomes
<1>1. /\ t.answer \in Page!Answers /\ t.answer.id \in Shown /\ t.expected \in Shown /\ t.fallback \in Shown
      /\ t.answer.kind = "found" => t.answer.id > 0
      /\ t.answer.kind = "failed" <=> t.answer = Page!Failed
  BY CallIs, AnswerIs
<1>2. \A r \in Shown : /\ Page!Message(r) \in Notices /\ Page!Message(r).shown
                       /\ Page!NoError \in Notices /\ Page!NoError.retry = 0
  BY MessageIs DEF Notices
<1>3. /\ override \in {Page!Follow} \cup Shown /\ error \in Notices
      /\ (error.retry # 0 => error.shown) /\ 0 \in Shown
  BY LimitsAre DEF WebShape, Notices
<1>4. CASE t.purpose = "lookup"
  <2>1. out = Page!Outcomes(override, error)
    BY <1>4 DEF Page!Continued
  <2>2. QED
    BY <1>0, <1>3, <1>4, <2>1
<1>5. CASE t.purpose = "retry"
  <2>0. out = Page!Retried(t)
    BY <1>5 DEF Page!Continued
  <2>1. CASE t.answer.kind = "found"
    <3>1. PICK e \in {Page!NoError, Page!Message(t.expected)} : out = Page!Outcomes(t.answer.id, e)
      BY <2>0, <2>1 DEF Page!Retried
    <3>2. out.override = t.answer.id /\ out.error = e
      BY <1>0, <3>1
    <3> HIDE DEF out
    <3>3. QED
      BY <1>1, <1>2, <2>1, <3>1, <3>2 DEF out
  <2>2. CASE t.answer.kind # "found"
    <3>1. PICK o \in {override, 0} : out = Page!Outcomes(o, Page!Message(t.expected))
      BY <2>0, <2>2 DEF Page!Retried
    <3>2. out.override = o /\ out.error = Page!Message(t.expected)
      BY <1>0, <3>1
    <3> HIDE DEF out
    <3>3. QED
      BY <1>1, <1>2, <1>3, <3>1, <3>2 DEF out
  <2>3. QED
    BY <2>1, <2>2
<1>6. CASE t.purpose \notin {"lookup", "retry"}
  <2>0. out = Page!Reconciled(t)
    BY <1>6 DEF Page!Continued
  <2>1. CASE t.answer.kind = "found"
    <3>1. PICK e \in {Page!NoError, Page!Message(t.expected)} : out = Page!Outcomes(t.answer.id, e)
      BY <2>0, <2>1 DEF Page!Reconciled
    <3>2. out.override = t.answer.id /\ out.error = e
      BY <1>0, <3>1
    <3> HIDE DEF out
    <3>3. QED
      BY <1>1, <1>2, <2>1, <3>1, <3>2 DEF out
  <2>2. CASE t.answer.kind # "found"
    <3>1. PICK o \in {t.fallback, t.expected}, r \in {t.expected, 0} :
             out = Page!Outcomes(o, Page!Message(r))
      BY <2>0, <2>2 DEF Page!Reconciled
    <3>2. out.override = o /\ out.error = Page!Message(r)
      BY <1>0, <3>1
    <3> HIDE DEF out
    <3>3. QED
      BY <1>1, <1>2, <1>3, <3>1, <3>2 DEF out
  <2>3. QED
    BY <2>1, <2>2
<1>7. QED
  BY <1>4, <1>5, <1>6

LEMMA LookupArrivesKeeps ==
  ASSUME WebInv, NEW t \in tasks, Page!LookupArrives(t) PROVE WebInv'
<1>0. WebShape /\ TasksInv /\ StandsInv /\ t \in Calls
  BY DEF WebInv, TasksInv
<1> DEFINE o == Page!Continued(t).override
           e == Page!Continued(t).error
           h == Page!Load(t)
<1>1. /\ t.answer # Page!Waiting /\ t.answer # Page!Ok
      /\ Page!Settle(o, h, signedOut) /\ error' = e /\ pending' = Page!Done(t)
      /\ tasks' = tasks \ {t} /\ last' = Page!Took(t)
      /\ UNCHANGED <<created, current, signedIn, started>>
  BY <1>0 DEF Page!LookupArrives, TasksInv, Page!serverVars
<1>2. /\ h \in Hooks /\ last' \in Page!Answers \cup {Page!NoAnswer} /\ h.session = last'.id
      /\ t.answer.kind = "found" => h.session = t.answer.id /\ h.status = "ready"
  BY <1>0, <1>1, LoadIs
<1>3. /\ o \in {Page!Follow} \cup Shown /\ e \in Notices /\ (e.retry # 0 => e.shown)
      /\ \/ o = override /\ e = error /\ t.purpose = "lookup"
         \/ e.shown
         \/ t.answer.kind = "found" /\ o = t.answer.id /\ t.answer.id > 0
  BY <1>0, <1>1, ContinuedIs
<1>4. signedOut \in BOOLEAN
  BY <1>0 DEF WebShape
<1> HIDE DEF o, e, h
<1>5. /\ hook' = h /\ signedOut' = signedOut /\ override' \in {Page!Follow} \cup Shown
      /\ override' = o \/ override' = Page!Follow
      /\ o > 0 /\ h.status = "ready" /\ ~signedOut /\ h.session = o => override' = Page!Follow
      /\ dismissed' \in BOOLEAN /\ tried' \in BOOLEAN
      /\ ~dismissed' /\ override' # Page!Follow => ~dismissed
  BY <1>0, <1>1, <1>2, <1>3, <1>4, Settles
<1>6. TasksInv'
  BY <1>0, <1>1, Ends
<1>7. WebShape'
  <2>1. pending' \in {"none", "new-session", "reset", "logout"}
    BY <1>0, <1>1 DEF Page!Done, WebShape
  <2>2. QED
    BY <1>0, <1>1, <1>2, <1>3, <1>4, <1>5, <2>1 DEF WebShape, Hooks, Notices
<1>8. StandsInv'
  <2>1. hook'.session = last'.id
    BY <1>2, <1>5
  <2>2. ASSUME override' # Page!Follow, ~signedOut', ~dismissed'
        PROVE  error'.shown \/ \E u \in tasks' : LookedUp(u)
    <3>1. ~(t.answer.kind = "found" /\ o = t.answer.id /\ t.answer.id > 0)
      BY <1>2, <1>5, <2>2
    <3>2. CASE e.shown
      BY <1>1, <3>2
    <3>3. CASE o = override /\ e = error /\ t.purpose = "lookup"
      <4>1. error.shown \/ \E u \in tasks : LookedUp(u)
        BY <1>0, <1>5, <2>2, <3>3 DEF StandsInv
      <4>2. ~LookedUp(t)
        BY <3>3 DEF LookedUp
      <4>3. QED
        BY <1>1, <3>3, <4>1, <4>2
    <3>4. QED
      BY <1>3, <3>1, <3>2, <3>3
  <2>3. QED
    BY <2>1, <2>2 DEF StandsInv
<1>9. QED
  BY <1>6, <1>7, <1>8 DEF WebInv
-----------------------------------------------------------------------------
(* The other steps *)

LEMMA CallArrivesKeeps ==
  ASSUME WebInv, NEW t \in tasks, Page!CallArrives(t) PROVE WebInv'
<1>0. WebShape /\ TasksInv /\ StandsInv /\ t \in Calls
  BY DEF WebInv, TasksInv
<1>1. /\ t.stage = "call" /\ UNCHANGED <<created, current, signedIn, started, error, last>>
  BY DEF Page!CallArrives, Page!serverVars
<1>2. Page!Waiting \in Page!Answers /\ Page!Waiting # Page!Ok /\ t.expected \in Shown
      /\ t.answer.id \in Shown /\ t.purpose \in Purposes /\ "lookup" \in Purposes
  BY <1>0, AreAnswers, CallIs, AnswerIs DEF Purposes
<1>3. /\ Page!Loading \in Hooks /\ Page!Loading.session = hook.session /\ 0 \in Shown
      /\ signedOut \in BOOLEAN /\ override \in {Page!Follow} \cup Shown
  BY <1>0, LoadingHook, LimitsAre DEF WebShape
<1>4. ~LookedUp(t)
  BY <1>1 DEF LookedUp
<1>5. /\ pending' \in {"none", "new-session", "reset", "logout"}
  BY <1>0 DEF Page!CallArrives, Page!Done, WebShape
<1>6. ASSUME NEW o \in {Page!Follow} \cup Shown, NEW out \in BOOLEAN, NEW p \in Purposes, NEW x \in Shown,
             Page!Settle(o, Page!Loading, out),
             Page!Replace(t, Going(t, p, "refresh", x, Page!Waiting)),
             o = override \/ p = "new-session" \/ out,
             out = signedOut \/ out
      PROVE  WebInv'
  <2> DEFINE u == Going(t, p, "refresh", x, Page!Waiting)
  <2>1. /\ hook' = Page!Loading /\ signedOut' = out /\ override' \in {Page!Follow} \cup Shown
        /\ override' = o \/ override' = Page!Follow
        /\ dismissed' \in BOOLEAN /\ tried' \in BOOLEAN
        /\ ~dismissed' /\ override' # Page!Follow => ~dismissed
    BY <1>0, <1>3, <1>6, Settles
  <2>2. u \in Calls /\ u.no = t.no /\ u.purpose = p /\ u.stage = "refresh" /\ u.answer = Page!Waiting
    BY <1>0, <1>2, GoingIs
  <2>3. Page!Replace(t, u)
    BY <1>6
  <2> HIDE DEF u
  <2>4. TasksInv'
    BY <1>0, <1>1, <1>2, <2>2, <2>3, Replaces
  <2>5. WebShape'
    BY <1>0, <1>1, <1>3, <1>5, <2>1 DEF WebShape, Hooks
  <2>6. StandsInv'
    <3>1. hook'.session = last'.id
      BY <1>0, <1>1, <1>3, <2>1 DEF StandsInv
    <3>2. ASSUME override' # Page!Follow, ~signedOut', ~dismissed'
          PROVE  error'.shown \/ \E v \in tasks' : LookedUp(v)
      <4>0. tasks' = (tasks \ {t}) \cup {u} /\ ~out /\ override' = o
        BY <2>1, <2>3, <3>2 DEF Page!Replace
      <4>1. CASE p = "new-session"
        BY <2>2, <4>0, <4>1 DEF LookedUp
      <4>2. CASE o = override
        <5>1. error.shown \/ \E v \in tasks : LookedUp(v)
          BY <1>0, <1>6, <2>1, <3>2, <4>0, <4>2 DEF StandsInv
        <5>2. QED
          BY <1>1, <1>4, <4>0, <5>1
      <4>3. QED
        BY <1>6, <4>0, <4>1, <4>2
    <3>3. QED
      BY <3>1, <3>2 DEF StandsInv
  <2>7. QED
    BY <2>4, <2>5, <2>6 DEF WebInv
<1>7. CASE t.purpose = "new-session" /\ Page!Replace(t, [t EXCEPT !.stage = "refresh", !.expected = t.answer.id, !.answer = Page!Waiting])
           /\ Page!Settle(IF t.fallback = 0 THEN t.answer.id ELSE override, Page!Loading, signedOut)
  <2>1. Page!Replace(t, Going(t, t.purpose, "refresh", t.answer.id, Page!Waiting))
    BY <1>0, <1>7, CreateGoesOn
  <2> DEFINE o == IF t.fallback = 0 THEN t.answer.id ELSE override
  <2>2. o \in {Page!Follow} \cup Shown /\ Page!Settle(o, Page!Loading, signedOut)
    BY <1>2, <1>3, <1>7
  <2> HIDE DEF o
  <2>3. QED
    BY <1>2, <1>3, <1>6, <1>7, <2>1, <2>2
<1>8. CASE t.purpose = "reset" /\ Page!Replace(t, [t EXCEPT !.stage = "refresh", !.answer = Page!Waiting])
           /\ Page!Settle(override, Page!Loading, signedOut)
  <2>1. Page!Replace(t, Going(t, t.purpose, "refresh", t.expected, Page!Waiting))
    BY <1>0, <1>8, GoesToLookup
  <2>2. QED
    BY <1>2, <1>3, <1>6, <1>8, <2>1
<1>9. CASE t.purpose = "logout" /\ Page!Replace(t, [t EXCEPT !.purpose = "lookup", !.stage = "refresh", !.answer = Page!Waiting])
           /\ Page!Settle(0, Page!Loading, TRUE)
  <2>1. Page!Replace(t, Going(t, "lookup", "refresh", t.expected, Page!Waiting))
    BY <1>0, <1>9, LogoutGoesOn
  <2>2. QED
    BY <1>2, <1>3, <1>6, <1>9, <2>1
<1>10. QED
  BY <1>7, <1>8, <1>9 DEF Page!CallArrives

LEMMA CallFailsKeeps ==
  ASSUME WebInv, NEW t \in tasks, Page!CallFails(t) PROVE WebInv'
<1>0. WebShape /\ TasksInv /\ StandsInv
  BY DEF WebInv
<1>1. /\ t.stage = "call" /\ tasks' = tasks \ {t} /\ pending' = Page!Done(t)
      /\ error' = error \/ error' = Page!Message(0)
      /\ UNCHANGED <<created, current, signedIn, hook, override, signedOut, tried, started, last, dismissed>>
  BY DEF Page!CallFails, Page!serverVars
<1>2. TasksInv'
  BY <1>0, <1>1, Ends
<1>3. /\ error' \in [shown : BOOLEAN, retry : Shown] /\ (error'.retry # 0 => error'.shown)
      /\ error.shown => error'.shown
  <2>1. /\ Page!Message(0) \in [shown : BOOLEAN, retry : Shown] /\ Page!Message(0).shown
    BY LimitsAre, MessageIs
  <2>2. QED
    BY <1>0, <1>1, <2>1 DEF WebShape
<1>4. pending' \in {"none", "new-session", "reset", "logout"}
  BY <1>0, <1>1 DEF WebShape, Page!Done
<1>5. WebShape'
  BY <1>0, <1>1, <1>3, <1>4 DEF WebShape
<1>6. StandsInv'
  BY <1>0, <1>1, <1>3 DEF StandsInv, LookedUp
<1>7. QED
  BY <1>2, <1>5, <1>6 DEF WebInv

LEMMA ServeKeeps ==
  ASSUME WebInv, NEW t \in tasks, Page!ServeLookup(t) \/ Page!ServeCall(t) PROVE WebInv'
<1>0. WebShape /\ TasksInv /\ StandsInv /\ t \in Calls
  BY DEF WebInv, TasksInv
<1>1. UNCHANGED <<hook, override, error, pending, signedOut, tried, started, last, dismissed>>
  BY DEF Page!ServeLookup, Page!ServeCall
<1>2. /\ created' \in Shown /\ current' \in {0, created'} /\ signedIn' \in BOOLEAN
  <2>1. \/ UNCHANGED <<current, created, signedIn>>
        \/ created < MaxSessions /\ created' = created + 1 /\ current' = created' /\ signedIn' = signedIn
        \/ UNCHANGED <<current, created>> /\ signedIn' = FALSE
    BY DEF Page!ServeLookup, Page!ServeCall, Page!serverVars
  <2>2. /\ created \in Shown /\ current \in {0, created} /\ signedIn \in BOOLEAN
        /\ created < MaxSessions => created + 1 \in Shown
    BY <1>0, LimitsAre DEF WebShape, Shown
  <2>3. QED
    BY <2>1, <2>2
<1>3. PICK a \in Page!Answers : /\ Page!Answer(t, a)
                                /\ t.stage = "refresh" => a # Page!Ok
  <2>1. CASE Page!ServeLookup(t)
    <3>1. Page!Current \in Page!Answers /\ Page!Current # Page!Ok
      <4>1. current = 0 \/ current \in 1 .. MaxSessions
        BY <1>0, LimitsAre DEF WebShape, Shown
      <4>2. QED
        BY <4>1, AreAnswers DEF Page!Current
    <3>2. Page!Failed \in Page!Answers /\ Page!Failed # Page!Ok
      BY AreAnswers
    <3>3. \E a \in {Page!Current, Page!Failed} : Page!Answer(t, a)
      BY <2>1 DEF Page!ServeLookup
    <3>4. QED
      BY <3>1, <3>2, <3>3
  <2>2. CASE Page!ServeCall(t)
    <3>1. t.stage # "refresh"
      BY <2>2 DEF Page!ServeCall
    <3>2. Page!Answer(t, Page!Ok) \/ Page!Answer(t, Page!Failed)
          \/ (created < MaxSessions /\ Page!Answer(t, Page!Found(created + 1)))
      BY <2>2 DEF Page!ServeCall
    <3>3. created < MaxSessions => created + 1 \in 1 .. MaxSessions
      BY <1>0, LimitsAre DEF WebShape, Shown
    <3>4. QED
      BY <3>1, <3>2, <3>3, AreAnswers
  <2>3. QED
    BY <2>1, <2>2
<1> DEFINE u == Going(t, t.purpose, t.stage, t.expected, a)
<1>4. Page!Replace(t, u)
  BY <1>0, <1>3, Answered DEF Page!Answer
<1>5. u \in Calls /\ u.no = t.no /\ u.purpose = t.purpose /\ u.stage = t.stage /\ u.answer = a
  <2>1. t.purpose \in Purposes /\ t.stage \in {"refresh", "call"} /\ t.expected \in Shown
    BY <1>0, CallIs
  <2>2. QED
    BY <1>0, <2>1, GoingIs
<1> HIDE DEF u
<1>6. TasksInv'
  BY <1>0, <1>1, <1>3, <1>4, <1>5, Replaces
<1>7. WebShape'
  BY <1>0, <1>1, <1>2 DEF WebShape
<1>8. StandsInv'
  <2>1. \A v \in tasks : LookedUp(v) => \E w \in tasks' : LookedUp(w)
    BY <1>4, <1>5 DEF LookedUp, Page!Replace
  <2>2. QED
    BY <1>0, <1>1, <2>1 DEF StandsInv
<1>9. QED
  BY <1>6, <1>7, <1>8 DEF WebInv

(* The steps of the user and of the terminal that start a lookup. *)
LEMMA LookupStarts ==
  ASSUME WebInv, Page!TryAgain \/ Page!RetrySync \/ Page!TerminalLost PROVE WebInv'
<1>0. WebShape /\ TasksInv /\ StandsInv
  BY DEF WebInv
<1>1. /\ Page!Loading \in Hooks /\ Page!Loading.session = hook.session /\ 0 \in Shown
      /\ signedOut \in BOOLEAN /\ override \in {Page!Follow} \cup Shown
      /\ error \in Notices /\ error.retry \in Shown /\ hook \in Hooks
  BY <1>0, LoadingHook, LimitsAre DEF WebShape, Notices, Hooks
<1>2. TasksInv' /\ tasks \subseteq tasks'
  BY <1>0, <1>1, Begins DEF Page!TryAgain, Page!RetrySync, Page!TerminalLost, Purposes
<1>3. UNCHANGED <<created, current, signedIn, pending, last>>
  BY DEF Page!TryAgain, Page!RetrySync, Page!TerminalLost, Page!serverVars
<1>4. /\ hook' = Page!Loading /\ signedOut' = signedOut /\ override' \in {Page!Follow} \cup Shown
      /\ override' = override \/ override' = Page!Follow
      /\ dismissed' \in BOOLEAN /\ tried' \in BOOLEAN
      /\ ~dismissed' /\ override' # Page!Follow => ~dismissed
  <2>1. CASE Page!TerminalLost
    BY <1>0, <1>1, <2>1 DEF Page!TerminalLost, WebShape
  <2>2. CASE Page!TryAgain \/ Page!RetrySync
    <3>1. Page!Settle(override, Page!Loading, signedOut)
      BY <2>2 DEF Page!TryAgain, Page!RetrySync
    <3>2. QED
      BY <1>0, <1>1, <3>1, Settles
  <2>3. QED
    BY <2>1, <2>2
<1>5. /\ error' \in Notices /\ (error'.retry # 0 => error'.shown) /\ (error.shown => error'.shown)
  <2>1. CASE Page!TryAgain
    <3>1. ~error.shown
      BY <2>1 DEF Page!TryAgain, Page!LookupShell, Page!RecoveryShell, Page!LoggedOutAnswer
    <3>2. error' = Page!NoError
      BY <2>1 DEF Page!TryAgain
    <3>3. QED
      BY <1>1, <3>1, <3>2, MessageIs DEF Notices
  <2>2. CASE ~Page!TryAgain
    BY <1>0, <1>1, <2>2 DEF Page!RetrySync, Page!TerminalLost, WebShape
  <2>3. QED
    BY <2>1, <2>2
<1>6. WebShape'
  BY <1>0, <1>3, <1>4, <1>1, <1>5 DEF WebShape, Hooks, Notices
<1>7. StandsInv'
  <2>1. hook'.session = last'.id
    BY <1>0, <1>1, <1>3, <1>4 DEF StandsInv
  <2>2. QED
    BY <1>0, <1>2, <1>4, <1>5, <2>1 DEF StandsInv
<1>8. QED
  BY <1>2, <1>6, <1>7 DEF WebInv

(* The steps that remove the notice. *)
LEMMA UserDismisses ==
  ASSUME WebInv, Page!OpenPicker \/ Page!NewSession \/ Page!Reset \/ Page!Logout PROVE WebInv'
<1>0. WebShape /\ TasksInv /\ StandsInv
  BY DEF WebInv
<1>1. /\ Page!Dismiss /\ UNCHANGED <<created, current, signedIn, hook, override, signedOut, tried, last>>
  BY DEF Page!OpenPicker, Page!NewSession, Page!Reset, Page!Logout, Page!serverVars
<1>2. TasksInv'
  <2>1. 0 \in Shown /\ Page!Displayed \in Shown
    BY <1>0, LimitsAre, DisplayedIs
  <2>2. CASE Page!OpenPicker
    BY <1>0, <2>2 DEF Page!OpenPicker, TasksInv
  <2>3. CASE Page!NewSession \/ Page!Reset \/ Page!Logout
    BY <1>0, <2>1, <2>3, Begins DEF Page!NewSession, Page!Reset, Page!Logout, Purposes
  <2>4. QED
    BY <2>2, <2>3
<1>3. /\ error' = Page!NoError /\ dismissed' = (override # Page!Follow)
      /\ pending' \in {"none", "new-session", "reset", "logout"}
  BY <1>0, <1>1 DEF Page!Dismiss, Page!OpenPicker, Page!NewSession, Page!Reset, Page!Logout, WebShape
<1>4. /\ Page!NoError \in [shown : BOOLEAN, retry : Shown] /\ Page!NoError.retry = 0
  BY LimitsAre, MessageIs
<1>5. WebShape'
  BY <1>0, <1>1, <1>3, <1>4 DEF WebShape
<1>6. StandsInv'
  BY <1>0, <1>1, <1>3 DEF StandsInv
<1>7. QED
  BY <1>2, <1>5, <1>6 DEF WebInv

LEMMA ServerKeeps ==
  ASSUME WebInv, Page!ServerChanges \/ Page!TerminalBack PROVE WebInv'
<1>0. WebShape /\ TasksInv /\ StandsInv
  BY DEF WebInv
<1>1. UNCHANGED <<hook, override, error, pending, signedOut, tasks, started, last, dismissed>>
  BY DEF Page!ServerChanges, Page!TerminalBack
<1>2. /\ created' \in Shown /\ current' \in {0, created'} /\ signedIn' \in BOOLEAN /\ tried' \in BOOLEAN
  <2>1. /\ created \in Shown /\ current \in {0, created} /\ signedIn \in BOOLEAN /\ tried \in BOOLEAN
        /\ created < MaxSessions => created + 1 \in Shown
    BY <1>0, LimitsAre DEF WebShape, Shown
  <2>2. QED
    BY <2>1 DEF Page!ServerChanges, Page!TerminalBack, Page!serverVars
<1>3. WebShape' /\ TasksInv' /\ StandsInv'
  BY <1>0, <1>1, <1>2 DEF WebShape, TasksInv, StandsInv
<1>4. QED
  BY <1>3 DEF WebInv

LEMMA WebInit == Page!Init => WebInv
<1> SUFFICES ASSUME Page!Init PROVE WebInv
  OBVIOUS
<1> DEFINE t == [no |-> 1, purpose |-> "lookup", stage |-> "refresh", expected |-> 0,
                 fallback |-> 0, keep |-> FALSE, answer |-> Page!Waiting]
<1>1. tasks = {t} /\ started = 1
  BY DEF Page!Init
<1>2. t \in Calls /\ t.no = 1 /\ t.answer # Page!Ok
  <2>1. Page!Waiting \in Page!Answers /\ Page!Waiting # Page!Ok /\ 0 \in Shown
    BY AreAnswers, LimitsAre
  <2>2. QED
    BY <2>1 DEF Calls, Purposes
<1> HIDE DEF t
<1>3. IsFiniteSet(tasks) /\ Cardinality(tasks) = 1
  BY <1>1, FS_Singleton
<1>4. TasksInv
  BY <1>1, <1>2, <1>3, LimitsAre DEF TasksInv
<1>5. WebShape
  <2>1. Page!NoError \in [shown : BOOLEAN, retry : Shown] /\ Page!NoError.retry = 0
    BY LimitsAre, MessageIs
  <2>2. created \in Shown /\ current \in {0, created}
    BY LimitsAre DEF Page!Init, Shown
  <2>3. QED
    BY <2>1, <2>2, LimitsAre DEF Page!Init, WebShape
<1>6. StandsInv
  BY DEF Page!Init, StandsInv, Page!NoAnswer
<1>7. QED
  BY <1>4, <1>5, <1>6 DEF WebInv

LEMMA WebAlways == Parts => []WebInv
<1>1. PartsInit => WebInv
  BY WebInit DEF PartsInit
<1>2. WebInv /\ [PartsNext]_allVars => WebInv'
  <2> SUFFICES ASSUME WebInv, [PartsNext]_allVars PROVE WebInv'
    OBVIOUS
  <2>1. Page!Next \/ UNCHANGED pageVars
    BY DEF PartsNext, allVars
  <2>2. CASE Page!Next
    <3>1. \/ Page!TryAgain \/ Page!RetrySync \/ Page!TerminalLost
          \/ Page!OpenPicker \/ Page!NewSession \/ Page!Reset \/ Page!Logout
          \/ Page!ServerChanges \/ Page!TerminalBack
          \/ \E t \in tasks : \/ Page!ServeLookup(t) \/ Page!ServeCall(t)
                              \/ Page!LookupArrives(t) \/ Page!CallArrives(t) \/ Page!CallFails(t)
      BY <2>2 DEF Page!Next, Page!User
    <3>2. QED
      BY <3>1, LookupStarts, UserDismisses, ServerKeeps, ServeKeeps, LookupArrivesKeeps,
         CallArrivesKeeps, CallFailsKeeps
  <2>3. CASE UNCHANGED pageVars
    <3>1. UNCHANGED <<current, created, signedIn, hook, override, error, pending, signedOut, tried,
                      tasks, started, last, dismissed>>
      BY <2>3 DEF pageVars
    <3>2. QED
      BY <3>1 DEF WebInv, WebShape, TasksInv, StandsInv
  <2>4. QED
    BY <2>1, <2>2, <2>3
<1>3. QED
  BY <1>1, <1>2, PTL DEF Parts

(* A page at rest shows what the last lookup returned, or says that it does not; unless
   the user has removed the notice or a failed lookup made the page forget. *)
THEOREM RestIsReported == Parts => []SettledReported
<1>1. WebInv => SettledReported
  <2> SUFFICES ASSUME WebInv, tasks = {}, ~signedOut, ~dismissed
               PROVE  Page!Displayed = last.id \/ error.shown
    BY DEF SettledReported, Page!SettledReported
  <2>1. hook.session = last.id /\ (override # Page!Follow => error.shown)
    BY DEF WebInv, StandsInv
  <2>2. override = Page!Follow => Page!Displayed = hook.session
    BY DEF Page!Displayed, Page!Effective
  <2>3. QED
    BY <2>1, <2>2
<1>2. QED
  BY <1>1, WebAlways, PTL
-----------------------------------------------------------------------------
(* The repository card *)

Fetched == [session : Sessions, context : Nat, state : {"asked", "answered", "over"}, content : Nat]
CommandsRun == [session : Sessions, before : Nat, after : Nat]
CardFields == {"status", "snapshot", "error", "attribution", "outcome", "refreshing"}

(* The shells: content grows by what has been typed and by resets, and a command that
   may still change the repository has been counted. *)
ShellInv ==
    /\ repo \in [Sessions -> Nat] /\ running \in [Sessions -> Nat]
    /\ log \in Seq(CommandsRun)
    /\ typed \in 0 .. MaxCommands /\ resets \in 0 .. MaxResets
    /\ resetting \in Sessions \cup {NoSession}
    /\ \A s \in Sessions :
          /\ repo[s] <= typed + resets
          /\ running[s] # Card!Idle => running[s] <= repo[s]
          /\ running[s] = repo[s] => repo[s] < typed + resets
    /\ \A c \in 1 .. Len(log) :
          log[c].before <= repo[log[c].session] /\ log[c].after <= repo[log[c].session]

(* What the page has heard is of the session it shows. *)
OfPage(c) == c \in 1 .. Len(log) /\ log[c].session = page

PageInv ==
    /\ page \in Sessions \cup {NoSession}
    /\ exits \in Seq(Nat) /\ history \in Seq(Nat) /\ noticed \in 0 .. Len(history)
    /\ \A i \in 1 .. Len(exits) : OfPage(exits[i])
    /\ \A i \in 1 .. Len(history) : OfPage(history[i])
    /\ context \in Nat /\ (context # 0 => OfPage(context))

(* Not older than what the page has noticed. *)
AfterNoticed(content) == \A i \in 1 .. noticed : log[history[i]].after <= content

(* A fetch that is not over is the last, of the session that is shown; its answer is
   newer than the command it was made for, those noticed, and what is shown. *)
FetchInv ==
    /\ fetches \in Seq(Fetched)
    /\ \A i \in 1 .. Len(fetches) :
          /\ fetches[i].content <= repo[fetches[i].session]
          /\ fetches[i].context # 0 => /\ fetches[i].context \in 1 .. Len(log)
                                       /\ log[fetches[i].context].session = fetches[i].session
          /\ fetches[i].state # "over" => i = Len(fetches) /\ fetches[i].session = page
          /\ fetches[i].state = "answered" =>
                /\ AfterNoticed(fetches[i].content)
                /\ fetches[i].context # 0 => log[fetches[i].context].after <= fetches[i].content
                /\ card.snapshot # Card!NoSnapshot => card.snapshot.content <= fetches[i].content

CardShape ==
    /\ DOMAIN card = CardFields
    /\ card.snapshot \in [session : Sessions \cup {NoSession}, content : Nat]
    /\ card.status \in {"idle", "loading", "stale", "error", "ready"}
    /\ card.attribution \in Nat
    /\ lastSnapshot \in [session : Sessions \cup {NoSession}, content : Nat]

(* A snapshot that is shown, or remembered, is of the session that is shown. *)
CardInv ==
    /\ CardShape
    /\ card.snapshot # Card!NoSnapshot =>
          card.snapshot.session = page /\ page \in Sessions /\ card.snapshot.content <= repo[page]
    /\ lastSnapshot # Card!NoSnapshot =>
          lastSnapshot.session \in Sessions /\ lastSnapshot.content <= repo[lastSnapshot.session]
    /\ card.status = "ready" => card.snapshot # Card!NoSnapshot /\ AfterNoticed(card.snapshot.content)
    /\ card.attribution # 0 =>
          /\ card.attribution \in 1 .. Len(log) /\ card.snapshot # Card!NoSnapshot
          /\ log[card.attribution].session = card.snapshot.session
          /\ log[card.attribution].after <= card.snapshot.content
    /\ card.refreshing => \E i \in 1 .. Len(fetches) : fetches[i].state # "over"

RepoCardInv == ShellInv /\ PageInv /\ FetchInv /\ CardInv

-----------------------------------------------------------------------------
(* Sequences and records *)

LEMMA Changed ==
  ASSUME NEW f \in Fetched, NEW x, NEW y
  PROVE  [f EXCEPT !.state = x, !.content = y]
            = [session |-> f.session, context |-> f.context, state |-> x, content |-> y]
<1>1. ASSUME NEW a, NEW b, NEW c, NEW d, f = [session |-> a, context |-> b, state |-> c, content |-> d]
      PROVE  [f EXCEPT !.state = x, !.content = y] = [session |-> a, context |-> b, state |-> x, content |-> y]
  <2>1. [f EXCEPT !.state = x] = [session |-> a, context |-> b, state |-> x, content |-> d]
    BY <1>1
  <2>2. ASSUME NEW h, h = [session |-> a, context |-> b, state |-> x, content |-> d]
        PROVE  [h EXCEPT !.content = y] = [session |-> a, context |-> b, state |-> x, content |-> y]
    BY <2>2
  <2>3. [[f EXCEPT !.state = x] EXCEPT !.content = y]
           = [session |-> a, context |-> b, state |-> x, content |-> y]
    BY <2>1, <2>2
  <2>4. [f EXCEPT !.state = x, !.content = y] = [[f EXCEPT !.state = x] EXCEPT !.content = y]
    OBVIOUS
  <2>5. QED
    BY <2>3, <2>4
<1>2. f = [session |-> f.session, context |-> f.context, state |-> f.state, content |-> f.content]
  BY DEF Fetched
<1>3. QED
  BY <1>1, <1>2

LEMMA IsFetched ==
  ASSUME NEW f \in Fetched, NEW x \in {"asked", "answered", "over"}, NEW y \in Nat
  PROVE  [session |-> f.session, context |-> f.context, state |-> x, content |-> y] \in Fetched
<1>1. f.session \in Sessions /\ f.context \in Nat
  BY DEF Fetched
<1>2. QED
  BY <1>1 DEF Fetched

LEMMA Replaced ==
  ASSUME NEW S, NEW q \in Seq(S), NEW i \in 1 .. Len(q), NEW x \in S
  PROVE  /\ [q EXCEPT ![i] = x] \in Seq(S) /\ Len([q EXCEPT ![i] = x]) = Len(q)
         /\ [q EXCEPT ![i] = x][i] = x
         /\ \A j \in 1 .. Len(q) \ {i} : [q EXCEPT ![i] = x][j] = q[j]
  OBVIOUS

(* Every fetch of before is over. *)
AllOver(old, new) ==
    \A i \in 1 .. Len(old) :
        new[i] = [session |-> old[i].session, context |-> old[i].context, state |-> "over", content |-> 0]

LEMMA AbortedIs ==
  ASSUME fetches \in Seq(Fetched)
  PROVE  /\ Card!Aborted \in Seq(Fetched) /\ Len(Card!Aborted) = Len(fetches)
         /\ AllOver(fetches, Card!Aborted)
<1> DEFINE n == Len(fetches)
<1>1. n \in Nat /\ DOMAIN fetches = 1 .. n /\ \A i \in 1 .. n : fetches[i] \in Fetched
  OBVIOUS
<1>2. \A i \in 1 .. n : Card!Aborted[i] = [fetches[i] EXCEPT !.state = "over", !.content = 0]
  BY <1>1 DEF Card!Aborted
<1>3. AllOver(fetches, Card!Aborted)
  BY <1>1, <1>2, Changed DEF AllOver
<1>4. \A i \in 1 .. n : Card!Aborted[i] \in Fetched
  BY <1>1, <1>3, IsFetched DEF AllOver
<1>5. Card!Aborted \in [1 .. n -> Fetched]
  <2>1. DOMAIN Card!Aborted = 1 .. n /\ Card!Aborted = [i \in 1 .. n |-> Card!Aborted[i]]
    BY <1>1 DEF Card!Aborted
  <2>2. QED
    BY <1>4, <2>1
<1>6. QED
  BY <1>1, <1>3, <1>5

LEMMA FetchIs ==
  ASSUME fetches \in Seq(Fetched), NEW s \in Sessions, NEW ctx \in Nat, Card!Fetch(s, ctx)
  PROVE  /\ fetches' \in Seq(Fetched) /\ Len(fetches') = Len(fetches) + 1
         /\ AllOver(fetches, fetches')
         /\ fetches'[Len(fetches')] = [session |-> s, context |-> ctx, state |-> "asked", content |-> 0]
<1> DEFINE new == [session |-> s, context |-> ctx, state |-> "asked", content |-> 0]
           a == Card!Aborted
<1>1. a \in Seq(Fetched) /\ Len(a) = Len(fetches) /\ AllOver(fetches, a)
  BY AbortedIs
<1>2. new \in Fetched
  BY DEF Fetched
<1>3. fetches' = Append(a, new)
  BY DEF Card!Fetch
<1> HIDE DEF new, a
<1>4. /\ fetches' \in Seq(Fetched) /\ Len(fetches') = Len(a) + 1 /\ fetches'[Len(a) + 1] = new
      /\ \A i \in 1 .. Len(a) : fetches'[i] = a[i]
  BY <1>1, <1>2, <1>3
<1>5. QED
  BY <1>1, <1>4 DEF AllOver, new

LEMMA TakenIs ==
  ASSUME fetches \in Seq(Fetched), NEW i \in 1 .. Len(fetches), Card!Take(i)
  PROVE  /\ fetches' \in Seq(Fetched) /\ Len(fetches') = Len(fetches)
         /\ fetches'[i] = [session |-> fetches[i].session, context |-> fetches[i].context,
                           state |-> "over", content |-> 0]
         /\ \A j \in 1 .. Len(fetches) \ {i} : fetches'[j] = fetches[j]
<1>1. fetches[i] \in Fetched
  OBVIOUS
<1>2. fetches' = [fetches EXCEPT ![i] = [fetches[i] EXCEPT !.state = "over", !.content = 0]]
  BY DEF Card!Take
<1>3. [fetches[i] EXCEPT !.state = "over", !.content = 0]
         = [session |-> fetches[i].session, context |-> fetches[i].context, state |-> "over", content |-> 0]
  BY <1>1, Changed
<1>4. [session |-> fetches[i].session, context |-> fetches[i].context, state |-> "over", content |-> 0] \in Fetched
  BY <1>1, IsFetched
<1> DEFINE x == [session |-> fetches[i].session, context |-> fetches[i].context, state |-> "over", content |-> 0]
<1> HIDE DEF x
<1>5. fetches' = [fetches EXCEPT ![i] = x] /\ x \in Fetched
  BY <1>2, <1>3, <1>4 DEF x
<1>6. QED
  BY <1>5, Replaced DEF x

LEMMA AnsweredIs ==
  ASSUME fetches \in Seq(Fetched), NEW i \in 1 .. Len(fetches), Card!Answer(i),
         repo \in [Sessions -> Nat]
  PROVE  /\ fetches' \in Seq(Fetched) /\ Len(fetches') = Len(fetches)
         /\ fetches'[i] = [session |-> fetches[i].session, context |-> fetches[i].context,
                           state |-> "answered", content |-> repo[fetches[i].session]]
         /\ \A j \in 1 .. Len(fetches) \ {i} : fetches'[j] = fetches[j]
<1>1. fetches[i] \in Fetched
  OBVIOUS
<1> DEFINE now == repo[fetches[i].session]
<1>2. fetches' = [fetches EXCEPT ![i] = [fetches[i] EXCEPT !.state = "answered", !.content = now]]
  BY DEF Card!Answer
<1>3. now \in Nat
  BY <1>1 DEF Fetched
<1> HIDE DEF now
<1>4. [fetches[i] EXCEPT !.state = "answered", !.content = now]
         = [session |-> fetches[i].session, context |-> fetches[i].context, state |-> "answered", content |-> now]
  BY <1>1, Changed
<1>5. [session |-> fetches[i].session, context |-> fetches[i].context, state |-> "answered", content |-> now] \in Fetched
  BY <1>1, <1>3, IsFetched
<1> DEFINE x == [session |-> fetches[i].session, context |-> fetches[i].context, state |-> "answered", content |-> now]
<1> HIDE DEF x
<1>6. fetches' = [fetches EXCEPT ![i] = x] /\ x \in Fetched
  BY <1>2, <1>4, <1>5 DEF x
<1>7. QED
  BY <1>6, Replaced DEF x, now
-----------------------------------------------------------------------------
(* The shells *)

ShellsKept == UNCHANGED <<repo, log, running, typed, resetting, resets>>

(* Content and the log only grow. *)
Grows ==
    /\ \A s \in Sessions : repo[s] <= repo'[s]
    /\ Len(log) <= Len(log')
    /\ \A c \in 1 .. Len(log) : log'[c] = log[c]

LEMMA BoundsAre ==
  /\ MaxCommands \in Nat /\ MaxResets \in Nat /\ NoSession \notin Sessions
  /\ Card!Idle = MaxCommands + MaxResets + 1
  BY PageAssumption DEF Card!Idle

LEMMA ShellInit == Card!Init => ShellInv
<1> SUFFICES ASSUME Card!Init PROVE ShellInv
  OBVIOUS
<1>1. QED
  BY BoundsAre DEF Card!Init, ShellInv

LEMMA BeginShell ==
  ASSUME ShellInv, PageInv, Card!Begin PROVE ShellInv' /\ Grows
<1>1. page \in Sessions
  BY DEF PageInv, Card!Begin
<1>2. /\ running' \in [Sessions -> Nat] /\ running'[page] = repo[page]
      /\ \A s \in Sessions \ {page} : running'[s] = running[s]
      /\ typed' = typed + 1 /\ typed' \in 0 .. MaxCommands
  BY <1>1, BoundsAre DEF Card!Begin, ShellInv
<1>3. /\ UNCHANGED <<repo, log, resets, resetting>>
  BY DEF Card!Begin, Card!resetVars
<1>4. ASSUME NEW s \in Sessions
      PROVE  /\ repo[s] <= typed' + resets
             /\ running'[s] # Card!Idle => running'[s] <= repo[s]
             /\ running'[s] = repo[s] => repo[s] < typed' + resets
  <2>1. repo[s] <= typed + resets /\ (running[s] # Card!Idle => running[s] <= repo[s])
        /\ repo[s] \in Nat /\ typed \in Nat /\ resets \in Nat
    BY BoundsAre DEF ShellInv
  <2>2. QED
    BY <1>1, <1>2, <2>1
<1>5. Grows
  BY <1>3 DEF Grows, ShellInv
<1>6. QED
  BY <1>2, <1>3, <1>4, <1>5 DEF ShellInv

LEMMA ChangeShell ==
  ASSUME ShellInv, NEW s \in Sessions, Card!Change(s) PROVE ShellInv' /\ Grows
<1>1. /\ repo' \in [Sessions -> Nat] /\ repo'[s] = repo[s] + 1
      /\ \A u \in Sessions \ {s} : repo'[u] = repo[u]
      /\ running[s] = repo[s]
  BY DEF Card!Change, ShellInv
<1>2. UNCHANGED <<running, log, typed, resets, resetting>>
  BY DEF Card!Change, Card!resetVars
<1>3. ASSUME NEW u \in Sessions
      PROVE  /\ repo'[u] <= typed + resets
             /\ running[u] # Card!Idle => running[u] <= repo'[u]
             /\ running[u] = repo'[u] => repo'[u] < typed + resets
  <2>1. /\ repo[u] <= typed + resets /\ (running[u] # Card!Idle => running[u] <= repo[u])
        /\ (running[u] = repo[u] => repo[u] < typed + resets)
        /\ repo[u] \in Nat /\ running[u] \in Nat /\ typed \in Nat /\ resets \in Nat
    BY BoundsAre DEF ShellInv
  <2>2. QED
    BY <1>1, <2>1
<1>4. Grows
  <2>1. ASSUME NEW u \in Sessions PROVE repo[u] <= repo'[u]
    <3>1. repo[u] \in Nat /\ (repo'[u] = repo[u] \/ repo'[u] = repo[u] + 1)
      BY <1>1 DEF ShellInv
    <3>2. QED
      BY <3>1
  <2>2. QED
    BY <1>2, <2>1 DEF Grows, ShellInv
<1>5. \A c \in 1 .. Len(log) :
          log[c].before <= repo'[log[c].session] /\ log[c].after <= repo'[log[c].session]
  <2> SUFFICES ASSUME NEW c \in 1 .. Len(log)
               PROVE  log[c].before <= repo'[log[c].session] /\ log[c].after <= repo'[log[c].session]
    OBVIOUS
  <2>1. log[c] \in CommandsRun
    BY DEF ShellInv
  <2>2. log[c].session \in Sessions /\ log[c].before \in Nat /\ log[c].after \in Nat
    BY <2>1 DEF CommandsRun
  <2>3. repo[log[c].session] \in Nat /\ repo'[log[c].session] \in Nat
        /\ repo[log[c].session] <= repo'[log[c].session]
    BY <1>1, <1>4, <2>2 DEF Grows, ShellInv
  <2>4. log[c].before <= repo[log[c].session] /\ log[c].after <= repo[log[c].session]
    BY DEF ShellInv
  <2>5. QED
    BY <2>2, <2>3, <2>4
<1>6. QED
  BY <1>1, <1>2, <1>3, <1>4, <1>5 DEF ShellInv

LEMMA ResetShell ==
  ASSUME ShellInv, PageInv, Card!ResetRepo PROVE ShellInv' /\ Grows
<1>0. page \in Sessions
  BY DEF Card!ResetRepo, PageInv
<1>1. /\ repo' \in [Sessions -> Nat] /\ repo'[page] = repo[page] + 1
      /\ \A u \in Sessions \ {page} : repo'[u] = repo[u]
      /\ resets' = resets + 1 /\ resets' \in 0 .. MaxResets /\ resetting' \in Sessions \cup {NoSession}
  BY <1>0, BoundsAre DEF Card!ResetRepo, ShellInv
<1>2. UNCHANGED <<running, log, typed>>
  BY DEF Card!ResetRepo
<1>3. ASSUME NEW u \in Sessions
      PROVE  /\ repo'[u] <= typed + resets'
             /\ running[u] # Card!Idle => running[u] <= repo'[u]
             /\ running[u] = repo'[u] => repo'[u] < typed + resets'
  <2>1. /\ repo[u] <= typed + resets /\ (running[u] # Card!Idle => running[u] <= repo[u])
        /\ (running[u] = repo[u] => repo[u] < typed + resets)
        /\ repo[u] \in Nat /\ running[u] \in Nat /\ typed \in 0 .. MaxCommands /\ resets \in 0 .. MaxResets
    BY BoundsAre DEF ShellInv
  <2>2. repo'[u] = repo[u] \/ repo'[u] = repo[u] + 1
    BY <1>1
  <2>3. running[u] = Card!Idle => running[u] > typed + resets'
    BY <1>1, <2>1, BoundsAre
  <2>4. QED
    BY <1>1, <2>1, <2>2, <2>3, BoundsAre
<1>4. Grows
  <2>1. ASSUME NEW u \in Sessions PROVE repo[u] <= repo'[u]
    <3>1. repo[u] \in Nat /\ (repo'[u] = repo[u] \/ repo'[u] = repo[u] + 1)
      BY <1>1 DEF ShellInv
    <3>2. QED
      BY <3>1
  <2>2. QED
    BY <1>2, <2>1 DEF Grows, ShellInv
<1>5. \A c \in 1 .. Len(log) :
          log[c].before <= repo'[log[c].session] /\ log[c].after <= repo'[log[c].session]
  <2> SUFFICES ASSUME NEW c \in 1 .. Len(log)
               PROVE  log[c].before <= repo'[log[c].session] /\ log[c].after <= repo'[log[c].session]
    OBVIOUS
  <2>1. log[c] \in CommandsRun
    BY DEF ShellInv
  <2>2. log[c].session \in Sessions /\ log[c].before \in Nat /\ log[c].after \in Nat
    BY <2>1 DEF CommandsRun
  <2>3. repo[log[c].session] \in Nat /\ repo'[log[c].session] \in Nat
        /\ repo[log[c].session] <= repo'[log[c].session]
    BY <1>1, <1>4, <2>2 DEF Grows, ShellInv
  <2>4. log[c].before <= repo[log[c].session] /\ log[c].after <= repo[log[c].session]
    BY DEF ShellInv
  <2>5. QED
    BY <2>2, <2>3, <2>4
<1>6. QED
  BY <1>1, <1>2, <1>3, <1>4, <1>5 DEF ShellInv

LEMMA FinishShell ==
  ASSUME ShellInv, NEW s \in Sessions, Card!Finish(s)
  PROVE  /\ ShellInv' /\ Grows
         /\ Len(log') = Len(log) + 1 /\ log'[Len(log')].session = s
<1> DEFINE new == [session |-> s, before |-> running[s], after |-> repo[s]]
<1>1. /\ new \in CommandsRun /\ new.session = s /\ new.before <= repo[s] /\ new.after <= repo[s]
  BY DEF ShellInv, CommandsRun, Card!Finish
<1>2. log' = Append(log, new) /\ UNCHANGED <<repo, typed, resets, resetting>>
  BY DEF Card!Finish, Card!resetVars
<1>3. /\ running' \in [Sessions -> Nat] /\ running'[s] = Card!Idle
      /\ \A u \in Sessions \ {s} : running'[u] = running[u]
  BY BoundsAre DEF Card!Finish, ShellInv
<1> HIDE DEF new
<1>4. /\ log' \in Seq(CommandsRun) /\ Len(log) \in Nat /\ Len(log') = Len(log) + 1
      /\ log'[Len(log) + 1] = new /\ \A c \in 1 .. Len(log) : log'[c] = log[c]
  BY <1>1, <1>2 DEF ShellInv
<1>5. Grows
  BY <1>2, <1>4 DEF Grows, ShellInv
<1>6. ASSUME NEW u \in Sessions
      PROVE  /\ repo[u] <= typed + resets
             /\ running'[u] # Card!Idle => running'[u] <= repo[u]
             /\ running'[u] = repo[u] => repo[u] < typed + resets
  <2>1. /\ repo[u] <= typed + resets /\ (running[u] # Card!Idle => running[u] <= repo[u])
        /\ (running[u] = repo[u] => repo[u] < typed + resets)
        /\ repo[u] \in Nat /\ running[u] \in Nat /\ typed \in 0 .. MaxCommands /\ resets \in 0 .. MaxResets
    BY BoundsAre DEF ShellInv
  <2>2. QED
    BY <1>3, <2>1, BoundsAre
<1>7. ASSUME NEW c \in 1 .. Len(log')
      PROVE  log'[c].before <= repo[log'[c].session] /\ log'[c].after <= repo[log'[c].session]
  <2>1. CASE c = Len(log) + 1
    BY <1>1, <1>4, <2>1
  <2>2. CASE c # Len(log) + 1
    <3>1. c \in 1 .. Len(log) /\ log'[c] = log[c]
      BY <1>4, <2>2
    <3>2. QED
      BY <3>1 DEF ShellInv
  <2>3. QED
    BY <2>1, <2>2
<1>8. ShellInv'
  BY <1>2, <1>3, <1>4, <1>6, <1>7 DEF ShellInv
<1>9. QED
  BY <1>1, <1>4, <1>5, <1>8
-----------------------------------------------------------------------------
(* The page *)

LEMMA PageInit == Card!Init => PageInv
  BY DEF Card!Init, PageInv, Card!NoCommand

LEMMA LogIs ==
  ASSUME ShellInv, NEW c \in 1 .. Len(log)
  PROVE  /\ log[c].session \in Sessions /\ log[c].before \in Nat /\ log[c].after \in Nat
         /\ repo[log[c].session] \in Nat
         /\ log[c].after <= repo[log[c].session]
<1>1. log[c] \in CommandsRun
  BY DEF ShellInv
<1>2. QED
  BY <1>1 DEF CommandsRun, ShellInv

(* What the page has heard stays true as the log grows. *)
LEMMA PageFollows ==
  ASSUME ShellInv, PageInv, Grows, UNCHANGED <<exits, Card!pageVars>> PROVE PageInv'
<1>1. ASSUME NEW c, OfPage(c) PROVE OfPage(c)'
  BY <1>1 DEF OfPage, Grows, Card!pageVars, ShellInv
<1>2. UNCHANGED <<exits, page, history, noticed, context>>
  BY DEF Card!pageVars
<1>3. QED
  BY <1>1, <1>2 DEF PageInv

LEMMA FinishPage ==
  ASSUME ShellInv, PageInv, NEW s \in Sessions, Card!Finish(s) PROVE PageInv'
<1>1. /\ Grows /\ Len(log') = Len(log) + 1 /\ log'[Len(log')].session = s /\ Len(log) \in Nat
  BY FinishShell DEF ShellInv
<1>2. UNCHANGED <<page, history, noticed, context>>
  BY DEF Card!Finish, Card!pageVars
<1> DEFINE Of(c) == c \in 1 .. Len(log') /\ log'[c].session = page
<1>3. ASSUME NEW c, OfPage(c) PROVE Of(c)
  BY <1>1, <1>3 DEF OfPage, Grows
<1>4. exits' \in Seq(Nat) /\ \A i \in 1 .. Len(exits') : Of(exits'[i])
  <2>1. CASE s = page
    <3>1. exits' = Append(exits, Len(log'))
      BY <2>1 DEF Card!Finish
    <3> DEFINE m == Len(log')
    <3>2. m \in Nat /\ Of(m)
      BY <1>1, <2>1
    <3> HIDE DEF m
    <3>3. /\ exits' \in Seq(Nat) /\ Len(exits') = Len(exits) + 1 /\ exits'[Len(exits) + 1] = m
          /\ \A i \in 1 .. Len(exits) : exits'[i] = exits[i]
          /\ Len(exits) \in Nat
      BY <3>1, <3>2 DEF PageInv, m
    <3>4. ASSUME NEW i \in 1 .. Len(exits') PROVE Of(exits'[i])
      <4>1. CASE i = Len(exits) + 1
        BY <3>2, <3>3, <4>1
      <4>2. CASE i # Len(exits) + 1
        <5>1. i \in 1 .. Len(exits) /\ exits'[i] = exits[i]
          BY <3>3, <4>2
        <5>2. OfPage(exits[i])
          BY <5>1 DEF PageInv
        <5>3. QED
          BY <1>3, <5>1, <5>2
      <4>3. QED
        BY <4>1, <4>2
    <3>5. QED
      BY <3>3, <3>4
  <2>2. CASE s # page
    <3>1. exits' = exits
      BY <2>2 DEF Card!Finish
    <3>2. QED
      BY <1>3, <3>1 DEF PageInv
  <2>3. QED
    BY <2>1, <2>2
<1>5. /\ \A i \in 1 .. Len(history) : Of(history[i])
      /\ context # 0 => Of(context)
  BY <1>3 DEF PageInv
<1>6. QED
  BY <1>2, <1>4, <1>5 DEF PageInv, OfPage

LEMMA ReceivePage ==
  ASSUME PageInv, ShellsKept, Card!ReceiveExit PROVE PageInv'
<1>1. /\ history' = Append(history, Head(exits)) /\ exits' = Tail(exits) /\ exits # <<>>
      /\ UNCHANGED <<page, noticed, context, log>>
  BY DEF Card!ReceiveExit, ShellsKept
<1>2. Len(exits) \in Nat \ {0} /\ Head(exits) = exits[1] /\ exits[1] \in Nat /\ OfPage(exits[1])
  BY <1>1 DEF PageInv
<1>3. /\ exits' \in Seq(Nat) /\ Len(exits') = Len(exits) - 1
      /\ \A i \in 1 .. Len(exits') : i + 1 \in 1 .. Len(exits) /\ exits'[i] = exits[i + 1]
  BY <1>1, <1>2 DEF PageInv
<1> DEFINE h == Head(exits)
<1> HIDE DEF h
<1>4. /\ history' \in Seq(Nat) /\ Len(history') = Len(history) + 1 /\ Len(history) \in Nat
      /\ history'[Len(history) + 1] = h /\ \A i \in 1 .. Len(history) : history'[i] = history[i]
  <2>1. h \in Nat /\ history' = Append(history, h)
    BY <1>1, <1>2 DEF h
  <2>2. QED
    BY <2>1 DEF PageInv
<1>5. \A i \in 1 .. Len(exits') : OfPage(exits'[i])
  BY <1>3 DEF PageInv
<1>6. \A i \in 1 .. Len(history') : OfPage(history'[i])
  <2> SUFFICES ASSUME NEW i \in 1 .. Len(history') PROVE OfPage(history'[i])
    OBVIOUS
  <2>1. CASE i = Len(history) + 1
    BY <1>2, <1>4, <2>1 DEF h
  <2>2. CASE i # Len(history) + 1
    <3>1. i \in 1 .. Len(history) /\ history'[i] = history[i]
      BY <1>4, <2>2
    <3>2. QED
      BY <3>1 DEF PageInv
  <2>3. QED
    BY <2>1, <2>2
<1>7. noticed' \in 0 .. Len(history')
  BY <1>1, <1>4 DEF PageInv
<1>8. QED
  BY <1>1, <1>3, <1>4, <1>5, <1>6, <1>7 DEF PageInv, OfPage

LEMMA NoticePage ==
  ASSUME PageInv, ShellsKept, Card!Notice PROVE PageInv'
<1>1. /\ UNCHANGED <<page, history, exits, log>> /\ noticed' = Len(history)
      /\ context' = history[Len(history)] /\ Len(history) > noticed
  BY DEF Card!Notice, ShellsKept
<1>2. Len(history) \in 1 .. Len(history) /\ Len(history) \in Nat
  BY <1>1 DEF PageInv
<1>3. context' \in Nat /\ OfPage(context')
  BY <1>1, <1>2 DEF PageInv
<1>4. QED
  BY <1>1, <1>2, <1>3 DEF PageInv, OfPage

(* The page starts afresh, with or without a session. *)
LEMMA AfreshPage ==
  ASSUME PageInv, ShellsKept, exits' = <<>>, history' = <<>>, noticed' = 0,
         \/ context' = 0 /\ page' \in Sessions \cup {NoSession}
         \/ UNCHANGED <<page, context>>
  PROVE  PageInv'
<1>1. page' \in Sessions \cup {NoSession} /\ context' \in Nat /\ (context' # 0 => OfPage(context)')
  BY DEF PageInv, OfPage, ShellsKept
<1>2. QED
  BY <1>1 DEF PageInv

LEMMA ResetDonePage ==
  ASSUME PageInv, ShellInv, Card!ResetDone PROVE PageInv'
<1>1. UNCHANGED <<page, history, noticed, exits, log>> /\ (context' = 0 \/ context' = context)
  BY DEF Card!ResetDone, Card!NoCommand, Card!shellVars
<1>2. QED
  BY <1>1 DEF PageInv, OfPage
-----------------------------------------------------------------------------
(* The fetches and the card, while the shells work *)

LEMMA FetchedIs ==
  ASSUME FetchInv, NEW i \in 1 .. Len(fetches)
  PROVE  /\ fetches[i] \in Fetched
         /\ fetches[i].session \in Sessions /\ fetches[i].context \in Nat /\ fetches[i].content \in Nat
         /\ fetches[i].state \in {"asked", "answered", "over"}
<1>1. fetches[i] \in Fetched
  BY DEF FetchInv
<1>2. QED
  BY <1>1 DEF Fetched

LEMMA ShellsLeave ==
  ASSUME ShellInv, ShellInv', PageInv, FetchInv, CardInv, Grows,
         UNCHANGED <<Card!pageVars, fetches, card, lastSnapshot>>
  PROVE  FetchInv' /\ CardInv'
<1>1. UNCHANGED <<page, history, noticed, context, fetches, card, lastSnapshot>>
  BY DEF Card!pageVars
<1>2. \A c \in 1 .. Len(log) : c \in 1 .. Len(log') /\ log'[c] = log[c]
  BY DEF Grows, ShellInv
<1>3. ASSUME NEW content, AfterNoticed(content) PROVE AfterNoticed(content)'
  <2>1. ASSUME NEW i \in 1 .. noticed PROVE log'[history[i]].after <= content
    <3>1. i \in 1 .. Len(history)
      BY DEF PageInv
    <3>2. history[i] \in 1 .. Len(log)
      BY <3>1 DEF PageInv, OfPage
    <3>3. QED
      BY <1>2, <1>3, <3>2 DEF AfterNoticed
  <2>2. QED
    BY <1>1, <2>1 DEF AfterNoticed
<1>4. ASSUME NEW s \in Sessions, NEW n \in Nat, n <= repo[s] PROVE n <= repo'[s]
  <2>1. repo[s] \in Nat /\ repo'[s] \in Nat /\ repo[s] <= repo'[s]
    BY DEF Grows, ShellInv
  <2>2. QED
    BY <1>4, <2>1
<1>5. FetchInv'
  <2>1. fetches' \in Seq(Fetched)
    BY <1>1 DEF FetchInv
  <2>2. ASSUME NEW i \in 1 .. Len(fetches)
        PROVE  /\ fetches[i].content <= repo'[fetches[i].session]
               /\ fetches[i].context # 0 => /\ fetches[i].context \in 1 .. Len(log')
                                            /\ log'[fetches[i].context].session = fetches[i].session
               /\ fetches[i].state # "over" => i = Len(fetches) /\ fetches[i].session = page
               /\ fetches[i].state = "answered" =>
                     /\ AfterNoticed(fetches[i].content)'
                     /\ fetches[i].context # 0 => log'[fetches[i].context].after <= fetches[i].content
                     /\ card.snapshot # Card!NoSnapshot => card.snapshot.content <= fetches[i].content
    <3>1. fetches[i].content <= repo'[fetches[i].session]
      BY <1>4, FetchedIs DEF FetchInv
    <3>2. fetches[i].context # 0 => log'[fetches[i].context] = log[fetches[i].context]
                                    /\ fetches[i].context \in 1 .. Len(log')
      BY <1>2 DEF FetchInv
    <3>3. fetches[i].state = "answered" => AfterNoticed(fetches[i].content)'
      BY <1>1, <1>3 DEF FetchInv
    <3>4. QED
      BY <3>1, <3>2, <3>3 DEF FetchInv
  <2>3. QED
    BY <1>1, <2>1, <2>2 DEF FetchInv, Card!NoSnapshot
<1>6. CardInv'
  <2>1. CardShape'
    BY <1>1 DEF CardInv, CardShape
  <2>2. card.snapshot.content \in Nat /\ lastSnapshot.content \in Nat
    BY DEF CardInv, CardShape
  <2>3. /\ page \in Sessions /\ card.snapshot.content <= repo[page] => card.snapshot.content <= repo'[page]
        /\ lastSnapshot.session \in Sessions /\ lastSnapshot.content <= repo[lastSnapshot.session]
              => lastSnapshot.content <= repo'[lastSnapshot.session]
    BY <1>4, <2>2
  <2>4. card.status = "ready" => AfterNoticed(card.snapshot.content)'
    BY <1>1, <1>3 DEF CardInv
  <2>5. card.attribution # 0 => log'[card.attribution] = log[card.attribution]
                                /\ card.attribution \in 1 .. Len(log')
    BY <1>2 DEF CardInv
  <2>6. QED
    BY <1>1, <2>1, <2>3, <2>4, <2>5 DEF CardInv, Card!NoSnapshot
<1>7. QED
  BY <1>5, <1>6
-----------------------------------------------------------------------------
(* The fetches and the card, while the page works *)

ContentsKept == UNCHANGED <<repo, log>>

(* After these steps every fetch is over but perhaps the last, just asked. *)
LEMMA AllOverIs ==
  ASSUME FetchInv, ShellInv, NEW new \in Seq(Fetched), AllOver(fetches, new),
         NEW i \in 1 .. Len(fetches)
  PROVE  /\ new[i].state = "over" /\ new[i].session \in Sessions
         /\ new[i].content <= repo[new[i].session]
         /\ new[i].context # 0 => /\ new[i].context \in 1 .. Len(log)
                                  /\ log[new[i].context].session = new[i].session
<1>1. /\ new[i].state = "over" /\ new[i].session = fetches[i].session
      /\ new[i].content = 0 /\ new[i].context = fetches[i].context
  <2>1. new[i] = [session |-> fetches[i].session, context |-> fetches[i].context,
                  state |-> "over", content |-> 0]
    BY DEF AllOver
  <2>2. QED
    BY <2>1
<1>2. fetches[i].session \in Sessions /\ repo[fetches[i].session] \in Nat
  BY FetchedIs DEF ShellInv
<1>3. QED
  BY <1>1, <1>2 DEF FetchInv

LEMMA NewFetch ==
  ASSUME FetchInv, ShellInv, ContentsKept, NEW s \in Sessions, NEW ctx \in Nat,
         Card!Fetch(s, ctx), s = page',
         ctx # 0 => ctx \in 1 .. Len(log) /\ log[ctx].session = s
  PROVE  FetchInv' /\ \E i \in 1 .. Len(fetches') : fetches'[i].state # "over"
<1> DEFINE n == Len(fetches)
<1>1. /\ fetches' \in Seq(Fetched) /\ Len(fetches') = n + 1 /\ n \in Nat
      /\ AllOver(fetches, fetches')
      /\ fetches'[n + 1] = [session |-> s, context |-> ctx, state |-> "asked", content |-> 0]
  BY FetchIs DEF FetchInv
<1>2. /\ fetches'[n + 1].session = s /\ fetches'[n + 1].context = ctx
      /\ fetches'[n + 1].state = "asked" /\ fetches'[n + 1].content = 0
  BY <1>1
<1>3. repo[s] \in Nat /\ repo' = repo /\ log' = log
  BY DEF ShellInv, ContentsKept
<1>4. ASSUME NEW i \in 1 .. Len(fetches')
      PROVE  /\ fetches'[i].content <= repo[fetches'[i].session]
             /\ fetches'[i].context # 0 => /\ fetches'[i].context \in 1 .. Len(log)
                                           /\ log[fetches'[i].context].session = fetches'[i].session
             /\ fetches'[i].state # "over" => i = Len(fetches') /\ fetches'[i].session = page'
             /\ fetches'[i].state # "answered"
  <2>1. CASE i = n + 1
    BY <1>1, <1>2, <1>3, <2>1
  <2>2. CASE i # n + 1
    <3>1. i \in 1 .. n
      BY <1>1, <2>2
    <3>2. QED
      BY <1>1, <3>1, AllOverIs
  <2>3. QED
    BY <2>1, <2>2
<1>5. FetchInv'
  BY <1>1, <1>3, <1>4 DEF FetchInv
<1>6. n + 1 \in 1 .. Len(fetches') /\ fetches'[n + 1].state # "over"
  BY <1>1, <1>2
<1>7. QED
  BY <1>5, <1>6

LEMMA NoFetch ==
  ASSUME FetchInv, ShellInv, ContentsKept, fetches' = Card!Aborted
  PROVE  FetchInv'
<1>1. fetches' \in Seq(Fetched) /\ Len(fetches') = Len(fetches) /\ AllOver(fetches, fetches')
  BY AbortedIs DEF FetchInv
<1>2. \A i \in 1 .. Len(fetches') :
         /\ fetches'[i].state = "over" /\ fetches'[i].content <= repo[fetches'[i].session]
         /\ fetches'[i].context # 0 => /\ fetches'[i].context \in 1 .. Len(log)
                                       /\ log[fetches'[i].context].session = fetches'[i].session
  BY <1>1, AllOverIs
<1>3. QED
  BY <1>1, <1>2 DEF FetchInv, ContentsKept

LEMMA LoadingIs ==
  ASSUME CardShape, card' = Card!Loading \/ card' = [Card!Loading EXCEPT !.refreshing = TRUE]
  PROVE  /\ DOMAIN card' = CardFields /\ card'.snapshot = card.snapshot
         /\ card'.attribution = card.attribution /\ card'.status \in {"stale", "loading"}
<1> DEFINE c == Card!Loading
<1>1. /\ DOMAIN c = CardFields /\ c.snapshot = card.snapshot
      /\ c.attribution = card.attribution /\ c.status \in {"stale", "loading"}
  <2>1. DOMAIN card = {"status", "snapshot", "error", "attribution", "outcome", "refreshing"}
    BY DEF CardShape, CardFields
  <2>2. CASE card.snapshot # Card!NoSnapshot
    <3>1. c = [card EXCEPT !.status = "stale"]
      BY <2>2 DEF Card!Loading
    <3>2. QED
      BY <2>1, <3>1 DEF CardFields
  <2>3. CASE card.snapshot = Card!NoSnapshot
    <3> DEFINE b == [card EXCEPT !.status = "loading"]
    <3>1. c = [b EXCEPT !.error = FALSE]
      BY <2>3 DEF Card!Loading
    <3>2. /\ DOMAIN b = CardFields /\ b.snapshot = card.snapshot
          /\ b.attribution = card.attribution /\ b.status = "loading"
      BY <2>1 DEF CardFields
    <3> HIDE DEF b
    <3>3. QED
      BY <3>1, <3>2 DEF CardFields
  <2>4. QED
    BY <2>2, <2>3
<1> HIDE DEF c
<1>2. CASE card' = c
  BY <1>1, <1>2
<1>3. CASE card' = [c EXCEPT !.refreshing = TRUE]
  BY <1>1, <1>3 DEF CardFields
<1>4. QED
  BY <1>2, <1>3 DEF c

(* A fetch of the session that is shown: the card keeps what it shows. *)
LEMMA LoadingCard ==
  ASSUME CardInv, ContentsKept, UNCHANGED <<page, lastSnapshot>>,
         card' = Card!Loading \/ card' = [Card!Loading EXCEPT !.refreshing = TRUE],
         \E i \in 1 .. Len(fetches') : fetches'[i].state # "over"
  PROVE  CardInv'
<1>1. /\ DOMAIN card' = CardFields /\ card'.snapshot = card.snapshot
      /\ card'.attribution = card.attribution /\ card'.status \in {"stale", "loading"}
  BY LoadingIs DEF CardInv
<1>2. CardShape'
  BY <1>1 DEF CardInv, CardShape
<1>3. card'.status # "ready"
  BY <1>1
<1>4. QED
  BY <1>1, <1>2, <1>3 DEF CardInv, ContentsKept, Card!NoSnapshot

LEMMA IdleIs ==
  ASSUME NEW x
  PROVE  /\ DOMAIN [Card!IdleCard EXCEPT !.status = x] = CardFields
         /\ DOMAIN Card!IdleCard = CardFields
         /\ [Card!IdleCard EXCEPT !.status = x].status = x /\ Card!IdleCard.status = "idle"
         /\ [Card!IdleCard EXCEPT !.status = x].snapshot = Card!NoSnapshot
         /\ Card!IdleCard.snapshot = Card!NoSnapshot
         /\ [Card!IdleCard EXCEPT !.status = x].attribution = 0 /\ Card!IdleCard.attribution = 0
         /\ ~[Card!IdleCard EXCEPT !.status = x].refreshing /\ ~Card!IdleCard.refreshing
<1>1. DOMAIN Card!IdleCard = CardFields
  BY DEF Card!IdleCard, CardFields
<1>2. /\ Card!IdleCard.status = "idle" /\ Card!IdleCard.snapshot = Card!NoSnapshot
      /\ Card!IdleCard.attribution = 0 /\ ~Card!IdleCard.refreshing
  BY DEF Card!IdleCard, Card!NoCommand
<1>3. QED
  BY <1>1, <1>2 DEF CardFields

(* The card of a session that has just been shown, or hidden. *)
LEMMA IdleCardInv ==
  ASSUME ContentsKept, lastSnapshot' = Card!NoSnapshot,
         card' = Card!IdleCard \/ card' = [Card!IdleCard EXCEPT !.status = "loading"]
  PROVE  CardInv'
<1>1. /\ DOMAIN card' = CardFields /\ card'.status \in {"idle", "loading"}
      /\ card'.snapshot = Card!NoSnapshot /\ card'.attribution = 0 /\ ~card'.refreshing
  BY IdleIs
<1>2. Card!NoSnapshot \in [session : Sessions \cup {NoSession}, content : Nat]
  BY DEF Card!NoSnapshot
<1>3. CardShape'
  BY <1>1, <1>2 DEF CardShape
<1>4. card'.status # "ready"
  BY <1>1
<1>5. QED
  BY <1>1, <1>3, <1>4 DEF CardInv, Card!NoSnapshot

(* A step that leaves the fetches and the card and has noticed no more. *)
LEMMA NothingShown ==
  ASSUME FetchInv, CardInv, ContentsKept, UNCHANGED <<page, fetches, card, lastSnapshot>>,
         \A content : AfterNoticed(content) => \A i \in 1 .. noticed' : log[history'[i]].after <= content
  PROVE  FetchInv' /\ CardInv'
<1>1. \A content : AfterNoticed(content) => AfterNoticed(content)'
  BY DEF AfterNoticed, ContentsKept
<1>2. FetchInv'
  BY <1>1 DEF FetchInv, ContentsKept, Card!NoSnapshot
<1>3. CardShape'
  BY DEF CardInv, CardShape
<1>4. QED
  BY <1>1, <1>2, <1>3 DEF CardInv, ContentsKept, Card!NoSnapshot

(* The fetch that is not over is the only one. *)
LEMMA OnlyOne ==
  ASSUME FetchInv, NEW i \in 1 .. Len(fetches), fetches[i].state # "over"
  PROVE  /\ i = Len(fetches) /\ fetches[i].session = page /\ page \in Sessions
         /\ \A j \in 1 .. Len(fetches) \ {i} : fetches[j].state = "over"
<1>1. i = Len(fetches) /\ fetches[i].session = page
  BY DEF FetchInv
<1>2. \A j \in 1 .. Len(fetches) \ {i} : fetches[j].state = "over"
  BY <1>1 DEF FetchInv
<1>3. QED
  BY <1>1, <1>2, FetchedIs

LEMMA TakeFetches ==
  ASSUME FetchInv, ShellInv, ContentsKept, NEW i \in 1 .. Len(fetches), fetches[i].state # "over",
         Card!Take(i)
  PROVE  FetchInv'
<1>1. /\ fetches' \in Seq(Fetched) /\ Len(fetches') = Len(fetches)
      /\ fetches'[i] = [session |-> fetches[i].session, context |-> fetches[i].context,
                        state |-> "over", content |-> 0]
      /\ \A j \in 1 .. Len(fetches) \ {i} : fetches'[j] = fetches[j]
  BY TakenIs DEF FetchInv
<1>2. ASSUME NEW j \in 1 .. Len(fetches)
      PROVE  /\ fetches'[j].content <= repo[fetches'[j].session]
             /\ fetches'[j].context # 0 => /\ fetches'[j].context \in 1 .. Len(log)
                                           /\ log[fetches'[j].context].session = fetches'[j].session
             /\ fetches'[j].state = "over"
  <2>1. CASE j = i
    <3>1. /\ fetches'[j].session = fetches[i].session /\ fetches'[j].context = fetches[i].context
          /\ fetches'[j].state = "over" /\ fetches'[j].content = 0
      BY <1>1, <2>1
    <3>2. repo[fetches[i].session] \in Nat
      BY FetchedIs DEF ShellInv
    <3>3. QED
      BY <3>1, <3>2 DEF FetchInv
  <2>2. CASE j # i
    <3>1. fetches'[j] = fetches[j] /\ fetches[j].state = "over"
      BY <1>1, <2>2, OnlyOne
    <3>2. QED
      BY <3>1 DEF FetchInv
  <2>3. QED
    BY <2>1, <2>2
<1>3. QED
  BY <1>1, <1>2 DEF FetchInv, ContentsKept

LEMMA AnswerKeeps ==
  ASSUME RepoCardInv, NEW i \in 1 .. Len(fetches), Card!Answer(i)
  PROVE  FetchInv' /\ CardInv'
<1>0. ShellInv /\ PageInv /\ FetchInv /\ CardInv
  BY DEF RepoCardInv
<1>1. /\ fetches[i].state = "asked" /\ UNCHANGED <<repo, log, page, history, noticed, card, lastSnapshot>>
  BY DEF Card!Answer, Card!shellVars, Card!pageVars
<1>2. /\ i = Len(fetches) /\ fetches[i].session = page /\ page \in Sessions
      /\ \A j \in 1 .. Len(fetches) \ {i} : fetches[j].state = "over"
  BY <1>0, <1>1, OnlyOne
<1>3. /\ fetches' \in Seq(Fetched) /\ Len(fetches') = Len(fetches)
      /\ fetches'[i] = [session |-> page, context |-> fetches[i].context,
                        state |-> "answered", content |-> repo[page]]
      /\ \A j \in 1 .. Len(fetches) \ {i} : fetches'[j] = fetches[j]
  BY <1>0, <1>2, AnsweredIs DEF FetchInv, ShellInv
<1>4. /\ fetches'[i].session = page /\ fetches'[i].context = fetches[i].context
      /\ fetches'[i].state = "answered" /\ fetches'[i].content = repo[page] /\ repo[page] \in Nat
  BY <1>0, <1>2, <1>3 DEF ShellInv
<1>5. AfterNoticed(repo[page])
  <2>1. ASSUME NEW j \in 1 .. noticed PROVE log[history[j]].after <= repo[page]
    <3>1. j \in 1 .. Len(history)
      BY <1>0 DEF PageInv
    <3>2. OfPage(history[j])
      BY <1>0, <3>1 DEF PageInv
    <3>3. QED
      BY <1>0, <3>2, LogIs DEF OfPage
  <2>2. QED
    BY <2>1 DEF AfterNoticed
<1>6. fetches[i].context # 0 => log[fetches[i].context].after <= repo[page]
  BY <1>0, <1>2, LogIs DEF FetchInv
<1>7. card.snapshot # Card!NoSnapshot => card.snapshot.content <= repo[page]
  BY <1>0 DEF CardInv
<1>8. ASSUME NEW j \in 1 .. Len(fetches)
      PROVE  /\ fetches'[j].content <= repo[fetches'[j].session]
             /\ fetches'[j].context # 0 => /\ fetches'[j].context \in 1 .. Len(log)
                                           /\ log[fetches'[j].context].session = fetches'[j].session
             /\ fetches'[j].state # "over" => j = Len(fetches) /\ fetches'[j].session = page
             /\ fetches'[j].state = "answered" =>
                   /\ AfterNoticed(fetches'[j].content)
                   /\ fetches'[j].context # 0 => log[fetches'[j].context].after <= fetches'[j].content
                   /\ card.snapshot # Card!NoSnapshot => card.snapshot.content <= fetches'[j].content
  <2>1. CASE j = i
    <3>1. fetches[i].context # 0 => /\ fetches[i].context \in 1 .. Len(log)
                                    /\ log[fetches[i].context].session = page
      BY <1>0, <1>2 DEF FetchInv
    <3>2. repo[page] <= repo[page]
      BY <1>4
    <3>3. QED
      BY <1>2, <1>4, <1>5, <1>6, <1>7, <2>1, <3>1, <3>2
  <2>2. CASE j # i
    <3>1. fetches'[j] = fetches[j] /\ fetches[j].state = "over"
      BY <1>2, <1>3, <2>2
    <3>2. QED
      BY <1>0, <3>1 DEF FetchInv
  <2>3. QED
    BY <2>1, <2>2
<1>9. \A content : AfterNoticed(content) => AfterNoticed(content)'
  BY <1>1 DEF AfterNoticed
<1>10. FetchInv'
  BY <1>1, <1>3, <1>8, <1>9 DEF FetchInv, Card!NoSnapshot
<1>11. CardInv'
  <2>1. CardShape'
    BY <1>0, <1>1 DEF CardInv, CardShape
  <2>2. i \in 1 .. Len(fetches') /\ fetches'[i].state # "over"
    BY <1>3, <1>4
  <2>3. QED
    BY <1>0, <1>1, <1>9, <2>1, <2>2 DEF CardInv, Card!NoSnapshot
<1>12. QED
  BY <1>10, <1>11

LEMMA SucceedKeeps ==
  ASSUME RepoCardInv, NEW i \in 1 .. Len(fetches), Card!Succeed(i)
  PROVE  FetchInv' /\ CardInv'
<1>0. ShellInv /\ PageInv /\ FetchInv /\ CardInv
  BY DEF RepoCardInv
<1>1. /\ fetches[i].state = "answered" /\ Card!Take(i)
      /\ UNCHANGED <<repo, log, page, history, noticed>>
  BY DEF Card!Succeed, Card!shellVars, Card!pageVars
<1>2. fetches[i].session = page /\ page \in Sessions
  BY <1>0, <1>1, OnlyOne
<1>3. FetchInv'
  BY <1>0, <1>1, TakeFetches DEF ContentsKept
<1> DEFINE n == fetches[i].content
           ctx == fetches[i].context
           snap == [session |-> page, content |-> n]
<1>4. /\ n \in Nat /\ ctx \in Nat /\ n <= repo[page] /\ AfterNoticed(n)
      /\ ctx # 0 => ctx \in 1 .. Len(log) /\ log[ctx].session = page /\ log[ctx].after <= n
  BY <1>0, <1>1, <1>2, FetchedIs DEF FetchInv
<1>5. /\ DOMAIN card' = CardFields /\ card'.status = "ready" /\ card'.snapshot = snap
      /\ card'.attribution = ctx /\ card'.refreshing = FALSE /\ lastSnapshot' = snap
  BY <1>2 DEF Card!Succeed, CardFields
<1>6. /\ snap \in [session : Sessions \cup {NoSession}, content : Nat]
      /\ snap.session = page /\ snap.content = n /\ snap # Card!NoSnapshot
  BY <1>2, <1>4, BoundsAre DEF Card!NoSnapshot
<1> HIDE DEF n, ctx, snap
<1>8. CardShape'
  BY <1>4, <1>5, <1>6 DEF CardShape
<1>9. CardInv'
  BY <1>1, <1>2, <1>4, <1>5, <1>6, <1>8 DEF CardInv, AfterNoticed, Card!NoSnapshot
<1>10. QED
  BY <1>3, <1>9

LEMMA FailKeeps ==
  ASSUME RepoCardInv, NEW i \in 1 .. Len(fetches), Card!Fail(i)
  PROVE  FetchInv' /\ CardInv'
<1>0. ShellInv /\ PageInv /\ FetchInv /\ CardInv
  BY DEF RepoCardInv
<1>1. /\ fetches[i].state = "asked" /\ Card!Take(i)
      /\ UNCHANGED <<repo, log, page, history, noticed, lastSnapshot>>
  BY DEF Card!Fail, Card!shellVars, Card!pageVars
<1>3. FetchInv'
  BY <1>0, <1>1, TakeFetches DEF ContentsKept
<1>4. DOMAIN card = CardFields
  BY <1>0 DEF CardInv, CardShape
<1>5. /\ DOMAIN card' = CardFields /\ card'.status \in {"error", "stale"} /\ card'.snapshot = card.snapshot
      /\ card'.attribution = card.attribution /\ card'.refreshing = FALSE
  <2> DEFINE x == IF card.snapshot = Card!NoSnapshot THEN "error" ELSE "stale"
             a == [card EXCEPT !.status = x]
             b == [a EXCEPT !.error = TRUE]
  <2>1. x \in {"error", "stale"}
    OBVIOUS
  <2>2. card' = [b EXCEPT !.refreshing = FALSE]
    BY DEF Card!Fail
  <2> HIDE DEF x
  <2>3. /\ DOMAIN a = CardFields /\ a.status = x /\ a.snapshot = card.snapshot
        /\ a.attribution = card.attribution
    BY <1>4 DEF CardFields
  <2> HIDE DEF a
  <2>4. /\ DOMAIN b = CardFields /\ b.status = x /\ b.snapshot = card.snapshot
        /\ b.attribution = card.attribution
    BY <2>3 DEF CardFields
  <2> HIDE DEF b
  <2>5. QED
    BY <2>1, <2>2, <2>4 DEF CardFields
<1>6. CardShape'
  BY <1>0, <1>1, <1>5 DEF CardInv, CardShape
<1>7. card'.status # "ready"
  BY <1>5
<1>9. CardInv'
  BY <1>0, <1>1, <1>5, <1>6, <1>7 DEF CardInv, Card!NoSnapshot
<1>10. QED
  BY <1>3, <1>9
-----------------------------------------------------------------------------
(* The invariant, step by step *)

LEMMA ShellStep ==
  ASSUME RepoCardInv, Card!Begin \/ Card!ResetRepo \/ \E s \in Sessions : Card!Change(s) \/ Card!Finish(s)
  PROVE  RepoCardInv'
<1>0. ShellInv /\ PageInv /\ FetchInv /\ CardInv
  BY DEF RepoCardInv
<1>1. ShellInv' /\ Grows
  BY <1>0, BeginShell, ChangeShell, ResetShell, FinishShell
<1>2. UNCHANGED <<Card!pageVars, fetches, card, lastSnapshot>>
  BY DEF Card!Begin, Card!Change, Card!Finish, Card!ResetRepo
<1>3. PageInv'
  <2>1. CASE \E s \in Sessions : Card!Finish(s)
    BY <1>0, <2>1, FinishPage
  <2>2. CASE ~\E s \in Sessions : Card!Finish(s)
    <3>1. exits' = exits
      BY <2>2 DEF Card!Begin, Card!Change, Card!ResetRepo
    <3>2. QED
      BY <1>0, <1>1, <1>2, <3>1, PageFollows
  <2>3. QED
    BY <2>1, <2>2
<1>4. FetchInv' /\ CardInv'
  BY <1>0, <1>1, <1>2, ShellsLeave
<1>5. QED
  BY <1>1, <1>3, <1>4 DEF RepoCardInv

LEMMA AnswerStep ==
  ASSUME RepoCardInv, NEW i \in DOMAIN fetches, Card!Answer(i) \/ Card!Succeed(i) \/ Card!Fail(i)
  PROVE  RepoCardInv'
<1>1. UNCHANGED <<Card!shellVars, Card!resetVars, exits, Card!pageVars>>
  BY DEF Card!Answer, Card!Succeed, Card!Fail
<1>2. UNCHANGED <<repo, log, running, typed, resetting, resets, exits, page, history, noticed, context>>
  BY <1>1 DEF Card!shellVars, Card!resetVars, Card!pageVars
<1>3. ShellInv' /\ PageInv'
  BY <1>2 DEF RepoCardInv, ShellInv, PageInv, OfPage
<1>4. i \in 1 .. Len(fetches)
  BY DEF RepoCardInv, FetchInv
<1>5. FetchInv' /\ CardInv'
  BY <1>4, AnswerKeeps, SucceedKeeps, FailKeeps
<1>6. QED
  BY <1>3, <1>5 DEF RepoCardInv

LEMMA FreshFetch ==
  ASSUME RepoCardInv, ContentsKept, UNCHANGED <<page, lastSnapshot>>, page # NoSession,
         NEW ctx \in Nat, ctx # 0 => OfPage(ctx), Card!Fetch(page, ctx),
         card' = Card!Loading \/ card' = [Card!Loading EXCEPT !.refreshing = TRUE]
  PROVE  FetchInv' /\ CardInv'
<1>0. ShellInv /\ PageInv /\ FetchInv /\ CardInv /\ page \in Sessions
  BY DEF RepoCardInv, PageInv
<1>1. FetchInv' /\ \E i \in 1 .. Len(fetches') : fetches'[i].state # "over"
  BY <1>0, NewFetch DEF OfPage
<1>2. CardInv'
  BY <1>0, <1>1, LoadingCard
<1>3. QED
  BY <1>1, <1>2

LEMMA PageStep ==
  ASSUME RepoCardInv,
         \/ Card!ReceiveExit \/ Card!Notice \/ Card!Reconnect \/ Card!Hide \/ Card!Renew
         \/ Card!ResetDone \/ Card!Retry \/ \E s \in Sessions : Card!Show(s)
  PROVE  RepoCardInv'
<1>0. ShellInv /\ PageInv /\ FetchInv /\ CardInv
  BY DEF RepoCardInv
<1>1. CASE Card!ReceiveExit
  <2>1. ShellsKept /\ ContentsKept /\ UNCHANGED <<page, noticed, fetches, card, lastSnapshot>>
    BY <1>1 DEF Card!ReceiveExit, ShellsKept, ContentsKept, Card!shellVars, Card!resetVars
  <2>2. PageInv'
    BY <1>0, <1>1, <2>1, ReceivePage
  <2>3. ASSUME NEW content, AfterNoticed(content)
        PROVE  \A i \in 1 .. noticed' : log[history'[i]].after <= content
    <3>1. exits # <<>> /\ history' = Append(history, Head(exits)) /\ exits \in Seq(Nat)
      BY <1>0, <1>1 DEF Card!ReceiveExit, PageInv
    <3> DEFINE h == Head(exits)
    <3>2. h \in Nat
      BY <3>1
    <3> HIDE DEF h
    <3>3. history' = Append(history, h) /\ history \in Seq(Nat)
      BY <1>0, <3>1 DEF h, PageInv
    <3>4. \A i \in 1 .. Len(history) : history'[i] = history[i]
      BY <3>2, <3>3
    <3>5. \A i \in 1 .. noticed : i \in 1 .. Len(history)
      BY <1>0 DEF PageInv
    <3>6. QED
      BY <2>1, <2>3, <3>4, <3>5 DEF AfterNoticed
  <2>4. FetchInv' /\ CardInv'
    BY <1>0, <2>1, <2>3, NothingShown
  <2>5. ShellInv'
    BY <1>0, <2>1 DEF ShellInv, ShellsKept
  <2>6. QED
    BY <2>2, <2>4, <2>5 DEF RepoCardInv
<1>2. CASE Card!Notice
  <2>1. /\ ShellsKept /\ ContentsKept /\ UNCHANGED <<page, lastSnapshot>> /\ page # NoSession
        /\ Card!Fetch(page, context') /\ card' = Card!Loading
        /\ Len(history) > noticed /\ context' = history[Len(history)]
    BY <1>2 DEF Card!Notice, ShellsKept, ContentsKept, Card!shellVars, Card!resetVars
  <2>2. PageInv'
    BY <1>0, <1>2, <2>1, NoticePage
  <2>3. context' \in Nat /\ OfPage(context')
    <3>1. Len(history) \in 1 .. Len(history)
      BY <1>0, <2>1 DEF PageInv
    <3>2. QED
      BY <1>0, <2>1, <3>1 DEF PageInv
  <2> DEFINE c == history[Len(history)]
  <2>4. c \in Nat /\ OfPage(c) /\ Card!Fetch(page, c)
    BY <2>1, <2>3
  <2> HIDE DEF c
  <2>5. FetchInv' /\ CardInv'
    BY <2>1, <2>4, FreshFetch
  <2>6. ShellInv'
    BY <1>0, <2>1 DEF ShellInv, ShellsKept
  <2>7. QED
    BY <2>2, <2>5, <2>6 DEF RepoCardInv
<1>3. CASE Card!Reconnect
  <2>1. /\ ShellsKept /\ ContentsKept /\ UNCHANGED <<page, context, fetches, card, lastSnapshot>>
        /\ exits' = <<>> /\ history' = <<>> /\ noticed' = 0
    BY <1>3 DEF Card!Reconnect, ShellsKept, ContentsKept, Card!shellVars, Card!resetVars
  <2>2. PageInv'
    BY <1>0, <2>1, AfreshPage
  <2>3. FetchInv' /\ CardInv'
    BY <1>0, <2>1, NothingShown
  <2>4. ShellInv'
    BY <1>0, <2>1 DEF ShellInv, ShellsKept
  <2>5. QED
    BY <2>2, <2>3, <2>4 DEF RepoCardInv
<1>4. CASE Card!Hide
  <2>1. /\ ShellsKept /\ ContentsKept /\ page' = NoSession /\ context' = 0
        /\ exits' = <<>> /\ history' = <<>> /\ noticed' = 0
        /\ fetches' = Card!Aborted /\ card' = Card!IdleCard /\ lastSnapshot' = Card!NoSnapshot
    BY <1>4 DEF Card!Hide, ShellsKept, ContentsKept, Card!shellVars, Card!resetVars, Card!NoCommand
  <2>2. PageInv'
    BY <1>0, <2>1, AfreshPage
  <2>3. FetchInv' /\ CardInv'
    BY <1>0, <2>1, NoFetch, IdleCardInv
  <2>4. ShellInv'
    BY <1>0, <2>1 DEF ShellInv, ShellsKept
  <2>5. QED
    BY <2>2, <2>3, <2>4 DEF RepoCardInv
<1>5. CASE Card!Renew \/ Card!Retry
  <2>1. /\ ShellsKept /\ ContentsKept /\ UNCHANGED <<exits, page, history, noticed, context, lastSnapshot>>
        /\ page # NoSession /\ Card!Fetch(page, context)
        /\ card' = Card!Loading \/ card' = [Card!Loading EXCEPT !.refreshing = TRUE]
    BY <1>5 DEF Card!Renew, Card!Retry, ShellsKept, ContentsKept, Card!shellVars, Card!resetVars, Card!pageVars
  <2>2. PageInv'
    BY <1>0, <2>1 DEF PageInv, OfPage, ContentsKept
  <2>3. context \in Nat /\ (context # 0 => OfPage(context))
    BY <1>0 DEF PageInv
  <2>4. FetchInv' /\ CardInv'
    BY <2>1, <2>3, FreshFetch
  <2>5. ShellInv'
    BY <1>0, <2>1 DEF ShellInv, ShellsKept
  <2>6. QED
    BY <2>2, <2>4, <2>5 DEF RepoCardInv
<1>6. CASE Card!ResetDone
  <2>1. /\ UNCHANGED <<repo, log, running, typed, resets, exits, page, history, noticed, lastSnapshot>>
        /\ resetting' = NoSession /\ ContentsKept
    BY <1>6 DEF Card!ResetDone, Card!shellVars, ContentsKept
  <2>2. ShellInv'
    BY <1>0, <2>1 DEF ShellInv
  <2>3. PageInv'
    BY <1>0, <1>6, ResetDonePage
  <2>4. FetchInv' /\ CardInv'
    <3>1. CASE page = resetting
      <4>1. Card!Fetch(page, 0) /\ card' = Card!Loading /\ page # NoSession
        BY <1>6, <3>1 DEF Card!ResetDone, Card!NoCommand
      <4>2. QED
        BY <2>1, <4>1, FreshFetch
    <3>2. CASE page # resetting
      <4>1. UNCHANGED <<fetches, card>>
        BY <1>6, <3>2 DEF Card!ResetDone
      <4>2. \A content : AfterNoticed(content) => \A i \in 1 .. noticed' : log[history'[i]].after <= content
        BY <2>1 DEF AfterNoticed
      <4>3. QED
        BY <1>0, <2>1, <4>1, <4>2, NothingShown
    <3>3. QED
      BY <3>1, <3>2
  <2>5. QED
    BY <2>2, <2>3, <2>4 DEF RepoCardInv
<1>7. ASSUME NEW s \in Sessions, Card!Show(s) PROVE RepoCardInv'
  <2>1. /\ ShellsKept /\ ContentsKept /\ page' = s /\ context' = 0
        /\ exits' = <<>> /\ history' = <<>> /\ noticed' = 0
        /\ Card!Fetch(s, 0) /\ card' = [Card!IdleCard EXCEPT !.status = "loading"]
        /\ lastSnapshot' = Card!NoSnapshot
    BY <1>7 DEF Card!Show, ShellsKept, ContentsKept, Card!shellVars, Card!resetVars, Card!NoCommand
  <2>2. PageInv'
    BY <1>0, <2>1, AfreshPage
  <2>3. FetchInv' /\ CardInv'
    BY <1>0, <2>1, NewFetch, IdleCardInv
  <2>4. ShellInv'
    BY <1>0, <2>1 DEF ShellInv, ShellsKept
  <2>5. QED
    BY <2>2, <2>3, <2>4 DEF RepoCardInv
<1>8. QED
  BY <1>1, <1>2, <1>3, <1>4, <1>5, <1>6, <1>7

LEMMA RepoCardInit == Card!Init => RepoCardInv
<1> SUFFICES ASSUME Card!Init PROVE RepoCardInv
  OBVIOUS
<1>1. ShellInv /\ PageInv
  BY ShellInit, PageInit
<1>2. fetches = <<>> /\ card = Card!IdleCard /\ lastSnapshot = Card!NoSnapshot
  BY DEF Card!Init
<1>3. FetchInv
  BY <1>2 DEF FetchInv
<1>4. /\ DOMAIN card = CardFields /\ card.status = "idle" /\ card.snapshot = Card!NoSnapshot
      /\ card.attribution = 0 /\ ~card.refreshing
  BY <1>2, IdleIs
<1>5. Card!NoSnapshot \in [session : Sessions \cup {NoSession}, content : Nat]
  BY DEF Card!NoSnapshot
<1>6. CardInv
  BY <1>2, <1>4, <1>5 DEF CardInv, CardShape
<1>7. QED
  BY <1>1, <1>3, <1>6 DEF RepoCardInv

LEMMA RepoCardStep == RepoCardInv /\ Card!Next => RepoCardInv'
<1> SUFFICES ASSUME RepoCardInv, Card!Next PROVE RepoCardInv'
  OBVIOUS
<1>1. \/ Card!Begin \/ Card!ResetRepo \/ \E s \in Sessions : Card!Change(s) \/ Card!Finish(s)
      \/ \E i \in DOMAIN fetches : Card!Answer(i) \/ Card!Succeed(i) \/ Card!Fail(i)
      \/ Card!ReceiveExit \/ Card!Notice \/ Card!Reconnect \/ Card!Hide \/ Card!Renew
      \/ Card!ResetDone \/ Card!Retry \/ \E s \in Sessions : Card!Show(s)
  BY DEF Card!Next
<1>2. QED
  BY <1>1, ShellStep, AnswerStep, PageStep

(* Parts that do not move. *)
LEMMA RepoCardStays == RepoCardInv /\ UNCHANGED cardVars => RepoCardInv'
<1> SUFFICES ASSUME RepoCardInv, UNCHANGED cardVars PROVE RepoCardInv'
  OBVIOUS
<1>1. UNCHANGED <<repo, log, running, typed, resetting, resets, exits, page, history, noticed, context,
                  fetches, card, lastSnapshot>>
  BY DEF cardVars
<1>2. ShellInv' /\ PageInv'
  BY <1>1 DEF RepoCardInv, ShellInv, PageInv, OfPage
<1>3. \A content : AfterNoticed(content) => AfterNoticed(content)'
  BY <1>1 DEF AfterNoticed
<1>4. FetchInv'
  BY <1>1, <1>3 DEF RepoCardInv, FetchInv, Card!NoSnapshot
<1>5. CardInv'
  BY <1>1, <1>3 DEF RepoCardInv, CardInv, CardShape, Card!NoSnapshot
<1>6. QED
  BY <1>2, <1>4, <1>5 DEF RepoCardInv

LEMMA RepoCardAlways == Parts => []RepoCardInv
<1>1. PartsInit => RepoCardInv
  BY RepoCardInit DEF PartsInit
<1>2. RepoCardInv /\ [PartsNext]_allVars => RepoCardInv'
  <2> SUFFICES ASSUME RepoCardInv, [PartsNext]_allVars PROVE RepoCardInv'
    OBVIOUS
  <2>1. Card!Next \/ UNCHANGED cardVars
    BY DEF PartsNext, allVars
  <2>2. QED
    BY <2>1, RepoCardStep, RepoCardStays
<1>3. QED
  BY <1>1, <1>2, PTL DEF Parts

(* A ready card is of the session that is shown and taken after every command the page
   has noticed; "Updated after" is said of a snapshot taken after that command; and a
   disabled Retry button waits for a fetch that is under way. *)
THEOREM TheCardIsCurrent == Parts => []CardIsCurrent
<1>1. RepoCardInv => CardIsCurrent
  <2> SUFFICES ASSUME RepoCardInv PROVE CardIsCurrent
    OBVIOUS
  <2>1. CardInv /\ fetches \in Seq(Fetched)
    BY DEF RepoCardInv, FetchInv
  <2>2. Card!ReadyIsCurrent /\ Card!UpdatedAfter
    BY <2>1 DEF CardInv, AfterNoticed, Card!ReadyIsCurrent, Card!UpdatedAfter, Card!NoCommand
  <2>3. Card!RetryPending
    BY <2>1 DEF CardInv, Card!RetryPending
  <2>4. QED
    BY <2>2, <2>3 DEF CardIsCurrent
<1>2. QED
  BY <1>1, RepoCardAlways, PTL

(* The card never goes back to an older snapshot of the session it shows: a fetch that
   answers is newer than what is shown. *)
THEOREM TheCardNeverGoesBack == Parts => NeverBack
<1>1. RepoCardInv /\ [PartsNext]_allVars => [Card!KeepsNewer]_cardVars
  <2> SUFFICES ASSUME RepoCardInv, PartsNext, ~UNCHANGED cardVars PROVE Card!KeepsNewer
    BY DEF allVars
  <2>0. Card!Next
    BY DEF PartsNext
  <2>1. card.snapshot.content \in Nat
    BY DEF RepoCardInv, CardInv, CardShape
  <2>2. CASE card'.snapshot = card.snapshot
    BY <2>1, <2>2 DEF Card!KeepsNewer
  <2>3. CASE card'.snapshot # card.snapshot
    <3>1. CASE \E i \in DOMAIN fetches : Card!Succeed(i)
      <4>1. PICK i \in 1 .. Len(fetches) : Card!Succeed(i)
        BY <3>1 DEF RepoCardInv, FetchInv
      <4>2. fetches[i].state = "answered" /\ card'.snapshot.content = fetches[i].content
        BY <4>1 DEF Card!Succeed
      <4>3. card.snapshot # Card!NoSnapshot => card.snapshot.content <= fetches[i].content
        BY <4>2 DEF RepoCardInv, FetchInv
      <4>4. fetches[i].content \in Nat
        BY FetchedIs DEF RepoCardInv
      <4>5. QED
        BY <2>1, <4>2, <4>3, <4>4 DEF Card!KeepsNewer
    <3>2. CASE Card!Hide \/ \E s \in Sessions : Card!Show(s)
      <4>1. card'.snapshot = Card!NoSnapshot
        BY <3>2, IdleIs DEF Card!Hide, Card!Show
      <4>2. card.snapshot # Card!NoSnapshot => card.snapshot.session # NoSession
        BY BoundsAre DEF RepoCardInv, CardInv
      <4>3. QED
        BY <4>1, <4>2 DEF Card!KeepsNewer, Card!NoSnapshot
    <3>3. CASE /\ ~\E i \in DOMAIN fetches : Card!Succeed(i)
               /\ ~Card!Hide /\ ~\E s \in Sessions : Card!Show(s)
      <4>1. CASE card' = Card!Loading \/ card' = [Card!Loading EXCEPT !.refreshing = TRUE]
        BY <2>3, <4>1, LoadingIs DEF RepoCardInv, CardInv
      <4>2. CASE \E i \in DOMAIN fetches : Card!Fail(i)
        <5>1. DOMAIN card = CardFields
          BY DEF RepoCardInv, CardInv, CardShape
        <5>2. card'.snapshot = card.snapshot
          BY <4>2, <5>1 DEF Card!Fail, CardFields
        <5>3. QED
          BY <2>3, <5>2
      <4>3. card' = card \/ card' = Card!Loading \/ card' = [Card!Loading EXCEPT !.refreshing = TRUE]
            \/ \E i \in DOMAIN fetches : Card!Fail(i)
        BY <2>0, <3>3 DEF Card!Next, Card!Begin, Card!Change, Card!Finish, Card!Answer, Card!ReceiveExit,
              Card!Notice, Card!Reconnect, Card!Renew, Card!ResetRepo, Card!ResetDone, Card!Retry
      <4>4. QED
        BY <2>3, <4>1, <4>2, <4>3
    <3>4. QED
      BY <3>1, <3>2, <3>3
  <2>4. QED
    BY <2>2, <2>3
<1>2. QED
  BY <1>1, RepoCardAlways, PTL DEF Parts, NeverBack
-----------------------------------------------------------------------------
(* The values the variables take *)

LEMMA SeqWithin ==
  ASSUME NEW S, NEW T, NEW q \in Seq(S), \A i \in 1 .. Len(q) : q[i] \in T PROVE q \in Seq(T)
<1>1. Len(q) \in Nat /\ q \in [1 .. Len(q) -> T]
  OBVIOUS
<1>2. QED
  BY <1>1

LEMMA CardTypes == RepoCardInv => Card!TypeOK
<1> SUFFICES ASSUME RepoCardInv PROVE Card!TypeOK
  OBVIOUS
<1>0. ShellInv /\ PageInv /\ FetchInv /\ CardInv
  BY DEF RepoCardInv
<1>1. ASSUME NEW s \in Sessions, NEW n \in Nat, n <= repo[s] PROVE n \in Card!Contents
  <2>1. /\ repo[s] \in Nat /\ repo[s] <= typed + resets
        /\ typed \in 0 .. MaxCommands /\ resets \in 0 .. MaxResets
    BY <1>0 DEF ShellInv
  <2>2. QED
    BY <1>1, <2>1, BoundsAre DEF Card!Contents
<1>2. /\ repo \in [Sessions -> Card!Contents]
      /\ running \in [Sessions -> Card!Contents \cup {Card!Idle}]
  <2>1. ASSUME NEW s \in Sessions
        PROVE  repo[s] \in Card!Contents /\ running[s] \in Card!Contents \cup {Card!Idle}
    <3>1. repo[s] \in Nat /\ running[s] \in Nat /\ (running[s] # Card!Idle => running[s] <= repo[s])
      BY <1>0 DEF ShellInv
    <3>2. repo[s] <= repo[s]
      BY <3>1
    <3>3. QED
      BY <1>1, <3>1, <3>2
  <2>2. QED
    BY <1>0, <2>1 DEF ShellInv
<1>3. log \in Seq([session : Sessions, before : Card!Contents, after : Card!Contents])
  <2>1. ASSUME NEW c \in 1 .. Len(log)
        PROVE  log[c] \in [session : Sessions, before : Card!Contents, after : Card!Contents]
    <3>1. log[c] \in CommandsRun
      BY <1>0 DEF ShellInv
    <3>2. /\ log[c].session \in Sessions /\ log[c].before \in Nat /\ log[c].after \in Nat
          /\ log[c].before <= repo[log[c].session] /\ log[c].after <= repo[log[c].session]
      BY <1>0, <3>1 DEF ShellInv, CommandsRun
    <3>3. log[c].before \in Card!Contents /\ log[c].after \in Card!Contents
      BY <1>1, <3>2
    <3>4. QED
      BY <3>1, <3>2, <3>3 DEF CommandsRun
  <2>2. QED
    BY <1>0, <2>1, SeqWithin DEF ShellInv
<1>4. exits \in Seq(Card!Commands) /\ history \in Seq(Card!Commands)
  <2>1. /\ \A i \in 1 .. Len(exits) : exits[i] \in Card!Commands
        /\ \A i \in 1 .. Len(history) : history[i] \in Card!Commands
    BY <1>0 DEF PageInv, OfPage, Card!Commands
  <2>2. QED
    BY <1>0, <2>1, SeqWithin DEF PageInv
<1>5. context \in Card!Commands \cup {Card!NoCommand}
  BY <1>0 DEF PageInv, OfPage, Card!Commands, Card!NoCommand
<1>6. fetches \in Seq([session : Sessions, context : Card!Commands \cup {Card!NoCommand},
                        state : {"asked", "answered", "over"}, content : Card!Contents])
  <2>1. ASSUME NEW i \in 1 .. Len(fetches)
        PROVE  fetches[i] \in [session : Sessions, context : Card!Commands \cup {Card!NoCommand},
                               state : {"asked", "answered", "over"}, content : Card!Contents]
    <3>1. /\ fetches[i] \in Fetched
          /\ fetches[i].session \in Sessions /\ fetches[i].content \in Nat
      BY <1>0, FetchedIs
    <3>2. fetches[i].content \in Card!Contents
      BY <1>0, <1>1, <3>1 DEF FetchInv
    <3>3. fetches[i].context \in Card!Commands \cup {Card!NoCommand}
      BY <1>0 DEF FetchInv, Card!Commands, Card!NoCommand
    <3>4. QED
      BY <3>1, <3>2, <3>3 DEF Fetched
  <2>2. QED
    BY <1>0, <2>1, SeqWithin DEF FetchInv
<1>7. ASSUME NEW snap \in [session : Sessions \cup {NoSession}, content : Nat],
             snap # Card!NoSnapshot => snap.session \in Sessions /\ snap.content <= repo[snap.session]
      PROVE  snap \in Card!Snapshots
  <2>1. CASE snap # Card!NoSnapshot
    <3>1. snap.content \in Nat /\ snap.content \in Card!Contents /\ snap.session \in Sessions
      BY <1>1, <1>7, <2>1
    <3>2. QED
      BY <3>1 DEF Card!Snapshots
  <2>2. CASE snap = Card!NoSnapshot
    BY <2>2 DEF Card!Snapshots
  <2>3. QED
    BY <2>1, <2>2
<1>8. card.snapshot \in Card!Snapshots /\ lastSnapshot \in Card!Snapshots
  BY <1>0, <1>7 DEF CardInv, CardShape
<1>9. card.status \in {"idle", "loading", "stale", "error"}
      \/ (card.status = "ready" /\ card.snapshot # Card!NoSnapshot)
  BY <1>0 DEF CardInv, CardShape
<1>10. QED
  BY <1>0, <1>2, <1>3, <1>4, <1>5, <1>6, <1>8, <1>9 DEF Card!TypeOK, ShellInv, PageInv

LEMMA PageTypes == WebInv => Page!TypeOK
<1> SUFFICES ASSUME WebInv PROVE Page!TypeOK
  OBVIOUS
<1>1. \A t \in tasks : t.answer \in Page!Answers /\ t.no \in 1 .. started
  BY CallIs DEF WebInv, TasksInv
<1>2. started \in 1 .. MaxTasks /\ Page!Cardinality(tasks) <= started
  <2>1. Page!Cardinality(tasks) = Cardinality(tasks)
    BY DEF Page!Cardinality, Cardinality
  <2>2. QED
    BY <2>1 DEF WebInv, TasksInv
<1>3. WebShape
  BY DEF WebInv
<1>4. QED
  BY <1>1, <1>2, <1>3, Zenon DEF WebShape, Shown, Page!TypeOK

(* Whatever part moves, the cookies move as BrowserLogin says. *)
LEMMA CookiesMove == Parts => Spec
<1>1. PartsInit => Init
  BY DEF PartsInit
<1>2. [PartsNext]_allVars => [Next]_vars
  <2>1. PartsNext => Next \/ UNCHANGED vars
    BY DEF PartsNext
  <2>2. UNCHANGED allVars => UNCHANGED vars
    BY DEF allVars
  <2>3. QED
    BY <2>1, <2>2
<1>3. QED
  BY <1>1, <1>2, PTL DEF Parts, Spec

(* The variables of the browser's side take the values the three modules give. *)
THEOREM TypesCorrect == Parts => []TypesOK
<1>1. TypeOK /\ WebInv /\ RepoCardInv => TypesOK
  BY PageTypes, CardTypes DEF TypesOK
<1>2. QED
  BY <1>1, CookiesMove, TypeCorrect, WebAlways, RepoCardAlways, PTL
===============================================================================
