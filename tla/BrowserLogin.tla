------------------------------ MODULE BrowserLogin ------------------------------
(***************************************************************************)
(* One browser's logins and logouts, in several tabs: the two cookies, the *)
(* callback's calls to GitHub and to the store, the user_sessions they     *)
(* leave, and answers that arrive in any order.  A session token is known  *)
(* by the login that made it; GitHub is outside.                           *)
(***************************************************************************)
EXTENDS Naturals, FiniteSets

CONSTANTS
    Logins,      (* attempts to log in, each with its own state token           *)
    Logouts,     (* attempts to log out                                         *)
    None,        (* no cookie, no row                                           *)
    MaxFaults,   (* bound on failed calls and lost answers                      *)
    MaxRestarts  (* bound on the browser's restarts                             *)

ASSUME BrowserLoginAssumption ==
    /\ None \notin Logins /\ MaxFaults \in Nat /\ MaxRestarts \in Nat

VARIABLES
    stateCookie,    (* gitgym_oauth_state                                       *)
    sessionCookie,  (* gitgym_session                                           *)
    rows,           (* user_sessions: None, active or revoked, by login         *)
    login,          (* progress of each login                                   *)
    logout,         (* progress of each logout, and the token it was sent with  *)
    faults,
    restarts

cookies == <<stateCookie, sessionCookie>>
vars == <<cookies, rows, login, logout, faults, restarts>>

Init ==
    /\ stateCookie = None /\ sessionCookie = None
    /\ rows = [l \in Logins |-> None]
    /\ login = [l \in Logins |-> "idle"]
    /\ logout = [o \in Logouts |-> [pc |-> "idle", token |-> None]]
    /\ faults = 0 /\ restarts = 0

Fault == faults < MaxFaults /\ faults' = faults + 1
LoginGoes(l, from, to) == login[l] = from /\ login' = [login EXCEPT ![l] = to]
-----------------------------------------------------------------------------
(* GitHubLoginWithReadiness and GitHubCallback *)

GitHubLogin(l) ==
    /\ LoginGoes(l, "idle", "github")
    /\ stateCookie' = l
    /\ UNCHANGED <<sessionCookie, rows, logout, faults, restarts>>

(* GitHub sends the browser back, with the cookie it has now. *)
Callback(l) ==
    /\ LoginGoes(l, "github", IF stateCookie = l THEN "exchange" ELSE "failing")
    /\ UNCHANGED <<cookies, rows, logout, faults, restarts>>

(* The code is exchanged, the profile fetched, the user written and read. *)
Exchange(l) ==
    /\ LoginGoes(l, "exchange", "insert")
    /\ UNCHANGED <<cookies, rows, logout, faults, restarts>>

ExchangeFails(l) ==
    /\ LoginGoes(l, "exchange", "failing") /\ Fault
    /\ UNCHANGED <<cookies, rows, logout, restarts>>

CreateBrowserSession(l) ==
    /\ LoginGoes(l, "insert", "answer")
    /\ rows' = [rows EXCEPT ![l] = "active"]
    /\ UNCHANGED <<cookies, logout, faults, restarts>>

(* Mutant: the error of the insert is not looked at. *)
CreateUnchecked(l) ==
    /\ LoginGoes(l, "insert", "answer") /\ Fault
    /\ rows' \in {rows, [rows EXCEPT ![l] = "active"]}
    /\ UNCHANGED <<cookies, logout, restarts>>

(* The statement fails, or succeeds and its answer is lost. *)
CreateFails(l) ==
    /\ LoginGoes(l, "insert", "failing") /\ Fault
    /\ rows' \in {rows, [rows EXCEPT ![l] = "active"]}
    /\ UNCHANGED <<cookies, logout, restarts>>

(* Mutant: the state cookie outlives its login. *)
AnswerKeeping(l) ==
    /\ LoginGoes(l, "answer", "in")
    /\ sessionCookie' = l
    /\ UNCHANGED <<stateCookie, rows, logout, faults, restarts>>

Answer(l) ==
    /\ LoginGoes(l, "answer", "in")
    /\ sessionCookie' = l /\ stateCookie' = None
    /\ UNCHANGED <<rows, logout, faults, restarts>>

(* redirectToOAuthFailure *)
AnswerFailure(l) ==
    /\ LoginGoes(l, "failing", "failed")
    /\ stateCookie' = None
    /\ UNCHANGED <<sessionCookie, rows, logout, faults, restarts>>

AnswerLost(l) ==
    /\ LoginGoes(l, "answer", "lost") \/ LoginGoes(l, "failing", "lost")
    /\ Fault
    /\ UNCHANGED <<cookies, rows, logout, restarts>>
-----------------------------------------------------------------------------
(* Logout *)

LogoutGoes(o, pc) == logout' = [logout EXCEPT ![o].pc = pc]

SendLogout(o) ==
    /\ logout[o].pc = "idle" /\ sessionCookie # None
    /\ logout' = [logout EXCEPT ![o] = [pc |-> "revoke", token |-> sessionCookie]]
    /\ UNCHANGED <<cookies, rows, login, faults, restarts>>

RevokeBrowserSession(o) ==
    /\ logout[o].pc = "revoke"
    /\ LogoutGoes(o, "no content")
    /\ rows' = [rows EXCEPT ![logout[o].token] = "revoked"]
    /\ UNCHANGED <<cookies, login, faults, restarts>>

(* Mutant: the error of the update is not looked at. *)
RevokeUnchecked(o) ==
    /\ logout[o].pc = "revoke" /\ Fault
    /\ LogoutGoes(o, "no content")
    /\ rows' \in {rows, [rows EXCEPT ![logout[o].token] = "revoked"]}
    /\ UNCHANGED <<cookies, login, restarts>>

RevokeFails(o) ==
    /\ logout[o].pc = "revoke" /\ Fault
    /\ LogoutGoes(o, "error")
    /\ rows' \in {rows, [rows EXCEPT ![logout[o].token] = "revoked"]}
    /\ UNCHANGED <<cookies, login, restarts>>

(* The header that clears the cookie is in every answer, and takes whatever
   cookie the browser has by then. *)
LogoutAnswer(o) ==
    /\ logout[o].pc \in {"no content", "error"}
    /\ LogoutGoes(o, IF logout[o].pc = "error" THEN "refused" ELSE "out")
    /\ sessionCookie' = None
    /\ UNCHANGED <<stateCookie, rows, login, faults, restarts>>

LogoutLost(o) ==
    /\ logout[o].pc \in {"no content", "error"} /\ Fault
    /\ LogoutGoes(o, "lost")
    /\ UNCHANGED <<cookies, rows, login, restarts>>
-----------------------------------------------------------------------------
(* The browser is closed, with nothing under way, and opened again: the session
   cookie has no MaxAge and is gone; the state cookie has one. *)
Restart ==
    /\ restarts < MaxRestarts /\ restarts' = restarts + 1
    /\ \A l \in Logins : login[l] \notin {"exchange", "insert", "answer", "failing"}
    /\ \A o \in Logouts : logout[o].pc \notin {"revoke", "no content", "error"}
    /\ sessionCookie' = None
    /\ UNCHANGED <<stateCookie, rows, login, logout, faults>>

Next ==
    \/ \E l \in Logins :
        \/ GitHubLogin(l) \/ Callback(l) \/ Exchange(l) \/ ExchangeFails(l)
        \/ CreateBrowserSession(l) \/ CreateFails(l)
        \/ Answer(l) \/ AnswerFailure(l) \/ AnswerLost(l)
    \/ \E o \in Logouts :
        \/ SendLogout(o) \/ RevokeBrowserSession(o) \/ RevokeFails(o)
        \/ LogoutAnswer(o) \/ LogoutLost(o)
    \/ Restart

Spec == Init /\ [][Next]_vars
-----------------------------------------------------------------------------
(* Properties *)

Steps == {"idle", "github", "exchange", "insert", "answer", "failing", "in", "failed", "lost"}

(* The values each variable takes; the state cookie is that of a login which has
   not come back. *)
TypeOK ==
    /\ sessionCookie \in Logins \cup {None} /\ stateCookie \in Logins \cup {None}
    /\ rows \in [Logins -> {None, "active", "revoked"}]
    /\ login \in [Logins -> Steps]
    /\ stateCookie # None => login[stateCookie] \notin {"idle", "in", "failed"}
    /\ \A o \in Logouts : /\ logout[o].pc \in {"idle", "revoke", "no content", "error", "out", "refused", "lost"}
                          /\ logout[o].token \in Logins \cup {None}
    /\ faults \in 0 .. MaxFaults /\ restarts \in 0 .. MaxRestarts

(* A browser that holds a session cookie is signed in, or a logout sent with that
   very token has reached the store: no failure, in whatever tab, leaves it with a
   token the store does not know. *)
CookieIsKnown ==
    sessionCookie # None =>
        \/ rows[sessionCookie] = "active"
        \/ \E o \in Logouts : logout[o].token = sessionCookie /\ logout[o].pc # "revoke"

(* A logout that is answered without an error has ended its session. *)
OutMeansRevoked ==
    \A o \in Logouts : logout[o].pc = "out" => rows[logout[o].token] = "revoked"

(* Not kept by the code (the insert's answer may be lost): a failed login leaves no session
   (the OAuth design's failure handling). *)
FailureCreatesNothing == \A l \in Logins : login[l] = "failed" => rows[l] = None

(* Not kept by the code (the cookie ends with the browser): the session cookie is
   persistent; only a logout sent with that very token takes it from the browser, and
   another login replaces it. *)
SessionPersists ==
    [][sessionCookie # None /\ sessionCookie' = None
        => \E o \in Logouts : logout[o].token = sessionCookie /\ logout'[o].pc \in {"out", "refused"}]_vars
=============================================================================
