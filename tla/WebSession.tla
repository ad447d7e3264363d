------------------------------- MODULE WebSession -------------------------------
(***************************************************************************)
(* Which practice session the browser shows.  The page asks the server for *)
(* the current session when it loads, when the terminal is lost, after     *)
(* each create, reset and logout, and when the user retries; the lookups   *)
(* and the calls overlap, and their answers arrive in any order.  The page *)
(* shows the answer of the last lookup to arrive, unless an override       *)
(* stands in for it.                                                       *)
(*                                                                         *)
(* The catalogue is taken as loaded, opening and confirming the scenario   *)
(* picker as one step.  The server is the user's current session and       *)
(* whether the user is signed in; it may change by itself.                 *)
(***************************************************************************)
EXTENDS Integers, FiniteSets

CONSTANTS
    MaxSessions,  (* bound on the sessions, numbered in the order created      *)
    MaxTasks      (* bound on the asynchronous calls the page starts           *)

VARIABLES
    current,    (* the server's current session of the user, or 0               *)
    created,    (* the sessions created so far                                  *)
    signedIn,   (* the server accepts the browser's cookie                      *)
    hook,       (* useCurrentSession: session or 0, status, absenceReason       *)
    override,   (* sessionOverride: Follow (undefined), 0 (null) or a session   *)
    error,      (* actionError: shown, and retryExpectedSessionId or 0          *)
    pending,    (* pendingAction                                                *)
    signedOut,  (* signedOutOverride                                            *)
    tried,      (* unavailableRefreshSessionIdRef is the displayed session      *)
    tasks,      (* the async functions that wait for an answer                  *)
    started,    (* calls started so far                                         *)
    last,       (* ghost: the last answer of a lookup that the page remembers    *)
    dismissed   (* ghost: the user removed a notice and an override still stands *)

serverVars == <<current, created, signedIn>>
vars == <<current, created, signedIn, hook, override, error, pending, signedOut, tried,
          tasks, started, last, dismissed>>

Follow == -1
SessionIds == 1..MaxSessions
NoError == [shown |-> FALSE, retry |-> 0]
Message(retry) == [shown |-> TRUE, retry |-> retry]

(* What fetchCurrentSession returns or throws.  404 and 410 differ in wording. *)
Found(id)       == [kind |-> "found", id |-> id]
Missing         == [kind |-> "missing", id |-> 0]
Unauthenticated == [kind |-> "unauthenticated", id |-> 0]
Failed          == [kind |-> "failed", id |-> 0]
Waiting         == [kind |-> "waiting", id |-> 0]
Ok              == [kind |-> "ok", id |-> 0]
NoAnswer        == [kind |-> "none", id |-> 0]
Answers == {Missing, Unauthenticated, Failed, Waiting, Ok} \cup {Found(i) : i \in SessionIds}

(* The server's answer to a lookup. *)
Current == IF ~signedIn THEN Unauthenticated ELSE IF current = 0 THEN Missing ELSE Found(current)
-----------------------------------------------------------------------------
(* What the page derives from its state *)

Effective == IF signedOut THEN 0 ELSE hook.session
Displayed == IF override # Follow THEN override ELSE Effective
Live ==
    /\ Displayed # 0
    /\ override # Follow \/ (hook.status = "ready" /\ ~signedOut)
LoggedOutAnswer == hook.status = "ready" /\ hook.absence = "unauthenticated"
CanPick == ~signedOut /\ hook.status = "ready" /\ hook.absence # "unauthenticated"
RecoveryShell == ~Live /\ hook.status # "loading" /\ error.shown /\ ~LoggedOutAnswer
LookupShell == ~Live /\ ~RecoveryShell /\ hook.status = "error"

(* A mutant: the override stays. *)
CaughtNever(o, h, out) == o

(* The effect that drops an override the hook has caught up with, as a function
   of the state a step leaves. *)
Caught(o, h, out) ==
    IF o > 0 /\ h.status = "ready" /\ ~out /\ h.session = o THEN Follow ELSE o

(* Every step of the page ends with its effects: the override is dropped, and
   the terminal of another session has not been tried. *)
Settle(o, h, out) ==
    /\ hook' = h
    /\ signedOut' = out
    /\ override' = Caught(o, h, out)
    /\ tried' = (tried /\ Displayed' = Displayed /\ Displayed # 0)
    /\ dismissed' = (dismissed /\ override' # Follow)

(* A mutant: the message goes, the session to retry stays. *)
DismissMessage == error' = [error EXCEPT !.shown = FALSE] /\ dismissed' = (override # Follow)

(* A click that clears actionError. *)
Dismiss == error' = NoError /\ dismissed' = (override # Follow)
-----------------------------------------------------------------------------
(* Asynchronous calls *)

(* A task keeps what its closure captured: whether the hook had a session, the
   session shown, the one to expect. *)
Task(purpose, stage, expected) ==
    [no |-> started + 1, purpose |-> purpose, stage |-> stage, expected |-> expected,
     fallback |-> Displayed, keep |-> hook.session # 0, answer |-> Waiting]

CanStart == started < MaxTasks
Begin(t) == started' = started + 1 /\ tasks' = tasks \cup {t}

(* refresh: the hook is "loading" until an answer arrives. *)
Loading == [hook EXCEPT !.status = "loading"]

Init ==
    /\ current \in {0, 1} \cap 0..MaxSessions /\ created = current
    /\ signedIn \in BOOLEAN
    /\ hook = [session |-> 0, status |-> "loading", absence |-> "none"]
    /\ override = Follow /\ error = NoError /\ pending = "none"
    /\ signedOut = FALSE /\ tried = FALSE
    /\ started = 1
    /\ tasks = {[no |-> 1, purpose |-> "lookup", stage |-> "refresh", expected |-> 0,
                 fallback |-> 0, keep |-> FALSE, answer |-> Waiting]}
    /\ last = NoAnswer /\ dismissed = FALSE

(* The effect on a lost terminal: one lookup for each session and each loss. *)
TerminalLost ==
    /\ Displayed # 0 /\ ~tried /\ CanStart
    /\ Begin(Task("lookup", "refresh", 0))
    /\ hook' = Loading /\ tried' = TRUE
    /\ UNCHANGED <<serverVars, override, error, pending, signedOut, last, dismissed>>

TerminalBack ==
    /\ tried
    /\ tried' = FALSE
    /\ UNCHANGED <<serverVars, hook, override, error, pending, signedOut, tasks, started, last, dismissed>>

(* "Try again" of the lookup shell. *)
TryAgain ==
    /\ LookupShell /\ CanStart
    /\ Begin(Task("lookup", "refresh", 0))
    /\ error' = NoError
    /\ Settle(override, Loading, signedOut)
    /\ UNCHANGED <<serverVars, pending, last>>

(* "Retry sync". *)
RetrySync ==
    /\ Live /\ error.retry # 0 /\ CanStart
    /\ Begin(Task("retry", "refresh", error.retry))
    /\ Settle(override, Loading, signedOut)
    /\ UNCHANGED <<serverVars, error, pending, last>>

(* openScenarioPicker: it clears the notice, also if the user then closes it. *)
CanOpenPicker ==
    /\ CanPick
    /\ IF Live THEN pending = "none"
               ELSE pending # "new-session" /\ (RecoveryShell \/ hook.absence = "missing")

OpenPicker ==
    /\ CanOpenPicker /\ error.shown
    /\ Dismiss
    /\ UNCHANGED <<serverVars, hook, override, pending, signedOut, tried, tasks, started, last>>

NewSession ==
    /\ CanOpenPicker /\ CanStart
    /\ Begin(Task("new-session", "call", 0))
    /\ pending' = "new-session" /\ Dismiss
    /\ UNCHANGED <<serverVars, hook, override, signedOut, tried, last>>

Reset ==
    /\ Live /\ pending = "none" /\ CanStart
    /\ Begin(Task("reset", "call", Displayed))
    /\ pending' = "reset" /\ Dismiss
    /\ UNCHANGED <<serverVars, hook, override, signedOut, tried, last>>

Logout ==
    /\ Live /\ pending = "none" /\ CanStart
    /\ Begin(Task("logout", "call", 0))
    /\ pending' = "logout" /\ Dismiss
    /\ UNCHANGED <<serverVars, hook, override, signedOut, tried, last>>
-----------------------------------------------------------------------------
(* The server *)

Replace(t, u) == tasks' = (tasks \ {t}) \cup {u}
Answer(t, a) == Replace(t, [t EXCEPT !.answer = a])

(* A lookup is served, or fails on its way there or back. *)
ServeLookup(t) ==
    /\ t.stage = "refresh" /\ t.answer = Waiting
    /\ \E a \in {Current, Failed} : Answer(t, a)
    /\ UNCHANGED <<serverVars, hook, override, error, pending, signedOut, tried, started, last, dismissed>>

(* A create, reset or logout takes effect, and its answer may be lost. *)
ServeCall(t) ==
    /\ t.stage = "call" /\ t.answer = Waiting
    /\ \/ /\ t.purpose = "new-session" /\ signedIn /\ created < MaxSessions
          /\ created' = created + 1 /\ current' = created + 1
          /\ \E a \in {Found(created + 1), Failed} : Answer(t, a)
          /\ UNCHANGED signedIn
       \/ /\ t.purpose = "reset" /\ signedIn
          /\ Answer(t, Ok)
          /\ UNCHANGED serverVars
       \/ /\ t.purpose = "logout"
          /\ signedIn' = FALSE
          /\ \E a \in {Ok, Failed} : Answer(t, a)
          /\ UNCHANGED <<current, created>>
       \/ Answer(t, Failed) /\ UNCHANGED serverVars
    /\ UNCHANGED <<hook, override, error, pending, signedOut, tried, started, last, dismissed>>

(* Another tab creates a session, the current one ends, the login ends. *)
ServerChanges ==
    /\ \/ signedIn /\ created < MaxSessions /\ created' = created + 1 /\ current' = created + 1 /\ UNCHANGED signedIn
       \/ current # 0 /\ current' = 0 /\ UNCHANGED <<created, signedIn>>
       \/ signedIn /\ signedIn' = FALSE /\ UNCHANGED <<current, created>>
    /\ UNCHANGED <<hook, override, error, pending, signedOut, tried, tasks, started, last, dismissed>>
-----------------------------------------------------------------------------
(* Answers *)

(* load: a failure keeps the session only if the closure knew one. *)
Load(t) ==
    CASE t.answer.kind = "found" ->
            [session |-> t.answer.id, status |-> "ready", absence |-> "none"]
      [] t.answer.kind \in {"missing", "unauthenticated"} ->
            [session |-> 0, status |-> "ready", absence |-> t.answer.kind]
      [] t.answer.kind = "failed" ->
            IF t.keep THEN [hook EXCEPT !.status = "ready"]
                      ELSE [session |-> 0, status |-> "error", absence |-> "none"]

(* The ghost: a failed lookup tells the page nothing, and may make it forget. *)
Took(t) == IF t.answer # Failed THEN t.answer ELSE IF t.keep THEN last ELSE NoAnswer

(* What a task does when its lookup's answer arrives: the override and the
   notice it leaves. *)
Outcomes(override_, error_) == [override |-> override_, error |-> error_]

(* reconcileSessionAction *)
Reconciled(t) ==
    CASE t.answer.kind = "found" ->
            IF t.answer.id = t.expected THEN Outcomes(t.answer.id, NoError)
                                        ELSE Outcomes(t.answer.id, Message(t.expected))
      [] OTHER ->
            Outcomes(IF t.fallback # 0 THEN t.fallback ELSE t.expected,
                     Message(IF t.answer = Failed THEN t.expected ELSE 0))

(* retrySessionRefresh *)
Retried(t) ==
    CASE t.answer.kind = "found" ->
            Outcomes(t.answer.id, IF t.answer.id = t.expected THEN NoError ELSE Message(t.expected))
      [] t.answer.kind = "failed" -> Outcomes(override, Message(t.expected))
      [] OTHER -> Outcomes(0, Message(t.expected))

Continued(t) ==
    CASE t.purpose = "lookup" -> Outcomes(override, error)
      [] t.purpose = "retry" -> Retried(t)
      [] OTHER -> Reconciled(t)

(* The finally of the three actions clears pendingAction, whoever set it. *)
Done(t) == IF t.purpose \in {"new-session", "reset", "logout"} THEN "none" ELSE pending

LookupArrives(t) ==
    /\ t.stage = "refresh" /\ t.answer # Waiting
    /\ LET out == Continued(t) IN
        /\ Settle(out.override, Load(t), signedOut)
        /\ error' = out.error
    /\ pending' = Done(t)
    /\ tasks' = tasks \ {t}
    /\ last' = Took(t)
    /\ UNCHANGED <<serverVars, started>>

(* The answer of a call: the action goes on with a lookup, its closure as it
   was when the user clicked. *)
CallArrives(t) ==
    /\ t.stage = "call" /\ t.answer \notin {Waiting, Failed}
    /\ \/ /\ t.purpose = "new-session"
          /\ Settle(IF t.fallback = 0 THEN t.answer.id ELSE override, Loading, signedOut)
          /\ Replace(t, [t EXCEPT !.stage = "refresh", !.expected = t.answer.id, !.answer = Waiting])
          /\ UNCHANGED <<pending, last>>
       \/ /\ t.purpose = "reset"
          /\ Settle(override, Loading, signedOut)
          /\ Replace(t, [t EXCEPT !.stage = "refresh", !.answer = Waiting])
          /\ UNCHANGED <<pending, last>>
       \/ /\ t.purpose = "logout"
          /\ Settle(0, Loading, TRUE)
          /\ Replace(t, [t EXCEPT !.purpose = "lookup", !.stage = "refresh", !.answer = Waiting])
          /\ pending' = Done(t) /\ UNCHANGED last
    /\ UNCHANGED <<serverVars, error, started>>

(* A failed create is reported in the picker, the others in the notice. *)
CallFails(t) ==
    /\ t.stage = "call" /\ t.answer = Failed
    /\ error' = IF t.purpose = "new-session" THEN error ELSE Message(0)
    /\ pending' = Done(t)
    /\ tasks' = tasks \ {t}
    /\ UNCHANGED <<serverVars, hook, override, signedOut, tried, started, last, dismissed>>
-----------------------------------------------------------------------------
User == TryAgain \/ RetrySync \/ OpenPicker \/ NewSession \/ Reset \/ Logout

Next ==
    \/ User \/ TerminalLost \/ TerminalBack \/ ServerChanges
    \/ \E t \in tasks : ServeLookup(t) \/ ServeCall(t) \/ LookupArrives(t) \/ CallArrives(t) \/ CallFails(t)

Spec == Init /\ [][Next]_vars
-----------------------------------------------------------------------------
(* Properties *)

TypeOK ==
    /\ created \in 0..MaxSessions /\ current \in {0, created} /\ signedIn \in BOOLEAN
    /\ hook \in [session : 0..MaxSessions, status : {"loading", "ready", "error"},
                 absence : {"none", "missing", "unauthenticated"}]
    /\ override \in {Follow} \cup 0..MaxSessions
    /\ error \in [shown : BOOLEAN, retry : 0..MaxSessions] /\ (error.retry # 0 => error.shown)
    /\ pending \in {"none", "new-session", "reset", "logout"}
    /\ signedOut \in BOOLEAN /\ tried \in BOOLEAN /\ dismissed \in BOOLEAN
    /\ started \in 1..MaxTasks /\ Cardinality(tasks) <= started
    /\ \A t \in tasks : t.answer \in Answers /\ t.no \in 1..started
    /\ last \in Answers \cup {NoAnswer}

(* Once nothing is in flight, a page that shows another session than the last
   lookup returned says so; unless the user has removed the notice, or a failed
   lookup has made the page forget its session. *)
SettledReported ==
    tasks = {} /\ ~signedOut /\ ~dismissed /\ last # NoAnswer =>
        Displayed = last.id \/ error.shown

(* Not kept by the code (what to keep is decided when the lookup starts): a failed lookup
   keeps the session the page knows. *)
KeptOnFailure ==
    [][\A t \in tasks : t.answer = Failed /\ LookupArrives(t) => hook'.session = hook.session]_vars

(* Not kept by the code (a lookup sets "loading"): a step that only starts a lookup does
   not remove the workbench from the screen. *)
WorkbenchStays ==
    [][Live /\ Displayed' = Displayed /\ hook'.status = "loading" => Live']_vars

(* Not kept by the code (an answer to "Retry sync" may come later): after a logout the page
   never shows a session again. *)
SignedOutStays == signedOut => ~Live

(* Not kept by the code (a failed lookup disables it): "New Session" of the recovery shell
   opens the scenario picker. *)
RecoveryOffersPicker == RecoveryShell /\ pending = "none" => CanOpenPicker
=============================================================================
