------------------------------- MODULE MCBrowser -------------------------------
(* The browser's side in finite instances for TLC: its cookies (BrowserLogin), the
   session the page shows (WebSession) and the repository card (RepoCard).

   The three share no variable, so a behaviour of all of them is one of each, with
   stutters: it is enough to let one move and keep the others where they start. *)
EXTENDS BrowserLogin, TLC

CONSTANTS
    l1, l2, l3, o1, o2, s1, s2,
    MaxSessions, MaxTasks,                                      (* WebSession *)
    Sessions, NoSession, MaxCommands, MaxFetches, MaxResets     (* RepoCard   *)

ASSUME PageAssumption ==
    /\ MaxSessions \in Nat /\ MaxTasks \in Nat \ {0}
    /\ NoSession \notin Sessions /\ MaxCommands \in Nat /\ MaxResets \in Nat

VARIABLES
    part,   (* the part that moves *)
    current, created, signedIn, hook, override, error, pending, signedOut, tried, tasks,
    started, last, dismissed,
    repo, log, running, typed, resetting, resets, exits, page, history, noticed, context,
    fetches, card, lastSnapshot

Page == INSTANCE WebSession
Card == INSTANCE RepoCard WITH started <- typed, last <- lastSnapshot

pageVars == <<current, created, signedIn, hook, override, error, pending, signedOut, tried,
              tasks, started, last, dismissed>>
cardVars == <<repo, log, running, typed, resetting, resets, exits, page, history, noticed,
              context, fetches, card, lastSnapshot>>
allVars == <<part, vars, pageVars, cardVars>>

PartsInit ==
    /\ part \in {"cookies", "page", "card"}
    /\ Init /\ Page!Init /\ Card!Init
    /\ part # "page" => created = 0 /\ signedIn

PartsNext ==
    /\ UNCHANGED part
    /\ \/ part = "cookies" /\ Next /\ UNCHANGED <<pageVars, cardVars>>
       \/ part = "page" /\ Page!Next /\ UNCHANGED <<vars, cardVars>>
       \/ part = "card" /\ Card!Next /\ UNCHANGED <<vars, pageVars>>

Parts == PartsInit /\ [][PartsNext]_allVars

Symmetry == Permutations(Sessions)
-----------------------------------------------------------------------------
(* The values each part's variables take. *)
TypesOK == /\ part = "cookies" => TypeOK
           /\ part = "page" => Page!TypeOK
           /\ part = "card" => Card!TypeOK

(* A page at rest shows what the last lookup returned, or says that it does not
   (WebSession). *)
SettledReported == part = "page" => Page!SettledReported

(* A ready card is of the session that is shown and taken after every command the page
   has noticed; "Updated after" is said of a snapshot taken after that command; and a
   disabled Retry button waits for a fetch that is under way (RepoCard). *)
CardIsCurrent ==
    part = "card" => Card!ReadyIsCurrent /\ Card!UpdatedAfter /\ Card!RetryPending

(* The card never goes back to an older snapshot of the session it shows (RepoCard). *)
NeverBack == [][Card!KeepsNewer]_cardVars
===============================================================================
