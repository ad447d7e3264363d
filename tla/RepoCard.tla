-------------------------------- MODULE RepoCard --------------------------------
(***************************************************************************)
(* The repository card of the page: useRepoState and the effects of App    *)
(* that give it its refresh context.  The shell runs commands and changes  *)
(* the repository while exit frames and fetches are under way; each run of *)
(* the fetch effect aborts the fetch before it; a finished fetch shows its *)
(* snapshot, says what it was taken for and, after a command, how it       *)
(* differs from the last one.                                              *)
(*                                                                         *)
(* The content of a repository is the number of its changes so far.  The   *)
(* triggers other than a completed command are one, NoCommand: they differ *)
(* in wording.  Effects and the render they cause are one step.            *)
(***************************************************************************)
EXTENDS Naturals, Sequences, FiniteSets

CONSTANTS
    Sessions,
    NoSession,
    MaxCommands,  (* bound on the commands                                   *)
    MaxFetches,   (* bound on the fetches                                    *)
    MaxResets     (* bound on the resets                                     *)

VARIABLES
    repo,     (* content of each session's repository                          *)
    log,      (* commands of the shells, with the content before and after     *)
    running,  (* the content before the command each shell is running, or Idle *)
    started,  (* commands typed so far                                         *)
    resetting, (* the session whose reset the page waits for, or NoSession      *)
    resets,   (* resets so far                                                 *)
    exits,    (* exit frames on their way to the page, by command              *)
    page,     (* displayedSession                                              *)
    history,  (* the completed commands of commandHistory                      *)
    noticed,  (* previousCompletedCount: those the effects have seen           *)
    context,  (* refreshContext: a command or NoCommand                        *)
    fetches,  (* every call of fetchPracticeRepoState                          *)
    card,     (* what the card shows                                           *)
    last      (* lastSuccessfulSnapshot                                        *)

shellVars == <<repo, log, running, started>>
pageVars == <<page, history, noticed, context>>
resetVars == <<resetting, resets>>
vars == <<shellVars, resetVars, exits, pageVars, fetches, card, last>>

NoCommand == 0
Idle == MaxCommands + MaxResets + 1  (* more than any content *)
Commands == 1 .. Len(log)
NoSnapshot == [session |-> NoSession, content |-> 0]
NoOutcome == <<>>
IdleCard == [status |-> "idle", snapshot |-> NoSnapshot, error |-> FALSE, attribution |-> NoCommand,
             outcome |-> NoOutcome, refreshing |-> FALSE]

Init ==
    /\ repo = [s \in Sessions |-> 0]
    /\ log = <<>> /\ running = [s \in Sessions |-> Idle] /\ started = 0
    /\ resetting = NoSession /\ resets = 0
    /\ exits = <<>>
    /\ page = NoSession /\ history = <<>> /\ noticed = 0 /\ context = NoCommand
    /\ fetches = <<>>
    /\ card = IdleCard /\ last = NoSnapshot
-----------------------------------------------------------------------------
(* The shells: a command is typed into the one that is shown, and goes on when
   another is. *)

Begin ==
    /\ page # NoSession /\ running[page] = Idle /\ started < MaxCommands
    /\ running' = [running EXCEPT ![page] = repo[page]]
    /\ started' = started + 1
    /\ UNCHANGED <<repo, log, resetVars, exits, pageVars, fetches, card, last>>

(* One change is enough to tell a command's effect. *)
Change(s) ==
    /\ running[s] = repo[s]
    /\ repo' = [repo EXCEPT ![s] = @ + 1]
    /\ UNCHANGED <<log, running, started, resetVars, exits, pageVars, fetches, card, last>>

(* The page is told by the socket it has open, if it is this shell's. *)
Finish(s) ==
    /\ running[s] # Idle
    /\ log' = Append(log, [session |-> s, before |-> running[s], after |-> repo[s]])
    /\ exits' = IF s = page THEN Append(exits, Len(log')) ELSE exits
    /\ running' = [running EXCEPT ![s] = Idle]
    /\ UNCHANGED <<repo, started, resetVars, pageVars, fetches, card, last>>
-----------------------------------------------------------------------------
(* The fetch effect *)

(* Mutant: a fetch that was aborted counts as unanswered for ever. *)
AbortedAll == [i \in DOMAIN fetches |-> [fetches[i] EXCEPT !.state = "aborted"]]

Aborted == [i \in DOMAIN fetches |-> [fetches[i] EXCEPT !.state = "over", !.content = 0]]

(* Mutant: the clean-up of the effect does not abort. *)
FetchOver(s, ctx) ==
    /\ Len(fetches) < MaxFetches
    /\ fetches' = Append(fetches, [session |-> s, context |-> ctx, state |-> "asked", content |-> 0])

Fetch(s, ctx) ==
    /\ Len(fetches) < MaxFetches
    /\ fetches' = Append(Aborted, [session |-> s, context |-> ctx, state |-> "asked", content |-> 0])

(* The card when a fetch of the same session starts. *)
Loading ==
    IF card.snapshot # NoSnapshot THEN [card EXCEPT !.status = "stale"]
    ELSE [card EXCEPT !.status = "loading", !.error = FALSE]

(* The API answers with the content of this moment (an aborted fetch is not heard). *)
Answer(i) ==
    /\ fetches[i].state = "asked"
    /\ fetches' = [fetches EXCEPT ![i].state = "answered", ![i].content = repo[fetches[i].session]]
    /\ UNCHANGED <<shellVars, resetVars, exits, pageVars, card, last>>

Take(i) == fetches' = [fetches EXCEPT ![i].state = "over", ![i].content = 0]

Outcome(command, from, to) ==
    IF command # NoCommand /\ from # NoSnapshot /\ from.content # to.content
    THEN <<command, from.content, to.content>> ELSE NoOutcome

Succeed(i) ==
    /\ fetches[i].state = "answered"
    /\ Take(i)
    /\ LET snapshot == [session |-> fetches[i].session, content |-> fetches[i].content]
       IN /\ card' = [status |-> "ready", snapshot |-> snapshot, error |-> FALSE,
                      attribution |-> fetches[i].context,
                      outcome |-> Outcome(fetches[i].context, last, snapshot), refreshing |-> FALSE]
          /\ last' = snapshot
    /\ UNCHANGED <<shellVars, resetVars, exits, pageVars>>

(* Mutant: only the error is shown. *)
FailQuietly(i) ==
    /\ fetches[i].state = "asked"
    /\ Take(i)
    /\ card' = [card EXCEPT !.status = IF card.snapshot = NoSnapshot THEN "error" ELSE "stale", !.error = TRUE]
    /\ UNCHANGED <<shellVars, resetVars, exits, pageVars, last>>

Fail(i) ==
    /\ fetches[i].state = "asked"
    /\ Take(i)
    /\ card' = [card EXCEPT !.status = IF card.snapshot = NoSnapshot THEN "error" ELSE "stale",
                            !.error = TRUE, !.refreshing = FALSE]
    /\ UNCHANGED <<shellVars, resetVars, exits, pageVars, last>>
-----------------------------------------------------------------------------
(* The page *)

(* The status and exit frames of a command reach the page's socket. *)
ReceiveExit ==
    /\ exits # <<>>
    /\ history' = Append(history, Head(exits))
    /\ exits' = Tail(exits)
    /\ UNCHANGED <<shellVars, resetVars, page, noticed, context, fetches, card, last>>

(* The effects see commands that have completed since their last run. *)
Notice ==
    /\ page # NoSession /\ Len(history) > noticed
    /\ noticed' = Len(history)
    /\ context' = history[Len(history)]
    /\ Fetch(page, history[Len(history)])
    /\ card' = Loading
    /\ UNCHANGED <<shellVars, resetVars, exits, page, history, last>>

(* The terminal connects again: its history starts afresh, and the frames of the
   old socket are not read. *)
Reconnect ==
    /\ page # NoSession /\ (history # <<>> \/ exits # <<>>)
    /\ history' = <<>> /\ noticed' = 0 /\ exits' = <<>>
    /\ UNCHANGED <<shellVars, resetVars, page, context, fetches, card, last>>

(* Another session, or the first one, is shown. *)
Show(s) ==
    /\ s # page
    /\ page' = s /\ history' = <<>> /\ noticed' = 0 /\ exits' = <<>> /\ context' = NoCommand
    /\ Fetch(s, NoCommand)
    /\ card' = [IdleCard EXCEPT !.status = "loading"] /\ last' = NoSnapshot
    /\ UNCHANGED <<shellVars, resetVars>>

(* Mutant: the attribution is not reset with the card. *)
HideKeeping ==
    /\ page # NoSession
    /\ page' = NoSession /\ history' = <<>> /\ noticed' = 0 /\ exits' = <<>> /\ context' = NoCommand
    /\ fetches' = Aborted
    /\ card' = [IdleCard EXCEPT !.attribution = card.attribution] /\ last' = NoSnapshot
    /\ UNCHANGED <<shellVars, resetVars>>

(* A lookup, a logout or an error hides the session. *)
Hide ==
    /\ page # NoSession
    /\ page' = NoSession /\ history' = <<>> /\ noticed' = 0 /\ exits' = <<>> /\ context' = NoCommand
    /\ fetches' = Aborted
    /\ card' = IdleCard /\ last' = NoSnapshot
    /\ UNCHANGED <<shellVars, resetVars>>

(* A lookup brings a new object for the session that is shown. *)
Renew ==
    /\ page # NoSession
    /\ Fetch(page, context)
    /\ card' = Loading
    /\ UNCHANGED <<shellVars, resetVars, exits, pageVars, last>>

(* The API resets the repository of the session that is shown; its answer and that
   of the lookup after it reach the page later, if the session is still shown. *)
ResetRepo ==
    /\ page # NoSession /\ resetting = NoSession /\ resets < MaxResets
    /\ repo' = [repo EXCEPT ![page] = @ + 1]
    /\ resetting' = page /\ resets' = resets + 1
    /\ UNCHANGED <<log, running, started, exits, pageVars, fetches, card, last>>

ResetDone ==
    /\ resetting # NoSession
    /\ resetting' = NoSession
    /\ IF page = resetting
       THEN /\ context' = NoCommand
            /\ Fetch(page, NoCommand)
            /\ card' = Loading
       ELSE UNCHANGED <<context, fetches, card>>
    /\ UNCHANGED <<shellVars, resets, exits, page, history, noticed, last>>

(* The card's Retry button, shown with an error and disabled while refreshing. *)
Retry ==
    /\ page # NoSession /\ card.error /\ ~card.refreshing
    /\ Fetch(page, context)
    /\ card' = [Loading EXCEPT !.refreshing = TRUE]
    /\ UNCHANGED <<shellVars, resetVars, exits, pageVars, last>>

Next ==
    \/ Begin
    \/ \E s \in Sessions : Change(s) \/ Finish(s) \/ Show(s)
    \/ \E i \in DOMAIN fetches : Answer(i) \/ Succeed(i) \/ Fail(i)
    \/ ReceiveExit \/ Notice \/ Reconnect \/ Hide \/ Renew \/ ResetRepo \/ ResetDone \/ Retry

Spec == Init /\ [][Next]_vars
-----------------------------------------------------------------------------
(* Properties *)

Contents == 0 .. Idle - 1
Snapshots == [session : Sessions, content : Contents] \cup {NoSnapshot}

(* The values each variable takes; a card that is ready has a snapshot. *)
TypeOK ==
    /\ repo \in [Sessions -> Contents] /\ running \in [Sessions -> Contents \cup {Idle}]
    /\ log \in Seq([session : Sessions, before : Contents, after : Contents])
    /\ started \in 0 .. MaxCommands /\ resets \in 0 .. MaxResets /\ resetting \in Sessions \cup {NoSession}
    /\ exits \in Seq(Commands) /\ history \in Seq(Commands) /\ noticed \in 0 .. Len(history)
    /\ page \in Sessions \cup {NoSession} /\ context \in Commands \cup {NoCommand}
    /\ fetches \in Seq([session : Sessions, context : Commands \cup {NoCommand},
                         state : {"asked", "answered", "over"}, content : Contents])
    /\ card.snapshot \in Snapshots /\ last \in Snapshots
    /\ card.status \in {"idle", "loading", "stale", "error"} \/ (card.status = "ready" /\ card.snapshot # NoSnapshot)

(* A card that says ready is about the session that is shown, and its snapshot was
   taken after every command of it the page has noticed. *)
ReadyIsCurrent ==
    card.status = "ready" =>
        /\ card.snapshot.session = page
        /\ \A i \in 1 .. noticed : card.snapshot.content >= log[history[i]].after

(* "Updated after" a command is said of a snapshot taken after that command had
   finished, of the same repository. *)
UpdatedAfter ==
    card.attribution # NoCommand =>
        /\ log[card.attribution].session = card.snapshot.session
        /\ log[card.attribution].after <= card.snapshot.content

(* A step of a card that goes on showing a session does not go back in it. *)
KeepsNewer ==
    card.snapshot # NoSnapshot /\ card'.snapshot.session = card.snapshot.session
        => card'.snapshot.content >= card.snapshot.content

(* The card never goes back to an older snapshot of a session it is showing. *)
NeverBack == [][KeepsNewer]_vars

(* A Retry button that is disabled waits for a fetch that will enable it again: its
   own, or the one that has aborted it. *)
RetryPending == card.refreshing => \E i \in DOMAIN fetches : fetches[i].state # "over"

(* Not kept by the code (the next command may have run before the fetch): an outcome is
   the change of the command it is shown for. *)
OutcomeIsTheCommands ==
    card.outcome # NoOutcome =>
        LET c == card.outcome[1]
        IN card.outcome[2] = log[c].before /\ card.outcome[3] = log[c].after
=============================================================================
