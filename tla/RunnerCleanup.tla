---------------------------- MODULE RunnerCleanup ----------------------------
(***************************************************************************)
(* The runner's clean-up manager over its terminal manager: DELETE calls   *)
(* delete a workspace at once or arm a timer, timers are superseded, and   *)
(* every deletion first releases the workspace's terminal, while terminal  *)
(* connections go on acquiring it.                                         *)
(*                                                                         *)
(* A task is the goroutine of one DELETE call, or the one it leaves behind *)
(* to wait for the delay; it is also the Releaser of its deletion.         *)
(* Durations are left out: a timer that is armed may fire.                 *)
(***************************************************************************)
EXTENDS TerminalSlots

CONSTANT NoTask   (* nil *)

Tasks == Releasers

ASSUME CleanupAssumption == NoTask \notin Tasks

VARIABLES
    task,      (* each task: where it is, its workspace, the entry it found   *)
    pending,   (* the manager's table: the task whose timer counts            *)
    cancelled, (* tasks whose timer context is cancelled                      *)
    failures,  (* workspaces whose last recorded clean-up failed              *)
    asked,     (* workspaces with an accepted DELETE                          *)
    latest     (* the task of the last DELETE that took the table's lock      *)

tableVars == <<pending, cancelled, failures, asked, latest>>
cleanupVars == <<task, tableVars>>
vars == <<slotVars, cleanupVars>>

Idle(w) == [pc |-> "idle", ws |-> w, entry |-> NoTask]

Init ==
    /\ SlotsInit
    /\ task \in [Tasks -> {Idle(w) : w \in Workspaces}]
    /\ \A r \in Tasks : task[r].ws = rel[r].ws
    /\ pending = [w \in Workspaces |-> NoTask]
    /\ latest = [w \in Workspaces |-> NoTask]
    /\ cancelled = {} /\ failures = {} /\ asked = {}

TaskAt(r, pc) == task' = [task EXCEPT ![r].pc = pc]
TaskEnds(r) == task' = [task EXCEPT ![r] = Idle(@.ws)]

(* An idle task whose name the table or the history still holds is not used again. *)
Available(r) ==
    /\ task[r].pc = "idle" /\ rel[r].pc = "idle"
    /\ \A w \in Workspaces : pending[w] # r
    /\ \A q \in Tasks : task[q].entry # r
-----------------------------------------------------------------------------
(* Schedule *)

(* The handler accepts a missing directory too: the terminal is released and the
   removal finds nothing. *)
DeleteNow(r, w) ==
    /\ Available(r)
    /\ task' = [task EXCEPT ![r] = [pc |-> "supersede", ws |-> w, entry |-> NoTask]]
    /\ asked' = asked \cup {w}
    /\ UNCHANGED <<slotVars, pending, cancelled, failures, latest>>

(* Under the lock: cancel the timer that is armed, put this one in its place. *)
DeleteLater(r, w) ==
    /\ Available(r)
    /\ task' = [task EXCEPT ![r] = [pc |-> "timer", ws |-> w, entry |-> NoTask]]
    /\ pending' = [pending EXCEPT ![w] = r]
    /\ cancelled' = (cancelled \ {r}) \cup ({pending[w]} \ {NoTask})
    /\ latest' = [latest EXCEPT ![w] = r]
    /\ asked' = asked \cup {w}
    /\ UNCHANGED <<slotVars, failures>>

(* cancelPending: the entry is taken out under the lock, cancelled after it. *)
Supersede(r) ==
    /\ task[r].pc = "supersede"
    /\ task' = [task EXCEPT ![r] = [pc |-> "cancel", ws |-> @.ws, entry |-> pending[@.ws]]]
    /\ pending' = [pending EXCEPT ![task[r].ws] = NoTask]
    /\ latest' = [latest EXCEPT ![task[r].ws] = r]
    /\ UNCHANGED <<slotVars, cancelled, failures, asked>>

(* Mutant: the entry is cancelled without asking whether there was one. *)
CancelNil(r) ==
    /\ task[r].pc = "cancel"
    /\ cancelled' = cancelled \cup {task[r].entry}
    /\ task' = [task EXCEPT ![r] = [pc |-> "delete", ws |-> @.ws, entry |-> NoTask]]
    /\ UNCHANGED <<slotVars, pending, failures, asked, latest>>

CancelEntry(r) ==
    /\ task[r].pc = "cancel"
    /\ cancelled' = cancelled \cup ({task[r].entry} \ {NoTask})
    /\ task' = [task EXCEPT ![r] = [pc |-> "delete", ws |-> @.ws, entry |-> NoTask]]
    /\ UNCHANGED <<slotVars, pending, failures, asked, latest>>

(* Mutant: a cancelled timer clears the workspace's entry, whoever's it is. *)
ClearAnyPending(r) ==
    /\ task[r].pc = "timer" /\ r \in cancelled
    /\ pending' = [pending EXCEPT ![task[r].ws] = NoTask]
    /\ TaskEnds(r)
    /\ UNCHANGED <<slotVars, cancelled, failures, asked, latest>>

(* The timer's goroutine sees the cancellation: clearPending. *)
ClearPending(r) ==
    /\ task[r].pc = "timer" /\ r \in cancelled
    /\ pending' = IF pending[task[r].ws] = r
                  THEN [pending EXCEPT ![task[r].ws] = NoTask] ELSE pending
    /\ TaskEnds(r)
    /\ UNCHANGED <<slotVars, cancelled, failures, asked, latest>>

(* Mutant: the timer does not ask whether it still counts. *)
BeginAnyDelete(r) ==
    /\ task[r].pc = "timer"
    /\ pending' = [pending EXCEPT ![task[r].ws] = NoTask]
    /\ TaskAt(r, "delete")
    /\ UNCHANGED <<slotVars, cancelled, failures, asked, latest>>

(* The timer fires, cancelled or not: beginPendingDelete. *)
BeginPendingDelete(r) ==
    /\ task[r].pc = "timer"
    /\ IF pending[task[r].ws] = r
       THEN /\ pending' = [pending EXCEPT ![task[r].ws] = NoTask]
            /\ TaskAt(r, "delete")
       ELSE TaskEnds(r) /\ UNCHANGED pending
    /\ UNCHANGED <<slotVars, cancelled, failures, asked, latest>>
-----------------------------------------------------------------------------
(* deleteNow *)

(* Mutant: the terminal is not released. *)
SkipRelease(r) ==
    /\ task[r].pc = "delete"
    /\ rel' = [rel EXCEPT ![r] = [pc |-> "returned", ws |-> task[r].ws, slot |-> NoSlot,
                                  old |-> LiveShells(task[r].ws)]]
    /\ TaskAt(r, "release")
    /\ UNCHANGED <<sessions, slot, shellVars, attach, ctx, dir, tableVars>>

ReleaseTerminal(r) ==
    /\ task[r].pc = "delete"
    /\ ReleaseCalled(r, task[r].ws)
    /\ TaskAt(r, "release")
    /\ UNCHANGED tableVars

(* Release has returned.  remove: the directory goes, or something is left and an
   error is returned; a missing one is a success. *)
RemoveDirectory(r) ==
    /\ task[r].pc = "release" /\ rel[r].pc = "returned"
    /\ \/ /\ dir' = dir \ {task[r].ws}
          /\ TaskAt(r, "succeeded")
       \/ /\ task[r].ws \in dir
          /\ TaskAt(r, "failed")
          /\ UNCHANGED dir
    /\ UNCHANGED <<sessions, slot, shellVars, attach, ctx, rel, tableVars>>

(* Mutant: a failure is not recorded. *)
RecordSuccess(r) ==
    /\ task[r].pc \in {"succeeded", "failed"}
    /\ failures' = IF task[r].pc = "succeeded" THEN failures \ {task[r].ws} ELSE failures
    /\ ReleaseReturns(r)
    /\ TaskEnds(r)
    /\ UNCHANGED <<pending, cancelled, asked, latest>>

RecordCleanupResult(r) ==
    /\ task[r].pc \in {"succeeded", "failed"}
    /\ failures' = IF task[r].pc = "succeeded" THEN failures \ {task[r].ws}
                                               ELSE failures \cup {task[r].ws}
    /\ ReleaseReturns(r)
    /\ TaskEnds(r)
    /\ UNCHANGED <<pending, cancelled, asked, latest>>

TaskStep(r) ==
    \/ Supersede(r) \/ CancelEntry(r) \/ ClearPending(r) \/ BeginPendingDelete(r)
    \/ ReleaseTerminal(r) \/ RemoveDirectory(r) \/ RecordCleanupResult(r)
-----------------------------------------------------------------------------
TerminalStep ==
    \/ \E a \in Attachers :
          AcquireStep(a) \/ CancelContext(a) \/ \E w \in Workspaces : AcquireCalled(a, w)
    \/ \E r \in Releasers : ReleaseStep(r)
    \/ \E s \in Slots : SessionStep(s)

CleanupNext ==
    \/ TerminalStep /\ UNCHANGED cleanupVars
    \/ \E r \in Tasks :
          TaskStep(r) \/ \E w \in Workspaces : DeleteNow(r, w) \/ DeleteLater(r, w)

CleanupSpec == Init /\ [][CleanupNext]_vars

(* Armed timers fire, goroutines run on, a removal takes finite time. *)
FairCleanupSpec ==
    /\ CleanupSpec
    /\ \A a \in Attachers : WF_vars(AcquireStep(a) /\ UNCHANGED cleanupVars)
    /\ \A r \in Tasks : WF_vars(TaskStep(r)) /\ WF_vars(ReleaseStep(r) /\ UNCHANGED cleanupVars)
-----------------------------------------------------------------------------
(* The values each variable takes. *)
CleanupTypeOK ==
    /\ task \in [Tasks -> [pc : {"idle", "supersede", "cancel", "timer", "delete", "release",
                                 "succeeded", "failed"},
                           ws : Workspaces, entry : Tasks \cup {NoTask}]]
    /\ pending \in [Workspaces -> Tasks \cup {NoTask}]
    /\ latest \in [Workspaces -> Tasks \cup {NoTask}]
    /\ cancelled \subseteq Tasks
    /\ failures \subseteq Workspaces /\ asked \subseteq Workspaces

(* The values the variables of both managers take. *)
TypesOK == TypeOK /\ CleanupTypeOK

(* A deletion that was accepted is not lost while its directory exists: a task is
   going to remove it, or its failure is on record.  Superseding a timer may not
   leave the workspace with no timer at all. *)
Pursued(w) ==
    \E r \in Tasks :
        /\ task[r].ws = w
        /\ task[r].pc = "timer" => (pending[w] = r /\ r \notin cancelled)
        /\ task[r].pc # "idle"
NothingForgotten ==
    \A w \in asked : w \in dir => w \in failures \/ Pursued(w)

(* A delayed deletion begins only if no DELETE of the workspace came after the one
   that armed it: a later delay, or a deletion at once, takes its place. *)
LatestDecides ==
    [][\A r \in Tasks :
          (task[r].pc = "timer" /\ task'[r].pc = "delete") => latest[task[r].ws] = r]_vars

(* A directory goes only after the shell that ran in it when its deletion began has
   ended, unless the manager has lost it ("stop any active terminal session for that
   workspace before deleting", the clean-up design). *)
ShellsEndFirst ==
    [][\A w \in dir \ dir' : \E r \in Tasks :
          /\ task[r].ws = w /\ task[r].pc = "release" /\ rel[r].pc = "returned"
          /\ OldEnded(r)]_vars

(* An accepted deletion is carried out or its failure recorded, unless a session jams
   or later DELETEs keep replacing it.  Release looks again after each start it has
   waited for, so this needs that shells are not started for ever. *)
StartsCease == <>[](\A a \in Attachers : attach[a].pc # "start")
DeletedOrReported ==
    StartsCease =>
        \A w \in Workspaces : \A r \in Tasks :
            (task[r].ws = w /\ task[r].pc # "idle" /\ latest[w] = r) ~>
                (w \notin dir \/ w \in failures \/ jammed # {} \/ latest[w] # r)

(* Not kept by the code (an Acquire may come between release and removal): no shell runs
   in a workspace at the moment it is removed ("stop any active terminal session for that
   workspace before deleting", the clean-up design). *)
NoShellWhenRemoved ==
    [][\A w \in dir \ dir' : LiveShells(w) = {}]_vars
=============================================================================
