---------------------------- MODULE TerminalSlots ----------------------------
(***************************************************************************)
(* The runner's terminal manager: which shell belongs to which workspace.  *)
(* Acquire and Release meet over one map under the manager's mutex; shells *)
(* are started and killed outside it, so a slot says what is going on and  *)
(* holds a channel for those who must wait.                                *)
(*                                                                         *)
(* A slot, its session and its shell have one identity.  What happens      *)
(* inside a session is TerminalSession's; here it may only jam.            *)
(***************************************************************************)
EXTENDS Naturals, FiniteSets

CONSTANTS
    Workspaces,
    Attachers,  (* calls of Acquire that may be under way at once            *)
    Releasers,  (* calls of Release that may be under way at once            *)
    Slots,      (* slots that may be in use at once                          *)
    NoSlot,     (* nil                                                       *)
    MaxJams     (* bound on the sessions that jam                            *)

ASSUME SlotAssumption == NoSlot \notin Slots /\ MaxJams \in Nat

VARIABLES
    sessions,   (* the manager's map                                         *)
    slot,       (* each slot's workspace, state and two channels             *)
    shell,      (* each slot's process: "none" yet, "alive", "detached" (it
                   runs, but has let go of its terminal) or "dead"           *)
    closed,     (* sessions whose closed flag is set                         *)
    jammed,     (* sessions whose mutex is never released again              *)
    attach,     (* the calls of Acquire                                      *)
    ctx,        (* calls of Acquire whose context is cancelled               *)
    rel,        (* the calls of Release                                      *)
    dir         (* workspaces whose directory exists                         *)

shellVars == <<shell, closed, jammed>>
slotVars == <<sessions, slot, shellVars, attach, ctx, rel, dir>>

SlotStates == {"unused", "starting", "active", "releasing"}
ShellStates == {"none", "alive", "detached", "dead"}

NoAttach(w) == [pc |-> "idle", ws |-> w, slot |-> NoSlot]
NoRelease(w) == [pc |-> "idle", ws |-> w, slot |-> NoSlot, old |-> {}]

SlotsInit ==
    /\ sessions = [w \in Workspaces |-> NoSlot]
    /\ \E w \in Workspaces :
          /\ slot = [s \in Slots |-> [ws |-> w, state |-> "unused",
                                      ready |-> FALSE, released |-> FALSE]]
          /\ attach = [a \in Attachers |-> NoAttach(w)]
          /\ rel = [r \in Releasers |-> NoRelease(w)]
    /\ shell = [s \in Slots |-> "none"]
    /\ closed = {} /\ jammed = {} /\ ctx = {}
    /\ dir = Workspaces

(* The manager's mutex is held across steps by an Acquire that asks a jammed
   session whether it is closed. *)
Held == \E a \in Attachers : attach[a].pc = "stuck"

(* What the garbage collector may take: nobody refers to it, its shell is gone, or
   runs on where no one looks for it. *)
Free(s) ==
    /\ \A w \in Workspaces : sessions[w] # s
    /\ shell[s] # "alive" /\ s \notin jammed
    /\ \A a \in Attachers : attach[a].slot # s
    /\ \A r \in Releasers : rel[r].slot # s /\ s \notin rel[r].old

AttachAt(a, pc, s) == attach' = [attach EXCEPT ![a] = [pc |-> pc, ws |-> @.ws, slot |-> s]]
AcquireReturns(a) ==
    /\ attach' = [attach EXCEPT ![a] = NoAttach(@.ws)]
    /\ ctx' = ctx \ {a}
-----------------------------------------------------------------------------
(* Acquire *)

(* The directory is checked once, before the loop. *)
AcquireCalled(a, w) ==
    /\ attach[a].pc = "idle" /\ w \in dir
    /\ attach' = [attach EXCEPT ![a] = [pc |-> "look", ws |-> w, slot |-> NoSlot]]
    /\ UNCHANGED <<sessions, slot, shellVars, ctx, rel, dir>>

CancelContext(a) ==
    /\ attach[a].pc # "idle"
    /\ ctx' = ctx \cup {a}
    /\ UNCHANGED <<sessions, slot, shellVars, attach, rel, dir>>

(* ctx is looked at in each round and in each wait. *)
GiveUp(a) ==
    /\ a \in ctx /\ attach[a].pc \in {"look", "ready", "released"}
    /\ AcquireReturns(a)
    /\ UNCHANGED <<sessions, slot, shellVars, rel, dir>>

(* The slot found for the workspace, by what is to be done about it. *)
Current(a) == sessions[attach[a].ws]
InState(s, state) == s # NoSlot /\ slot[s].state = state

ReuseSession(a) ==
    /\ attach[a].pc = "look" /\ ~Held
    /\ InState(Current(a), "active") /\ Current(a) \notin closed \cup jammed
    /\ AcquireReturns(a)
    /\ UNCHANGED <<sessions, slot, shellVars, rel, dir>>

(* isClosed waits for the session's mutex with the manager's held. *)
AskJammedSession(a) ==
    /\ attach[a].pc = "look" /\ ~Held
    /\ InState(Current(a), "active") /\ Current(a) \in jammed
    /\ AttachAt(a, "stuck", Current(a))
    /\ UNCHANGED <<sessions, slot, shellVars, ctx, rel, dir>>

WaitForSlot(a) ==
    /\ attach[a].pc = "look" /\ ~Held
    /\ \/ InState(Current(a), "starting") /\ AttachAt(a, "ready", Current(a))
       \/ InState(Current(a), "releasing") /\ AttachAt(a, "released", Current(a))
    /\ UNCHANGED <<sessions, slot, shellVars, ctx, rel, dir>>

SlotReady(a) ==
    /\ \/ attach[a].pc = "ready" /\ slot[attach[a].slot].ready
       \/ attach[a].pc = "released" /\ slot[attach[a].slot].released
    /\ AttachAt(a, "look", NoSlot)
    /\ UNCHANGED <<sessions, slot, shellVars, ctx, rel, dir>>

(* Mutant: a slot that is being released is replaced. *)
ReplaceableEagerly(s) ==
    \/ s = NoSlot
    \/ InState(s, "active") /\ s \in closed
    \/ InState(s, "releasing")

(* There is no slot, or its session has ended: a new one takes its place. *)
Replaceable(s) == s = NoSlot \/ (InState(s, "active") /\ s \in closed)

InstallSlot(a) ==
    /\ attach[a].pc = "look" /\ ~Held
    /\ Replaceable(Current(a))
    /\ \E s \in Slots :
          /\ Free(s)
          /\ sessions' = [sessions EXCEPT ![attach[a].ws] = s]
          /\ slot' = [slot EXCEPT ![s] = [ws |-> attach[a].ws, state |-> "starting",
                                          ready |-> FALSE, released |-> FALSE]]
          /\ shell' = [shell EXCEPT ![s] = "none"]
          /\ closed' = closed \ {s}
          /\ AttachAt(a, "start", s)
    /\ UNCHANGED <<jammed, ctx, rel, dir>>

(* startTerminalSession, outside the mutex.  It fails when the context is
   cancelled, the directory has gone or the process cannot be started. *)
StartShell(a) ==
    /\ attach[a].pc = "start"
    /\ \/ attach[a].ws \in dir /\ shell' = [shell EXCEPT ![attach[a].slot] = "alive"]
       \/ UNCHANGED shell
    /\ AttachAt(a, "publish", attach[a].slot)
    /\ UNCHANGED <<sessions, slot, closed, jammed, ctx, rel, dir>>

(* Mutant: a slot whose start failed stays in the map in a state of its own. *)
PublishUntyped(a) ==
    /\ attach[a].pc = "publish" /\ ~Held
    /\ slot' = [slot EXCEPT ![attach[a].slot].ready = TRUE, ![attach[a].slot].state =
                   IF shell[attach[a].slot] = "none" THEN "failed" ELSE "active"]
    /\ AcquireReturns(a)
    /\ UNCHANGED <<sessions, shellVars, rel, dir>>

(* Mutant: the waiters are not told when the start failed. *)
PublishOnSuccess(a) ==
    /\ attach[a].pc = "publish" /\ ~Held
    /\ LET s == attach[a].slot IN
       IF shell[s] = "none"
       THEN /\ sessions' = [sessions EXCEPT ![attach[a].ws] = NoSlot]
            /\ UNCHANGED slot
       ELSE /\ slot' = [slot EXCEPT ![s].state = "active", ![s].ready = TRUE]
            /\ UNCHANGED sessions
    /\ AcquireReturns(a)
    /\ UNCHANGED <<shellVars, rel, dir>>

(* Back under the mutex: if the slot is still the workspace's, it becomes active
   or is taken out, and its waiters are woken. *)
Publish(a) ==
    /\ attach[a].pc = "publish" /\ ~Held
    /\ LET s == attach[a].slot IN
       IF Current(a) # s THEN UNCHANGED <<sessions, slot>>
       ELSE /\ sessions' = [sessions EXCEPT ![attach[a].ws] =
                               IF shell[s] = "none" THEN NoSlot ELSE s]
            /\ slot' = [slot EXCEPT ![s].state = IF shell[s] = "none" THEN @ ELSE "active",
                                    ![s].ready = TRUE]
    /\ AcquireReturns(a)
    /\ UNCHANGED <<shellVars, rel, dir>>

AcquireStep(a) ==
    \/ GiveUp(a) \/ ReuseSession(a) \/ AskJammedSession(a) \/ WaitForSlot(a)
    \/ SlotReady(a) \/ InstallSlot(a) \/ StartShell(a) \/ Publish(a)
-----------------------------------------------------------------------------
(* Release *)

Runs(s) == shell[s] \in {"alive", "detached"}
LiveShells(w) == {s \in Slots : Runs(s) /\ slot[s].ws = w}

ReleaseAt(r, pc, s) == rel' = [rel EXCEPT ![r].pc = pc, ![r].slot = s]

(* old remembers the shells that were running when Release was called. *)
ReleaseCalled(r, w) ==
    /\ rel[r].pc = "idle"
    /\ rel' = [rel EXCEPT ![r] = [pc |-> "look", ws |-> w, slot |-> NoSlot,
                                  old |-> LiveShells(w)]]
    /\ UNCHANGED <<sessions, slot, shellVars, attach, ctx, dir>>

Found(r) == sessions[rel[r].ws]

NothingToRelease(r) ==
    /\ rel[r].pc = "look" /\ ~Held
    /\ Found(r) = NoSlot
    /\ ReleaseAt(r, "returned", NoSlot)
    /\ UNCHANGED <<sessions, slot, shellVars, attach, ctx, dir>>

(* Neither wait looks at a context. *)
ReleaseWaits(r) ==
    /\ rel[r].pc = "look" /\ ~Held
    /\ \/ InState(Found(r), "starting") /\ ReleaseAt(r, "ready", Found(r))
       \/ InState(Found(r), "releasing") /\ ReleaseAt(r, "released", Found(r))
    /\ UNCHANGED <<sessions, slot, shellVars, attach, ctx, dir>>

(* After a start another round follows; after a release by another this one is
   over too. *)
ReleaseWoken(r) ==
    /\ \/ rel[r].pc = "ready" /\ slot[rel[r].slot].ready /\ ReleaseAt(r, "look", NoSlot)
       \/ rel[r].pc = "released" /\ slot[rel[r].slot].released /\ ReleaseAt(r, "returned", NoSlot)
    /\ UNCHANGED <<sessions, slot, shellVars, attach, ctx, dir>>

(* Mutant: the slot is taken out of the map before its session is closed. *)
ClaimSlotEarly(r) ==
    /\ rel[r].pc = "look" /\ ~Held
    /\ InState(Found(r), "active")
    /\ slot' = [slot EXCEPT ![Found(r)].state = "releasing", ![Found(r)].released = FALSE]
    /\ sessions' = [sessions EXCEPT ![rel[r].ws] = NoSlot]
    /\ ReleaseAt(r, "finish", Found(r))
    /\ UNCHANGED <<shellVars, attach, ctx, dir>>

ClaimSlot(r) ==
    /\ rel[r].pc = "look" /\ ~Held
    /\ InState(Found(r), "active")
    /\ slot' = [slot EXCEPT ![Found(r)].state = "releasing", ![Found(r)].released = FALSE]
    /\ ReleaseAt(r, "finish", Found(r))
    /\ UNCHANGED <<sessions, shellVars, attach, ctx, dir>>

(* session.close, outside the mutex: the session is marked closed, then its
   process is killed and reaped. *)
FinishSession(r) ==
    /\ rel[r].pc = "finish" /\ rel[r].slot \notin jammed
    /\ closed' = closed \cup {rel[r].slot}
    /\ ReleaseAt(r, "kill", rel[r].slot)
    /\ UNCHANGED <<sessions, slot, shell, jammed, attach, ctx, dir>>

KillShell(r) ==
    /\ rel[r].pc = "kill"
    /\ shell' = [shell EXCEPT ![rel[r].slot] = "dead"]
    /\ ReleaseAt(r, "drop", rel[r].slot)
    /\ UNCHANGED <<sessions, slot, closed, jammed, attach, ctx, dir>>

DropSlot(r) ==
    /\ rel[r].pc = "drop" /\ ~Held
    /\ sessions' = IF Found(r) = rel[r].slot
                   THEN [sessions EXCEPT ![rel[r].ws] = NoSlot] ELSE sessions
    /\ slot' = [slot EXCEPT ![rel[r].slot].released = TRUE]
    /\ ReleaseAt(r, "returned", NoSlot)
    /\ UNCHANGED <<shellVars, attach, ctx, dir>>

ReleaseStep(r) ==
    \/ NothingToRelease(r) \/ ReleaseWaits(r) \/ ReleaseWoken(r) \/ ClaimSlot(r)
    \/ FinishSession(r) \/ KillShell(r) \/ DropSlot(r)

ReleaseReturns(r) ==
    /\ rel[r].pc = "returned"
    /\ rel' = [rel EXCEPT ![r] = NoRelease(@.ws)]
    /\ UNCHANGED <<sessions, slot, shellVars, attach, ctx, dir>>
-----------------------------------------------------------------------------
(* The sessions *)

ShellExits(s) ==
    /\ Runs(s)
    /\ shell' = [shell EXCEPT ![s] = "dead"]
    /\ UNCHANGED <<sessions, slot, closed, jammed, attach, ctx, rel, dir>>

(* The session notices that its process has ended (it is waited for). *)
SessionEnds(s) ==
    /\ shell[s] = "dead" /\ s \notin closed \cup jammed
    /\ closed' = closed \cup {s}
    /\ UNCHANGED <<sessions, slot, shell, jammed, attach, ctx, rel, dir>>

(* The terminal reports its end although the shell runs: it has let go of it. *)
ShellDetaches(s) ==
    /\ shell[s] = "alive" /\ s \notin closed \cup jammed
    /\ shell' = [shell EXCEPT ![s] = "detached"]
    /\ closed' = closed \cup {s}
    /\ UNCHANGED <<sessions, slot, jammed, attach, ctx, rel, dir>>

SessionJams(s) ==
    /\ InState(s, "active") /\ shell[s] = "alive" /\ s \notin closed
    /\ Cardinality(jammed) < MaxJams
    /\ jammed' = jammed \cup {s}
    /\ UNCHANGED <<sessions, slot, shell, closed, attach, ctx, rel, dir>>

SessionStep(s) == ShellExits(s) \/ SessionEnds(s) \/ ShellDetaches(s) \/ SessionJams(s)

DirectoryGoes(w) ==
    /\ w \in dir
    /\ dir' = dir \ {w}
    /\ UNCHANGED <<sessions, slot, shellVars, attach, ctx, rel>>
-----------------------------------------------------------------------------
Next ==
    \/ \E a \in Attachers :
          AcquireStep(a) \/ CancelContext(a) \/ \E w \in Workspaces : AcquireCalled(a, w)
    \/ \E r \in Releasers :
          ReleaseStep(r) \/ ReleaseReturns(r) \/ \E w \in Workspaces : ReleaseCalled(r, w)
    \/ \E s \in Slots : SessionStep(s)
    \/ \E w \in Workspaces : DirectoryGoes(w)

Spec == SlotsInit /\ [][Next]_slotVars

(* The goroutines of the two calls run on, starting a process and killing one
   take finite time, and a process that is dead is noticed. *)
FairSpec ==
    /\ Spec
    /\ \A a \in Attachers : WF_slotVars(AcquireStep(a))
    /\ \A r \in Releasers : WF_slotVars(ReleaseStep(r))
-----------------------------------------------------------------------------
(* The values each variable takes. *)
TypeOK ==
    /\ sessions \in [Workspaces -> Slots \cup {NoSlot}]
    /\ slot \in [Slots -> [ws : Workspaces, state : SlotStates,
                           ready : BOOLEAN, released : BOOLEAN]]
    /\ shell \in [Slots -> ShellStates]
    /\ closed \subseteq Slots /\ jammed \subseteq Slots
    /\ attach \in [Attachers ->
          [pc : {"idle", "look", "ready", "released", "start", "publish", "stuck"},
           ws : Workspaces, slot : Slots \cup {NoSlot}]]
    /\ ctx \subseteq Attachers
    /\ rel \in [Releasers ->
          [pc : {"idle", "look", "ready", "released", "finish", "kill", "drop", "returned"},
           ws : Workspaces, slot : Slots \cup {NoSlot}, old : SUBSET Slots]]
    /\ dir \subseteq Workspaces

(* A workspace has one shell at most that has not let go of its terminal, although
   shells are started and killed outside the mutex and may exit in between. *)
OneShell ==
    \A s, t \in Slots :
        (s # t /\ shell[s] = "alive" /\ shell[t] = "alive") => slot[s].ws # slot[t].ws

(* Who waits for a channel is woken: it is closed, or its slot is in the map and
   another call, past that point, is going to close it. *)
Starter(s) == \E a \in Attachers : attach[a].slot = s /\ attach[a].pc \in {"start", "publish"}
Closer(s) == \E r \in Releasers : rel[r].slot = s /\ rel[r].pc \in {"finish", "kill", "drop"}
WaitingFor(s, pc) ==
    \/ \E a \in Attachers : attach[a].slot = s /\ attach[a].pc = pc
    \/ \E r \in Releasers : rel[r].slot = s /\ rel[r].pc = pc
NoLostWakeup ==
    \A s \in Slots :
        /\ WaitingFor(s, "ready") => slot[s].ready \/ (Starter(s) /\ sessions[slot[s].ws] = s)
        /\ WaitingFor(s, "released") => slot[s].released \/ (Closer(s) /\ sessions[slot[s].ws] = s)

(* The manager has lost a shell: its terminal had ended without it, and Acquire has
   put another slot in the place of its own. *)
Lost(s) == shell[s] = "detached" /\ sessions[slot[s].ws] # s

(* When Release returns, the shells that ran in the workspace when it was called have
   ended, whoever killed them, but for those the manager has lost ("Close the PTY and
   kill the process on release", the terminal plan). *)
OldEnded(r) == \A s \in rel[r].old : Runs(s) => Lost(s)
ReleaseKills == \A r \in Releasers : rel[r].pc = "returned" => OldEnded(r)

(* No wait is for ever, unless a session has jammed: then its Release, or an
   Acquire of its workspace and with it the whole manager, may wait for good. *)
WaitsEndOrJam ==
    /\ \A a \in Attachers :
          attach[a].pc \in {"ready", "released"} ~> (attach[a].pc \in {"idle", "look"} \/ jammed # {})
    /\ \A r \in Releasers :
          rel[r].pc \in {"ready", "released", "finish"} ~>
             (rel[r].pc \in {"look", "returned"} \/ jammed # {})

(* Not kept by the code (Acquire replaces a slot whose terminal has ended without closing
   its session): no shell outlives the Release of its workspace (the terminal plan, as
   above). *)
ReleaseKillsAll ==
    \A r \in Releasers : rel[r].pc = "returned" => \A s \in rel[r].old : ~Runs(s)
=============================================================================
