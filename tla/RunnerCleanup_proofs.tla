----------------------- MODULE RunnerCleanup_proofs -----------------------
(*************************************************************************)
(* Proofs about TerminalSlots and RunnerCleanup, for any number of       *)
(* workspaces, slots, connections, DELETE calls and calls at the same    *)
(* time. What the map of terminals and the waiters rely on holds         *)
(* whatever the shells do; one shell per workspace needs that no shell   *)
(* lets go of its terminal.  The clean-up manager uses the terminal      *)
(* manager as TerminalSlots has it, so what is proved there holds of the *)
(* two together; no deletion is lost, and the last one decides.          *)
(*************************************************************************)
EXTENDS RunnerCleanup, TLAPS

SlotOrNone == Slots \cup {NoSlot}
AttachPC == {"idle", "look", "ready", "released", "start", "publish", "stuck"}
ReleasePC == {"idle", "look", "ready", "released", "finish", "kill", "drop", "returned"}
AttachType == attach \in [Attachers -> [pc : AttachPC, ws : Workspaces, slot : SlotOrNone]]
ReleaseType ==
    rel \in [Releasers -> [pc : ReleasePC, ws : Workspaces, slot : SlotOrNone, old : SUBSET Slots]]
SlotType ==
    slot \in [Slots -> [ws : Workspaces, state : SlotStates, ready : BOOLEAN, released : BOOLEAN]]

(* A call that starts, waits for or closes a shell has a slot. *)
Holding ==
    /\ \A a \in Attachers : attach[a].pc \in {"ready", "released", "start", "publish"}
                                => attach[a].slot \in Slots
    /\ \A r \in Releasers : rel[r].pc \in {"ready", "released", "finish", "kill", "drop"}
                                => rel[r].slot \in Slots

(* The slot in the map is the workspace's own, and nobody has announced its
   release. *)
Mapped ==
    \A w \in Workspaces : sessions[w] # NoSlot =>
        /\ slot[sessions[w]].ws = w /\ slot[sessions[w]].state # "unused"
        /\ ~slot[sessions[w]].released

(* Who starts or closes a shell owns its slot alone: it is in the map, in the state
   that says so, and no other call starts or closes it. *)
Starting(a) == attach[a].pc \in {"start", "publish"}
Closing(r) == rel[r].pc \in {"finish", "kill", "drop"}

Owned ==
    /\ \A a \in Attachers : Starting(a) =>
          /\ slot[attach[a].slot].state = "starting" /\ slot[attach[a].slot].ws = attach[a].ws
          /\ sessions[attach[a].ws] = attach[a].slot
    /\ \A a, b \in Attachers :
          Starting(a) /\ Starting(b) /\ attach[a].slot = attach[b].slot => a = b
    /\ \A r \in Releasers : Closing(r) =>
          /\ slot[rel[r].slot].state = "releasing" /\ slot[rel[r].slot].ws = rel[r].ws
          /\ sessions[rel[r].ws] = rel[r].slot
    /\ \A q, r \in Releasers :
          Closing(q) /\ Closing(r) /\ rel[q].slot = rel[r].slot => q = r

(* A slot in the map that is being started or closed has somebody who does it. *)
Attended ==
    \A w \in Workspaces :
        /\ InState(sessions[w], "starting") => Starter(sessions[w])
        /\ InState(sessions[w], "releasing") => Closer(sessions[w])

MapInv == TypeOK /\ Holding /\ Mapped /\ Owned /\ Attended /\ NoLostWakeup
-----------------------------------------------------------------------------
LEMMA NoSlotApart == NoSlot \notin Slots
  BY SlotAssumption

LEMMA AttachMoved ==
  ASSUME AttachType, NEW a \in Attachers, NEW pc \in AttachPC, NEW s \in SlotOrNone,
         AttachAt(a, pc, s)
  PROVE  /\ AttachType'
         /\ attach'[a].pc = pc /\ attach'[a].slot = s /\ attach'[a].ws = attach[a].ws
         /\ \A b \in Attachers \ {a} : attach'[b] = attach[b]
  BY DEF AttachType, AttachAt

LEMMA AttachEnded ==
  ASSUME AttachType, NEW a \in Attachers, AcquireReturns(a), ctx \subseteq Attachers
  PROVE  /\ AttachType' /\ ctx' \subseteq Attachers
         /\ attach'[a].pc = "idle" /\ attach'[a].slot = NoSlot /\ attach'[a].ws = attach[a].ws
         /\ \A b \in Attachers \ {a} : attach'[b] = attach[b]
  BY DEF AttachType, AcquireReturns, NoAttach, AttachPC, SlotOrNone

LEMMA ReleaseMoved ==
  ASSUME ReleaseType, NEW r \in Releasers, NEW pc \in ReleasePC, NEW s \in SlotOrNone,
         ReleaseAt(r, pc, s)
  PROVE  /\ ReleaseType'
         /\ rel'[r].pc = pc /\ rel'[r].slot = s
         /\ rel'[r].ws = rel[r].ws /\ rel'[r].old = rel[r].old
         /\ \A q \in Releasers \ {r} : rel'[q] = rel[q]
  BY DEF ReleaseType, ReleaseAt

LEMMA Types ==
  TypeOK <=> /\ sessions \in [Workspaces -> SlotOrNone] /\ SlotType
             /\ shell \in [Slots -> ShellStates]
             /\ closed \subseteq Slots /\ jammed \subseteq Slots
             /\ AttachType /\ ctx \subseteq Attachers /\ ReleaseType /\ dir \subseteq Workspaces
  BY DEF TypeOK, SlotType, AttachType, ReleaseType, AttachPC, ReleasePC, SlotOrNone

LEMMA TypesNext ==
  ASSUME sessions' \in [Workspaces -> SlotOrNone], SlotType',
         shell' \in [Slots -> ShellStates],
         closed' \subseteq Slots, jammed' \subseteq Slots,
         AttachType', ctx' \subseteq Attachers, ReleaseType', dir' \subseteq Workspaces
  PROVE  TypeOK'
  BY DEF TypeOK, SlotType, AttachType, ReleaseType, AttachPC, ReleasePC, SlotOrNone

LEMMA MapInvInit == SlotsInit => MapInv
<1> SUFFICES ASSUME SlotsInit PROVE MapInv
  OBVIOUS
<1>1. TypeOK
  BY DEF SlotsInit, TypeOK, NoAttach, NoRelease, SlotStates, ShellStates
<1>2. Holding /\ Mapped /\ Owned
  BY DEF SlotsInit, Holding, Mapped, Owned, Starting, Closing, NoAttach, NoRelease
<1>3. Attended
  BY DEF SlotsInit, Attended, InState
<1>4. NoLostWakeup
  BY DEF SlotsInit, NoLostWakeup, WaitingFor, NoAttach, NoRelease
<1>5. QED
  BY <1>1, <1>2, <1>3, <1>4 DEF MapInv
-----------------------------------------------------------------------------
(* Steps that change neither the map nor a slot *)

(* One attacher moves, without starting or ending a start. *)
LEMMA AttacherMoves ==
  ASSUME MapInv, TypeOK', NEW a \in Attachers, UNCHANGED <<sessions, slot, rel>>,
         \A b \in Attachers \ {a} : attach'[b] = attach[b],
         Starting(a)' <=> Starting(a),
         Starting(a) => attach'[a].slot = attach[a].slot /\ attach'[a].ws = attach[a].ws,
         attach'[a].pc \in {"ready", "released"} =>
            /\ attach'[a].slot \in Slots
            /\ sessions[slot[attach'[a].slot].ws] = attach'[a].slot
            /\ attach'[a].pc = "ready" => Starter(attach'[a].slot)
            /\ attach'[a].pc = "released" => Closer(attach'[a].slot)
  PROVE  MapInv'
<1>1. Holding'
  BY DEF MapInv, Holding, Starting
<1>2. Mapped'
  BY DEF MapInv, Mapped
<1>3. Owned'
  BY DEF MapInv, Owned, Starting, Closing
<1>4. \A s : (Starter(s)' <=> Starter(s)) /\ (Closer(s)' <=> Closer(s))
  BY DEF Starter, Closer, Starting
<1>5. Attended'
  BY <1>4 DEF MapInv, Attended, InState
<1>6. NoLostWakeup'
  BY <1>4 DEF MapInv, NoLostWakeup, WaitingFor
<1>7. QED
  BY <1>1, <1>2, <1>3, <1>5, <1>6 DEF MapInv

(* One releaser moves, without claiming or dropping a slot. *)
LEMMA ReleaserMoves ==
  ASSUME MapInv, TypeOK', NEW r \in Releasers, UNCHANGED <<sessions, slot, attach>>,
         \A q \in Releasers \ {r} : rel'[q] = rel[q],
         Closing(r)' <=> Closing(r),
         Closing(r) => rel'[r].slot = rel[r].slot /\ rel'[r].ws = rel[r].ws,
         rel'[r].pc \in {"ready", "released"} =>
            /\ rel'[r].slot \in Slots
            /\ sessions[slot[rel'[r].slot].ws] = rel'[r].slot
            /\ rel'[r].pc = "ready" => Starter(rel'[r].slot)
            /\ rel'[r].pc = "released" => Closer(rel'[r].slot)
  PROVE  MapInv'
<1>1. Holding'
  BY DEF MapInv, Holding, Closing
<1>2. Mapped'
  BY DEF MapInv, Mapped
<1>3. Owned'
  BY DEF MapInv, Owned, Starting, Closing
<1>4. \A s : (Starter(s)' <=> Starter(s)) /\ (Closer(s)' <=> Closer(s))
  BY DEF Starter, Closer, Closing
<1>5. Attended'
  BY <1>4 DEF MapInv, Attended, InState
<1>6. NoLostWakeup'
  BY <1>4 DEF MapInv, NoLostWakeup, WaitingFor
<1>7. QED
  BY <1>1, <1>2, <1>3, <1>5, <1>6 DEF MapInv

LEMMA NobodyMoves ==
  ASSUME MapInv, TypeOK', UNCHANGED <<sessions, slot, attach, rel>>
  PROVE  MapInv'
<1>1. Holding' /\ Mapped' /\ Owned'
  BY DEF MapInv, Holding, Mapped, Owned, Starting, Closing
<1>2. Attended' /\ NoLostWakeup'
  BY DEF MapInv, Attended, InState, NoLostWakeup, WaitingFor, Starter, Closer
<1>3. QED
  BY <1>1, <1>2 DEF MapInv

LEMMA AcquireMoves ==
  ASSUME MapInv, NEW a \in Attachers,
         \/ GiveUp(a) \/ ReuseSession(a) \/ AskJammedSession(a) \/ WaitForSlot(a)
         \/ SlotReady(a) \/ StartShell(a) \/ CancelContext(a)
         \/ \E w \in Workspaces : AcquireCalled(a, w)
  PROVE  MapInv'
<1>0. TypeOK /\ AttachType /\ ctx \subseteq Attachers
      /\ sessions \in [Workspaces -> SlotOrNone] /\ NoSlot \in SlotOrNone
  BY Types DEF MapInv, SlotOrNone
<1>1. ASSUME AcquireReturns(a), UNCHANGED <<sessions, slot, shellVars, rel, dir>>, ~Starting(a)
      PROVE  MapInv'
  <2>1. TypeOK'
    BY <1>0, <1>1, AttachEnded, Types, TypesNext DEF shellVars, SlotType, ReleaseType
  <2>2. QED
    BY <1>0, <1>1, <2>1, AttachEnded, AttacherMoves DEF Starting
<1>2. CASE GiveUp(a)
  BY <1>1, <1>2 DEF GiveUp, Starting
<1>3. CASE ReuseSession(a)
  BY <1>1, <1>3 DEF ReuseSession, Starting
<1>4. ASSUME NEW pc \in AttachPC, NEW s \in SlotOrNone, AttachAt(a, pc, s),
             UNCHANGED <<sessions, slot, closed, jammed, ctx, rel, dir>>,
             shell' \in [Slots -> ShellStates]
      PROVE  /\ TypeOK' /\ attach'[a].pc = pc /\ attach'[a].slot = s
             /\ attach'[a].ws = attach[a].ws
             /\ \A b \in Attachers \ {a} : attach'[b] = attach[b]
  BY <1>0, <1>4, AttachMoved, Types, TypesNext DEF SlotType, ReleaseType
<1>5. CASE AskJammedSession(a)
  <2>1. Current(a) \in SlotOrNone
    BY <1>0 DEF Current, AttachType
  <2>2. QED
    BY <1>0, <1>4, <1>5, <2>1, AttacherMoves, Types
    DEF AskJammedSession, shellVars, Starting, AttachPC
<1>6. CASE WaitForSlot(a)
  <2> DEFINE s == Current(a)
  <2>1. attach[a].ws \in Workspaces /\ s = sessions[attach[a].ws] /\ s \in SlotOrNone
    BY <1>0 DEF Current, AttachType
  <2>2. s # NoSlot
    BY <1>6 DEF WaitForSlot, InState
  <2>3. s \in Slots /\ sessions[slot[s].ws] = s
    BY <2>1, <2>2 DEF MapInv, Mapped, SlotOrNone
  <2>4. /\ InState(s, "starting") => Starter(s)
        /\ InState(s, "releasing") => Closer(s)
    BY <2>1 DEF MapInv, Attended
  <2> HIDE DEF s
  <2>5. CASE InState(s, "starting") /\ AttachAt(a, "ready", s)
    BY <1>0, <1>4, <1>6, <2>1, <2>3, <2>4, <2>5, AttacherMoves, Types
    DEF WaitForSlot, shellVars, Starting, AttachPC
  <2>6. CASE InState(s, "releasing") /\ AttachAt(a, "released", s)
    BY <1>0, <1>4, <1>6, <2>1, <2>3, <2>4, <2>6, AttacherMoves, Types
    DEF WaitForSlot, shellVars, Starting, AttachPC
  <2>7. QED
    BY <1>6, <2>5, <2>6 DEF WaitForSlot, s
<1>7. CASE SlotReady(a)
  BY <1>0, <1>4, <1>7, AttacherMoves, Types DEF SlotReady, shellVars, Starting, AttachPC
<1>8. CASE StartShell(a)
  <2>1. attach[a].slot \in SlotOrNone /\ shell' \in [Slots -> ShellStates]
    BY <1>0, <1>8, Types DEF StartShell, AttachType, ShellStates
  <2>2. QED
    BY <1>0, <1>4, <1>8, <2>1, AttacherMoves DEF StartShell, Starting, AttachPC
<1>9. CASE CancelContext(a)
  <2>1. TypeOK'
    BY <1>0, <1>9, Types, TypesNext DEF CancelContext, shellVars, SlotType, AttachType, ReleaseType
  <2>2. QED
    BY <1>9, <2>1, NobodyMoves DEF CancelContext
<1>10. CASE \E w \in Workspaces : AcquireCalled(a, w)
  <2>1. /\ AttachType'
        /\ attach'[a].pc = "look" /\ \A b \in Attachers \ {a} : attach'[b] = attach[b]
    BY <1>0, <1>10 DEF AcquireCalled, AttachType, AttachPC
  <2>2. TypeOK'
    BY <1>0, <1>10, <2>1, Types, TypesNext DEF AcquireCalled, shellVars, SlotType, ReleaseType
  <2>3. QED
    BY <1>10, <2>1, <2>2, AttacherMoves DEF AcquireCalled, Starting
<1>11. QED
  BY <1>2, <1>3, <1>5, <1>6, <1>7, <1>8, <1>9, <1>10

LEMMA ReleaseMoves ==
  ASSUME MapInv, NEW r \in Releasers,
         \/ NothingToRelease(r) \/ ReleaseWaits(r) \/ ReleaseWoken(r) \/ FinishSession(r)
         \/ KillShell(r) \/ ReleaseReturns(r) \/ \E w \in Workspaces : ReleaseCalled(r, w)
  PROVE  MapInv'
<1>0. TypeOK /\ ReleaseType /\ sessions \in [Workspaces -> SlotOrNone] /\ NoSlot \in SlotOrNone
  BY Types DEF MapInv, SlotOrNone
<1>1. ASSUME NEW pc \in ReleasePC, NEW s \in SlotOrNone, ReleaseAt(r, pc, s),
             UNCHANGED <<sessions, slot, jammed, attach, ctx, dir>>,
             shell' \in [Slots -> ShellStates], closed' \subseteq Slots
      PROVE  /\ TypeOK' /\ rel'[r].pc = pc /\ rel'[r].slot = s /\ rel'[r].ws = rel[r].ws
             /\ \A q \in Releasers \ {r} : rel'[q] = rel[q]
  BY <1>0, <1>1, ReleaseMoved, Types, TypesNext DEF SlotType, AttachType
<1>2. CASE NothingToRelease(r)
  BY <1>0, <1>1, <1>2, ReleaserMoves, Types DEF NothingToRelease, shellVars, Closing, ReleasePC
<1>3. CASE ReleaseWaits(r)
  <2> DEFINE s == Found(r)
  <2>1. rel[r].ws \in Workspaces /\ s = sessions[rel[r].ws] /\ s \in SlotOrNone
    BY <1>0 DEF Found, ReleaseType
  <2>2. s # NoSlot
    BY <1>3 DEF ReleaseWaits, InState
  <2>3. s \in Slots /\ sessions[slot[s].ws] = s
    BY <2>1, <2>2 DEF MapInv, Mapped, SlotOrNone
  <2>4. /\ InState(s, "starting") => Starter(s)
        /\ InState(s, "releasing") => Closer(s)
    BY <2>1 DEF MapInv, Attended
  <2> HIDE DEF s
  <2>5. CASE InState(s, "starting") /\ ReleaseAt(r, "ready", s)
    BY <1>0, <1>1, <1>3, <2>1, <2>3, <2>4, <2>5, ReleaserMoves, Types
    DEF ReleaseWaits, shellVars, Closing, ReleasePC
  <2>6. CASE InState(s, "releasing") /\ ReleaseAt(r, "released", s)
    BY <1>0, <1>1, <1>3, <2>1, <2>3, <2>4, <2>6, ReleaserMoves, Types
    DEF ReleaseWaits, shellVars, Closing, ReleasePC
  <2>7. QED
    BY <1>3, <2>5, <2>6 DEF ReleaseWaits, s
<1>4. CASE ReleaseWoken(r)
  BY <1>0, <1>1, <1>4, ReleaserMoves, Types DEF ReleaseWoken, shellVars, Closing, ReleasePC
<1>5. CASE FinishSession(r)
  <2>1. rel[r].slot \in Slots
    BY <1>5 DEF FinishSession, MapInv, Holding
  <2>2. closed' \subseteq Slots /\ rel[r].slot \in SlotOrNone
    BY <1>0, <1>5, <2>1, Types DEF FinishSession, SlotOrNone
  <2>3. QED
    BY <1>0, <1>1, <1>5, <2>2, ReleaserMoves, Types DEF FinishSession, Closing, ReleasePC
<1>6. CASE KillShell(r)
  <2>1. rel[r].slot \in SlotOrNone /\ shell' \in [Slots -> ShellStates]
    BY <1>0, <1>6, Types DEF KillShell, ReleaseType, ShellStates
  <2>2. QED
    BY <1>0, <1>1, <1>6, <2>1, ReleaserMoves, Types DEF KillShell, Closing, ReleasePC
<1>7. ASSUME NEW q \in [pc : ReleasePC, ws : Workspaces, slot : SlotOrNone, old : SUBSET Slots],
             q.pc \in {"idle", "look"}, rel' = [rel EXCEPT ![r] = q], ~Closing(r),
             UNCHANGED <<sessions, slot, shellVars, attach, ctx, dir>>
      PROVE  MapInv'
  <2>1. ReleaseType' /\ rel'[r] = q /\ \A p \in Releasers \ {r} : rel'[p] = rel[p]
    BY <1>0, <1>7 DEF ReleaseType
  <2>2. TypeOK'
    BY <1>0, <1>7, <2>1, Types, TypesNext DEF shellVars, SlotType, AttachType
  <2>3. QED
    BY <1>7, <2>1, <2>2, ReleaserMoves DEF Closing
<1>8. CASE ReleaseReturns(r)
  <2>1. NoRelease(rel[r].ws) \in [pc : ReleasePC, ws : Workspaces, slot : SlotOrNone,
                                  old : SUBSET Slots]
    BY <1>0 DEF NoRelease, ReleaseType, ReleasePC
  <2>2. NoRelease(rel[r].ws).pc = "idle" /\ ~Closing(r)
    BY <1>8 DEF NoRelease, ReleaseReturns, Closing
  <2>3. QED
    BY <1>7, <1>8, <2>1, <2>2 DEF ReleaseReturns
<1>9. CASE \E w \in Workspaces : ReleaseCalled(r, w)
  <2>1. PICK w \in Workspaces : ReleaseCalled(r, w)
    BY <1>9
  <2>2. [pc |-> "look", ws |-> w, slot |-> NoSlot, old |-> LiveShells(w)]
           \in [pc : ReleasePC, ws : Workspaces, slot : SlotOrNone, old : SUBSET Slots]
    BY <1>0 DEF LiveShells, ReleasePC
  <2>3. QED
    BY <1>7, <2>1, <2>2 DEF ReleaseCalled, Closing
<1>10. QED
  BY <1>2, <1>3, <1>4, <1>5, <1>6, <1>8, <1>9
-----------------------------------------------------------------------------
(* Steps that change the map or a slot *)

LEMMA InstallKeeps ==
  ASSUME MapInv, NEW a \in Attachers, InstallSlot(a)
  PROVE  MapInv'
<1>1. PICK s \in Slots :
         /\ Free(s)
         /\ sessions' = [sessions EXCEPT ![attach[a].ws] = s]
         /\ slot' = [slot EXCEPT ![s] = [ws |-> attach[a].ws, state |-> "starting",
                                         ready |-> FALSE, released |-> FALSE]]
         /\ shell' = [shell EXCEPT ![s] = "none"]
         /\ closed' = closed \ {s}
         /\ AttachAt(a, "start", s)
  BY DEF InstallSlot
<1>2. /\ attach[a].pc = "look" /\ Replaceable(Current(a)) /\ UNCHANGED <<jammed, ctx, rel, dir>>
  BY DEF InstallSlot
<1> DEFINE w == attach[a].ws
<1>3. /\ TypeOK /\ AttachType /\ ReleaseType /\ SlotType /\ s \in SlotOrNone
      /\ sessions \in [Workspaces -> SlotOrNone] /\ w \in Workspaces
  BY Types DEF MapInv, AttachType, SlotOrNone
<1>4. /\ AttachType' /\ attach'[a].pc = "start" /\ attach'[a].slot = s /\ attach'[a].ws = w
      /\ \A b \in Attachers \ {a} : attach'[b] = attach[b]
  BY <1>1, <1>3, AttachMoved DEF AttachPC
<1>5. /\ sessions' \in [Workspaces -> SlotOrNone] /\ sessions'[w] = s
      /\ \A v \in Workspaces \ {w} : sessions'[v] = sessions[v]
  BY <1>1, <1>3
<1>6. /\ slot'[s].ws = w /\ slot'[s].state = "starting"
      /\ ~slot'[s].ready /\ ~slot'[s].released /\ SlotType'
      /\ \A t \in Slots \ {s} : slot'[t] = slot[t]
  BY <1>1, <1>3 DEF SlotType, SlotStates
<1>7. /\ \A v \in Workspaces : sessions[v] # s
      /\ \A b \in Attachers : attach[b].slot # s
      /\ \A r \in Releasers : rel[r].slot # s
  BY <1>1 DEF Free
<1>8. sessions[w] = NoSlot \/ slot[sessions[w]].state = "active"
  BY <1>2 DEF Replaceable, InState, Current
<1>9. TypeOK'
  <2>1. /\ shell' \in [Slots -> ShellStates] /\ closed' \subseteq Slots
        /\ ReleaseType' /\ jammed' \subseteq Slots /\ ctx' \subseteq Attachers
        /\ dir' \subseteq Workspaces
    BY <1>1, <1>2, <1>3, Types DEF ReleaseType, ShellStates
  <2>2. QED
    BY <1>4, <1>5, <1>6, <2>1, TypesNext
<1> HIDE DEF w
<1>10. Holding'
  BY <1>2, <1>4 DEF MapInv, Holding
<1>11. Mapped'
  <2> SUFFICES ASSUME NEW v \in Workspaces, sessions'[v] # NoSlot
               PROVE  /\ slot'[sessions'[v]].ws = v /\ slot'[sessions'[v]].state # "unused"
                      /\ ~slot'[sessions'[v]].released
    BY DEF Mapped
  <2>1. CASE v = w
    BY <2>1, <1>5, <1>6
  <2>2. CASE v # w
    <3>1. sessions'[v] = sessions[v] /\ sessions[v] \in Slots \ {s}
      BY <1>3, <1>5, <1>7, <2>2 DEF SlotOrNone
    <3>2. QED
      BY <1>6, <3>1 DEF MapInv, Mapped
  <2>3. QED
    BY <2>1, <2>2
<1>12. \A b \in Attachers \ {a} : Starting(b) =>
          attach[b].slot \in Slots \ {s} /\ attach[b].ws \in Workspaces \ {w}
  <2> SUFFICES ASSUME NEW b \in Attachers \ {a}, Starting(b)
               PROVE  attach[b].slot \in Slots \ {s} /\ attach[b].ws \in Workspaces \ {w}
    OBVIOUS
  <2>1. attach[b].slot \in Slots \ {s} /\ attach[b].ws \in Workspaces
    BY <1>3, <1>7 DEF MapInv, Holding, Starting, AttachType
  <2>2. slot[attach[b].slot].state = "starting" /\ sessions[attach[b].ws] = attach[b].slot
    BY DEF MapInv, Owned
  <2>3. QED
    BY <2>1, <2>2, <1>8, NoSlotApart
<1>13. \A r \in Releasers : Closing(r) =>
          rel[r].slot \in Slots \ {s} /\ rel[r].ws \in Workspaces \ {w}
  <2> SUFFICES ASSUME NEW r \in Releasers, Closing(r)
               PROVE  rel[r].slot \in Slots \ {s} /\ rel[r].ws \in Workspaces \ {w}
    OBVIOUS
  <2>1. rel[r].slot \in Slots \ {s} /\ rel[r].ws \in Workspaces
    BY <1>3, <1>7 DEF MapInv, Holding, Closing, ReleaseType
  <2>2. slot[rel[r].slot].state = "releasing" /\ sessions[rel[r].ws] = rel[r].slot
    BY DEF MapInv, Owned
  <2>3. QED
    BY <2>1, <2>2, <1>8, NoSlotApart
<1>14. Owned'
  <2>1. \A b \in Attachers : Starting(b)' =>
          /\ slot'[attach'[b].slot].state = "starting" /\ slot'[attach'[b].slot].ws = attach'[b].ws
          /\ sessions'[attach'[b].ws] = attach'[b].slot
    <3> SUFFICES ASSUME NEW b \in Attachers, Starting(b)'
                 PROVE  /\ slot'[attach'[b].slot].state = "starting"
                        /\ slot'[attach'[b].slot].ws = attach'[b].ws
                        /\ sessions'[attach'[b].ws] = attach'[b].slot
      OBVIOUS
    <3>1. CASE b = a
      BY <3>1, <1>4, <1>5, <1>6
    <3>2. CASE b # a
      <4>1. attach'[b] = attach[b] /\ Starting(b)
        BY <3>2, <1>4 DEF Starting
      <4>2. QED
        BY <3>2, <4>1, <1>5, <1>6, <1>12 DEF MapInv, Owned
    <3>3. QED
      BY <3>1, <3>2
  <2>2. \A b, c \in Attachers :
           Starting(b)' /\ Starting(c)' /\ attach'[b].slot = attach'[c].slot => b = c
    BY <1>4, <1>7 DEF MapInv, Owned, Starting
  <2>3. \A r \in Releasers : Closing(r)' =>
          /\ slot'[rel'[r].slot].state = "releasing" /\ slot'[rel'[r].slot].ws = rel'[r].ws
          /\ sessions'[rel'[r].ws] = rel'[r].slot
    <3> SUFFICES ASSUME NEW r \in Releasers, Closing(r)
                 PROVE  /\ slot'[rel[r].slot].state = "releasing"
                        /\ slot'[rel[r].slot].ws = rel[r].ws
                        /\ sessions'[rel[r].ws] = rel[r].slot
      BY <1>2 DEF Closing
    <3>1. QED
      BY <1>5, <1>6, <1>13 DEF MapInv, Owned
  <2>4. \A q, r \in Releasers :
           Closing(q)' /\ Closing(r)' /\ rel'[q].slot = rel'[r].slot => q = r
    BY <1>2 DEF MapInv, Owned, Closing
  <2>5. QED
    BY <2>1, <2>2, <2>3, <2>4 DEF Owned
<1>15. \A t : /\ Starter(t) => Starter(t)'
              /\ Closer(t) => Closer(t)'
  BY <1>2, <1>4 DEF Starter, Closer
<1>16. Starter(s)'
  BY <1>4 DEF Starter
<1>17. Attended'
  <2> SUFFICES ASSUME NEW v \in Workspaces
               PROVE  /\ InState(sessions[v], "starting")' => Starter(sessions[v])'
                      /\ InState(sessions[v], "releasing")' => Closer(sessions[v])'
    BY DEF Attended
  <2>1. CASE v = w
    BY <2>1, <1>5, <1>6, <1>16 DEF InState
  <2>2. CASE v # w
    <3>1. sessions'[v] = sessions[v] /\ (sessions[v] = NoSlot \/ sessions[v] \in Slots \ {s})
      BY <1>3, <1>5, <1>7, <2>2 DEF SlotOrNone
    <3>2. QED
      BY <1>6, <1>15, <3>1 DEF MapInv, Attended, InState
  <2>3. QED
    BY <2>1, <2>2
<1>18. NoLostWakeup'
  <2> SUFFICES ASSUME NEW t \in Slots
               PROVE  /\ WaitingFor(t, "ready")' =>
                            slot'[t].ready \/ (Starter(t)' /\ sessions'[slot'[t].ws] = t)
                      /\ WaitingFor(t, "released")' =>
                            slot'[t].released \/ (Closer(t)' /\ sessions'[slot'[t].ws] = t)
    BY DEF NoLostWakeup
  <2>1. CASE t = s
    BY <2>1, <1>2, <1>4, <1>7 DEF WaitingFor
  <2>2. CASE t # s
    <3>1. /\ slot'[t] = slot[t]
          /\ WaitingFor(t, "ready")' => WaitingFor(t, "ready")
          /\ WaitingFor(t, "released")' => WaitingFor(t, "released")
      BY <2>2, <1>2, <1>4, <1>6 DEF WaitingFor
    <3>2. ASSUME sessions[slot[t].ws] = t, Starter(t) \/ Closer(t)
          PROVE  sessions'[slot[t].ws] = t
      <4>1. slot[t].ws \in Workspaces
        BY <1>3 DEF SlotType
      <4>2. slot[t].ws # w
        BY <1>2, <1>12, <1>13, <3>2 DEF Starter, Closer, Starting, Closing, MapInv, Owned
      <4>3. QED
        BY <4>1, <4>2, <1>5, <3>2
    <3>3. QED
      BY <3>1, <3>2, <1>15 DEF MapInv, NoLostWakeup
  <2>3. QED
    BY <2>1, <2>2
<1>19. QED
  BY <1>9, <1>10, <1>11, <1>14, <1>17, <1>18 DEF MapInv

LEMMA PublishKeeps ==
  ASSUME MapInv, NEW a \in Attachers, Publish(a)
  PROVE  MapInv'
<1> DEFINE s == attach[a].slot
           w == attach[a].ws
<1>1. /\ TypeOK /\ AttachType /\ ReleaseType /\ SlotType /\ NoSlot \in SlotOrNone
      /\ sessions \in [Workspaces -> SlotOrNone] /\ w \in Workspaces /\ ctx \subseteq Attachers
  BY Types DEF MapInv, AttachType, SlotOrNone
<1>2. /\ Starting(a) /\ s \in Slots /\ slot[s].state = "starting" /\ slot[s].ws = w
      /\ sessions[w] = s
  BY DEF Publish, MapInv, Holding, Owned, Starting
<1>3. /\ AcquireReturns(a) /\ UNCHANGED <<shellVars, rel, dir>>
      /\ sessions' = [sessions EXCEPT ![w] = IF shell[s] = "none" THEN NoSlot ELSE s]
      /\ slot' = [slot EXCEPT ![s].state = IF shell[s] = "none" THEN @ ELSE "active",
                              ![s].ready = TRUE]
  BY <1>2 DEF Publish, Current
<1>4. /\ AttachType' /\ ctx' \subseteq Attachers /\ attach'[a].pc = "idle"
      /\ \A b \in Attachers \ {a} : attach'[b] = attach[b]
  BY <1>1, <1>3, AttachEnded
<1>5. /\ sessions' \in [Workspaces -> SlotOrNone] /\ sessions'[w] \in {s, NoSlot}
      /\ \A v \in Workspaces \ {w} : sessions'[v] = sessions[v]
  BY <1>1, <1>2, <1>3
<1>6. /\ slot'[s].ws = w /\ slot'[s].ready /\ slot'[s].released = slot[s].released
      /\ slot'[s].state \in {"starting", "active"}
      /\ sessions'[w] = s => slot'[s].state = "active"
      /\ SlotType' /\ \A t \in Slots \ {s} : slot'[t] = slot[t]
  <2>1. CASE shell[s] = "none"
    <3>1. slot' = [slot EXCEPT ![s].ready = TRUE] /\ sessions'[w] = NoSlot
      BY <1>1, <1>2, <1>3, <2>1 DEF SlotType
    <3>2. SlotType' /\ s # NoSlot
      BY <1>1, <1>2, <3>1, NoSlotApart DEF SlotType
    <3>3. QED
      BY <1>1, <1>2, <3>1, <3>2 DEF SlotType
  <2>2. CASE shell[s] # "none"
    <3>1. slot' = [slot EXCEPT ![s].state = "active", ![s].ready = TRUE]
      BY <1>3, <2>2
    <3>2. SlotType'
      BY <1>1, <1>2, <3>1 DEF SlotType, SlotStates
    <3>3. QED
      BY <1>1, <1>2, <3>1, <3>2 DEF SlotType
  <2>3. QED
    BY <2>1, <2>2
<1>7. TypeOK'
  BY <1>1, <1>3, <1>4, <1>5, <1>6, Types, TypesNext DEF shellVars, ReleaseType
<1> HIDE DEF s, w
<1>8. Holding'
  BY <1>3, <1>4 DEF MapInv, Holding
<1>9. \A v \in Workspaces \ {w} : sessions'[v] = NoSlot \/ sessions'[v] \in Slots \ {s}
  BY <1>1, <1>2, <1>5, NoSlotApart DEF MapInv, Mapped, SlotOrNone
<1>10. Mapped'
  <2> SUFFICES ASSUME NEW v \in Workspaces, sessions'[v] # NoSlot
               PROVE  /\ slot'[sessions'[v]].ws = v /\ slot'[sessions'[v]].state # "unused"
                      /\ ~slot'[sessions'[v]].released
    BY DEF Mapped
  <2>1. CASE v = w
    BY <2>1, <1>2, <1>5, <1>6, NoSlotApart DEF MapInv, Mapped
  <2>2. CASE v # w
    BY <2>2, <1>5, <1>6, <1>9 DEF MapInv, Mapped
  <2>3. QED
    BY <2>1, <2>2
<1>11. \A b \in Attachers \ {a} : Starting(b) =>
          attach[b].slot \in Slots \ {s} /\ attach[b].ws \in Workspaces \ {w}
  <2> SUFFICES ASSUME NEW b \in Attachers \ {a}, Starting(b)
               PROVE  attach[b].slot \in Slots \ {s} /\ attach[b].ws \in Workspaces \ {w}
    OBVIOUS
  <2>1. attach[b].slot \in Slots \ {s} /\ attach[b].ws \in Workspaces
    BY <1>1, <1>2 DEF MapInv, Holding, Owned, Starting, AttachType, s
  <2>2. slot[attach[b].slot].ws = attach[b].ws /\ sessions[attach[b].ws] = attach[b].slot
    BY DEF MapInv, Owned
  <2>3. QED
    BY <2>1, <2>2, <1>2
<1>12. \A r \in Releasers : Closing(r) =>
          rel[r].slot \in Slots \ {s} /\ rel[r].ws \in Workspaces \ {w}
  <2> SUFFICES ASSUME NEW r \in Releasers, Closing(r)
               PROVE  rel[r].slot \in Slots \ {s} /\ rel[r].ws \in Workspaces \ {w}
    OBVIOUS
  <2>1. rel[r].slot \in Slots /\ rel[r].ws \in Workspaces
    BY <1>1 DEF MapInv, Holding, Closing, ReleaseType
  <2>2. slot[rel[r].slot].state = "releasing" /\ sessions[rel[r].ws] = rel[r].slot
    BY DEF MapInv, Owned
  <2>3. QED
    BY <2>1, <2>2, <1>2
<1>13. Owned'
  <2>1. \A b \in Attachers : Starting(b)' => b # a /\ attach'[b] = attach[b] /\ Starting(b)
    BY <1>4 DEF Starting
  <2>2. \A r \in Releasers : rel'[r] = rel[r] /\ (Closing(r)' <=> Closing(r))
    BY <1>3 DEF Closing
  <2>3. \A b \in Attachers : Starting(b)' =>
          /\ slot'[attach'[b].slot].state = "starting" /\ slot'[attach'[b].slot].ws = attach'[b].ws
          /\ sessions'[attach'[b].ws] = attach'[b].slot
    BY <2>1, <1>5, <1>6, <1>11 DEF MapInv, Owned
  <2>4. \A r \in Releasers : Closing(r)' =>
          /\ slot'[rel'[r].slot].state = "releasing" /\ slot'[rel'[r].slot].ws = rel'[r].ws
          /\ sessions'[rel'[r].ws] = rel'[r].slot
    BY <2>2, <1>5, <1>6, <1>12 DEF MapInv, Owned
  <2>5. /\ \A b, c \in Attachers :
             Starting(b)' /\ Starting(c)' /\ attach'[b].slot = attach'[c].slot => b = c
        /\ \A q, r \in Releasers :
             Closing(q)' /\ Closing(r)' /\ rel'[q].slot = rel'[r].slot => q = r
    BY <2>1, <2>2 DEF MapInv, Owned
  <2>6. QED
    BY <2>3, <2>4, <2>5 DEF Owned
<1>14. \A t : /\ Starter(t) /\ t # s => Starter(t)'
              /\ Closer(t) => Closer(t)'
  BY <1>3, <1>4 DEF Starter, Closer, s
<1>15. Attended'
  <2> SUFFICES ASSUME NEW v \in Workspaces
               PROVE  /\ InState(sessions[v], "starting")' => Starter(sessions[v])'
                      /\ InState(sessions[v], "releasing")' => Closer(sessions[v])'
    BY DEF Attended
  <2>1. CASE v = w
    BY <2>1, <1>5, <1>6 DEF InState
  <2>2. CASE v # w
    BY <2>2, <1>5, <1>6, <1>9, <1>14 DEF MapInv, Attended, InState
  <2>3. QED
    BY <2>1, <2>2
<1>16. NoLostWakeup'
  <2> SUFFICES ASSUME NEW t \in Slots
               PROVE  /\ WaitingFor(t, "ready")' =>
                            slot'[t].ready \/ (Starter(t)' /\ sessions'[slot'[t].ws] = t)
                      /\ WaitingFor(t, "released")' =>
                            slot'[t].released \/ (Closer(t)' /\ sessions'[slot'[t].ws] = t)
    BY DEF NoLostWakeup
  <2>1. /\ WaitingFor(t, "ready")' => WaitingFor(t, "ready")
        /\ WaitingFor(t, "released")' => WaitingFor(t, "released")
    BY <1>3, <1>4 DEF WaitingFor
  <2>2. ~Closer(s)
    BY <1>12 DEF Closer, Closing
  <2>3. CASE t = s
    BY <2>1, <2>2, <2>3, <1>6 DEF MapInv, NoLostWakeup
  <2>4. CASE t # s
    <3>1. slot'[t] = slot[t] /\ slot[t].ws \in Workspaces
      BY <2>4, <1>1, <1>6 DEF SlotType
    <3>2. sessions[slot[t].ws] = t => sessions'[slot[t].ws] = t
      BY <2>4, <3>1, <1>2, <1>5
    <3>3. QED
      BY <2>1, <2>4, <3>1, <3>2, <1>14 DEF MapInv, NoLostWakeup
  <2>5. QED
    BY <2>3, <2>4
<1>17. QED
  BY <1>7, <1>8, <1>10, <1>13, <1>15, <1>16 DEF MapInv

LEMMA ClaimKeeps ==
  ASSUME MapInv, NEW r \in Releasers, ClaimSlot(r)
  PROVE  MapInv'
<1> DEFINE w == rel[r].ws
<1>1. /\ TypeOK /\ AttachType /\ ReleaseType /\ SlotType
      /\ sessions \in [Workspaces -> SlotOrNone] /\ w \in Workspaces
  BY Types DEF MapInv, ReleaseType
<1>1a. PICK s \in SlotOrNone : s = sessions[w]
  BY <1>1
<1>2. /\ rel[r].pc = "look" /\ s # NoSlot /\ slot[s].state = "active" /\ s \in Slots
      /\ slot' = [slot EXCEPT ![s].state = "releasing", ![s].released = FALSE]
      /\ ReleaseAt(r, "finish", s) /\ UNCHANGED <<sessions, shellVars, attach, ctx, dir>>
  BY <1>1a DEF ClaimSlot, InState, Found, SlotOrNone
<1>3. slot[s].ws = w /\ ~slot[s].released
  BY <1>1, <1>2, <1>1a DEF MapInv, Mapped
<1>4. /\ ReleaseType' /\ rel'[r].pc = "finish" /\ rel'[r].slot = s /\ rel'[r].ws = w
      /\ \A q \in Releasers \ {r} : rel'[q] = rel[q]
  BY <1>1, <1>2, ReleaseMoved DEF ReleasePC
<1>5. /\ slot'[s].ws = w /\ slot'[s].ready = slot[s].ready /\ ~slot'[s].released
      /\ slot'[s].state = "releasing"
      /\ SlotType' /\ \A t \in Slots \ {s} : slot'[t] = slot[t]
  BY <1>1, <1>2, <1>3 DEF SlotType, SlotStates
<1>6. TypeOK'
  BY <1>1, <1>2, <1>4, <1>5, Types, TypesNext DEF shellVars, AttachType
<1> HIDE DEF w
<1>8. Holding'
  <2>1. UNCHANGED attach /\ s \in Slots
    BY <1>2
  <2>2. QED
    BY <2>1, <1>4 DEF MapInv, Holding
<1>9. Mapped'
  <2> SUFFICES ASSUME NEW v \in Workspaces, sessions'[v] # NoSlot
               PROVE  /\ slot'[sessions'[v]].ws = v /\ slot'[sessions'[v]].state # "unused"
                      /\ ~slot'[sessions'[v]].released
    BY DEF Mapped
  <2>1. sessions'[v] = sessions[v] /\ sessions[v] \in Slots
    BY <1>1, <1>2 DEF SlotOrNone
  <2>2. slot[sessions[v]].ws = v /\ slot[sessions[v]].state # "unused"
        /\ ~slot[sessions[v]].released
    BY <2>1 DEF MapInv, Mapped
  <2>3. CASE sessions[v] = s
    BY <2>1, <2>2, <2>3, <1>3, <1>5
  <2>4. CASE sessions[v] # s
    BY <2>1, <2>2, <2>4, <1>5
  <2>5. QED
    BY <2>3, <2>4
<1>10. \A b \in Attachers : Starting(b) => attach[b].slot \in Slots \ {s}
  BY <1>2 DEF MapInv, Holding, Owned, Starting
<1>11. \A q \in Releasers : Closing(q) => q # r /\ rel[q].slot \in Slots \ {s}
  BY <1>2 DEF MapInv, Holding, Owned, Closing
<1>12. Owned'
  <2>1. \A b \in Attachers : Starting(b)' <=> Starting(b)
    BY <1>2 DEF Starting
  <2>2. \A q \in Releasers : Closing(q)' => q = r \/ (Closing(q) /\ rel'[q] = rel[q])
    BY <1>4 DEF Closing
  <2>3. \A b \in Attachers : Starting(b)' =>
          /\ slot'[attach'[b].slot].state = "starting" /\ slot'[attach'[b].slot].ws = attach'[b].ws
          /\ sessions'[attach'[b].ws] = attach'[b].slot
    <3>1. UNCHANGED <<sessions, attach>>
      BY <1>2
    <3>2. QED
      BY <2>1, <3>1, <1>5, <1>10 DEF MapInv, Owned
  <2>4. \A q \in Releasers : Closing(q)' =>
          /\ slot'[rel'[q].slot].state = "releasing" /\ slot'[rel'[q].slot].ws = rel'[q].ws
          /\ sessions'[rel'[q].ws] = rel'[q].slot
    <3>1. UNCHANGED sessions
      BY <1>2
    <3>2. ASSUME NEW q \in Releasers, Closing(q), rel'[q] = rel[q]
          PROVE  /\ slot'[rel'[q].slot].state = "releasing"
                 /\ slot'[rel'[q].slot].ws = rel'[q].ws
                 /\ sessions'[rel'[q].ws] = rel'[q].slot
      BY <3>1, <3>2, <1>5, <1>11 DEF MapInv, Owned
    <3>3. QED
      BY <2>2, <3>1, <3>2, <1>4, <1>5, <1>1a
  <2>5. \A b, c \in Attachers :
             Starting(b)' /\ Starting(c)' /\ attach'[b].slot = attach'[c].slot => b = c
    BY <2>1, <1>2 DEF MapInv, Owned
  <2>6. \A p, q \in Releasers :
             Closing(p)' /\ Closing(q)' /\ rel'[p].slot = rel'[q].slot => p = q
    BY <2>2, <1>4, <1>11 DEF MapInv, Owned
  <2>7. QED
    BY <2>3, <2>4, <2>5, <2>6 DEF Owned
<1>13. \A t : /\ Starter(t)' <=> Starter(t)
              /\ Closer(t) => Closer(t)'
  BY <1>2, <1>4 DEF Starter, Closer
<1>14. Closer(s)'
  BY <1>4 DEF Closer
<1>15. Attended'
  <2> SUFFICES ASSUME NEW v \in Workspaces
               PROVE  /\ InState(sessions[v], "starting")' => Starter(sessions[v])'
                      /\ InState(sessions[v], "releasing")' => Closer(sessions[v])'
    BY DEF Attended
  <2>1. sessions'[v] = sessions[v] /\ (sessions[v] = NoSlot \/ sessions[v] \in Slots)
    BY <1>1, <1>2 DEF SlotOrNone
  <2>2. CASE sessions[v] = s
    BY <2>1, <2>2, <1>5, <1>14 DEF InState
  <2>3. CASE sessions[v] # s
    BY <2>1, <2>3, <1>5, <1>13 DEF MapInv, Attended, InState
  <2>4. QED
    BY <2>2, <2>3
<1>16. NoLostWakeup'
  <2> SUFFICES ASSUME NEW t \in Slots
               PROVE  /\ WaitingFor(t, "ready")' =>
                            slot'[t].ready \/ (Starter(t)' /\ sessions'[slot'[t].ws] = t)
                      /\ WaitingFor(t, "released")' =>
                            slot'[t].released \/ (Closer(t)' /\ sessions'[slot'[t].ws] = t)
    BY DEF NoLostWakeup
  <2>1. /\ WaitingFor(t, "ready")' => WaitingFor(t, "ready")
        /\ WaitingFor(t, "released")' => WaitingFor(t, "released")
    BY <1>2, <1>4 DEF WaitingFor
  <2>2. slot'[t].ws = slot[t].ws /\ slot'[t].ready = slot[t].ready
    BY <1>3, <1>5
  <2>3. CASE t = s
    BY <2>1, <2>2, <2>3, <1>2, <1>3, <1>1a, <1>13, <1>14 DEF MapInv, NoLostWakeup
  <2>4. CASE t # s
    BY <2>1, <2>4, <1>2, <1>5, <1>13 DEF MapInv, NoLostWakeup
  <2>5. QED
    BY <2>3, <2>4
<1>17. QED
  BY <1>6, <1>8, <1>9, <1>12, <1>15, <1>16 DEF MapInv

LEMMA DropKeeps ==
  ASSUME MapInv, NEW r \in Releasers, DropSlot(r)
  PROVE  MapInv'
<1> DEFINE w == rel[r].ws
           s == rel[r].slot
<1>1. /\ TypeOK /\ AttachType /\ ReleaseType /\ SlotType /\ NoSlot \in SlotOrNone
      /\ sessions \in [Workspaces -> SlotOrNone] /\ w \in Workspaces
  BY Types DEF MapInv, ReleaseType, SlotOrNone
<1>2. /\ Closing(r) /\ s \in Slots /\ slot[s].state = "releasing" /\ slot[s].ws = w
      /\ sessions[w] = s
  BY DEF DropSlot, MapInv, Holding, Owned, Closing
<1>3. /\ sessions' = [sessions EXCEPT ![w] = NoSlot]
      /\ slot' = [slot EXCEPT ![s].released = TRUE]
      /\ ReleaseAt(r, "returned", NoSlot) /\ UNCHANGED <<shellVars, attach, ctx, dir>>
  BY <1>2 DEF DropSlot, Found
<1>4. /\ ReleaseType' /\ rel'[r].pc = "returned"
      /\ \A q \in Releasers \ {r} : rel'[q] = rel[q]
  BY <1>1, <1>3, ReleaseMoved DEF ReleasePC
<1>5. /\ sessions' \in [Workspaces -> SlotOrNone] /\ sessions'[w] = NoSlot
      /\ \A v \in Workspaces \ {w} : sessions'[v] = sessions[v]
  BY <1>1, <1>3
<1>6. /\ slot'[s].ws = w /\ slot'[s].ready = slot[s].ready /\ slot'[s].released
      /\ SlotType' /\ \A t \in Slots \ {s} : slot'[t] = slot[t]
  BY <1>1, <1>2, <1>3 DEF SlotType
<1>7. TypeOK'
  BY <1>1, <1>3, <1>4, <1>5, <1>6, Types, TypesNext DEF shellVars, AttachType
<1> HIDE DEF s, w
<1>8. Holding'
  BY <1>3, <1>4 DEF MapInv, Holding
<1>9. \A v \in Workspaces \ {w} : sessions'[v] = NoSlot \/ sessions'[v] \in Slots \ {s}
  BY <1>1, <1>2, <1>5, NoSlotApart DEF MapInv, Mapped, SlotOrNone
<1>10. Mapped'
  BY <1>5, <1>6, <1>9 DEF MapInv, Mapped
<1>11. \A b \in Attachers : Starting(b) =>
          attach[b].slot \in Slots \ {s} /\ attach[b].ws \in Workspaces \ {w}
  <2> SUFFICES ASSUME NEW b \in Attachers, Starting(b)
               PROVE  attach[b].slot \in Slots \ {s} /\ attach[b].ws \in Workspaces \ {w}
    OBVIOUS
  <2>1. attach[b].slot \in Slots /\ attach[b].ws \in Workspaces
    BY <1>1 DEF MapInv, Holding, Starting, AttachType
  <2>2. slot[attach[b].slot].state = "starting" /\ sessions[attach[b].ws] = attach[b].slot
    BY DEF MapInv, Owned
  <2>3. QED
    BY <2>1, <2>2, <1>2
<1>12. \A q \in Releasers \ {r} : Closing(q) =>
          rel[q].slot \in Slots \ {s} /\ rel[q].ws \in Workspaces \ {w}
  <2> SUFFICES ASSUME NEW q \in Releasers \ {r}, Closing(q)
               PROVE  rel[q].slot \in Slots \ {s} /\ rel[q].ws \in Workspaces \ {w}
    OBVIOUS
  <2>1. rel[q].slot \in Slots \ {s} /\ rel[q].ws \in Workspaces
    BY <1>1, <1>2 DEF MapInv, Holding, Owned, Closing, ReleaseType, s
  <2>2. sessions[rel[q].ws] = rel[q].slot
    BY DEF MapInv, Owned
  <2>3. QED
    BY <2>1, <2>2, <1>2
<1>13. Owned'
  <2>1. \A b \in Attachers : Starting(b)' <=> Starting(b)
    BY <1>3 DEF Starting
  <2>2. \A q \in Releasers : Closing(q)' => q # r /\ Closing(q) /\ rel'[q] = rel[q]
    BY <1>4 DEF Closing
  <2>3. \A b \in Attachers : Starting(b)' =>
          /\ slot'[attach'[b].slot].state = "starting" /\ slot'[attach'[b].slot].ws = attach'[b].ws
          /\ sessions'[attach'[b].ws] = attach'[b].slot
    BY <2>1, <1>3, <1>5, <1>6, <1>11 DEF MapInv, Owned
  <2>4. \A q \in Releasers : Closing(q)' =>
          /\ slot'[rel'[q].slot].state = "releasing" /\ slot'[rel'[q].slot].ws = rel'[q].ws
          /\ sessions'[rel'[q].ws] = rel'[q].slot
    BY <2>2, <1>5, <1>6, <1>12 DEF MapInv, Owned
  <2>5. /\ \A b, c \in Attachers :
             Starting(b)' /\ Starting(c)' /\ attach'[b].slot = attach'[c].slot => b = c
        /\ \A p, q \in Releasers :
             Closing(p)' /\ Closing(q)' /\ rel'[p].slot = rel'[q].slot => p = q
    BY <2>1, <2>2, <1>3 DEF MapInv, Owned
  <2>6. QED
    BY <2>3, <2>4, <2>5 DEF Owned
<1>14. \A t : /\ Starter(t)' <=> Starter(t)
              /\ Closer(t) /\ t # s => Closer(t)'
  BY <1>3, <1>4 DEF Starter, Closer, s
<1>15. Attended'
  <2> SUFFICES ASSUME NEW v \in Workspaces
               PROVE  /\ InState(sessions[v], "starting")' => Starter(sessions[v])'
                      /\ InState(sessions[v], "releasing")' => Closer(sessions[v])'
    BY DEF Attended
  <2>1. CASE v = w
    BY <2>1, <1>5 DEF InState
  <2>2. CASE v # w
    BY <2>2, <1>5, <1>6, <1>9, <1>14 DEF MapInv, Attended, InState
  <2>3. QED
    BY <2>1, <2>2
<1>16. NoLostWakeup'
  <2> SUFFICES ASSUME NEW t \in Slots
               PROVE  /\ WaitingFor(t, "ready")' =>
                            slot'[t].ready \/ (Starter(t)' /\ sessions'[slot'[t].ws] = t)
                      /\ WaitingFor(t, "released")' =>
                            slot'[t].released \/ (Closer(t)' /\ sessions'[slot'[t].ws] = t)
    BY DEF NoLostWakeup
  <2>1. /\ WaitingFor(t, "ready")' => WaitingFor(t, "ready")
        /\ WaitingFor(t, "released")' => WaitingFor(t, "released")
    BY <1>3, <1>4 DEF WaitingFor
  <2>2. ~Starter(s)
    BY <1>11 DEF Starter, Starting
  <2>3. CASE t = s
    BY <2>1, <2>2, <2>3, <1>6 DEF MapInv, NoLostWakeup
  <2>4. CASE t # s
    <3>1. slot'[t] = slot[t] /\ slot[t].ws \in Workspaces
      BY <2>4, <1>1, <1>6 DEF SlotType
    <3>2. sessions[slot[t].ws] = t => sessions'[slot[t].ws] = t
      BY <2>4, <3>1, <1>2, <1>5
    <3>3. QED
      BY <2>1, <2>4, <3>1, <3>2, <1>14 DEF MapInv, NoLostWakeup
  <2>5. QED
    BY <2>3, <2>4
<1>17. QED
  BY <1>7, <1>8, <1>10, <1>13, <1>15, <1>16 DEF MapInv

LEMMA SessionKeeps ==
  ASSUME MapInv,
         \/ \E s \in Slots : SessionStep(s)
         \/ \E w \in Workspaces : DirectoryGoes(w)
  PROVE  MapInv'
<1>1. TypeOK /\ UNCHANGED <<sessions, slot, attach, ctx, rel>>
  BY DEF MapInv, SessionStep, ShellExits, SessionEnds, ShellDetaches, SessionJams, DirectoryGoes
<1>2. /\ shell' \in [Slots -> ShellStates]
      /\ closed' \subseteq Slots /\ jammed' \subseteq Slots /\ dir' \subseteq Workspaces
  BY <1>1, Types DEF shellVars, SessionStep, ShellExits, SessionEnds, ShellDetaches, SessionJams, DirectoryGoes,
                      ShellStates
<1>3. TypeOK'
  BY <1>1, <1>2, Types, TypesNext DEF SlotType, AttachType, ReleaseType
<1>4. QED
  BY <1>1, <1>3, NobodyMoves

LEMMA MapInvStep == MapInv /\ [Next]_slotVars => MapInv'
<1> SUFFICES ASSUME MapInv, [Next]_slotVars PROVE MapInv'
  OBVIOUS
<1>1. CASE Next
  BY <1>1, AcquireMoves, ReleaseMoves, InstallKeeps, PublishKeeps, ClaimKeeps, DropKeeps,
     SessionKeeps
  DEF Next, AcquireStep, ReleaseStep
<1>2. CASE UNCHANGED slotVars
  <2>1. TypeOK'
    BY <1>2 DEF slotVars, shellVars, MapInv, TypeOK
  <2>2. QED
    BY <1>2, <2>1, NobodyMoves DEF slotVars
<1>3. QED
  BY <1>1, <1>2

LEMMA MapInvAlways == Spec => []MapInv
  BY MapInvInit, MapInvStep, PTL DEF Spec

(* The variables keep their types. *)
THEOREM TypeCorrect == Spec => []TypeOK
<1>1. MapInv => TypeOK
  BY DEF MapInv
<1>2. QED
  BY <1>1, MapInvAlways, PTL

(* A call of Acquire or Release that waits for a slot waits for a channel that is
   closed or that another call, which owns the slot, is going to close: in whatever
   order calls meet, fail and give up, whether or not sessions jam. *)
THEOREM WakeupsKept == Spec => []NoLostWakeup
<1>1. MapInv => NoLostWakeup
  BY DEF MapInv
<1>2. QED
  BY <1>1, MapInvAlways, PTL
-----------------------------------------------------------------------------
(* The shells *)

(* The map leads to the slot of a shell that runs. *)
Known(s) == Runs(s) /\ sessions[slot[s].ws] = s

AliveMapped == \A s \in Slots : shell[s] = "alive" => sessions[slot[s].ws] = s
ClosedDead == \A s \in closed : shell[s] = "alive" => slot[s].state = "releasing"
Unstarted ==
    \A a \in Attachers : attach[a].pc = "start" =>
        shell[attach[a].slot] = "none" /\ attach[a].slot \notin closed
Dropping == \A r \in Releasers : rel[r].pc = "drop" => ~Runs(rel[r].slot)

(* What Release remembers: these shells were started, and those the map leads to are
   of its workspace. *)
Remembers(r) ==
    \A s \in rel[r].old :
        /\ shell[s] # "none"
        /\ Known(s) =>
              /\ slot[s].ws = rel[r].ws /\ rel[r].pc # "returned"
              /\ rel[r].pc = "released" => s = rel[r].slot

ShellInv ==
    AliveMapped /\ ClosedDead /\ Unstarted /\ Dropping /\ \A r \in Releasers : Remembers(r)

LEMMA ShellInvInit == SlotsInit => ShellInv
  BY DEF SlotsInit, ShellInv, AliveMapped, ClosedDead, Unstarted, Dropping, Remembers, NoAttach,
         NoRelease

LEMMA OneShellFollows ==
  ASSUME TypeOK, ShellInv PROVE OneShell
  BY Types DEF ShellInv, AliveMapped, OneShell, SlotType

LEMMA KillsFollows ==
  ASSUME ReleaseType, ShellInv PROVE ReleaseKills
<1> SUFFICES ASSUME NEW r \in Releasers, rel[r].pc = "returned",
                    NEW s \in rel[r].old, Runs(s)
             PROVE  Lost(s)
  BY DEF ReleaseKills, OldEnded
<1>1. ~Known(s)
  BY DEF ShellInv, Remembers
<1>2. s \in Slots
  BY DEF ReleaseType
<1>3. shell[s] # "alive"
  BY <1>1, <1>2 DEF ShellInv, AliveMapped, Known
<1>4. QED
  BY <1>1, <1>3 DEF Known, Runs, Lost

(* Only attachers move, and none begins to start a shell. *)
LEMMA ShellsSame ==
  ASSUME ShellInv, UNCHANGED <<sessions, slot, shell, closed, rel>>,
         \A b \in Attachers : attach'[b].pc = "start" => attach'[b] = attach[b]
  PROVE  ShellInv'
<1>1. AliveMapped' /\ ClosedDead' /\ Unstarted' /\ Dropping'
  BY DEF ShellInv, AliveMapped, ClosedDead, Unstarted, Dropping, Runs
<1>2. \A r \in Releasers : Remembers(r)'
  BY DEF ShellInv, Remembers, Known, Runs
<1>3. QED
  BY <1>1, <1>2 DEF ShellInv

(* Only one releaser moves. *)
LEMMA ReleaserRemembers ==
  ASSUME ShellInv, NEW r \in Releasers, UNCHANGED <<sessions, slot, shell, closed, attach>>,
         \A q \in Releasers \ {r} : rel'[q] = rel[q],
         rel'[r].pc # "drop", Remembers(r)'
  PROVE  ShellInv'
<1>1. AliveMapped' /\ ClosedDead' /\ Unstarted' /\ Dropping'
  BY DEF ShellInv, AliveMapped, ClosedDead, Unstarted, Dropping, Runs
<1>2. \A q \in Releasers \ {r} : Remembers(q)'
  BY DEF ShellInv, Remembers, Known, Runs
<1>3. QED
  BY <1>1, <1>2 DEF ShellInv

LEMMA AcquireKeepsShells ==
  ASSUME MapInv, ShellInv, NEW a \in Attachers,
         \/ GiveUp(a) \/ ReuseSession(a) \/ AskJammedSession(a) \/ WaitForSlot(a)
         \/ SlotReady(a) \/ CancelContext(a) \/ \E w \in Workspaces : AcquireCalled(a, w)
  PROVE  ShellInv'
<1>1. AttachType
  BY Types DEF MapInv
<1>2. UNCHANGED <<sessions, slot, shell, closed, rel>>
  BY DEF GiveUp, ReuseSession, AskJammedSession, WaitForSlot, SlotReady, CancelContext,
         AcquireCalled, shellVars
<1>3. \A b \in Attachers : attach'[b].pc = "start" => attach'[b] = attach[b]
  BY <1>1 DEF GiveUp, ReuseSession, AskJammedSession, WaitForSlot, SlotReady, CancelContext,
              AcquireCalled, AcquireReturns, AttachAt, NoAttach, AttachType
<1>4. QED
  BY <1>2, <1>3, ShellsSame

LEMMA ReleaseKeepsShells ==
  ASSUME MapInv, ShellInv, NEW r \in Releasers,
         \/ NothingToRelease(r) \/ ReleaseWaits(r) \/ ReleaseWoken(r)
         \/ ReleaseReturns(r) \/ \E w \in Workspaces : ReleaseCalled(r, w)
  PROVE  ShellInv'
<1>1. ReleaseType /\ SlotType /\ sessions \in [Workspaces -> SlotOrNone] /\ NoSlot \in SlotOrNone
  BY Types DEF MapInv, SlotOrNone
<1>2. Remembers(r) /\ AliveMapped /\ rel[r].old \subseteq Slots /\ rel[r].ws \in Workspaces
  BY <1>1 DEF ShellInv, ReleaseType
<1>3. UNCHANGED <<sessions, slot, shell, closed, attach>>
  BY DEF NothingToRelease, ReleaseWaits, ReleaseWoken, ReleaseReturns, ReleaseCalled, shellVars
<1>4. \A s \in rel[r].old : Known(s) => s = Found(r)
  BY <1>2 DEF Remembers, Known, Found
<1>5. CASE NothingToRelease(r)
  <2>1. /\ rel'[r].pc = "returned" /\ rel'[r].old = rel[r].old
        /\ \A q \in Releasers \ {r} : rel'[q] = rel[q]
    BY <1>1, <1>5, ReleaseMoved DEF NothingToRelease, ReleasePC
  <2>2. \A s \in rel[r].old : ~Known(s)
    BY <1>2, <1>4, <1>5, NoSlotApart DEF NothingToRelease
  <2>3. Remembers(r)'
    BY <1>2, <1>3, <2>1, <2>2 DEF Remembers, Known, Runs
  <2>4. QED
    BY <1>3, <2>1, <2>3, ReleaserRemembers
<1>6. CASE ReleaseWaits(r)
  <2>1. Found(r) \in SlotOrNone
    BY <1>1, <1>2 DEF Found
  <2>2. /\ rel'[r].pc \in {"ready", "released"} /\ rel'[r].slot = Found(r)
        /\ rel'[r].old = rel[r].old /\ rel'[r].ws = rel[r].ws
        /\ \A q \in Releasers \ {r} : rel'[q] = rel[q]
    BY <1>1, <1>6, <2>1, ReleaseMoved DEF ReleaseWaits, ReleasePC
  <2>3. Remembers(r)'
    BY <1>2, <1>3, <1>4, <2>2 DEF Remembers, Known, Runs
  <2>4. QED
    BY <1>3, <2>2, <2>3, ReleaserRemembers
<1>7. CASE ReleaseWoken(r)
  <2>1. CASE ReleaseAt(r, "look", NoSlot)
    <3>1. /\ rel'[r].pc = "look" /\ rel'[r].old = rel[r].old /\ rel'[r].ws = rel[r].ws
          /\ \A q \in Releasers \ {r} : rel'[q] = rel[q]
      BY <1>1, <2>1, ReleaseMoved DEF ReleasePC
    <3>2. Remembers(r)'
      BY <1>2, <1>3, <3>1 DEF Remembers, Known, Runs
    <3>3. QED
      BY <1>3, <3>1, <3>2, ReleaserRemembers
  <2>2. CASE /\ rel[r].pc = "released" /\ slot[rel[r].slot].released
             /\ ReleaseAt(r, "returned", NoSlot)
    <3>1. /\ rel'[r].pc = "returned" /\ rel'[r].old = rel[r].old
          /\ \A q \in Releasers \ {r} : rel'[q] = rel[q]
      BY <1>1, <2>2, ReleaseMoved DEF ReleasePC
    <3>2. \A s \in rel[r].old : ~Known(s)
      <4> SUFFICES ASSUME NEW s \in rel[r].old, Known(s) PROVE FALSE
        OBVIOUS
      <4>1. s = rel[r].slot /\ sessions[slot[s].ws] = s /\ slot[s].ws \in Workspaces /\ s # NoSlot
        BY <1>1, <1>2, <2>2, NoSlotApart DEF Remembers, Known, SlotType
      <4>2. QED
        BY <2>2, <4>1 DEF MapInv, Mapped
    <3>3. Remembers(r)'
      BY <1>2, <1>3, <3>1, <3>2 DEF Remembers, Known, Runs
    <3>4. QED
      BY <1>3, <3>1, <3>3, ReleaserRemembers
  <2>3. QED
    BY <1>7, <2>1, <2>2 DEF ReleaseWoken
<1>8. CASE ReleaseReturns(r)
  <2>1. /\ rel'[r].pc = "idle" /\ rel'[r].old = {}
        /\ \A q \in Releasers \ {r} : rel'[q] = rel[q]
    BY <1>1, <1>8 DEF ReleaseReturns, NoRelease, ReleaseType
  <2>2. Remembers(r)'
    BY <2>1 DEF Remembers
  <2>3. QED
    BY <1>3, <2>1, <2>2, ReleaserRemembers
<1>9. CASE \E w \in Workspaces : ReleaseCalled(r, w)
  <2>1. PICK w \in Workspaces : ReleaseCalled(r, w)
    BY <1>9
  <2>2. /\ rel'[r].pc = "look" /\ rel'[r].old = LiveShells(w) /\ rel'[r].ws = w
        /\ \A q \in Releasers \ {r} : rel'[q] = rel[q]
    BY <1>1, <2>1 DEF ReleaseCalled, ReleaseType
  <2>3. Remembers(r)'
    BY <1>3, <2>2 DEF Remembers, LiveShells, Known, Runs
  <2>4. QED
    BY <1>3, <2>2, <2>3, ReleaserRemembers
<1>10. QED
  BY <1>5, <1>6, <1>7, <1>8, <1>9

LEMMA InstallKeepsShells ==
  ASSUME MapInv, ShellInv, NEW a \in Attachers, InstallSlot(a)
  PROVE  ShellInv'
<1>1. PICK s \in Slots :
         /\ Free(s)
         /\ sessions' = [sessions EXCEPT ![attach[a].ws] = s]
         /\ slot' = [slot EXCEPT ![s] = [ws |-> attach[a].ws, state |-> "starting",
                                         ready |-> FALSE, released |-> FALSE]]
         /\ shell' = [shell EXCEPT ![s] = "none"]
         /\ closed' = closed \ {s}
         /\ AttachAt(a, "start", s)
  BY DEF InstallSlot
<1>2. /\ Replaceable(Current(a)) /\ UNCHANGED rel
  BY DEF InstallSlot
<1> DEFINE w == attach[a].ws
<1>3. /\ AttachType /\ ReleaseType /\ SlotType /\ s \in SlotOrNone
      /\ sessions \in [Workspaces -> SlotOrNone] /\ w \in Workspaces
      /\ shell \in [Slots -> ShellStates] /\ closed \subseteq Slots
  BY Types DEF MapInv, AttachType, SlotOrNone
<1>4. /\ attach'[a].slot = s
      /\ \A b \in Attachers \ {a} : attach'[b] = attach[b]
  BY <1>1, <1>3, AttachMoved DEF AttachPC
<1>5. /\ shell'[s] = "none" /\ s \notin closed' /\ sessions'[w] = s
      /\ \A t \in Slots \ {s} : /\ slot'[t] = slot[t] /\ shell'[t] = shell[t]
                                /\ t \in closed' <=> t \in closed
      /\ \A v \in Workspaces \ {w} : sessions'[v] = sessions[v]
  BY <1>1, <1>3 DEF SlotType
<1>6. /\ \A b \in Attachers : attach[b].slot # s
      /\ \A r \in Releasers : rel[r].slot # s /\ s \notin rel[r].old
  BY <1>1 DEF Free
<1>7. \A t \in Slots : shell[t] = "alive" => slot[t].ws # w
  <2> SUFFICES ASSUME NEW t \in Slots, shell[t] = "alive", slot[t].ws = w PROVE FALSE
    OBVIOUS
  <2>1. sessions[w] = t
    BY DEF ShellInv, AliveMapped
  <2>2. slot[t].state = "active" /\ t \in closed
    BY <1>2, <2>1, NoSlotApart DEF Replaceable, InState, Current
  <2>3. QED
    BY <2>2 DEF ShellInv, ClosedDead
<1> HIDE DEF w
<1>8. AliveMapped'
  <2> SUFFICES ASSUME NEW t \in Slots, shell'[t] = "alive" PROVE sessions'[slot'[t].ws] = t
    BY DEF AliveMapped
  <2>1. t \in Slots \ {s} /\ slot'[t] = slot[t] /\ shell[t] = "alive"
    BY <1>5
  <2>2. slot[t].ws \in Workspaces \ {w}
    BY <1>3, <1>7, <2>1 DEF SlotType
  <2>3. QED
    BY <1>5, <2>1, <2>2 DEF ShellInv, AliveMapped
<1>9. ClosedDead'
  <2> SUFFICES ASSUME NEW t \in closed', shell'[t] = "alive" PROVE slot'[t].state = "releasing"
    BY DEF ClosedDead
  <2>1. t \in Slots \ {s} /\ t \in closed
    BY <1>1, <1>3
  <2>2. QED
    BY <1>5, <2>1 DEF ShellInv, ClosedDead
<1>10. Unstarted'
  <2> SUFFICES ASSUME NEW b \in Attachers, attach'[b].pc = "start"
               PROVE  shell'[attach'[b].slot] = "none" /\ attach'[b].slot \notin closed'
    BY DEF Unstarted
  <2>1. CASE b = a
    BY <2>1, <1>4, <1>5
  <2>2. CASE b # a
    <3>1. attach'[b] = attach[b] /\ attach[b].slot \in Slots \ {s}
      BY <2>2, <1>4, <1>6 DEF MapInv, Holding
    <3>2. QED
      BY <3>1, <1>5 DEF ShellInv, Unstarted
  <2>3. QED
    BY <2>1, <2>2
<1>11. Dropping'
  <2> SUFFICES ASSUME NEW r \in Releasers, rel[r].pc = "drop" PROVE ~Runs(rel[r].slot)'
    BY <1>2 DEF Dropping
  <2>1. rel[r].slot \in Slots \ {s}
    BY <1>6 DEF MapInv, Holding
  <2>2. QED
    BY <1>2, <1>5, <2>1 DEF ShellInv, Dropping, Runs
<1>12. \A r \in Releasers : Remembers(r)'
  <2> SUFFICES ASSUME NEW r \in Releasers PROVE Remembers(r)'
    OBVIOUS
  <2>1. \A t \in rel[r].old : t \in Slots \ {s} /\ slot'[t] = slot[t] /\ shell'[t] = shell[t]
    BY <1>3, <1>5, <1>6 DEF ReleaseType
  <2>2. ASSUME NEW t \in rel[r].old, Known(t)' PROVE Known(t)
    <3>1. slot[t].ws \in Workspaces /\ sessions'[slot[t].ws] = t /\ t # s
      BY <1>3, <2>1, <2>2 DEF Known, SlotType
    <3>2. QED
      BY <1>5, <2>1, <2>2, <3>1 DEF Known, Runs
  <2>3. QED
    BY <1>2, <2>1, <2>2 DEF ShellInv, Remembers
<1>13. QED
  BY <1>8, <1>9, <1>10, <1>11, <1>12 DEF ShellInv

LEMMA StartKeepsShells ==
  ASSUME MapInv, ShellInv, NEW a \in Attachers, StartShell(a)
  PROVE  ShellInv'
<1> DEFINE s == attach[a].slot
<1>1. /\ AttachType /\ ReleaseType /\ shell \in [Slots -> ShellStates]
      /\ s \in SlotOrNone
  BY Types DEF MapInv, AttachType
<1>2. /\ s \in Slots /\ slot[s].ws = attach[a].ws /\ sessions[slot[s].ws] = s
      /\ slot[s].state = "starting"
      /\ \A b \in Attachers \ {a} : Starting(b) => attach[b].slot \in Slots \ {s}
      /\ \A r \in Releasers : Closing(r) => rel[r].slot \in Slots \ {s}
  <2>1. Starting(a)
    BY DEF StartShell, Starting
  <2>2. /\ s \in Slots /\ slot[s].ws = attach[a].ws /\ sessions[slot[s].ws] = s
        /\ slot[s].state = "starting"
    BY <2>1 DEF MapInv, Holding, Owned, Starting
  <2>3. \A b \in Attachers \ {a} : Starting(b) => attach[b].slot \in Slots \ {s}
    BY <2>1 DEF MapInv, Holding, Owned, Starting
  <2>4. \A r \in Releasers : Closing(r) => rel[r].slot \in Slots \ {s}
    BY <2>2 DEF MapInv, Holding, Owned, Closing
  <2>5. QED
    BY <2>2, <2>3, <2>4
<1>3. /\ shell[s] = "none" /\ s \notin closed
  BY DEF StartShell, ShellInv, Unstarted
<1>4. /\ attach'[a].pc = "publish"
      /\ \A b \in Attachers \ {a} : attach'[b] = attach[b]
  BY <1>1, AttachMoved DEF StartShell, AttachPC
<1>5. /\ UNCHANGED <<sessions, slot, closed, rel>>
      /\ \A t \in Slots \ {s} : shell'[t] = shell[t]
  BY <1>1 DEF StartShell
<1> HIDE DEF s
<1>6. AliveMapped'
  BY <1>2, <1>5 DEF ShellInv, AliveMapped
<1>7. closed \subseteq Slots
  BY Types DEF MapInv
<1>8. ClosedDead'
  BY <1>3, <1>5, <1>7 DEF ShellInv, ClosedDead
<1>9. Unstarted'
  <2> SUFFICES ASSUME NEW b \in Attachers, attach'[b].pc = "start"
               PROVE  shell'[attach'[b].slot] = "none" /\ attach'[b].slot \notin closed'
    BY DEF Unstarted
  <2>1. b # a /\ attach'[b] = attach[b] /\ attach[b].slot \in Slots \ {s}
    BY <1>2, <1>4 DEF Starting
  <2>2. QED
    BY <1>5, <2>1 DEF ShellInv, Unstarted
<1>10. Dropping'
  BY <1>2, <1>5 DEF ShellInv, Dropping, Closing, Runs
<1>11. \A r \in Releasers : Remembers(r)'
  <2> SUFFICES ASSUME NEW r \in Releasers PROVE Remembers(r)'
    OBVIOUS
  <2>1. \A t \in rel[r].old : t \in Slots \ {s} /\ shell'[t] = shell[t]
    BY <1>1, <1>3, <1>5 DEF ShellInv, Remembers, ReleaseType
  <2>2. QED
    BY <1>5, <2>1 DEF ShellInv, Remembers, Known, Runs
<1>12. QED
  BY <1>6, <1>8, <1>9, <1>10, <1>11 DEF ShellInv

LEMMA PublishKeepsShells ==
  ASSUME MapInv, ShellInv, NEW a \in Attachers, Publish(a)
  PROVE  ShellInv'
<1> DEFINE s == attach[a].slot
           w == attach[a].ws
<1>1. /\ AttachType /\ SlotType /\ sessions \in [Workspaces -> SlotOrNone] /\ w \in Workspaces
      /\ ctx \subseteq Attachers /\ closed \subseteq Slots
  BY Types DEF MapInv, AttachType
<1>2. /\ Starting(a) /\ s \in Slots /\ slot[s].state = "starting" /\ slot[s].ws = w
      /\ sessions[w] = s
  BY DEF Publish, MapInv, Holding, Owned, Starting
<1>3. /\ AcquireReturns(a) /\ UNCHANGED <<shell, closed, rel>>
      /\ sessions' = [sessions EXCEPT ![w] = IF shell[s] = "none" THEN NoSlot ELSE s]
      /\ slot' = [slot EXCEPT ![s].state = IF shell[s] = "none" THEN @ ELSE "active",
                              ![s].ready = TRUE]
  BY <1>2 DEF Publish, Current, shellVars
<1>4. /\ attach'[a].pc = "idle"
      /\ \A b \in Attachers \ {a} : attach'[b] = attach[b]
  BY <1>1, <1>3, AttachEnded
<1>5. /\ shell[s] = "alive" => sessions'[w] = s
      /\ \A v \in Workspaces \ {w} : sessions'[v] = sessions[v]
      /\ \A t \in Slots : slot'[t].ws = slot[t].ws
      /\ \A t \in Slots \ {s} : slot'[t] = slot[t]
  BY <1>1, <1>2, <1>3 DEF SlotType
<1> HIDE DEF s, w
<1>6. AliveMapped'
  <2> SUFFICES ASSUME NEW t \in Slots, shell[t] = "alive" PROVE sessions'[slot'[t].ws] = t
    BY <1>3 DEF AliveMapped
  <2>1. slot'[t].ws = slot[t].ws /\ slot[t].ws \in Workspaces /\ sessions[slot[t].ws] = t
    BY <1>1, <1>5 DEF ShellInv, AliveMapped, SlotType
  <2>2. QED
    BY <1>2, <1>5, <2>1
<1>7. ClosedDead'
  <2> SUFFICES ASSUME NEW t \in closed, shell[t] = "alive" PROVE slot'[t].state = "releasing"
    BY <1>3 DEF ClosedDead
  <2>1. slot[t].state = "releasing" /\ t \in Slots
    BY <1>1 DEF ShellInv, ClosedDead
  <2>2. QED
    BY <1>2, <1>5, <2>1
<1>8. Unstarted'
  <2> SUFFICES ASSUME NEW b \in Attachers, attach'[b].pc = "start"
               PROVE  shell'[attach'[b].slot] = "none" /\ attach'[b].slot \notin closed'
    BY DEF Unstarted
  <2>1. attach'[b] = attach[b]
    BY <1>4
  <2>2. QED
    BY <1>3, <2>1 DEF ShellInv, Unstarted
<1>9. Dropping'
  BY <1>3 DEF ShellInv, Dropping, Runs
<1>10. \A r \in Releasers : Remembers(r)'
  <2> SUFFICES ASSUME NEW r \in Releasers PROVE Remembers(r)'
    OBVIOUS
  <2>1. rel[r].old \subseteq Slots
    BY Types DEF MapInv, ReleaseType
  <2>2. ASSUME NEW t \in rel[r].old, Known(t)' PROVE Known(t)
    <3>1. /\ t \in Slots /\ slot'[t].ws = slot[t].ws /\ slot[t].ws \in Workspaces
          /\ sessions'[slot[t].ws] = t /\ Runs(t)
      BY <1>1, <1>3, <1>5, <2>1, <2>2 DEF Known, Runs, SlotType
    <3>2. sessions[slot[t].ws] = t
      BY <1>1, <1>2, <1>3, <1>5, <3>1, NoSlotApart
    <3>3. QED
      BY <3>1, <3>2 DEF Known
  <2>3. QED
    BY <1>3, <1>5, <2>1, <2>2 DEF ShellInv, Remembers
<1>11. QED
  BY <1>6, <1>7, <1>8, <1>9, <1>10 DEF ShellInv

(* Claiming, closing and dropping a slot touch no living shell's place. *)
LEMMA CloseKeepsShells ==
  ASSUME MapInv, ShellInv, NEW r \in Releasers,
         ClaimSlot(r) \/ FinishSession(r) \/ KillShell(r) \/ DropSlot(r)
  PROVE  ShellInv'
<1>1. /\ ReleaseType /\ SlotType /\ sessions \in [Workspaces -> SlotOrNone]
      /\ NoSlot \in SlotOrNone /\ rel[r].ws \in Workspaces /\ closed \subseteq Slots
      /\ shell \in [Slots -> ShellStates] /\ rel[r].slot \in SlotOrNone
  BY Types DEF MapInv, ReleaseType, SlotOrNone
<1>2. Closing(r) => /\ rel[r].slot \in Slots /\ slot[rel[r].slot].state = "releasing"
                    /\ slot[rel[r].slot].ws = rel[r].ws /\ sessions[rel[r].ws] = rel[r].slot
  BY DEF MapInv, Holding, Owned, Closing
<1>3. \A a \in Attachers : attach[a].pc = "start" =>
         attach[a].slot \in Slots /\ slot[attach[a].slot].state = "starting"
  BY DEF MapInv, Holding, Owned, Starting
<1>4. CASE ClaimSlot(r)
  <2>1. PICK s \in SlotOrNone : s = sessions[rel[r].ws]
    BY <1>1
  <2>2. /\ s \in Slots /\ rel[r].pc = "look"
        /\ slot' = [slot EXCEPT ![s].state = "releasing", ![s].released = FALSE]
        /\ ReleaseAt(r, "finish", s) /\ UNCHANGED <<sessions, shell, closed, attach>>
    BY <1>4, <2>1 DEF ClaimSlot, InState, Found, SlotOrNone, shellVars
  <2>3. /\ rel'[r].pc = "finish" /\ rel'[r].ws = rel[r].ws /\ rel'[r].old = rel[r].old
        /\ \A q \in Releasers \ {r} : rel'[q] = rel[q]
    BY <1>1, <2>2, ReleaseMoved DEF ReleasePC
  <2>4. \A t \in Slots : slot'[t].ws = slot[t].ws
                         /\ (slot[t].state = "releasing" => slot'[t].state = "releasing")
    BY <1>1, <2>2 DEF SlotType
  <2>5. AliveMapped' /\ ClosedDead'
    BY <1>1, <2>2, <2>4 DEF ShellInv, AliveMapped, ClosedDead
  <2>6. Unstarted' /\ Dropping'
    BY <2>2, <2>3 DEF ShellInv, Unstarted, Dropping, Runs
  <2>7. \A q \in Releasers : Remembers(q)'
    <3> SUFFICES ASSUME NEW q \in Releasers PROVE Remembers(q)'
      OBVIOUS
    <3>1. rel[q].old \subseteq Slots /\ rel'[q].old = rel[q].old /\ rel'[q].ws = rel[q].ws
      BY <1>1, <2>3 DEF ReleaseType
    <3>2. Remembers(q) /\ UNCHANGED shell
      BY <2>2 DEF ShellInv
    <3>3. CASE q = r
      BY <2>2, <2>3, <2>4, <3>1, <3>2, <3>3 DEF Remembers, Known, Runs
    <3>4. CASE q # r
      BY <2>2, <2>3, <2>4, <3>1, <3>2, <3>4 DEF Remembers, Known, Runs
    <3>5. QED
      BY <3>3, <3>4
  <2>8. QED
    BY <2>5, <2>6, <2>7 DEF ShellInv
<1>5. CASE FinishSession(r)
  <2>1. /\ rel'[r].pc = "kill" /\ rel'[r].ws = rel[r].ws /\ rel'[r].old = rel[r].old
        /\ \A q \in Releasers \ {r} : rel'[q] = rel[q]
    BY <1>1, <1>5, ReleaseMoved DEF FinishSession, ReleasePC
  <2>2. /\ closed' = closed \cup {rel[r].slot} /\ UNCHANGED <<sessions, slot, shell, attach>>
        /\ slot[rel[r].slot].state = "releasing" /\ rel[r].pc = "finish"
    BY <1>2, <1>5 DEF FinishSession, Closing
  <2>3. AliveMapped' /\ ClosedDead'
    BY <2>2 DEF ShellInv, AliveMapped, ClosedDead
  <2>4. Unstarted' /\ Dropping'
    BY <1>3, <2>1, <2>2 DEF ShellInv, Unstarted, Dropping, Runs
  <2>5. \A q \in Releasers : Remembers(q)'
    BY <2>1, <2>2 DEF ShellInv, Remembers, Known, Runs
  <2>6. QED
    BY <2>3, <2>4, <2>5 DEF ShellInv
<1>6. CASE KillShell(r)
  <2>1. /\ rel'[r].pc = "drop" /\ rel'[r].slot = rel[r].slot
        /\ rel'[r].ws = rel[r].ws /\ rel'[r].old = rel[r].old
        /\ \A q \in Releasers \ {r} : rel'[q] = rel[q]
    BY <1>1, <1>6, ReleaseMoved DEF KillShell, ReleasePC
  <2>2. /\ UNCHANGED <<sessions, slot, closed, attach>> /\ rel[r].pc = "kill"
        /\ rel[r].slot \in Slots /\ shell'[rel[r].slot] = "dead"
        /\ slot[rel[r].slot].state = "releasing"
        /\ \A t \in Slots \ {rel[r].slot} : shell'[t] = shell[t]
    BY <1>1, <1>2, <1>6 DEF KillShell, Closing
  <2>3. AliveMapped' /\ ClosedDead'
    BY <1>1, <2>2 DEF ShellInv, AliveMapped, ClosedDead
  <2>4. Unstarted'
    BY <1>3, <2>2 DEF ShellInv, Unstarted
  <2>5. Dropping'
    <3> SUFFICES ASSUME NEW q \in Releasers, rel'[q].pc = "drop" PROVE ~Runs(rel[q].slot)'
      BY DEF Dropping
    <3>1. rel'[q].slot \in Slots /\ (q # r => rel[q] = rel'[q])
      BY <2>1, <2>2 DEF MapInv, Holding
    <3>2. QED
      BY <2>1, <2>2, <3>1 DEF ShellInv, Dropping, Runs
  <2>6. \A q \in Releasers : Remembers(q)'
    <3> SUFFICES ASSUME NEW q \in Releasers PROVE Remembers(q)'
      OBVIOUS
    <3>1. rel[q].old \subseteq Slots /\ rel'[q].old = rel[q].old /\ rel'[q].ws = rel[q].ws
      BY <1>1, <2>1 DEF ReleaseType
    <3>2. QED
      BY <2>1, <2>2, <3>1 DEF ShellInv, Remembers, Known, Runs
  <2>7. QED
    BY <2>3, <2>4, <2>5, <2>6 DEF ShellInv
<1>7. CASE DropSlot(r)
  <2>1. /\ rel'[r].pc = "returned" /\ rel'[r].old = rel[r].old
        /\ \A q \in Releasers \ {r} : rel'[q] = rel[q]
    BY <1>1, <1>7, ReleaseMoved DEF DropSlot, ReleasePC
  <2>2. Closing(r) /\ ~Runs(rel[r].slot) /\ UNCHANGED <<shell, closed, attach>>
    BY <1>7 DEF DropSlot, Closing, ShellInv, Dropping, shellVars
  <2>3. /\ \A v \in Workspaces \ {rel[r].ws} : sessions'[v] = sessions[v]
        /\ \A t \in Slots : slot'[t].ws = slot[t].ws /\ slot'[t].state = slot[t].state
    BY <1>1, <1>7 DEF DropSlot, SlotType
  <2>4. AliveMapped'
    <3> SUFFICES ASSUME NEW t \in Slots, shell[t] = "alive" PROVE sessions'[slot'[t].ws] = t
      BY <2>2 DEF AliveMapped
    <3>1. slot'[t].ws = slot[t].ws /\ slot[t].ws \in Workspaces /\ sessions[slot[t].ws] = t
      BY <1>1, <2>3 DEF ShellInv, AliveMapped, SlotType
    <3>2. QED
      BY <1>2, <2>2, <2>3, <3>1 DEF Runs
  <2>5. ClosedDead'
    BY <1>1, <2>2, <2>3 DEF ShellInv, ClosedDead
  <2>6. Unstarted' /\ Dropping'
    BY <2>1, <2>2 DEF ShellInv, Unstarted, Dropping, Runs
  <2>7. \A s \in rel[r].old : ~Known(s)
    BY <1>2, <2>2 DEF ShellInv, Remembers, Known
  <2>8. ASSUME NEW t \in Slots, Known(t)' PROVE Known(t)
    <3>1. slot[t].ws \in Workspaces /\ sessions'[slot[t].ws] = t /\ Runs(t)
      BY <1>1, <2>2, <2>3, <2>8 DEF Known, Runs, SlotType
    <3>2. sessions[slot[t].ws] = t
      BY <1>1, <1>2, <1>7, <2>2, <2>3, <3>1, NoSlotApart DEF DropSlot
    <3>3. QED
      BY <3>1, <3>2 DEF Known
  <2>9. \A q \in Releasers : Remembers(q)'
    <3> SUFFICES ASSUME NEW q \in Releasers PROVE Remembers(q)'
      OBVIOUS
    <3>1. rel[q].old \subseteq Slots /\ rel'[q].old = rel[q].old
      BY <1>1, <2>1 DEF ReleaseType
    <3>2. QED
      BY <2>1, <2>2, <2>3, <2>7, <2>8, <3>1 DEF ShellInv, Remembers
  <2>10. QED
    BY <2>4, <2>5, <2>6, <2>9 DEF ShellInv
<1>8. QED
  BY <1>4, <1>5, <1>6, <1>7

LEMMA SessionKeepsShells ==
  ASSUME MapInv, ShellInv,
         \/ \E s \in Slots : SessionStep(s)
         \/ \E w \in Workspaces : DirectoryGoes(w)
  PROVE  ShellInv'
<1>1. /\ ReleaseType /\ AttachType /\ closed \subseteq Slots
      /\ shell \in [Slots -> ShellStates]
  BY Types DEF MapInv
<1>2. CASE \E s \in Slots : ShellExits(s)
  <2>1. PICK s \in Slots : ShellExits(s)
    BY <1>2
  <2>2. /\ UNCHANGED <<sessions, slot, closed, attach, rel>> /\ Runs(s)
        /\ shell'[s] = "dead" /\ \A t \in Slots \ {s} : shell'[t] = shell[t]
    BY <1>1, <2>1 DEF ShellExits
  <2>3. AliveMapped' /\ ClosedDead'
    BY <1>1, <2>2 DEF ShellInv, AliveMapped, ClosedDead
  <2>4. Unstarted' /\ Dropping'
    <3>1. \A a \in Attachers : attach[a].pc = "start" => attach[a].slot \in Slots
      BY DEF MapInv, Holding
    <3>2. \A r \in Releasers : rel[r].pc = "drop" => rel[r].slot \in Slots
      BY DEF MapInv, Holding
    <3>3. QED
      BY <2>2, <3>1, <3>2 DEF ShellInv, Unstarted, Dropping, Runs
  <2>5. \A r \in Releasers : Remembers(r)'
    <3> SUFFICES ASSUME NEW r \in Releasers PROVE Remembers(r)'
      OBVIOUS
    <3>1. rel[r].old \subseteq Slots
      BY <1>1 DEF ReleaseType
    <3>2. QED
      BY <2>2, <3>1 DEF ShellInv, Remembers, Known, Runs
  <2>6. QED
    BY <2>3, <2>4, <2>5 DEF ShellInv
<1>3. CASE \E s \in Slots : SessionEnds(s)
  <2>1. PICK s \in Slots : SessionEnds(s)
    BY <1>3
  <2>2. /\ UNCHANGED <<sessions, slot, shell, attach, rel>> /\ shell[s] = "dead"
        /\ closed' = closed \cup {s}
    BY <2>1 DEF SessionEnds
  <2>3. AliveMapped' /\ ClosedDead' /\ Unstarted' /\ Dropping'
    BY <2>2 DEF ShellInv, AliveMapped, ClosedDead, Unstarted, Dropping, Runs
  <2>4. \A r \in Releasers : Remembers(r)'
    BY <2>2 DEF ShellInv, Remembers, Known, Runs
  <2>5. QED
    BY <2>3, <2>4 DEF ShellInv
<1>4. CASE \E s \in Slots : ShellDetaches(s)
  <2>1. PICK s \in Slots : ShellDetaches(s)
    BY <1>4
  <2>2. /\ UNCHANGED <<sessions, slot, attach, rel>> /\ closed' = closed \cup {s}
        /\ shell[s] = "alive" /\ shell'[s] = "detached"
        /\ \A t \in Slots \ {s} : shell'[t] = shell[t]
    BY <1>1, <2>1 DEF ShellDetaches
  <2>3. AliveMapped' /\ ClosedDead'
    BY <1>1, <2>2 DEF ShellInv, AliveMapped, ClosedDead
  <2>4. Unstarted' /\ Dropping'
    <3>1. \A a \in Attachers : attach[a].pc = "start" => attach[a].slot \in Slots
      BY DEF MapInv, Holding
    <3>2. \A r \in Releasers : rel[r].pc = "drop" => rel[r].slot \in Slots
      BY DEF MapInv, Holding
    <3>3. QED
      BY <2>2, <3>1, <3>2 DEF ShellInv, Unstarted, Dropping, Runs
  <2>5. \A r \in Releasers : Remembers(r)'
    <3> SUFFICES ASSUME NEW r \in Releasers PROVE Remembers(r)'
      OBVIOUS
    <3>1. rel[r].old \subseteq Slots
      BY <1>1 DEF ReleaseType
    <3>2. QED
      BY <2>2, <3>1 DEF ShellInv, Remembers, Known, Runs
  <2>6. QED
    BY <2>3, <2>4, <2>5 DEF ShellInv
<1>5. CASE \/ \E s \in Slots : SessionJams(s)
           \/ \E w \in Workspaces : DirectoryGoes(w)
  BY <1>5, ShellsSame DEF SessionJams, DirectoryGoes, shellVars
<1>6. QED
  BY <1>2, <1>3, <1>4, <1>5 DEF SessionStep

LEMMA ShellInvStep ==
  MapInv /\ ShellInv /\ [Next]_slotVars => ShellInv'
<1> SUFFICES ASSUME MapInv, ShellInv, [Next]_slotVars PROVE ShellInv'
  OBVIOUS
<1>1. CASE Next
  BY <1>1, AcquireKeepsShells, ReleaseKeepsShells, InstallKeepsShells, StartKeepsShells,
     PublishKeepsShells, CloseKeepsShells, SessionKeepsShells
  DEF Next, AcquireStep, ReleaseStep
<1>2. CASE UNCHANGED slotVars
  BY <1>2, ShellsSame DEF slotVars, shellVars
<1>3. QED
  BY <1>1, <1>2

LEMMA ShellInvAlways == Spec => []ShellInv
  BY MapInvAlways, ShellInvInit, ShellInvStep, PTL DEF Spec

(* A workspace has one shell at most on its terminal (Acquire starts it outside the mutex,
   Release kills it outside the mutex), whatever shells let go of theirs and live on. *)
THEOREM ShellsApart == Spec => []OneShell
<1>1. MapInv /\ ShellInv => OneShell
  BY OneShellFollows DEF MapInv
<1>2. QED
  BY <1>1, MapInvAlways, ShellInvAlways, PTL

(* A shell that ran when Release was called outlives it only if it has let go of its
   terminal and Acquire has dropped its slot for another, whoever kills the rest. *)
THEOREM ReleaseEnds == Spec => []ReleaseKills
<1>1. MapInv /\ ShellInv => ReleaseKills
  BY KillsFollows, Types DEF MapInv
<1>2. QED
  BY <1>1, MapInvAlways, ShellInvAlways, PTL
-----------------------------------------------------------------------------

TaskPC == {"idle", "supersede", "cancel", "timer", "delete", "release", "succeeded", "failed"}
TaskType == task \in [Tasks -> [pc : TaskPC, ws : Workspaces, entry : Tasks \cup {NoTask}]]
TableType ==
    /\ pending \in [Workspaces -> Tasks \cup {NoTask}]
    /\ latest \in [Workspaces -> Tasks \cup {NoTask}]
    /\ asked \subseteq Workspaces

(* A task that has removed the directory, or failed to, has released the terminal. *)
Released ==
    \A r \in Tasks : task[r].pc \in {"succeeded", "failed"} => rel[r].pc = "returned"

(* The table holds a task that waits for its timer, for its own workspace; it is that
   of the last DELETE. *)
Armed ==
    \A w \in Workspaces : pending[w] # NoTask =>
        /\ task[pending[w]].pc = "timer" /\ task[pending[w]].ws = w
        /\ latest[w] = pending[w]

(* An entry that was taken out of the table is not put back while it is cancelled. *)
TakenOut ==
    \A q \in Tasks : \A w \in Workspaces : task[q].entry # NoTask => pending[w] # task[q].entry

(* A deletion that has succeeded has left no directory. *)
GoneIfSucceeded == \A r \in Tasks : task[r].pc = "succeeded" => task[r].ws \notin dir

Table == TaskType /\ TableType /\ Released /\ Armed /\ TakenOut /\ GoneIfSucceeded
Inv == Table /\ NothingForgotten
-----------------------------------------------------------------------------
LEMMA NoTaskApart == NoTask \notin Tasks
  BY CleanupAssumption

LEMMA InvInit == Init => Inv
<1> SUFFICES ASSUME Init PROVE Inv
  OBVIOUS
<1> USE NoTaskApart
<1>1. \A r \in Tasks : task[r].pc = "idle" /\ task[r].entry = NoTask /\ task[r].ws \in Workspaces
  BY DEF Init, Idle
<1>2. TaskType
  BY DEF Init, Idle, TaskType, TaskPC
<1>3. TableType
  BY DEF Init, TableType
<1>4. Released /\ Armed /\ TakenOut /\ GoneIfSucceeded
  BY <1>1 DEF Init, Released, Armed, TakenOut, GoneIfSucceeded
<1>5. NothingForgotten
  BY DEF Init, NothingForgotten
<1>6. QED
  BY <1>2, <1>3, <1>4, <1>5 DEF Inv, Table
-----------------------------------------------------------------------------
(* The terminal manager's part of a step *)

(* A call of Release that has returned is left alone, and directories never come back. *)
LEMMA TerminalKeeps ==
  ASSUME ReleaseType, TerminalStep
  PROVE  /\ \A r \in Releasers : rel[r].pc = "returned" => rel'[r].pc = "returned"
         /\ dir' = dir
<1>1. CASE \E a \in Attachers :
             AcquireStep(a) \/ CancelContext(a) \/ \E w \in Workspaces : AcquireCalled(a, w)
  BY <1>1 DEF AcquireStep, CancelContext, AcquireCalled, GiveUp, ReuseSession, AskJammedSession,
     WaitForSlot, SlotReady, InstallSlot, StartShell, Publish
<1>2. CASE \E r \in Releasers : ReleaseStep(r)
  <2>1. PICK q \in Releasers : ReleaseStep(q)
    BY <1>2
  <2>2. rel[q].pc # "returned" /\ dir' = dir
    BY <2>1 DEF ReleaseStep, NothingToRelease, ReleaseWaits, ReleaseWoken, ClaimSlot,
       FinishSession, KillShell, DropSlot
  <2>3. \E pc, s : ReleaseAt(q, pc, s)
    BY <2>1 DEF ReleaseStep, NothingToRelease, ReleaseWaits, ReleaseWoken, ClaimSlot,
       FinishSession, KillShell, DropSlot
  <2>4. \A r \in Releasers \ {q} : rel'[r] = rel[r]
    BY <2>3 DEF ReleaseAt, ReleaseType
  <2>5. QED
    BY <2>2, <2>4
<1>3. CASE \E s \in Slots : SessionStep(s)
  BY <1>3 DEF SessionStep, ShellExits, SessionEnds, ShellDetaches, SessionJams
<1>4. QED
  BY <1>1, <1>2, <1>3 DEF TerminalStep

(* Every step of the clean-up manager is a step of the terminal manager, or leaves
   it alone. *)
LEMMA StepRefines ==
  ASSUME TypeOK, Inv, [CleanupNext]_vars
  PROVE  [Next]_slotVars
<1>1. CASE TerminalStep
  BY <1>1 DEF TerminalStep, Next
<1>2. ASSUME NEW r \in Tasks, ReleaseTerminal(r) PROVE Next
  <2>1. task[r].ws \in Workspaces
    BY DEF Inv, Table, TaskType
  <2>2. QED
    BY <1>2, <2>1 DEF ReleaseTerminal, Next, Tasks
<1>3. ASSUME NEW r \in Tasks, RemoveDirectory(r) PROVE [Next]_slotVars
  <2>1. task[r].ws \in Workspaces
    BY DEF Inv, Table, TaskType
  <2>2. UNCHANGED <<sessions, slot, shellVars, attach, ctx, rel>>
    BY <1>3 DEF RemoveDirectory
  <2>3. dir' = dir \/ (task[r].ws \in dir /\ dir' = dir \ {task[r].ws})
    BY <1>3 DEF RemoveDirectory
  <2>4. QED
    BY <2>1, <2>2, <2>3 DEF DirectoryGoes, Next, slotVars
<1>4. ASSUME NEW r \in Tasks, RecordCleanupResult(r) PROVE Next
  BY <1>4 DEF RecordCleanupResult, Next, Tasks
<1>5. ASSUME NEW r \in Tasks,
             \/ Supersede(r) \/ CancelEntry(r) \/ ClearPending(r) \/ BeginPendingDelete(r)
             \/ \E w \in Workspaces : DeleteNow(r, w) \/ DeleteLater(r, w)
      PROVE  UNCHANGED slotVars
  BY <1>5 DEF Supersede, CancelEntry, ClearPending, BeginPendingDelete, DeleteNow, DeleteLater
<1>6. CASE UNCHANGED vars
  BY <1>6 DEF vars
<1>7. QED
  BY <1>1, <1>2, <1>3, <1>4, <1>5, <1>6 DEF CleanupNext, TaskStep
-----------------------------------------------------------------------------
(* One task moves *)

Moves(q, t) ==
    /\ task'[q] = t
    /\ \A p \in Tasks \ {q} : task'[p] = task[p]

LEMMA Moved ==
  ASSUME TaskType, NEW q \in Tasks, NEW t, task' = [task EXCEPT ![q] = t]
  PROVE  Moves(q, t)
  BY DEF TaskType, Moves

LEMMA TypeMoved ==
  ASSUME TaskType, NEW q \in Tasks, NEW pc \in TaskPC, NEW w \in Workspaces,
         NEW e \in Tasks \cup {NoTask},
         task' = [task EXCEPT ![q] = [pc |-> pc, ws |-> w, entry |-> e]]
  PROVE  TaskType'
  BY DEF TaskType

(* Pursues(p, w): the task p is going to delete w. *)
Pursues(p, w) ==
    /\ task[p].ws = w /\ task[p].pc # "idle"
    /\ task[p].pc = "timer" => pending[w] = p /\ p \notin cancelled

LEMMA PursuedBy == \A w \in Workspaces : Pursued(w) <=> \E p \in Tasks : Pursues(p, w)
  BY DEF Pursued, Pursues

LEMMA PursuedByNext ==
  \A w \in Workspaces : Pursued(w)' <=> \E p \in Tasks : Pursues(p, w)'
  BY DEF Pursued, Pursues

(* Nothing is forgotten if another task keeps its place in the table, and the one that
   moves goes on or is replaced. *)
LEMMA StillPursued ==
  ASSUME TableType, NothingForgotten, NEW q \in Tasks,
         \A p \in Tasks \ {q} : task'[p] = task[p],
         asked' = asked, dir' \subseteq dir,
         \A w \in Workspaces : w \in failures /\ w \in dir' => w \in failures',
         \A p \in Tasks \ {q} : \A w \in Workspaces :
            Pursues(p, w) /\ w \in dir' => Pursues(p, w)' \/ Pursues(q, w)',
         \A w \in Workspaces :
            Pursues(q, w) /\ w \in dir' => Pursues(q, w)' \/ w \in failures'
  PROVE  NothingForgotten'
<1> SUFFICES ASSUME NEW w \in asked, w \in dir'
             PROVE  w \in failures' \/ Pursued(w)'
  BY DEF NothingForgotten
<1>1. w \in Workspaces /\ w \in dir
  BY DEF TableType
<1>2. CASE w \in failures
  BY <1>1, <1>2
<1>3. CASE Pursued(w)
  <2>1. PICK p \in Tasks : Pursues(p, w)
    BY <1>1, <1>3, PursuedBy
  <2>2. Pursues(p, w)' \/ Pursues(q, w)' \/ w \in failures'
    BY <1>1, <2>1
  <2>3. QED
    BY <1>1, <2>2, PursuedByNext
<1>4. QED
  BY <1>1, <1>2, <1>3 DEF NothingForgotten
-----------------------------------------------------------------------------
(* The steps of CleanupNext *)

LEMMA TerminalStepKeeps ==
  ASSUME TypeOK, Inv, TerminalStep, UNCHANGED cleanupVars PROVE Inv'
<1> USE DEF Inv, Table, cleanupVars, tableVars
<1>1. /\ \A r \in Releasers : rel[r].pc = "returned" => rel'[r].pc = "returned"
      /\ dir' = dir
  <2>1. ReleaseType
    BY DEF TypeOK, ReleaseType, ReleasePC, SlotOrNone
  <2>2. QED
    BY <2>1, TerminalKeeps
<1>2. TaskType' /\ TableType' /\ Armed' /\ TakenOut'
  BY DEF TaskType, TableType, Armed, TakenOut
<1>3. Released' /\ GoneIfSucceeded'
  BY <1>1 DEF Released, GoneIfSucceeded, Tasks
<1>4. NothingForgotten'
  BY <1>1 DEF NothingForgotten, Pursued
<1>5. QED
  BY <1>2, <1>3, <1>4

LEMMA DeleteNowKeeps ==
  ASSUME Inv, NEW q \in Tasks, NEW v \in Workspaces, DeleteNow(q, v) PROVE Inv'
<1> USE NoTaskApart DEF Inv, Table
<1>1. Moves(q, [pc |-> "supersede", ws |-> v, entry |-> NoTask])
  BY Moved DEF DeleteNow
<1>2. UNCHANGED <<rel, dir, pending, latest, cancelled, failures>>
  BY DEF DeleteNow, slotVars
<1>3. task[q].pc = "idle" /\ \A w \in Workspaces : pending[w] # q
  BY DEF DeleteNow, Available
<1>4. TaskType'
  BY TypeMoved DEF DeleteNow, TaskPC
<1>5. TableType'
  BY <1>2 DEF TableType, DeleteNow
<1>6. Released' /\ GoneIfSucceeded'
  BY <1>1, <1>2 DEF Released, GoneIfSucceeded, Moves
<1>7. Armed' /\ TakenOut'
  BY <1>1, <1>2, <1>3 DEF Armed, TakenOut, Moves, TableType
<1>8. NothingForgotten'
  <2> SUFFICES ASSUME NEW w \in asked', w \in dir, w \notin failures
               PROVE  Pursued(w)'
    BY <1>2 DEF NothingForgotten
  <2>1. w \in Workspaces /\ asked' = asked \cup {v}
    BY <1>5 DEF TableType, DeleteNow
  <2>2. CASE w = v
    <3>1. Pursues(q, w)'
      BY <1>1, <2>2 DEF Pursues, Moves
    <3>2. QED
      BY <2>1, <3>1, PursuedByNext
  <2>3. CASE w # v
    <3>1. PICK p \in Tasks : Pursues(p, w)
      BY <2>1, <2>3, PursuedBy DEF NothingForgotten
    <3>2. Pursues(p, w)'
      BY <1>1, <1>2, <1>3, <3>1 DEF Pursues, Moves
    <3>3. QED
      BY <2>1, <3>2, PursuedByNext
  <2>4. QED
    BY <2>2, <2>3
<1>9. QED
  BY <1>4, <1>5, <1>6, <1>7, <1>8

LEMMA DeleteLaterKeeps ==
  ASSUME Inv, NEW q \in Tasks, NEW v \in Workspaces, DeleteLater(q, v) PROVE Inv'
<1> USE NoTaskApart DEF Inv, Table
<1>1. Moves(q, [pc |-> "timer", ws |-> v, entry |-> NoTask])
  BY Moved DEF DeleteLater
<1>2. /\ UNCHANGED <<rel, dir, failures>>
      /\ cancelled' = (cancelled \ {q}) \cup ({pending[v]} \ {NoTask})
  BY DEF DeleteLater, slotVars
<1>3. /\ task[q].pc = "idle" /\ \A w \in Workspaces : pending[w] # q
      /\ \A p \in Tasks : task[p].entry # q
  BY DEF DeleteLater, Available
<1>4. /\ pending'[v] = q /\ latest'[v] = q
      /\ \A w \in Workspaces \ {v} : pending'[w] = pending[w] /\ latest'[w] = latest[w]
  BY DEF DeleteLater, TableType
<1>5. TaskType'
  BY TypeMoved DEF DeleteLater, TaskPC
<1>6. TableType'
  BY DEF TableType, DeleteLater
<1>7. Released' /\ GoneIfSucceeded'
  BY <1>1, <1>2 DEF Released, GoneIfSucceeded, Moves
<1>8. Armed'
  BY <1>1, <1>3, <1>4 DEF Armed, Moves, TableType
<1>9. TakenOut'
  BY <1>1, <1>3, <1>4 DEF TakenOut, Moves
<1>10. NothingForgotten'
  <2> SUFFICES ASSUME NEW w \in asked', w \in dir, w \notin failures
               PROVE  Pursued(w)'
    BY <1>2 DEF NothingForgotten
  <2>1. w \in Workspaces /\ asked' = asked \cup {v}
    BY <1>6 DEF TableType, DeleteLater
  <2>2. CASE w = v
    <3>1. Pursues(q, w)'
      BY <1>1, <1>2, <1>3, <1>4, <2>2 DEF Pursues, Moves
    <3>2. QED
      BY <2>1, <3>1, PursuedByNext
  <2>3. CASE w # v
    <3>1. PICK p \in Tasks : Pursues(p, w)
      BY <2>1, <2>3, PursuedBy DEF NothingForgotten
    <3>2. p # q /\ p # pending[v]
      BY <1>3, <2>3, <3>1 DEF Pursues, Armed
    <3>3. Pursues(p, w)'
      BY <1>1, <1>2, <1>4, <2>1, <2>3, <3>1, <3>2 DEF Pursues, Moves
    <3>4. QED
      BY <2>1, <3>3, PursuedByNext
  <2>4. QED
    BY <2>2, <2>3
<1>11. QED
  BY <1>5, <1>6, <1>7, <1>8, <1>9, <1>10

LEMMA SupersedeKeeps ==
  ASSUME Inv, NEW q \in Tasks, Supersede(q) PROVE Inv'
<1> USE NoTaskApart DEF Inv, Table
<1> DEFINE v == task[q].ws
<1>0. v \in Workspaces /\ pending[v] \in Tasks \cup {NoTask}
  BY DEF TaskType, TableType
<1>1. task' = [task EXCEPT ![q] = [pc |-> "cancel", ws |-> v, entry |-> pending[v]]]
  BY DEF Supersede, TaskType
<1>2. Moves(q, [pc |-> "cancel", ws |-> v, entry |-> pending[v]])
  BY <1>1, Moved
<1>3. /\ UNCHANGED <<rel, dir, failures, cancelled, asked>>
      /\ task[q].pc = "supersede"
  BY DEF Supersede, slotVars
<1>4. /\ pending'[v] = NoTask /\ latest'[v] = q
      /\ \A w \in Workspaces \ {v} : pending'[w] = pending[w] /\ latest'[w] = latest[w]
  BY <1>0 DEF Supersede, TableType
<1>5. TaskType'
  BY <1>0, <1>1, TypeMoved DEF TaskPC
<1>6. TableType'
  BY <1>0 DEF TableType, Supersede
<1>7. Released' /\ GoneIfSucceeded'
  BY <1>2, <1>3 DEF Released, GoneIfSucceeded, Moves
<1>8. Armed'
  <2> SUFFICES ASSUME NEW w \in Workspaces, pending'[w] # NoTask
               PROVE  /\ task'[pending'[w]].pc = "timer" /\ task'[pending'[w]].ws = w
                      /\ latest'[w] = pending'[w]
    BY DEF Armed
  <2>1. w # v /\ pending'[w] = pending[w] /\ latest'[w] = latest[w] /\ pending[w] \in Tasks
    BY <1>4 DEF TableType
  <2>2. pending[w] # q
    BY <1>3, <2>1 DEF Armed
  <2>3. QED
    BY <1>2, <2>1, <2>2 DEF Armed, Moves
<1>9. TakenOut'
  <2> SUFFICES ASSUME NEW p \in Tasks, NEW w \in Workspaces, task'[p].entry # NoTask,
                      pending'[w] = task'[p].entry
               PROVE  FALSE
    BY DEF TakenOut
  <2>1. w # v /\ pending[w] = task'[p].entry
    BY <1>4
  <2>2. CASE p = q
    <3>1. pending[w] = pending[v] /\ pending[w] # NoTask
      BY <1>2, <2>1, <2>2 DEF Moves
    <3>2. QED
      BY <1>0, <2>1, <3>1 DEF Armed
  <2>3. CASE p # q
    BY <1>2, <2>1, <2>3 DEF TakenOut, Moves
  <2>4. QED
    BY <2>2, <2>3
<1>10. NothingForgotten'
  <2>1. ASSUME NEW p \in Tasks \ {q}, NEW w \in Workspaces, Pursues(p, w)
        PROVE  Pursues(p, w)' \/ Pursues(q, w)'
    BY <1>2, <1>3, <1>4, <2>1 DEF Pursues, Moves
  <2>2. ASSUME NEW w \in Workspaces, Pursues(q, w) PROVE Pursues(q, w)'
    BY <1>2, <2>2 DEF Pursues, Moves
  <2>3. \A p \in Tasks \ {q} : task'[p] = task[p]
    BY <1>2 DEF Moves
  <2>4. QED
    BY <1>3, <2>1, <2>2, <2>3, StillPursued
<1>11. QED
  BY <1>5, <1>6, <1>7, <1>8, <1>9, <1>10

LEMMA CancelEntryKeeps ==
  ASSUME Inv, NEW q \in Tasks, CancelEntry(q) PROVE Inv'
<1> USE NoTaskApart DEF Inv, Table
<1>1. task' = [task EXCEPT ![q] = [pc |-> "delete", ws |-> task[q].ws, entry |-> NoTask]]
  BY DEF CancelEntry, TaskType
<1>2. Moves(q, [pc |-> "delete", ws |-> task[q].ws, entry |-> NoTask])
  BY <1>1, Moved
<1>3. /\ UNCHANGED <<rel, dir, failures, pending, asked, latest>>
      /\ task[q].pc = "cancel" /\ cancelled' = cancelled \cup ({task[q].entry} \ {NoTask})
  BY DEF CancelEntry, slotVars
<1>4. TaskType'
  BY <1>1, TypeMoved DEF TaskPC, TaskType
<1>5. TableType' /\ Released' /\ GoneIfSucceeded'
  BY <1>2, <1>3 DEF TableType, Released, GoneIfSucceeded, Moves
<1>6. Armed' /\ TakenOut'
  BY <1>2, <1>3 DEF Armed, TakenOut, Moves, TableType
<1>7. NothingForgotten'
  <2>1. ASSUME NEW p \in Tasks \ {q}, NEW w \in Workspaces, Pursues(p, w)
        PROVE  Pursues(p, w)'
    BY <1>2, <1>3, <2>1 DEF Pursues, Moves, TakenOut
  <2>2. ASSUME NEW w \in Workspaces, Pursues(q, w) PROVE Pursues(q, w)'
    BY <1>2, <2>2 DEF Pursues, Moves
  <2>3. \A p \in Tasks \ {q} : task'[p] = task[p]
    BY <1>2 DEF Moves
  <2>4. QED
    BY <1>3, <2>1, <2>2, <2>3, StillPursued
<1>8. QED
  BY <1>4, <1>5, <1>6, <1>7

(* A timer ends, and its place in the table, if it is still its own, is cleared. *)
LEMMA TimerKeeps ==
  ASSUME Inv, NEW q \in Tasks, ClearPending(q) \/ BeginPendingDelete(q) PROVE Inv'
<1> USE NoTaskApart DEF Inv, Table
<1> DEFINE v == task[q].ws
<1>0. v \in Workspaces /\ task[q].pc = "timer"
  BY DEF TaskType, ClearPending, BeginPendingDelete
<1>1. PICK pc \in {"idle", "delete"}, e \in Tasks \cup {NoTask} :
        /\ task' = [task EXCEPT ![q] = [pc |-> pc, ws |-> v, entry |-> e]]
        /\ e = NoTask \/ e = task[q].entry
        /\ pc = "idle" => q \in cancelled \/ pending[v] # q
  BY DEF ClearPending, BeginPendingDelete, TaskEnds, TaskAt, Idle, TaskType
<1>2. Moves(q, [pc |-> pc, ws |-> v, entry |-> e])
  BY <1>1, Moved
<1>3. UNCHANGED <<rel, dir, failures, asked, latest, cancelled>>
  BY DEF ClearPending, BeginPendingDelete, slotVars
<1>4. pending' = IF pending[v] = q THEN [pending EXCEPT ![v] = NoTask] ELSE pending
  BY DEF ClearPending, BeginPendingDelete
<1>5. \A w \in Workspaces : pending'[w] = IF pending[w] = q THEN NoTask ELSE pending[w]
  BY <1>0, <1>4 DEF Armed, TableType
<1>6. TaskType'
  BY <1>0, <1>1, TypeMoved DEF TaskPC
<1>7. TableType'
  BY <1>0, <1>3, <1>4 DEF TableType
<1>8. Released' /\ GoneIfSucceeded'
  BY <1>2, <1>3 DEF Released, GoneIfSucceeded, Moves
<1>9. Armed' /\ TakenOut'
  BY <1>1, <1>2, <1>3, <1>5 DEF Armed, TakenOut, Moves, TableType
<1>10. NothingForgotten'
  <2>1. ASSUME NEW p \in Tasks \ {q}, NEW w \in Workspaces, Pursues(p, w)
        PROVE  Pursues(p, w)'
    BY <1>2, <1>3, <1>5, <2>1 DEF Pursues, Moves
  <2>2. ASSUME NEW w \in Workspaces, Pursues(q, w) PROVE Pursues(q, w)'
    BY <1>0, <1>1, <1>2, <2>2 DEF Pursues, Moves
  <2>3. \A p \in Tasks \ {q} : task'[p] = task[p]
    BY <1>2 DEF Moves
  <2>4. QED
    BY <1>3, <2>1, <2>2, <2>3, StillPursued
<1>11. QED
  BY <1>6, <1>7, <1>8, <1>9, <1>10

(* The deletion itself leaves the table alone. *)
LEMMA DeletionKeeps ==
  ASSUME ReleaseType, Inv, NEW q \in Tasks,
         ReleaseTerminal(q) \/ RemoveDirectory(q) \/ RecordCleanupResult(q)
  PROVE  Inv'
<1> USE NoTaskApart DEF Inv, Table
<1> DEFINE v == task[q].ws
<1>0. v \in Workspaces /\ task[q].pc \in {"delete", "release", "succeeded", "failed"}
  BY DEF TaskType, ReleaseTerminal, RemoveDirectory, RecordCleanupResult
<1>1. PICK pc \in TaskPC, e \in Tasks \cup {NoTask} :
        /\ task' = [task EXCEPT ![q] = [pc |-> pc, ws |-> v, entry |-> e]]
        /\ e = NoTask \/ e = task[q].entry
        /\ \/ pc = "release" /\ dir' = dir
           \/ pc = "succeeded" /\ dir' = dir \ {v} /\ rel' = rel /\ rel[q].pc = "returned"
           \/ pc = "failed" /\ dir' = dir /\ rel' = rel /\ rel[q].pc = "returned"
           \/ pc = "idle" /\ dir' = dir
  BY DEF ReleaseTerminal, RemoveDirectory, RecordCleanupResult, ReleaseCalled, ReleaseReturns,
     TaskEnds, TaskAt, Idle, TaskType, TaskPC
<1>2. Moves(q, [pc |-> pc, ws |-> v, entry |-> e])
  BY <1>1, Moved
<1>3. UNCHANGED <<asked, latest, cancelled, pending>>
  BY DEF ReleaseTerminal, RemoveDirectory, RecordCleanupResult, tableVars
<1>4. \A p \in Tasks \ {q} : rel'[p] = rel[p]
  BY DEF ReleaseTerminal, RemoveDirectory, RecordCleanupResult, ReleaseCalled, ReleaseReturns,
     ReleaseType, Tasks
<1>5. /\ \A w \in Workspaces : w \in failures /\ w \in dir' => w \in failures'
      /\ pc = "idle" => v \in failures' \/ v \notin dir
  BY <1>0, <1>1, <1>2 DEF ReleaseTerminal, RemoveDirectory, RecordCleanupResult, tableVars,
     GoneIfSucceeded, TaskPC, Moves, TaskAt, TaskType
<1>6. TaskType'
  BY <1>0, <1>1, TypeMoved
<1>7. TableType'
  BY <1>3 DEF TableType
<1>8. Released' /\ GoneIfSucceeded'
  BY <1>1, <1>2, <1>4 DEF Released, GoneIfSucceeded, Moves
<1>9. Armed' /\ TakenOut'
  BY <1>0, <1>1, <1>2, <1>3 DEF Armed, TakenOut, Moves, TableType
<1>10. NothingForgotten'
  <2>1. ASSUME NEW p \in Tasks \ {q}, NEW w \in Workspaces, Pursues(p, w)
        PROVE  Pursues(p, w)'
    BY <1>2, <1>3, <2>1 DEF Pursues, Moves
  <2>2. ASSUME NEW w \in Workspaces, Pursues(q, w), w \in dir'
        PROVE  Pursues(q, w)' \/ w \in failures'
    BY <1>1, <1>2, <1>5, <2>2 DEF Pursues, Moves
  <2>3. (\A p \in Tasks \ {q} : task'[p] = task[p]) /\ dir' \subseteq dir
    BY <1>1, <1>2 DEF Moves
  <2>4. QED
    BY <1>3, <1>5, <2>1, <2>2, <2>3, StillPursued
<1>11. QED
  BY <1>6, <1>7, <1>8, <1>9, <1>10
-----------------------------------------------------------------------------
(* Results *)

LEMMA InvStep == TypeOK /\ Inv /\ [CleanupNext]_vars => Inv'
<1> SUFFICES ASSUME TypeOK, Inv, [CleanupNext]_vars PROVE Inv'
  OBVIOUS
<1>1. ReleaseType
  BY DEF TypeOK, ReleaseType, ReleasePC, SlotOrNone
<1>2. CASE CleanupNext
  BY <1>1, <1>2, TerminalStepKeeps, DeleteNowKeeps, DeleteLaterKeeps, SupersedeKeeps,
     CancelEntryKeeps, TimerKeeps, DeletionKeeps
  DEF CleanupNext, TaskStep
<1>3. CASE UNCHANGED vars
  BY <1>3 DEF vars, slotVars, cleanupVars, tableVars, Inv, Table, TaskType, TableType, Released, Armed,
     TakenOut, GoneIfSucceeded, NothingForgotten, Pursued
<1>4. QED
  BY <1>2, <1>3

(* The invariants of both managers, step by step: the types of the terminal manager are
   needed for those of the table, and the table's for the next step of the terminal
   manager. *)
LEMMA BothInvariants == CleanupSpec => [](MapInv /\ Inv)
<1>1. Init => MapInv /\ Inv
  BY InvInit, MapInvInit DEF Init
<1>2. MapInv /\ Inv /\ [CleanupNext]_vars => MapInv' /\ Inv'
  <2>1. MapInv => TypeOK
    BY DEF MapInv
  <2>2. QED
    BY <2>1, StepRefines, MapInvStep, InvStep
<1>3. QED
  BY <1>1, <1>2, PTL DEF CleanupSpec

CleanupTypes == cancelled \subseteq Tasks /\ failures \subseteq Workspaces

LEMMA CleanupTypesStep ==
  ASSUME Inv, CleanupTypes, [CleanupNext]_vars PROVE CleanupTypes'
<1>1. /\ \A r \in Tasks : task[r].ws \in Workspaces /\ task[r].entry \in Tasks \cup {NoTask}
      /\ \A w \in Workspaces : pending[w] \in Tasks \cup {NoTask}
  BY DEF Inv, Table, TaskType, TableType
<1>2. cancelled' \subseteq Tasks
  BY <1>1 DEF CleanupNext, vars, cleanupVars, tableVars, TaskStep, DeleteNow, DeleteLater, Supersede,
     CancelEntry, ClearPending, BeginPendingDelete, ReleaseTerminal, RemoveDirectory,
     RecordCleanupResult, CleanupTypes
<1>3. failures' \subseteq Workspaces
  BY <1>1 DEF CleanupNext, vars, cleanupVars, tableVars, TaskStep, DeleteNow, DeleteLater, Supersede,
     CancelEntry, ClearPending, BeginPendingDelete, ReleaseTerminal, RemoveDirectory,
     RecordCleanupResult, CleanupTypes
<1>4. QED
  BY <1>2, <1>3 DEF CleanupTypes

(* The variables of both managers take the values their comments give: in particular the
   table and the cancelled tasks never hold a task that is not there. *)
THEOREM TypesCorrect == CleanupSpec => []TypesOK
<1>1. Init => CleanupTypes
  BY CleanupAssumption DEF Init, CleanupTypes
<1>2. MapInv /\ Inv /\ CleanupTypes => TypesOK
  BY DEF MapInv, Inv, Table, TaskType, TaskPC, TableType, CleanupTypes, CleanupTypeOK, TypesOK
<1>3. Inv /\ CleanupTypes /\ [CleanupNext]_vars => CleanupTypes'
  BY CleanupTypesStep
<1>4. QED
  BY <1>1, <1>2, <1>3, BothInvariants, PTL DEF CleanupSpec

(* The two managers together implement the terminal manager alone: a DELETE call uses
   Release as TerminalSlots allows, whatever timers and removals do. *)
THEOREM UsesTheTerminalManager == CleanupSpec => Spec
<1>1. Init => SlotsInit
  BY DEF Init
<1>2. MapInv /\ Inv /\ [CleanupNext]_vars => [Next]_slotVars
  BY StepRefines DEF MapInv
<1>3. QED
  BY <1>1, <1>2, BothInvariants, PTL DEF CleanupSpec, Spec

(* An accepted deletion is not lost while its directory exists, however timers are
   armed, superseded and cancelled (Schedule, beginPendingDelete, clearPending). *)
THEOREM NoDeletionIsLost == CleanupSpec => []NothingForgotten
<1>1. Inv => NothingForgotten
  BY DEF Inv
<1>2. QED
  BY <1>1, BothInvariants, PTL

(* A delayed deletion begins only if it was the last one asked for (Schedule,
   cancelPending, beginPendingDelete). *)
THEOREM TheLastDecides == CleanupSpec => LatestDecides
<1>1. ASSUME Inv, [CleanupNext]_vars
      PROVE  [\A r \in Tasks :
                (task[r].pc = "timer" /\ task'[r].pc = "delete") => latest[task[r].ws] = r]_vars
  <2> SUFFICES ASSUME NEW r \in Tasks, task[r].pc = "timer", task'[r].pc = "delete", CleanupNext
               PROVE  latest[task[r].ws] = r
    BY <1>1 DEF vars, cleanupVars
  <2>1. TaskType /\ Armed
    BY <1>1 DEF Inv, Table
  <2>2. BeginPendingDelete(r) /\ pending[task[r].ws] = r
    BY <2>1 DEF CleanupNext, cleanupVars, TaskStep, TaskType, DeleteNow, DeleteLater, Supersede, CancelEntry,
       ClearPending, BeginPendingDelete, ReleaseTerminal, RemoveDirectory, RecordCleanupResult,
       TaskAt, TaskEnds, Idle, Available
  <2>3. r # NoTask /\ task[r].ws \in Workspaces
    BY <2>1, NoTaskApart DEF TaskType
  <2>4. QED
    BY <2>1, <2>2, <2>3 DEF Armed
<1>2. QED
  BY <1>1, BothInvariants, PTL DEF CleanupSpec, LatestDecides

(* A directory goes only after the shells that ran in it when its deletion began have
   ended, but for those the terminal manager has lost (deleteNow, Release). *)
THEOREM ShellsGoFirst == CleanupSpec => ShellsEndFirst
<1>1. ASSUME Inv, ReleaseKills, ReleaseType, [CleanupNext]_vars
      PROVE  [\A w \in dir \ dir' : \E r \in Tasks :
                /\ task[r].ws = w /\ task[r].pc = "release" /\ rel[r].pc = "returned"
                /\ OldEnded(r)]_vars
  <2> SUFFICES ASSUME NEW w \in dir \ dir', CleanupNext
               PROVE  \E r \in Tasks :
                        /\ task[r].ws = w /\ task[r].pc = "release" /\ rel[r].pc = "returned"
                        /\ OldEnded(r)
    BY <1>1 DEF vars, slotVars
  <2>1. PICK r \in Tasks : RemoveDirectory(r)
    <3>1. ~TerminalStep
      BY <1>1, TerminalKeeps
    <3>2. QED
      BY <3>1 DEF CleanupNext, TaskStep, DeleteNow, DeleteLater, Supersede, CancelEntry,
         ClearPending, BeginPendingDelete, ReleaseTerminal, RecordCleanupResult, ReleaseCalled,
         ReleaseReturns, slotVars
  <2>2. task[r].ws = w /\ task[r].pc = "release" /\ rel[r].pc = "returned"
    BY <2>1 DEF RemoveDirectory
  <2>3. QED
    BY <1>1, <2>2 DEF ReleaseKills, Tasks
<1>2. MapInv => ReleaseType
  BY DEF MapInv, TypeOK, ReleaseType, ReleasePC, SlotOrNone
<1>3. CleanupSpec => []ReleaseKills
  BY UsesTheTerminalManager, ReleaseEnds, PTL
<1>4. QED
  BY <1>1, <1>2, <1>3, BothInvariants, PTL DEF CleanupSpec, ShellsEndFirst
=============================================================================
