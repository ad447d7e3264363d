------------------------- MODULE WorkspaceLifecycle --------------------------
(***************************************************************************)
(* What the API promises about the workspace of a practice session, with   *)
(* no requests, loops, jobs, timers or faults: it is made before the       *)
(* session opens, it is deleted only once the session has ended, a session *)
(* ends once, and the workspace of an ended session does not stay.         *)
(***************************************************************************)
CONSTANT Sessions

VARIABLES
    phase,    (* "absent", "inUse" or "ended"                                  *)
    place     (* "none", "present", "deleted" by the system, "lost" otherwise  *)

vars == <<phase, place>>

Init ==
    /\ phase = [s \in Sessions |-> "absent"]
    /\ place = [s \in Sessions |-> "none"]

Provision(s) ==
    /\ place[s] = "none"
    /\ place' = [place EXCEPT ![s] = "present"]
    /\ UNCHANGED phase

Open(s) ==
    /\ phase[s] = "absent"
    /\ place[s] # "none"
    /\ phase' = [phase EXCEPT ![s] = "inUse"]
    /\ UNCHANGED place

(* One sweep may end several sessions at once. *)
End(S) ==
    /\ \A s \in S : phase[s] = "inUse"
    /\ phase' = [s \in Sessions |-> IF s \in S THEN "ended" ELSE phase[s]]
    /\ UNCHANGED place

Delete(s) ==
    /\ phase[s] = "ended"
    /\ place[s] = "present"
    /\ place' = [place EXCEPT ![s] = "deleted"]
    /\ UNCHANGED phase

Lose(s) ==
    /\ place[s] = "present"
    /\ place' = [place EXCEPT ![s] = "lost"]
    /\ UNCHANGED phase

Next ==
    \/ \E s \in Sessions : Provision(s) \/ Open(s) \/ Delete(s) \/ Lose(s)
    \/ \E S \in SUBSET Sessions : End(S)

Spec == Init /\ [][Next]_vars

(* Ended sessions leave no workspace behind for ever. *)
LiveSpec == Spec /\ \A s \in Sessions : phase[s] = "ended" ~> place[s] # "present"
=============================================================================
