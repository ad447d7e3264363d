----------------------------- MODULE CurrentSession -----------------------------
(***************************************************************************)
(* Which of one user's practice sessions is the current one: requests that *)
(* create sessions and requests that look the current one up, interleaved  *)
(* at every runner call and store statement, while sessions expire and     *)
(* lose their workspaces.  PracticeCleanup has what happens to one         *)
(* session; here it is the order of several that matters.                  *)
(*                                                                         *)
(* A runner call or an insert may fail with or without its effect; faults  *)
(* counts that.                                                            *)
(***************************************************************************)
EXTENDS Naturals, Sequences, FiniteSets

CONSTANTS
    Creators,   (* requests that create a session, each with its own workspace  *)
    Lookups,    (* requests for the current session                             *)
    TTL,        (* practiceSessionTTL                                           *)
    MaxTime,    (* bound on the clock                                           *)
    MaxFaults   (* bound on the faults                                          *)

ASSUME CurrentSessionAssumption ==
    /\ IsFiniteSet(Creators) /\ IsFiniteSet(Lookups) /\ Creators \cap Lookups = {}
    /\ TTL \in Nat \ {0} /\ MaxTime \in Nat /\ MaxFaults \in Nat

VARIABLES
    now,     (* the API's clock                                                *)
    rows,    (* the user's practice_sessions, by id                            *)
    disk,    (* the creators whose workspace the runner has made               *)
    create,  (* progress of each creating request, and its startedAt           *)
    look,    (* progress of each lookup                                        *)
    faults

vars == <<now, rows, disk, create, look, faults>>

Statuses == {"active", "expired", "orphaned"}
Row == [owner: Creators, started: 0..MaxTime, status: Statuses]
Ids == DOMAIN rows
NoId == 0

(* Answers of a lookup: the session, 404 or 410 or 500.  began: the latest
   start of a session the user had been told of when the lookup began; lasting:
   the sessions that have been active and unexpired since (ghosts). *)
Idle == [pc |-> "idle", id |-> NoId, status |-> "none", began |-> 0, lasting |-> {}]

Expires(id) == rows[id].started + TTL
Usable(id) == rows[id].status = "active" /\ Expires(id) > now

Max0(S) == IF S = {} THEN 0 ELSE CHOOSE m \in S : \A n \in S : n <= m

Init ==
    /\ now = 0 /\ rows = <<>> /\ disk = {}
    /\ create = [c \in Creators |-> [pc |-> "idle", started |-> 0]]
    /\ look = [l \in Lookups |-> Idle]
    /\ faults = 0

Fault == faults < MaxFaults /\ faults' = faults + 1
-----------------------------------------------------------------------------
(* CreatePracticeSession *)

CreateGoes(c, pc, started) == create' = [create EXCEPT ![c] = [pc |-> pc, started |-> started]]

(* A mutant: the scenario is looked up after the workspace is made. *)
RejectLate(c) ==
    /\ create[c].pc = "idle"
    /\ CreateGoes(c, "failed", 0) /\ disk' = disk \cup {c}
    /\ UNCHANGED <<now, rows, look, faults>>

(* The scenario or its template is unknown. *)
Reject(c) ==
    /\ create[c].pc = "idle"
    /\ CreateGoes(c, "failed", 0)
    /\ UNCHANGED <<now, rows, disk, look, faults>>

(* The runner answers, and the start is stamped. *)
MakeWorkspace(c) ==
    /\ create[c].pc = "idle"
    /\ disk' = disk \cup {c}
    /\ CreateGoes(c, "insert", now)
    /\ UNCHANGED <<now, rows, look, faults>>

MakeWorkspaceFails(c) ==
    /\ create[c].pc = "idle"
    /\ Fault
    /\ disk' \in {disk, disk \cup {c}}
    /\ CreateGoes(c, "failed", 0)
    /\ UNCHANGED <<now, rows, look>>

(* A mutant: the row is written without its status. *)
NewRowBare(c) == [owner |-> c, started |-> create[c].started, status |-> ""]

NewRow(c) == [owner |-> c, started |-> create[c].started, status |-> "active"]

Insert(c) ==
    /\ create[c].pc = "insert"
    /\ rows' = Append(rows, NewRow(c))
    /\ CreateGoes(c, "answered", create[c].started)
    /\ UNCHANGED <<now, disk, look, faults>>

(* The statement fails, its answer is lost, or the browser's request is gone. *)
InsertFails(c) ==
    /\ create[c].pc = "insert"
    /\ Fault
    /\ rows' \in {rows, Append(rows, NewRow(c))}
    /\ CreateGoes(c, "failed", create[c].started)
    /\ UNCHANGED <<now, disk, look>>
-----------------------------------------------------------------------------
(* CurrentPracticeSession *)

Told == {create[c].started : c \in {d \in Creators : create[d].pc = "answered"}}
LookGoes(l, pc, id, status) ==
    look' = [look EXCEPT ![l].pc = pc, ![l].id = id, ![l].status = status]

Begin(l) ==
    /\ look[l].pc = "idle"
    /\ look' = [look EXCEPT ![l] = [pc |-> "read", id |-> NoId, status |-> "none",
                                    began |-> Max0(Told), lasting |-> {i \in Ids : Usable(i)}]]
    /\ UNCHANGED <<now, rows, disk, create, faults>>

(* A mutant: the newest row by id only. *)
CurrentById(id) == id = Len(rows)

(* ORDER BY started_at DESC, id DESC, whatever the status. *)
Current(id) ==
    \A j \in Ids : rows[j].started < rows[id].started \/ (rows[j].started = rows[id].started /\ j <= id)

Read(l) ==
    /\ look[l].pc = "read"
    /\ \/ rows = <<>> /\ LookGoes(l, "missing", NoId, "none") /\ UNCHANGED faults
       \/ \E id \in Ids : Current(id) /\ LookGoes(l, "check", id, rows[id].status) /\ UNCHANGED faults
       \/ Fault /\ LookGoes(l, "error", NoId, "none")
    /\ UNCHANGED <<now, rows, disk, create>>

(* ensureSessionAvailable, on the copy. *)
Check(l) ==
    /\ look[l].pc = "check"
    /\ LookGoes(l, CASE look[l].status = "expired" -> "missing"
                     [] look[l].status = "orphaned" -> "gone"
                     [] OTHER -> IF Expires(look[l].id) > now THEN "found" ELSE "expire",
                look[l].id, look[l].status)
    /\ UNCHANGED <<now, rows, disk, create, faults>>

(* transitionSession: the update overwrites the row, and may fail. *)
Expire(l) ==
    /\ look[l].pc = "expire"
    /\ \/ /\ rows' = [rows EXCEPT ![look[l].id].status = "expired"]
          /\ LookGoes(l, "missing", look[l].id, "expired")
          /\ UNCHANGED faults
       \/ /\ Fault
          /\ rows' \in {rows, [rows EXCEPT ![look[l].id].status = "expired"]}
          /\ LookGoes(l, "error", look[l].id, look[l].status)
    /\ UNCHANGED <<now, disk, create>>
-----------------------------------------------------------------------------
(* The rest of the API *)

(* The lookups, without the sessions that stop being usable with these rows
   at this time. *)
Lasting(table, time) ==
    look' = [l \in Lookups |-> [look[l] EXCEPT !.lasting =
        {i \in @ : table[i].status = "active" /\ table[i].started + TTL > time}]]

Sweep ==
    /\ \E id \in Ids : rows[id].status = "active" /\ Expires(id) <= now
    /\ rows' = [id \in Ids |-> IF rows[id].status = "active" /\ Expires(id) <= now
                               THEN [rows[id] EXCEPT !.status = "expired"] ELSE rows[id]]
    /\ Lasting(rows', now)
    /\ UNCHANGED <<now, disk, create, faults>>

(* Another request has found the workspace missing. *)
Orphan(id) ==
    /\ rows[id].status = "active"
    /\ rows' = [rows EXCEPT ![id].status = "orphaned"]
    /\ Lasting(rows', now)
    /\ UNCHANGED <<now, disk, create, faults>>

Tick ==
    /\ now < MaxTime
    /\ now' = now + 1
    /\ Lasting(rows, now')
    /\ UNCHANGED <<rows, disk, create, faults>>

Next ==
    \/ \E c \in Creators : Reject(c) \/ MakeWorkspace(c) \/ MakeWorkspaceFails(c) \/ Insert(c) \/ InsertFails(c)
    \/ \E l \in Lookups : Begin(l) \/ Read(l) \/ Check(l) \/ Expire(l)
    \/ Sweep \/ Tick
    \/ \E id \in Ids : Orphan(id)

Spec == Init /\ [][Next]_vars
-----------------------------------------------------------------------------
(* Properties *)

TypeOK ==
    /\ now \in 0..MaxTime /\ rows \in Seq(Row) /\ disk \subseteq Creators
    /\ \A c \in Creators : create[c] \in [pc : {"idle", "insert", "answered", "failed"}, started : 0..MaxTime]
    /\ \A l \in Lookups :
        /\ look[l].pc \in {"idle", "read", "check", "expire", "found", "missing", "gone", "error"}
        /\ look[l].id \in Ids \cup {NoId} /\ look[l].status \in Statuses \cup {"none"}
    /\ faults \in 0..MaxFaults

(* A lookup never returns a session older than one the user had been told of
   before, in whatever order the inserts arrived; nor does it return nothing. *)
NeverOlder ==
    \A l \in Lookups :
        /\ look[l].pc = "found" => rows[look[l].id].started >= look[l].began
        /\ look[l].pc = "missing" /\ look[l].id = NoId => look[l].began = 0

(* Every workspace that will never get a session is paid for by a fault: a
   request that is merely rejected leaves none behind. *)
Abandoned ==
    {c \in disk : create[c].pc = "failed" /\ \A id \in Ids : rows[id].owner # c}
AbandonedPaidByFaults == Cardinality(Abandoned) <= faults

(* A lookup that returns nothing, although a session was usable all along, has met
   a session that has ended and that is newer. *)
OnlyNewerHides ==
    \A l \in Lookups : look[l].pc \in {"missing", "gone"} =>
        \A id \in look[l].lasting :
            /\ look[l].id # NoId /\ rows[look[l].id].status # "active"
            /\ rows[look[l].id].started >= rows[id].started

(* Not kept by the code (a newer row that is not active hides it): CurrentPracticeSession
   returns the most recent active session, and finds one that was active all along. *)
FindsActive ==
    \A l \in Lookups : look[l].pc \in {"missing", "gone"} => look[l].lasting = {}
=============================================================================
