---------------------------- MODULE PracticeStore ----------------------------
(***************************************************************************)
(* What one call of the practice session store does to a session row and   *)
(* to a workspace cleanup job row.  The MySQL store and the in-memory      *)
(* store agree on these rules; every operator is one statement (or one     *)
(* transaction), hence one atomic step of PracticeCleanup.                 *)
(*                                                                         *)
(* Instants are kept as the time that remains until they are reached:      *)
(*   session.ttl    until expires_at                                       *)
(*   session.grace  until ended_at + practiceSessionOrphanCleanupGrace     *)
(*   job.due        until scheduled_at                                     *)
(*   job.lease      until updated_at + WorkspaceCleanupJobLeaseTimeout,    *)
(*                  kept only while the job is running                     *)
(* so "instant <= now" reads "= 0" and no clock has to be bounded.         *)
(***************************************************************************)
EXTENDS Naturals, FiniteSets

CONSTANTS
    Sessions,       (* practice session ids; each owns one runner workspace   *)
    TTL,            (* practiceSessionTTL                     (2 hours)        *)
    Grace,          (* practiceSessionOrphanCleanupGrace      (10 minutes)     *)
    Lease,          (* WorkspaceCleanupJobLeaseTimeout        (15 minutes)     *)
    MaxAttempts,    (* WorkspaceCleanupJobMaxAttempts         (5)              *)
    Retry1,         (* delay after the first failed attempt   (1 minute)       *)
    Retry2,         (* after the second                       (5 minutes)      *)
    Retry3,         (* after every later one                  (15 minutes)     *)
    Limit           (* defaultWorkspaceCleanupSweepLimit      (20)             *)

ASSUME StoreAssumption ==
    /\ IsFiniteSet(Sessions)
    /\ TTL \in Nat /\ Grace \in Nat /\ Lease \in Nat
    /\ Retry1 \in Nat /\ Retry2 \in Nat /\ Retry3 \in Nat
    /\ MaxAttempts \in Nat \ {0}
    /\ Limit \in Nat \ {0}

Reasons == {"expired", "orphaned"}
SessionStatus == {"none", "active"} \cup Reasons
JobStatus == {"none", "pending", "running", "failed", "succeeded"}

Session == [status: SessionStatus, ttl: Nat, grace: Nat]
Job == [status: JobStatus, reason: Reasons \cup {"none"},
        due: Nat, attempts: 0 .. MaxAttempts, lease: Nat]

NoRow == [status |-> "none", ttl |-> 0, grace |-> 0]
NoJob == [status |-> "none", reason |-> "none", due |-> 0, attempts |-> 0, lease |-> 0]

Before(n, elapsed) == IF elapsed < n THEN n - elapsed ELSE 0
-----------------------------------------------------------------------------
(* Session rows *)

Created == [status |-> "active", ttl |-> TTL, grace |-> 0]

(* transitionSession stamps ended_at = now: it is only reached with an active
   copy, whose ended_at is nil, and UpdatePracticeSession overwrites the row by
   id whatever it holds by then. *)
Transitioned(row, reason) == [row EXCEPT !.status = reason, !.grace = Grace]

Expirable(row) == row.status = "active" /\ row.ttl = 0

Ended(row) == row.status \in Reasons
-----------------------------------------------------------------------------
(* Cleanup job rows, unique per session *)

(* Mutant: enqueueing counts as an attempt. *)
UpsertedCounting(job, reason, due) ==
    [job EXCEPT !.status = "pending", !.reason = reason, !.due = due, !.lease = 0,
                !.attempts = @ + 1]

(* The upsert overwrites intent and status but never attempt_count. *)
Upserted(job, reason, due) ==
    [job EXCEPT !.status = "pending", !.reason = reason, !.due = due, !.lease = 0]

Exhausted(attempts) == attempts >= MaxAttempts

(* Mutants: the attempt limit, the expired lease, the failed status forgotten. *)
ClaimableUnlimited(job) ==
    \/ job.status \in {"pending", "failed"} /\ job.due = 0
    \/ job.status = "running" /\ job.lease = 0

ClaimableOnceRunning(job) ==
    ~ Exhausted(job.attempts) /\ job.status \in {"pending", "failed"} /\ job.due = 0

ClaimableUnlessFailed(job) ==
    /\ ~ Exhausted(job.attempts)
    /\ \/ job.status = "pending" /\ job.due = 0
       \/ job.status = "running" /\ job.lease = 0

Claimable(job) ==
    /\ ~ Exhausted(job.attempts)
    /\ \/ job.status \in {"pending", "failed"} /\ job.due = 0
       \/ job.status = "running" /\ job.lease = 0

(* The rows a claim or a listing with LIMIT takes; which of the eligible rows
   come first (scheduled_at, id) is left open. *)
Batches(eligible) ==
    {b \in SUBSET eligible :
        Cardinality(b) = IF Cardinality(eligible) < Limit
                         THEN Cardinality(eligible) ELSE Limit}

Claimed(job) ==
    [job EXCEPT !.status = "running", !.attempts = @ + 1, !.lease = Lease]

MarkedSucceeded(job) == [job EXCEPT !.status = "succeeded", !.lease = 0]

MarkedFailed(job, due) ==
    [job EXCEPT !.status = "failed", !.due = due, !.lease = 0]

(* Mutant: attempt_count is not reset. *)
RequeuedAsIs(job) == [job EXCEPT !.status = "pending", !.due = 0, !.lease = 0]

Requeued(job) ==
    [job EXCEPT !.status = "pending", !.attempts = 0, !.due = 0, !.lease = 0]

(* ListPracticeSessionsMissingWorkspaceCleanupJob *)
MissingJob(row, job) == Ended(row) /\ job.status = "none"

(* ListExhaustedWorkspaceCleanupJobs: what an operator can see and requeue *)
ListedExhausted(job) == job.status = "failed" /\ Exhausted(job.attempts)

RetryDelay(attempt) ==
    CASE attempt = 1 -> Retry1
      [] attempt = 2 -> Retry2
      [] OTHER       -> Retry3
=============================================================================
