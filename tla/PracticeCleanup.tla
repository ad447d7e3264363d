--------------------------- MODULE PracticeCleanup ---------------------------
(***************************************************************************)
(* The API's practice sessions and the clean-up of their workspaces: HTTP  *)
(* requests, the expiry loop and the clean-up loop of one API process,     *)
(* interleaved at every store statement and every runner call, over a      *)
(* store and a runner that outlive it.                                     *)
(*                                                                         *)
(* A store statement may fail with or without having been committed, a     *)
(* runner call may fail with or without its effect, the API process may    *)
(* crash and the runner may restart; faults counts these and MaxFaults     *)
(* bounds them.                                                            *)
(***************************************************************************)
EXTENDS PracticeStore

CONSTANTS
    Requests,      (* slots for concurrently served HTTP requests              *)
    NoSession,     (* "no session", distinct from every session id             *)
    FaultKinds,    (* the faults that may occur                                *)
    MaxFaults,     (* how many of them occur at most                           *)
    PromptWrites   (* TRUE: one handler's successive store writes fit in a tick *)

ASSUME CleanupAssumption ==
    /\ NoSession \notin Sessions
    /\ FaultKinds \subseteq {"store", "runner", "crash", "restart"}
    /\ MaxFaults \in Nat
    /\ PromptWrites \in BOOLEAN

VARIABLES
    sess,     (* practice_sessions rows                                        *)
    job,      (* workspace_cleanup_jobs rows, keyed by practice_session_id      *)
    ws,       (* the session's workspace directory on the runner               *)
    armed,    (* sessions with a delayed delete pending in the runner's memory *)
    fuse,     (* time left of each delayed delete                              *)
    req,      (* progress of each HTTP request                                 *)
    expiry,   (* progress of StartPracticeSessionExpiryLoop                    *)
    worker,   (* progress of StartWorkspaceCleanupLoop                         *)
    bell,     (* loops whose ticker has fired and whose next sweep may start    *)
    faults    (* faults so far                                                 *)

storeVars == <<sess, job>>
runnerVars == <<ws, armed, fuse>>
vars == <<sess, job, ws, armed, fuse, req, expiry, worker, bell, faults>>

RequestPC == {"idle", "store", "call", "update", "upsert", "fallback", "requeue"}
ExpiryPC == {"idle", "lookup", "upsert", "fallback"}
WorkerPC == {"idle", "delete", "mark", "recover", "list", "backfill"}
Loops == {"expiry", "worker"}
Places == {"none", "present", "deleted", "lost"}
AnyReason == Reasons \cup {"none"}

(* What a batch remembers of a row it read: the job's reason and attempt count,
   or the listed session's status and the rest of its grace. *)
Copy == [reason: AnyReason, attempts: 0 .. MaxAttempts, left: Nat]
NoCopy == [reason |-> "none", attempts |-> 0, left |-> 0]

RequestState == [pc: RequestPC, s: Sessions \cup {NoSession}, reason: AnyReason, left: Nat]
ExpiryState == [pc: ExpiryPC, swept: SUBSET Sessions, cur: Sessions \cup {NoSession}]
WorkerState == [pc: WorkerPC, todo: SUBSET Sessions, cur: Sessions \cup {NoSession},
                ok: BOOLEAN, copy: [Sessions -> Copy], age: Nat]

IdleRequest == [pc |-> "idle", s |-> NoSession, reason |-> "none", left |-> 0]
IdleExpiry == [pc |-> "idle", swept |-> {}, cur |-> NoSession]
IdleWorker == [pc |-> "idle", todo |-> {}, cur |-> NoSession, ok |-> FALSE,
               copy |-> [s \in Sessions |-> NoCopy], age |-> 0]

Init ==
    /\ sess = [s \in Sessions |-> NoRow]
    /\ job = [s \in Sessions |-> NoJob]
    /\ ws = [s \in Sessions |-> "none"]
    /\ armed = {}
    /\ fuse = [s \in Sessions |-> 0]
    /\ req = [r \in Requests |-> IdleRequest]
    /\ expiry = IdleExpiry
    /\ worker = IdleWorker
    /\ bell = Loops
    /\ faults = 0

Fault(kind) ==
    /\ kind \in FaultKinds
    /\ faults < MaxFaults
    /\ faults' = faults + 1
-----------------------------------------------------------------------------
(* The runner, as its client sees it *)

(* DELETE with no delay: a pending delayed delete is cancelled first. *)
RunnerDelete(s) ==
    /\ ws' = [ws EXCEPT ![s] = IF @ = "present" THEN "deleted" ELSE @]
    /\ armed' = armed \ {s}
    /\ UNCHANGED fuse

(* The same call failing: it never arrived, the removal itself failed, or only
   its answer was lost. *)
RunnerDeleteFails(s) ==
    \/ UNCHANGED runnerVars
    \/ armed' = armed \ {s} /\ UNCHANGED <<ws, fuse>>
    \/ RunnerDelete(s)

(* DELETE with a delay arms a timer, or replaces it, even for a missing path. *)
RunnerArm(s, left) ==
    /\ armed' = armed \cup {s}
    /\ fuse' = [fuse EXCEPT ![s] = left]
    /\ UNCHANGED ws

(* fallbackWorkspaceCleanup: errors are logged and dropped. *)
FallbackDelete(s, left) ==
    \/ left = 0 /\ RunnerDelete(s) /\ UNCHANGED faults
    \/ left > 0 /\ RunnerArm(s, left) /\ UNCHANGED faults
    \/ left = 0 /\ RunnerDeleteFails(s) /\ Fault("runner")
    \/ left > 0 /\ UNCHANGED runnerVars /\ Fault("runner")

RunnerTimerFires(s) ==
    /\ s \in armed
    /\ fuse[s] = 0
    /\ armed' = armed \ {s}
    /\ \/ ws' = [ws EXCEPT ![s] = IF @ = "present" THEN "deleted" ELSE @] /\ UNCHANGED faults
       \/ UNCHANGED ws /\ Fault("runner")
    /\ UNCHANGED <<storeVars, fuse, req, expiry, worker, bell>>

RunnerRestart ==
    /\ armed # {}
    /\ Fault("restart")
    /\ armed' = {}
    /\ UNCHANGED <<storeVars, ws, fuse, req, expiry, worker, bell>>

(* The directory disappears for a reason outside the system. *)
LoseWorkspace(s) ==
    /\ ws[s] = "present"
    /\ ws' = [ws EXCEPT ![s] = "lost"]
    /\ UNCHANGED <<storeVars, armed, fuse, req, expiry, worker, faults, bell>>
-----------------------------------------------------------------------------
(* HTTP requests *)

Request(r, pc, s, reason, left) ==
    req' = [req EXCEPT ![r] = [pc |-> pc, s |-> s, reason |-> reason, left |-> left]]
Reply(r) == req' = [req EXCEPT ![r] = IdleRequest]

(* Mutant: the row is inserted although the runner failed to make a workspace. *)
CreateWorkspaceOnward(r, s) ==
    /\ req[r].pc = "idle"
    /\ ws[s] = "none"
    /\ \/ ws' = [ws EXCEPT ![s] = "present"] /\ UNCHANGED faults
       \/ UNCHANGED ws /\ Fault("runner")
    /\ Request(r, "store", s, "none", 0)
    /\ UNCHANGED <<storeVars, armed, fuse, expiry, worker, bell>>

(* CreatePracticeSession: the runner makes a fresh workspace, then the row is
   inserted; when the insert fails nobody deletes the workspace. *)
CreateWorkspace(r, s) ==
    /\ req[r].pc = "idle"
    /\ ws[s] = "none"
    /\ ws' = [ws EXCEPT ![s] = "present"]
    /\ \/ Request(r, "store", s, "none", 0) /\ UNCHANGED faults
       \/ Fault("runner") /\ UNCHANGED req
    /\ UNCHANGED <<storeVars, armed, fuse, expiry, worker, bell>>

StoreSession(r) ==
    /\ req[r].pc = "store"
    /\ \/ sess' = [sess EXCEPT ![req[r].s] = Created] /\ UNCHANGED faults
       \/ /\ Fault("store")
          /\ \/ sess' = [sess EXCEPT ![req[r].s] = Created]
             \/ UNCHANGED sess
    /\ Reply(r)
    /\ UNCHANGED <<job, runnerVars, expiry, worker, bell>>

(* PracticeSessionByID or CurrentPracticeSession, then ensureSessionAvailable:
   only an active copy gets any further, and an overdue one is to be expired. *)
ReadSession(r, s) ==
    /\ req[r].pc = "idle"
    /\ sess[s].status = "active"
    /\ IF Expirable(sess[s]) THEN Request(r, "update", s, "expired", 0)
                             ELSE Request(r, "call", s, "none", 0)
    /\ UNCHANGED <<storeVars, runnerVars, expiry, worker, faults, bell>>

(* Mutant: the answer is recorded as activity by writing the copy back. *)
RunnerAnswersTouching(r) ==
    /\ req[r].pc = "call"
    /\ sess' = [sess EXCEPT ![req[r].s].status = "active"]
    /\ Reply(r)
    /\ UNCHANGED <<job, runnerVars, expiry, worker, faults, bell>>

(* ResetWorkspace, GetRepoState or ConnectTerminal answers, or fails for any
   reason but a missing workspace. *)
RunnerAnswers(r) ==
    /\ req[r].pc = "call"
    /\ Reply(r)
    /\ UNCHANGED <<storeVars, runnerVars, expiry, worker, faults, bell>>

RunnerSaysNotFound(r) ==
    /\ req[r].pc = "call"
    /\ ws[req[r].s] # "present"
    /\ Request(r, "update", req[r].s, "orphaned", 0)
    /\ UNCHANGED <<storeVars, runnerVars, expiry, worker, faults, bell>>

(* transitionSession writes the copy back whatever the row has become; the row
   then no longer carries the timestamps the expiry sweep is looking for. *)
WriteTransition(s, reason) ==
    /\ sess' = [sess EXCEPT ![s] = Transitioned(@, reason)]
    /\ expiry' = IF expiry.pc = "lookup"
                 THEN [expiry EXCEPT !.swept = @ \ {s}] ELSE expiry

TransitionSession(r) ==
    /\ req[r].pc = "update"
    /\ WriteTransition(req[r].s, req[r].reason)
    /\ Request(r, "upsert", req[r].s, req[r].reason, 0)
    /\ UNCHANGED <<job, runnerVars, worker, faults, bell>>

(* Mutant: the clean-up is scheduled although the transition failed. *)
TransitionFailsOnward(r) ==
    /\ req[r].pc = "update"
    /\ Fault("store")
    /\ \/ WriteTransition(req[r].s, req[r].reason)
       \/ UNCHANGED <<sess, expiry>>
    /\ Request(r, "upsert", req[r].s, req[r].reason, 0)
    /\ UNCHANGED <<job, runnerVars, worker, bell>>

TransitionFails(r) ==
    /\ req[r].pc = "update"
    /\ Fault("store")
    /\ \/ WriteTransition(req[r].s, req[r].reason)
       \/ UNCHANGED <<sess, expiry>>
    /\ Reply(r)
    /\ UNCHANGED <<job, runnerVars, worker, bell>>

(* upsertWorkspaceCleanupJob after ensureSessionAvailable or orphanSession *)
Schedule(reason) == IF reason = "orphaned" THEN Grace ELSE 0

Upsert(s, reason, due) == job' = [job EXCEPT ![s] = Upserted(@, reason, due)]

UpsertJob(r) ==
    /\ req[r].pc = "upsert"
    /\ Upsert(req[r].s, req[r].reason, Schedule(req[r].reason))
    /\ Reply(r)
    /\ UNCHANGED <<sess, runnerVars, expiry, worker, faults, bell>>

UpsertFails(r) ==
    /\ req[r].pc = "upsert"
    /\ Fault("store")
    /\ \/ Upsert(req[r].s, req[r].reason, Schedule(req[r].reason))
       \/ UNCHANGED job
    /\ Request(r, "fallback", req[r].s, req[r].reason, Schedule(req[r].reason))
    /\ UNCHANGED <<sess, runnerVars, expiry, worker, bell>>

RequestFallback(r) ==
    /\ req[r].pc = "fallback"
    /\ FallbackDelete(req[r].s, req[r].left)
    /\ Reply(r)
    /\ UNCHANGED <<storeVars, expiry, worker, bell>>

(* RequeueExhaustedWorkspaceCleanupJob: check, then an unconditional update. *)
ReadExhaustedJob(r, s) ==
    /\ req[r].pc = "idle"
    /\ ListedExhausted(job[s])
    /\ Request(r, "requeue", s, "none", 0)
    /\ UNCHANGED <<storeVars, runnerVars, expiry, worker, faults, bell>>

RequeueJob(r) ==
    /\ req[r].pc = "requeue"
    /\ \/ job' = [job EXCEPT ![req[r].s] = Requeued(@)] /\ UNCHANGED faults
       \/ /\ Fault("store")
          /\ \/ job' = [job EXCEPT ![req[r].s] = Requeued(@)]
             \/ UNCHANGED job
    /\ Reply(r)
    /\ UNCHANGED <<sess, runnerVars, expiry, worker, bell>>
-----------------------------------------------------------------------------
(* StartPracticeSessionExpiryLoop: ExpireStalePracticeSessions per sweep *)

ExpireRows(S) ==
    sess' = [s \in Sessions |->
                IF s \in S THEN Transitioned(sess[s], "expired") ELSE sess[s]]

ExpireSweep ==
    LET stale == {s \in Sessions : Expirable(sess[s])} IN
    /\ expiry.pc = "idle"
    /\ "expiry" \in bell
    /\ bell' = bell \ {"expiry"}
    /\ \/ /\ ExpireRows(stale)
          /\ expiry' = [IdleExpiry EXCEPT !.pc = "lookup", !.swept = stale]
          /\ UNCHANGED faults
       \/ /\ Fault("store")
          /\ ExpireRows(stale) \/ UNCHANGED sess
          /\ UNCHANGED expiry
    /\ UNCHANGED <<job, runnerVars, req, worker>>

(* MySQL selects the rows that still carry this sweep's ended_at; the in-memory
   store returns them from the same critical section. *)
ExpireLookup ==
    /\ expiry.pc = "lookup"
    /\ \/ /\ expiry' = IF expiry.swept = {} THEN IdleExpiry
                       ELSE [expiry EXCEPT !.pc = "upsert"]
          /\ UNCHANGED faults
       \/ Fault("store") /\ expiry' = IdleExpiry
    /\ UNCHANGED <<storeVars, runnerVars, req, worker, bell>>

ExpiryNext(s) ==
    IF expiry.swept = {s} THEN IdleExpiry
    ELSE [expiry EXCEPT !.pc = "upsert", !.swept = @ \ {s}, !.cur = NoSession]

ExpireUpsert(s) ==
    /\ expiry.pc = "upsert"
    /\ s \in expiry.swept
    /\ \/ /\ Upsert(s, "expired", 0)
          /\ expiry' = ExpiryNext(s)
          /\ UNCHANGED faults
       \/ /\ Fault("store")
          /\ Upsert(s, "expired", 0) \/ UNCHANGED job
          /\ expiry' = [expiry EXCEPT !.pc = "fallback", !.cur = s]
    /\ UNCHANGED <<sess, runnerVars, req, worker, bell>>

ExpireFallback ==
    /\ expiry.pc = "fallback"
    /\ FallbackDelete(expiry.cur, 0)
    /\ expiry' = ExpiryNext(expiry.cur)
    /\ UNCHANGED <<storeVars, req, worker, bell>>
-----------------------------------------------------------------------------
(* StartWorkspaceCleanupLoop: RunWorkspaceCleanupDueJobs, then
   ReconcileWorkspaceCleanupJobs, per sweep *)

Listing == [IdleWorker EXCEPT !.pc = "list"]

ClaimRows(batch) ==
    job' = [s \in Sessions |-> IF s \in batch THEN Claimed(job[s]) ELSE job[s]]

(* A failed claim, committed or not, hands out no job; the listing still runs. *)
ClaimDueJobs ==
    /\ worker.pc = "idle"
    /\ "worker" \in bell
    /\ bell' = bell \ {"worker"}
    /\ \E batch \in Batches({s \in Sessions : Claimable(job[s])}) :
        \/ /\ ClaimRows(batch)
           /\ worker' =
                IF batch = {} THEN Listing
                ELSE [IdleWorker EXCEPT
                        !.pc = "delete", !.todo = batch,
                        !.copy = [s \in Sessions |->
                            IF s \in batch
                            THEN [reason |-> job[s].reason,
                                  attempts |-> job[s].attempts + 1, left |-> 0]
                            ELSE NoCopy]]
           /\ UNCHANGED faults
        \/ /\ batch # {}
           /\ Fault("store")
           /\ ClaimRows(batch) \/ UNCHANGED job
           /\ worker' = Listing
    /\ UNCHANGED <<sess, runnerVars, req, expiry>>

(* DeleteWorkspace returns nil or ErrWorkspaceNotFound *)
DeleteSucceeds(s) ==
    /\ worker.pc = "delete"
    /\ s \in worker.todo
    /\ RunnerDelete(s)
    /\ worker' = [worker EXCEPT !.pc = "mark", !.cur = s, !.ok = TRUE]
    /\ UNCHANGED <<storeVars, req, expiry, faults, bell>>

(* Mutant: a failed delete is taken for a missing workspace. *)
DeleteFailsSilently(s) ==
    /\ worker.pc = "delete"
    /\ s \in worker.todo
    /\ Fault("runner")
    /\ RunnerDeleteFails(s)
    /\ worker' = [worker EXCEPT !.pc = "mark", !.cur = s, !.ok = TRUE]
    /\ UNCHANGED <<storeVars, req, expiry, bell>>

DeleteFails(s) ==
    /\ worker.pc = "delete"
    /\ s \in worker.todo
    /\ Fault("runner")
    /\ RunnerDeleteFails(s)
    /\ worker' = [worker EXCEPT !.pc = "mark", !.cur = s, !.ok = FALSE]
    /\ UNCHANGED <<storeVars, req, expiry, bell>>

(* scheduled_at is counted from the sweep's start, age ticks ago; it is "now" on
   success (for a recovery) and when the claimed copy is out of attempts. *)
NextRun ==
    LET attempts == worker.copy[worker.cur].attempts IN
    IF worker.ok \/ Exhausted(attempts) THEN 0
    ELSE Before(RetryDelay(attempts), worker.age)

Marked(row) == IF worker.ok THEN MarkedSucceeded(row) ELSE MarkedFailed(row, NextRun)

WorkerNext ==
    IF worker.todo = {worker.cur} THEN Listing
    ELSE [worker EXCEPT !.pc = "delete", !.todo = @ \ {worker.cur}, !.cur = NoSession,
                        !.ok = FALSE, !.copy[worker.cur] = NoCopy]

(* The update is by job id: whatever the row has become is overwritten. *)
MarkJob ==
    /\ worker.pc = "mark"
    /\ job' = [job EXCEPT ![worker.cur] = Marked(@)]
    /\ worker' = WorkerNext
    /\ UNCHANGED <<sess, runnerVars, req, expiry, faults, bell>>

MarkFails ==
    /\ worker.pc = "mark"
    /\ Fault("store")
    /\ \/ job' = [job EXCEPT ![worker.cur] = Marked(@)]
       \/ UNCHANGED job
    /\ worker' = [worker EXCEPT !.pc = "recover"]
    /\ UNCHANGED <<sess, runnerVars, req, expiry, bell>>

(* recoverClaimedWorkspaceCleanupJob re-enqueues through the upsert. *)
RecoverJob ==
    /\ worker.pc = "recover"
    /\ \/ Upsert(worker.cur, worker.copy[worker.cur].reason, NextRun) /\ UNCHANGED faults
       \/ /\ Fault("store")
          /\ \/ Upsert(worker.cur, worker.copy[worker.cur].reason, NextRun)
             \/ UNCHANGED job
    /\ worker' = WorkerNext
    /\ UNCHANGED <<sess, runnerVars, req, expiry, bell>>

ListMissing ==
    /\ worker.pc = "list"
    /\ \E batch \in Batches({s \in Sessions : MissingJob(sess[s], job[s])}) :
        \/ /\ worker' =
                IF batch = {} THEN IdleWorker
                ELSE [IdleWorker EXCEPT
                        !.pc = "backfill", !.todo = batch,
                        !.copy = [s \in Sessions |->
                            IF s \in batch
                            THEN [reason |-> sess[s].status, attempts |-> 0,
                                  left |-> IF sess[s].status = "orphaned"
                                           THEN sess[s].grace ELSE 0]
                            ELSE NoCopy]]
           /\ UNCHANGED faults
        \/ batch # {} /\ Fault("store") /\ worker' = IdleWorker
    /\ UNCHANGED <<storeVars, runnerVars, req, expiry, bell>>

(* The first failing upsert abandons the rest of the listing. *)
Backfill(s) ==
    /\ worker.pc = "backfill"
    /\ s \in worker.todo
    /\ \/ /\ Upsert(s, worker.copy[s].reason, worker.copy[s].left)
          /\ worker' = IF worker.todo = {s} THEN IdleWorker
                       ELSE [worker EXCEPT !.todo = @ \ {s}, !.copy[s] = NoCopy]
          /\ UNCHANGED faults
       \/ /\ Fault("store")
          /\ Upsert(s, worker.copy[s].reason, worker.copy[s].left) \/ UNCHANGED job
          /\ worker' = IdleWorker
    /\ UNCHANGED <<sess, runnerVars, req, expiry, bell>>
-----------------------------------------------------------------------------
(* The API process dies and is started again; rows and workspaces stay, and both
   loops sweep at once. *)
ApiCrash ==
    /\ Fault("crash")
    /\ req' = [r \in Requests |-> IdleRequest]
    /\ expiry' = IdleExpiry
    /\ worker' = IdleWorker
    /\ bell' = Loops
    /\ UNCHANGED <<storeVars, runnerVars>>

WritingRequest(r) == req[r].pc \in {"store", "update", "upsert"}
Writing ==
    \/ \E r \in Requests : WritingRequest(r)
    \/ expiry.pc \in {"lookup", "upsert"}

Older(w) ==
    IF /\ w.pc \in {"delete", "mark", "recover"}
       /\ w.age < Retry1 \/ w.age < Retry2 \/ w.age < Retry3
    THEN w.age + 1 ELSE w.age

(* One sweep interval.  A ticker channel holds one firing, so a loop that is still
   sweeping finds at most one more waiting. *)
Tick ==
    /\ PromptWrites => ~ Writing
    /\ sess' = [s \in Sessions |->
                    [sess[s] EXCEPT !.ttl = Before(@, 1), !.grace = Before(@, 1)]]
    /\ job' = [s \in Sessions |->
                    [job[s] EXCEPT !.due = Before(@, 1), !.lease = Before(@, 1)]]
    /\ fuse' = [s \in Sessions |-> Before(fuse[s], 1)]
    /\ req' = [r \in Requests |-> [req[r] EXCEPT !.left = Before(@, 1)]]
    /\ worker' = [worker EXCEPT
                    !.age = Older(worker),
                    !.copy = [s \in Sessions |->
                                [worker.copy[s] EXCEPT !.left = Before(@, 1)]]]
    /\ bell' = Loops
    /\ UNCHANGED <<ws, armed, expiry, faults>>
-----------------------------------------------------------------------------
RequestStep(r) ==
    \/ \E s \in Sessions : \/ CreateWorkspace(r, s)
                           \/ ReadSession(r, s)
                           \/ ReadExhaustedJob(r, s)
    \/ StoreSession(r)
    \/ RunnerAnswers(r)
    \/ RunnerSaysNotFound(r)
    \/ TransitionSession(r)
    \/ TransitionFails(r)
    \/ UpsertJob(r)
    \/ UpsertFails(r)
    \/ RequestFallback(r)
    \/ RequeueJob(r)

RequestWrite(r) == WritingRequest(r) /\ RequestStep(r)

ExpiryStep ==
    \/ ExpireSweep
    \/ ExpireLookup
    \/ \E s \in Sessions : ExpireUpsert(s)
    \/ ExpireFallback

WorkerStep ==
    \/ ClaimDueJobs
    \/ \E s \in Sessions : DeleteSucceeds(s) \/ DeleteFails(s) \/ Backfill(s)
    \/ MarkJob
    \/ MarkFails
    \/ RecoverJob
    \/ ListMissing

RunnerStep ==
    \/ \E s \in Sessions : RunnerTimerFires(s) \/ LoseWorkspace(s)
    \/ RunnerRestart

Next ==
    \/ \E r \in Requests : RequestStep(r)
    \/ ExpiryStep
    \/ WorkerStep
    \/ RunnerStep
    \/ ApiCrash
    \/ Tick

Spec == Init /\ [][Next]_vars

(* Both loops run for ever, a handler that has started writing goes on, and time
   passes.  Nothing obliges a request to arrive, the runner to answer a request,
   an operator to requeue, or a fault to happen. *)
FairSpec ==
    /\ Spec
    /\ WF_vars(ExpiryStep)
    /\ WF_vars(WorkerStep)
    /\ \A r \in Requests : WF_vars(RequestWrite(r))
    /\ WF_vars(Tick)
-----------------------------------------------------------------------------
(* Every variable keeps its shape, in particular attempt_count never exceeds the
   maximum although claiming increments it and the upsert keeps it. *)
TypeOK ==
    /\ sess \in [Sessions -> Session]
    /\ job \in [Sessions -> Job]
    /\ ws \in [Sessions -> Places]
    /\ armed \subseteq Sessions
    /\ fuse \in [Sessions -> Nat]
    /\ req \in [Requests -> RequestState]
    /\ expiry \in ExpiryState
    /\ worker \in WorkerState
    /\ bell \subseteq Loops
    /\ faults \in 0 .. MaxFaults

Gone(s) == ws[s] \in {"deleted", "lost"}

(* No clean-up path (job, fallback delete, delayed delete) ever removes the
   workspace of a session that has not ended, whatever stale copies are written
   back and whatever fails. *)
NoLiveWorkspaceDeleted ==
    \A s \in Sessions : ws[s] = "deleted" => Ended(sess[s])

(* A job recorded as succeeded has no workspace left to delete, even when the
   answer of the delete or of the status update was lost on the way. *)
SucceededMeansGone ==
    \A s \in Sessions : job[s].status = "succeeded" => Gone(s)

(* A session that ended stays ended: a request that read it while it was active
   never revives it. *)
EndedIsFinal ==
    [][\A s \in Sessions : Ended(sess[s]) => Ended(sess'[s])]_vars

Held(s) == s \in worker.todo /\ worker.pc \in {"delete", "mark", "recover"}

(* The workspace of an ended session that still exists is in somebody's hands:
   the missing-job listing, a job with attempts left, the running sweep, or the
   operator's list of exhausted jobs. *)
NoForgottenWorkspace ==
    \A s \in Sessions :
        Ended(sess[s]) /\ ws[s] = "present" =>
            \/ job[s].status = "none"
            \/ job[s].status \in {"pending", "running", "failed"}
               /\ ~ Exhausted(job[s].attempts)
            \/ Held(s)
            \/ ListedExhausted(job[s])

(* While a workspace still exists, every attempt but the current one has been
   paid for by a fault: races between handlers and sweeps waste none. *)
AttemptsPaidByFaults ==
    \A s \in Sessions : ws[s] = "present" => job[s].attempts <= faults + 1

(* The workspace of an ended session is eventually gone, unless its job ends up
   among the exhausted ones an operator is shown. *)
RemovedOrListed ==
    \A s \in Sessions :
        Ended(sess[s]) ~> Gone(s) \/ ListedExhausted(job[s])

(* The sessions and workspaces behave as WorkspaceLifecycle promises. *)
Phase(row) ==
    CASE row.status = "none"   -> "absent"
      [] row.status = "active" -> "inUse"
      [] OTHER                 -> "ended"

Lifecycle == INSTANCE WorkspaceLifecycle
    WITH phase <- [s \in Sessions |-> Phase(sess[s])], place <- ws

(* They implement its safety: a workspace is made before its session opens, and
   is deleted only after the session's one end. *)
KeepsLifecycle == Lifecycle!Spec

(* Sessions and clean-up implement the lifecycle; with fewer faults than attempts
   they also implement its liveness: whatever statement, call or process the
   faults hit, the workspace of an ended session is eventually gone. *)
ImplementsLifecycle == Lifecycle!LiveSpec
-----------------------------------------------------------------------------
(* What the design documents say, against the code *)

(* 2026-05-27-workspace-cleanup-retry-policy-design.md: pending jobs are
   claimable when scheduled_at <= now, whatever their attempt count. *)
DuePendingIsClaimable ==
    \A s \in Sessions :
        job[s].status = "pending" /\ job[s].due = 0 => Claimable(job[s])

(* The same document: exhausted failures are visible from existing job fields.
   A job that is out of attempts, that no sweep holds and whose workspace still
   exists is therefore a listed one. *)
ExhaustedIsListed ==
    \A s \in Sessions :
        Exhausted(job[s].attempts) /\ ~ Held(s) /\ ws[s] = "present"
            => ListedExhausted(job[s])

(* 2026-05-24-workspace-cleanup-jobs-design.md: a job that already succeeded
   needs no new one. *)
SucceededIsFinal ==
    [][\A s \in Sessions : job[s].status = "succeeded" => job'[s].status = "succeeded"]_vars

(* The same document: repeated transitions preserve the latest intended reason
   and schedule; once nobody is working on the session, its job's reason is its
   status. *)
LatestIntentPreserved ==
    \A s \in Sessions :
        /\ job[s].status = "pending"
        /\ \A r \in Requests : req[r].s # s
        /\ s \notin expiry.swept \cup worker.todo
        => job[s].reason = sess[s].status
=============================================================================
