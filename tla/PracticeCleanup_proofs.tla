---------------------- MODULE PracticeCleanup_proofs ----------------------
(*************************************************************************)
(* Proofs about PracticeCleanup, for any sessions, requests, delays,     *)
(* fault bound and attempt limit: the values of its variables, which     *)
(* answer ends a session, the life cycle of a workspace (PracticeCleanup *)
(* implements WorkspaceLifecycle), and what is owed to a workspace that  *)
(* is not removed.                                                       *)
(*************************************************************************)
EXTENDS PracticeCleanup, TLAPS

(* TypeOK is inductive together with what each program counter says about the
   fields that go with it. *)
RequestOK(q) ==
    /\ q \in RequestState
    /\ q.pc # "idle" => q.s \in Sessions
    /\ q.pc \in {"update", "upsert", "fallback"} => q.reason \in Reasons

ExpiryOK(e) ==
    /\ e \in ExpiryState
    /\ e.pc = "fallback" => e.cur \in e.swept

WorkerOK(w) ==
    /\ w \in WorkerState
    /\ w.pc \in {"mark", "recover"} => w.cur \in w.todo
    /\ w.pc \in {"idle", "list"} => w.todo = {}

StoreType == sess \in [Sessions -> Session] /\ job \in [Sessions -> Job]
RunnerType == ws \in [Sessions -> Places] /\ armed \subseteq Sessions /\ fuse \in [Sessions -> Nat]
RequestType == req \in [Requests -> RequestState] /\ \A r \in Requests : RequestOK(req[r])
ExpiryType == ExpiryOK(expiry)
WorkerType == WorkerOK(worker)
FaultType == bell \subseteq Loops /\ faults \in 0 .. MaxFaults

TypeInv ==
    StoreType /\ RunnerType /\ RequestType /\ ExpiryType /\ WorkerType /\ FaultType
-----------------------------------------------------------------------------
(* Rows *)

LEMMA BeforeNat == ASSUME NEW n \in Nat, NEW e \in Nat PROVE Before(n, e) \in Nat
  BY DEF Before

LEMMA NoRowType == NoRow \in Session /\ Created \in Session
  BY StoreAssumption DEF NoRow, Created, Session, SessionStatus, Reasons

LEMMA TransitionedType ==
  ASSUME NEW row \in Session, NEW reason \in Reasons
  PROVE  Transitioned(row, reason) \in Session
  BY StoreAssumption DEF Transitioned, Session, SessionStatus

LEMMA NoJobType == NoJob \in Job
  BY StoreAssumption DEF NoJob, Job, JobStatus

LEMMA UpsertedType ==
  ASSUME NEW row \in Job, NEW reason \in AnyReason, NEW due \in Nat
  PROVE  Upserted(row, reason, due) \in Job
  BY DEF Upserted, Job, JobStatus, AnyReason

LEMMA AttemptLimits == MaxAttempts \in Nat /\ 0 \in 0 .. MaxAttempts /\ Lease \in Nat
  BY StoreAssumption

LEMMA MarkedType ==
  ASSUME NEW row \in Job, NEW due \in Nat
  PROVE  /\ MarkedSucceeded(row) \in Job
         /\ MarkedFailed(row, due) \in Job
         /\ Requeued(row) \in Job
<1>1. MarkedSucceeded(row) \in Job
  BY DEF MarkedSucceeded, Job, JobStatus
<1>2. MarkedFailed(row, due) \in Job
  BY DEF MarkedFailed, Job, JobStatus
<1>3. Requeued(row) \in Job
  BY AttemptLimits DEF Requeued, Job, JobStatus
<1>4. QED
  BY <1>1, <1>2, <1>3

(* Claiming leaves attempt_count within the maximum. *)
LEMMA ClaimedType ==
  ASSUME NEW row \in Job, Claimable(row)
  PROVE  Claimed(row) \in Job /\ row.attempts + 1 \in 0 .. MaxAttempts
<1>1. row.attempts \in 0 .. MaxAttempts
  BY DEF Job
<1>2. row.attempts + 1 \in 0 .. MaxAttempts
  BY <1>1, AttemptLimits DEF Claimable, Exhausted
<1>3. Claimed(row) \in Job
  BY <1>2, AttemptLimits DEF Claimed, Job, JobStatus
<1>4. QED
  BY <1>2, <1>3

LEMMA RetryDelayNat == ASSUME NEW n \in Nat PROVE RetryDelay(n) \in Nat
  BY StoreAssumption DEF RetryDelay
-----------------------------------------------------------------------------
(* Building blocks of the actions *)

LEMMA FaultCounts ==
  ASSUME faults \in 0 .. MaxFaults, NEW kind, Fault(kind)
  PROVE  faults' \in 0 .. MaxFaults
  BY CleanupAssumption DEF Fault

LEMMA IdleTypes == RequestOK(IdleRequest) /\ ExpiryOK(IdleExpiry) /\ NoCopy \in Copy
  BY StoreAssumption
  DEF RequestOK, ExpiryOK, IdleRequest, IdleExpiry, RequestState, ExpiryState, RequestPC,
      ExpiryPC, AnyReason, NoCopy, Copy

LEMMA IdleWorkerType == WorkerOK(IdleWorker) /\ WorkerOK(Listing)
  BY IdleTypes DEF WorkerOK, IdleWorker, Listing, WorkerState, WorkerPC

LEMMA ReplyType ==
  ASSUME RequestType, NEW r \in Requests, Reply(r)
  PROVE  RequestType'
  BY IdleTypes DEF RequestType, Reply, RequestOK

LEMMA RequestGoesTo ==
  ASSUME RequestType, NEW r \in Requests, NEW pc \in RequestPC, NEW s \in Sessions,
         NEW reason \in AnyReason, NEW left \in Nat, Request(r, pc, s, reason, left),
         pc \in {"update", "upsert", "fallback"} => reason \in Reasons
  PROVE  RequestType'
<1> DEFINE q == [pc |-> pc, s |-> s, reason |-> reason, left |-> left]
<1>1. RequestOK(q)
  BY DEF RequestOK, RequestState
<1>2. q \in RequestState
  BY <1>1 DEF RequestOK
<1>3. req' = [req EXCEPT ![r] = q]
  BY DEF Request
<1> HIDE DEF q
<1>4. QED
  BY <1>1, <1>2, <1>3 DEF RequestType

LEMMA UpsertType ==
  ASSUME StoreType, NEW s \in Sessions, NEW reason \in AnyReason, NEW due \in Nat,
         Upsert(s, reason, due)
  PROVE  job' \in [Sessions -> Job]
<1>1. job[s] \in Job
  BY DEF StoreType
<1>2. Upserted(job[s], reason, due) \in Job
  BY <1>1, UpsertedType
<1>3. QED
  BY <1>2 DEF StoreType, Upsert

LEMMA ScheduleNat == ASSUME NEW reason PROVE Schedule(reason) \in Nat
  BY StoreAssumption DEF Schedule

LEMMA RunnerDeleteType ==
  ASSUME RunnerType, NEW s \in Sessions, RunnerDelete(s) \/ RunnerDeleteFails(s)
  PROVE  RunnerType'
  BY DEF RunnerType, RunnerDelete, RunnerDeleteFails, runnerVars, Places

LEMMA FallbackType ==
  ASSUME RunnerType, FaultType, NEW s \in Sessions, NEW left \in Nat, FallbackDelete(s, left)
  PROVE  RunnerType' /\ faults' \in 0 .. MaxFaults
<1>1. RunnerType'
  <2>1. CASE RunnerDelete(s) \/ RunnerDeleteFails(s)
    BY <2>1, RunnerDeleteType
  <2>2. CASE RunnerArm(s, left)
    BY <2>2 DEF RunnerArm, RunnerType
  <2>3. CASE UNCHANGED runnerVars
    BY <2>3 DEF runnerVars, RunnerType
  <2>4. QED
    BY <2>1, <2>2, <2>3 DEF FallbackDelete
<1>2. faults' \in 0 .. MaxFaults
  BY FaultCounts DEF FallbackDelete, FaultType
<1>3. QED
  BY <1>1, <1>2

LEMMA ExpiryNextType ==
  ASSUME ExpiryType, NEW s \in expiry.swept
  PROVE  ExpiryOK(ExpiryNext(s))
  BY IdleTypes DEF ExpiryType, ExpiryOK, ExpiryNext, ExpiryState, ExpiryPC

LEMMA NextRunNat ==
  ASSUME WorkerType, worker.pc \in {"mark", "recover"}
  PROVE  NextRun \in Nat /\ worker.cur \in Sessions /\ worker.copy[worker.cur] \in Copy
<1>1. /\ worker.cur \in Sessions
      /\ worker.age \in Nat
      /\ worker.copy[worker.cur] \in Copy
  BY DEF WorkerType, WorkerOK, WorkerState
<1>2. worker.copy[worker.cur].attempts \in Nat
  BY <1>1, StoreAssumption DEF Copy
<1>3. RetryDelay(worker.copy[worker.cur].attempts) \in Nat
  BY <1>2, RetryDelayNat
<1>4. QED
  BY <1>1, <1>3, BeforeNat DEF NextRun

LEMMA WorkerNextType ==
  ASSUME WorkerType, worker.pc \in {"mark", "recover"}
  PROVE  WorkerOK(WorkerNext)
  BY IdleTypes, IdleWorkerType DEF WorkerType, WorkerOK, WorkerNext, WorkerState, WorkerPC
-----------------------------------------------------------------------------
(* One action at a time *)

LEMMA TypeInvInit == Init => TypeInv
<1> SUFFICES ASSUME Init PROVE TypeInv
  OBVIOUS
<1>1. StoreType /\ RunnerType
  BY NoRowType, NoJobType DEF Init, StoreType, RunnerType, Places
<1>2. RequestType /\ ExpiryType /\ WorkerType
  BY IdleTypes, IdleWorkerType DEF Init, RequestType, RequestOK, ExpiryType, WorkerType
<1>3. FaultType
  BY CleanupAssumption DEF Init, FaultType
<1>4. QED
  BY <1>1, <1>2, <1>3 DEF TypeInv

LEMMA RequestStepType ==
  ASSUME TypeInv, NEW r \in Requests, RequestStep(r)
  PROVE  TypeInv'
<1> USE DEF TypeInv
<1>0. /\ req[r].pc # "idle" => req[r].s \in Sessions
      /\ req[r].pc \in {"update", "upsert", "fallback"} => req[r].reason \in Reasons
      /\ req[r].left \in Nat
  BY DEF RequestType, RequestOK, RequestState
<1>1. ASSUME NEW s \in Sessions, CreateWorkspace(r, s) PROVE TypeInv'
  <2>1. RunnerType'
    BY <1>1 DEF CreateWorkspace, RunnerType, Places
  <2>2. RequestType'
    <3>1. CASE Request(r, "store", s, "none", 0)
      BY <3>1, RequestGoesTo DEF RequestPC, AnyReason
    <3>2. CASE UNCHANGED req
      BY <3>2 DEF RequestType
    <3>3. QED
      BY <1>1, <3>1, <3>2 DEF CreateWorkspace
  <2>3. faults' \in 0 .. MaxFaults
    BY <1>1, FaultCounts DEF CreateWorkspace, FaultType
  <2>4. QED
    BY <1>1, <2>1, <2>2, <2>3
    DEF CreateWorkspace, StoreType, storeVars, ExpiryType, WorkerType, FaultType
<1>2. ASSUME NEW s \in Sessions, ReadSession(r, s) PROVE TypeInv'
  <2>1. RequestType'
    BY <1>2, RequestGoesTo DEF ReadSession, RequestPC, AnyReason, Reasons
  <2>2. QED
    BY <1>2, <2>1
    DEF ReadSession, StoreType, storeVars, RunnerType, runnerVars, ExpiryType, WorkerType, FaultType
<1>3. ASSUME NEW s \in Sessions, ReadExhaustedJob(r, s) PROVE TypeInv'
  <2>1. RequestType'
    BY <1>3, RequestGoesTo DEF ReadExhaustedJob, RequestPC, AnyReason
  <2>2. QED
    BY <1>3, <2>1
    DEF ReadExhaustedJob, StoreType, storeVars, RunnerType, runnerVars, ExpiryType, WorkerType,
        FaultType
<1>4. ASSUME StoreSession(r) PROVE TypeInv'
  <2>1. sess' \in [Sessions -> Session]
    BY <1>4, NoRowType DEF StoreSession, StoreType
  <2>2. RequestType'
    BY <1>4, ReplyType DEF StoreSession
  <2>3. faults' \in 0 .. MaxFaults
    BY <1>4, FaultCounts DEF StoreSession, FaultType
  <2>4. QED
    BY <1>4, <2>1, <2>2, <2>3
    DEF StoreSession, StoreType, RunnerType, runnerVars, ExpiryType, WorkerType, FaultType
<1>5. ASSUME RunnerAnswers(r) PROVE TypeInv'
  <2>1. RequestType'
    BY <1>5, ReplyType DEF RunnerAnswers
  <2>2. QED
    BY <1>5, <2>1
    DEF RunnerAnswers, StoreType, storeVars, RunnerType, runnerVars, ExpiryType, WorkerType,
        FaultType
<1>6. ASSUME RunnerSaysNotFound(r) PROVE TypeInv'
  <2>1. RequestType'
    BY <1>6, <1>0, RequestGoesTo DEF RunnerSaysNotFound, RequestPC, AnyReason, Reasons
  <2>2. QED
    BY <1>6, <2>1
    DEF RunnerSaysNotFound, StoreType, storeVars, RunnerType, runnerVars, ExpiryType, WorkerType,
        FaultType
<1>7. ASSUME req[r].pc = "update", WriteTransition(req[r].s, req[r].reason)
      PROVE  sess' \in [Sessions -> Session] /\ ExpiryType'
  <2>1. sess' \in [Sessions -> Session]
    BY <1>0, <1>7, TransitionedType DEF WriteTransition, StoreType
  <2>2. ExpiryType'
    BY <1>7 DEF WriteTransition, ExpiryType, ExpiryOK, ExpiryState
  <2>3. QED
    BY <2>1, <2>2
<1>8. ASSUME TransitionSession(r) PROVE TypeInv'
  <2>1. RequestType'
    BY <1>0, <1>8, RequestGoesTo DEF TransitionSession, RequestPC, AnyReason
  <2>2. QED
    BY <1>7, <1>8, <2>1
    DEF TransitionSession, StoreType, RunnerType, runnerVars, WorkerType, FaultType
<1>9. ASSUME TransitionFails(r) PROVE TypeInv'
  <2>1. RequestType'
    BY <1>9, ReplyType DEF TransitionFails
  <2>2. sess' \in [Sessions -> Session] /\ ExpiryType'
    BY <1>7, <1>9 DEF TransitionFails, StoreType, ExpiryType
  <2>3. faults' \in 0 .. MaxFaults
    BY <1>9, FaultCounts DEF TransitionFails, FaultType
  <2>4. QED
    BY <1>9, <2>1, <2>2, <2>3
    DEF TransitionFails, StoreType, RunnerType, runnerVars, WorkerType, FaultType
<1>10. ASSUME UpsertJob(r) PROVE TypeInv'
  <2>1. job' \in [Sessions -> Job]
    BY <1>0, <1>10, UpsertType, ScheduleNat DEF UpsertJob, AnyReason
  <2>2. RequestType'
    BY <1>10, ReplyType DEF UpsertJob
  <2>3. QED
    BY <1>10, <2>1, <2>2
    DEF UpsertJob, StoreType, RunnerType, runnerVars, ExpiryType, WorkerType, FaultType
<1>11. ASSUME UpsertFails(r) PROVE TypeInv'
  <2>1. job' \in [Sessions -> Job]
    BY <1>0, <1>11, UpsertType, ScheduleNat DEF UpsertFails, AnyReason, StoreType
  <2>2. RequestType'
    BY <1>0, <1>11, RequestGoesTo, ScheduleNat DEF UpsertFails, RequestPC, AnyReason
  <2>3. faults' \in 0 .. MaxFaults
    BY <1>11, FaultCounts DEF UpsertFails, FaultType
  <2>4. QED
    BY <1>11, <2>1, <2>2, <2>3
    DEF UpsertFails, StoreType, RunnerType, runnerVars, ExpiryType, WorkerType, FaultType
<1>12. ASSUME RequestFallback(r) PROVE TypeInv'
  <2>1. RunnerType' /\ faults' \in 0 .. MaxFaults
    BY <1>0, <1>12, FallbackType DEF RequestFallback
  <2>2. RequestType'
    BY <1>12, ReplyType DEF RequestFallback
  <2>3. QED
    BY <1>12, <2>1, <2>2
    DEF RequestFallback, StoreType, storeVars, ExpiryType, WorkerType, FaultType
<1>13. ASSUME RequeueJob(r) PROVE TypeInv'
  <2>1. job' \in [Sessions -> Job]
    BY <1>13, MarkedType DEF RequeueJob, StoreType
  <2>2. RequestType'
    BY <1>13, ReplyType DEF RequeueJob
  <2>3. faults' \in 0 .. MaxFaults
    BY <1>13, FaultCounts DEF RequeueJob, FaultType
  <2>4. QED
    BY <1>13, <2>1, <2>2, <2>3
    DEF RequeueJob, StoreType, RunnerType, runnerVars, ExpiryType, WorkerType, FaultType
<1>14. QED
  BY <1>1, <1>2, <1>3, <1>4, <1>5, <1>6, <1>8, <1>9, <1>10, <1>11, <1>12, <1>13 DEF RequestStep

LEMMA ExpiryStepType ==
  ASSUME TypeInv, ExpiryStep
  PROVE  TypeInv'
<1> USE DEF TypeInv
<1>0. expiry.swept \subseteq Sessions
  BY DEF ExpiryType, ExpiryOK, ExpiryState
<1>1. ASSUME ExpireSweep PROVE TypeInv'
  <2> DEFINE stale == {s \in Sessions : Expirable(sess[s])}
  <2>1. sess' \in [Sessions -> Session]
    <3>1. CASE ExpireRows(stale)
      BY <3>1, TransitionedType DEF ExpireRows, StoreType, Reasons
    <3>2. CASE UNCHANGED sess
      BY <3>2 DEF StoreType
    <3>3. QED
      BY <1>1, <3>1, <3>2 DEF ExpireSweep
  <2>2. ExpiryOK([IdleExpiry EXCEPT !.pc = "lookup", !.swept = stale])
    BY IdleTypes DEF ExpiryOK, ExpiryState, ExpiryPC, IdleExpiry
  <2>3. ExpiryType'
    BY <1>1, <2>2 DEF ExpireSweep, ExpiryType
  <2>4. FaultType'
    BY <1>1, FaultCounts DEF ExpireSweep, FaultType
  <2>5. QED
    BY <1>1, <2>1, <2>3, <2>4
    DEF ExpireSweep, StoreType, RunnerType, runnerVars, RequestType, WorkerType
<1>2. ASSUME ExpireLookup PROVE TypeInv'
  <2>1. ExpiryType'
    BY <1>2, IdleTypes DEF ExpireLookup, ExpiryType, ExpiryOK, ExpiryState, ExpiryPC
  <2>2. faults' \in 0 .. MaxFaults
    BY <1>2, FaultCounts DEF ExpireLookup, FaultType
  <2>3. QED
    BY <1>2, <2>1, <2>2
    DEF ExpireLookup, StoreType, storeVars, RunnerType, runnerVars, RequestType, WorkerType,
        FaultType
<1>3. ASSUME NEW s \in Sessions, ExpireUpsert(s) PROVE TypeInv'
  <2>1. job' \in [Sessions -> Job]
    BY <1>3, UpsertType DEF ExpireUpsert, AnyReason, Reasons, StoreType
  <2>2. s \in expiry.swept /\ ExpiryOK(ExpiryNext(s))
    BY <1>3, ExpiryNextType DEF ExpireUpsert
  <2>3. ExpiryOK([expiry EXCEPT !.pc = "fallback", !.cur = s])
    BY <2>2 DEF ExpiryType, ExpiryOK, ExpiryState, ExpiryPC
  <2>4. ExpiryType'
    BY <1>3, <2>2, <2>3 DEF ExpireUpsert, ExpiryType
  <2>5. faults' \in 0 .. MaxFaults
    BY <1>3, FaultCounts DEF ExpireUpsert, FaultType
  <2>6. QED
    BY <1>3, <2>1, <2>4, <2>5
    DEF ExpireUpsert, StoreType, RunnerType, runnerVars, RequestType, WorkerType, FaultType
<1>4. ASSUME ExpireFallback PROVE TypeInv'
  <2>1. expiry.cur \in expiry.swept
    BY <1>4 DEF ExpireFallback, ExpiryType, ExpiryOK
  <2>2. RunnerType' /\ faults' \in 0 .. MaxFaults
    BY <1>0, <1>4, <2>1, FallbackType DEF ExpireFallback
  <2>3. ExpiryType'
    BY <1>4, <2>1, ExpiryNextType DEF ExpireFallback, ExpiryType
  <2>4. QED
    BY <1>4, <2>2, <2>3
    DEF ExpireFallback, StoreType, storeVars, RequestType, WorkerType, FaultType
<1>5. QED
  BY <1>1, <1>2, <1>3, <1>4 DEF ExpiryStep

LEMMA WorkerStepType ==
  ASSUME TypeInv, WorkerStep
  PROVE  TypeInv'
<1> USE DEF TypeInv
<1>0. /\ worker.todo \subseteq Sessions
      /\ worker.copy \in [Sessions -> Copy]
  BY DEF WorkerType, WorkerOK, WorkerState
<1>1. ASSUME ClaimDueJobs PROVE TypeInv'
  <2> DEFINE due == {s \in Sessions : Claimable(job[s])}
             copies(batch) == [s \in Sessions |->
                 IF s \in batch
                 THEN [reason |-> job[s].reason, attempts |-> job[s].attempts + 1, left |-> 0]
                 ELSE NoCopy]
             deleting(batch) ==
                 [IdleWorker EXCEPT !.pc = "delete", !.todo = batch, !.copy = copies(batch)]
  <2>1. PICK batch \in Batches(due) :
            \/ /\ ClaimRows(batch)
               /\ worker' = IF batch = {} THEN Listing ELSE deleting(batch)
               /\ UNCHANGED faults
            \/ /\ Fault("store")
               /\ ClaimRows(batch) \/ UNCHANGED job
               /\ worker' = Listing
    BY <1>1 DEF ClaimDueJobs
  <2>2. \A s \in batch : s \in Sessions /\ Claimable(job[s]) /\ job[s] \in Job
    BY DEF Batches, StoreType
  <2>3. job' \in [Sessions -> Job]
    BY <2>1, <2>2, ClaimedType DEF ClaimRows, StoreType
  <2>4. copies(batch) \in [Sessions -> Copy]
    <3>1. ASSUME NEW s \in batch
          PROVE  [reason |-> job[s].reason, attempts |-> job[s].attempts + 1, left |-> 0] \in Copy
      <4>1. job[s].attempts + 1 \in 0 .. MaxAttempts
        BY <2>2, ClaimedType
      <4>2. job[s].reason \in AnyReason
        BY <2>2 DEF Job, AnyReason
      <4>3. QED
        BY <4>1, <4>2 DEF Copy
    <3>2. QED
      BY <3>1, IdleTypes
  <2>5. WorkerOK(deleting(batch))
    <3> HIDE DEF copies
    <3>1. QED
      BY <2>2, <2>4, IdleTypes DEF IdleWorker, WorkerOK, WorkerState, WorkerPC
  <2>6. WorkerType'
    BY <2>1, <2>5, IdleWorkerType DEF WorkerType
  <2>7. FaultType'
    BY <1>1, <2>1, FaultCounts DEF ClaimDueJobs, FaultType
  <2>8. QED
    BY <1>1, <2>3, <2>6, <2>7
    DEF ClaimDueJobs, StoreType, RunnerType, runnerVars, RequestType, ExpiryType
<1>2. ASSUME NEW s \in Sessions, DeleteSucceeds(s) \/ DeleteFails(s) PROVE TypeInv'
  <2>1. RunnerType'
    BY <1>2, RunnerDeleteType DEF DeleteSucceeds, DeleteFails
  <2>2. WorkerType'
    BY <1>2 DEF DeleteSucceeds, DeleteFails, WorkerType, WorkerOK, WorkerState, WorkerPC
  <2>3. FaultType'
    BY <1>2, FaultCounts DEF DeleteSucceeds, DeleteFails, FaultType
  <2>4. QED
    BY <1>2, <2>1, <2>2, <2>3
    DEF DeleteSucceeds, DeleteFails, StoreType, storeVars, RequestType, ExpiryType
<1>3. ASSUME worker.pc = "mark", job' = [job EXCEPT ![worker.cur] = Marked(@)]
      PROVE  job' \in [Sessions -> Job]
  <2>1. Marked(job[worker.cur]) \in Job
    BY <1>3, NextRunNat, MarkedType DEF Marked, StoreType
  <2>2. QED
    BY <1>3, <2>1 DEF StoreType
<1>4. ASSUME MarkJob PROVE TypeInv'
  <2>1. job' \in [Sessions -> Job]
    BY <1>3, <1>4 DEF MarkJob
  <2>2. WorkerType'
    BY <1>4, WorkerNextType DEF MarkJob, WorkerType
  <2>3. QED
    BY <1>4, <2>1, <2>2
    DEF MarkJob, StoreType, RunnerType, runnerVars, RequestType, ExpiryType, FaultType
<1>5. ASSUME MarkFails PROVE TypeInv'
  <2>1. job' \in [Sessions -> Job]
    BY <1>3, <1>5 DEF MarkFails, StoreType
  <2>2. WorkerType'
    BY <1>5 DEF MarkFails, WorkerType, WorkerOK, WorkerState, WorkerPC
  <2>3. FaultType'
    BY <1>5, FaultCounts DEF MarkFails, FaultType
  <2>4. QED
    BY <1>5, <2>1, <2>2, <2>3
    DEF MarkFails, StoreType, RunnerType, runnerVars, RequestType, ExpiryType
<1>6. ASSUME RecoverJob PROVE TypeInv'
  <2>1. worker.copy[worker.cur].reason \in AnyReason /\ NextRun \in Nat /\ worker.cur \in Sessions
    BY <1>6, NextRunNat DEF RecoverJob, Copy
  <2>2. job' \in [Sessions -> Job]
    BY <1>6, <2>1, UpsertType DEF RecoverJob, StoreType
  <2>3. WorkerType'
    BY <1>6, WorkerNextType DEF RecoverJob, WorkerType
  <2>4. FaultType'
    BY <1>6, FaultCounts DEF RecoverJob, FaultType
  <2>5. QED
    BY <1>6, <2>2, <2>3, <2>4
    DEF RecoverJob, StoreType, RunnerType, runnerVars, RequestType, ExpiryType
<1>7. ASSUME ListMissing PROVE TypeInv'
  <2> DEFINE missing == {s \in Sessions : MissingJob(sess[s], job[s])}
             copies(batch) == [s \in Sessions |->
                 IF s \in batch
                 THEN [reason |-> sess[s].status, attempts |-> 0,
                       left |-> IF sess[s].status = "orphaned" THEN sess[s].grace ELSE 0]
                 ELSE NoCopy]
             filling(batch) ==
                 [IdleWorker EXCEPT !.pc = "backfill", !.todo = batch, !.copy = copies(batch)]
  <2>1. PICK batch \in Batches(missing) :
            \/ /\ worker' = IF batch = {} THEN IdleWorker ELSE filling(batch)
               /\ UNCHANGED faults
            \/ Fault("store") /\ worker' = IdleWorker
    BY <1>7 DEF ListMissing
  <2>2. \A s \in batch : s \in Sessions /\ sess[s].status \in Reasons /\ sess[s].grace \in Nat
    BY DEF Batches, MissingJob, Ended, StoreType, Session
  <2>3. copies(batch) \in [Sessions -> Copy]
    BY <2>2, IdleTypes, AttemptLimits DEF Copy, AnyReason
  <2>4. WorkerOK(filling(batch))
    <3> HIDE DEF copies
    <3>1. QED
      BY <2>2, <2>3, IdleTypes DEF IdleWorker, WorkerOK, WorkerState, WorkerPC
  <2>5. WorkerType'
    BY <2>1, <2>4, IdleWorkerType DEF WorkerType
  <2>6. FaultType'
    BY <1>7, <2>1, FaultCounts DEF ListMissing, FaultType
  <2>7. QED
    BY <1>7, <2>5, <2>6
    DEF ListMissing, StoreType, storeVars, RunnerType, runnerVars, RequestType, ExpiryType
<1>8. ASSUME NEW s \in Sessions, Backfill(s) PROVE TypeInv'
  <2>1. worker.copy[s].reason \in AnyReason /\ worker.copy[s].left \in Nat
    BY <1>0 DEF Copy
  <2>2. job' \in [Sessions -> Job]
    BY <1>8, <2>1, UpsertType DEF Backfill, StoreType
  <2> DEFINE rest == [worker EXCEPT !.todo = @ \ {s}, !.copy[s] = NoCopy]
  <2>3. WorkerType'
    <3>1. [worker.copy EXCEPT ![s] = NoCopy] \in [Sessions -> Copy]
      BY <1>0, IdleTypes
    <3>2. rest = [worker EXCEPT !.todo = @ \ {s}, !.copy = [@ EXCEPT ![s] = NoCopy]]
      BY DEF WorkerType, WorkerOK, WorkerState
    <3>3. WorkerOK(rest)
      BY <1>8, <3>1, <3>2 DEF Backfill, WorkerType, WorkerOK, WorkerState
    <3>4. worker' \in {IdleWorker, rest}
      BY <1>8 DEF Backfill
    <3>5. QED
      BY <3>3, <3>4, IdleWorkerType DEF WorkerType
  <2>4. FaultType'
    BY <1>8, FaultCounts DEF Backfill, FaultType
  <2>5. QED
    BY <1>8, <2>2, <2>3, <2>4
    DEF Backfill, StoreType, RunnerType, runnerVars, RequestType, ExpiryType
<1>9. QED
  BY <1>1, <1>2, <1>4, <1>5, <1>6, <1>7, <1>8 DEF WorkerStep

LEMMA EnvironmentType ==
  ASSUME TypeInv, RunnerStep \/ ApiCrash \/ Tick
  PROVE  TypeInv'
<1> USE DEF TypeInv
<1>1. ASSUME RunnerStep PROVE TypeInv'
  <2>1. RunnerType'
    BY <1>1
    DEF RunnerStep, RunnerTimerFires, LoseWorkspace, RunnerRestart, RunnerType, Places
  <2>2. faults' \in 0 .. MaxFaults
    BY <1>1, FaultCounts
    DEF RunnerStep, RunnerTimerFires, LoseWorkspace, RunnerRestart, FaultType
  <2>3. QED
    BY <1>1, <2>1, <2>2
    DEF RunnerStep, RunnerTimerFires, LoseWorkspace, RunnerRestart, StoreType, storeVars,
        RequestType, ExpiryType, WorkerType, FaultType
<1>2. ASSUME ApiCrash PROVE TypeInv'
  <2>1. RequestType' /\ ExpiryType' /\ WorkerType'
    BY <1>2, IdleTypes, IdleWorkerType
    DEF ApiCrash, RequestType, RequestOK, ExpiryType, WorkerType
  <2>2. FaultType'
    BY <1>2, FaultCounts DEF ApiCrash, FaultType
  <2>3. QED
    BY <1>2, <2>1, <2>2 DEF ApiCrash, StoreType, storeVars, RunnerType, runnerVars
<1>3. ASSUME Tick PROVE TypeInv'
  <2>1. ASSUME NEW n \in Nat PROVE Before(n, 1) \in Nat
    BY BeforeNat
  <2>2. sess' \in [Sessions -> Session]
    BY <1>3, <2>1 DEF Tick, StoreType, Session
  <2>3. job' \in [Sessions -> Job]
    BY <1>3, <2>1 DEF Tick, StoreType, Job
  <2>4. RunnerType'
    BY <1>3, <2>1 DEF Tick, RunnerType
  <2>5. RequestType'
    BY <1>3, <2>1 DEF Tick, RequestType, RequestOK, RequestState
  <2>6. [s \in Sessions |-> [worker.copy[s] EXCEPT !.left = Before(@, 1)]] \in [Sessions -> Copy]
    BY <2>1 DEF WorkerType, WorkerOK, WorkerState, Copy
  <2>7. Older(worker) \in Nat
    BY DEF Older, WorkerType, WorkerOK, WorkerState
  <2> DEFINE copies ==
                [s \in Sessions |-> [worker.copy[s] EXCEPT !.left = Before(@, 1)]]
  <2>8. WorkerType'
    <3>1. worker' = [worker EXCEPT !.age = Older(worker), !.copy = copies]
      BY <1>3 DEF Tick
    <3> HIDE DEF copies
    <3>2. copies \in [Sessions -> Copy]
      BY <2>6 DEF copies
    <3>3. QED
      BY <3>1, <3>2, <2>7 DEF WorkerType, WorkerOK, WorkerState
  <2>9. QED
    BY <1>3, <2>2, <2>3, <2>4, <2>5, <2>8 DEF Tick, StoreType, ExpiryType, FaultType
<1>4. QED
  BY <1>1, <1>2, <1>3

LEMMA TypeInvStep == TypeInv /\ [Next]_vars => TypeInv'
<1> SUFFICES ASSUME TypeInv, [Next]_vars PROVE TypeInv'
  OBVIOUS
<1>1. CASE Next
  BY <1>1, RequestStepType, ExpiryStepType, WorkerStepType, EnvironmentType DEF Next
<1>2. CASE UNCHANGED vars
  BY <1>2
  DEF vars, TypeInv, StoreType, RunnerType, RequestType, ExpiryType, WorkerType, FaultType
<1>3. QED
  BY <1>1, <1>2

(* The variables keep their types in every reachable state; in particular no job
   is ever claimed more often than MaxAttempts allows. *)
THEOREM TypeCorrect == Spec => []TypeOK
<1>1. TypeInv => TypeOK
  BY DEF TypeInv, TypeOK, StoreType, RunnerType, RequestType, ExpiryType, WorkerType, ExpiryOK,
         WorkerOK, FaultType
<1>2. QED
  BY <1>1, TypeInvInit, TypeInvStep, PTL DEF Spec
-----------------------------------------------------------------------------

(* The strengthening.  Whatever can lead to a delete, or records one, belongs to
   an ended session; this only holds of the loops and requests because the row
   they read had a status no later write takes back. *)
Doomed(s) ==
    \/ job[s].status # "none"
    \/ s \in armed
    \/ ws[s] = "deleted"
    \/ s \in expiry.swept
    \/ s \in worker.todo
    \/ \E r \in Requests : req[r].pc \in {"upsert", "fallback", "requeue"} /\ req[r].s = s

OnlyEndedAreDoomed == \A s \in Sessions : Doomed(s) => Ended(sess[s])

(* A request that got past ensureSessionAvailable is about a stored session. *)
CopiesAreOfRows ==
    \A r \in Requests :
        req[r].pc \in {"call", "update"} => sess[req[r].s].status # "none"

(* A session row is inserted once, after its workspace was made. *)
InsertsAreFresh ==
    /\ \A s \in Sessions : sess[s].status # "none" => ws[s] # "none"
    /\ \A r \in Requests :
        req[r].pc = "store" => sess[req[r].s].status = "none" /\ ws[req[r].s] # "none"
    /\ \A r, q \in Requests :
        req[r].pc = "store" /\ req[q].pc = "store" /\ req[r].s = req[q].s => r = q

SuccessIsReal ==
    /\ SucceededMeansGone
    /\ worker.pc \in {"mark", "recover"} /\ worker.ok => Gone(worker.cur)

LifeInv == OnlyEndedAreDoomed /\ CopiesAreOfRows /\ InsertsAreFresh /\ SuccessIsReal
-----------------------------------------------------------------------------
LEMMA LifeInvInit == Init => LifeInv
  BY DEF Init, LifeInv, OnlyEndedAreDoomed, Doomed, CopiesAreOfRows, InsertsAreFresh,
         SuccessIsReal, SucceededMeansGone, IdleRequest, IdleExpiry, IdleWorker, NoRow, NoJob

(* A written-back copy ends a session that is stored, and revives none. *)
LEMMA TransitionedEnds ==
  ASSUME NEW row \in Session, NEW reason \in Reasons
  PROVE  Ended(Transitioned(row, reason)) /\ Transitioned(row, reason).status # "none"
  BY DEF Transitioned, Ended, Session, Reasons

(* A delete call concerns its own session only, and can only delete what is there. *)
RunnerEffect(s) ==
    /\ armed' \subseteq armed \cup {s}
    /\ \A x \in Sessions :
        ws'[x] = ws[x] \/ (x = s /\ ws[x] = "present" /\ ws'[x] = "deleted")

LEMMA DeleteEffect ==
  ASSUME TypeInv, NEW s \in Sessions, RunnerDelete(s) \/ RunnerDeleteFails(s)
  PROVE  RunnerEffect(s)
<1>0. ws \in [Sessions -> Places]
  BY DEF TypeInv, RunnerType
<1>1. CASE RunnerDelete(s)
  BY <1>0, <1>1 DEF RunnerDelete, RunnerEffect
<1>2. CASE UNCHANGED ws /\ armed' \subseteq armed
  BY <1>2 DEF RunnerEffect
<1>3. QED
  BY <1>1, <1>2 DEF RunnerDeleteFails, runnerVars

LEMMA FallbackEffect ==
  ASSUME TypeInv, NEW s \in Sessions, NEW left, FallbackDelete(s, left)
  PROVE  RunnerEffect(s)
  BY DeleteEffect DEF FallbackDelete, RunnerArm, RunnerEffect, runnerVars

(* A step that changes no session row and newly touches only D: the successes it
   records are real, and the requests it moves claim to have read no row. *)
QuietStep(D) ==
    /\ UNCHANGED sess
    /\ armed' \subseteq armed \cup D
    /\ \A s \in Sessions :
        ws'[s] = ws[s] \/ (s \in D /\ ws[s] = "present" /\ ws'[s] = "deleted")
    /\ \A s \in Sessions :
        /\ job'[s].status # "none" => job[s].status # "none" \/ s \in D
        /\ job'[s].status = "succeeded" => job[s].status = "succeeded" \/ Gone(s)
    /\ expiry'.swept \subseteq expiry.swept \cup D
    /\ worker'.todo \subseteq worker.todo \cup D
    /\ worker'.pc \in {"mark", "recover"} /\ worker'.ok => Gone(worker.cur)'
    /\ \A r \in Requests :
        \/ req'[r] = req[r]
        \/ req'[r].pc \in {"upsert", "fallback", "requeue"} /\ req'[r].s \in D
        \/ req'[r].pc = "idle"

LEMMA QuietStepLife ==
  ASSUME TypeInv, LifeInv, NEW D, \A s \in D : Ended(sess[s]), QuietStep(D)
  PROVE  LifeInv'
<1> USE DEF QuietStep
<1>0. /\ \A r \in Requests : req[r].pc # "idle" => req[r].s \in Sessions
      /\ \A s \in Sessions : ws[s] # "none" => ws'[s] # "none"
  BY DEF TypeInv, RequestType, RequestOK
<1>1. OnlyEndedAreDoomed'
  <2>1. \A r \in Requests : req'[r].pc \in {"upsert", "fallback", "requeue"} =>
            req'[r].s \in D \/ (req'[r].s = req[r].s /\ req[r].pc = req'[r].pc)
    OBVIOUS
  <2>2. \A s \in Sessions : Doomed(s)' => Doomed(s) \/ s \in D
    BY <2>1 DEF Doomed
  <2>3. QED
    BY <2>2 DEF LifeInv, OnlyEndedAreDoomed, Ended
<1>2. CopiesAreOfRows'
  <2>1. \A r \in Requests : req'[r].pc \in {"call", "update"} => req'[r] = req[r]
    OBVIOUS
  <2>2. QED
    BY <2>1 DEF LifeInv, CopiesAreOfRows
<1>3. InsertsAreFresh'
  <2>1. \A r \in Requests : req'[r].pc = "store" => req'[r] = req[r]
    OBVIOUS
  <2>2. \A s \in Sessions : sess'[s].status # "none" => ws'[s] # "none"
    BY <1>0 DEF LifeInv, InsertsAreFresh
  <2>3. \A r \in Requests :
            req'[r].pc = "store" => sess'[req'[r].s].status = "none" /\ ws'[req'[r].s] # "none"
    BY <1>0, <2>1 DEF LifeInv, InsertsAreFresh
  <2>4. \A r, q \in Requests :
            req'[r].pc = "store" /\ req'[q].pc = "store" /\ req'[r].s = req'[q].s => r = q
    BY <2>1 DEF LifeInv, InsertsAreFresh
  <2>5. QED
    BY <2>2, <2>3, <2>4 DEF InsertsAreFresh
<1>4. SuccessIsReal'
  BY DEF LifeInv, SuccessIsReal, SucceededMeansGone, Gone
<1>5. QED
  BY <1>1, <1>2, <1>3, <1>4 DEF LifeInv

LEMMA RequestStepLife ==
  ASSUME TypeInv, LifeInv, NEW r \in Requests, RequestStep(r)
  PROVE  LifeInv'
<1> USE DEF LifeInv, OnlyEndedAreDoomed, Doomed, CopiesAreOfRows, InsertsAreFresh,
            SuccessIsReal, SucceededMeansGone, Gone
<1>0. /\ sess \in [Sessions -> Session] /\ job \in [Sessions -> Job] /\ ws \in [Sessions -> Places]
      /\ req \in [Requests -> RequestState] /\ \A q \in Requests : RequestOK(req[q])
  BY DEF TypeInv, StoreType, RunnerType, RequestType
<1>r. worker.pc \in {"mark", "recover"} /\ worker.ok => Gone(worker.cur)
  BY DEF LifeInv, SuccessIsReal
<1>w. worker.pc \in {"mark", "recover"} => worker.cur \in Sessions
  BY DEF TypeInv, WorkerType, WorkerOK, WorkerState
<1>1. ASSUME NEW s \in Sessions, CreateWorkspace(r, s) PROVE LifeInv'
  BY <1>0, <1>1 DEF CreateWorkspace, Request, storeVars
<1>2. ASSUME NEW s \in Sessions, ReadSession(r, s) PROVE LifeInv'
  BY <1>0, <1>2 DEF ReadSession, Request, storeVars, runnerVars
<1>3. ASSUME NEW s \in Sessions, ReadExhaustedJob(r, s) PROVE LifeInv'
  BY <1>0, <1>3 DEF ReadExhaustedJob, ListedExhausted, Request, storeVars, runnerVars
<1>4. ASSUME StoreSession(r) PROVE LifeInv'
  BY <1>0, <1>4 DEF StoreSession, Reply, IdleRequest, runnerVars, RequestOK, Created, Ended, Reasons
<1>5. ASSUME RunnerAnswers(r) PROVE LifeInv'
  BY <1>0, <1>5 DEF RunnerAnswers, Reply, IdleRequest, storeVars, runnerVars
<1>6. ASSUME RunnerSaysNotFound(r) PROVE LifeInv'
  BY <1>0, <1>6 DEF RunnerSaysNotFound, Request, storeVars, runnerVars
<1>7. ASSUME TransitionSession(r) PROVE LifeInv'
  BY <1>0, <1>7, TransitionedEnds DEF TransitionSession, WriteTransition, Request, runnerVars, RequestOK
<1>8. ASSUME TransitionFails(r) PROVE LifeInv'
  <2>1. CASE WriteTransition(req[r].s, req[r].reason)
    BY <1>0, <1>8, <2>1, TransitionedEnds
    DEF TransitionFails, WriteTransition, Reply, IdleRequest, runnerVars, RequestOK
  <2>2. CASE UNCHANGED <<sess, expiry>>
    BY <1>0, <1>8, <2>2 DEF TransitionFails, Reply, IdleRequest, runnerVars
  <2>3. QED
    BY <1>8, <2>1, <2>2 DEF TransitionFails
<1>9. ASSUME UpsertJob(r) \/ UpsertFails(r) PROVE LifeInv'
  <2> DEFINE S == {req[r].s}
  <2>1. S \subseteq Sessions /\ \A s \in S : Ended(sess[s])
    BY <1>0, <1>9 DEF UpsertJob, UpsertFails, RequestOK
  <2>2. \A s \in Sessions : job'[s] = job[s] \/ (s \in S /\ job'[s].status = "pending")
    <3>1. \A reason, due :
              Upserted(job[req[r].s], reason, due).status = "pending"
      BY <1>0, <2>1 DEF Upserted, Job
    <3>2. QED
      BY <1>0, <1>9, <2>1, <3>1 DEF UpsertJob, UpsertFails, Upsert
  <2>3. \A q \in Requests :
            \/ req'[q] = req[q]
            \/ req'[q].pc = "idle"
            \/ req'[q].pc = "fallback" /\ req'[q].s \in S
    BY <1>0, <1>9 DEF UpsertJob, UpsertFails, Reply, Request, IdleRequest
  <2>4. UNCHANGED <<sess, ws, armed, expiry, worker>>
    BY <1>9 DEF UpsertJob, UpsertFails, runnerVars
  <2> HIDE DEF S
  <2>5. QuietStep(S)
    BY <2>2, <2>3, <2>4, <1>r DEF QuietStep, Gone
  <2>6. QED
    BY <2>1, <2>5, QuietStepLife
<1>11. ASSUME RequestFallback(r) PROVE LifeInv'
  <2>1. req[r].s \in Sessions /\ Ended(sess[req[r].s])
    BY <1>0, <1>11 DEF RequestFallback, RequestOK
  <2>2. RunnerEffect(req[r].s)
    BY <1>11, <2>1, FallbackEffect DEF RequestFallback
  <2>3. \A q \in Requests : req'[q] = req[q] \/ req'[q].pc = "idle"
    BY <1>0, <1>11 DEF RequestFallback, Reply, IdleRequest
  <2>4. UNCHANGED <<sess, job, expiry, worker>>
    BY <1>11 DEF RequestFallback, storeVars
  <2>5. QuietStep({req[r].s})
    BY <2>1, <2>2, <2>3, <2>4, <1>r, <1>w DEF QuietStep, RunnerEffect, Gone
  <2>6. QED
    BY <2>1, <2>5, QuietStepLife
<1>12. ASSUME RequeueJob(r) PROVE LifeInv'
  <2> DEFINE S == {req[r].s}
  <2>1. S \subseteq Sessions /\ \A s \in S : Ended(sess[s])
    BY <1>0, <1>12 DEF RequeueJob, RequestOK
  <2>2. \A s \in Sessions : job'[s] = job[s] \/ (s \in S /\ job'[s].status = "pending")
    BY <1>0, <1>12 DEF RequeueJob, Requeued, Job
  <2>3. \A q \in Requests : req'[q] = req[q] \/ req'[q].pc = "idle"
    BY <1>0, <1>12 DEF RequeueJob, Reply, IdleRequest
  <2>4. UNCHANGED <<sess, ws, armed, expiry, worker>>
    BY <1>12 DEF RequeueJob, runnerVars
  <2> HIDE DEF S
  <2>5. QuietStep(S)
    BY <2>2, <2>3, <2>4, <1>r DEF QuietStep, Gone
  <2>6. QED
    BY <2>1, <2>5, QuietStepLife
<1>13. QED
  BY <1>1, <1>2, <1>3, <1>4, <1>5, <1>6, <1>7, <1>8, <1>9, <1>11, <1>12 DEF RequestStep

LEMMA ExpiryStepLife ==
  ASSUME TypeInv, LifeInv, ExpiryStep
  PROVE  LifeInv'
<1>0. /\ sess \in [Sessions -> Session] /\ job \in [Sessions -> Job] /\ ws \in [Sessions -> Places]
      /\ expiry.swept \subseteq Sessions /\ expiry \in ExpiryState
      /\ expiry.pc = "fallback" => expiry.cur \in expiry.swept
      /\ \A s \in expiry.swept : Ended(sess[s])
  BY DEF TypeInv, StoreType, RunnerType, ExpiryType, ExpiryOK, ExpiryState, LifeInv,
         OnlyEndedAreDoomed, Doomed
<1>r. worker.pc \in {"mark", "recover"} /\ worker.ok => Gone(worker.cur)
  BY DEF LifeInv, SuccessIsReal
<1>w. worker.pc \in {"mark", "recover"} => worker.cur \in Sessions
  BY DEF TypeInv, WorkerType, WorkerOK, WorkerState
<1>1. ASSUME ExpireSweep PROVE LifeInv'
  <2> DEFINE stale == {s \in Sessions : Expirable(sess[s])}
  <2>0. UNCHANGED <<job, ws, armed, req, worker>>
    BY <1>1 DEF ExpireSweep, runnerVars
  <2>1. CASE ExpireRows(stale)
    <3>1. \A s \in Sessions :
              \/ sess'[s] = sess[s] /\ s \notin stale
              \/ s \in stale /\ sess[s].status = "active" /\ Ended(sess'[s])
      BY <1>0, <2>1, TransitionedEnds DEF ExpireRows, Expirable, Reasons
    <3>2. expiry'.swept \subseteq stale \cup expiry.swept
      BY <1>1 DEF ExpireSweep, IdleExpiry
    <3>3. \A s \in Sessions : Ended(sess[s]) => Ended(sess'[s])
      BY <3>1
    <3>4. \A s \in stale : Ended(sess'[s])
      BY <3>1
    <3>5. OnlyEndedAreDoomed'
      <4>1. \A s \in Sessions : Doomed(s)' => Doomed(s) \/ s \in stale
        BY <2>0, <3>2 DEF Doomed
      <4>2. QED
        BY <3>3, <3>4, <4>1 DEF LifeInv, OnlyEndedAreDoomed, Ended
    <3>6. \A s \in Sessions : sess'[s].status # "none" <=> sess[s].status # "none"
      BY <3>1 DEF Ended, Reasons
    <3>7. CopiesAreOfRows' /\ InsertsAreFresh'
      <4>1. \A r \in Requests : req[r].pc # "idle" => req[r].s \in Sessions
        BY DEF TypeInv, RequestType, RequestOK
      <4>2. QED
        BY <2>0, <3>6, <4>1 DEF LifeInv, CopiesAreOfRows, InsertsAreFresh
    <3>8. SuccessIsReal'
      BY <2>0 DEF LifeInv, SuccessIsReal, SucceededMeansGone, Gone
    <3>9. QED
      BY <3>5, <3>7, <3>8 DEF LifeInv
  <2>2. CASE UNCHANGED <<sess, expiry>>
    <3>1. QuietStep({})
      BY <2>0, <2>2, <1>r DEF QuietStep, Gone
    <3>2. QED
      BY <3>1, QuietStepLife
  <2>3. QED
    BY <1>1, <2>1, <2>2 DEF ExpireSweep
<1>2. ASSUME ExpireLookup PROVE LifeInv'
  <2>1. expiry'.swept \subseteq expiry.swept
    BY <1>0, <1>2 DEF ExpireLookup, IdleExpiry, ExpiryState
  <2>2. UNCHANGED <<sess, job, ws, armed, req, worker>>
    BY <1>2 DEF ExpireLookup, storeVars, runnerVars
  <2>3. QuietStep({})
    BY <2>1, <2>2, <1>r DEF QuietStep, Gone
  <2>4. QED
    BY <2>3, QuietStepLife
<1>3. ASSUME NEW s \in Sessions, ExpireUpsert(s) PROVE LifeInv'
  <2> DEFINE S == {s}
  <2>1. s \in expiry.swept /\ \A x \in S : Ended(sess[x])
    BY <1>0, <1>3 DEF ExpireUpsert
  <2>5. expiry'.swept \subseteq expiry.swept
    <3>1. ExpiryNext(s).swept \subseteq expiry.swept
      BY <1>0 DEF ExpiryNext, IdleExpiry, ExpiryState
    <3>2. [expiry EXCEPT !.pc = "fallback", !.cur = s].swept = expiry.swept
      BY <1>0 DEF ExpiryState
    <3>3. QED
      BY <1>3, <3>1, <3>2 DEF ExpireUpsert
  <2>2. \A x \in Sessions : job'[x] = job[x] \/ (x \in S /\ job'[x].status = "pending")
    BY <1>0, <1>3 DEF ExpireUpsert, Upsert, Upserted, Job
  <2>3. UNCHANGED <<sess, ws, armed, req, worker>>
    BY <1>3 DEF ExpireUpsert, runnerVars
  <2> HIDE DEF S
  <2>6. QuietStep(S)
    BY <2>2, <2>3, <2>5, <1>r DEF QuietStep, Gone
  <2>7. QED
    BY <2>1, <2>6, QuietStepLife
<1>4. ASSUME ExpireFallback PROVE LifeInv'
  <2>1. expiry.cur \in expiry.swept /\ expiry'.swept \subseteq expiry.swept
    BY <1>0, <1>4 DEF ExpireFallback, ExpiryNext, IdleExpiry, ExpiryState
  <2>2. RunnerEffect(expiry.cur)
    BY <1>0, <1>4, <2>1, FallbackEffect DEF ExpireFallback
  <2>3. UNCHANGED <<sess, job, req, worker>>
    BY <1>4 DEF ExpireFallback, storeVars
  <2>4. QuietStep({expiry.cur})
    BY <2>1, <2>2, <2>3, <1>r, <1>w DEF QuietStep, RunnerEffect, Gone
  <2>5. QED
    BY <1>0, <2>1, <2>4, QuietStepLife
<1>5. QED
  BY <1>1, <1>2, <1>3, <1>4 DEF ExpiryStep

LEMMA WorkerStepLife ==
  ASSUME TypeInv, LifeInv, WorkerStep
  PROVE  LifeInv'
<1>0. /\ sess \in [Sessions -> Session] /\ job \in [Sessions -> Job] /\ ws \in [Sessions -> Places]
      /\ worker \in WorkerState /\ worker.todo \subseteq Sessions
      /\ worker.pc \in {"mark", "recover"} => worker.cur \in worker.todo
  BY DEF TypeInv, StoreType, RunnerType, WorkerType, WorkerOK, WorkerState
<1>e. /\ \A s \in worker.todo : Ended(sess[s])
      /\ \A s \in Sessions : job[s].status # "none" => Ended(sess[s])
      /\ \A s \in Sessions : Ended(sess[s]) => ws[s] # "none"
      /\ worker.pc \in {"mark", "recover"} /\ worker.ok => Gone(worker.cur)
  BY <1>0 DEF LifeInv, OnlyEndedAreDoomed, Doomed, InsertsAreFresh, SuccessIsReal, Ended, Reasons
<1>1. ASSUME ClaimDueJobs PROVE LifeInv'
  <2>1. PICK batch \in Batches({s \in Sessions : Claimable(job[s])}) :
            /\ ClaimRows(batch) \/ UNCHANGED job
            /\ worker'.todo \subseteq batch
            /\ worker'.pc \in {"list", "delete"}
    BY <1>1 DEF ClaimDueJobs, Listing, IdleWorker
  <2>2. \A s \in batch : s \in Sessions /\ Claimable(job[s])
    BY DEF Batches
  <2>3. \A s \in batch : Ended(sess[s])
    BY <1>e, <2>2 DEF Claimable
  <2>4. \A s \in Sessions : job'[s] = job[s] \/ (s \in batch /\ job'[s].status = "running")
    <3>1. \A s \in Sessions : Claimed(job[s]).status = "running"
      BY <1>0 DEF Claimed, Job
    <3>2. QED
      BY <2>1, <3>1 DEF ClaimRows
  <2>5. UNCHANGED <<sess, ws, armed, req, expiry>>
    BY <1>1 DEF ClaimDueJobs, runnerVars
  <2>6. QuietStep(batch)
    BY <2>1, <2>4, <2>5 DEF QuietStep
  <2>7. QED
    BY <2>3, <2>6, QuietStepLife
<1>2. ASSUME NEW s \in Sessions, DeleteSucceeds(s) \/ DeleteFails(s) PROVE LifeInv'
  <2>1. RunnerEffect(s)
    BY <1>2, DeleteEffect DEF DeleteSucceeds, DeleteFails
  <2>2. s \in worker.todo /\ worker'.todo = worker.todo /\ worker'.cur = s
    BY <1>0, <1>2 DEF DeleteSucceeds, DeleteFails, WorkerState
  <2>3. worker'.ok => ws'[s] \in {"deleted", "lost"}
    <3>1. CASE DeleteSucceeds(s)
      <4>1. ws[s] # "none"
        BY <1>e, <2>2
      <4>2. QED
        BY <1>0, <3>1, <4>1 DEF DeleteSucceeds, RunnerDelete, Places
    <3>2. CASE DeleteFails(s)
      BY <1>0, <3>2 DEF DeleteFails, WorkerState
    <3>3. QED
      BY <1>2, <3>1, <3>2
  <2>4. UNCHANGED <<sess, job, req, expiry>>
    BY <1>2 DEF DeleteSucceeds, DeleteFails, storeVars
  <2>5. QuietStep({s})
    BY <2>1, <2>2, <2>3, <2>4 DEF QuietStep, RunnerEffect, Gone
  <2>6. QED
    BY <1>e, <2>2, <2>5, QuietStepLife
<1>3. ASSUME worker.pc \in {"mark", "recover"}
      PROVE  /\ WorkerNext.todo \subseteq worker.todo
             /\ WorkerNext.pc \in {"list", "delete"}
  BY <1>0, <1>3 DEF WorkerNext, Listing, IdleWorker, WorkerState
<1>4. ASSUME worker.pc = "mark", job' = [job EXCEPT ![worker.cur] = Marked(@)]
      PROVE  \A s \in Sessions :
                 \/ job'[s] = job[s]
                 \/ /\ s = worker.cur
                    /\ job'[s].status # "succeeded" \/ worker.ok
  BY <1>0, <1>4 DEF Marked, MarkedSucceeded, MarkedFailed, Job
<1>m. ASSUME MarkJob \/ MarkFails
      PROVE  \A s \in Sessions :
                 \/ job'[s] = job[s]
                 \/ s = worker.cur /\ s \in worker.todo
                    /\ (job'[s].status = "succeeded" => Gone(s))
  BY <1>0, <1>e, <1>4, <1>m DEF MarkJob, MarkFails
<1>5. ASSUME MarkJob PROVE LifeInv'
  <2>1. worker'.todo \subseteq worker.todo /\ worker'.pc \in {"list", "delete"}
    BY <1>3, <1>5 DEF MarkJob
  <2>2. UNCHANGED <<sess, ws, armed, req, expiry>>
    BY <1>5 DEF MarkJob, runnerVars
  <2>3. QuietStep(worker.todo)
    BY <1>5, <1>m, <2>1, <2>2 DEF QuietStep
  <2>4. QED
    BY <1>e, <2>3, QuietStepLife
<1>6. ASSUME MarkFails PROVE LifeInv'
  <2>1. /\ worker'.todo = worker.todo /\ worker'.cur = worker.cur /\ worker'.ok = worker.ok
        /\ worker.pc = "mark"
    BY <1>0, <1>6 DEF MarkFails, WorkerState
  <2>2. UNCHANGED <<sess, ws, armed, req, expiry>>
    BY <1>6 DEF MarkFails, runnerVars
  <2>3. QuietStep(worker.todo)
    BY <1>6, <1>m, <1>e, <2>1, <2>2 DEF QuietStep, Gone
  <2>4. QED
    BY <1>e, <2>3, QuietStepLife
<1>7. ASSUME RecoverJob PROVE LifeInv'
  <2>1. \A s \in Sessions :
            job'[s] = job[s] \/ (s = worker.cur /\ job'[s].status = "pending")
    BY <1>0, <1>7 DEF RecoverJob, Upsert, Upserted, Job
  <2>2. /\ worker'.todo \subseteq worker.todo /\ worker'.pc \in {"list", "delete"}
        /\ worker.cur \in worker.todo
    BY <1>0, <1>3, <1>7 DEF RecoverJob
  <2>3. UNCHANGED <<sess, ws, armed, req, expiry>>
    BY <1>7 DEF RecoverJob, runnerVars
  <2>4. QuietStep(worker.todo)
    BY <2>1, <2>2, <2>3 DEF QuietStep
  <2>5. QED
    BY <1>e, <2>4, QuietStepLife
<1>8. ASSUME ListMissing PROVE LifeInv'
  <2>1. PICK batch \in Batches({s \in Sessions : MissingJob(sess[s], job[s])}) :
            worker'.todo \subseteq batch /\ worker'.pc \in {"idle", "backfill"}
    <3> DEFINE Left(s) == IF sess[s].status = "orphaned" THEN sess[s].grace ELSE 0
               Copies(b) == [s \in Sessions |->
                                IF s \in b
                                THEN [reason |-> sess[s].status, attempts |-> 0,
                                      left |-> Left(s)]
                                ELSE NoCopy]
               Next1(b) == IF b = {} THEN IdleWorker
                           ELSE [IdleWorker EXCEPT !.pc = "backfill", !.todo = b,
                                                   !.copy = Copies(b)]
    <3>1. PICK b \in Batches({s \in Sessions : MissingJob(sess[s], job[s])}) :
              worker' = Next1(b) \/ worker' = IdleWorker
      BY <1>8 DEF ListMissing
    <3> HIDE DEF Copies
    <3>2. Next1(b).todo \subseteq b /\ Next1(b).pc \in {"idle", "backfill"}
      BY DEF IdleWorker
    <3>3. IdleWorker.todo \subseteq b /\ IdleWorker.pc = "idle"
      BY DEF IdleWorker
    <3> HIDE DEF Next1
    <3>4. QED
      BY <3>1, <3>2, <3>3
  <2>2. \A s \in batch : Ended(sess[s])
    BY DEF Batches, MissingJob
  <2>3. UNCHANGED <<sess, job, ws, armed, req, expiry>>
    BY <1>8 DEF ListMissing, storeVars, runnerVars
  <2>4. QuietStep(batch)
    BY <2>1, <2>3 DEF QuietStep
  <2>5. QED
    BY <2>2, <2>4, QuietStepLife
<1>9. ASSUME NEW s \in Sessions, Backfill(s) PROVE LifeInv'
  <2>1. s \in worker.todo
    BY <1>9 DEF Backfill
  <2>2. worker'.todo \subseteq worker.todo /\ worker'.pc \in {"idle", "backfill"}
    <3>1. IdleWorker.todo = {} /\ IdleWorker.pc = "idle"
      BY DEF IdleWorker
    <3>2. LET w == [worker EXCEPT !.todo = @ \ {s}, !.copy[s] = NoCopy]
          IN  w.todo = worker.todo \ {s} /\ w.pc = worker.pc
      BY <1>0 DEF WorkerState
    <3>3. QED
      BY <1>9, <3>1, <3>2 DEF Backfill
  <2>3. \A x \in Sessions : job'[x] = job[x] \/ (x = s /\ job'[x].status = "pending")
    <3>1. \A reason, due : Upserted(job[s], reason, due).status = "pending"
      BY <1>0 DEF Upserted, Job
    <3>2. QED
      BY <1>0, <1>9, <3>1 DEF Backfill, Upsert
  <2>4. UNCHANGED <<sess, ws, armed, req, expiry>>
    BY <1>9 DEF Backfill, runnerVars
  <2>5. QuietStep(worker.todo)
    BY <2>1, <2>2, <2>3, <2>4 DEF QuietStep
  <2>6. QED
    BY <1>e, <2>5, QuietStepLife
<1>10. QED
  BY <1>1, <1>2, <1>5, <1>6, <1>7, <1>8, <1>9 DEF WorkerStep

LEMMA EnvironmentLife ==
  ASSUME TypeInv, LifeInv, RunnerStep \/ ApiCrash \/ Tick
  PROVE  LifeInv'
<1>0. /\ sess \in [Sessions -> Session] /\ job \in [Sessions -> Job] /\ ws \in [Sessions -> Places]
      /\ armed \subseteq Sessions /\ worker \in WorkerState
      /\ req \in [Requests -> RequestState] /\ \A r \in Requests : RequestOK(req[r])
      /\ worker.pc \in {"mark", "recover"} => worker.cur \in Sessions
  BY DEF TypeInv, StoreType, RunnerType, RequestType, WorkerType, WorkerOK, WorkerState
<1>1. ASSUME NEW s \in Sessions, RunnerTimerFires(s) PROVE LifeInv'
  <2>1. s \in armed /\ Ended(sess[s]) /\ armed' \subseteq armed
    BY <1>1 DEF RunnerTimerFires, LifeInv, OnlyEndedAreDoomed, Doomed
  <2>2. \A x \in Sessions :
            ws'[x] = ws[x] \/ (x = s /\ ws[x] = "present" /\ ws'[x] = "deleted")
    BY <1>0, <1>1 DEF RunnerTimerFires
  <2>3. UNCHANGED <<sess, job, req, expiry, worker>>
    BY <1>1 DEF RunnerTimerFires, storeVars
  <2>4. QuietStep({s})
    BY <1>0, <2>1, <2>2, <2>3 DEF QuietStep, LifeInv, SuccessIsReal, Gone
  <2>5. QED
    BY <2>1, <2>4, QuietStepLife
<1>2. ASSUME NEW s \in Sessions, LoseWorkspace(s) PROVE LifeInv'
  <2>1. UNCHANGED <<sess, job, req, expiry, worker, armed>>
    BY <1>2 DEF LoseWorkspace, storeVars
  <2>2. \A x \in Sessions :
            ws'[x] = ws[x] \/ (ws[x] = "present" /\ ws'[x] = "lost")
    BY <1>0, <1>2 DEF LoseWorkspace
  <2>3. OnlyEndedAreDoomed'
    BY <2>1, <2>2 DEF LifeInv, OnlyEndedAreDoomed, Doomed, Ended
  <2>4. CopiesAreOfRows'
    BY <2>1 DEF LifeInv, CopiesAreOfRows
  <2>5. InsertsAreFresh'
    <3>1. \A r \in Requests : req[r].pc # "idle" => req[r].s \in Sessions
      BY <1>0 DEF RequestOK
    <3>2. \A x \in Sessions : ws[x] # "none" => ws'[x] # "none"
      BY <2>2
    <3>3. QED
      BY <2>1, <3>1, <3>2 DEF LifeInv, InsertsAreFresh
  <2>6. SuccessIsReal'
    BY <1>0, <2>1, <2>2 DEF LifeInv, SuccessIsReal, SucceededMeansGone, Gone
  <2>7. QED
    BY <2>3, <2>4, <2>5, <2>6 DEF LifeInv
<1>3. ASSUME RunnerRestart PROVE LifeInv'
  <2>1. UNCHANGED <<sess, job, ws, req, expiry, worker>> /\ armed' = {}
    BY <1>3 DEF RunnerRestart, storeVars
  <2>2. QuietStep({})
    BY <2>1 DEF QuietStep, LifeInv, SuccessIsReal, Gone
  <2>3. QED
    BY <2>2, QuietStepLife
<1>4. ASSUME ApiCrash PROVE LifeInv'
  <2>1. UNCHANGED <<sess, job, ws, armed>>
    BY <1>4 DEF ApiCrash, storeVars, runnerVars
  <2>2. \A r \in Requests : req'[r].pc = "idle"
    BY <1>4 DEF ApiCrash, IdleRequest
  <2>3. expiry'.swept = {} /\ worker'.todo = {} /\ worker'.pc = "idle"
    BY <1>4 DEF ApiCrash, IdleExpiry, IdleWorker
  <2>4. QuietStep({})
    BY <2>1, <2>2, <2>3 DEF QuietStep
  <2>5. QED
    BY <2>4, QuietStepLife
<1>5. ASSUME Tick PROVE LifeInv'
  <2>1. \A s \in Sessions : sess'[s].status = sess[s].status /\ job'[s].status = job[s].status
    BY <1>0, <1>5, ZenonT(30) DEF Tick, Session, Job
  <2>2. \A r \in Requests : req'[r].pc = req[r].pc /\ req'[r].s = req[r].s
    BY <1>0, <1>5 DEF Tick, RequestState
  <2>3. UNCHANGED <<ws, armed, expiry>>
    BY <1>5 DEF Tick
  <2>4. /\ worker'.pc = worker.pc /\ worker'.todo = worker.todo
        /\ worker'.cur = worker.cur /\ worker'.ok = worker.ok
    BY <1>0, <1>5 DEF Tick, WorkerState
  <2>5. OnlyEndedAreDoomed'
    <3>1. \A s \in Sessions : Doomed(s)' => Doomed(s)
      BY <2>1, <2>2, <2>3, <2>4 DEF Doomed
    <3>2. QED
      BY <2>1, <3>1 DEF LifeInv, OnlyEndedAreDoomed, Ended
  <2>6. CopiesAreOfRows' /\ InsertsAreFresh'
    <3>1. \A r \in Requests : req[r].pc # "idle" => req[r].s \in Sessions
      BY <1>0 DEF RequestOK
    <3>2. QED
      BY <2>1, <2>2, <2>3, <3>1 DEF LifeInv, CopiesAreOfRows, InsertsAreFresh
  <2>7. SuccessIsReal'
    BY <2>1, <2>3, <2>4 DEF LifeInv, SuccessIsReal, SucceededMeansGone, Gone
  <2>8. QED
    BY <2>5, <2>6, <2>7 DEF LifeInv
<1>6. QED
  BY <1>1, <1>2, <1>3, <1>4, <1>5 DEF RunnerStep

LEMMA LifeInvStep == TypeInv /\ LifeInv /\ [Next]_vars => LifeInv'
<1> SUFFICES ASSUME TypeInv, LifeInv, [Next]_vars PROVE LifeInv'
  OBVIOUS
<1>1. CASE Next
  BY <1>1, RequestStepLife, ExpiryStepLife, WorkerStepLife, EnvironmentLife DEF Next
<1>2. CASE UNCHANGED vars
  <2>1. UNCHANGED <<sess, job, ws, armed, req, expiry, worker>>
    BY <1>2 DEF vars
  <2>2. QuietStep({})
    BY <2>1 DEF QuietStep, LifeInv, SuccessIsReal, Gone
  <2>3. QED
    BY <2>2, QuietStepLife
<1>3. QED
  BY <1>1, <1>2

LEMMA LifeInvariant == Spec => [](TypeInv /\ LifeInv)
  BY TypeInvInit, TypeInvStep, LifeInvInit, LifeInvStep, PTL DEF Spec
-----------------------------------------------------------------------------
(* Every step is a step of the lifecycle or leaves it alone *)

PhaseMap == [s \in Sessions |-> Phase(sess[s])]

LEMMA PhaseIsEnded ==
  ASSUME NEW row \in Session
  PROVE  /\ Phase(row) = "ended" <=> Ended(row)
         /\ Phase(row) = "inUse" <=> row.status = "active"
         /\ Phase(row) = "absent" <=> row.status = "none"
  BY DEF Phase, Ended, Session, SessionStatus, Reasons

LEMMA StuttersWhen ==
  ASSUME UNCHANGED ws, \A s \in Sessions : sess'[s].status = sess[s].status
  PROVE  [Lifecycle!Next]_(Lifecycle!vars)
<1>1. \A s \in Sessions : Phase(sess[s])' = Phase(sess[s])
  BY DEF Phase
<1>2. PhaseMap' = PhaseMap
  BY <1>1 DEF PhaseMap
<1>3. QED
  BY <1>2 DEF Lifecycle!vars, PhaseMap

(* A delete that hits an ended session. *)
LEMMA DeleteRefines ==
  ASSUME TypeInv, TypeInv', NEW s \in Sessions, Ended(sess[s]), RunnerEffect(s), UNCHANGED sess
  PROVE  [Lifecycle!Next]_(Lifecycle!vars)
<1>0. /\ sess \in [Sessions -> Session] /\ ws \in [Sessions -> Places]
      /\ ws' \in [Sessions -> Places]
  BY DEF TypeInv, StoreType, RunnerType
<1>1. CASE UNCHANGED ws
  BY <1>1, StuttersWhen
<1>2. CASE ws[s] = "present" /\ ws' = [ws EXCEPT ![s] = "deleted"]
  <2>1. PhaseMap[s] = "ended"
    BY <1>0, PhaseIsEnded DEF PhaseMap
  <2>2. PhaseMap' = PhaseMap
    BY DEF PhaseMap, Phase
  <2>3. Lifecycle!Delete(s)
    BY <1>2, <2>1, <2>2 DEF Lifecycle!Delete, PhaseMap
  <2>4. QED
    BY <2>3 DEF Lifecycle!Next
<1>3. QED
  BY <1>0, <1>1, <1>2 DEF RunnerEffect

(* A write that ends the sessions of S, all of them in use. *)
LEMMA EndRefines ==
  ASSUME TypeInv, TypeInv', UNCHANGED ws, NEW S \in SUBSET Sessions,
         \A s \in S : sess[s].status = "active" /\ Ended(sess'[s]),
         \A s \in Sessions \ S :
            sess'[s].status = sess[s].status \/ (Ended(sess[s]) /\ Ended(sess'[s]))
  PROVE  [Lifecycle!Next]_(Lifecycle!vars)
<1>0. sess \in [Sessions -> Session] /\ sess' \in [Sessions -> Session]
  BY DEF TypeInv, StoreType
<1>1. \A s \in S : PhaseMap[s] = "inUse" /\ Phase(sess'[s]) = "ended"
  BY <1>0, PhaseIsEnded DEF PhaseMap
<1>2. \A s \in Sessions \ S : Phase(sess'[s]) = PhaseMap[s]
  BY <1>0, PhaseIsEnded DEF PhaseMap, Phase
<1>3. PhaseMap' = [s \in Sessions |-> IF s \in S THEN "ended" ELSE PhaseMap[s]]
  BY <1>1, <1>2 DEF PhaseMap
<1>4. Lifecycle!End(S)
  BY <1>1, <1>3 DEF Lifecycle!End, PhaseMap
<1>5. QED
  BY <1>4 DEF Lifecycle!Next

LEMMA RequestStepRefines ==
  ASSUME TypeInv, TypeInv', LifeInv, NEW r \in Requests, RequestStep(r)
  PROVE  [Lifecycle!Next]_(Lifecycle!vars)
<1>0. /\ sess \in [Sessions -> Session] /\ ws \in [Sessions -> Places] /\ RequestOK(req[r])
  BY DEF TypeInv, StoreType, RunnerType, RequestType
<1>1. ASSUME NEW s \in Sessions, CreateWorkspace(r, s) PROVE [Lifecycle!Next]_(Lifecycle!vars)
  <2>1. PhaseMap' = PhaseMap
    BY <1>1 DEF CreateWorkspace, storeVars, PhaseMap, Phase
  <2>2. Lifecycle!Provision(s)
    BY <1>1, <2>1 DEF CreateWorkspace, Lifecycle!Provision, PhaseMap
  <2>3. QED
    BY <2>2 DEF Lifecycle!Next
<1>2. ASSUME StoreSession(r) PROVE [Lifecycle!Next]_(Lifecycle!vars)
  <2> DEFINE s == req[r].s
  <2>1. s \in Sessions /\ sess[s].status = "none" /\ ws[s] # "none" /\ UNCHANGED ws
    BY <1>0, <1>2 DEF StoreSession, RequestOK, LifeInv, InsertsAreFresh, runnerVars
  <2> HIDE DEF s
  <2>2. CASE UNCHANGED sess
    BY <2>1, <2>2, StuttersWhen
  <2>3. CASE sess' = [sess EXCEPT ![s] = Created]
    <3>1. PhaseMap[s] = "absent" /\ Phase(Created) = "inUse"
      BY <1>0, <2>1 DEF PhaseMap, Phase, Created
    <3>2. PhaseMap' = [PhaseMap EXCEPT ![s] = "inUse"]
      BY <1>0, <2>1, <2>3, <3>1 DEF PhaseMap
    <3>3. Lifecycle!Open(s)
      BY <2>1, <3>1, <3>2 DEF Lifecycle!Open, PhaseMap
    <3>4. QED
      BY <2>1, <3>3 DEF Lifecycle!Next
  <2>4. QED
    BY <1>2, <2>2, <2>3 DEF StoreSession, s
<1>3. ASSUME TransitionSession(r) \/ TransitionFails(r) PROVE [Lifecycle!Next]_(Lifecycle!vars)
  <2> DEFINE s == req[r].s
             row == Transitioned(sess[s], req[r].reason)
  <2>1. s \in Sessions /\ req[r].reason \in Reasons /\ sess[s].status # "none" /\ UNCHANGED ws
    BY <1>0, <1>3
    DEF TransitionSession, TransitionFails, RequestOK, LifeInv, CopiesAreOfRows, runnerVars
  <2>2. Ended(row) /\ sess[s] \in Session
    BY <1>0, <2>1, TransitionedEnds
  <2>3. sess' = sess \/ sess' = [sess EXCEPT ![s] = row]
    BY <1>3 DEF TransitionSession, TransitionFails, WriteTransition
  <2> HIDE DEF s, row
  <2>4. CASE sess' = sess
    BY <2>1, <2>4, StuttersWhen
  <2>5. CASE sess' = [sess EXCEPT ![s] = row] /\ Ended(sess[s])
    <3>1. \A x \in Sessions \ {} :
              sess'[x].status = sess[x].status \/ (Ended(sess[x]) /\ Ended(sess'[x]))
      BY <1>0, <2>1, <2>2, <2>5
    <3>2. /\ {} \in SUBSET Sessions
          /\ \A x \in {} : sess[x].status = "active" /\ Ended(sess'[x])
      OBVIOUS
    <3>3. QED
      BY <2>1, <3>1, <3>2, EndRefines
  <2>6. CASE sess' = [sess EXCEPT ![s] = row] /\ sess[s].status = "active"
    <3>1. \A x \in {s} : sess[x].status = "active" /\ Ended(sess'[x])
      BY <1>0, <2>1, <2>2, <2>6
    <3>2. \A x \in Sessions \ {s} : sess'[x] = sess[x]
      BY <1>0, <2>1, <2>6
    <3>3. {s} \in SUBSET Sessions
      BY <2>1
    <3>4. QED
      BY <2>1, <3>1, <3>2, <3>3, EndRefines
  <2>7. QED
    BY <2>1, <2>2, <2>3, <2>4, <2>5, <2>6 DEF Ended, Session, SessionStatus
<1>4. ASSUME RequestFallback(r) PROVE [Lifecycle!Next]_(Lifecycle!vars)
  <2>1. req[r].s \in Sessions /\ Ended(sess[req[r].s]) /\ UNCHANGED sess
    BY <1>0, <1>4 DEF RequestFallback, RequestOK, storeVars, LifeInv, OnlyEndedAreDoomed, Doomed
  <2>2. RunnerEffect(req[r].s)
    BY <1>4, <2>1, FallbackEffect DEF RequestFallback
  <2>3. QED
    BY <2>1, <2>2, DeleteRefines
<1>5. CASE UNCHANGED <<sess, ws>>
  BY <1>5, StuttersWhen
<1>6. ASSUME \/ \E s \in Sessions : ReadSession(r, s) \/ ReadExhaustedJob(r, s)
             \/ RunnerAnswers(r) \/ RunnerSaysNotFound(r)
             \/ UpsertJob(r) \/ UpsertFails(r) \/ RequeueJob(r)
      PROVE  UNCHANGED <<sess, ws>>
  BY <1>6 DEF ReadSession, ReadExhaustedJob, RunnerAnswers, RunnerSaysNotFound, UpsertJob,
              UpsertFails, RequeueJob, storeVars, runnerVars
<1>7. QED
  BY <1>1, <1>2, <1>3, <1>4, <1>5, <1>6 DEF RequestStep

LEMMA ExpiryStepRefines ==
  ASSUME TypeInv, TypeInv', LifeInv, ExpiryStep
  PROVE  [Lifecycle!Next]_(Lifecycle!vars)
<1>0. sess \in [Sessions -> Session]
  BY DEF TypeInv, StoreType
<1>1. ASSUME ExpireSweep PROVE [Lifecycle!Next]_(Lifecycle!vars)
  <2> DEFINE stale == {s \in Sessions : Expirable(sess[s])}
  <2>1. UNCHANGED ws /\ (ExpireRows(stale) \/ UNCHANGED sess)
    BY <1>1 DEF ExpireSweep, runnerVars
  <2>2. CASE UNCHANGED sess
    BY <2>1, <2>2, StuttersWhen
  <2>3. CASE ExpireRows(stale)
    <3>1. \A s \in stale : sess[s].status = "active" /\ Ended(sess'[s])
      BY <1>0, <2>3, TransitionedEnds DEF ExpireRows, Expirable, Reasons
    <3>2. \A s \in Sessions \ stale : sess'[s] = sess[s]
      BY <2>3 DEF ExpireRows
    <3>3. stale \in SUBSET Sessions
      OBVIOUS
    <3> HIDE DEF stale
    <3>4. QED
      BY <2>1, <3>1, <3>2, <3>3, EndRefines
  <2>4. QED
    BY <2>1, <2>2, <2>3
<1>2. ASSUME ExpireFallback PROVE [Lifecycle!Next]_(Lifecycle!vars)
  <2>1. expiry.cur \in Sessions /\ expiry.cur \in expiry.swept /\ UNCHANGED sess
    BY <1>2 DEF ExpireFallback, storeVars, TypeInv, ExpiryType, ExpiryOK, ExpiryState
  <2>2. Ended(sess[expiry.cur])
    BY <2>1 DEF LifeInv, OnlyEndedAreDoomed, Doomed
  <2>3. RunnerEffect(expiry.cur)
    BY <1>2, <2>1, FallbackEffect DEF ExpireFallback
  <2>4. QED
    BY <2>1, <2>2, <2>3, DeleteRefines
<1>3. ASSUME ExpireLookup \/ \E s \in Sessions : ExpireUpsert(s) PROVE UNCHANGED <<sess, ws>>
  BY <1>3 DEF ExpireLookup, ExpireUpsert, storeVars, runnerVars
<1>4. CASE UNCHANGED <<sess, ws>>
  BY <1>4, StuttersWhen
<1>5. QED
  BY <1>1, <1>2, <1>3, <1>4 DEF ExpiryStep

LEMMA WorkerStepRefines ==
  ASSUME TypeInv, TypeInv', LifeInv, WorkerStep
  PROVE  [Lifecycle!Next]_(Lifecycle!vars)
<1>1. ASSUME NEW s \in Sessions, DeleteSucceeds(s) \/ DeleteFails(s)
      PROVE  [Lifecycle!Next]_(Lifecycle!vars)
  <2>1. s \in worker.todo /\ UNCHANGED sess
    BY <1>1 DEF DeleteSucceeds, DeleteFails, storeVars
  <2>2. Ended(sess[s])
    BY <2>1 DEF LifeInv, OnlyEndedAreDoomed, Doomed
  <2>3. RunnerEffect(s)
    BY <1>1, DeleteEffect DEF DeleteSucceeds, DeleteFails
  <2>4. QED
    BY <2>1, <2>2, <2>3, DeleteRefines
<1>2. ASSUME \/ ClaimDueJobs \/ MarkJob \/ MarkFails \/ RecoverJob \/ ListMissing
             \/ \E s \in Sessions : Backfill(s)
      PROVE  UNCHANGED <<sess, ws>>
  BY <1>2 DEF ClaimDueJobs, MarkJob, MarkFails, RecoverJob, ListMissing, Backfill, storeVars,
              runnerVars
<1>3. CASE UNCHANGED <<sess, ws>>
  BY <1>3, StuttersWhen
<1>4. QED
  BY <1>1, <1>2, <1>3 DEF WorkerStep

LEMMA EnvironmentRefines ==
  ASSUME TypeInv, TypeInv', LifeInv, RunnerStep \/ ApiCrash \/ Tick
  PROVE  [Lifecycle!Next]_(Lifecycle!vars)
<1>0. sess \in [Sessions -> Session] /\ ws \in [Sessions -> Places]
  BY DEF TypeInv, StoreType, RunnerType
<1>1. ASSUME NEW s \in Sessions, RunnerTimerFires(s) PROVE [Lifecycle!Next]_(Lifecycle!vars)
  <2>1. Ended(sess[s]) /\ UNCHANGED sess
    BY <1>1 DEF RunnerTimerFires, storeVars, LifeInv, OnlyEndedAreDoomed, Doomed
  <2>2. RunnerEffect(s)
    BY <1>0, <1>1 DEF RunnerTimerFires, RunnerEffect
  <2>3. QED
    BY <2>1, <2>2, DeleteRefines
<1>2. ASSUME NEW s \in Sessions, LoseWorkspace(s) PROVE [Lifecycle!Next]_(Lifecycle!vars)
  <2>1. PhaseMap' = PhaseMap
    BY <1>2 DEF LoseWorkspace, storeVars, PhaseMap, Phase
  <2>2. Lifecycle!Lose(s)
    BY <1>2, <2>1 DEF LoseWorkspace, Lifecycle!Lose, PhaseMap
  <2>3. QED
    BY <2>2 DEF Lifecycle!Next
<1>3. ASSUME RunnerRestart \/ ApiCrash PROVE [Lifecycle!Next]_(Lifecycle!vars)
  BY <1>3, StuttersWhen DEF RunnerRestart, ApiCrash, storeVars, runnerVars
<1>4. ASSUME Tick PROVE [Lifecycle!Next]_(Lifecycle!vars)
  <2>1. \A s \in Sessions : sess'[s].status = sess[s].status
    BY <1>0, <1>4 DEF Tick, Session
  <2>2. QED
    BY <1>4, <2>1, StuttersWhen DEF Tick
<1>5. QED
  BY <1>1, <1>2, <1>3, <1>4 DEF RunnerStep

LEMMA StepRefines ==
  TypeInv /\ TypeInv' /\ LifeInv /\ [Next]_vars => [Lifecycle!Next]_(Lifecycle!vars)
<1> SUFFICES ASSUME TypeInv, TypeInv', LifeInv, [Next]_vars
             PROVE  [Lifecycle!Next]_(Lifecycle!vars)
  OBVIOUS
<1>1. CASE Next
  BY <1>1, RequestStepRefines, ExpiryStepRefines, WorkerStepRefines, EnvironmentRefines DEF Next
<1>2. CASE UNCHANGED vars
  BY <1>2, StuttersWhen DEF vars
<1>3. QED
  BY <1>1, <1>2

(* The lifecycle ends a session once. *)
LEMMA EndedStays ==
  ASSUME TypeInv, TypeInv', [Lifecycle!Next]_(Lifecycle!vars)
  PROVE  \A s \in Sessions : Ended(sess[s]) => Ended(sess'[s])
<1>0. sess \in [Sessions -> Session] /\ sess' \in [Sessions -> Session]
  BY DEF TypeInv, StoreType
<1>1. \A s \in Sessions : PhaseMap[s] = "ended" => PhaseMap'[s] = "ended"
  BY DEF PhaseMap, Lifecycle!Next, Lifecycle!vars, Lifecycle!Provision, Lifecycle!Open,
         Lifecycle!End, Lifecycle!Delete, Lifecycle!Lose
<1>2. QED
  BY <1>0, <1>1, PhaseIsEnded DEF PhaseMap
-----------------------------------------------------------------------------
(* Results *)

(* No clean-up path ever removes the workspace of a session that has not ended. *)
THEOREM LiveWorkspacesAreSafe == Spec => []NoLiveWorkspaceDeleted
<1>1. LifeInv => NoLiveWorkspaceDeleted
  BY DEF LifeInv, OnlyEndedAreDoomed, Doomed, NoLiveWorkspaceDeleted
<1>2. QED
  BY <1>1, LifeInvariant, PTL

(* A job recorded as succeeded has no workspace left to delete. *)
THEOREM SuccessIsTrue == Spec => []SucceededMeansGone
<1>1. LifeInv => SucceededMeansGone
  BY DEF LifeInv, SuccessIsReal
<1>2. QED
  BY <1>1, LifeInvariant, PTL

(* A session that ended is never revived by a request that read it earlier. *)
THEOREM EndedSessionsStayEnded == Spec => EndedIsFinal
<1>1. TypeInv /\ TypeInv' /\ LifeInv /\ [Next]_vars
        => [\A s \in Sessions : Ended(sess[s]) => Ended(sess'[s])]_vars
  BY StepRefines, EndedStays
<1>2. QED
  BY <1>1, LifeInvariant, PTL DEF Spec, EndedIsFinal

(* Sessions and their clean-up implement the safety of the abstract lifecycle,
   whatever is stale, reordered, lost, crashed or retried. *)
THEOREM ImplementsTheLifecycle == Spec => KeepsLifecycle
<1>1. Init => Lifecycle!Init
  BY DEF Init, Lifecycle!Init, Phase, NoRow
<1>2. QED
  BY <1>1, StepRefines, LifeInvariant, PTL DEF Spec, KeepsLifecycle, Lifecycle!Spec
-----------------------------------------------------------------------------
(* The account of the attempts: what is spent on a workspace that still exists has been
   paid for by faults. *)

(* The strengthening.  An attempt is under way from its claim until the runner's
   answer; only that one may be unpaid, and a job nobody made has none. *)
UnderWay(s) ==
    Held(s) /\ ~ (worker.pc \in {"mark", "recover"} /\ worker.cur = s)

PaidFor(s) ==
    \/ job[s].attempts <= faults
    \/ UnderWay(s) /\ job[s].attempts <= faults + 1

PresentIsPaid == \A s \in Sessions : ws[s] = "present" => PaidFor(s)

Unattempted == \A s \in Sessions : job[s].status = "none" => job[s].attempts = 0

PaidInv == PresentIsPaid /\ Unattempted
-----------------------------------------------------------------------------
LEMMA PaidInvInit == Init => PaidInv
  BY DEF Init, PaidInv, PresentIsPaid, Unattempted, PaidFor, NoJob

LEMMA Numbers ==
  ASSUME TypeInv
  PROVE  /\ faults \in Nat
         /\ \A s \in Sessions : job[s] \in Job /\ job[s].attempts \in Nat
<1>1. job \in [Sessions -> Job] /\ faults \in 0 .. MaxFaults /\ MaxAttempts \in Nat
  BY StoreAssumption DEF TypeInv, StoreType, FaultType
<1>2. \A row \in Job : row.attempts \in Nat
  BY <1>1 DEF Job
<1>3. QED
  BY <1>1, <1>2, CleanupAssumption

(* A step that adds no attempt, and whose end of an attempt under way is a fault
   or a removal. *)
FreeStep ==
    /\ faults' \in {faults, faults + 1}
    /\ \A s \in Sessions :
        /\ job'[s].attempts <= job[s].attempts
        /\ job'[s].status = "none" => job'[s] = job[s]
        /\ ws'[s] = "present" => ws[s] = "present" \/ job[s].attempts = 0
        /\ UnderWay(s) /\ ws'[s] = "present" => UnderWay(s)' \/ faults' = faults + 1

LEMMA FreeStepPays ==
  ASSUME TypeInv, TypeInv', PaidInv, FreeStep
  PROVE  PaidInv'
<1>1. faults \in Nat /\ faults' \in Nat
  BY Numbers DEF FreeStep
<1>2. ASSUME NEW s \in Sessions, ws'[s] = "present" PROVE PaidFor(s)'
  <2>1. job[s].attempts \in Nat
    BY Numbers
  <2>2. job'[s].attempts \in Nat
    <3>1. job' \in [Sessions -> Job] /\ MaxAttempts \in Nat
      BY StoreAssumption DEF TypeInv, StoreType
    <3>2. \A row \in Job : row.attempts \in Nat
      BY <3>1 DEF Job
    <3>3. QED
      BY <3>1, <3>2
  <2>3. CASE ws[s] # "present"
    BY <1>1, <1>2, <2>1, <2>2, <2>3 DEF FreeStep, PaidFor
  <2>4. CASE job[s].attempts <= faults
    BY <1>1, <2>1, <2>2, <2>4 DEF FreeStep, PaidFor
  <2>5. CASE UnderWay(s) /\ job[s].attempts <= faults + 1
    <3>1. faults' \in {faults, faults + 1} /\ job'[s].attempts <= job[s].attempts
      BY DEF FreeStep
    <3>2. UnderWay(s)' \/ faults' = faults + 1
      BY <1>2, <2>5 DEF FreeStep
    <3>3. \/ job'[s].attempts <= faults'
          \/ UnderWay(s)' /\ job'[s].attempts <= faults' + 1
      BY <1>1, <2>1, <2>2, <2>5, <3>1, <3>2
    <3>4. QED
      BY <3>3 DEF PaidFor
  <2>6. QED
    BY <2>3, <2>4, <2>5 DEF PaidInv, PresentIsPaid, PaidFor
<1>3. Unattempted'
  BY DEF PaidInv, Unattempted, FreeStep
<1>4. QED
  BY <1>2, <1>3 DEF PaidInv, PresentIsPaid

(* One statement on one job row: no operation but the claim adds an attempt. *)
LEMMA RowsAddNoAttempt ==
  ASSUME NEW row \in Job, row.attempts \in Nat
  PROVE  /\ \A reason, due :
                /\ Upserted(row, reason, due).attempts <= row.attempts
                /\ Upserted(row, reason, due).status # "none"
         /\ Requeued(row).attempts <= row.attempts /\ Requeued(row).status # "none"
         /\ Marked(row).attempts <= row.attempts /\ Marked(row).status # "none"
  BY DEF Upserted, Requeued, Marked, MarkedSucceeded, MarkedFailed, Job

LEMMA RequestStepPays ==
  ASSUME TypeInv, TypeInv', LifeInv, PaidInv, NEW r \in Requests, RequestStep(r)
  PROVE  PaidInv'
<1>0. /\ job \in [Sessions -> Job] /\ ws \in [Sessions -> Places]
      /\ req[r].pc # "idle" => req[r].s \in Sessions
      /\ \A s \in Sessions : job[s] \in Job /\ job[s].attempts \in Nat
  BY Numbers DEF TypeInv, StoreType, RunnerType, RequestType, RequestOK
<1>1. UNCHANGED worker
  BY DEF RequestStep, CreateWorkspace, ReadSession, ReadExhaustedJob, StoreSession, RunnerAnswers,
         RunnerSaysNotFound, TransitionSession, TransitionFails, UpsertJob, UpsertFails,
         RequestFallback, RequeueJob
<1>2. faults' \in {faults, faults + 1}
  BY DEF RequestStep, CreateWorkspace, ReadSession, ReadExhaustedJob, StoreSession, RunnerAnswers,
         RunnerSaysNotFound, TransitionSession, TransitionFails, UpsertJob, UpsertFails,
         RequestFallback, FallbackDelete, RequeueJob, Fault
<1>3. \A s \in Sessions :
          /\ job'[s].attempts <= job[s].attempts
          /\ job'[s].status = "none" => job'[s] = job[s]
  <2>1. CASE UNCHANGED job
    BY <1>0, <2>1
  <2>2. CASE req[r].pc # "idle"
             /\ \E reason, due : job' = [job EXCEPT ![req[r].s] = Upserted(@, reason, due)]
    <3>1. PICK reason, due : job' = [job EXCEPT ![req[r].s] = Upserted(@, reason, due)]
      BY <2>2
    <3>2. QED
      BY <1>0, <2>2, <3>1, RowsAddNoAttempt
  <2>3. CASE req[r].pc # "idle" /\ job' = [job EXCEPT ![req[r].s] = Requeued(@)]
    BY <1>0, <2>3, RowsAddNoAttempt
  <2>4. QED
    BY <2>1, <2>2, <2>3
    DEF RequestStep, CreateWorkspace, ReadSession, ReadExhaustedJob, StoreSession, RunnerAnswers,
        RunnerSaysNotFound, TransitionSession, TransitionFails, UpsertJob, UpsertFails, Upsert,
        RequestFallback, RequeueJob, storeVars
<1>4. \A s \in Sessions : ws'[s] = "present" => ws[s] = "present" \/ job[s].attempts = 0
  <2>1. CASE UNCHANGED ws
    BY <2>1
  <2>2. ASSUME NEW s \in Sessions, CreateWorkspace(r, s)
        PROVE  \A x \in Sessions : ws'[x] = "present" => ws[x] = "present" \/ job[x].attempts = 0
    <3>1. sess[s].status = "none"
      BY <2>2 DEF CreateWorkspace, LifeInv, InsertsAreFresh
    <3>2. job[s].attempts = 0
      BY <3>1 DEF LifeInv, OnlyEndedAreDoomed, Doomed, Ended, Reasons, PaidInv, Unattempted
    <3>3. QED
      BY <1>0, <2>2, <3>2 DEF CreateWorkspace
  <2>3. CASE RequestFallback(r)
    <3>1. RunnerEffect(req[r].s)
      BY <1>0, <2>3, FallbackEffect DEF RequestFallback
    <3>2. QED
      BY <3>1 DEF RunnerEffect
  <2>4. QED
    BY <2>1, <2>2, <2>3
    DEF RequestStep, ReadSession, ReadExhaustedJob, StoreSession, RunnerAnswers,
        RunnerSaysNotFound, TransitionSession, TransitionFails, UpsertJob, UpsertFails,
        RequeueJob, runnerVars
<1>5. FreeStep
  BY <1>1, <1>2, <1>3, <1>4 DEF FreeStep, UnderWay, Held
<1>6. QED
  BY <1>5, FreeStepPays

LEMMA ExpiryStepPays ==
  ASSUME TypeInv, TypeInv', PaidInv, ExpiryStep
  PROVE  PaidInv'
<1>0. /\ job \in [Sessions -> Job] /\ ws \in [Sessions -> Places]
      /\ expiry.pc = "fallback" => expiry.cur \in Sessions
      /\ \A s \in Sessions : job[s] \in Job /\ job[s].attempts \in Nat
  BY Numbers DEF TypeInv, StoreType, RunnerType, ExpiryType, ExpiryOK, ExpiryState
<1>1. UNCHANGED worker /\ faults' \in {faults, faults + 1}
  BY DEF ExpiryStep, ExpireSweep, ExpireLookup, ExpireUpsert, ExpireFallback, FallbackDelete, Fault
<1>2. \A s \in Sessions :
          /\ job'[s].attempts <= job[s].attempts
          /\ job'[s].status = "none" => job'[s] = job[s]
  <2>1. CASE UNCHANGED job
    BY <1>0, <2>1
  <2>2. ASSUME NEW s \in Sessions, ExpireUpsert(s), ~ UNCHANGED job
        PROVE  \A x \in Sessions : /\ job'[x].attempts <= job[x].attempts
                                   /\ job'[x].status = "none" => job'[x] = job[x]
    <3>1. job' = [job EXCEPT ![s] = Upserted(@, "expired", 0)]
      BY <2>2 DEF ExpireUpsert, Upsert
    <3>2. QED
      BY <1>0, <3>1, RowsAddNoAttempt
  <2>3. QED
    BY <2>1, <2>2 DEF ExpiryStep, ExpireSweep, ExpireLookup, ExpireFallback, storeVars
<1>3. \A s \in Sessions : ws'[s] = "present" => ws[s] = "present"
  <2>1. CASE ExpireFallback
    <3>1. RunnerEffect(expiry.cur)
      BY <1>0, <2>1, FallbackEffect DEF ExpireFallback
    <3>2. QED
      BY <3>1 DEF RunnerEffect
  <2>2. QED
    BY <2>1 DEF ExpiryStep, ExpireSweep, ExpireLookup, ExpireUpsert, runnerVars
<1>4. FreeStep
  BY <1>1, <1>2, <1>3 DEF FreeStep, UnderWay, Held
<1>5. QED
  BY <1>4, FreeStepPays

(* A success leaves nothing to pay for; a failure is itself a fault. *)
LEMMA DeletePays ==
  ASSUME TypeInv, TypeInv', PaidInv, NEW s \in Sessions, DeleteSucceeds(s) \/ DeleteFails(s)
  PROVE  PaidInv'
<1>0. /\ job \in [Sessions -> Job] /\ ws \in [Sessions -> Places] /\ worker \in WorkerState
      /\ \A x \in Sessions : job[x] \in Job /\ job[x].attempts \in Nat
  BY Numbers DEF TypeInv, StoreType, RunnerType, WorkerType, WorkerOK
<1>1. \A x \in Sessions : job'[x].attempts <= job[x].attempts /\ job'[x] = job[x]
  BY <1>0 DEF DeleteSucceeds, DeleteFails, storeVars
<1>2. RunnerEffect(s)
  BY DeleteEffect DEF DeleteSucceeds, DeleteFails
<1>3. \A x \in Sessions : ws'[x] = "present" => ws[x] = "present"
  BY <1>2 DEF RunnerEffect
<1>4. \A x \in Sessions :
          UnderWay(x) /\ ws'[x] = "present" => UnderWay(x)' \/ faults' = faults + 1
  <2>1. CASE DeleteSucceeds(s)
    <3>1. ws'[s] # "present"
      BY <1>0, <2>1 DEF DeleteSucceeds, RunnerDelete
    <3>2. worker'.pc = "mark" /\ worker'.cur = s /\ worker'.todo = worker.todo
      BY <1>0, <2>1 DEF DeleteSucceeds, WorkerState
    <3>3. QED
      BY <3>1, <3>2 DEF UnderWay, Held
  <2>2. CASE DeleteFails(s)
    BY <2>2 DEF DeleteFails, Fault
  <2>3. QED
    BY <2>1, <2>2
<1>5. faults' \in {faults, faults + 1}
  BY DEF DeleteSucceeds, DeleteFails, Fault
<1>6. FreeStep
  BY <1>1, <1>3, <1>4, <1>5 DEF FreeStep
<1>7. QED
  BY <1>6, FreeStepPays

(* Recording an outcome ends no attempt but the answered one. *)
LEMMA RecordPays ==
  ASSUME TypeInv, TypeInv', PaidInv, MarkJob \/ MarkFails \/ RecoverJob
  PROVE  PaidInv'
<1>0. /\ job \in [Sessions -> Job] /\ worker \in WorkerState /\ WorkerOK(worker)
      /\ \A x \in Sessions : job[x] \in Job /\ job[x].attempts \in Nat
  BY Numbers DEF TypeInv, StoreType, WorkerType, WorkerOK
<1>1. worker.pc \in {"mark", "recover"} /\ worker.cur \in Sessions /\ worker.cur \in worker.todo
  BY <1>0 DEF MarkJob, MarkFails, RecoverJob, WorkerOK, WorkerState
<1>2. \A x \in Sessions :
          /\ job'[x].attempts <= job[x].attempts
          /\ job'[x].status = "none" => job'[x] = job[x]
  <2>1. CASE UNCHANGED job
    BY <1>0, <2>1
  <2>2. CASE job' = [job EXCEPT ![worker.cur] = Marked(@)]
    BY <1>0, <1>1, <2>2, RowsAddNoAttempt
  <2>3. CASE \E reason, due : job' = [job EXCEPT ![worker.cur] = Upserted(@, reason, due)]
    <3>1. PICK reason, due : job' = [job EXCEPT ![worker.cur] = Upserted(@, reason, due)]
      BY <2>3
    <3>2. QED
      BY <1>0, <1>1, <3>1, RowsAddNoAttempt
  <2>4. QED
    BY <2>1, <2>2, <2>3 DEF MarkJob, MarkFails, RecoverJob, Upsert
<1>3. ws' = ws /\ faults' \in {faults, faults + 1}
  BY DEF MarkJob, MarkFails, RecoverJob, runnerVars, Fault
<1>4. \A x \in Sessions : UnderWay(x) => UnderWay(x)' \/ faults' = faults + 1
  <2>1. CASE MarkFails
    BY <2>1 DEF MarkFails, Fault
  <2>2. CASE worker' = WorkerNext
    <3>1. ASSUME NEW x \in Sessions, UnderWay(x) PROVE UnderWay(x)'
      <4>1. x \in worker.todo /\ x # worker.cur
        BY <1>1, <3>1 DEF UnderWay, Held
      <4>2. worker' = [worker EXCEPT !.pc = "delete", !.todo = @ \ {worker.cur},
                                     !.cur = NoSession, !.ok = FALSE,
                                     !.copy[worker.cur] = NoCopy]
        BY <2>2, <4>1 DEF WorkerNext
      <4>3. worker'.pc = "delete" /\ x \in worker'.todo
        BY <1>0, <4>1, <4>2 DEF WorkerState
      <4>4. QED
        BY <4>3 DEF UnderWay, Held
    <3>2. QED
      BY <3>1
  <2>3. QED
    BY <2>1, <2>2 DEF MarkJob, RecoverJob
<1>5. FreeStep
  BY <1>2, <1>3, <1>4 DEF FreeStep
<1>6. QED
  BY <1>5, FreeStepPays

LEMMA ListingPays ==
  ASSUME TypeInv, TypeInv', PaidInv, ListMissing \/ \E s \in Sessions : Backfill(s)
  PROVE  PaidInv'
<1>0. /\ job \in [Sessions -> Job] /\ worker.pc \in {"list", "backfill"}
      /\ \A s \in Sessions : job[s] \in Job /\ job[s].attempts \in Nat
  BY Numbers DEF TypeInv, StoreType, ListMissing, Backfill
<1>1. ws' = ws /\ faults' \in {faults, faults + 1}
  BY DEF ListMissing, Backfill, runnerVars, Fault
<1>2. \A s \in Sessions :
          /\ job'[s].attempts <= job[s].attempts
          /\ job'[s].status = "none" => job'[s] = job[s]
  <2>1. CASE UNCHANGED job
    BY <1>0, <2>1
  <2>2. ASSUME NEW s \in Sessions, Backfill(s), ~ UNCHANGED job
        PROVE  \A x \in Sessions : /\ job'[x].attempts <= job[x].attempts
                                   /\ job'[x].status = "none" => job'[x] = job[x]
    <3>1. job' = [job EXCEPT ![s] = Upserted(@, worker.copy[s].reason, worker.copy[s].left)]
      BY <2>2 DEF Backfill, Upsert
    <3>2. QED
      BY <1>0, <3>1, RowsAddNoAttempt
  <2>3. QED
    BY <2>1, <2>2 DEF ListMissing, storeVars
<1>3. FreeStep
  BY <1>0, <1>1, <1>2 DEF FreeStep, UnderWay, Held
<1>4. QED
  BY <1>3, FreeStepPays

(* The claim: nothing was under way, so all earlier attempts are paid for; it
   either hands the new ones to the sweep or is a fault. *)
LEMMA ClaimPays ==
  ASSUME TypeInv, PaidInv, ClaimDueJobs
  PROVE  PaidInv'
<1>0. /\ faults \in Nat /\ ws' = ws /\ worker.pc = "idle"
      /\ \A s \in Sessions : job[s] \in Job /\ job[s].attempts \in Nat
  BY Numbers DEF ClaimDueJobs, runnerVars
<1>1. \A s \in Sessions : ws[s] = "present" => job[s].attempts <= faults
  BY <1>0 DEF PaidInv, PresentIsPaid, PaidFor, UnderWay, Held
<1>2. PICK batch \in Batches({s \in Sessions : Claimable(job[s])}) :
        \/ /\ ClaimRows(batch) /\ faults' = faults
           /\ batch = {} \/ (worker'.pc = "delete" /\ worker'.todo = batch)
        \/ faults' = faults + 1 /\ (ClaimRows(batch) \/ UNCHANGED job)
  <2>1. PICK b \in Batches({s \in Sessions : Claimable(job[s])}) :
            \/ /\ ClaimRows(b)
               /\ worker' =
                    IF b = {} THEN Listing
                    ELSE [IdleWorker EXCEPT
                            !.pc = "delete", !.todo = b,
                            !.copy = [s \in Sessions |->
                                IF s \in b
                                THEN [reason |-> job[s].reason,
                                      attempts |-> job[s].attempts + 1, left |-> 0]
                                ELSE NoCopy]]
               /\ UNCHANGED faults
            \/ /\ b # {}
               /\ Fault("store")
               /\ ClaimRows(b) \/ UNCHANGED job
               /\ worker' = Listing
    BY Zenon DEF ClaimDueJobs
  <2>2. CASE b = {}
    BY <2>1, <2>2 DEF Fault
  <2>3. CASE Fault("store") /\ (ClaimRows(b) \/ UNCHANGED job)
    BY <2>3 DEF Fault
  <2>4. ASSUME b # {}, ClaimRows(b), UNCHANGED faults,
               NEW copy, worker' = [IdleWorker EXCEPT !.pc = "delete", !.todo = b, !.copy = copy]
        PROVE  worker'.pc = "delete" /\ worker'.todo = b
    BY <2>4 DEF IdleWorker
  <2>5. QED
    BY <2>1, <2>2, <2>3, <2>4
<1>3. \A s \in batch : s \in Sessions /\ job[s].status # "none"
  BY DEF Batches, Claimable
<1>4. \A s \in Sessions : Claimed(job[s]).attempts = job[s].attempts + 1
                         /\ Claimed(job[s]).status = "running"
  BY <1>0 DEF Claimed, Job
<1>5. \A s \in Sessions :
          \/ job'[s] = job[s]
          \/ s \in batch /\ job'[s].attempts = job[s].attempts + 1 /\ job'[s].status = "running"
  BY <1>2, <1>4 DEF ClaimRows
<1>6. Unattempted'
  BY <1>5 DEF PaidInv, Unattempted
<1>7. ASSUME NEW s \in Sessions, ws'[s] = "present" PROVE PaidFor(s)'
  <2>1. job[s].attempts <= faults /\ job[s].attempts \in Nat
    BY <1>0, <1>1, <1>7
  <2>2. CASE job'[s] = job[s]
    BY <1>0, <1>2, <2>1, <2>2 DEF PaidFor
  <2>3. CASE faults' = faults + 1 /\ job'[s].attempts = job[s].attempts + 1
    BY <1>0, <2>1, <2>3 DEF PaidFor
  <2>4. CASE /\ s \in batch /\ job'[s].attempts = job[s].attempts + 1
             /\ faults' = faults /\ worker'.pc = "delete" /\ worker'.todo = batch
    <3>1. UnderWay(s)'
      BY <2>4 DEF UnderWay, Held
    <3>2. job'[s].attempts <= faults' + 1
      BY <1>0, <2>1, <2>4
    <3>3. QED
      BY <3>1, <3>2 DEF PaidFor
  <2>5. QED
    BY <1>2, <1>5, <2>2, <2>3, <2>4
<1>8. QED
  BY <1>6, <1>7 DEF PaidInv, PresentIsPaid

LEMMA EnvironmentPays ==
  ASSUME TypeInv, TypeInv', PaidInv, RunnerStep \/ ApiCrash \/ Tick
  PROVE  PaidInv'
<1>0. /\ job \in [Sessions -> Job] /\ ws \in [Sessions -> Places]
      /\ \A s \in Sessions : job[s] \in Job /\ job[s].attempts \in Nat
  BY Numbers DEF TypeInv, StoreType, RunnerType
<1>1. CASE RunnerStep
  <2>1. job' = job /\ worker' = worker /\ faults' \in {faults, faults + 1}
    BY <1>1 DEF RunnerStep, RunnerTimerFires, LoseWorkspace, RunnerRestart, storeVars, Fault
  <2>2. \A s \in Sessions : ws'[s] = "present" => ws[s] = "present"
    BY <1>0, <1>1 DEF RunnerStep, RunnerTimerFires, LoseWorkspace, RunnerRestart
  <2>3. FreeStep
    BY <1>0, <2>1, <2>2 DEF FreeStep, UnderWay, Held
  <2>4. QED
    BY <2>3, FreeStepPays
<1>2. CASE ApiCrash
  <2>1. FreeStep
    BY <1>0, <1>2 DEF ApiCrash, Fault, FreeStep, storeVars, runnerVars
  <2>2. QED
    BY <2>1, FreeStepPays
<1>3. CASE Tick
  <2>1. \A s \in Sessions : /\ job'[s].attempts = job[s].attempts
                            /\ job'[s].status = job[s].status
    BY <1>0, <1>3 DEF Tick, Job
  <2>2. /\ worker'.pc = worker.pc /\ worker'.todo = worker.todo /\ worker'.cur = worker.cur
        /\ ws' = ws /\ faults' = faults
    BY <1>3 DEF Tick, TypeInv, WorkerType, WorkerOK, WorkerState
  <2>3. QED
    BY <2>1, <2>2 DEF PaidInv, PresentIsPaid, Unattempted, PaidFor, UnderWay, Held
<1>4. QED
  BY <1>1, <1>2, <1>3

LEMMA PaidInvStep ==
  TypeInv /\ TypeInv' /\ LifeInv /\ PaidInv /\ [Next]_vars => PaidInv'
<1> SUFFICES ASSUME TypeInv, TypeInv', LifeInv, PaidInv, [Next]_vars
             PROVE  PaidInv'
  OBVIOUS
<1>1. CASE Next
  BY <1>1, RequestStepPays, ExpiryStepPays, DeletePays, RecordPays, ListingPays, ClaimPays,
     EnvironmentPays
  DEF Next, WorkerStep
<1>2. CASE UNCHANGED vars
  BY <1>2 DEF vars, PaidInv, PresentIsPaid, Unattempted, PaidFor, UnderWay, Held
<1>3. QED
  BY <1>1, <1>2
-----------------------------------------------------------------------------
(* Results *)

LEMMA PaidInvariant == Spec => [](TypeInv /\ PaidInv)
  BY PaidInvInit, PaidInvStep, LifeInvariant, PTL DEF Spec

(* While a workspace still exists, every attempt of its job but the current one
   was paid for by a fault: no race between handlers and sweeps wastes one. *)
THEOREM NoAttemptIsWasted == Spec => []AttemptsPaidByFaults
<1>1. TypeInv /\ PaidInv => AttemptsPaidByFaults
  <2> SUFFICES ASSUME TypeInv, PaidInv, NEW s \in Sessions, ws[s] = "present"
               PROVE  job[s].attempts <= faults + 1
    BY DEF AttemptsPaidByFaults
  <2>1. faults \in Nat /\ job[s].attempts \in Nat
    BY Numbers
  <2>2. QED
    BY <2>1 DEF PaidInv, PresentIsPaid, PaidFor
<1>2. QED
  BY <1>1, PaidInvariant, PTL
-----------------------------------------------------------------------------
(* No workspace is forgotten, as long as no store statement fails and the API
   process does not die: then only deletes fail. *)
OnlyRunnerFails ==
    PromptWrites /\ FaultKinds \cap {"store", "crash"} = {} /\ MaxAttempts >= 2

(* Who is about to enqueue a job for a session it has read or made overdue. *)
Writer(s) ==
    \/ \E r \in Requests : req[r].pc \in {"update", "upsert"} /\ req[r].s = s
    \/ expiry.pc \in {"lookup", "upsert"} /\ s \in expiry.swept

(* The strengthening.  The upsert makes a job pending whatever its attempts, so
   those that are still to come must find it at the start of its life: a writer
   read an active session, which has no job, and no tick has passed since, so the
   clean-up loop has swept at most once. *)
WritesAreEarly ==
    \A s \in Sessions : ws[s] = "present" /\ Writer(s) =>
        /\ job[s].attempts <= 1
        /\ "worker" \in bell => job[s].attempts = 0

RunningIsHeld == \A s \in Sessions : job[s].status = "running" => Held(s)

BackfillIsFresh ==
    worker.pc = "backfill" => \A s \in worker.todo : job[s].attempts = 0

ExhaustedIsKept ==
    \A s \in Sessions : ws[s] = "present" /\ Exhausted(job[s].attempts) =>
        Held(s) \/ job[s].status = "failed"

NoFallback ==
    /\ \A r \in Requests : req[r].pc # "fallback"
    /\ expiry.pc # "fallback"
    /\ worker.pc # "recover"

KeptInv ==
    WritesAreEarly /\ RunningIsHeld /\ BackfillIsFresh /\ ExhaustedIsKept /\ NoFallback

AllInv == TypeInv /\ LifeInv /\ PaidInv
-----------------------------------------------------------------------------
LEMMA KeptInvInit == OnlyRunnerFails /\ Init => KeptInv
  BY DEF OnlyRunnerFails, Init, KeptInv, WritesAreEarly, RunningIsHeld, BackfillIsFresh,
         ExhaustedIsKept, NoFallback, Writer, Held, Exhausted, NoJob, IdleRequest, IdleExpiry,
         IdleWorker

LEMMA NoStoreFault ==
  ASSUME OnlyRunnerFails
  PROVE  ~ Fault("store") /\ ~ Fault("crash")
  BY DEF OnlyRunnerFails, Fault

LEMMA FewAreNotExhausted ==
  ASSUME OnlyRunnerFails, NEW n \in Nat, n <= 1
  PROVE  ~ Exhausted(n)
  BY StoreAssumption DEF OnlyRunnerFails, Exhausted

LEMMA ExhaustedGrows ==
  ASSUME NEW n \in Nat, NEW m \in Nat, m <= n, Exhausted(m)
  PROVE  Exhausted(n)
  BY StoreAssumption DEF Exhausted

(* A session in use, or not yet opened, has no job and hence no attempts. *)
LEMMA UnendedIsUnattempted ==
  ASSUME AllInv, NEW s \in Sessions, ~ Ended(sess[s])
  PROVE  /\ job[s].status = "none" /\ job[s].attempts = 0
         /\ ~ Doomed(s)
  BY DEF AllInv, LifeInv, OnlyEndedAreDoomed, Doomed, PaidInv, Unattempted

(* Writers have read a stored row. *)
LEMMA WritersAreOfRows ==
  ASSUME AllInv, NEW s \in Sessions, Writer(s)
  PROVE  sess[s].status # "none"
  BY DEF AllInv, LifeInv, OnlyEndedAreDoomed, Doomed, CopiesAreOfRows, Writer, Ended, Reasons

(* What a request or the expiry loop may do: enqueue for a session it is a writer
   of, requeue from the start, and become a writer of a session in use. *)
EnqueueStep ==
    /\ UNCHANGED <<worker, bell>>
    /\ \A s \in Sessions :
        /\ \/ job'[s] = job[s]
           \/ job'[s].status = "pending" /\ job'[s].attempts = 0
           \/ /\ job'[s].status = "pending" /\ job'[s].attempts = job[s].attempts
              /\ Writer(s)
        /\ ws'[s] = "present" => ws[s] = "present" \/ sess[s].status = "none"
        /\ Writer(s)' => Writer(s) \/ sess[s].status = "active" \/ ws'[s] # "present"

LEMMA EnqueueKeeps ==
  ASSUME OnlyRunnerFails, AllInv, KeptInv, EnqueueStep
  PROVE  WritesAreEarly' /\ RunningIsHeld' /\ BackfillIsFresh' /\ ExhaustedIsKept'
<1>0. /\ UNCHANGED <<worker, bell>> /\ worker.todo \subseteq Sessions
      /\ \A s \in Sessions : job[s].attempts \in Nat
  BY Numbers DEF AllInv, EnqueueStep, TypeInv, WorkerType, WorkerOK, WorkerState
<1>1. \A s \in Sessions : job'[s].attempts = job[s].attempts \/ job'[s].attempts = 0
  BY DEF EnqueueStep
<1>2. \A s \in Sessions : ws'[s] = "present" => ws[s] = "present" \/ job[s].attempts = 0
  BY UnendedIsUnattempted DEF EnqueueStep, Ended, Reasons
<1>3. WritesAreEarly'
  <2>1. ASSUME NEW s \in Sessions, ws'[s] = "present", Writer(s)'
        PROVE  job'[s].attempts <= 1 /\ ("worker" \in bell' => job'[s].attempts = 0)
    <3>1. CASE job[s].attempts = 0
      BY <1>1, <3>1
    <3>2. CASE ws[s] = "present" /\ Writer(s)
      BY <1>0, <1>1, <3>2 DEF KeptInv, WritesAreEarly
    <3>3. CASE sess[s].status = "active"
      BY <3>1, <3>3, UnendedIsUnattempted DEF Ended, Reasons
    <3>4. QED
      BY <1>2, <2>1, <3>1, <3>2, <3>3 DEF EnqueueStep
  <2>2. QED
    BY <2>1 DEF WritesAreEarly
<1>4. RunningIsHeld'
  BY <1>0 DEF KeptInv, RunningIsHeld, Held, EnqueueStep
<1>5. BackfillIsFresh'
  BY <1>0, <1>1 DEF KeptInv, BackfillIsFresh
<1>6. ExhaustedIsKept'
  <2>1. ASSUME NEW s \in Sessions, ws'[s] = "present", Exhausted(job'[s].attempts)
        PROVE  Held(s)' \/ job'[s].status = "failed"
    <3>1. job[s].attempts \in Nat /\ job[s].attempts # 0 /\ job'[s].attempts = job[s].attempts
      BY <1>0, <1>1, <2>1, FewAreNotExhausted
    <3>2. ws[s] = "present"
      BY <1>2, <2>1, <3>1
    <3>3. ~ Writer(s)
      BY <2>1, <3>1, <3>2, FewAreNotExhausted DEF KeptInv, WritesAreEarly
    <3>4. job'[s] = job[s]
      BY <3>1, <3>3 DEF EnqueueStep
    <3>5. QED
      BY <1>0, <2>1, <3>2, <3>4 DEF KeptInv, ExhaustedIsKept, Held
  <2>2. QED
    BY <2>1 DEF ExhaustedIsKept
<1>7. QED
  BY <1>3, <1>4, <1>5, <1>6

LEMMA RequestStepKeeps ==
  ASSUME OnlyRunnerFails, AllInv, KeptInv, NEW r \in Requests, RequestStep(r)
  PROVE  KeptInv'
<1>0. /\ job \in [Sessions -> Job] /\ req \in [Requests -> RequestState]
      /\ req[r].pc # "idle" => req[r].s \in Sessions
      /\ ws \in [Sessions -> Places]
      /\ ~ Fault("store") /\ req[r].pc # "fallback"
  BY NoStoreFault
  DEF AllInv, TypeInv, StoreType, RequestType, RequestOK, RunnerType, KeptInv, NoFallback
<1>1. UNCHANGED <<worker, bell>> /\ expiry'.pc = expiry.pc /\ expiry'.swept \subseteq expiry.swept
  <2>1. CASE UNCHANGED <<worker, bell, expiry>>
    BY <2>1
  <2>2. CASE TransitionSession(r)
    BY <2>2 DEF TransitionSession, WriteTransition, AllInv, TypeInv, ExpiryType, ExpiryOK,
                ExpiryState
  <2>3. QED
    BY <1>0, <2>1, <2>2
    DEF RequestStep, CreateWorkspace, ReadSession, ReadExhaustedJob, StoreSession, RunnerAnswers,
        RunnerSaysNotFound, TransitionFails, UpsertJob, UpsertFails, RequestFallback, RequeueJob
<1>2. \A s \in Sessions :
          \/ job'[s] = job[s]
          \/ job'[s].status = "pending" /\ job'[s].attempts = 0
          \/ /\ job'[s].status = "pending" /\ job'[s].attempts = job[s].attempts
             /\ Writer(s)
  <2>1. CASE UNCHANGED job
    BY <2>1
  <2>2. CASE UpsertJob(r)
    <3>1. Writer(req[r].s)
      BY <2>2 DEF UpsertJob, Writer
    <3>2. QED
      BY <1>0, <2>2, <3>1 DEF UpsertJob, Upsert, Upserted, Job
  <2>3. CASE RequeueJob(r)
    BY <1>0, <2>3 DEF RequeueJob, Requeued, Job
  <2>4. QED
    BY <1>0, <2>1, <2>2, <2>3
    DEF RequestStep, CreateWorkspace, ReadSession, ReadExhaustedJob, StoreSession, RunnerAnswers,
        RunnerSaysNotFound, TransitionSession, TransitionFails, UpsertFails, RequestFallback,
        storeVars
<1>3. \A s \in Sessions : ws'[s] = "present" => ws[s] = "present" \/ sess[s].status = "none"
  <2>1. CASE UNCHANGED ws
    BY <2>1
  <2>2. ASSUME NEW s \in Sessions, CreateWorkspace(r, s)
        PROVE  \A x \in Sessions : ws'[x] = "present" => ws[x] = "present" \/ sess[x].status = "none"
    BY <1>0, <2>2 DEF CreateWorkspace, AllInv, LifeInv, InsertsAreFresh
  <2>3. QED
    BY <1>0, <2>1, <2>2
    DEF RequestStep, ReadSession, ReadExhaustedJob, StoreSession, RunnerAnswers,
        RunnerSaysNotFound, TransitionSession, TransitionFails, UpsertJob, UpsertFails,
        RequestFallback, RequeueJob, runnerVars
<1>4. ASSUME NEW s \in Sessions, Writer(s)'
      PROVE  Writer(s) \/ sess[s].status = "active" \/ ws'[s] # "present"
  <2>1. \A q \in Requests \ {r} : req'[q] = req[q]
    BY <1>0
    DEF RequestStep, CreateWorkspace, ReadSession, ReadExhaustedJob, StoreSession, RunnerAnswers,
        RunnerSaysNotFound, TransitionSession, TransitionFails, UpsertJob, UpsertFails,
        RequestFallback, RequeueJob, Request, Reply
  <2>2. CASE req'[r].pc \in {"update", "upsert"} /\ req'[r].s = s
    <3>1. \A pc, x, reason, left :
              Request(r, pc, x, reason, left) => req'[r].pc = pc /\ req'[r].s = x
      BY <1>0 DEF Request
    <3>2. Reply(r) => req'[r].pc = "idle"
      BY <1>0 DEF Reply, IdleRequest
    <3>3. UNCHANGED req => req'[r] = req[r]
      OBVIOUS
    <3>4. ASSUME NEW x \in Sessions, ReadSession(r, x) PROVE x = s /\ sess[s].status = "active"
      <4>1. req'[r].s = x
        BY <3>1, <3>4 DEF ReadSession
      <4>2. QED
        BY <2>2, <3>4, <4>1 DEF ReadSession
    <3>5. CASE RunnerSaysNotFound(r)
      <4>1. req[r].s = s /\ ws[s] # "present" /\ ws' = ws
        BY <2>2, <3>1, <3>5 DEF RunnerSaysNotFound, runnerVars
      <4>2. QED
        BY <4>1
    <3>6. CASE TransitionSession(r)
      <4>1. req[r].s = s /\ req[r].pc = "update"
        BY <2>2, <3>1, <3>6 DEF TransitionSession
      <4>2. QED
        BY <4>1 DEF Writer
    <3>7. CASE \E x \in Sessions : CreateWorkspace(r, x) \/ ReadExhaustedJob(r, x)
      BY <2>2, <3>1, <3>2, <3>3, <3>7 DEF CreateWorkspace, ReadExhaustedJob
    <3>8. CASE StoreSession(r) \/ RunnerAnswers(r) \/ TransitionFails(r) \/ UpsertJob(r) \/ RequeueJob(r)
      BY <2>2, <3>2, <3>8 DEF StoreSession, RunnerAnswers, TransitionFails, UpsertJob, RequeueJob
    <3>9. ~ UpsertFails(r) /\ ~ RequestFallback(r)
      BY <1>0 DEF UpsertFails, RequestFallback
    <3>10. QED
      BY <3>4, <3>5, <3>6, <3>7, <3>8, <3>9 DEF RequestStep
  <2>3. CASE expiry'.pc \in {"lookup", "upsert"} /\ s \in expiry'.swept
    BY <1>1, <2>3 DEF Writer
  <2>4. QED
    BY <1>4, <2>1, <2>2, <2>3 DEF Writer
<1>5. EnqueueStep
  BY <1>1, <1>2, <1>3, <1>4 DEF EnqueueStep
<1>6. NoFallback'
  <2>1. \A q \in Requests : req'[q].pc # "fallback"
    <3>1. \A q \in Requests \ {r} : req'[q] = req[q]
      BY <1>0
      DEF RequestStep, CreateWorkspace, ReadSession, ReadExhaustedJob, StoreSession, RunnerAnswers,
          RunnerSaysNotFound, TransitionSession, TransitionFails, UpsertJob, UpsertFails,
          RequestFallback, RequeueJob, Request, Reply
    <3>2. \A pc, x, reason, left : Request(r, pc, x, reason, left) => req'[r].pc = pc
      BY <1>0 DEF Request
    <3>3. Reply(r) => req'[r].pc = "idle"
      BY <1>0 DEF Reply, IdleRequest
    <3>4. req'[r].pc # "fallback"
      BY <1>0, <3>2, <3>3
      DEF RequestStep, CreateWorkspace, ReadSession, ReadExhaustedJob, StoreSession,
          RunnerAnswers, RunnerSaysNotFound, TransitionSession, TransitionFails, UpsertJob,
          UpsertFails, RequestFallback, RequeueJob
    <3>5. QED
      BY <3>1, <3>4 DEF KeptInv, NoFallback
  <2>2. QED
    BY <1>1, <2>1 DEF KeptInv, NoFallback
<1>7. QED
  BY <1>5, <1>6, EnqueueKeeps DEF KeptInv

LEMMA ExpiryStepKeeps ==
  ASSUME OnlyRunnerFails, AllInv, KeptInv, ExpiryStep
  PROVE  KeptInv'
<1>0. /\ job \in [Sessions -> Job] /\ expiry \in ExpiryState
      /\ ~ Fault("store") /\ expiry.pc # "fallback"
  BY NoStoreFault
  DEF AllInv, TypeInv, StoreType, ExpiryType, ExpiryOK, KeptInv, NoFallback
<1>1. UNCHANGED <<worker, ws, req>>
  BY <1>0 DEF ExpiryStep, ExpireSweep, ExpireLookup, ExpireUpsert, ExpireFallback, runnerVars
<1>n. /\ \A s : ExpiryNext(s).swept \subseteq expiry.swept /\ ExpiryNext(s).pc # "fallback"
      /\ [expiry EXCEPT !.pc = "upsert"].swept = expiry.swept
      /\ [expiry EXCEPT !.pc = "upsert"].pc # "fallback"
      /\ IdleExpiry.swept = {} /\ IdleExpiry.pc # "fallback"
      /\ \A S : [IdleExpiry EXCEPT !.pc = "lookup", !.swept = S].pc # "fallback"
  BY <1>0 DEF ExpiryNext, IdleExpiry, ExpiryState
<1>2. expiry'.pc # "fallback"
  <2>1. ExpireSweep => expiry'.pc # "fallback"
    BY <1>0, <1>n DEF ExpireSweep
  <2>2. ExpireLookup \/ (\E s \in Sessions : ExpireUpsert(s)) => expiry'.pc # "fallback"
    BY <1>0, <1>n DEF ExpireLookup, ExpireUpsert
  <2>3. QED
    BY <1>0, <2>1, <2>2 DEF ExpiryStep, ExpireFallback
<1>3. CASE ExpireSweep
  <2>1. /\ job' = job /\ bell' = bell \ {"expiry"}
        /\ expiry'.pc = "lookup"
        /\ \A s \in Sessions : s \in expiry'.swept => sess[s].status = "active"
    BY <1>0, <1>3 DEF ExpireSweep, IdleExpiry, Expirable
  <2>2. ASSUME NEW s \in Sessions, ws'[s] = "present", Writer(s)'
        PROVE  job'[s].attempts <= 1 /\ ("worker" \in bell' => job'[s].attempts = 0)
    <3>1. CASE Writer(s)
      BY <1>1, <2>1, <2>2, <3>1 DEF KeptInv, WritesAreEarly
    <3>2. CASE s \in expiry'.swept
      BY <2>1, <3>2, UnendedIsUnattempted DEF Ended, Reasons
    <3>3. QED
      BY <1>1, <2>2, <3>1, <3>2 DEF Writer
  <2>3. RunningIsHeld' /\ BackfillIsFresh' /\ ExhaustedIsKept'
    BY <1>1, <2>1 DEF KeptInv, RunningIsHeld, BackfillIsFresh, ExhaustedIsKept, Held
  <2>4. QED
    BY <1>1, <1>2, <2>2, <2>3 DEF KeptInv, WritesAreEarly, NoFallback
<1>4. CASE ExpireLookup \/ \E s \in Sessions : ExpireUpsert(s)
  <2>1. UNCHANGED bell /\ expiry.pc \in {"lookup", "upsert"}
    BY <1>4 DEF ExpireLookup, ExpireUpsert
  <2>2. expiry'.swept \subseteq expiry.swept
    BY <1>0, <1>4, <1>n DEF ExpireLookup, ExpireUpsert
  <2>3. \A s \in Sessions : Writer(s)' => Writer(s)
    BY <1>1, <2>1, <2>2 DEF Writer
  <2>4. \A s \in Sessions :
            \/ job'[s] = job[s]
            \/ /\ job'[s].status = "pending" /\ job'[s].attempts = job[s].attempts
               /\ Writer(s)
    <3>1. CASE ExpireLookup
      BY <3>1 DEF ExpireLookup, storeVars
    <3>2. ASSUME NEW s \in Sessions, ExpireUpsert(s)
          PROVE  /\ job' = [job EXCEPT ![s] = Upserted(@, "expired", 0)]
                 /\ Writer(s)
      BY <1>0, <3>2 DEF ExpireUpsert, Upsert, Writer
    <3>3. \A row \in Job : /\ Upserted(row, "expired", 0).status = "pending"
                           /\ Upserted(row, "expired", 0).attempts = row.attempts
      BY DEF Upserted, Job
    <3>4. QED
      BY <1>0, <1>4, <3>1, <3>2, <3>3
  <2>5. EnqueueStep
    BY <1>1, <2>1, <2>3, <2>4 DEF EnqueueStep
  <2>6. QED
    BY <1>1, <1>2, <2>5, EnqueueKeeps DEF KeptInv, NoFallback
<1>5. QED
  BY <1>0, <1>3, <1>4 DEF ExpiryStep, ExpireFallback

(* The worker's own moves touch no writer, and never make the bell ring. *)
LEMMA WritersUnmoved ==
  ASSUME UNCHANGED <<req, expiry>>
  PROVE  \A s \in Sessions : Writer(s)' <=> Writer(s)
  BY DEF Writer

LEMMA ClaimKeeps ==
  ASSUME OnlyRunnerFails, AllInv, KeptInv, ClaimDueJobs
  PROVE  KeptInv'
<1>0. /\ ~ Fault("store") /\ worker.pc = "idle" /\ "worker" \in bell /\ "worker" \notin bell'
      /\ UNCHANGED <<ws, req, expiry>>
      /\ \A s \in Sessions : job[s] \in Job /\ job[s].attempts \in Nat
  BY NoStoreFault, Numbers DEF AllInv, ClaimDueJobs, runnerVars
<1>1. PICK batch, w :
        /\ ClaimRows(batch) /\ worker' = w
        /\ \/ batch = {} /\ w.pc = "list"
           \/ w.pc = "delete" /\ w.todo = batch
  <2>1. PICK batch \in Batches({s \in Sessions : Claimable(job[s])}) :
          /\ ClaimRows(batch)
          /\ worker' =
                IF batch = {} THEN Listing
                ELSE [IdleWorker EXCEPT
                        !.pc = "delete", !.todo = batch,
                        !.copy = [s \in Sessions |->
                            IF s \in batch
                            THEN [reason |-> job[s].reason,
                                  attempts |-> job[s].attempts + 1, left |-> 0]
                            ELSE NoCopy]]
    BY <1>0, Zenon DEF ClaimDueJobs
  <2>2. \A b, copy :
            LET w == [IdleWorker EXCEPT !.pc = "delete", !.todo = b, !.copy = copy] IN
            w.pc = "delete" /\ w.todo = b
    BY DEF IdleWorker
  <2>3. Listing.pc = "list"
    BY DEF Listing, IdleWorker
  <2>4. CASE batch = {}
    BY <2>1, <2>3, <2>4
  <2>5. CASE batch # {}
    <3>1. worker'.pc = "delete" /\ worker'.todo = batch
      BY <2>1, <2>2, <2>5
    <3>2. QED
      BY <2>1, <3>1
  <2>6. QED
    BY <2>4, <2>5
<1>2. \A s \in Sessions :
          /\ s \notin batch => job'[s] = job[s]
          /\ job'[s].attempts \in {job[s].attempts, job[s].attempts + 1}
          /\ s \in batch => Held(s)'
  BY <1>0, <1>1 DEF ClaimRows, Claimed, Job, Held
<1>3. WritesAreEarly'
  BY <1>0, <1>2, WritersUnmoved DEF KeptInv, WritesAreEarly
<1>4. RunningIsHeld'
  BY <1>0, <1>2 DEF KeptInv, RunningIsHeld, Held
<1>5. BackfillIsFresh' /\ NoFallback'
  BY <1>0, <1>1 DEF KeptInv, BackfillIsFresh, NoFallback
<1>6. ExhaustedIsKept'
  BY <1>0, <1>2 DEF KeptInv, ExhaustedIsKept, Held
<1>7. QED
  BY <1>3, <1>4, <1>5, <1>6 DEF KeptInv

LEMMA DeleteKeeps ==
  ASSUME OnlyRunnerFails, AllInv, KeptInv, NEW s \in Sessions, DeleteSucceeds(s) \/ DeleteFails(s)
  PROVE  KeptInv'
<1>0. /\ UNCHANGED <<job, req, expiry, bell>>
      /\ worker.pc = "delete" /\ worker'.pc = "mark" /\ worker'.todo = worker.todo
  BY DEF DeleteSucceeds, DeleteFails, storeVars, AllInv, TypeInv, WorkerType, WorkerOK, WorkerState
<1>1. \A x \in Sessions : ws'[x] = "present" => ws[x] = "present"
  BY DeleteEffect DEF DeleteSucceeds, DeleteFails, RunnerEffect, AllInv
<1>2. QED
  BY <1>0, <1>1, WritersUnmoved
  DEF KeptInv, WritesAreEarly, RunningIsHeld, BackfillIsFresh, ExhaustedIsKept, NoFallback, Held

(* A recorded failure is a failed job; a recorded success has no workspace. *)
LEMMA RecordKeeps ==
  ASSUME OnlyRunnerFails, AllInv, KeptInv, MarkJob
  PROVE  KeptInv'
<1>0. /\ job \in [Sessions -> Job] /\ worker \in WorkerState /\ worker.pc = "mark"
      /\ worker.cur \in Sessions /\ worker.cur \in worker.todo
      /\ UNCHANGED <<ws, req, expiry, bell>>
      /\ job' = [job EXCEPT ![worker.cur] = Marked(@)] /\ worker' = WorkerNext
      /\ \A s \in Sessions : job[s] \in Job /\ job[s].attempts \in Nat
  BY Numbers
  DEF MarkJob, AllInv, TypeInv, StoreType, WorkerType, WorkerOK, WorkerState, runnerVars
<1>1. /\ \A s \in Sessions \ {worker.cur} : job'[s] = job[s]
      /\ job'[worker.cur].attempts = job[worker.cur].attempts
      /\ job'[worker.cur].status \in {"failed", "succeeded"}
      /\ ~ worker.ok => job'[worker.cur].status = "failed"
  BY <1>0 DEF Marked, MarkedSucceeded, MarkedFailed, Job
<1>2. worker.ok => ws[worker.cur] # "present"
  BY <1>0 DEF AllInv, LifeInv, SuccessIsReal, Gone
<1>3. worker'.pc \in {"delete", "list"}
  BY <1>0 DEF WorkerNext, Listing, IdleWorker, WorkerState
<1>4. \A s \in Sessions \ {worker.cur} : Held(s) => Held(s)'
  <2>1. CASE worker.todo = {worker.cur}
    BY <2>1 DEF Held
  <2>2. CASE worker.todo # {worker.cur}
    <3>1. worker'.pc = "delete" /\ worker'.todo = worker.todo \ {worker.cur}
      BY <1>0, <2>2 DEF WorkerNext, WorkerState
    <3>2. QED
      BY <3>1 DEF Held
  <2>3. QED
    BY <2>1, <2>2
<1>5. WritesAreEarly'
  BY <1>0, <1>1, WritersUnmoved DEF KeptInv, WritesAreEarly
<1>6. RunningIsHeld'
  BY <1>1, <1>4 DEF KeptInv, RunningIsHeld
<1>7. BackfillIsFresh' /\ NoFallback'
  BY <1>0, <1>3 DEF KeptInv, BackfillIsFresh, NoFallback
<1>8. ExhaustedIsKept'
  BY <1>0, <1>1, <1>2, <1>4 DEF KeptInv, ExhaustedIsKept
<1>9. QED
  BY <1>5, <1>6, <1>7, <1>8 DEF KeptInv

LEMMA ListingKeeps ==
  ASSUME OnlyRunnerFails, AllInv, KeptInv, ListMissing \/ \E s \in Sessions : Backfill(s)
  PROVE  KeptInv'
<1>0. /\ ~ Fault("store") /\ UNCHANGED <<ws, req, expiry, bell>>
      /\ worker.pc \in {"list", "backfill"} /\ worker \in WorkerState
      /\ job \in [Sessions -> Job]
      /\ \A s \in Sessions : job[s] \in Job /\ job[s].attempts \in Nat
  BY NoStoreFault, Numbers
  DEF AllInv, TypeInv, StoreType, WorkerType, WorkerOK, ListMissing, Backfill, runnerVars
<1>1. CASE ListMissing
  <2>1. job' = job
    BY <1>1 DEF ListMissing, storeVars
  <2>p. PICK batch, copy :
            /\ batch \in Batches({s \in Sessions : MissingJob(sess[s], job[s])})
            /\ worker' = IF batch = {} THEN IdleWorker
                         ELSE [IdleWorker EXCEPT !.pc = "backfill", !.todo = batch, !.copy = copy]
    BY <1>0, <1>1, Zenon DEF ListMissing
  <2>2. /\ worker'.pc \in {"idle", "backfill"} /\ worker'.todo \subseteq Sessions
        /\ \A s \in worker'.todo : job[s].status = "none"
    BY <2>p DEF Batches, MissingJob, IdleWorker
  <2>3. BackfillIsFresh'
    BY <2>1, <2>2 DEF BackfillIsFresh, AllInv, PaidInv, Unattempted
  <2>4. \A s \in Sessions : ~ Held(s) /\ ~ Held(s)'
    BY <1>0, <2>2 DEF Held
  <2>5. WritesAreEarly' /\ NoFallback'
    BY <1>0, <2>1, <2>2, WritersUnmoved DEF KeptInv, WritesAreEarly, NoFallback
  <2>6. RunningIsHeld' /\ ExhaustedIsKept'
    BY <1>0, <2>1, <2>4 DEF KeptInv, RunningIsHeld, ExhaustedIsKept
  <2>7. QED
    BY <2>3, <2>5, <2>6 DEF KeptInv
<1>2. ASSUME NEW s \in Sessions, Backfill(s) PROVE KeptInv'
  <2>1. /\ s \in worker.todo /\ worker.pc = "backfill"
        /\ job' = [job EXCEPT ![s] = Upserted(@, worker.copy[s].reason, worker.copy[s].left)]
        /\ worker' = IF worker.todo = {s} THEN IdleWorker
                     ELSE [worker EXCEPT !.todo = @ \ {s}, !.copy[s] = NoCopy]
    BY <1>0, <1>2 DEF Backfill, Upsert
  <2>2. /\ \A x \in Sessions \ {s} : job'[x] = job[x]
        /\ job'[s].status = "pending" /\ job'[s].attempts = job[s].attempts
    BY <1>0, <2>1 DEF Upserted, Job
  <2>3. job[s].attempts = 0
    BY <2>1 DEF KeptInv, BackfillIsFresh
  <2>4. worker'.pc \in {"idle", "backfill"} /\ worker'.todo \subseteq worker.todo
    BY <1>0, <2>1 DEF IdleWorker, WorkerState
  <2>5. \A x \in Sessions : ~ Held(x) /\ ~ Held(x)'
    BY <1>0, <2>4 DEF Held
  <2>6. BackfillIsFresh'
    BY <1>0, <2>1, <2>2, <2>4 DEF KeptInv, BackfillIsFresh, WorkerState
  <2>7. WritesAreEarly' /\ NoFallback'
    BY <1>0, <2>2, <2>4, WritersUnmoved DEF KeptInv, WritesAreEarly, NoFallback
  <2>8. RunningIsHeld'
    BY <2>2, <2>5 DEF KeptInv, RunningIsHeld
  <2>9. ExhaustedIsKept'
    <3>1. ~ Exhausted(job'[s].attempts)
      BY <2>2, <2>3, FewAreNotExhausted
    <3>2. QED
      BY <1>0, <2>2, <2>5, <3>1 DEF KeptInv, ExhaustedIsKept
  <2>10. QED
    BY <2>6, <2>7, <2>8, <2>9 DEF KeptInv
<1>3. QED
  BY <1>1, <1>2

LEMMA EnvironmentKeeps ==
  ASSUME OnlyRunnerFails, AllInv, KeptInv, RunnerStep \/ Tick
  PROVE  KeptInv'
<1>0. /\ job \in [Sessions -> Job] /\ ws \in [Sessions -> Places] /\ worker \in WorkerState
      /\ req \in [Requests -> RequestState]
  BY DEF AllInv, TypeInv, StoreType, RunnerType, WorkerType, WorkerOK, RequestType
<1>1. CASE RunnerStep
  <2>1. UNCHANGED <<job, req, expiry, worker, bell>>
    BY <1>1 DEF RunnerStep, RunnerTimerFires, LoseWorkspace, RunnerRestart, storeVars
  <2>2. \A s \in Sessions : ws'[s] = "present" => ws[s] = "present"
    BY <1>0, <1>1 DEF RunnerStep, RunnerTimerFires, LoseWorkspace, RunnerRestart
  <2>3. QED
    BY <2>1, <2>2, WritersUnmoved
    DEF KeptInv, WritesAreEarly, RunningIsHeld, BackfillIsFresh, ExhaustedIsKept, NoFallback, Held
<1>2. CASE Tick
  <2>1. \A s \in Sessions : /\ job'[s].attempts = job[s].attempts
                            /\ job'[s].status = job[s].status
    BY <1>0, <1>2 DEF Tick, Job
  <2>2. /\ worker'.pc = worker.pc /\ worker'.todo = worker.todo
        /\ ws' = ws /\ expiry' = expiry
        /\ \A r \in Requests : req'[r].pc = req[r].pc /\ req'[r].s = req[r].s
    BY <1>0, <1>2 DEF Tick, WorkerState, RequestState
  <2>3. \A s \in Sessions : ~ Writer(s)
    BY <1>2 DEF Tick, OnlyRunnerFails, Writing, WritingRequest, Writer
  <2>4. \A s \in Sessions : ~ Writer(s)'
    BY <2>2, <2>3 DEF Writer
  <2>5. /\ worker.todo \subseteq Sessions
        /\ \A s \in Sessions : Held(s)' <=> Held(s)
    BY <1>0, <2>2 DEF Held, WorkerState
  <2>6. QED
    BY <2>1, <2>2, <2>4, <2>5
    DEF KeptInv, WritesAreEarly, RunningIsHeld, BackfillIsFresh, ExhaustedIsKept, NoFallback
<1>3. QED
  BY <1>1, <1>2

LEMMA KeptInvStep ==
  OnlyRunnerFails /\ AllInv /\ KeptInv /\ [Next]_vars => KeptInv'
<1> SUFFICES ASSUME OnlyRunnerFails, AllInv, KeptInv, [Next]_vars
             PROVE  KeptInv'
  OBVIOUS
<1>1. ~ ApiCrash /\ ~ MarkFails /\ ~ RecoverJob
  BY NoStoreFault DEF ApiCrash, MarkFails, RecoverJob, KeptInv, NoFallback
<1>2. CASE Next
  BY <1>1, <1>2, RequestStepKeeps, ExpiryStepKeeps, ClaimKeeps, DeleteKeeps, RecordKeeps,
     ListingKeeps, EnvironmentKeeps
  DEF Next, WorkerStep
<1>3. CASE UNCHANGED vars
  BY <1>3 DEF vars, KeptInv, WritesAreEarly, RunningIsHeld, BackfillIsFresh, ExhaustedIsKept,
              NoFallback, Writer, Held
<1>4. QED
  BY <1>2, <1>3

(* When only deletes fail, the workspace of an ended session that still exists is
   in somebody's hands: the listing, a job with attempts left, the running sweep
   or the operator's list. *)
THEOREM NothingIsForgotten ==
  ASSUME OnlyRunnerFails
  PROVE  Spec => []NoForgottenWorkspace
<1>1. Spec => []AllInv
  BY LifeInvariant, PaidInvariant, PTL DEF AllInv
<1>2. Spec => []KeptInv
  BY <1>1, KeptInvInit, KeptInvStep, PTL DEF Spec
<1>3. AllInv /\ KeptInv => NoForgottenWorkspace
  <2> SUFFICES ASSUME AllInv, KeptInv, NEW s \in Sessions, ws[s] = "present",
                      job[s].status # "none", ~ Held(s), ~ ListedExhausted(job[s])
               PROVE  /\ job[s].status \in {"pending", "running", "failed"}
                      /\ ~ Exhausted(job[s].attempts)
    BY DEF NoForgottenWorkspace
  <2>1. job[s].status # "succeeded"
    BY DEF AllInv, LifeInv, SuccessIsReal, SucceededMeansGone, Gone
  <2>2. job[s].status \in JobStatus
    BY Numbers DEF AllInv, Job
  <2>3. ~ Exhausted(job[s].attempts)
    BY DEF KeptInv, ExhaustedIsKept, ListedExhausted
  <2>4. QED
    BY <2>1, <2>2, <2>3 DEF JobStatus
<1>4. QED
  BY <1>1, <1>2, <1>3, PTL
=============================================================================
