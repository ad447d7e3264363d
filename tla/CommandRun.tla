-------------------------------- MODULE CommandRun --------------------------------
(***************************************************************************)
(* RunCommandWithEvents: commands run at the same time on one recorder,    *)
(* each with a snapshot before and after, a process with a deadline, and   *)
(* what that process leaves running with its output open.  RunCommand is   *)
(* the part from Launch to Collect.  What the command is does not matter   *)
(* here: CommandLine has how it is read.                                   *)
(***************************************************************************)
EXTENDS Naturals, Sequences

CONSTANTS
    Commands,     (* calls of RunCommandWithEvents                             *)
    HelpersEnd    (* whether what a command leaves running ends by itself      *)

ASSUME CommandRunAssumption == HelpersEnd \in BOOLEAN

VARIABLES
    pc,        (* progress of each call                                        *)
    process,   (* its git process: none, alive, exited or killed               *)
    helper,    (* a process started by git that holds its output open          *)
    deadline,  (* the context's deadline has passed                            *)
    outcome,   (* what runCommand returned: none, result, timeout or error     *)
    snapshotError,  (* the snapshot after the command failed                   *)
    events     (* the recorder's events, over all calls                        *)

vars == <<pc, process, helper, deadline, outcome, snapshotError, events>>

Init ==
    /\ pc = [c \in Commands |-> "parse"]
    /\ process = [c \in Commands |-> "none"] /\ helper = [c \in Commands |-> FALSE]
    /\ deadline = [c \in Commands |-> FALSE]
    /\ outcome = [c \in Commands |-> "none"]
    /\ snapshotError = [c \in Commands |-> FALSE]
    /\ events = <<>>

Goes(c, from, to) == pc[c] = from /\ pc' = [pc EXCEPT ![c] = to]
Record(c, type, launched, result) ==
    events' = Append(events, [of |-> c, type |-> type, launched |-> launched, result |-> result])
-----------------------------------------------------------------------------
(* The command is not one, is not git's, or the repository cannot be read. *)
Refuse(c) ==
    /\ Goes(c, "parse", "refused")
    /\ Record(c, "finished", FALSE, "error")
    /\ UNCHANGED <<process, helper, deadline, outcome, snapshotError>>

PreSnapshot(c) ==
    /\ Goes(c, "parse", "started")
    /\ UNCHANGED <<process, helper, deadline, outcome, snapshotError, events>>

RecordStarted(c) ==
    /\ Goes(c, "started", "launch")
    /\ Record(c, "started", FALSE, "none")
    /\ UNCHANGED <<process, helper, deadline, outcome, snapshotError>>

(* Mutant: the context is cancelled at once. *)
LaunchKilled(c) ==
    /\ Goes(c, "launch", "wait")
    /\ process' = [process EXCEPT ![c] = "killed"]
    /\ UNCHANGED <<helper, deadline, outcome, snapshotError, events>>

Launch(c) ==
    /\ Goes(c, "launch", "wait")
    /\ process' = [process EXCEPT ![c] = "alive"]
    /\ UNCHANGED <<helper, deadline, outcome, snapshotError, events>>

LaunchFails(c) ==
    /\ Goes(c, "launch", "post")
    /\ outcome' = [outcome EXCEPT ![c] = "error"]
    /\ UNCHANGED <<process, helper, deadline, snapshotError, events>>

(* git starts another process, which inherits its output. *)
StartHelper(c) ==
    /\ process[c] = "alive" /\ ~helper[c]
    /\ helper' = [helper EXCEPT ![c] = TRUE]
    /\ UNCHANGED <<pc, process, deadline, outcome, snapshotError, events>>

HelperEnds(c) ==
    /\ HelpersEnd /\ helper[c]
    /\ helper' = [helper EXCEPT ![c] = FALSE]
    /\ UNCHANGED <<pc, process, deadline, outcome, snapshotError, events>>

Exit(c) ==
    /\ process[c] = "alive"
    /\ process' = [process EXCEPT ![c] = "exited"]
    /\ UNCHANGED <<pc, helper, deadline, outcome, snapshotError, events>>

(* Mutant: the deadline passes, and nothing is killed. *)
DeadlineOnly(c) ==
    /\ pc[c] = "wait" /\ ~deadline[c]
    /\ deadline' = [deadline EXCEPT ![c] = TRUE]
    /\ UNCHANGED <<pc, process, helper, outcome, snapshotError, events>>

(* CommandContext kills the process, and only it. *)
Deadline(c) ==
    /\ pc[c] = "wait" /\ ~deadline[c]
    /\ deadline' = [deadline EXCEPT ![c] = TRUE]
    /\ process' = [process EXCEPT ![c] = IF @ = "alive" THEN "killed" ELSE @]
    /\ UNCHANGED <<pc, helper, outcome, snapshotError, events>>

(* Mutant: the deadline is not looked at. *)
CollectResult(c) ==
    /\ process[c] \in {"exited", "killed"} /\ ~helper[c]
    /\ Goes(c, "wait", "post")
    /\ outcome' = [outcome EXCEPT ![c] = "result"]
    /\ UNCHANGED <<process, helper, deadline, snapshotError, events>>

(* Run returns when the process has ended and its output is closed; the deadline is
   looked at first. *)
Collect(c) ==
    /\ process[c] \in {"exited", "killed"} /\ ~helper[c]
    /\ Goes(c, "wait", "post")
    /\ outcome' = [outcome EXCEPT ![c] = IF deadline[c] THEN "timeout" ELSE "result"]
    /\ UNCHANGED <<process, helper, deadline, snapshotError, events>>

(* The snapshot after the command, which may fail. *)
PostSnapshot(c) ==
    /\ Goes(c, "post", "finished")
    /\ snapshotError' \in {snapshotError, [snapshotError EXCEPT ![c] = TRUE]}
    /\ UNCHANGED <<process, helper, deadline, outcome, events>>

(* Mutant: a failed snapshot returns before the event. *)
RecordUnlessFailed(c) ==
    /\ Goes(c, "finished", "done")
    /\ IF snapshotError[c] THEN UNCHANGED events ELSE Record(c, "finished", TRUE, outcome[c])
    /\ UNCHANGED <<process, helper, deadline, outcome, snapshotError>>

RecordFinished(c) ==
    /\ Goes(c, "finished", "done")
    /\ Record(c, "finished", TRUE, outcome[c])
    /\ UNCHANGED <<process, helper, deadline, outcome, snapshotError>>

Next == \E c \in Commands :
    \/ Refuse(c) \/ PreSnapshot(c) \/ RecordStarted(c) \/ Launch(c) \/ LaunchFails(c)
    \/ StartHelper(c) \/ HelperEnds(c) \/ Exit(c) \/ Deadline(c) \/ Collect(c)
    \/ PostSnapshot(c) \/ RecordFinished(c)

Spec == Init /\ [][Next]_vars

(* The runner goes on and time passes; helpers end only if they are of that kind; a
   command need not exit, but it starts only so many helpers. *)
FairSpec ==
    /\ Spec
    /\ \A c \in Commands :
        /\ WF_vars(Refuse(c) \/ PreSnapshot(c)) /\ WF_vars(RecordStarted(c))
        /\ WF_vars(Launch(c) \/ LaunchFails(c))
        /\ WF_vars(Deadline(c)) /\ WF_vars(HelperEnds(c)) /\ WF_vars(Collect(c))
        /\ WF_vars(PostSnapshot(c)) /\ WF_vars(RecordFinished(c))
-----------------------------------------------------------------------------
(* Properties *)

EventsOf(c) == {i \in DOMAIN events : events[i].of = c}

(* The values each variable takes; a killed process had passed its deadline. *)
TypeOK ==
    /\ pc \in [Commands -> {"parse", "refused", "started", "launch", "wait", "post", "finished", "done"}]
    /\ process \in [Commands -> {"none", "alive", "exited", "killed"}]
    /\ helper \in [Commands -> BOOLEAN] /\ snapshotError \in [Commands -> BOOLEAN]
    /\ deadline \in [Commands -> BOOLEAN]
    /\ \A c \in Commands : process[c] = "killed" => deadline[c]
    /\ outcome \in [Commands -> {"none", "result", "timeout", "error"}]

(* A call's events are a start, or none, and then one end: a call that has returned
   has recorded its end, and no failure in between loses it. *)
Started(c) == \E i \in EventsOf(c) : EventsOf(c) = {i} /\ events[i].type = "started"
Refused(c) == \E i \in EventsOf(c) : EventsOf(c) = {i} /\ events[i].type = "finished"
Paired(c) ==
    \E i, j \in EventsOf(c) :
        /\ i < j /\ EventsOf(c) = {i, j}
        /\ events[i].type = "started" /\ events[j].type = "finished"

EventsPaired ==
    \A c \in Commands :
        /\ pc[c] = "refused" => Refused(c)
        /\ pc[c] = "done" => Paired(c)
        /\ pc[c] \notin {"refused", "done"} => EventsOf(c) = {} \/ Started(c)

(* The event of a launched command's end has its outcome, whatever became of the
   snapshot after it; a process that was killed is never told as a result. *)
OutcomeRecorded ==
    \A i \in DOMAIN events :
        LET e == events[i]
        IN e.type = "finished" /\ e.launched =>
            /\ e.result = outcome[e.of] /\ e.result # "none"
            /\ process[e.of] = "killed" => e.result = "timeout"

(* A command that outlives its time-out is ended: the call returns. *)
CallsReturn == \A c \in Commands : <>(pc[c] \in {"refused", "done"})
=============================================================================
