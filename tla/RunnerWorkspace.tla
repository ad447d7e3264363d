---------------------------- MODULE RunnerWorkspace ----------------------------
(***************************************************************************)
(* One workspace directory of the runner and those who work in it: the     *)
(* request that creates it, resets, the user's shell and commands, the     *)
(* capture of a snapshot, the removal, and a crash of the runner.          *)
(*                                                                         *)
(* Nothing locks the directory, so a step is one file operation or one git *)
(* command.  A file's content, and a commit, is the moment it was made;    *)
(* the template's content is always the same and is Standard.  Any git     *)
(* command may fail for reasons outside the model (a lock held by another  *)
(* git, a full disk).                                                      *)
(***************************************************************************)
EXTENDS Naturals, Sequences

CONSTANTS
    Resets,      (* the requests that reset the workspace                    *)
    Creation,    (* the request that creates it                              *)
    MaxEdits,    (* bound on the changes made by the user                    *)
    Snapshots    (* whether snapshots are taken in this instance             *)

VARIABLES
    dir,       (* the directory exists                                         *)
    files,     (* its files: name -> content                                   *)
    repo,      (* .git: whether it exists, the index, the branch's commits     *)
    pc, todo,  (* where each request is, and the names it has left to do       *)
    deletion,  (* the removal of the directory                                 *)
    snapshot,  (* the capture of a snapshot                                    *)
    clock,     (* the moment of the last change by the user                    *)
    since,     (* when a reset listed the directory                            *)
    disturbed, (* who else has changed the directory since: others, a reset    *)
    moments    (* what has been true since the snapshot began: <<HEAD, clean>> *)

vars == <<dir, files, repo, pc, todo, deletion, snapshot, clock, since, disturbed, moments>>

Template == {"README.md", ".gitignore"}
Names == Template \cup {"work"}
InOrder == <<".git", ".gitignore", "README.md", "work">>      (* what os.ReadDir sorts by *)
Standard == 0
Requests == Resets \cup {Creation}

NoFiles == [n \in {} |-> Standard]
TemplateFiles == [n \in Template |-> Standard]
NoRepo == [exists |-> FALSE, index |-> NoFiles, log |-> <<>>]
Commit(tree, at) == [tree |-> tree, at |-> at]

Tip(r) == IF r.log = <<>> THEN Commit(NoFiles, 0) ELSE r.log[Len(r.log)]
Clean(r, f) == r.index = f /\ Tip(r).tree = f
View(r, f) == <<Tip(r), Clean(r, f)>>

KindOf(by) == IF by \in Resets THEN "reset" ELSE "other"

(* Every change of the directory is one the other requests did not make, and one
   more moment of a snapshot under way. *)
Changed(by) ==
    /\ disturbed' = [r \in Requests |->
                        IF r = by THEN disturbed[r] ELSE disturbed[r] \cup {KindOf(by)}]
    /\ moments' = IF snapshot.pc = "idle" THEN moments ELSE moments \cup {View(repo', files')}

Untouched == UNCHANGED <<dir, files, repo, disturbed, moments>>

Init ==
    /\ dir = FALSE /\ files = NoFiles /\ repo = NoRepo
    /\ pc = [r \in Requests |-> "idle"] /\ todo = [r \in Requests |-> {}]
    /\ deletion = "idle"
    /\ snapshot = [pc |-> "idle", head |-> Commit(NoFiles, 0), clean |-> FALSE]
    /\ clock = 0 /\ since = [r \in Requests |-> 0]
    /\ disturbed = [r \in Requests |-> {}]
    /\ moments = {}

Known == pc[Creation] = "done"     (* the id of the workspace has been returned *)
-----------------------------------------------------------------------------
(* CreateWorkspace and resetWorkspaceContents share their second half. *)

To(r, next) == pc' = [pc EXCEPT ![r] = next]

(* The directory of a known id is there, and it is not outside the root. *)
resolveWorkspacePath == dir

(* os.MkdirTemp *)
MakeDirectory ==
    /\ pc[Creation] = "idle"
    /\ dir' = TRUE
    /\ pc' = [pc EXCEPT ![Creation] = "write"]
    /\ todo' = [todo EXCEPT ![Creation] = Template]
    /\ UNCHANGED <<files, repo, deletion, snapshot, clock, since, disturbed, moments>>

(* Mutant: names that start with a dot are not listed. *)
ListVisible(r) ==
    /\ Known /\ pc[r] \in {"idle", "failed"}
    /\ IF resolveWorkspacePath THEN To(r, "remove") ELSE To(r, "missing")
    /\ todo' = [todo EXCEPT ![r] = {n \in DOMAIN files : n # ".gitignore"}]
    /\ since' = [since EXCEPT ![r] = clock]
    /\ disturbed' = [disturbed EXCEPT ![r] = {}]
    /\ UNCHANGED <<dir, files, repo, deletion, snapshot, clock, moments>>

(* Mutant: only what the template and git made is listed. *)
ListTemplate(r) ==
    /\ Known /\ pc[r] \in {"idle", "failed"}
    /\ IF resolveWorkspacePath THEN To(r, "remove") ELSE To(r, "missing")
    /\ todo' = [todo EXCEPT ![r] = Template \cup {".git"}]
    /\ since' = [since EXCEPT ![r] = clock]
    /\ disturbed' = [disturbed EXCEPT ![r] = {}]
    /\ UNCHANGED <<dir, files, repo, deletion, snapshot, clock, moments>>

(* resolveWorkspacePath and os.ReadDir; one who resets again starts anew. *)
List(r) ==
    /\ Known /\ pc[r] \in {"idle", "failed"}
    /\ IF resolveWorkspacePath THEN To(r, "remove") ELSE To(r, "missing")
    /\ todo' = [todo EXCEPT ![r] = DOMAIN files \cup (IF repo.exists THEN {".git"} ELSE {})]
    /\ since' = [since EXCEPT ![r] = clock]
    /\ disturbed' = [disturbed EXCEPT ![r] = {}]
    /\ UNCHANGED <<dir, files, repo, deletion, snapshot, clock, moments>>

(* os.RemoveAll of the first entry left: no error when it is gone already. *)
FirstOf(S) == InOrder[CHOOSE i \in 1 .. 4 : InOrder[i] \in S /\ \A j \in 1 .. i - 1 : InOrder[j] \notin S]

RemoveEntry(r) ==
    /\ pc[r] = "remove" /\ todo[r] # {}
    /\ LET n == FirstOf(todo[r]) IN
          /\ todo' = [todo EXCEPT ![r] = @ \ {n}]
          /\ files' = [m \in DOMAIN files \ {n} |-> files[m]]
          /\ repo' = IF n = ".git" THEN NoRepo ELSE repo
    /\ Changed(r)
    /\ UNCHANGED <<dir, pc, deletion, snapshot, clock, since>>

AllRemoved(r) ==
    /\ pc[r] = "remove" /\ todo[r] = {}
    /\ To(r, "write")
    /\ todo' = [todo EXCEPT ![r] = Template]
    /\ Untouched /\ UNCHANGED <<deletion, snapshot, clock, since>>

(* Mutant: a missing directory is made before a file is written. *)
WriteWithDirectory(r) ==
    /\ pc[r] = "write"
    /\ \E n \in todo[r] :
          /\ todo' = [todo EXCEPT ![r] = @ \ {n}]
          /\ dir' = TRUE
          /\ files' = [m \in DOMAIN files \cup {n} |-> IF m = n THEN Standard ELSE files[m]]
    /\ UNCHANGED <<repo, pc, deletion, snapshot, clock, since>> /\ Changed(r)

(* InitStandardTemplate, in the order of a map: any.  os.WriteFile makes no directory. *)
Write(r) ==
    /\ pc[r] = "write" /\ dir
    /\ \E n \in todo[r] :
          /\ todo' = [todo EXCEPT ![r] = @ \ {n}]
          /\ files' = [m \in DOMAIN files \cup {n} |-> IF m = n THEN Standard ELSE files[m]]
    /\ UNCHANGED <<dir, repo, pc, deletion, snapshot, clock, since>> /\ Changed(r)

(* Mutant: git init of a path, which makes the directory. *)
GitInitPath(r) ==
    /\ pc[r] = "write" /\ todo[r] = {}
    /\ repo' = [repo EXCEPT !.exists = TRUE]
    /\ To(r, "config")
    /\ UNCHANGED <<dir, files, todo, deletion, snapshot, clock, since>> /\ Changed(r)

(* git init leaves a repository that exists as it is. *)
GitInit(r) ==
    /\ pc[r] = "write" /\ todo[r] = {} /\ dir
    /\ repo' = [repo EXCEPT !.exists = TRUE]
    /\ To(r, "config")
    /\ UNCHANGED <<dir, files, todo, deletion, snapshot, clock, since>> /\ Changed(r)

(* The two git config commands. *)
GitConfig(r) ==
    /\ pc[r] = "config" /\ dir /\ repo.exists
    /\ To(r, "add")
    /\ Untouched /\ UNCHANGED <<todo, deletion, snapshot, clock, since>>

GitAdd(r) ==
    /\ pc[r] = "add" /\ dir /\ repo.exists
    /\ repo' = [repo EXCEPT !.index = files]
    /\ To(r, "commit")
    /\ UNCHANGED <<dir, files, todo, deletion, snapshot, clock, since>> /\ Changed(r)

(* git commit, which needs something to commit. *)
Committable == repo.exists /\ repo.index # Tip(repo).tree

GitCommit(r) ==
    /\ pc[r] = "commit" /\ dir /\ Committable
    /\ repo' = [repo EXCEPT !.log = Append(@, Commit(repo.index, clock))]
    /\ To(r, "done")
    /\ UNCHANGED <<dir, files, todo, deletion, snapshot, clock, since>> /\ Changed(r)

(* What a request that is over no longer needs. *)
Over(S) ==
    /\ todo' = [r \in Requests |-> IF r \in S THEN {} ELSE todo[r]]
    /\ since' = [r \in Requests |-> IF r \in S THEN 0 ELSE since[r]]
    /\ disturbed' = [r \in Requests |-> IF r \in S THEN {} ELSE disturbed[r]]

(* Any operation may fail, and fails when what it needs is gone.  A request that
   fails leaves a reset as it is; a creation removes what it has made. *)
ResetFails(r) ==
    /\ pc[r] \in {"remove", "write", "config", "add", "commit"}
    /\ To(r, "failed") /\ Over({r})
    /\ UNCHANGED <<dir, files, repo, moments, deletion, snapshot, clock>>

CreationFails ==
    /\ pc[Creation] \in {"write", "config", "add", "commit"}
    /\ dir' = FALSE /\ files' = NoFiles /\ repo' = NoRepo
    /\ To(Creation, "failed") /\ Over({Creation})
    /\ UNCHANGED <<deletion, snapshot, clock, moments>>

RequestStep(r) ==
    \/ Write(r)
    \/ GitInit(r) \/ GitConfig(r) \/ GitAdd(r) \/ GitCommit(r)

ResetStep(r) == List(r) \/ RemoveEntry(r) \/ AllRemoved(r) \/ RequestStep(r) \/ ResetFails(r)
-----------------------------------------------------------------------------
(* The user, in the terminal or through RunCommand: a file edited or removed, git
   init, git add and commit. *)

Edit ==
    /\ Known /\ dir
    /\ \E n \in Names : files' = [m \in DOMAIN files \cup {n} |-> IF m = n THEN clock' ELSE files[m]]
    /\ UNCHANGED repo

EraseFile ==
    /\ Known /\ dir
    /\ \E n \in DOMAIN files : files' = [m \in DOMAIN files \ {n} |-> files[m]]
    /\ UNCHANGED repo

CommitAll ==
    /\ Known /\ dir /\ repo.exists /\ files # Tip(repo).tree
    /\ repo' = [repo EXCEPT !.index = files, !.log = Append(@, Commit(files, clock'))]
    /\ UNCHANGED files

InitAgain ==
    /\ Known /\ dir /\ ~repo.exists
    /\ repo' = [NoRepo EXCEPT !.exists = TRUE]
    /\ UNCHANGED files

UserStep ==
    /\ clock < MaxEdits
    /\ clock' = clock + 1
    /\ Edit \/ EraseFile \/ CommitAll \/ InitAgain
    /\ UNCHANGED <<dir, pc, todo, deletion, snapshot, since>> /\ Changed("user")
-----------------------------------------------------------------------------
(* The clean-up manager's os.RemoveAll of the directory: what it finds in it, and
   then the directory, if nothing has been made in it meanwhile. *)

EmptyDirectory ==
    /\ Known /\ dir /\ deletion = "idle"
    /\ files' = NoFiles /\ repo' = NoRepo
    /\ deletion' = "emptied"
    /\ UNCHANGED <<dir, pc, todo, snapshot, clock, since>> /\ Changed("deletion")

RemoveDirectory ==
    /\ deletion = "emptied"
    /\ IF files = NoFiles /\ ~repo.exists
       THEN dir' = FALSE /\ deletion' = "done"
       ELSE dir' = dir /\ deletion' = "idle"
    /\ UNCHANGED <<files, repo, pc, todo, snapshot, clock, since, disturbed, moments>>
-----------------------------------------------------------------------------
(* CaptureSnapshot: three git commands, of which the branch's never differs. *)

AskHead ==
    /\ Snapshots /\ Known /\ snapshot.pc = "idle" /\ resolveWorkspacePath /\ repo.log # <<>>
    /\ snapshot' = [snapshot EXCEPT !.pc = "status", !.head = Tip(repo)]
    /\ moments' = {View(repo, files)}
    /\ UNCHANGED <<dir, files, repo, pc, todo, deletion, clock, since, disturbed>>

(* Mutant: a status that fails is taken for an empty one. *)
AskStatusUnchecked ==
    /\ snapshot.pc = "status"
    /\ snapshot' = [snapshot EXCEPT !.pc = "answered",
                                    !.clean = Clean(repo, files) \/ ~dir \/ ~repo.exists]
    /\ UNCHANGED <<dir, files, repo, pc, todo, deletion, clock, since, disturbed, moments>>

AskStatus ==
    /\ snapshot.pc = "status" /\ dir /\ repo.exists
    /\ snapshot' = [snapshot EXCEPT !.pc = "answered", !.clean = Clean(repo, files)]
    /\ UNCHANGED <<dir, files, repo, pc, todo, deletion, clock, since, disturbed, moments>>

(* The answer has been read, or a command failed and there is none. *)
SnapshotOver ==
    /\ snapshot.pc # "idle"
    /\ snapshot' = [pc |-> "idle", head |-> Commit(NoFiles, 0), clean |-> FALSE]
    /\ moments' = {}
    /\ UNCHANGED <<dir, files, repo, pc, todo, deletion, clock, since, disturbed>>

SnapshotStep == AskHead \/ AskStatus \/ SnapshotOver
-----------------------------------------------------------------------------
(* The runner dies: whatever was under way stops where it is. *)
Crash ==
    /\ LET S == {r \in Requests : pc[r] \notin {"idle", "done", "missing"}} IN
          /\ pc' = [r \in Requests |-> IF r \in S THEN "failed" ELSE pc[r]]
          /\ Over(S)
    /\ deletion' = IF deletion = "done" THEN deletion ELSE "idle"
    /\ snapshot' = [pc |-> "idle", head |-> Commit(NoFiles, 0), clean |-> FALSE]
    /\ moments' = {}
    /\ UNCHANGED <<dir, files, repo, clock>>

Next ==
    \/ MakeDirectory \/ RequestStep(Creation) \/ CreationFails
    \/ \E r \in Resets : ResetStep(r)
    \/ UserStep \/ EmptyDirectory \/ RemoveDirectory \/ SnapshotStep \/ Crash

Spec == Init /\ [][Next]_vars
-----------------------------------------------------------------------------
(* The values each variable takes. *)
TypeOK ==
    /\ dir \in BOOLEAN
    /\ DOMAIN files \subseteq Names /\ \A n \in DOMAIN files : files[n] \in 0 .. clock
    /\ repo.exists \in BOOLEAN /\ DOMAIN repo.index \subseteq Names
    /\ \A i \in 1 .. Len(repo.log) : repo.log[i].at \in 0 .. clock
    /\ pc \in [Requests -> {"idle", "remove", "write", "config", "add", "commit",
                            "done", "failed", "missing"}]
    /\ todo \in [Requests -> SUBSET (Names \cup {".git"})]
    /\ deletion \in {"idle", "emptied", "done"}
    /\ snapshot.pc \in {"idle", "status", "answered"}
    /\ clock \in 0 .. MaxEdits /\ since \in [Requests -> 0 .. clock]
    /\ disturbed \in [Requests -> SUBSET {"reset", "other"}]
    /\ repo.exists \/ repo = NoRepo
    /\ dir \/ (files = NoFiles /\ ~repo.exists)

(* A reset that succeeds leaves nothing from before it listed the directory, neither
   a file nor a commit, whoever else was at work. *)
NothingOldSurvives ==
    \A r \in Resets : pc[r] = "done" =>
        /\ \A n \in DOMAIN files : files[n] = Standard \/ files[n] > since[r]
        /\ \A i \in 1 .. Len(repo.log) : repo.log[i].at >= since[r]

(* A reset that succeeds undisturbed restores the template, committed once, whatever
   an earlier reset, a crash or the user had left. *)
UndisturbedResetRestores ==
    \A r \in Resets : (pc[r] = "done" /\ disturbed[r] = {}) =>
        /\ files = TemplateFiles
        /\ Len(repo.log) = 1 /\ Clean(repo, files)

(* A directory that has been removed stays away, though resets and commands that had
   resolved its path are still under way. *)
GoneForGood == deletion = "done" => ~dir

(* Resets that overlap do not spoil each other: when all have succeeded, and nobody
   else has changed anything, the template is there and committed. *)
OverlappingResetsRestore ==
    (\A r \in Resets : pc[r] = "done" /\ disturbed[r] \subseteq {"reset"}) =>
        /\ files = TemplateFiles
        /\ Tip(repo).tree = TemplateFiles

(* What an answered snapshot shows was there while it was taken: its HEAD at one moment
   of the capture and its status at one, whatever resets and the user do meanwhile. *)
SnapshotIsRecent ==
    snapshot.pc = "answered" =>
        /\ \E m \in moments : m[1] = snapshot.head
        /\ \E m \in moments : m[2] = snapshot.clean

(* Not kept by the code: HEAD and status were true together at some moment. *)
SnapshotOfOneMoment ==
    snapshot.pc = "answered" => <<snapshot.head, snapshot.clean>> \in moments
=============================================================================
