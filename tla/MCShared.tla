------------------------------- MODULE MCShared -------------------------------
(* What requests that overlap share, in finite instances for TLC: the sessions of a
   user (CurrentSession), the schema (Migrations), the directory of a workspace
   (RunnerWorkspace) and the session of a shell (TerminalSession).

   The four share no variable, so a behaviour of all of them is one of each, with
   stutters: it is enough to let one move and keep the others where they start. *)
EXTENDS CurrentSession, TLC

CONSTANTS
    c1, c2, l1, l2, m1, m2, r1, r2, k1, k2,
    Commands, MaxRuns, MaxCrashes,          (* Migrations       *)
    Resets, Creation, MaxEdits,             (* RunnerWorkspace  *)
    Readers, Typists, Cap, MaxChunks        (* TerminalSession  *)

ASSUME SharedAssumption ==
    /\ MaxRuns \in Nat /\ MaxCrashes \in Nat
    /\ Resets # {} /\ {Creation, "user", "deletion"} \cap (Resets \cup {r1}) = {}
    /\ MaxEdits \in Nat
    /\ Cap \in Nat \ {0} /\ MaxChunks \in Nat

VARIABLES
    part,   (* the part that moves *)
    applied, recorded, cmd, runs, crashes,
    dir, files, repo, pc, todo, deletion, snapshot, clock, since, disturbed, moments,
    shell, pty, written, pumped, pump, monitor, release, closed, closeErr, subs, chan,
    stream, handler, outcome, joined, seen, hand, client, sock, panicked

Schema == INSTANCE Migrations
Workspace == INSTANCE RunnerWorkspace WITH Snapshots <- FALSE
Capture == INSTANCE RunnerWorkspace WITH Snapshots <- TRUE, Resets <- {r1}
Session == INSTANCE TerminalSession

schemaVars == <<applied, recorded, cmd, runs, crashes>>
workspaceVars == <<dir, files, repo, pc, todo, deletion, snapshot, clock, since, disturbed, moments>>
sessionVars == <<shell, pty, written, pumped, pump, monitor, release, closed, closeErr, subs,
                 chan, stream, handler, outcome, joined, seen, hand, client, sock, panicked>>
allVars == <<part, vars, schemaVars, workspaceVars, sessionVars>>

PartsInit ==
    /\ part \in {"rows", "schema", "workspace", "capture", "session"}
    /\ Init /\ Schema!Init /\ Session!Init
    /\ IF part = "capture" THEN Capture!Init ELSE Workspace!Init

PartsNext ==
    /\ UNCHANGED part
    /\ \/ part = "rows" /\ Next /\ UNCHANGED <<schemaVars, workspaceVars, sessionVars>>
       \/ part = "schema" /\ Schema!Next /\ UNCHANGED <<vars, workspaceVars, sessionVars>>
       \/ part = "workspace" /\ Workspace!Next /\ UNCHANGED <<vars, schemaVars, sessionVars>>
       \/ part = "capture" /\ Capture!Next /\ UNCHANGED <<vars, schemaVars, sessionVars>>
       \/ part = "session" /\ Session!Next /\ UNCHANGED <<vars, schemaVars, workspaceVars>>

Parts == PartsInit /\ [][PartsNext]_allVars

Symmetry == Permutations(Readers)
-----------------------------------------------------------------------------
(* The values each part's variables take. *)
TypesOK ==
    /\ part = "rows" => TypeOK
    /\ part = "schema" => Schema!TypeOK
    /\ part = "workspace" => Workspace!TypeOK
    /\ part = "capture" => Capture!TypeOK
    /\ part = "session" => Session!TypeOK

(* What is recorded has been applied, in the order of the files; a command that ends
   well leaves the whole schema, and of commands that overlap and do not die one does
   (Migrations). *)
SchemaCompletes ==
    part = "schema" =>
        Schema!RecordedIsApplied /\ Schema!OkIsComplete /\ Schema!OneOfThemFinishes

(* A reset that succeeds leaves nothing from before it, restores the template if nobody
   but another successful reset disturbs it, and never brings back a directory that has
   been removed; and a snapshot shows what was there while it was taken
   (RunnerWorkspace). *)
WorkspaceKept ==
    /\ part = "workspace" =>
        /\ Workspace!NothingOldSurvives
        /\ Workspace!UndisturbedResetRestores
        /\ Workspace!OverlappingResetsRestore
        /\ Workspace!GoneForGood
    /\ part = "capture" => Capture!SnapshotIsRecent

(* Nobody sends on a closed channel or closes one twice, and each of two subscribers
   gets the output from the moment it joined, in order and without a gap
   (TerminalSession). *)
OutputInOrder == part = "session" => Session!NoPanic /\ Session!NothingSkipped
===============================================================================
