---------------------------- MODULE Workspace_proofs ----------------------------
(***************************************************************************)
(* What a reset of a workspace promises, for any number of resets that     *)
(* overlap, of changes by the user and of crashes (RunnerWorkspace, of     *)
(* which MCShared has two instances: Workspace with resets only, Capture   *)
(* with one reset and snapshots).                                          *)
(*                                                                         *)
(* The invariant has a part for each reset, what it still has to remove of *)
(* what it found and, undisturbed, how far the template and its commit     *)
(* are; and a part about all of them: for each file of the template that   *)
(* is missing there is a reset that has not written it yet, and for each   *)
(* that is missing in the index or in the last commit one that has not     *)
(* added or committed.                                                     *)
(***************************************************************************)
EXTENDS Shared_proofs

Trees == UNION {[S -> Nat] : S \in SUBSET Workspace!Names}
Commits == [tree : Trees, at : Nat]
Repos == [exists : BOOLEAN, index : Trees, log : Seq(Commits)]
Places == {"idle", "remove", "write", "config", "add", "commit", "done", "failed", "missing"}
NotAtWork == {"idle", "failed", "missing"}

WorkspaceShape ==
    /\ dir \in BOOLEAN /\ files \in Trees /\ repo \in Repos
    /\ pc \in [Workspace!Requests -> Places]
    /\ todo \in [Workspace!Requests -> SUBSET (Workspace!Names \cup {".git"})]
    /\ deletion \in {"idle", "emptied", "done"}
    /\ clock \in Nat /\ since \in [Workspace!Requests -> Nat]
    /\ disturbed \in [Workspace!Requests -> SUBSET {"reset", "other"}]

(* There is nothing without the directory, which is made once, before the id of the
   workspace is known. *)
DirectoryInv ==
    /\ repo.exists \/ repo = Workspace!NoRepo
    /\ dir \/ (files = Workspace!NoFiles /\ ~repo.exists)
    /\ deletion # "idle" => Workspace!Known
    /\ deletion = "done" => ~dir
    /\ Workspace!Known \/ \A r \in Resets : pc[r] = "idle"
    /\ \A r \in Workspace!Requests : pc[r] = "write" => todo[r] \subseteq Workspace!Template

(* The reset has found this entry and has yet to remove it. *)
ToRemove(r, n) == pc[r] = "remove" /\ n \in todo[r]

(* Files of the template as the template has them, and no others. *)
OfTemplate(tree) == \A n \in DOMAIN tree : n \in Workspace!Template /\ tree[n] = 0

LastTree == Workspace!Tip(repo).tree

(* Nothing is left from before the reset listed the directory but what it will remove. *)
OldLeft(r) ==
    /\ \A n \in DOMAIN files : files[n] = 0 \/ files[n] > since[r] \/ ToRemove(r, n)
    /\ \A i \in 1 .. Len(repo.log) : repo.log[i].at >= since[r] \/ ToRemove(r, ".git")

(* Disturbed by resets only. *)
AmongResets(r) ==
    /\ \A n \in DOMAIN files : (n \in Workspace!Template /\ files[n] = 0) \/ ToRemove(r, n)
    /\ pc[r] \in {"commit", "done"} => OfTemplate(repo.index)
    /\ pc[r] = "done" => OfTemplate(LastTree)

(* Undisturbed. *)
Alone(r) ==
    /\ pc[r] = "remove" => /\ DOMAIN files \subseteq todo[r]
                           /\ repo = Workspace!NoRepo \/ ".git" \in todo[r]
    /\ pc[r] = "write" => DOMAIN files = Workspace!Template \ todo[r] /\ repo = Workspace!NoRepo
    /\ pc[r] \in {"config", "add", "commit", "done"} => DOMAIN files = Workspace!Template
    /\ pc[r] \in {"config", "add", "commit"} => repo.log = <<>>
    /\ pc[r] \in {"commit", "done"} => repo.index = files
    /\ pc[r] = "done" => Len(repo.log) = 1 /\ repo.log[1].tree = files

ResetInv(r) ==
    /\ since[r] <= clock
    /\ pc[r] \notin NotAtWork =>
          /\ OldLeft(r)
          /\ "other" \notin disturbed[r] => AmongResets(r)
          /\ disturbed[r] = {} => Alone(r)

(* A reset has yet to write this file, to add, to commit; or others disturb it. *)
WillWrite(r, n) ==
    pc[r] \in NotAtWork \cup {"remove"} \/ (pc[r] = "write" /\ n \in todo[r]) \/ "other" \in disturbed[r]
WillAdd(r) == pc[r] \notin {"commit", "done"} \/ "other" \in disturbed[r]
WillCommit(r) == pc[r] # "done" \/ "other" \in disturbed[r]

MissingInv ==
    \A n \in Workspace!Template :
        /\ n \in DOMAIN files \/ \E r \in Resets : WillWrite(r, n)
        /\ n \in DOMAIN repo.index \/ \E r \in Resets : WillAdd(r)
        /\ n \in DOMAIN LastTree \/ \E r \in Resets : WillCommit(r)

WorkspaceInv ==
    WorkspaceShape /\ DirectoryInv /\ MissingInv /\ \A r \in Resets : ResetInv(r)

(* A snapshot under way has noted the present, and what it has been told. *)
CaptureInv ==
    /\ DOMAIN pc = Capture!Requests
    /\ DOMAIN snapshot = {"pc", "head", "clean"}
    /\ snapshot.pc # "idle" =>
          /\ Capture!Known
          /\ Capture!View(repo, files) \in moments
          /\ \E m \in moments : m[1] = snapshot.head
    /\ snapshot.pc = "answered" => \E m \in moments : m[2] = snapshot.clean
-----------------------------------------------------------------------------
(* Trees *)

LEMMA TreeIs ==
  ASSUME NEW f \in Trees
  PROVE  /\ DOMAIN f \subseteq Workspace!Names /\ f = [m \in DOMAIN f |-> f[m]]
         /\ \A m \in DOMAIN f : f[m] \in Nat
<1>1. PICK S \in SUBSET Workspace!Names : f \in [S -> Nat]
  BY DEF Trees
<1>2. QED
  BY <1>1

LEMMA IsTree ==
  ASSUME NEW f, DOMAIN f \subseteq Workspace!Names, f = [m \in DOMAIN f |-> f[m]],
         \A m \in DOMAIN f : f[m] \in Nat
  PROVE  f \in Trees
<1>1. f \in [DOMAIN f -> Nat]
  OBVIOUS
<1>2. QED
  BY <1>1 DEF Trees

LEMMA NoFilesIs == Workspace!NoFiles \in Trees /\ DOMAIN Workspace!NoFiles = {}
<1>1. DOMAIN Workspace!NoFiles = {}
  BY DEF Workspace!NoFiles
<1>2. Workspace!NoFiles = [m \in DOMAIN Workspace!NoFiles |-> Workspace!NoFiles[m]]
  BY <1>1 DEF Workspace!NoFiles
<1>3. QED
  BY <1>1, <1>2, IsTree

LEMMA WithFile ==
  ASSUME NEW f \in Trees, NEW n \in Workspace!Names, NEW v \in Nat
  PROVE  [m \in DOMAIN f \cup {n} |-> IF m = n THEN v ELSE f[m]] \in Trees
<1> DEFINE g == [m \in DOMAIN f \cup {n} |-> IF m = n THEN v ELSE f[m]]
<1>1. DOMAIN g \subseteq Workspace!Names /\ \A m \in DOMAIN g : g[m] \in Nat
  BY TreeIs
<1>2. g = [m \in DOMAIN g |-> g[m]]
  OBVIOUS
<1> HIDE DEF g
<1>3. g \in Trees
  BY <1>1, <1>2, IsTree
<1>4. QED
  BY <1>3 DEF g

LEMMA WithoutFile ==
  ASSUME NEW f \in Trees, NEW n
  PROVE  [m \in DOMAIN f \ {n} |-> f[m]] \in Trees
<1> DEFINE g == [m \in DOMAIN f \ {n} |-> f[m]]
<1>1. DOMAIN g \subseteq Workspace!Names /\ \A m \in DOMAIN g : g[m] \in Nat
  BY TreeIs
<1>2. g = [m \in DOMAIN g |-> g[m]]
  OBVIOUS
<1> HIDE DEF g
<1>3. g \in Trees
  BY <1>1, <1>2, IsTree
<1>4. QED
  BY <1>3 DEF g

(* The repository without and with one commit more. *)
LEMMA NoRepoIs ==
  /\ Workspace!NoRepo \in Repos /\ ~Workspace!NoRepo.exists
  /\ Workspace!NoRepo.index = Workspace!NoFiles /\ Workspace!NoRepo.log = <<>>
  BY NoFilesIs DEF Workspace!NoRepo, Repos

LEMMA RepoIs ==
  ASSUME NEW g \in Repos
  PROVE  /\ g.exists \in BOOLEAN /\ g.index \in Trees /\ g.log \in Seq(Commits)
         /\ g = [exists |-> g.exists, index |-> g.index, log |-> g.log]
         /\ Workspace!Tip(g).tree \in Trees
         /\ g.log = <<>> => Workspace!Tip(g).tree = Workspace!NoFiles
<1>1. /\ g.exists \in BOOLEAN /\ g.index \in Trees /\ g.log \in Seq(Commits)
      /\ g = [exists |-> g.exists, index |-> g.index, log |-> g.log]
  BY DEF Repos
<1>2. CASE g.log = <<>>
  <2>1. Workspace!Tip(g).tree = Workspace!NoFiles
    BY <1>2 DEF Workspace!Tip, Workspace!Commit
  <2>2. QED
    BY <1>1, <2>1, NoFilesIs
<1>3. CASE g.log # <<>>
  <2>1. Workspace!Tip(g) = g.log[Len(g.log)] /\ g.log[Len(g.log)] \in Commits
    BY <1>1, <1>3 DEF Workspace!Tip
  <2>2. QED
    BY <1>1, <1>3, <2>1 DEF Commits
<1>4. QED
  BY <1>2, <1>3

LEMMA RepoWith ==
  ASSUME NEW g \in Repos
  PROVE  /\ \A x : [g EXCEPT !.exists = x] = [exists |-> x, index |-> g.index, log |-> g.log]
         /\ \A x : [g EXCEPT !.index = x] = [exists |-> g.exists, index |-> x, log |-> g.log]
         /\ \A x : [g EXCEPT !.log = x] = [exists |-> g.exists, index |-> g.index, log |-> x]
         /\ \A x, y : [g EXCEPT !.index = x, !.log = y]
                          = [exists |-> g.exists, index |-> x, log |-> y]
<1>1. ASSUME NEW a, NEW b, NEW c, g = [exists |-> a, index |-> b, log |-> c]
      PROVE  /\ \A x : [g EXCEPT !.exists = x] = [exists |-> x, index |-> b, log |-> c]
             /\ \A x : [g EXCEPT !.index = x] = [exists |-> a, index |-> x, log |-> c]
             /\ \A x : [g EXCEPT !.log = x] = [exists |-> a, index |-> b, log |-> x]
             /\ \A x, y : [g EXCEPT !.index = x, !.log = y] = [exists |-> a, index |-> x, log |-> y]
  <2>1. ASSUME NEW x PROVE [g EXCEPT !.exists = x] = [exists |-> x, index |-> b, log |-> c]
    BY <1>1
  <2>2. ASSUME NEW x PROVE [g EXCEPT !.index = x] = [exists |-> a, index |-> x, log |-> c]
    BY <1>1
  <2>3. ASSUME NEW x PROVE [g EXCEPT !.log = x] = [exists |-> a, index |-> b, log |-> x]
    BY <1>1
  <2>4. ASSUME NEW x, NEW y
        PROVE  [g EXCEPT !.index = x, !.log = y] = [exists |-> a, index |-> x, log |-> y]
    <3>1. ASSUME NEW h, h = [exists |-> a, index |-> x, log |-> c]
          PROVE  [h EXCEPT !.log = y] = [exists |-> a, index |-> x, log |-> y]
      BY <3>1
    <3>2. [[g EXCEPT !.index = x] EXCEPT !.log = y] = [exists |-> a, index |-> x, log |-> y]
      BY <2>2, <3>1
    <3>3. [g EXCEPT !.index = x, !.log = y] = [[g EXCEPT !.index = x] EXCEPT !.log = y]
      OBVIOUS
    <3>4. QED
      BY <3>2, <3>3
  <2>5. QED
    BY <2>1, <2>2, <2>3, <2>4
<1>2. g = [exists |-> g.exists, index |-> g.index, log |-> g.log]
  BY RepoIs
<1>3. QED
  BY <1>1, <1>2

LEMMA Committed ==
  ASSUME NEW g \in Repos, NEW f \in Trees, NEW at \in Nat, NEW h,
         h.log = Append(g.log, Workspace!Commit(f, at))
  PROVE  /\ Workspace!Commit(f, at) \in Commits /\ h.log \in Seq(Commits)
         /\ Workspace!Tip(h).tree = f
         /\ Len(h.log) = Len(g.log) + 1
         /\ h.log[Len(h.log)].tree = f /\ h.log[Len(h.log)].at = at
         /\ \A i \in 1 .. Len(g.log) : h.log[i] = g.log[i]
<1> DEFINE c == Workspace!Commit(f, at)
<1>1. c \in Commits /\ c.tree = f /\ c.at = at
  BY DEF Workspace!Commit, Commits
<1>2. g.log \in Seq(Commits)
  BY RepoIs
<1> HIDE DEF c
<1>3. h.log = Append(g.log, c)
  BY DEF c
<1>4. /\ h.log \in Seq(Commits) /\ Len(h.log) = Len(g.log) + 1 /\ Len(g.log) \in Nat
      /\ h.log[Len(g.log) + 1] = c
      /\ \A i \in 1 .. Len(g.log) : h.log[i] = g.log[i]
  BY <1>1, <1>2, <1>3
<1>5. h.log # <<>>
  BY <1>4
<1>6. Workspace!Tip(h) = c
  BY <1>4, <1>5 DEF Workspace!Tip
<1>7. QED
  BY <1>1, <1>4, <1>6 DEF c
-----------------------------------------------------------------------------
(* The steps and the values the variables take *)

(* Resets differ from the creation, the user and the removal. *)
LEMMA Requesters ==
  /\ \A r \in Resets : r \in Workspace!Requests /\ r # Creation
  /\ Creation \in Workspace!Requests
  /\ Workspace!Template \subseteq Workspace!Names
  BY SharedAssumption DEF Workspace!Requests, Workspace!Names

LEMMA Kinds ==
  /\ \A r \in Resets : Workspace!KindOf(r) = "reset" /\ r # "user" /\ r # "deletion"
  /\ \A by \in {Creation, "user", "deletion"} : Workspace!KindOf(by) = "other"
  BY SharedAssumption DEF Workspace!KindOf

LEMMA ChangedIs ==
  ASSUME WorkspaceShape, NEW by, Workspace!Changed(by)
  PROVE  /\ disturbed' \in [Workspace!Requests -> SUBSET {"reset", "other"}]
         /\ \A q \in Workspace!Requests :
                disturbed'[q] = IF q = by THEN disturbed[q]
                                          ELSE disturbed[q] \cup {Workspace!KindOf(by)}
<1>1. Workspace!KindOf(by) \in {"reset", "other"}
  BY DEF Workspace!KindOf
<1>2. QED
  BY <1>1 DEF Workspace!Changed, WorkspaceShape

LEMMA OverIs ==
  ASSUME WorkspaceShape, NEW S, Workspace!Over(S)
  PROVE  /\ todo' \in [Workspace!Requests -> SUBSET (Workspace!Names \cup {".git"})]
         /\ since' \in [Workspace!Requests -> Nat]
         /\ disturbed' \in [Workspace!Requests -> SUBSET {"reset", "other"}]
         /\ \A q \in Workspace!Requests \ S :
                todo'[q] = todo[q] /\ since'[q] = since[q] /\ disturbed'[q] = disturbed[q]
         /\ \A q \in Workspace!Requests \cap S : todo'[q] = {}
  BY DEF Workspace!Over, WorkspaceShape

LEMMA ToIs ==
  ASSUME WorkspaceShape, NEW r \in Workspace!Requests, NEW next \in Places, Workspace!To(r, next)
  PROVE  /\ pc' \in [Workspace!Requests -> Places] /\ pc'[r] = next
         /\ \A q \in Workspace!Requests \ {r} : pc'[q] = pc[q]
  BY DEF Workspace!To, WorkspaceShape

LEMMA RequestShape ==
  ASSUME WorkspaceShape, DirectoryInv, NEW r \in Workspace!Requests, Workspace!RequestStep(r)
  PROVE  WorkspaceShape'
<1>0. /\ files \in Trees /\ repo \in Repos /\ clock \in Nat
      /\ todo \in [Workspace!Requests -> SUBSET (Workspace!Names \cup {".git"})]
      /\ {"config", "add", "commit", "done"} \subseteq Places
  BY DEF WorkspaceShape, Places
<1>1. CASE Workspace!Write(r)
  <2>1. PICK n \in todo[r] :
           /\ todo' = [todo EXCEPT ![r] = @ \ {n}]
           /\ files' = [m \in DOMAIN files \cup {n} |-> IF m = n THEN 0 ELSE files[m]]
    BY <1>1 DEF Workspace!Write, Workspace!Standard
  <2>2. n \in Workspace!Names
    BY <1>1, Requesters DEF Workspace!Write, DirectoryInv
  <2>3. files' \in Trees
    BY <1>0, <2>1, <2>2, WithFile
  <2>4. todo' \in [Workspace!Requests -> SUBSET (Workspace!Names \cup {".git"})]
    BY <1>0, <2>1
  <2>5. disturbed' \in [Workspace!Requests -> SUBSET {"reset", "other"}]
    BY <1>1, ChangedIs DEF Workspace!Write
  <2>6. QED
    BY <1>1, <2>3, <2>4, <2>5 DEF Workspace!Write, WorkspaceShape
<1>2. CASE Workspace!GitInit(r)
  <2>1. pc' \in [Workspace!Requests -> Places]
    BY <1>0, <1>2, ToIs DEF Workspace!GitInit
  <2>2. repo' \in Repos
    <3>1. repo' = [exists |-> TRUE, index |-> repo.index, log |-> repo.log]
      BY <1>0, <1>2, RepoWith DEF Workspace!GitInit
    <3>2. QED
      BY <1>0, <3>1, RepoIs DEF Repos
  <2>3. disturbed' \in [Workspace!Requests -> SUBSET {"reset", "other"}]
    BY <1>2, ChangedIs DEF Workspace!GitInit
  <2>4. QED
    BY <1>2, <2>1, <2>2, <2>3 DEF Workspace!GitInit, WorkspaceShape
<1>3. CASE Workspace!GitConfig(r)
  <2>1. pc' \in [Workspace!Requests -> Places]
    BY <1>0, <1>3, ToIs DEF Workspace!GitConfig
  <2>2. QED
    BY <1>3, <2>1 DEF Workspace!GitConfig, Workspace!Untouched, WorkspaceShape
<1>4. CASE Workspace!GitAdd(r)
  <2>1. pc' \in [Workspace!Requests -> Places]
    BY <1>0, <1>4, ToIs DEF Workspace!GitAdd
  <2>2. repo' \in Repos
    <3>1. repo' = [exists |-> repo.exists, index |-> files, log |-> repo.log]
      BY <1>0, <1>4, RepoWith DEF Workspace!GitAdd
    <3>2. QED
      BY <1>0, <3>1, RepoIs DEF Repos
  <2>3. disturbed' \in [Workspace!Requests -> SUBSET {"reset", "other"}]
    BY <1>4, ChangedIs DEF Workspace!GitAdd
  <2>4. QED
    BY <1>4, <2>1, <2>2, <2>3 DEF Workspace!GitAdd, WorkspaceShape
<1>5. CASE Workspace!GitCommit(r)
  <2>1. pc' \in [Workspace!Requests -> Places]
    BY <1>0, <1>5, ToIs DEF Workspace!GitCommit
  <2>2. repo' \in Repos
    <3>1. repo' = [exists |-> repo.exists, index |-> repo.index,
                   log |-> Append(repo.log, Workspace!Commit(repo.index, clock))]
      BY <1>0, <1>5, RepoWith DEF Workspace!GitCommit
    <3>2. repo'.log = Append(repo.log, Workspace!Commit(repo.index, clock)) /\ repo.index \in Trees
      BY <1>0, <3>1, RepoIs
    <3>3. repo'.log \in Seq(Commits)
      <4>1. Workspace!Commit(repo.index, clock) \in Commits /\ repo.log \in Seq(Commits)
        BY <1>0, <3>2, RepoIs DEF Workspace!Commit, Commits
      <4>2. QED
        BY <3>2, <4>1
    <3>4. QED
      BY <1>0, <3>1, <3>2, <3>3, RepoIs DEF Repos
  <2>3. disturbed' \in [Workspace!Requests -> SUBSET {"reset", "other"}]
    BY <1>5, ChangedIs DEF Workspace!GitCommit
  <2>4. QED
    BY <1>5, <2>1, <2>2, <2>3 DEF Workspace!GitCommit, WorkspaceShape
<1>6. QED
  BY <1>1, <1>2, <1>3, <1>4, <1>5 DEF Workspace!RequestStep

LEMMA ResetShape ==
  ASSUME WorkspaceShape, DirectoryInv, NEW r \in Resets, Workspace!ResetStep(r)
  PROVE  WorkspaceShape'
<1>0. /\ files \in Trees /\ repo \in Repos /\ clock \in Nat /\ r \in Workspace!Requests
      /\ todo \in [Workspace!Requests -> SUBSET (Workspace!Names \cup {".git"})]
      /\ {"remove", "missing", "write", "failed"} \subseteq Places
      /\ Workspace!Template \subseteq Workspace!Names
  BY Requesters DEF WorkspaceShape, Places
<1>1. CASE Workspace!List(r)
  <2>1. pc' \in [Workspace!Requests -> Places]
    BY <1>0, <1>1, ToIs DEF Workspace!List
  <2>2. todo' \in [Workspace!Requests -> SUBSET (Workspace!Names \cup {".git"})]
    <3>1. DOMAIN files \cup (IF repo.exists THEN {".git"} ELSE {})
              \in SUBSET (Workspace!Names \cup {".git"})
      BY <1>0, TreeIs
    <3>2. QED
      BY <1>0, <1>1, <3>1 DEF Workspace!List
  <2>3. /\ since' \in [Workspace!Requests -> Nat]
        /\ disturbed' \in [Workspace!Requests -> SUBSET {"reset", "other"}]
    BY <1>0, <1>1 DEF Workspace!List, WorkspaceShape
  <2>4. QED
    BY <1>1, <2>1, <2>2, <2>3 DEF Workspace!List, WorkspaceShape
<1>2. CASE Workspace!RemoveEntry(r)
  <2>1. PICK n : /\ todo' = [todo EXCEPT ![r] = @ \ {n}]
                 /\ files' = [m \in DOMAIN files \ {n} |-> files[m]]
                 /\ repo' = IF n = ".git" THEN Workspace!NoRepo ELSE repo
    BY <1>2 DEF Workspace!RemoveEntry
  <2>2. /\ todo' \in [Workspace!Requests -> SUBSET (Workspace!Names \cup {".git"})]
        /\ files' \in Trees /\ repo' \in Repos
    BY <1>0, <2>1, WithoutFile, NoRepoIs
  <2>3. disturbed' \in [Workspace!Requests -> SUBSET {"reset", "other"}]
    BY <1>2, ChangedIs DEF Workspace!RemoveEntry
  <2>4. QED
    BY <1>2, <2>2, <2>3 DEF Workspace!RemoveEntry, WorkspaceShape
<1>3. CASE Workspace!AllRemoved(r)
  <2>1. pc' \in [Workspace!Requests -> Places]
    BY <1>0, <1>3, ToIs DEF Workspace!AllRemoved
  <2>2. todo' \in [Workspace!Requests -> SUBSET (Workspace!Names \cup {".git"})]
    BY <1>0, <1>3 DEF Workspace!AllRemoved
  <2>3. QED
    BY <1>3, <2>1, <2>2 DEF Workspace!AllRemoved, Workspace!Untouched, WorkspaceShape
<1>4. CASE Workspace!ResetFails(r)
  <2>1. pc' \in [Workspace!Requests -> Places]
    BY <1>0, <1>4, ToIs DEF Workspace!ResetFails
  <2>2. /\ todo' \in [Workspace!Requests -> SUBSET (Workspace!Names \cup {".git"})]
        /\ since' \in [Workspace!Requests -> Nat]
        /\ disturbed' \in [Workspace!Requests -> SUBSET {"reset", "other"}]
    BY <1>4, OverIs DEF Workspace!ResetFails
  <2>3. QED
    BY <1>4, <2>1, <2>2 DEF Workspace!ResetFails, WorkspaceShape
<1>5. QED
  BY <1>0, <1>1, <1>2, <1>3, <1>4, RequestShape DEF Workspace!ResetStep

LEMMA CreationShape ==
  ASSUME WorkspaceShape, Workspace!MakeDirectory \/ Workspace!CreationFails
  PROVE  WorkspaceShape'
<1>0. /\ todo \in [Workspace!Requests -> SUBSET (Workspace!Names \cup {".git"})]
      /\ pc \in [Workspace!Requests -> Places]
      /\ {"write", "failed"} \subseteq Places
  BY DEF WorkspaceShape, Places
<1>1. CASE Workspace!MakeDirectory
  <2>1. /\ pc' \in [Workspace!Requests -> Places]
        /\ todo' \in [Workspace!Requests -> SUBSET (Workspace!Names \cup {".git"})]
    BY <1>0, <1>1, Requesters DEF Workspace!MakeDirectory
  <2>2. QED
    BY <1>1, <2>1 DEF Workspace!MakeDirectory, WorkspaceShape
<1>2. CASE Workspace!CreationFails
  <2>1. pc' \in [Workspace!Requests -> Places]
    BY <1>0, <1>2, Requesters, ToIs DEF Workspace!CreationFails
  <2>2. /\ todo' \in [Workspace!Requests -> SUBSET (Workspace!Names \cup {".git"})]
        /\ since' \in [Workspace!Requests -> Nat]
        /\ disturbed' \in [Workspace!Requests -> SUBSET {"reset", "other"}]
    BY <1>2, OverIs DEF Workspace!CreationFails
  <2>3. QED
    BY <1>2, <2>1, <2>2, NoFilesIs, NoRepoIs DEF Workspace!CreationFails, WorkspaceShape
<1>3. QED
  BY <1>1, <1>2

LEMMA OthersShape ==
  ASSUME WorkspaceShape,
         \/ Workspace!UserStep \/ Workspace!EmptyDirectory \/ Workspace!RemoveDirectory
         \/ Workspace!SnapshotStep \/ Workspace!Crash
  PROVE  WorkspaceShape'
<1>0. files \in Trees /\ repo \in Repos /\ clock \in Nat
  BY DEF WorkspaceShape
<1>1. CASE Workspace!UserStep
  <2>1. /\ clock' = clock + 1 /\ clock' \in Nat
        /\ UNCHANGED <<dir, pc, todo, deletion, since>>
        /\ disturbed' \in [Workspace!Requests -> SUBSET {"reset", "other"}]
    BY <1>0, <1>1, ChangedIs DEF Workspace!UserStep
  <2>2. files' \in Trees
    <3>1. CASE Workspace!Edit
      BY <1>0, <2>1, <3>1, WithFile DEF Workspace!Edit
    <3>2. CASE Workspace!EraseFile
      BY <1>0, <3>2, WithoutFile DEF Workspace!EraseFile
    <3>3. QED
      BY <1>0, <1>1, <3>1, <3>2 DEF Workspace!UserStep, Workspace!CommitAll, Workspace!InitAgain
  <2>3. repo' \in Repos
    <3>1. CASE Workspace!CommitAll
      <4>1. repo' = [exists |-> repo.exists, index |-> files,
                     log |-> Append(repo.log, Workspace!Commit(files, clock'))]
        BY <1>0, <3>1, RepoWith, ZenonT(30) DEF Workspace!CommitAll
      <4>2. repo'.log = Append(repo.log, Workspace!Commit(files, clock'))
        BY <4>1
      <4>3. repo'.log \in Seq(Commits)
        <5>1. Workspace!Commit(files, clock') \in Commits /\ repo.log \in Seq(Commits)
          BY <1>0, <2>1, RepoIs DEF Workspace!Commit, Commits
        <5>2. QED
          BY <4>2, <5>1
      <4>4. QED
        BY <1>0, <4>1, <4>2, <4>3, RepoIs DEF Repos
    <3>2. CASE Workspace!InitAgain
      <4>1. repo' = [exists |-> TRUE, index |-> Workspace!NoRepo.index, log |-> Workspace!NoRepo.log]
        BY <3>2, NoRepoIs, RepoWith DEF Workspace!InitAgain
      <4>2. QED
        BY <4>1, NoRepoIs, RepoIs DEF Repos
    <3>3. QED
      BY <1>0, <1>1, <3>1, <3>2 DEF Workspace!UserStep, Workspace!Edit, Workspace!EraseFile
  <2>4. QED
    BY <2>1, <2>2, <2>3 DEF WorkspaceShape
<1>2. CASE Workspace!EmptyDirectory
  BY <1>2, ChangedIs, NoFilesIs, NoRepoIs DEF Workspace!EmptyDirectory, WorkspaceShape
<1>3. CASE Workspace!RemoveDirectory
  BY <1>3 DEF Workspace!RemoveDirectory, WorkspaceShape
<1>4. CASE Workspace!SnapshotStep
  BY <1>4 DEF Workspace!SnapshotStep, Workspace!AskHead, Workspace!AskStatus,
     Workspace!SnapshotOver, WorkspaceShape
<1>5. CASE Workspace!Crash
  <2>1. pc' \in [Workspace!Requests -> Places]
    BY <1>5 DEF Workspace!Crash, WorkspaceShape, Places
  <2>2. PICK S : Workspace!Over(S)
    BY <1>5 DEF Workspace!Crash
  <2>3. /\ todo' \in [Workspace!Requests -> SUBSET (Workspace!Names \cup {".git"})]
        /\ since' \in [Workspace!Requests -> Nat]
        /\ disturbed' \in [Workspace!Requests -> SUBSET {"reset", "other"}]
    BY <2>2, OverIs
  <2>4. QED
    BY <1>5, <2>1, <2>3 DEF Workspace!Crash, WorkspaceShape
<1>6. QED
  BY <1>1, <1>2, <1>3, <1>4, <1>5

LEMMA ShapeStep ==
  ASSUME WorkspaceShape, DirectoryInv, Workspace!Next
  PROVE  WorkspaceShape'
  BY Requesters, RequestShape, ResetShape, CreationShape, OthersShape DEF Workspace!Next
-----------------------------------------------------------------------------
(* The directory *)

(* What a step does to where the requests are. *)
LEMMA KnownKept ==
  ASSUME WorkspaceShape, Workspace!Known, Workspace!Next
  PROVE  /\ Workspace!Known'
         /\ ~Workspace!MakeDirectory /\ ~Workspace!RequestStep(Creation) /\ ~Workspace!CreationFails
<1>1. pc[Creation] = "done"
  BY DEF Workspace!Known
<1>2. ~Workspace!MakeDirectory /\ ~Workspace!RequestStep(Creation) /\ ~Workspace!CreationFails
  BY <1>1 DEF Workspace!MakeDirectory, Workspace!RequestStep, Workspace!CreationFails,
     Workspace!Write, Workspace!GitInit, Workspace!GitConfig, Workspace!GitAdd, Workspace!GitCommit
<1>3. ASSUME NEW r \in Resets, Workspace!ResetStep(r) PROVE pc'[Creation] = pc[Creation]
  <2>1. Creation # r /\ Creation \in Workspace!Requests
    BY Requesters
  <2>2. \/ pc' = pc
        \/ \E next \in Places : Workspace!To(r, next)
    BY <1>3 DEF Workspace!ResetStep, Workspace!List, Workspace!RemoveEntry, Workspace!AllRemoved,
       Workspace!ResetFails, Workspace!RequestStep, Workspace!Write, Workspace!GitInit,
       Workspace!GitConfig, Workspace!GitAdd, Workspace!GitCommit, Places
  <2>3. QED
    BY <2>1, <2>2 DEF Workspace!To, WorkspaceShape
<1>4. ASSUME Workspace!Crash PROVE Workspace!Known'
  BY <1>1, <1>4, Requesters DEF Workspace!Crash, Workspace!Known
<1>5. ASSUME \/ Workspace!UserStep \/ Workspace!EmptyDirectory \/ Workspace!RemoveDirectory
             \/ Workspace!SnapshotStep
      PROVE  Workspace!Known'
  BY <1>1, <1>5 DEF Workspace!UserStep, Workspace!EmptyDirectory, Workspace!RemoveDirectory,
     Workspace!SnapshotStep, Workspace!AskHead, Workspace!AskStatus, Workspace!SnapshotOver,
     Workspace!Known
<1>6. QED
  BY <1>1, <1>2, <1>3, <1>4, <1>5 DEF Workspace!Next, Workspace!Known

(* A request that writes, adds or commits needs the directory. *)
LEMMA RequestDirectory ==
  ASSUME WorkspaceShape, DirectoryInv, NEW r \in Workspace!Requests, Workspace!RequestStep(r)
  PROVE  /\ dir /\ dir' = dir /\ deletion' = deletion /\ pc[r] \in {"write", "config", "add", "commit"}
         /\ repo'.exists \/ repo' = Workspace!NoRepo
         /\ \A q \in Workspace!Requests : pc'[q] = "write" => pc[q] = "write" /\ todo'[q] \subseteq todo[q]
         /\ \A q \in Workspace!Requests \ {r} : pc'[q] = pc[q]
<1>0. /\ files \in Trees /\ repo \in Repos
      /\ {"config", "add", "commit", "done"} \subseteq Places
  BY DEF WorkspaceShape, Places
<1>1. CASE Workspace!Write(r)
  BY <1>1 DEF Workspace!Write, WorkspaceShape, DirectoryInv, NotAtWork
<1>2. CASE Workspace!GitInit(r)
  <2>1. repo' = [exists |-> TRUE, index |-> repo.index, log |-> repo.log]
    BY <1>0, <1>2, RepoWith DEF Workspace!GitInit
  <2>2. pc'[r] = "config" /\ \A q \in Workspace!Requests \ {r} : pc'[q] = pc[q]
    BY <1>0, <1>2, ToIs DEF Workspace!GitInit
  <2>3. QED
    BY <1>2, <2>1, <2>2 DEF Workspace!GitInit, WorkspaceShape, DirectoryInv, NotAtWork
<1>3. CASE Workspace!GitConfig(r)
  <2>1. pc'[r] = "add" /\ \A q \in Workspace!Requests \ {r} : pc'[q] = pc[q]
    BY <1>0, <1>3, ToIs DEF Workspace!GitConfig
  <2>2. QED
    BY <1>3, <2>1 DEF Workspace!GitConfig, Workspace!Untouched, WorkspaceShape, DirectoryInv, NotAtWork
<1>4. CASE Workspace!GitAdd(r)
  <2>1. repo' = [exists |-> repo.exists, index |-> files, log |-> repo.log] /\ repo.exists
    BY <1>0, <1>4, RepoWith DEF Workspace!GitAdd
  <2>2. pc'[r] = "commit" /\ \A q \in Workspace!Requests \ {r} : pc'[q] = pc[q]
    BY <1>0, <1>4, ToIs DEF Workspace!GitAdd
  <2>3. QED
    BY <1>4, <2>1, <2>2 DEF Workspace!GitAdd, WorkspaceShape, DirectoryInv, NotAtWork
<1>5. CASE Workspace!GitCommit(r)
  <2>1. repo'.exists = repo.exists /\ repo.exists
    BY <1>0, <1>5, RepoWith, ZenonT(30) DEF Workspace!GitCommit, Workspace!Committable
  <2>2. pc'[r] = "done" /\ \A q \in Workspace!Requests \ {r} : pc'[q] = pc[q]
    BY <1>0, <1>5, ToIs DEF Workspace!GitCommit
  <2>3. QED
    BY <1>5, <2>1, <2>2 DEF Workspace!GitCommit, WorkspaceShape, DirectoryInv, NotAtWork
<1>6. QED
  BY <1>1, <1>2, <1>3, <1>4, <1>5 DEF Workspace!RequestStep

LEMMA RequestKeepsDirectory ==
  ASSUME WorkspaceShape, DirectoryInv, NEW r \in Workspace!Requests, Workspace!RequestStep(r),
         r = Creation \/ Workspace!Known'
  PROVE  DirectoryInv'
<1>1. Workspace!Known' \/ \A q \in Resets : pc'[q] = "idle"
  BY RequestDirectory, Requesters DEF DirectoryInv, Workspace!Known
<1>2. deletion' # "idle" => Workspace!Known'
  BY RequestDirectory, Requesters DEF DirectoryInv, Workspace!Known
<1>3. QED
  BY <1>1, <1>2, RequestDirectory DEF DirectoryInv

LEMMA ResetKeepsDirectory ==
  ASSUME WorkspaceShape, DirectoryInv, NEW r \in Resets, Workspace!ResetStep(r)
  PROVE  DirectoryInv'
<1>0. /\ r \in Workspace!Requests /\ Workspace!Next
      /\ {"remove", "missing", "write", "failed"} \subseteq Places
  BY Requesters DEF Workspace!Next, Places
<1>1. Workspace!Known
  BY <1>0, RequestDirectory DEF Workspace!ResetStep, Workspace!List, Workspace!RemoveEntry, Workspace!AllRemoved,
     Workspace!ResetFails, DirectoryInv, NotAtWork
<1>2. Workspace!Known'
  BY <1>0, <1>1, KnownKept
<1>3. CASE Workspace!List(r)
  <2>1. /\ pc'[r] # "write" /\ \A q \in Workspace!Requests \ {r} : pc'[q] = pc[q] /\ todo'[q] = todo[q]
        /\ UNCHANGED <<dir, files, repo, deletion>>
    BY <1>0, <1>3, ToIs DEF Workspace!List, WorkspaceShape
  <2>2. QED
    BY <1>2, <2>1 DEF DirectoryInv
<1>4. CASE Workspace!RemoveEntry(r)
  <2>1. PICK n : /\ todo' = [todo EXCEPT ![r] = @ \ {n}]
                 /\ files' = [m \in DOMAIN files \ {n} |-> files[m]]
                 /\ repo' = IF n = ".git" THEN Workspace!NoRepo ELSE repo
    BY <1>4 DEF Workspace!RemoveEntry
  <2>2. /\ pc[r] = "remove" /\ pc' = pc /\ UNCHANGED <<dir, deletion>>
        /\ \A q \in Workspace!Requests \ {r} : todo'[q] = todo[q]
    BY <1>4, <2>1 DEF Workspace!RemoveEntry, WorkspaceShape
  <2>3. files = Workspace!NoFiles => files' = Workspace!NoFiles
    BY <2>1, NoFilesIs DEF Workspace!NoFiles
  <2>4. QED
    BY <1>2, <2>1, <2>2, <2>3, NoRepoIs DEF DirectoryInv
<1>5. CASE Workspace!AllRemoved(r)
  <2>1. /\ \A q \in Workspace!Requests \ {r} : pc'[q] = pc[q] /\ todo'[q] = todo[q]
        /\ todo'[r] = Workspace!Template
        /\ UNCHANGED <<dir, files, repo, deletion>>
    BY <1>0, <1>5, ToIs DEF Workspace!AllRemoved, Workspace!Untouched, WorkspaceShape
  <2>2. QED
    BY <1>2, <2>1 DEF DirectoryInv
<1>6. CASE Workspace!ResetFails(r)
  <2>1. /\ pc'[r] = "failed" /\ \A q \in Workspace!Requests \ {r} : pc'[q] = pc[q] /\ todo'[q] = todo[q]
        /\ UNCHANGED <<dir, files, repo, deletion>>
    BY <1>0, <1>6, ToIs, OverIs DEF Workspace!ResetFails
  <2>2. QED
    BY <1>2, <2>1 DEF DirectoryInv
<1>7. QED
  BY <1>0, <1>2, <1>3, <1>4, <1>5, <1>6, RequestKeepsDirectory DEF Workspace!ResetStep

LEMMA CreationKeepsDirectory ==
  ASSUME WorkspaceShape, DirectoryInv, Workspace!MakeDirectory \/ Workspace!CreationFails
  PROVE  DirectoryInv'
<1>0. /\ Creation \in Workspace!Requests /\ \A q \in Resets : q \in Workspace!Requests \ {Creation}
      /\ "failed" \in Places
  BY Requesters DEF Places
<1>1. ~Workspace!Known
  BY DEF Workspace!MakeDirectory, Workspace!CreationFails, Workspace!Known
<1>2. CASE Workspace!MakeDirectory
  <2>1. /\ pc'[Creation] = "write" /\ todo'[Creation] = Workspace!Template
        /\ \A q \in Workspace!Requests \ {Creation} : pc'[q] = pc[q] /\ todo'[q] = todo[q]
        /\ dir' /\ UNCHANGED <<files, repo, deletion>>
    BY <1>0, <1>2 DEF Workspace!MakeDirectory, WorkspaceShape
  <2>2. \A q \in Resets : pc'[q] = "idle"
    BY <1>0, <1>1, <2>1 DEF DirectoryInv
  <2>3. QED
    BY <1>1, <2>1, <2>2 DEF DirectoryInv
<1>3. CASE Workspace!CreationFails
  <2>1. /\ pc'[Creation] = "failed" /\ todo'[Creation] = {}
        /\ \A q \in Workspace!Requests \ {Creation} : pc'[q] = pc[q] /\ todo'[q] = todo[q]
        /\ files' = Workspace!NoFiles /\ repo' = Workspace!NoRepo /\ UNCHANGED deletion
    BY <1>0, <1>3, ToIs, OverIs DEF Workspace!CreationFails
  <2>2. \A q \in Resets : pc'[q] = "idle"
    BY <1>0, <1>1, <2>1 DEF DirectoryInv
  <2>3. QED
    BY <1>1, <2>1, <2>2, NoRepoIs DEF DirectoryInv
<1>4. QED
  BY <1>2, <1>3

LEMMA OthersKeepDirectory ==
  ASSUME WorkspaceShape, DirectoryInv, Workspace!Next,
         \/ Workspace!UserStep \/ Workspace!EmptyDirectory \/ Workspace!RemoveDirectory
         \/ Workspace!SnapshotStep \/ Workspace!Crash
  PROVE  DirectoryInv'
<1>0. files \in Trees /\ repo \in Repos
  BY DEF WorkspaceShape
<1>1. CASE Workspace!UserStep
  <2>1. Workspace!Known /\ dir /\ UNCHANGED <<dir, pc, todo, deletion>>
    BY <1>1 DEF Workspace!UserStep, Workspace!Edit, Workspace!EraseFile, Workspace!CommitAll,
       Workspace!InitAgain
  <2>2. repo'.exists \/ repo' = Workspace!NoRepo
    <3>1. CASE Workspace!CommitAll
      BY <1>0, <3>1, RepoWith DEF Workspace!CommitAll
    <3>2. CASE Workspace!InitAgain
      BY <3>2, NoRepoIs, RepoWith DEF Workspace!InitAgain
    <3>3. QED
      BY <1>1, <3>1, <3>2 DEF Workspace!UserStep, Workspace!Edit, Workspace!EraseFile, DirectoryInv
  <2>3. Workspace!Known'
    BY <2>1 DEF Workspace!Known
  <2>4. QED
    BY <2>1, <2>2, <2>3 DEF DirectoryInv
<1>2. CASE Workspace!EmptyDirectory
  <2>1. Workspace!Known'
    BY <1>2 DEF Workspace!EmptyDirectory, Workspace!Known
  <2>2. QED
    BY <1>2, <2>1, NoRepoIs DEF Workspace!EmptyDirectory, DirectoryInv
<1>3. CASE Workspace!RemoveDirectory
  <2>1. Workspace!Known' /\ pc' = pc /\ todo' = todo
    BY <1>3 DEF Workspace!RemoveDirectory, Workspace!Known, DirectoryInv
  <2>2. QED
    BY <1>3, <2>1 DEF Workspace!RemoveDirectory, DirectoryInv
<1>4. CASE Workspace!SnapshotStep
  <2>1. UNCHANGED <<dir, files, repo, pc, todo, deletion>>
    BY <1>4 DEF Workspace!SnapshotStep, Workspace!AskHead, Workspace!AskStatus,
       Workspace!SnapshotOver
  <2>2. QED
    BY <2>1 DEF DirectoryInv, Workspace!Known
<1>5. CASE Workspace!Crash
  <2>1. /\ \A q \in Workspace!Requests : pc'[q] \in {pc[q], "failed"} /\ pc'[q] # "write"
        /\ \A q \in Workspace!Requests : pc[q] \in {"idle", "done"} => pc'[q] = pc[q]
        /\ deletion' = (IF deletion = "done" THEN deletion ELSE "idle") /\ UNCHANGED <<dir, files, repo>>
    BY <1>5 DEF Workspace!Crash
  <2>2. Workspace!Known => Workspace!Known'
    BY <2>1, Requesters DEF Workspace!Known
  <2>3. Workspace!Known' \/ \A q \in Resets : pc'[q] = "idle"
    BY <2>1, <2>2, Requesters DEF DirectoryInv
  <2>4. QED
    BY <2>1, <2>2, <2>3 DEF DirectoryInv
<1>6. QED
  BY <1>1, <1>2, <1>3, <1>4, <1>5

LEMMA DirectoryStep ==
  ASSUME WorkspaceShape, DirectoryInv, Workspace!Next
  PROVE  DirectoryInv'
<1>1. CASE Workspace!RequestStep(Creation)
  BY <1>1, Requesters, RequestKeepsDirectory
<1>2. QED
  BY <1>1, ResetKeepsDirectory, CreationKeepsDirectory, OthersKeepDirectory DEF Workspace!Next
-----------------------------------------------------------------------------
(* What others do and what it means to a reset *)

Same(q) == pc'[q] = pc[q] /\ todo'[q] = todo[q] /\ since'[q] = since[q]

(* A file is the template's, from now on, or was there before; a commit likewise. *)
NothingOlder ==
    /\ \A n \in DOMAIN files' : \/ files'[n] = 0 \/ files'[n] > clock
                                \/ (n \in DOMAIN files /\ files'[n] = files[n])
    /\ \A i \in 1 .. Len(repo'.log) : \/ repo'.log[i].at >= clock
                                      \/ (i \in 1 .. Len(repo.log) /\ repo'.log[i] = repo.log[i])

(* A file is the template's or was there before; the index and the last commit are of
   what was there. *)
OnlyTemplate ==
    /\ \A n \in DOMAIN files' : \/ n \in Workspace!Template /\ files'[n] = 0
                                \/ n \in DOMAIN files /\ files'[n] = files[n]
    /\ repo'.index \in {repo.index, files, Workspace!NoFiles}
    /\ LastTree' \in {LastTree, repo.index, Workspace!NoFiles}

LEMMA UndisturbedKeeps ==
  ASSUME NEW q \in Resets, ResetInv(q), Same(q), disturbed'[q] = disturbed[q], clock' = clock,
         UNCHANGED <<files, repo>>
  PROVE  ResetInv(q)'
  BY DEF ResetInv, Same, OldLeft, AmongResets, Alone, ToRemove, LastTree

LEMMA NotAtWorkKeeps ==
  ASSUME NEW q \in Resets, pc'[q] \in NotAtWork, since'[q] <= clock'
  PROVE  ResetInv(q)'
  BY DEF ResetInv

LEMMA OldLeftKept ==
  ASSUME WorkspaceShape, WorkspaceShape', NEW q \in Resets, since[q] <= clock,
         OldLeft(q), Same(q), NothingOlder
  PROVE  OldLeft(q)'
<1>1. since[q] \in Nat /\ clock \in Nat /\ files' \in Trees /\ repo' \in Repos
  BY Requesters DEF WorkspaceShape
<1>2. ASSUME NEW n \in DOMAIN files'
      PROVE  files'[n] = 0 \/ files'[n] > since'[q] \/ ToRemove(q, n)'
  <2>1. files'[n] \in Nat
    BY <1>1, TreeIs
  <2>2. CASE files'[n] > clock
    BY <1>1, <2>1, <2>2 DEF Same
  <2>3. CASE n \in DOMAIN files /\ files'[n] = files[n]
    BY <2>3 DEF OldLeft, Same, ToRemove
  <2>4. QED
    BY <2>2, <2>3 DEF NothingOlder
<1>3. ASSUME NEW i \in 1 .. Len(repo'.log)
      PROVE  repo'.log[i].at >= since'[q] \/ ToRemove(q, ".git")'
  <2>1. repo'.log[i].at \in Nat
    <3>1. repo'.log \in Seq(Commits)
      BY <1>1, RepoIs
    <3>2. repo'.log[i] \in Commits
      BY <3>1
    <3>3. QED
      BY <3>2 DEF Commits
  <2>2. CASE repo'.log[i].at >= clock
    BY <1>1, <2>1, <2>2 DEF Same
  <2>3. CASE i \in 1 .. Len(repo.log) /\ repo'.log[i] = repo.log[i]
    BY <2>3 DEF OldLeft, Same, ToRemove
  <2>4. QED
    BY <2>2, <2>3 DEF NothingOlder
<1>4. QED
  BY <1>2, <1>3 DEF OldLeft

LEMMA OfTemplateKept ==
  ASSUME NEW q \in Resets, AmongResets(q), Same(q), OnlyTemplate
  PROVE  AmongResets(q)'
<1>1. ASSUME NEW n \in DOMAIN files'
      PROVE  (n \in Workspace!Template /\ files'[n] = 0) \/ ToRemove(q, n)'
  BY DEF OnlyTemplate, AmongResets, Same, ToRemove
<1>2. pc[q] \in {"commit", "done"} => OfTemplate(files)
  BY DEF AmongResets, OfTemplate, ToRemove
<1>3. OfTemplate(Workspace!NoFiles)
  BY NoFilesIs DEF OfTemplate
<1>4. pc[q] \in {"commit", "done"} => OfTemplate(repo'.index)
  BY <1>2, <1>3 DEF OnlyTemplate, AmongResets
<1>5. pc[q] = "done" => OfTemplate(LastTree')
  BY <1>3 DEF OnlyTemplate, AmongResets
<1>6. OfTemplate(repo.index)' = OfTemplate(repo'.index) /\ OfTemplate(LastTree)' = OfTemplate(LastTree')
  BY DEF OfTemplate
<1>7. QED
  BY <1>1, <1>4, <1>5, <1>6 DEF AmongResets, Same

(* Another reset, another actor. *)
LEMMA OtherResetKeeps ==
  ASSUME WorkspaceShape, WorkspaceShape', NEW q \in Resets, ResetInv(q), Same(q), clock' = clock,
         disturbed'[q] = disturbed[q] \cup {"reset"}, NothingOlder, OnlyTemplate
  PROVE  ResetInv(q)'
<1>1. since[q] <= clock
  BY DEF ResetInv
<1>2. pc[q] \notin NotAtWork => OldLeft(q)'
  BY <1>1, OldLeftKept DEF ResetInv
<1>3. pc[q] \notin NotAtWork /\ "other" \notin disturbed'[q] => AmongResets(q)'
  BY OfTemplateKept DEF ResetInv
<1>4. disturbed'[q] # {}
  OBVIOUS
<1>5. QED
  BY <1>1, <1>2, <1>3, <1>4 DEF ResetInv, Same

LEMMA OutsiderKeeps ==
  ASSUME WorkspaceShape, WorkspaceShape', NEW q \in Resets, ResetInv(q), Same(q),
         clock' \in {clock, clock + 1}, disturbed'[q] = disturbed[q] \cup {"other"}, NothingOlder
  PROVE  ResetInv(q)'
<1>1. since[q] <= clock /\ since[q] \in Nat /\ clock \in Nat
  BY Requesters DEF ResetInv, WorkspaceShape
<1>2. since'[q] <= clock'
  BY <1>1 DEF Same
<1>3. pc[q] \notin NotAtWork => OldLeft(q)'
  BY <1>1, OldLeftKept DEF ResetInv
<1>4. "other" \in disturbed'[q] /\ disturbed'[q] # {}
  OBVIOUS
<1>5. QED
  BY <1>2, <1>3, <1>4 DEF ResetInv, Same

(* Somebody else is at work, or nobody yet: whatever is missing, each reset is one that
   has yet to restore it, or is disturbed. *)
LEMMA MissingExcused ==
  ASSUME NEW q \in Resets, "other" \in disturbed'[q] \/ pc'[q] \in NotAtWork \cup {"remove"}
  PROVE  MissingInv'
<1>1. ASSUME NEW n \in Workspace!Template
      PROVE  WillWrite(q, n)' /\ WillAdd(q)' /\ WillCommit(q)'
  BY DEF WillWrite, WillAdd, WillCommit, NotAtWork
<1>2. QED
  BY <1>1 DEF MissingInv
-----------------------------------------------------------------------------
(* The steps of a reset *)

WorkInv == MissingInv /\ \A q \in Resets : ResetInv(q)

LEMMA ResetsMark ==
  ASSUME WorkspaceShape, NEW r \in Resets, Workspace!Changed(r), UNCHANGED <<since, clock>>,
         \A q \in Workspace!Requests \ {r} : pc'[q] = pc[q] /\ todo'[q] = todo[q]
  PROVE  /\ disturbed'[r] = disturbed[r]
         /\ \A q \in Resets \ {r} : Same(q) /\ disturbed'[q] = disturbed[q] \cup {"reset"}
         /\ \A q \in Resets : disturbed[q] \subseteq disturbed'[q]
<1>1. r \in Workspace!Requests /\ \A q \in Resets : q \in Workspace!Requests
  BY Requesters
<1>2. Workspace!KindOf(r) = "reset"
  BY Kinds
<1>3. QED
  BY <1>1, <1>2, ChangedIs DEF Same

LEMMA WriteKeeps ==
  ASSUME WorkspaceInv, WorkspaceShape', NEW r \in Resets, Workspace!Write(r)
  PROVE  WorkInv'
<1>0. /\ WorkspaceShape /\ DirectoryInv /\ MissingInv /\ r \in Workspace!Requests
      /\ \A q \in Resets : ResetInv(q)
  BY Requesters DEF WorkspaceInv
<1>1. PICK n \in todo[r] :
         /\ todo' = [todo EXCEPT ![r] = @ \ {n}]
         /\ files' = [m \in DOMAIN files \cup {n} |-> IF m = n THEN 0 ELSE files[m]]
  BY DEF Workspace!Write, Workspace!Standard
<1>2. /\ pc[r] = "write" /\ n \in Workspace!Template
      /\ UNCHANGED <<repo, pc, clock, since>>
      /\ todo'[r] = todo[r] \ {n} /\ \A q \in Workspace!Requests \ {r} : todo'[q] = todo[q]
  BY <1>0, <1>1 DEF Workspace!Write, WorkspaceShape, DirectoryInv
<1>3. /\ disturbed'[r] = disturbed[r]
      /\ \A q \in Resets \ {r} : Same(q) /\ disturbed'[q] = disturbed[q] \cup {"reset"}
      /\ \A q \in Resets : disturbed[q] \subseteq disturbed'[q]
  BY <1>0, <1>2, ResetsMark DEF Workspace!Write
<1>4. /\ DOMAIN files' = DOMAIN files \cup {n} /\ files'[n] = 0
      /\ \A m \in DOMAIN files \ {n} : files'[m] = files[m]
  BY <1>1
<1>5. NothingOlder /\ OnlyTemplate
  BY <1>2, <1>4 DEF NothingOlder, OnlyTemplate, LastTree
<1>6. \A q \in Resets \ {r} : ResetInv(q)'
  BY <1>0, <1>2, <1>3, <1>5, OtherResetKeeps
<1>7. ResetInv(r)'
  <2>1. OldLeft(r) => OldLeft(r)'
    BY <1>2, <1>4 DEF OldLeft, ToRemove
  <2>2. AmongResets(r) => AmongResets(r)'
    BY <1>2, <1>4 DEF AmongResets, ToRemove
  <2>3. Alone(r) => Alone(r)'
    BY <1>0, <1>2, <1>4 DEF Alone, DirectoryInv
  <2>4. QED
    BY <1>0, <1>2, <1>3, <2>1, <2>2, <2>3 DEF ResetInv
<1>8. ASSUME NEW m \in Workspace!Template
      PROVE  /\ m \in DOMAIN files' \/ \E q \in Resets : WillWrite(q, m)'
             /\ m \in DOMAIN repo'.index \/ \E q \in Resets : WillAdd(q)'
             /\ m \in DOMAIN LastTree' \/ \E q \in Resets : WillCommit(q)'
  <2>1. ASSUME NEW q \in Resets, m # n, WillWrite(q, m) PROVE WillWrite(q, m)'
    BY <1>2, <1>3, <2>1, Requesters DEF WillWrite
  <2>2. ASSUME NEW q \in Resets
        PROVE  (WillAdd(q) => WillAdd(q)') /\ (WillCommit(q) => WillCommit(q)')
    BY <1>2, <1>3 DEF WillAdd, WillCommit
  <2>3. LastTree' = LastTree
    BY <1>2 DEF LastTree
  <2>4. QED
    BY <1>0, <1>2, <1>4, <2>1, <2>2, <2>3 DEF MissingInv
<1>9. QED
  BY <1>6, <1>7, <1>8 DEF WorkInv, MissingInv

LEMMA GitInitKeeps ==
  ASSUME WorkspaceInv, WorkspaceShape', NEW r \in Resets, Workspace!GitInit(r)
  PROVE  WorkInv'
<1>0. /\ WorkspaceShape /\ DirectoryInv /\ MissingInv /\ r \in Workspace!Requests
      /\ repo \in Repos /\ files \in Trees /\ "config" \in Places
      /\ \A q \in Resets : ResetInv(q)
  BY Requesters DEF WorkspaceInv, WorkspaceShape, Places
<1>1. /\ pc[r] = "write" /\ todo[r] = {}
      /\ UNCHANGED <<files, todo, clock, since>>
      /\ pc'[r] = "config" /\ \A q \in Workspace!Requests \ {r} : pc'[q] = pc[q]
  BY <1>0, ToIs DEF Workspace!GitInit
<1>2. repo'.index = repo.index /\ repo'.log = repo.log
  BY <1>0, RepoWith, ZenonT(30) DEF Workspace!GitInit
<1>3. /\ disturbed'[r] = disturbed[r]
      /\ \A q \in Resets \ {r} : Same(q) /\ disturbed'[q] = disturbed[q] \cup {"reset"}
      /\ \A q \in Resets : disturbed[q] \subseteq disturbed'[q]
  BY <1>0, <1>1, ResetsMark DEF Workspace!GitInit
<1>4. LastTree' = LastTree
  BY <1>2 DEF LastTree, Workspace!Tip
<1>5. NothingOlder /\ OnlyTemplate
  BY <1>1, <1>2, <1>4 DEF NothingOlder, OnlyTemplate
<1>6. \A q \in Resets \ {r} : ResetInv(q)'
  BY <1>0, <1>1, <1>3, <1>5, OtherResetKeeps
<1>7. ResetInv(r)'
  <2>1. OldLeft(r) => OldLeft(r)'
    BY <1>1, <1>2 DEF OldLeft, ToRemove
  <2>2. AmongResets(r) => AmongResets(r)'
    BY <1>1 DEF AmongResets, ToRemove
  <2>3. Alone(r) => Alone(r)'
    BY <1>1, <1>2, NoRepoIs DEF Alone
  <2>4. QED
    BY <1>0, <1>1, <1>3, <2>1, <2>2, <2>3 DEF ResetInv, NotAtWork
<1>8. ASSUME NEW m \in Workspace!Template
      PROVE  /\ m \in DOMAIN files' \/ \E q \in Resets : WillWrite(q, m)'
             /\ m \in DOMAIN repo'.index \/ \E q \in Resets : WillAdd(q)'
             /\ m \in DOMAIN LastTree' \/ \E q \in Resets : WillCommit(q)'
  <2>1. ASSUME NEW q \in Resets
        PROVE  /\ WillWrite(q, m) => WillWrite(q, m)'
               /\ WillAdd(q) => WillAdd(q)'
               /\ WillCommit(q) => WillCommit(q)'
    <3>1. pc'[q] = pc[q] \/ (q = r /\ pc'[q] = "config" /\ pc[q] = "write" /\ m \notin todo[q])
      BY <1>1, Requesters
    <3>2. QED
      BY <1>1, <1>3, <3>1 DEF WillWrite, WillAdd, WillCommit, NotAtWork
  <2>2. QED
    BY <1>0, <1>1, <1>2, <1>4, <2>1 DEF MissingInv
<1>9. QED
  BY <1>6, <1>7, <1>8 DEF WorkInv, MissingInv

LEMMA GitConfigKeeps ==
  ASSUME WorkspaceInv, WorkspaceShape', NEW r \in Resets, Workspace!GitConfig(r)
  PROVE  WorkInv'
<1>0. /\ WorkspaceShape /\ MissingInv /\ r \in Workspace!Requests /\ "add" \in Places
      /\ \A q \in Resets : ResetInv(q)
  BY Requesters DEF WorkspaceInv, Places
<1>1. /\ pc[r] = "config" /\ UNCHANGED <<files, repo, todo, clock, since, disturbed>>
      /\ pc'[r] = "add" /\ \A q \in Workspace!Requests \ {r} : pc'[q] = pc[q]
  BY <1>0, ToIs DEF Workspace!GitConfig, Workspace!Untouched
<1>2. \A q \in Resets \ {r} : ResetInv(q)'
  BY <1>0, <1>1, UndisturbedKeeps, Requesters DEF Same
<1>3. ResetInv(r)'
  BY <1>0, <1>1 DEF ResetInv, OldLeft, AmongResets, Alone, ToRemove, LastTree, NotAtWork
<1>4. ASSUME NEW q \in Resets, NEW m
      PROVE  /\ WillWrite(q, m) => WillWrite(q, m)'
             /\ WillAdd(q) => WillAdd(q)'
             /\ WillCommit(q) => WillCommit(q)'
  <2>1. pc'[q] = pc[q] \/ (pc'[q] = "add" /\ pc[q] = "config")
    BY <1>1, Requesters
  <2>2. QED
    BY <1>1, <2>1 DEF WillWrite, WillAdd, WillCommit, NotAtWork
<1>5. LastTree' = LastTree
  BY <1>1 DEF LastTree
<1>6. QED
  BY <1>0, <1>1, <1>2, <1>3, <1>4, <1>5 DEF WorkInv, MissingInv

(* What is missing in the index after the add is missing in the directory: somebody
   else has yet to write it. *)
LEMMA GitAddKeeps ==
  ASSUME WorkspaceInv, WorkspaceShape', NEW r \in Resets, Workspace!GitAdd(r)
  PROVE  WorkInv'
<1>0. /\ WorkspaceShape /\ MissingInv /\ r \in Workspace!Requests
      /\ repo \in Repos /\ files \in Trees /\ "commit" \in Places
      /\ \A q \in Resets : ResetInv(q)
  BY Requesters DEF WorkspaceInv, WorkspaceShape, Places
<1>1. /\ pc[r] = "add" /\ UNCHANGED <<files, todo, clock, since>>
      /\ pc'[r] = "commit" /\ \A q \in Workspace!Requests \ {r} : pc'[q] = pc[q]
  BY <1>0, ToIs DEF Workspace!GitAdd
<1>2. repo'.index = files /\ repo'.log = repo.log
  BY <1>0, RepoWith DEF Workspace!GitAdd
<1>3. /\ disturbed'[r] = disturbed[r]
      /\ \A q \in Resets \ {r} : Same(q) /\ disturbed'[q] = disturbed[q] \cup {"reset"}
      /\ \A q \in Resets : disturbed[q] \subseteq disturbed'[q]
  BY <1>0, <1>1, ResetsMark DEF Workspace!GitAdd
<1>4. LastTree' = LastTree
  BY <1>2 DEF LastTree, Workspace!Tip
<1>5. NothingOlder /\ OnlyTemplate
  BY <1>1, <1>2, <1>4 DEF NothingOlder, OnlyTemplate
<1>6. \A q \in Resets \ {r} : ResetInv(q)'
  BY <1>0, <1>1, <1>3, <1>5, OtherResetKeeps
<1>7. ResetInv(r)'
  <2>1. OldLeft(r) => OldLeft(r)'
    BY <1>1, <1>2 DEF OldLeft, ToRemove
  <2>2. AmongResets(r) => AmongResets(r)'
    BY <1>1, <1>2 DEF AmongResets, ToRemove, OfTemplate
  <2>3. Alone(r) => Alone(r)'
    BY <1>1, <1>2 DEF Alone
  <2>4. QED
    BY <1>0, <1>1, <1>3, <2>1, <2>2, <2>3 DEF ResetInv, NotAtWork
<1>8. ASSUME NEW m \in Workspace!Template
      PROVE  /\ m \in DOMAIN files' \/ \E q \in Resets : WillWrite(q, m)'
             /\ m \in DOMAIN repo'.index \/ \E q \in Resets : WillAdd(q)'
             /\ m \in DOMAIN LastTree' \/ \E q \in Resets : WillCommit(q)'
  <2>1. ASSUME NEW q \in Resets
        PROVE  /\ WillWrite(q, m) => WillWrite(q, m)' /\ WillAdd(q)'
               /\ WillCommit(q) => WillCommit(q)'
    <3>1. pc'[q] = pc[q] \/ (pc'[q] = "commit" /\ pc[q] = "add")
      BY <1>1, Requesters
    <3>2. QED
      BY <1>1, <1>3, <3>1 DEF WillWrite, WillAdd, WillCommit, NotAtWork
  <2>2. QED
    BY <1>0, <1>1, <1>2, <1>4, <2>1 DEF MissingInv
<1>9. QED
  BY <1>6, <1>7, <1>8 DEF WorkInv, MissingInv

LEMMA GitCommitKeeps ==
  ASSUME WorkspaceInv, WorkspaceShape', NEW r \in Resets, Workspace!GitCommit(r)
  PROVE  WorkInv'
<1>0. /\ WorkspaceShape /\ MissingInv /\ r \in Workspace!Requests
      /\ repo \in Repos /\ files \in Trees /\ "done" \in Places /\ clock \in Nat
      /\ \A q \in Resets : ResetInv(q)
  BY Requesters DEF WorkspaceInv, WorkspaceShape, Places
<1>1. /\ pc[r] = "commit" /\ UNCHANGED <<files, todo, clock, since>>
      /\ pc'[r] = "done" /\ \A q \in Workspace!Requests \ {r} : pc'[q] = pc[q]
  BY <1>0, ToIs DEF Workspace!GitCommit
<1>2. /\ repo'.index = repo.index /\ repo'.log = Append(repo.log, Workspace!Commit(repo.index, clock))
      /\ repo.index \in Trees
  <2>1. repo' = [exists |-> repo.exists, index |-> repo.index,
                 log |-> Append(repo.log, Workspace!Commit(repo.index, clock))]
    BY <1>0, RepoWith DEF Workspace!GitCommit
  <2>2. repo.index \in Trees
    BY <1>0, RepoIs
  <2>3. QED
    BY <2>1, <2>2
<1>3. /\ disturbed'[r] = disturbed[r]
      /\ \A q \in Resets \ {r} : Same(q) /\ disturbed'[q] = disturbed[q] \cup {"reset"}
      /\ \A q \in Resets : disturbed[q] \subseteq disturbed'[q]
  BY <1>0, <1>1, ResetsMark DEF Workspace!GitCommit
<1>4. /\ LastTree' = repo.index /\ Len(repo'.log) = Len(repo.log) + 1 /\ Len(repo.log) \in Nat
      /\ repo'.log[Len(repo'.log)].tree = repo.index /\ repo'.log[Len(repo'.log)].at = clock
      /\ \A i \in 1 .. Len(repo.log) : repo'.log[i] = repo.log[i]
  <2>1. repo.log \in Seq(Commits)
    BY <1>0, RepoIs
  <2>2. ASSUME NEW h, h = repo' PROVE Workspace!Tip(h).tree = repo.index
    BY <1>0, <1>2, <2>2, Committed
  <2>3. ASSUME NEW h, h = repo'
        PROVE /\ Len(h.log) = Len(repo.log) + 1
              /\ h.log[Len(h.log)].tree = repo.index /\ h.log[Len(h.log)].at = clock
              /\ \A i \in 1 .. Len(repo.log) : h.log[i] = repo.log[i]
    BY <1>0, <1>2, <2>3, Committed
  <2>4. QED
    BY <2>1, <2>2, <2>3 DEF LastTree
<1>5. NothingOlder /\ OnlyTemplate
  <2>1. \A i \in 1 .. Len(repo'.log) : i \in 1 .. Len(repo.log) \/ i = Len(repo'.log)
    BY <1>4
  <2>2. clock >= clock
    BY <1>0
  <2>3. QED
    BY <1>1, <1>2, <1>4, <2>1, <2>2 DEF NothingOlder, OnlyTemplate
<1>6. \A q \in Resets \ {r} : ResetInv(q)'
  BY <1>0, <1>1, <1>3, <1>5, OtherResetKeeps
<1>7. ResetInv(r)'
  <2>1. OldLeft(r) => OldLeft(r)'
    <3>1. \A i \in 1 .. Len(repo'.log) : i \in 1 .. Len(repo.log) \/ i = Len(repo'.log)
      BY <1>4
    <3>2. clock >= since[r]
      BY <1>0 DEF ResetInv, WorkspaceShape
    <3>3. QED
      BY <1>1, <1>4, <3>1, <3>2 DEF OldLeft, ToRemove
  <2>2. AmongResets(r) => AmongResets(r)'
    BY <1>1, <1>2, <1>4 DEF AmongResets, ToRemove, OfTemplate
  <2>3. Alone(r) => Alone(r)'
    <3>1. repo.log = <<>> => Len(repo'.log) = 1
      BY <1>4
    <3>2. QED
      BY <1>1, <1>2, <1>4, <3>1 DEF Alone
  <2>4. QED
    BY <1>0, <1>1, <1>3, <2>1, <2>2, <2>3 DEF ResetInv, NotAtWork
<1>8. ASSUME NEW m \in Workspace!Template
      PROVE  /\ m \in DOMAIN files' \/ \E q \in Resets : WillWrite(q, m)'
             /\ m \in DOMAIN repo'.index \/ \E q \in Resets : WillAdd(q)'
             /\ m \in DOMAIN LastTree' \/ \E q \in Resets : WillCommit(q)'
  <2>1. ASSUME NEW q \in Resets
        PROVE  /\ WillWrite(q, m) => WillWrite(q, m)'
               /\ WillAdd(q) => WillAdd(q)' /\ WillCommit(q)'
    <3>1. pc'[q] = pc[q] \/ (pc'[q] = "done" /\ pc[q] = "commit")
      BY <1>1, Requesters
    <3>2. QED
      BY <1>1, <1>3, <3>1 DEF WillWrite, WillAdd, WillCommit, NotAtWork
  <2>2. QED
    BY <1>0, <1>1, <1>2, <1>4, <2>1 DEF MissingInv
<1>9. QED
  BY <1>6, <1>7, <1>8 DEF WorkInv, MissingInv

LEMMA ListKeeps ==
  ASSUME WorkspaceInv, WorkspaceShape', NEW r \in Resets, Workspace!List(r)
  PROVE  WorkInv'
<1>0. /\ WorkspaceShape /\ DirectoryInv /\ r \in Workspace!Requests /\ clock \in Nat
      /\ files \in Trees /\ repo \in Repos /\ {"remove", "missing"} \subseteq Places
      /\ \A q \in Resets : ResetInv(q)
  BY Requesters DEF WorkspaceInv, WorkspaceShape, Places
<1>1. /\ UNCHANGED <<files, repo, clock>>
      /\ pc'[r] \in {"remove", "missing"}
      /\ DOMAIN files \subseteq todo'[r] /\ (repo.exists => ".git" \in todo'[r])
      /\ since'[r] = clock
      /\ \A q \in Resets \ {r} : Same(q) /\ disturbed'[q] = disturbed[q]
  <2>1. pc'[r] \in {"remove", "missing"} /\ \A q \in Workspace!Requests \ {r} : pc'[q] = pc[q]
    BY <1>0, ToIs DEF Workspace!List
  <2>2. QED
    BY <1>0, <2>1, Requesters DEF Workspace!List, WorkspaceShape, Same
<1>2. \A q \in Resets \ {r} : ResetInv(q)'
  BY <1>0, <1>1, UndisturbedKeeps
<1>3. repo.exists \/ repo = Workspace!NoRepo
  BY <1>0 DEF DirectoryInv
<1>4. ResetInv(r)'
  <2>1. CASE pc'[r] = "missing"
    BY <1>0, <1>1, <2>1, NotAtWorkKeeps DEF NotAtWork
  <2>2. CASE pc'[r] = "remove"
    <3>1. \A n \in DOMAIN files' : ToRemove(r, n)'
      BY <1>1, <2>2 DEF ToRemove
    <3>2. ToRemove(r, ".git")' \/ Len(repo'.log) = 0
      BY <1>1, <1>3, <2>2, NoRepoIs DEF ToRemove
    <3>3. OldLeft(r)'
      BY <3>1, <3>2 DEF OldLeft
    <3>4. AmongResets(r)' /\ Alone(r)'
      BY <1>1, <1>3, <2>2, <3>1 DEF AmongResets, Alone
    <3>5. since'[r] <= clock'
      BY <1>0, <1>1
    <3>6. QED
      BY <3>3, <3>4, <3>5 DEF ResetInv
  <2>3. QED
    BY <1>1, <2>1, <2>2
<1>5. MissingInv'
  BY <1>1, MissingExcused DEF NotAtWork
<1>6. QED
  BY <1>2, <1>4, <1>5 DEF WorkInv

LEMMA RemoveEntryKeeps ==
  ASSUME WorkspaceInv, WorkspaceShape', NEW r \in Resets, Workspace!RemoveEntry(r)
  PROVE  WorkInv'
<1>0. /\ WorkspaceShape /\ r \in Workspace!Requests /\ files \in Trees /\ repo \in Repos
      /\ \A q \in Resets : ResetInv(q)
  BY Requesters DEF WorkspaceInv, WorkspaceShape
<1>1. PICK n : /\ todo' = [todo EXCEPT ![r] = @ \ {n}]
               /\ files' = [m \in DOMAIN files \ {n} |-> files[m]]
               /\ repo' = IF n = ".git" THEN Workspace!NoRepo ELSE repo
  BY DEF Workspace!RemoveEntry
<1>2. /\ pc[r] = "remove" /\ UNCHANGED <<pc, clock, since>>
      /\ todo'[r] = todo[r] \ {n} /\ \A q \in Workspace!Requests \ {r} : todo'[q] = todo[q]
      /\ DOMAIN files' = DOMAIN files \ {n} /\ \A m \in DOMAIN files' : files'[m] = files[m]
      /\ repo' = repo \/ (repo' = Workspace!NoRepo /\ n = ".git")
      /\ repo' = repo => n # ".git" \/ repo = Workspace!NoRepo
  BY <1>0, <1>1 DEF Workspace!RemoveEntry, WorkspaceShape
<1>3. /\ disturbed'[r] = disturbed[r]
      /\ \A q \in Resets \ {r} : Same(q) /\ disturbed'[q] = disturbed[q] \cup {"reset"}
  BY <1>0, <1>2, ResetsMark DEF Workspace!RemoveEntry
<1>4. NothingOlder /\ OnlyTemplate
  <2>1. Workspace!Tip(Workspace!NoRepo).tree = Workspace!NoFiles
    BY NoRepoIs, RepoIs
  <2>2. Len(Workspace!NoRepo.log) = 0
    BY NoRepoIs
  <2>3. NothingOlder
    BY <1>2, <2>2 DEF NothingOlder
  <2>4. LastTree' \in {LastTree, Workspace!NoFiles}
    BY <1>2, <2>1 DEF LastTree
  <2>5. QED
    BY <1>2, <2>3, <2>4, NoRepoIs DEF OnlyTemplate
<1>5. \A q \in Resets \ {r} : ResetInv(q)'
  BY <1>0, <1>2, <1>3, <1>4, OtherResetKeeps
<1>6. ResetInv(r)'
  <2>1. OldLeft(r) => OldLeft(r)'
    <3>1. ASSUME OldLeft(r), NEW m \in DOMAIN files'
          PROVE  files'[m] = 0 \/ files'[m] > since'[r] \/ ToRemove(r, m)'
      BY <1>2, <3>1 DEF OldLeft, ToRemove
    <3>2. ASSUME OldLeft(r), NEW i \in 1 .. Len(repo'.log)
          PROVE  repo'.log[i].at >= since'[r] \/ ToRemove(r, ".git")'
      <4>1. Len(Workspace!NoRepo.log) = 0
        BY NoRepoIs
      <4>2. repo' = repo /\ n # ".git"
        BY <1>2, <4>1
      <4>3. QED
        BY <1>2, <3>2, <4>2 DEF OldLeft, ToRemove
    <3>3. QED
      BY <3>1, <3>2 DEF OldLeft
  <2>2. AmongResets(r) => AmongResets(r)'
    BY <1>2 DEF AmongResets, ToRemove
  <2>3. Alone(r) => Alone(r)'
    BY <1>2 DEF Alone
  <2>4. QED
    BY <1>0, <1>2, <1>3, <2>1, <2>2, <2>3 DEF ResetInv
<1>7. MissingInv'
  BY <1>2, MissingExcused
<1>8. QED
  BY <1>5, <1>6, <1>7 DEF WorkInv

LEMMA AllRemovedKeeps ==
  ASSUME WorkspaceInv, WorkspaceShape', NEW r \in Resets, Workspace!AllRemoved(r)
  PROVE  WorkInv'
<1>0. /\ WorkspaceShape /\ r \in Workspace!Requests /\ "write" \in Places
      /\ \A q \in Resets : ResetInv(q)
  BY Requesters DEF WorkspaceInv, Places
<1>1. /\ pc[r] = "remove" /\ todo[r] = {} /\ UNCHANGED <<files, repo, clock, since, disturbed>>
      /\ pc'[r] = "write" /\ \A q \in Workspace!Requests \ {r} : pc'[q] = pc[q] /\ todo'[q] = todo[q]
      /\ todo'[r] = Workspace!Template
  BY <1>0, ToIs DEF Workspace!AllRemoved, Workspace!Untouched, WorkspaceShape
<1>2. \A q \in Resets \ {r} : ResetInv(q)'
  BY <1>0, <1>1, UndisturbedKeeps, Requesters DEF Same
<1>3. ResetInv(r)'
  BY <1>0, <1>1 DEF ResetInv, OldLeft, AmongResets, Alone, ToRemove, LastTree, NotAtWork
<1>4. ASSUME NEW m \in Workspace!Template
      PROVE  WillWrite(r, m)' /\ WillAdd(r)' /\ WillCommit(r)'
  BY <1>1 DEF WillWrite, WillAdd, WillCommit
<1>5. QED
  BY <1>2, <1>3, <1>4 DEF WorkInv, MissingInv

LEMMA ResetFailsKeeps ==
  ASSUME WorkspaceInv, WorkspaceShape', NEW r \in Resets, Workspace!ResetFails(r)
  PROVE  WorkInv'
<1>0. /\ WorkspaceShape /\ r \in Workspace!Requests /\ "failed" \in Places
      /\ \A q \in Resets : ResetInv(q)
  BY Requesters DEF WorkspaceInv, Places
<1>1. /\ UNCHANGED <<files, repo, clock>> /\ pc'[r] = "failed"
      /\ \A q \in Resets \ {r} : Same(q) /\ disturbed'[q] = disturbed[q]
  BY <1>0, ToIs, OverIs, Requesters DEF Workspace!ResetFails, Same
<1>2. since'[r] <= clock'
  BY <1>0 DEF Workspace!ResetFails, Workspace!Over, ResetInv, WorkspaceShape
<1>3. \A q \in Resets : ResetInv(q)'
  BY <1>0, <1>1, <1>2, UndisturbedKeeps, NotAtWorkKeeps DEF NotAtWork
<1>4. QED
  BY <1>1, <1>3, MissingExcused DEF WorkInv, NotAtWork
-----------------------------------------------------------------------------
(* The steps of all others *)

(* One who changes the directory and is no reset. *)
LEMMA OutsidersKeep ==
  ASSUME WorkspaceInv, WorkspaceShape', NEW by \in {Creation, "user", "deletion"},
         Workspace!Changed(by), \A q \in Resets : Same(q), clock' \in {clock, clock + 1}, NothingOlder
  PROVE  WorkInv'
<1>1. \A q \in Resets : disturbed'[q] = disturbed[q] \cup {"other"}
  <2>1. Workspace!KindOf(by) = "other" /\ \A q \in Resets : q # by /\ q \in Workspace!Requests
    BY Kinds, Requesters
  <2>2. QED
    BY <2>1, ChangedIs DEF WorkspaceInv
<1>2. \A q \in Resets : ResetInv(q)'
  BY <1>1, OutsiderKeeps DEF WorkspaceInv
<1>3. PICK q \in Resets : TRUE
  BY SharedAssumption
<1>4. MissingInv'
  BY <1>1, <1>3, MissingExcused
<1>5. QED
  BY <1>2, <1>4 DEF WorkInv

(* As long as no reset has begun, none has anything to keep. *)
LEMMA NoResetYet ==
  ASSUME WorkspaceInv, WorkspaceShape', clock' = clock,
         \A q \in Resets : pc'[q] = "idle" /\ since'[q] = since[q]
  PROVE  WorkInv'
<1>1. \A q \in Resets : ResetInv(q)'
  BY NotAtWorkKeeps DEF NotAtWork, WorkspaceInv, ResetInv
<1>2. PICK q \in Resets : TRUE
  BY SharedAssumption
<1>3. MissingInv'
  BY <1>2, MissingExcused DEF NotAtWork
<1>4. QED
  BY <1>1, <1>3 DEF WorkInv

LEMMA CreationKeeps ==
  ASSUME WorkspaceInv, WorkspaceShape',
         \/ Workspace!MakeDirectory \/ Workspace!RequestStep(Creation) \/ Workspace!CreationFails
  PROVE  WorkInv'
<1>0. /\ WorkspaceShape /\ DirectoryInv /\ {"failed", "config", "add", "commit", "done"} \subseteq Places
      /\ Creation \in Workspace!Requests
      /\ \A q \in Resets : q \in Workspace!Requests \ {Creation}
  BY Requesters DEF WorkspaceInv, Places
<1>1. ~Workspace!Known
  BY DEF Workspace!MakeDirectory, Workspace!CreationFails, Workspace!Known, Workspace!RequestStep,
     Workspace!Write, Workspace!GitInit, Workspace!GitConfig, Workspace!GitAdd, Workspace!GitCommit
<1>2. \A q \in Resets : pc[q] = "idle"
  BY <1>0, <1>1 DEF DirectoryInv
<1>3. CASE Workspace!MakeDirectory
  <2>1. clock' = clock /\ \A q \in Resets : pc'[q] = pc[q] /\ since'[q] = since[q]
    BY <1>0, <1>3 DEF Workspace!MakeDirectory, WorkspaceShape
  <2>2. QED
    BY <1>2, <2>1, NoResetYet
<1>4. CASE Workspace!CreationFails
  <2>1. clock' = clock /\ \A q \in Resets : pc'[q] = pc[q] /\ since'[q] = since[q]
    BY <1>0, <1>4, ToIs, OverIs DEF Workspace!CreationFails
  <2>2. QED
    BY <1>2, <2>1, NoResetYet
<1>5. CASE Workspace!RequestStep(Creation)
  <2>1. \A q \in Resets : pc'[q] = pc[q]
    BY <1>0, <1>5, RequestDirectory
  <2>2. clock' = clock /\ since' = since
    BY <1>5 DEF Workspace!RequestStep, Workspace!Write, Workspace!GitInit, Workspace!GitConfig,
       Workspace!GitAdd, Workspace!GitCommit
  <2>3. QED
    BY <1>2, <2>1, <2>2, NoResetYet
<1>6. QED
  BY <1>3, <1>4, <1>5

LEMMA UserKeeps ==
  ASSUME WorkspaceInv, WorkspaceShape', Workspace!UserStep
  PROVE  WorkInv'
<1>0. WorkspaceShape /\ files \in Trees /\ repo \in Repos /\ clock \in Nat
  BY DEF WorkspaceInv, WorkspaceShape
<1>1. /\ clock' = clock + 1 /\ \A q \in Resets : Same(q)
      /\ Workspace!Changed("user") /\ clock' > clock /\ clock' >= clock /\ clock' \in Nat
  BY <1>0 DEF Workspace!UserStep, Same
<1>2. \A n \in DOMAIN files' : \/ files'[n] > clock
                               \/ (n \in DOMAIN files /\ files'[n] = files[n])
  <2>1. CASE Workspace!Edit
    BY <1>1, <2>1 DEF Workspace!Edit
  <2>2. CASE Workspace!EraseFile
    BY <2>2 DEF Workspace!EraseFile
  <2>3. CASE Workspace!CommitAll \/ Workspace!InitAgain
    BY <2>3 DEF Workspace!CommitAll, Workspace!InitAgain
  <2>4. QED
    BY <2>1, <2>2, <2>3 DEF Workspace!UserStep
<1>3. ASSUME NEW i \in 1 .. Len(repo'.log)
      PROVE  repo'.log[i].at >= clock \/ (i \in 1 .. Len(repo.log) /\ repo'.log[i] = repo.log[i])
  <2>1. CASE Workspace!CommitAll
    <3>1. repo'.log = Append(repo.log, Workspace!Commit(files, clock'))
      BY <1>0, <2>1, RepoWith DEF Workspace!CommitAll
    <3>2. repo.log \in Seq(Commits) /\ Len(repo.log) \in Nat
      BY <1>0, RepoIs
    <3>3. ASSUME NEW h, h = repo'
          PROVE  /\ Len(h.log) = Len(repo.log) + 1 /\ h.log[Len(h.log)].at = clock'
                 /\ \A j \in 1 .. Len(repo.log) : h.log[j] = repo.log[j]
      BY <1>0, <1>1, <3>1, <3>3, Committed
    <3>4. i \in 1 .. Len(repo.log) \/ i = Len(repo'.log)
      BY <3>2, <3>3
    <3>5. QED
      BY <1>1, <3>3, <3>4
  <2>2. CASE Workspace!InitAgain
    <3>1. Len(repo'.log) = 0
      BY <2>2, NoRepoIs, RepoWith DEF Workspace!InitAgain
    <3>2. QED
      BY <3>1
  <2>3. CASE Workspace!Edit \/ Workspace!EraseFile
    BY <2>3 DEF Workspace!Edit, Workspace!EraseFile
  <2>4. QED
    BY <2>1, <2>2, <2>3 DEF Workspace!UserStep
<1>4. NothingOlder
  BY <1>2, <1>3 DEF NothingOlder
<1>5. QED
  BY <1>1, <1>4, OutsidersKeep

LEMMA OthersKeep ==
  ASSUME WorkspaceInv, WorkspaceShape',
         \/ Workspace!EmptyDirectory \/ Workspace!RemoveDirectory
         \/ Workspace!SnapshotStep \/ Workspace!Crash
  PROVE  WorkInv'
<1>0. WorkspaceShape /\ MissingInv /\ \A q \in Resets : ResetInv(q) /\ q \in Workspace!Requests
  BY Requesters DEF WorkspaceInv
<1>1. CASE Workspace!EmptyDirectory
  <2>1. /\ clock' = clock /\ \A q \in Resets : Same(q)
        /\ Workspace!Changed("deletion") /\ files' = Workspace!NoFiles /\ repo' = Workspace!NoRepo
    BY <1>1 DEF Workspace!EmptyDirectory, Same
  <2>2. NothingOlder
    <3>1. Len(Workspace!NoRepo.log) = 0
      BY NoRepoIs
    <3>2. QED
      BY <2>1, <3>1, NoFilesIs DEF NothingOlder
  <2>3. QED
    BY <2>1, <2>2, OutsidersKeep
<1>2. CASE Workspace!RemoveDirectory \/ Workspace!SnapshotStep
  <2>1. UNCHANGED <<files, repo, pc, todo, clock, since, disturbed>>
    BY <1>2 DEF Workspace!RemoveDirectory, Workspace!SnapshotStep, Workspace!AskHead,
       Workspace!AskStatus, Workspace!SnapshotOver
  <2>2. \A q \in Resets : ResetInv(q)'
    BY <1>0, <2>1, UndisturbedKeeps DEF Same
  <2>3. MissingInv'
    BY <1>0, <2>1 DEF MissingInv, WillWrite, WillAdd, WillCommit, LastTree
  <2>4. QED
    BY <2>2, <2>3 DEF WorkInv
<1>3. CASE Workspace!Crash
  <2>1. PICK S : /\ S = {q \in Workspace!Requests : pc[q] \notin {"idle", "done", "missing"}}
                 /\ pc' = [q \in Workspace!Requests |-> IF q \in S THEN "failed" ELSE pc[q]]
                 /\ Workspace!Over(S)
    BY <1>3 DEF Workspace!Crash
  <2>2. /\ UNCHANGED <<files, repo, clock>>
        /\ \A q \in Resets : \/ pc'[q] = "failed" /\ since'[q] <= clock'
                             \/ Same(q) /\ disturbed'[q] = disturbed[q]
    <3>1. UNCHANGED <<files, repo, clock>>
      BY <1>3 DEF Workspace!Crash
    <3>2. ASSUME NEW q \in Resets, q \in S PROVE pc'[q] = "failed" /\ since'[q] <= clock'
      BY <1>0, <2>1, <3>1, <3>2 DEF Workspace!Over, WorkspaceShape
    <3>3. ASSUME NEW q \in Resets, q \notin S PROVE Same(q) /\ disturbed'[q] = disturbed[q]
      BY <1>0, <2>1, <3>3 DEF Workspace!Over, Same, WorkspaceShape
    <3>4. QED
      BY <3>1, <3>2, <3>3
  <2>3. \A q \in Resets : ResetInv(q)'
    BY <1>0, <2>2, UndisturbedKeeps, NotAtWorkKeeps DEF NotAtWork
  <2>4. ASSUME NEW q \in Resets, NEW m
        PROVE  /\ WillWrite(q, m) => WillWrite(q, m)'
               /\ WillAdd(q) => WillAdd(q)' 
               /\ WillCommit(q) => WillCommit(q)'
    BY <2>2 DEF Same, WillWrite, WillAdd, WillCommit, NotAtWork
  <2>5. LastTree' = LastTree
    BY <2>2 DEF LastTree
  <2>6. MissingInv'
    BY <1>0, <2>2, <2>4, <2>5 DEF MissingInv
  <2>7. QED
    BY <2>3, <2>6 DEF WorkInv
<1>4. QED
  BY <1>1, <1>2, <1>3
-----------------------------------------------------------------------------
LEMMA WorkspaceInit == Workspace!Init => WorkspaceInv
<1> SUFFICES ASSUME Workspace!Init PROVE WorkspaceInv
  OBVIOUS
<1>1. WorkspaceShape
  BY NoFilesIs, NoRepoIs DEF Workspace!Init, WorkspaceShape, Places
<1>2. DirectoryInv
  BY Requesters, NoRepoIs DEF Workspace!Init, DirectoryInv
<1>3. \A q \in Resets : ResetInv(q)
  BY Requesters DEF Workspace!Init, ResetInv, NotAtWork
<1>4. MissingInv
  <2>1. PICK q \in Resets : TRUE
    BY SharedAssumption
  <2>2. ASSUME NEW m PROVE WillWrite(q, m) /\ WillAdd(q) /\ WillCommit(q)
    BY <2>1, Requesters DEF Workspace!Init, WillWrite, WillAdd, WillCommit, NotAtWork
  <2>3. QED
    BY <2>2 DEF MissingInv
<1>5. QED
  BY <1>1, <1>2, <1>3, <1>4 DEF WorkspaceInv

LEMMA WorkspaceStep == WorkspaceInv /\ Workspace!Next => WorkspaceInv'
<1> SUFFICES ASSUME WorkspaceInv, Workspace!Next PROVE WorkspaceInv'
  OBVIOUS
<1>1. WorkspaceShape' /\ DirectoryInv'
  BY ShapeStep, DirectoryStep DEF WorkspaceInv
<1>2. WorkInv'
  <2>1. ASSUME NEW r \in Resets, Workspace!ResetStep(r) PROVE WorkInv'
    BY <1>1, <2>1, ListKeeps, RemoveEntryKeeps, AllRemovedKeeps, ResetFailsKeeps, WriteKeeps,
       GitInitKeeps, GitConfigKeeps, GitAddKeeps, GitCommitKeeps
       DEF Workspace!ResetStep, Workspace!RequestStep
  <2>2. QED
    BY <1>1, <2>1, CreationKeeps, UserKeeps, OthersKeep DEF Workspace!Next
<1>3. QED
  BY <1>1, <1>2 DEF WorkInv, WorkspaceInv

LEMMA WorkspaceStutter == WorkspaceInv /\ UNCHANGED workspaceVars => WorkspaceInv'
<1> SUFFICES ASSUME WorkspaceInv, UNCHANGED workspaceVars PROVE WorkspaceInv'
  OBVIOUS
<1>1. UNCHANGED <<dir, files, repo, pc, todo, deletion, clock, since, disturbed>>
  BY DEF workspaceVars
<1>2. WorkspaceShape' /\ DirectoryInv'
  BY <1>1 DEF WorkspaceInv, WorkspaceShape, DirectoryInv, Workspace!Known
<1>3. \A q \in Resets : ResetInv(q)'
  BY <1>1, UndisturbedKeeps DEF WorkspaceInv, Same
<1>4. MissingInv'
  BY <1>1 DEF WorkspaceInv, MissingInv, WillWrite, WillAdd, WillCommit, LastTree
<1>5. QED
  BY <1>2, <1>3, <1>4 DEF WorkspaceInv
-----------------------------------------------------------------------------
(* What follows for a reset that is done *)

LEMMA OldIsGone == WorkspaceInv => Workspace!NothingOldSurvives
<1> SUFFICES ASSUME WorkspaceInv, NEW r \in Resets, pc[r] = "done"
             PROVE  /\ \A n \in DOMAIN files : files[n] = Workspace!Standard \/ files[n] > since[r]
                    /\ \A i \in 1 .. Len(repo.log) : repo.log[i].at >= since[r]
  BY DEF Workspace!NothingOldSurvives
<1>1. OldLeft(r)
  BY DEF WorkspaceInv, ResetInv, NotAtWork
<1>2. QED
  BY <1>1 DEF OldLeft, ToRemove, Workspace!Standard

(* A tree that has all files of the template, as the template has them, and no others. *)
LEMMA IsTemplate ==
  ASSUME NEW f \in Trees, OfTemplate(f), Workspace!Template \subseteq DOMAIN f
  PROVE  f = Workspace!TemplateFiles
<1>1. DOMAIN f = Workspace!Template /\ \A n \in Workspace!Template : f[n] = 0
  BY DEF OfTemplate
<1>2. f = [n \in DOMAIN f |-> f[n]]
  BY TreeIs
<1>3. QED
  BY <1>1, <1>2 DEF Workspace!TemplateFiles, Workspace!Standard

LEMMA AloneRestores == WorkspaceInv => Workspace!UndisturbedResetRestores
<1> SUFFICES ASSUME WorkspaceInv, NEW r \in Resets, pc[r] = "done", disturbed[r] = {}
             PROVE  /\ files = Workspace!TemplateFiles
                    /\ Len(repo.log) = 1 /\ Workspace!Clean(repo, files)
  BY DEF Workspace!UndisturbedResetRestores
<1>1. AmongResets(r) /\ Alone(r) /\ files \in Trees
  BY DEF WorkspaceInv, WorkspaceShape, ResetInv, NotAtWork
<1>2. files = Workspace!TemplateFiles
  <2>1. OfTemplate(files) /\ DOMAIN files = Workspace!Template
    BY <1>1 DEF AmongResets, Alone, ToRemove, OfTemplate
  <2>2. QED
    BY <1>1, <2>1, IsTemplate
<1>3. Len(repo.log) = 1 /\ repo.log[1].tree = files /\ repo.index = files
  BY <1>1 DEF Alone
<1>4. Workspace!Tip(repo).tree = files
  <2>1. Len(<<>>) = 0
    OBVIOUS
  <2>2. repo.log # <<>>
    BY <1>3, <2>1
  <2>3. QED
    BY <1>3, <2>2 DEF Workspace!Tip
<1>5. QED
  BY <1>2, <1>3, <1>4 DEF Workspace!Clean

LEMMA OverlappingRestore == WorkspaceInv => Workspace!OverlappingResetsRestore
<1> SUFFICES ASSUME WorkspaceInv,
                    \A r \in Resets : pc[r] = "done" /\ disturbed[r] \subseteq {"reset"}
             PROVE  files = Workspace!TemplateFiles /\ LastTree = Workspace!TemplateFiles
  BY DEF Workspace!OverlappingResetsRestore, LastTree
<1>1. PICK r \in Resets : TRUE
  BY SharedAssumption
<1>2. AmongResets(r) /\ files \in Trees /\ LastTree \in Trees
  BY RepoIs DEF WorkspaceInv, WorkspaceShape, ResetInv, NotAtWork, LastTree
<1>3. OfTemplate(files) /\ OfTemplate(LastTree)
  BY <1>2 DEF AmongResets, ToRemove, OfTemplate
<1>4. \A q \in Resets, n \in Workspace!Template : ~WillWrite(q, n) /\ ~WillCommit(q)
  BY DEF WillWrite, WillCommit, NotAtWork
<1>5. Workspace!Template \subseteq DOMAIN files /\ Workspace!Template \subseteq DOMAIN LastTree
  BY <1>4 DEF WorkspaceInv, MissingInv
<1>6. QED
  BY <1>2, <1>3, <1>5, IsTemplate
-----------------------------------------------------------------------------
(* The capture of a snapshot *)

LEMMA CaptureInit == Capture!Init => CaptureInv
  BY DEF Capture!Init, CaptureInv

(* The id of the workspace stays known. *)
LEMMA CaptureKnown ==
  ASSUME CaptureInv, Capture!Next
  PROVE  DOMAIN pc' = Capture!Requests /\ (Capture!Known => Capture!Known')
<1>0. /\ Creation \in Capture!Requests /\ r1 # Creation /\ DOMAIN pc = Capture!Requests
  BY SharedAssumption DEF Capture!Requests, CaptureInv
<1>1. CASE Capture!Crash
  BY <1>0, <1>1 DEF Capture!Crash, Capture!Known
<1>2. CASE pc' = pc
  BY <1>0, <1>2 DEF Capture!Known
<1>3. CASE \E next \in Places : Capture!To(r1, next)
  BY <1>0, <1>3 DEF Capture!To, Capture!Known
<1>4. CASE pc[Creation] # "done" /\ \E next \in Places : Capture!To(Creation, next)
  BY <1>0, <1>4 DEF Capture!To, Capture!Known
<1>5. CASE Capture!MakeDirectory
  <2>1. "write" \in Places /\ Capture!To(Creation, "write") /\ pc[Creation] # "done"
    BY <1>5 DEF Capture!MakeDirectory, Capture!To, Places
  <2>2. QED
    BY <1>4, <2>1
<1>6. ASSUME NEW r \in {r1, Creation}, Capture!RequestStep(r)
      PROVE  \/ pc' = pc
             \/ pc[r] # "done" /\ \E next \in Places : Capture!To(r, next)
  BY <1>6 DEF Capture!RequestStep, Capture!Write, Capture!GitInit, Capture!GitConfig,
     Capture!GitAdd, Capture!GitCommit, Places
<1>7. CASE Capture!CreationFails
  BY <1>4, <1>7 DEF Capture!CreationFails, Places
<1>8. CASE Capture!ResetStep(r1)
  BY <1>2, <1>3, <1>6, <1>8 DEF Capture!ResetStep, Capture!List, Capture!RemoveEntry,
     Capture!AllRemoved, Capture!ResetFails, Places
<1>9. CASE Capture!UserStep \/ Capture!EmptyDirectory \/ Capture!RemoveDirectory \/ Capture!SnapshotStep
  BY <1>2, <1>9 DEF Capture!UserStep, Capture!EmptyDirectory, Capture!RemoveDirectory,
     Capture!SnapshotStep, Capture!AskHead, Capture!AskStatus, Capture!SnapshotOver
<1>10. QED
  BY <1>1, <1>2, <1>4, <1>5, <1>6, <1>7, <1>8, <1>9 DEF Capture!Next

(* Who changes the directory adds what is there then to the moments. *)
LEMMA ChangeIsNoted ==
  ASSUME CaptureInv, DOMAIN pc' = Capture!Requests, Capture!Known => Capture!Known',
         NEW by, Capture!Changed(by), snapshot' = snapshot
  PROVE  CaptureInv'
<1>1. CASE snapshot.pc = "idle"
  BY <1>1 DEF CaptureInv
<1>2. CASE snapshot.pc # "idle"
  <2>1. moments' = moments \cup {Capture!View(repo', files')}
    BY <1>2 DEF Capture!Changed
  <2>2. Capture!View(repo, files)' = Capture!View(repo', files')
    BY DEF Capture!View, Capture!Tip, Capture!Clean
  <2>3. QED
    BY <1>2, <2>1, <2>2 DEF CaptureInv
<1>3. QED
  BY <1>1, <1>2

LEMMA NoChange ==
  ASSUME CaptureInv, DOMAIN pc' = Capture!Requests, Capture!Known => Capture!Known',
         UNCHANGED <<files, repo, snapshot, moments>>
  PROVE  CaptureInv'
<1>1. Capture!View(repo, files)' = Capture!View(repo, files)
  BY DEF Capture!View, Capture!Tip, Capture!Clean
<1>2. QED
  BY <1>1 DEF CaptureInv

LEMMA SnapshotKeeps ==
  ASSUME CaptureInv, DOMAIN pc' = Capture!Requests, Capture!Known => Capture!Known',
         Capture!SnapshotStep
  PROVE  CaptureInv'
<1>0. DOMAIN snapshot = {"pc", "head", "clean"}
  BY DEF CaptureInv
<1>1. CASE Capture!AskHead
  <2>1. /\ snapshot'.pc = "status" /\ snapshot'.head = Capture!Tip(repo)
        /\ DOMAIN snapshot' = {"pc", "head", "clean"}
        /\ moments' = {Capture!View(repo, files)} /\ UNCHANGED <<files, repo>> /\ Capture!Known'
    BY <1>0, <1>1 DEF Capture!AskHead
  <2>2. Capture!View(repo, files)' = Capture!View(repo, files)
    BY <2>1 DEF Capture!View, Capture!Tip, Capture!Clean
  <2>3. Capture!View(repo, files)[1] = Capture!Tip(repo)
    BY DEF Capture!View
  <2>4. QED
    BY <2>1, <2>2, <2>3 DEF CaptureInv
<1>2. CASE Capture!AskStatus
  <2>1. /\ snapshot.pc = "status" /\ snapshot'.pc = "answered" /\ snapshot'.head = snapshot.head
        /\ snapshot'.clean = Capture!Clean(repo, files)
        /\ DOMAIN snapshot' = {"pc", "head", "clean"}
        /\ UNCHANGED <<files, repo, moments>>
    BY <1>0, <1>2 DEF Capture!AskStatus
  <2>2. Capture!View(repo, files)' = Capture!View(repo, files)
    BY <2>1 DEF Capture!View, Capture!Tip, Capture!Clean
  <2>3. Capture!View(repo, files)[2] = Capture!Clean(repo, files)
    BY DEF Capture!View
  <2>4. QED
    BY <2>1, <2>2, <2>3 DEF CaptureInv
<1>3. CASE Capture!SnapshotOver
  BY <1>3 DEF Capture!SnapshotOver, CaptureInv
<1>4. QED
  BY <1>1, <1>2, <1>3 DEF Capture!SnapshotStep

LEMMA CaptureStep == CaptureInv /\ Capture!Next => CaptureInv'
<1> SUFFICES ASSUME CaptureInv, Capture!Next PROVE CaptureInv'
  OBVIOUS
<1>0. DOMAIN pc' = Capture!Requests /\ (Capture!Known => Capture!Known')
  BY CaptureKnown
<1>1. CASE \E by : Capture!Changed(by) /\ snapshot' = snapshot
  BY <1>0, <1>1, ChangeIsNoted
<1>2. CASE UNCHANGED <<files, repo, snapshot, moments>>
  BY <1>0, <1>2, NoChange
<1>3. CASE Capture!SnapshotStep
  BY <1>0, <1>3, SnapshotKeeps
<1>4. CASE Capture!Crash
  BY <1>0, <1>4 DEF Capture!Crash, CaptureInv
<1>5. CASE Capture!CreationFails
  <2>1. snapshot.pc = "idle" /\ snapshot' = snapshot
    BY <1>5 DEF Capture!CreationFails, CaptureInv, Capture!Known
  <2>2. QED
    BY <1>0, <2>1 DEF CaptureInv
<1>6. ASSUME NEW r, Capture!RequestStep(r)
      PROVE  \/ \E by : Capture!Changed(by) /\ snapshot' = snapshot
             \/ UNCHANGED <<files, repo, snapshot, moments>>
  BY <1>6 DEF Capture!RequestStep, Capture!Write, Capture!GitInit, Capture!GitConfig,
     Capture!GitAdd, Capture!GitCommit, Capture!Untouched
<1>7. CASE Capture!MakeDirectory \/ Capture!RemoveDirectory
  BY <1>2, <1>7 DEF Capture!MakeDirectory, Capture!RemoveDirectory
<1>8. CASE Capture!UserStep
  BY <1>1, <1>8 DEF Capture!UserStep
<1>9. CASE Capture!EmptyDirectory
  BY <1>1, <1>9 DEF Capture!EmptyDirectory
<1>10. CASE Capture!ResetStep(r1)
  BY <1>1, <1>2, <1>6, <1>10 DEF Capture!ResetStep, Capture!List, Capture!RemoveEntry,
     Capture!AllRemoved, Capture!ResetFails, Capture!Untouched
<1>11. QED
  BY <1>1, <1>2, <1>3, <1>4, <1>5, <1>6, <1>7, <1>8, <1>9, <1>10 DEF Capture!Next

LEMMA CaptureStutter == CaptureInv /\ UNCHANGED workspaceVars => CaptureInv'
<1> SUFFICES ASSUME CaptureInv, UNCHANGED workspaceVars PROVE CaptureInv'
  OBVIOUS
<1>1. UNCHANGED <<files, repo, pc, snapshot, moments>>
  BY DEF workspaceVars
<1>2. DOMAIN pc' = Capture!Requests /\ (Capture!Known => Capture!Known')
  BY <1>1 DEF CaptureInv, Capture!Known
<1>3. QED
  BY <1>1, <1>2, NoChange
-----------------------------------------------------------------------------
DirectoryIsKept == IF part = "capture" THEN CaptureInv ELSE WorkspaceInv

LEMMA WorkspaceInvariant == Parts => []DirectoryIsKept
<1>1. PartsInit => DirectoryIsKept
  BY WorkspaceInit, CaptureInit DEF PartsInit, DirectoryIsKept
<1>2. DirectoryIsKept /\ [PartsNext]_allVars => DirectoryIsKept'
  <2> SUFFICES ASSUME DirectoryIsKept, [PartsNext]_allVars PROVE DirectoryIsKept'
    OBVIOUS
  <2>1. part' = part
    BY DEF PartsNext, allVars
  <2>2. CASE part = "capture"
    <3>1. Capture!Next \/ UNCHANGED workspaceVars
      BY <2>2 DEF PartsNext, allVars
    <3>2. CaptureInv'
      BY <2>2, <3>1, CaptureStep, CaptureStutter DEF DirectoryIsKept
    <3>3. QED
      BY <2>1, <2>2, <3>2 DEF DirectoryIsKept
  <2>3. CASE part # "capture"
    <3>1. Workspace!Next \/ UNCHANGED workspaceVars
      BY <2>3 DEF PartsNext, allVars
    <3>2. WorkspaceInv'
      BY <2>3, <3>1, WorkspaceStep, WorkspaceStutter DEF DirectoryIsKept
    <3>3. QED
      BY <2>1, <2>3, <3>2 DEF DirectoryIsKept
  <2>4. QED
    BY <2>2, <2>3
<1>3. QED
  BY <1>1, <1>2, PTL DEF Parts

(* A reset that succeeds leaves nothing from before it, neither a file nor a commit;
   undisturbed it restores the template, committed once; resets that overlap, with nobody
   else at work, restore it together; a directory that has been removed stays away; and a
   snapshot shows a HEAD and a status that were there while it was taken.  For any number
   of resets, changes by the user and crashes (resetWorkspaceContents, RemoveWorkspace,
   CaptureSnapshot). *)
THEOREM ResetsKeepTheirPromise == Parts => []WorkspaceKept
<1>1. DirectoryIsKept => WorkspaceKept
  <2> SUFFICES ASSUME DirectoryIsKept PROVE WorkspaceKept
    OBVIOUS
  <2>1. CASE part = "workspace"
    <3>1. WorkspaceInv
      BY <2>1 DEF DirectoryIsKept
    <3>2. Workspace!GoneForGood
      BY <3>1 DEF WorkspaceInv, DirectoryInv, Workspace!GoneForGood
    <3>3. QED
      BY <2>1, <3>1, <3>2, OldIsGone, AloneRestores, OverlappingRestore DEF WorkspaceKept
  <2>2. CASE part = "capture"
    <3>1. Capture!SnapshotIsRecent
      BY <2>2 DEF DirectoryIsKept, CaptureInv, Capture!SnapshotIsRecent
    <3>2. QED
      BY <2>2, <3>1 DEF WorkspaceKept
  <2>3. QED
    BY <2>1, <2>2 DEF WorkspaceKept
<1>2. QED
  BY <1>1, WorkspaceInvariant, PTL
-----------------------------------------------------------------------------
(* The values the variables take *)

(* No file and no commit is of the future, and there is nothing without the directory. *)
Stamped ==
    /\ files \in Trees /\ repo \in Repos /\ clock \in 0 .. MaxEdits
    /\ \A n \in DOMAIN files : files[n] <= clock
    /\ \A i \in 1 .. Len(repo.log) : repo.log[i].at <= clock
    /\ repo.exists \/ repo = Workspace!NoRepo
    /\ dir \/ (files = Workspace!NoFiles /\ ~repo.exists)

(* What a step of either instance may do to the directory. *)
FileEffect ==
    \/ files' = files \/ files' = Workspace!NoFiles
    \/ \E n : files' = [m \in DOMAIN files \ {n} |-> files[m]]
    \/ \E n \in Workspace!Names, v \in {0, clock'} :
          files' = [m \in DOMAIN files \cup {n} |-> IF m = n THEN v ELSE files[m]]

RepoEffect ==
    \/ repo' = repo \/ repo' = Workspace!NoRepo
    \/ repo' = [repo EXCEPT !.exists = TRUE] \/ repo' = [Workspace!NoRepo EXCEPT !.exists = TRUE]
    \/ /\ repo.exists
       /\ \/ repo' = [repo EXCEPT !.index = files]
          \/ repo' = [repo EXCEPT !.log = Append(@, Workspace!Commit(repo.index, clock))]
          \/ repo' = [repo EXCEPT !.index = files, !.log = Append(@, Workspace!Commit(files, clock'))]

DirectoryEffect ==
    \/ dir'
    \/ files' = Workspace!NoFiles /\ ~repo'.exists
    \/ ~dir /\ DOMAIN files' \subseteq DOMAIN files /\ repo' \in {repo, Workspace!NoRepo}

ClockEffect == clock' = clock \/ (clock < MaxEdits /\ clock' = clock + 1)

Effect == FileEffect /\ RepoEffect /\ DirectoryEffect /\ ClockEffect

LEMMA StampedInit ==
  ASSUME files = Workspace!NoFiles, repo = Workspace!NoRepo, clock = 0
  PROVE  Stamped
  BY NoFilesIs, NoRepoIs, SharedAssumption DEF Stamped

LEMMA EmptyTree == ASSUME NEW f \in Trees, DOMAIN f = {} PROVE f = Workspace!NoFiles
  BY TreeIs, NoFilesIs DEF Workspace!NoFiles

LEMMA ClockMoves ==
  ASSUME Stamped, ClockEffect
  PROVE  clock \in Nat /\ clock' \in 0 .. MaxEdits /\ clock' \in Nat /\ clock <= clock'
  BY SharedAssumption DEF Stamped, ClockEffect

LEMMA FilesStamped ==
  ASSUME Stamped, FileEffect, ClockEffect
  PROVE  files' \in Trees /\ \A n \in DOMAIN files' : files'[n] <= clock'
<1>0. /\ files \in Trees /\ clock \in Nat /\ clock' \in Nat /\ clock <= clock'
      /\ \A n \in DOMAIN files : files[n] \in Nat /\ files[n] <= clock
  BY ClockMoves, TreeIs DEF Stamped
<1>1. CASE files' = files
  BY <1>0, <1>1
<1>2. CASE files' = Workspace!NoFiles
  BY <1>2, NoFilesIs
<1>3. ASSUME NEW n, files' = [m \in DOMAIN files \ {n} |-> files[m]]
      PROVE  files' \in Trees /\ \A k \in DOMAIN files' : files'[k] <= clock'
  <2>1. files' \in Trees
    BY <1>0, <1>3, WithoutFile
  <2>2. QED
    BY <1>0, <1>3, <2>1
<1>4. ASSUME NEW n \in Workspace!Names, NEW v \in {0, clock'},
             files' = [m \in DOMAIN files \cup {n} |-> IF m = n THEN v ELSE files[m]]
      PROVE  files' \in Trees /\ \A k \in DOMAIN files' : files'[k] <= clock'
  <2>1. files' \in Trees
    BY <1>0, <1>4, WithFile
  <2>2. v \in Nat /\ v <= clock'
    BY <1>0
  <2>3. QED
    BY <1>0, <1>4, <2>1, <2>2
<1>5. QED
  BY <1>1, <1>2, <1>3, <1>4 DEF FileEffect

LEMMA MomentsOf ==
  ASSUME NEW log \in Seq(Commits), NEW i \in 1 .. Len(log)
  PROVE  log[i].at \in Nat
<1>1. log[i] \in Commits
  OBVIOUS
<1>2. QED
  BY <1>1 DEF Commits

(* A repository with the same commits, or with one commit more. *)
LEMMA SameLog ==
  ASSUME Stamped, ClockEffect, NEW f \in Trees, NEW e \in BOOLEAN,
         repo' = [exists |-> e, index |-> f, log |-> repo.log]
  PROVE  repo' \in Repos /\ \A i \in 1 .. Len(repo'.log) : repo'.log[i].at <= clock'
<1>1. /\ clock \in Nat /\ clock' \in Nat /\ clock <= clock' /\ repo.log \in Seq(Commits)
      /\ \A i \in 1 .. Len(repo.log) : repo.log[i].at <= clock
  BY ClockMoves, RepoIs DEF Stamped
<1>2. repo' \in Repos /\ repo'.log = repo.log
  BY <1>1 DEF Repos
<1>3. \A i \in 1 .. Len(repo.log) : repo.log[i].at \in Nat
  BY <1>1, MomentsOf
<1>4. QED
  BY <1>1, <1>2, <1>3

LEMMA LongerLog ==
  ASSUME Stamped, ClockEffect, NEW f \in Trees, NEW g \in Trees, NEW at \in {clock, clock'},
         repo' = [exists |-> repo.exists, index |-> f,
                  log |-> Append(repo.log, Workspace!Commit(g, at))]
  PROVE  repo' \in Repos /\ \A i \in 1 .. Len(repo'.log) : repo'.log[i].at <= clock'
<1>1. /\ clock \in Nat /\ clock' \in Nat /\ clock <= clock' /\ repo \in Repos /\ repo.log \in Seq(Commits)
      /\ repo.exists \in BOOLEAN
      /\ \A i \in 1 .. Len(repo.log) : repo.log[i].at <= clock
  BY ClockMoves, RepoIs DEF Stamped
<1>2. at \in Nat /\ at <= clock'
  BY <1>1
<1>3. repo'.log = Append(repo.log, Workspace!Commit(g, at))
  OBVIOUS
<1>4. /\ repo'.log \in Seq(Commits) /\ Len(repo'.log) = Len(repo.log) + 1
      /\ repo'.log[Len(repo'.log)].at = at
      /\ \A i \in 1 .. Len(repo.log) : repo'.log[i] = repo.log[i]
  BY <1>1, <1>2, <1>3, Committed
<1>5. \A i \in 1 .. Len(repo.log) : repo.log[i].at \in Nat
  BY <1>1, MomentsOf
<1>6. repo' \in Repos
  BY <1>1, <1>3, <1>4 DEF Repos
<1>7. \A i \in 1 .. Len(repo'.log) : i = Len(repo'.log) \/ i \in 1 .. Len(repo.log)
  BY <1>1, <1>4
<1>8. QED
  BY <1>1, <1>2, <1>4, <1>5, <1>6, <1>7

LEMMA RepoStamped ==
  ASSUME Stamped, RepoEffect, ClockEffect
  PROVE  /\ repo' \in Repos /\ \A i \in 1 .. Len(repo'.log) : repo'.log[i].at <= clock'
         /\ repo'.exists \/ repo' = Workspace!NoRepo
<1>0. /\ files \in Trees /\ repo \in Repos /\ repo.index \in Trees /\ repo.exists \in BOOLEAN
      /\ repo = [exists |-> repo.exists, index |-> repo.index, log |-> repo.log]
  BY RepoIs DEF Stamped
<1>1. CASE repo' = repo
  BY <1>0, <1>1, SameLog DEF Stamped
<1>2. CASE repo' = Workspace!NoRepo
  BY <1>2, NoRepoIs
<1>3. CASE repo' = [repo EXCEPT !.exists = TRUE]
  <2>1. repo' = [exists |-> TRUE, index |-> repo.index, log |-> repo.log]
    BY <1>0, <1>3, RepoWith
  <2>2. QED
    BY <1>0, <2>1, SameLog
<1>4. CASE repo' = [Workspace!NoRepo EXCEPT !.exists = TRUE]
  <2>1. repo' = [exists |-> TRUE, index |-> Workspace!NoFiles, log |-> <<>>]
    BY <1>4, NoRepoIs, RepoWith
  <2>2. repo' \in Repos
    BY <2>1, NoFilesIs DEF Repos
  <2>3. QED
    BY <2>1, <2>2
<1>5. CASE repo.exists /\ repo' = [repo EXCEPT !.index = files]
  <2>1. repo' = [exists |-> repo.exists, index |-> files, log |-> repo.log]
    BY <1>0, <1>5, RepoWith
  <2>2. QED
    BY <1>0, <1>5, <2>1, SameLog
<1>6. CASE repo.exists /\ repo' = [repo EXCEPT !.log = Append(@, Workspace!Commit(repo.index, clock))]
  <2>1. repo' = [exists |-> repo.exists, index |-> repo.index,
                 log |-> Append(repo.log, Workspace!Commit(repo.index, clock))]
    BY <1>0, <1>6, RepoWith
  <2>2. QED
    BY <1>0, <1>6, <2>1, LongerLog
<1>7. CASE /\ repo.exists
           /\ repo' = [repo EXCEPT !.index = files, !.log = Append(@, Workspace!Commit(files, clock'))]
  <2>1. repo' = [exists |-> repo.exists, index |-> files,
                 log |-> Append(repo.log, Workspace!Commit(files, clock'))]
    BY <1>0, <1>7, RepoWith
  <2>2. QED
    BY <1>0, <1>7, <2>1, LongerLog
<1>8. QED
  BY <1>1, <1>2, <1>3, <1>4, <1>5, <1>6, <1>7 DEF RepoEffect

LEMMA StampedKept ==
  ASSUME Stamped, Effect
  PROVE  Stamped'
<1>1. /\ files' \in Trees /\ repo' \in Repos /\ clock' \in 0 .. MaxEdits
      /\ \A n \in DOMAIN files' : files'[n] <= clock'
      /\ \A i \in 1 .. Len(repo'.log) : repo'.log[i].at <= clock'
      /\ repo'.exists \/ repo' = Workspace!NoRepo
  BY ClockMoves, FilesStamped, RepoStamped DEF Effect
<1>2. dir' \/ (files' = Workspace!NoFiles /\ ~repo'.exists)
  <2>1. CASE ~dir /\ DOMAIN files' \subseteq DOMAIN files /\ repo' \in {repo, Workspace!NoRepo}
    <3>1. DOMAIN files = {} /\ ~repo.exists
      BY <2>1, NoFilesIs DEF Stamped
    <3>2. QED
      BY <1>1, <2>1, <3>1, EmptyTree, NoRepoIs
  <2>2. QED
    BY <2>1 DEF Effect, DirectoryEffect
<1>3. QED
  BY <1>1, <1>2 DEF Stamped

LEMMA WorkspaceRequestEffect ==
  ASSUME Stamped, NEW r, pc[r] = "write" => todo[r] \subseteq Workspace!Template, Workspace!RequestStep(r)
  PROVE  Effect
<1>0. Workspace!Template \subseteq Workspace!Names
  BY Requesters
<1>1. CASE Workspace!Write(r)
  <2>1. PICK n \in Workspace!Names :
           files' = [m \in DOMAIN files \cup {n} |-> IF m = n THEN 0 ELSE files[m]]
    BY <1>0, <1>1 DEF Workspace!Write, Workspace!Standard
  <2>2. dir' /\ repo' = repo /\ clock' = clock
    BY <1>1 DEF Workspace!Write
  <2>3. QED
    BY <2>1, <2>2 DEF Effect, FileEffect, RepoEffect, DirectoryEffect, ClockEffect
<1>2. CASE Workspace!GitInit(r)
  BY <1>2 DEF Workspace!GitInit, Effect, FileEffect, RepoEffect, DirectoryEffect, ClockEffect
<1>3. CASE Workspace!GitConfig(r)
  BY <1>3 DEF Workspace!GitConfig, Workspace!Untouched,
     Effect, FileEffect, RepoEffect, DirectoryEffect, ClockEffect
<1>4. CASE Workspace!GitAdd(r)
  BY <1>4 DEF Workspace!GitAdd, Effect, FileEffect, RepoEffect, DirectoryEffect, ClockEffect
<1>5. CASE Workspace!GitCommit(r)
  <2>1. repo.exists /\ repo' = [repo EXCEPT !.log = Append(@, Workspace!Commit(repo.index, clock))]
    BY <1>5 DEF Workspace!GitCommit, Workspace!Committable, Workspace!Commit, Workspace!Commit
  <2>2. QED
    BY <1>5, <2>1 DEF Workspace!GitCommit,
       Effect, FileEffect, RepoEffect, DirectoryEffect, ClockEffect
<1>6. QED
  BY <1>1, <1>2, <1>3, <1>4, <1>5 DEF Workspace!RequestStep

LEMMA WorkspaceEffect ==
  ASSUME Stamped, \A r \in Workspace!Requests : pc[r] = "write" => todo[r] \subseteq Workspace!Template,
         Workspace!Next
  PROVE  Effect
<1>0. /\ Creation \in Workspace!Requests /\ \A r \in Resets : r \in Workspace!Requests
      /\ Workspace!NoFiles = Workspace!NoFiles /\ Workspace!NoRepo = Workspace!NoRepo
  BY DEF Workspace!Requests, Workspace!NoFiles, Workspace!NoRepo, Workspace!Standard,
     Workspace!NoFiles, Workspace!NoRepo, Workspace!Standard
<1>1. CASE UNCHANGED <<dir, files, repo, clock>>
  BY <1>1 DEF Stamped, Effect, FileEffect, RepoEffect, DirectoryEffect, ClockEffect
<1>2. CASE Workspace!MakeDirectory
  BY <1>2 DEF Workspace!MakeDirectory, Effect, FileEffect, RepoEffect, DirectoryEffect, ClockEffect
<1>3. CASE Workspace!CreationFails
  <2>1. files' = Workspace!NoFiles /\ repo' = Workspace!NoRepo /\ clock' = clock
    BY <1>0, <1>3 DEF Workspace!CreationFails
  <2>2. QED
    BY <2>1, NoRepoIs DEF Effect, FileEffect, RepoEffect, DirectoryEffect, ClockEffect
<1>4. ASSUME NEW r \in Resets, Workspace!RemoveEntry(r) PROVE Effect
  <2>1. PICK n : /\ files' = [m \in DOMAIN files \ {n} |-> files[m]]
                 /\ repo' = IF n = ".git" THEN Workspace!NoRepo ELSE repo
    BY <1>0, <1>4 DEF Workspace!RemoveEntry
  <2>2. dir' = dir /\ clock' = clock /\ DOMAIN files' \subseteq DOMAIN files
    BY <1>4, <2>1 DEF Workspace!RemoveEntry
  <2>3. QED
    BY <2>1, <2>2 DEF Effect, FileEffect, RepoEffect, DirectoryEffect, ClockEffect
<1>5. ASSUME NEW r \in Resets, Workspace!ResetStep(r) PROVE Effect
  <2>1. CASE Workspace!List(r) \/ Workspace!AllRemoved(r) \/ Workspace!ResetFails(r)
    BY <1>1, <2>1 DEF Workspace!List, Workspace!AllRemoved, Workspace!ResetFails, Workspace!Untouched
  <2>2. QED
    BY <1>0, <1>4, <1>5, <2>1, WorkspaceRequestEffect DEF Workspace!ResetStep
<1>6. CASE Workspace!UserStep
  <2>1. dir' /\ clock < MaxEdits /\ clock' = clock + 1
    BY <1>6 DEF Workspace!UserStep, Workspace!Edit, Workspace!EraseFile, Workspace!CommitAll, Workspace!InitAgain
  <2>2. FileEffect /\ RepoEffect
    <3>1. CASE Workspace!Edit
      <4>1. PICK n \in Workspace!Names :
               files' = [m \in DOMAIN files \cup {n} |-> IF m = n THEN clock' ELSE files[m]]
        BY <3>1 DEF Workspace!Edit, Workspace!Names, Workspace!Template, Workspace!Names, Workspace!Template
      <4>2. QED
        BY <3>1, <4>1 DEF Workspace!Edit, FileEffect, RepoEffect
    <3>2. CASE Workspace!EraseFile
      BY <3>2 DEF Workspace!EraseFile, FileEffect, RepoEffect
    <3>3. CASE Workspace!CommitAll
      BY <3>3 DEF Workspace!CommitAll, Workspace!Commit, Workspace!Commit, FileEffect, RepoEffect
    <3>4. CASE Workspace!InitAgain
      BY <1>0, <3>4 DEF Workspace!InitAgain, FileEffect, RepoEffect
    <3>5. QED
      BY <1>6, <3>1, <3>2, <3>3, <3>4 DEF Workspace!UserStep
  <2>3. QED
    BY <2>1, <2>2 DEF Effect, DirectoryEffect, ClockEffect
<1>7. CASE Workspace!EmptyDirectory
  BY <1>0, <1>7, NoRepoIs DEF Workspace!EmptyDirectory,
     Effect, FileEffect, RepoEffect, DirectoryEffect, ClockEffect
<1>8. CASE Workspace!RemoveDirectory
  BY <1>0, <1>8 DEF Workspace!RemoveDirectory,
     Stamped, Effect, FileEffect, RepoEffect, DirectoryEffect, ClockEffect
<1>9. CASE Workspace!SnapshotStep \/ Workspace!Crash
  BY <1>1, <1>9 DEF Workspace!SnapshotStep, Workspace!AskHead, Workspace!AskStatus, Workspace!SnapshotOver,
     Workspace!Crash
<1>10. QED
  BY <1>0, <1>2, <1>3, <1>5, <1>6, <1>7, <1>8, <1>9, WorkspaceRequestEffect DEF Workspace!Next

LEMMA CaptureRequestEffect ==
  ASSUME Stamped, NEW r, pc[r] = "write" => todo[r] \subseteq Workspace!Template, Capture!RequestStep(r)
  PROVE  Effect
<1>0. Workspace!Template \subseteq Workspace!Names
  BY Requesters
<1>1. CASE Capture!Write(r)
  <2>1. PICK n \in Workspace!Names :
           files' = [m \in DOMAIN files \cup {n} |-> IF m = n THEN 0 ELSE files[m]]
    BY <1>0, <1>1 DEF Capture!Write, Capture!Standard
  <2>2. dir' /\ repo' = repo /\ clock' = clock
    BY <1>1 DEF Capture!Write
  <2>3. QED
    BY <2>1, <2>2 DEF Effect, FileEffect, RepoEffect, DirectoryEffect, ClockEffect
<1>2. CASE Capture!GitInit(r)
  BY <1>2 DEF Capture!GitInit, Effect, FileEffect, RepoEffect, DirectoryEffect, ClockEffect
<1>3. CASE Capture!GitConfig(r)
  BY <1>3 DEF Capture!GitConfig, Capture!Untouched,
     Effect, FileEffect, RepoEffect, DirectoryEffect, ClockEffect
<1>4. CASE Capture!GitAdd(r)
  BY <1>4 DEF Capture!GitAdd, Effect, FileEffect, RepoEffect, DirectoryEffect, ClockEffect
<1>5. CASE Capture!GitCommit(r)
  <2>1. repo.exists /\ repo' = [repo EXCEPT !.log = Append(@, Workspace!Commit(repo.index, clock))]
    BY <1>5 DEF Capture!GitCommit, Capture!Committable, Capture!Commit, Workspace!Commit
  <2>2. QED
    BY <1>5, <2>1 DEF Capture!GitCommit,
       Effect, FileEffect, RepoEffect, DirectoryEffect, ClockEffect
<1>6. QED
  BY <1>1, <1>2, <1>3, <1>4, <1>5 DEF Capture!RequestStep

LEMMA CaptureEffect ==
  ASSUME Stamped, \A r \in Capture!Requests : pc[r] = "write" => todo[r] \subseteq Workspace!Template,
         Capture!Next
  PROVE  Effect
<1>0. /\ Creation \in Capture!Requests /\ \A r \in {r1} : r \in Capture!Requests
      /\ Capture!NoFiles = Workspace!NoFiles /\ Capture!NoRepo = Workspace!NoRepo
  BY DEF Capture!Requests, Capture!NoFiles, Capture!NoRepo, Capture!Standard,
     Workspace!NoFiles, Workspace!NoRepo, Workspace!Standard
<1>1. CASE UNCHANGED <<dir, files, repo, clock>>
  BY <1>1 DEF Stamped, Effect, FileEffect, RepoEffect, DirectoryEffect, ClockEffect
<1>2. CASE Capture!MakeDirectory
  BY <1>2 DEF Capture!MakeDirectory, Effect, FileEffect, RepoEffect, DirectoryEffect, ClockEffect
<1>3. CASE Capture!CreationFails
  <2>1. files' = Workspace!NoFiles /\ repo' = Workspace!NoRepo /\ clock' = clock
    BY <1>0, <1>3 DEF Capture!CreationFails
  <2>2. QED
    BY <2>1, NoRepoIs DEF Effect, FileEffect, RepoEffect, DirectoryEffect, ClockEffect
<1>4. ASSUME NEW r \in {r1}, Capture!RemoveEntry(r) PROVE Effect
  <2>1. PICK n : /\ files' = [m \in DOMAIN files \ {n} |-> files[m]]
                 /\ repo' = IF n = ".git" THEN Workspace!NoRepo ELSE repo
    BY <1>0, <1>4 DEF Capture!RemoveEntry
  <2>2. dir' = dir /\ clock' = clock /\ DOMAIN files' \subseteq DOMAIN files
    BY <1>4, <2>1 DEF Capture!RemoveEntry
  <2>3. QED
    BY <2>1, <2>2 DEF Effect, FileEffect, RepoEffect, DirectoryEffect, ClockEffect
<1>5. ASSUME NEW r \in {r1}, Capture!ResetStep(r) PROVE Effect
  <2>1. CASE Capture!List(r) \/ Capture!AllRemoved(r) \/ Capture!ResetFails(r)
    BY <1>1, <2>1 DEF Capture!List, Capture!AllRemoved, Capture!ResetFails, Capture!Untouched
  <2>2. QED
    BY <1>0, <1>4, <1>5, <2>1, CaptureRequestEffect DEF Capture!ResetStep
<1>6. CASE Capture!UserStep
  <2>1. dir' /\ clock < MaxEdits /\ clock' = clock + 1
    BY <1>6 DEF Capture!UserStep, Capture!Edit, Capture!EraseFile, Capture!CommitAll, Capture!InitAgain
  <2>2. FileEffect /\ RepoEffect
    <3>1. CASE Capture!Edit
      <4>1. PICK n \in Workspace!Names :
               files' = [m \in DOMAIN files \cup {n} |-> IF m = n THEN clock' ELSE files[m]]
        BY <3>1 DEF Capture!Edit, Capture!Names, Capture!Template, Workspace!Names, Workspace!Template
      <4>2. QED
        BY <3>1, <4>1 DEF Capture!Edit, FileEffect, RepoEffect
    <3>2. CASE Capture!EraseFile
      BY <3>2 DEF Capture!EraseFile, FileEffect, RepoEffect
    <3>3. CASE Capture!CommitAll
      BY <3>3 DEF Capture!CommitAll, Capture!Commit, Workspace!Commit, FileEffect, RepoEffect
    <3>4. CASE Capture!InitAgain
      BY <1>0, <3>4 DEF Capture!InitAgain, FileEffect, RepoEffect
    <3>5. QED
      BY <1>6, <3>1, <3>2, <3>3, <3>4 DEF Capture!UserStep
  <2>3. QED
    BY <2>1, <2>2 DEF Effect, DirectoryEffect, ClockEffect
<1>7. CASE Capture!EmptyDirectory
  BY <1>0, <1>7, NoRepoIs DEF Capture!EmptyDirectory,
     Effect, FileEffect, RepoEffect, DirectoryEffect, ClockEffect
<1>8. CASE Capture!RemoveDirectory
  BY <1>0, <1>8 DEF Capture!RemoveDirectory,
     Stamped, Effect, FileEffect, RepoEffect, DirectoryEffect, ClockEffect
<1>9. CASE Capture!SnapshotStep \/ Capture!Crash
  BY <1>1, <1>9 DEF Capture!SnapshotStep, Capture!AskHead, Capture!AskStatus, Capture!SnapshotOver,
     Capture!Crash
<1>10. QED
  BY <1>0, <1>2, <1>3, <1>5, <1>6, <1>7, <1>8, <1>9, CaptureRequestEffect DEF Capture!Next
-----------------------------------------------------------------------------
(* Without snapshots; the creation lists nothing. *)
WorkspaceTypes == Stamped /\ since[Creation] = 0 /\ snapshot.pc = "idle"

LEMMA WorkspaceTypesInit == Workspace!Init => WorkspaceTypes
<1> SUFFICES ASSUME Workspace!Init PROVE WorkspaceTypes
  OBVIOUS
<1>1. Stamped
  BY StampedInit DEF Workspace!Init
<1>2. QED
  BY <1>1, Requesters DEF Workspace!Init, WorkspaceTypes

LEMMA WorkspaceTypesStep ==
  ASSUME WorkspaceInv, WorkspaceTypes, Workspace!Next
  PROVE  WorkspaceTypes'
<1>0. /\ WorkspaceShape /\ DirectoryInv /\ Creation \in Workspace!Requests
      /\ \A r \in Resets : r # Creation
  BY Requesters DEF WorkspaceInv
<1>1. Stamped'
  BY <1>0, WorkspaceEffect, StampedKept DEF WorkspaceTypes, DirectoryInv
<1>2. since'[Creation] = 0
  <2>1. CASE since' = since
    BY <2>1 DEF WorkspaceTypes
  <2>2. CASE \E S : Workspace!Over(S)
    BY <1>0, <2>2 DEF Workspace!Over, WorkspaceTypes
  <2>3. ASSUME NEW r \in Resets, Workspace!List(r) PROVE since'[Creation] = 0
    BY <1>0, <2>3 DEF Workspace!List, WorkspaceShape, WorkspaceTypes
  <2>4. ASSUME NEW r, Workspace!RequestStep(r) PROVE since' = since
    BY <2>4 DEF Workspace!RequestStep, Workspace!Write, Workspace!GitInit, Workspace!GitConfig,
       Workspace!GitAdd, Workspace!GitCommit
  <2>5. ASSUME NEW r \in Resets, Workspace!ResetStep(r) PROVE since'[Creation] = 0
    BY <2>1, <2>2, <2>3, <2>4, <2>5 DEF Workspace!ResetStep, Workspace!RemoveEntry,
       Workspace!AllRemoved, Workspace!ResetFails
  <2>6. CASE Workspace!CreationFails \/ Workspace!Crash
    BY <2>2, <2>6 DEF Workspace!CreationFails, Workspace!Crash
  <2>7. CASE \/ Workspace!MakeDirectory \/ Workspace!UserStep \/ Workspace!EmptyDirectory
             \/ Workspace!RemoveDirectory \/ Workspace!SnapshotStep
    BY <2>1, <2>7 DEF Workspace!MakeDirectory, Workspace!UserStep, Workspace!EmptyDirectory,
       Workspace!RemoveDirectory, Workspace!SnapshotStep, Workspace!AskHead, Workspace!AskStatus,
       Workspace!SnapshotOver
  <2>8. QED
    BY <2>1, <2>4, <2>5, <2>6, <2>7 DEF Workspace!Next
<1>3. snapshot'.pc = "idle"
  <2>1. ~Workspace!AskHead /\ ~Workspace!AskStatus
    BY DEF Workspace!AskHead, Workspace!AskStatus, WorkspaceTypes
  <2>2. CASE Workspace!SnapshotOver \/ Workspace!Crash
    BY <2>2 DEF Workspace!SnapshotOver, Workspace!Crash
  <2>3. CASE snapshot' = snapshot
    BY <2>3 DEF WorkspaceTypes
  <2>4. ASSUME NEW r, Workspace!RequestStep(r) PROVE snapshot' = snapshot
    BY <2>4 DEF Workspace!RequestStep, Workspace!Write, Workspace!GitInit, Workspace!GitConfig,
       Workspace!GitAdd, Workspace!GitCommit
  <2>5. ASSUME NEW r \in Resets, Workspace!ResetStep(r) PROVE snapshot' = snapshot
    BY <2>4, <2>5 DEF Workspace!ResetStep, Workspace!List, Workspace!RemoveEntry,
       Workspace!AllRemoved, Workspace!ResetFails
  <2>6. CASE \/ Workspace!MakeDirectory \/ Workspace!CreationFails \/ Workspace!UserStep
             \/ Workspace!EmptyDirectory \/ Workspace!RemoveDirectory
    BY <2>3, <2>6 DEF Workspace!MakeDirectory, Workspace!CreationFails, Workspace!UserStep,
       Workspace!EmptyDirectory, Workspace!RemoveDirectory
  <2>7. QED
    BY <2>1, <2>2, <2>3, <2>4, <2>5, <2>6 DEF Workspace!Next, Workspace!SnapshotStep
<1>4. QED
  BY <1>1, <1>2, <1>3 DEF WorkspaceTypes

LEMMA WorkspaceTypeOK == WorkspaceInv /\ WorkspaceTypes => Workspace!TypeOK
<1> SUFFICES ASSUME WorkspaceInv, WorkspaceTypes PROVE Workspace!TypeOK
  OBVIOUS
<1>0. WorkspaceShape /\ DirectoryInv /\ Stamped /\ clock \in Nat
  BY DEF WorkspaceInv, WorkspaceTypes, WorkspaceShape
<1>1. /\ DOMAIN files \subseteq Workspace!Names /\ \A n \in DOMAIN files : files[n] \in 0 .. clock
  BY <1>0, TreeIs DEF Stamped
<1>2. /\ repo.exists \in BOOLEAN /\ DOMAIN repo.index \subseteq Workspace!Names
      /\ \A i \in 1 .. Len(repo.log) : repo.log[i].at \in 0 .. clock
  <2>1. repo.log \in Seq(Commits) /\ repo.index \in Trees /\ repo.exists \in BOOLEAN
    BY <1>0, RepoIs DEF Stamped
  <2>2. QED
    BY <1>0, <2>1, MomentsOf, TreeIs DEF Stamped
<1>3. since \in [Workspace!Requests -> 0 .. clock]
  <2>1. ASSUME NEW r \in Workspace!Requests PROVE since[r] \in 0 .. clock
    BY <1>0 DEF WorkspaceInv, WorkspaceTypes, ResetInv, WorkspaceShape, Workspace!Requests
  <2>2. QED
    BY <1>0, <2>1 DEF WorkspaceShape
<1>4. QED
  BY <1>0, <1>1, <1>2, <1>3 DEF WorkspaceShape, DirectoryInv, WorkspaceTypes, Stamped, Places,
     Workspace!TypeOK
-----------------------------------------------------------------------------
(* With snapshots. *)
CaptureRequests ==
    /\ pc \in [Capture!Requests -> Places]
    /\ todo \in [Capture!Requests -> SUBSET (Workspace!Names \cup {".git"})]
    /\ since \in [Capture!Requests -> Nat] /\ \A r \in Capture!Requests : since[r] <= clock
    /\ disturbed \in [Capture!Requests -> SUBSET {"reset", "other"}]
    /\ \A r \in Capture!Requests : pc[r] = "write" => todo[r] \subseteq Workspace!Template

CaptureTypes ==
    /\ Stamped /\ CaptureRequests
    /\ dir \in BOOLEAN /\ deletion \in {"idle", "emptied", "done"}
    /\ snapshot.pc \in {"idle", "status", "answered"}

LEMMA CaptureNames ==
  /\ Capture!Names = Workspace!Names /\ Capture!Template = Workspace!Template
  /\ Capture!NoFiles = Workspace!NoFiles /\ Capture!NoRepo = Workspace!NoRepo
  /\ Workspace!Template \subseteq Workspace!Names
  /\ Creation \in Capture!Requests /\ r1 \in Capture!Requests /\ r1 # Creation
  BY SharedAssumption DEF Capture!Names, Workspace!Names, Capture!Template, Workspace!Template,
     Capture!NoFiles, Workspace!NoFiles, Capture!NoRepo, Workspace!NoRepo,
     Capture!Standard, Workspace!Standard, Capture!Requests

LEMMA CaptureTypesInit == Capture!Init => CaptureTypes
<1> SUFFICES ASSUME Capture!Init PROVE CaptureTypes
  OBVIOUS
<1>1. Stamped
  BY StampedInit, CaptureNames DEF Capture!Init
<1>2. CaptureRequests
  BY DEF Capture!Init, CaptureRequests, Places
<1>3. QED
  BY <1>1, <1>2 DEF Capture!Init, CaptureTypes

LEMMA CaptureChanged ==
  ASSUME CaptureRequests, NEW by, Capture!Changed(by)
  PROVE  disturbed' \in [Capture!Requests -> SUBSET {"reset", "other"}]
<1>1. Capture!KindOf(by) \in {"reset", "other"}
  BY DEF Capture!KindOf
<1>2. QED
  BY <1>1 DEF Capture!Changed, CaptureRequests

(* A request goes on, and has less to do, or all of the template. *)
LEMMA CaptureGoesOn ==
  ASSUME CaptureRequests, clock \in Nat, clock' = clock, NEW r \in Capture!Requests,
         pc' = pc \/ \E next \in Places : Capture!To(r, next),
         NEW t \in SUBSET (Workspace!Names \cup {".git"}), todo' = [todo EXCEPT ![r] = t],
         pc'[r] = "write" => t \subseteq Workspace!Template,
         since' = since, disturbed' \in [Capture!Requests -> SUBSET {"reset", "other"}]
  PROVE  CaptureRequests'
<1>1. /\ pc' \in [Capture!Requests -> Places]
      /\ todo' \in [Capture!Requests -> SUBSET (Workspace!Names \cup {".git"})]
      /\ \A q \in Capture!Requests \ {r} : pc'[q] = pc[q] /\ todo'[q] = todo[q]
      /\ todo'[r] = t
  BY DEF CaptureRequests, Capture!To
<1>2. QED
  BY <1>1 DEF CaptureRequests

LEMMA CaptureOver ==
  ASSUME CaptureRequests, clock \in Nat, clock' = clock, NEW S, Capture!Over(S),
         pc' \in [Capture!Requests -> Places],
         \A q \in Capture!Requests \ S : pc'[q] = pc[q]
  PROVE  CaptureRequests'
<1>1. /\ todo' \in [Capture!Requests -> SUBSET (Workspace!Names \cup {".git"})]
      /\ since' \in [Capture!Requests -> Nat]
      /\ disturbed' \in [Capture!Requests -> SUBSET {"reset", "other"}]
      /\ \A q \in Capture!Requests \ S : todo'[q] = todo[q] /\ since'[q] = since[q]
      /\ \A q \in Capture!Requests \cap S : todo'[q] = {} /\ since'[q] = 0
  BY DEF Capture!Over, CaptureRequests
<1>2. QED
  BY <1>1 DEF CaptureRequests

(* A request stays where it is in its list, or has one name less on it. *)
LEMMA CaptureRequestKeeps ==
  ASSUME CaptureRequests, clock \in Nat, NEW r \in Capture!Requests, Capture!RequestStep(r)
  PROVE  CaptureRequests'
<1>0. /\ todo[r] \in SUBSET (Workspace!Names \cup {".git"}) /\ todo = [todo EXCEPT ![r] = todo[r]]
      /\ {"config", "add", "commit", "done"} \subseteq Places
      /\ pc[r] = "write" => todo[r] \subseteq Workspace!Template
      /\ r \in DOMAIN pc /\ r \in DOMAIN todo
  BY DEF CaptureRequests, Places
<1>1. CASE Capture!Write(r)
  <2>1. PICK n \in todo[r] : todo' = [todo EXCEPT ![r] = todo[r] \ {n}]
    BY <1>1 DEF Capture!Write
  <2>2. /\ pc' = pc /\ pc[r] = "write" /\ clock' = clock /\ since' = since
        /\ disturbed' \in [Capture!Requests -> SUBSET {"reset", "other"}]
    BY <1>1, CaptureChanged DEF Capture!Write
  <2>3. todo[r] \ {n} \in SUBSET (Workspace!Names \cup {".git"})
    BY <1>0
  <2>4. QED
    BY <1>0, <2>1, <2>2, <2>3, CaptureGoesOn
<1>2. ASSUME NEW next \in {"config", "add", "commit", "done"}, Capture!To(r, next),
             todo' = todo, clock' = clock, since' = since,
             disturbed' \in [Capture!Requests -> SUBSET {"reset", "other"}]
      PROVE  CaptureRequests'
  <2>1. pc'[r] # "write" /\ next \in Places
    BY <1>0, <1>2 DEF Capture!To
  <2>2. QED
    BY <1>0, <1>2, <2>1, CaptureGoesOn
<1>3. CASE Capture!GitInit(r)
  BY <1>2, <1>3, CaptureChanged DEF Capture!GitInit
<1>4. CASE Capture!GitConfig(r)
  BY <1>2, <1>4 DEF Capture!GitConfig, Capture!Untouched, CaptureRequests
<1>5. CASE Capture!GitAdd(r)
  BY <1>2, <1>5, CaptureChanged DEF Capture!GitAdd
<1>6. CASE Capture!GitCommit(r)
  BY <1>2, <1>6, CaptureChanged DEF Capture!GitCommit
<1>7. QED
  BY <1>1, <1>3, <1>4, <1>5, <1>6 DEF Capture!RequestStep

LEMMA CaptureResetKeeps ==
  ASSUME CaptureRequests, files \in Trees, clock \in Nat, Capture!ResetStep(r1)
  PROVE  CaptureRequests'
<1>0. /\ todo[r1] \in SUBSET (Workspace!Names \cup {".git"}) /\ todo = [todo EXCEPT ![r1] = todo[r1]]
      /\ {"remove", "missing", "write", "failed"} \subseteq Places
      /\ r1 \in DOMAIN pc /\ r1 \in Capture!Requests
      /\ Workspace!Template \in SUBSET (Workspace!Names \cup {".git"})
  BY CaptureNames DEF CaptureRequests, Places
<1>1. CASE Capture!List(r1)
  <2>1. /\ pc' \in [Capture!Requests -> Places] /\ pc'[r1] # "write"
        /\ \A q \in Capture!Requests \ {r1} : pc'[q] = pc[q]
    BY <1>0, <1>1 DEF Capture!List, Capture!To, CaptureRequests
  <2>2. PICK t \in SUBSET (Workspace!Names \cup {".git"}) : todo' = [todo EXCEPT ![r1] = t]
    <3>1. DOMAIN files \cup (IF repo.exists THEN {".git"} ELSE {})
              \in SUBSET (Workspace!Names \cup {".git"})
      BY TreeIs
    <3>2. QED
      BY <1>1, <3>1 DEF Capture!List
  <2>3. /\ since' \in [Capture!Requests -> Nat] /\ clock' = clock
        /\ \A q \in Capture!Requests : since'[q] <= clock
        /\ disturbed' \in [Capture!Requests -> SUBSET {"reset", "other"}]
    BY <1>0, <1>1 DEF Capture!List, CaptureRequests
  <2>4. /\ todo' \in [Capture!Requests -> SUBSET (Workspace!Names \cup {".git"})]
        /\ \A q \in Capture!Requests \ {r1} : todo'[q] = todo[q]
    BY <2>2 DEF CaptureRequests
  <2>5. QED
    BY <2>1, <2>3, <2>4 DEF CaptureRequests
<1>2. CASE Capture!RemoveEntry(r1)
  <2>1. PICK n : todo' = [todo EXCEPT ![r1] = todo[r1] \ {n}]
    BY <1>2 DEF Capture!RemoveEntry
  <2>2. /\ pc' = pc /\ pc[r1] = "remove" /\ clock' = clock /\ since' = since
        /\ disturbed' \in [Capture!Requests -> SUBSET {"reset", "other"}]
    BY <1>2, CaptureChanged DEF Capture!RemoveEntry
  <2>3. todo[r1] \ {n} \in SUBSET (Workspace!Names \cup {".git"})
    BY <1>0
  <2>4. QED
    BY <1>0, <2>1, <2>2, <2>3, CaptureGoesOn
<1>3. CASE Capture!AllRemoved(r1)
  <2>1. /\ Capture!To(r1, "write") /\ todo' = [todo EXCEPT ![r1] = Workspace!Template]
        /\ clock' = clock /\ since' = since /\ disturbed' = disturbed
    BY <1>3, CaptureNames DEF Capture!AllRemoved, Capture!Untouched
  <2>2. disturbed' \in [Capture!Requests -> SUBSET {"reset", "other"}]
    BY <2>1 DEF CaptureRequests
  <2>3. QED
    BY <1>0, <2>1, <2>2, CaptureGoesOn
<1>4. CASE Capture!ResetFails(r1)
  <2>1. /\ pc' \in [Capture!Requests -> Places] /\ \A q \in Capture!Requests \ {r1} : pc'[q] = pc[q]
    BY <1>0, <1>4 DEF Capture!ResetFails, Capture!To, CaptureRequests
  <2>2. QED
    BY <1>4, <2>1, CaptureOver DEF Capture!ResetFails
<1>5. QED
  BY <1>0, <1>1, <1>2, <1>3, <1>4, CaptureRequestKeeps DEF Capture!ResetStep

LEMMA CaptureRequestsKept ==
  ASSUME CaptureTypes, Capture!Next
  PROVE  CaptureRequests'
<1>0. /\ CaptureRequests /\ files \in Trees /\ clock \in Nat /\ {"write", "failed"} \subseteq Places
      /\ Creation \in Capture!Requests
      /\ Workspace!Template \in SUBSET (Workspace!Names \cup {".git"})
  BY CaptureNames DEF CaptureTypes, Stamped, Places
<1>1. CASE Capture!MakeDirectory
  <2>1. /\ Capture!To(Creation, "write") /\ todo' = [todo EXCEPT ![Creation] = Workspace!Template]
        /\ clock' = clock /\ since' = since /\ disturbed' = disturbed
    BY <1>1, CaptureNames DEF Capture!MakeDirectory, Capture!To
  <2>2. disturbed' \in [Capture!Requests -> SUBSET {"reset", "other"}]
    BY <1>0, <2>1 DEF CaptureRequests
  <2>3. QED
    BY <1>0, <2>1, <2>2, CaptureGoesOn
<1>2. CASE Capture!CreationFails
  <2>1. /\ pc' \in [Capture!Requests -> Places]
        /\ \A q \in Capture!Requests \ {Creation} : pc'[q] = pc[q]
    BY <1>0, <1>2 DEF Capture!CreationFails, Capture!To, CaptureRequests
  <2>2. QED
    BY <1>0, <1>2, <2>1, CaptureOver DEF Capture!CreationFails
<1>3. CASE Capture!UserStep \/ Capture!EmptyDirectory
  <2>1. /\ UNCHANGED <<pc, todo, since>> /\ clock' \in {clock, clock + 1}
        /\ disturbed' \in [Capture!Requests -> SUBSET {"reset", "other"}]
    BY <1>0, <1>3, CaptureChanged DEF Capture!UserStep, Capture!EmptyDirectory
  <2>2. \A q \in Capture!Requests : since[q] \in Nat /\ since[q] <= clock
    BY <1>0 DEF CaptureRequests
  <2>3. QED
    BY <1>0, <2>1, <2>2 DEF CaptureRequests
<1>4. CASE Capture!RemoveDirectory \/ Capture!SnapshotStep
  <2>1. UNCHANGED <<pc, todo, since, disturbed, clock>>
    BY <1>4 DEF Capture!RemoveDirectory, Capture!SnapshotStep, Capture!AskHead, Capture!AskStatus,
       Capture!SnapshotOver
  <2>2. QED
    BY <1>0, <2>1 DEF CaptureRequests
<1>5. CASE Capture!Crash
  <2>1. PICK S : /\ Capture!Over(S)
                 /\ pc' = [r \in Capture!Requests |-> IF r \in S THEN "failed" ELSE pc[r]]
    BY <1>5 DEF Capture!Crash
  <2>2. /\ pc' \in [Capture!Requests -> Places] /\ clock' = clock
        /\ \A q \in Capture!Requests \ S : pc'[q] = pc[q]
    BY <1>0, <1>5, <2>1 DEF Capture!Crash, CaptureRequests
  <2>3. QED
    BY <1>0, <2>1, <2>2, CaptureOver
<1>6. QED
  BY <1>0, <1>1, <1>2, <1>3, <1>4, <1>5, CaptureRequestKeeps, CaptureResetKeeps DEF Capture!Next

LEMMA CaptureTypesStep ==
  ASSUME CaptureInv, CaptureTypes, Capture!Next
  PROVE  CaptureTypes'
<1>1. Stamped'
  BY CaptureEffect, StampedKept DEF CaptureTypes, CaptureRequests
<1>2. dir' \in BOOLEAN /\ deletion' \in {"idle", "emptied", "done"}
  <2>1. CASE UNCHANGED <<dir, deletion>>
    BY <2>1 DEF CaptureTypes
  <2>2. ASSUME NEW r, Capture!RequestStep(r) PROVE UNCHANGED <<dir, deletion>>
    BY <2>2 DEF Capture!RequestStep, Capture!Write, Capture!GitInit, Capture!GitConfig,
       Capture!GitAdd, Capture!GitCommit, Capture!Untouched
  <2>3. ASSUME NEW r, Capture!ResetStep(r) PROVE UNCHANGED <<dir, deletion>>
    BY <2>2, <2>3 DEF Capture!ResetStep, Capture!List, Capture!RemoveEntry,
       Capture!AllRemoved, Capture!ResetFails, Capture!Untouched
  <2>4. CASE Capture!UserStep \/ Capture!SnapshotStep
    BY <2>1, <2>4 DEF Capture!UserStep, Capture!SnapshotStep, Capture!AskHead, Capture!AskStatus,
       Capture!SnapshotOver
  <2>5. CASE \/ Capture!MakeDirectory \/ Capture!CreationFails
             \/ Capture!EmptyDirectory \/ Capture!RemoveDirectory \/ Capture!Crash
    BY <2>5 DEF Capture!MakeDirectory, Capture!CreationFails,
       Capture!EmptyDirectory, Capture!RemoveDirectory, Capture!Crash, CaptureTypes
  <2>6. QED
    BY <2>1, <2>2, <2>3, <2>4, <2>5 DEF Capture!Next
<1>3. snapshot'.pc \in {"idle", "status", "answered"}
  <2>1. CASE snapshot' = snapshot
    BY <2>1 DEF CaptureTypes
  <2>2. ASSUME NEW r, Capture!RequestStep(r) PROVE snapshot' = snapshot
    BY <2>2 DEF Capture!RequestStep, Capture!Write, Capture!GitInit, Capture!GitConfig,
       Capture!GitAdd, Capture!GitCommit
  <2>3. ASSUME NEW r, Capture!ResetStep(r) PROVE snapshot' = snapshot
    BY <2>2, <2>3 DEF Capture!ResetStep, Capture!List, Capture!RemoveEntry,
       Capture!AllRemoved, Capture!ResetFails
  <2>4. CASE \/ Capture!MakeDirectory \/ Capture!CreationFails \/ Capture!UserStep
             \/ Capture!EmptyDirectory \/ Capture!RemoveDirectory
    BY <2>1, <2>4 DEF Capture!MakeDirectory, Capture!CreationFails, Capture!UserStep,
       Capture!EmptyDirectory, Capture!RemoveDirectory
  <2>5. DOMAIN snapshot = {"pc", "head", "clean"}
    BY DEF CaptureInv
  <2>6. CASE Capture!AskHead
    BY <2>5, <2>6 DEF Capture!AskHead
  <2>7. CASE Capture!AskStatus
    BY <2>5, <2>7 DEF Capture!AskStatus
  <2>8. CASE Capture!SnapshotOver \/ Capture!Crash
    BY <2>8 DEF Capture!SnapshotOver, Capture!Crash
  <2>9. QED
    BY <2>1, <2>2, <2>3, <2>4, <2>6, <2>7, <2>8 DEF Capture!SnapshotStep, Capture!Next
<1>4. QED
  BY <1>1, <1>2, <1>3, CaptureRequestsKept DEF CaptureTypes

LEMMA CaptureTypeOK == CaptureTypes => Capture!TypeOK
<1> SUFFICES ASSUME CaptureTypes PROVE Capture!TypeOK
  OBVIOUS
<1>0. Stamped /\ CaptureRequests /\ clock \in Nat
  BY DEF CaptureTypes, Stamped
<1>1. DOMAIN files \subseteq Capture!Names /\ \A n \in DOMAIN files : files[n] \in 0 .. clock
  BY <1>0, TreeIs, CaptureNames DEF Stamped
<1>2. /\ repo.exists \in BOOLEAN /\ DOMAIN repo.index \subseteq Capture!Names
      /\ \A i \in 1 .. Len(repo.log) : repo.log[i].at \in 0 .. clock
  <2>1. repo.log \in Seq(Commits) /\ repo.index \in Trees /\ repo.exists \in BOOLEAN
    BY <1>0, RepoIs DEF Stamped
  <2>2. QED
    BY <1>0, <2>1, MomentsOf, TreeIs, CaptureNames DEF Stamped
<1>3. since \in [Capture!Requests -> 0 .. clock]
  BY <1>0 DEF CaptureRequests
<1>4. /\ repo.exists \/ repo = Capture!NoRepo
      /\ dir \/ (files = Capture!NoFiles /\ ~repo.exists)
      /\ todo \in [Capture!Requests -> SUBSET (Capture!Names \cup {".git"})]
  BY <1>0, CaptureNames DEF Stamped, CaptureRequests
<1>5. QED
  BY <1>0, <1>1, <1>2, <1>3, <1>4 DEF CaptureTypes, CaptureRequests, Stamped, Places,
     Capture!TypeOK
-----------------------------------------------------------------------------
TypesAreKept == IF part = "capture" THEN CaptureTypes ELSE WorkspaceTypes

LEMMA TypesInvariant == Parts => [](DirectoryIsKept /\ TypesAreKept)
<1>1. PartsInit => TypesAreKept
  BY WorkspaceTypesInit, CaptureTypesInit DEF PartsInit, TypesAreKept
<1>2. DirectoryIsKept /\ TypesAreKept /\ [PartsNext]_allVars => TypesAreKept'
  <2> SUFFICES ASSUME DirectoryIsKept, TypesAreKept, [PartsNext]_allVars PROVE TypesAreKept'
    OBVIOUS
  <2>1. part' = part
    BY DEF PartsNext, allVars
  <2>2. CASE UNCHANGED workspaceVars
    <3>1. UNCHANGED <<dir, files, repo, pc, todo, deletion, snapshot, clock, since, disturbed>>
      BY <2>2 DEF workspaceVars
    <3>2. QED
      BY <2>1, <3>1 DEF TypesAreKept, CaptureTypes, WorkspaceTypes, Stamped, CaptureRequests
  <2>3. CASE part = "capture" /\ Capture!Next
    BY <2>1, <2>3, CaptureTypesStep DEF DirectoryIsKept, TypesAreKept
  <2>4. CASE part # "capture" /\ Workspace!Next
    BY <2>1, <2>4, WorkspaceTypesStep DEF DirectoryIsKept, TypesAreKept
  <2>5. QED
    BY <2>2, <2>3, <2>4 DEF PartsNext, allVars
<1>3. QED
  BY <1>1, <1>2, WorkspaceInvariant, PTL DEF Parts

(* The rows move by themselves, as CurrentSession has them. *)
LEMMA RowsMove == Parts => Spec
<1>1. PartsInit => Init
  BY DEF PartsInit
<1>2. [PartsNext]_allVars => [Next]_vars
  BY DEF PartsNext, allVars
<1>3. QED
  BY <1>1, <1>2, PTL DEF Parts, Spec

LEMMA SessionTypeOK == SessionInv => Session!TypeOK
<1> SUFFICES ASSUME SessionInv PROVE Session!TypeOK
  OBVIOUS
<1>1. SessionShape /\ panicked \in BOOLEAN
  BY DEF SessionInv, PumpInv
<1>2. ASSUME NEW r \in Readers
      PROVE  /\ chan[r].open \in BOOLEAN
             /\ Len(chan[r].buf) <= Cap
             /\ \A i \in DOMAIN chan[r].buf : chan[r].buf[i] \in Session!Chunks
             /\ stream[r] \in {"off", "subscribe", "loop", "deliver", "leave", "report", "over"}
             /\ handler[r] \in {"off", "read", "input", "write", "join", "over"}
             /\ outcome[r] \in {"none", "ended", "failed", "cancelled"}
             /\ joined[r] \in 0 .. MaxChunks
             /\ client[r] \in {"up", "gone"} /\ sock[r] \in {"open", "normal", "error"}
  <2>1. chan[r] \in Channel
    BY <1>1 DEF SessionShape
  <2>2. chan[r].buf \in Seq(Chunk) /\ chan[r].open \in BOOLEAN
    BY <2>1 DEF Channel
  <2>3. \A i \in DOMAIN chan[r].buf : chan[r].buf[i] \in Session!Chunks
    <3>1. ASSUME NEW s \in Seq(Chunk) PROVE \A i \in DOMAIN s : s[i] \in Chunk
      OBVIOUS
    <3>2. QED
      BY <2>2, <3>1 DEF Chunk, Session!Chunks
  <2>4. Len(chan[r].buf) <= Cap
    BY DEF SessionInv, ReaderInv
  <2>5. QED
    BY <1>1, <2>2, <2>3, <2>4 DEF SessionShape, Streams
<1>3. QED
  BY <1>1, <1>2 DEF SessionShape, Session!TypeOK

(* The variables of all that requests share take the values their modules give: the rows
   and their lookups, the schema and its commands, the directory, of which no file and no
   commit is of the future, and the shell's session, of which no channel holds more than
   it can, whatever the pump and its readers do. *)
THEOREM TypesCorrect == Parts => []TypesOK
<1>1. TypeOK /\ SchemaInv /\ SessionInv /\ DirectoryIsKept /\ TypesAreKept => TypesOK
  BY SchemaInvIsSafe, SessionTypeOK, WorkspaceTypeOK, CaptureTypeOK
     DEF DirectoryIsKept, TypesAreKept, TypesOK
<1>2. QED
  BY <1>1, RowsMove, TypeCorrect, SchemaInvariant, SessionInvariant, TypesInvariant, PTL
=============================================================================
