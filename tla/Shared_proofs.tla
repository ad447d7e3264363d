--------------------------- MODULE Shared_proofs --------------------------
(*************************************************************************)
(* Proofs about three parts of MCShared: CurrentSession, for any         *)
(* requests, time to live and faults; Migrations, for any number of      *)
(* commands, runs and crashes; and TerminalSession, for any number of    *)
(* subscribers, whatever their channels hold, and any output.            *)
(*************************************************************************)
EXTENDS MCShared, FiniteSetTheorems, SequenceTheorems, WellFoundedInduction, TLAPS

-----------------------------------------------------------------------------
(* CurrentSession *)
CreationState == [pc : {"idle", "insert", "answered", "failed"}, started : 0..MaxTime]
Lookup ==
    [pc : {"idle", "read", "check", "expire", "found", "missing", "gone", "error"},
     id : Nat, status : Statuses \cup {"none"}, began : Nat, lasting : SUBSET Nat]

(* TypeOK, with what a lookup remembers and the ids it may hold. *)
Shape ==
    /\ now \in 0..MaxTime /\ rows \in Seq(Row) /\ disk \subseteq Creators
    /\ create \in [Creators -> CreationState]
    /\ look \in [Lookups -> Lookup]
    /\ \A l \in Lookups :
        /\ look[l].id \in Ids \cup {NoId}
        /\ look[l].pc \in {"check", "expire", "found"} => look[l].id \in Ids
    /\ faults \in 0..MaxFaults

(* A user is told of a session only when its row is stored. *)
ToldAreStored ==
    \A c \in Creators : create[c].pc = "answered" =>
        \E id \in Ids : rows[id].started = create[c].started

(* From its beginning a lookup has a row to find that is no older than anything
   told before, and what it then holds is no older either. *)
NoneOlder ==
    \A l \in Lookups :
        /\ look[l].pc = "read" =>
            look[l].began = 0 \/ \E id \in Ids : rows[id].started >= look[l].began
        /\ look[l].pc \in {"check", "expire", "found"} =>
            rows[look[l].id].started >= look[l].began
        /\ look[l].pc = "missing" /\ look[l].id = NoId => look[l].began = 0

(* A request that has asked for nothing has made nothing. *)
IdleMadeNothing == \A c \in Creators : create[c].pc = "idle" => c \notin disk

Inv == Shape /\ ToldAreStored /\ NoneOlder /\ IdleMadeNothing /\ AbandonedPaidByFaults
-----------------------------------------------------------------------------
(* The starts of rows are kept and their ids stay; so are their owners. *)
RowsGrow ==
    \A id \in Ids : /\ id \in DOMAIN rows'
                    /\ rows'[id].started = rows[id].started
                    /\ rows'[id].owner = rows[id].owner

LEMMA IdsAre ==
  ASSUME Shape
  PROVE  /\ Ids = 1 .. Len(rows) /\ Len(rows) \in Nat /\ NoId \notin Ids
         /\ \A id \in Ids : id \in Nat /\ rows[id] \in Row
  BY DEF Shape, Ids, NoId

LEMMA Numbers ==
  /\ MaxTime \in Nat /\ MaxFaults \in Nat /\ TTL \in Nat
  /\ 0 \in 0..MaxTime /\ 0..MaxTime \subseteq Nat
  BY CurrentSessionAssumption

LEMMA AppendGrows ==
  ASSUME Shape, NEW row \in Row, rows' = Append(rows, row)
  PROVE  /\ rows' \in Seq(Row) /\ RowsGrow
         /\ DOMAIN rows' = Ids \cup {Len(rows) + 1}
         /\ rows'[Len(rows) + 1] = row
  BY IdsAre DEF Shape, Ids, RowsGrow

LEMMA StatusGrows ==
  ASSUME Shape, NEW id \in Ids, NEW st \in Statuses, rows' = [rows EXCEPT ![id].status = st]
  PROVE  rows' \in Seq(Row) /\ RowsGrow /\ DOMAIN rows' = Ids
<1>1. /\ rows \in Seq(Row) /\ Ids = 1 .. Len(rows) /\ Len(rows) \in Nat
      /\ \A i \in Ids : rows[i] \in Row
  BY IdsAre DEF Shape
<1>2. [rows[id] EXCEPT !.status = st] \in Row
  BY <1>1 DEF Row
<1>3. DOMAIN rows' = Ids /\ \A i \in Ids : rows'[i] = IF i = id THEN [rows[id] EXCEPT !.status = st] ELSE rows[i]
  BY <1>1 DEF Ids
<1>4. rows' \in [1 .. Len(rows) -> Row]
  BY <1>1, <1>2, <1>3 DEF Ids
<1>5. rows' \in Seq(Row)
  BY <1>1, <1>4
<1>6. RowsGrow
  BY <1>1, <1>3 DEF RowsGrow, Row
<1>7. QED
  BY <1>3, <1>5, <1>6

(* The latest of the starts told is one of them. *)
LEMMA MaxIsReached ==
  ASSUME NEW S, S \subseteq 0..MaxTime, S # {}
  PROVE  Max0(S) \in S /\ \A n \in S : n <= Max0(S)
<1> DEFINE T == {MaxTime - n : n \in S}
<1>0. MaxTime \in Nat /\ \A n \in S : n \in Nat /\ n <= MaxTime
  BY Numbers
<1>1. T \subseteq Nat /\ T # {}
  <2>1. \A n \in S : MaxTime - n \in Nat
    BY <1>0
  <2>2. QED
    BY <2>1
<1>2. \E x \in T : \A y \in T : ~ (<<y, x>> \in OpToRel(<, Nat))
  <2> HIDE DEF T
  <2>1. QED
    BY <1>1, WFMin, NatLessThanWellFounded, Zenon
<1>3. PICK x \in T : \A y \in T : ~ (<<y, x>> \in OpToRel(<, Nat))
  BY <1>2
<1>4. \A y \in T : ~ (y < x)
  <2> HIDE DEF T
  <2>1. x \in Nat
    BY <1>1, <1>3
  <2>2. QED
    BY <1>1, <1>3, <2>1 DEF OpToRel
<1>5. PICK m \in S : x = MaxTime - m
  BY <1>3
<1>6. ASSUME NEW n \in S PROVE n <= m
  <2>1. MaxTime - n \in T
    OBVIOUS
  <2>2. ~ (MaxTime - n < MaxTime - m)
    BY <1>4, <1>5, <2>1
  <2>3. QED
    BY <1>0, <2>2
<1>7. QED
  BY <1>5, <1>6 DEF Max0
-----------------------------------------------------------------------------
(* What the steps share *)

LEMMA InvInit == Init => Inv
<1> SUFFICES ASSUME Init PROVE Inv
  OBVIOUS
<1>0. rows = <<>> /\ Ids = {} /\ disk = {}
  BY DEF Init, Ids
<1>1. Shape
  <2>1. now \in 0..MaxTime /\ faults \in 0..MaxFaults
    BY Numbers DEF Init
  <2>2. create \in [Creators -> CreationState]
    BY Numbers DEF Init, CreationState
  <2>3. Idle \in Lookup
    BY DEF Idle, Lookup, NoId
  <2>4. look \in [Lookups -> Lookup] /\ \A l \in Lookups : look[l].id = NoId /\ look[l].pc = "idle"
    BY <2>3 DEF Init, Idle
  <2>5. QED
    BY <1>0, <2>1, <2>2, <2>4 DEF Init, Shape
<1>2. ToldAreStored /\ NoneOlder /\ IdleMadeNothing
  BY <1>0 DEF Init, Idle, ToldAreStored, NoneOlder, IdleMadeNothing
<1>3. AbandonedPaidByFaults
  <2>1. Abandoned = {}
    BY <1>0 DEF Abandoned
  <2>2. QED
    BY <2>1, FS_EmptySet DEF AbandonedPaidByFaults, Init
<1>4. QED
  BY <1>1, <1>2, <1>3 DEF Inv

(* A step abandons at most one workspace, and then it is a fault. *)
LEMMA AbandonPays ==
  ASSUME Inv, NEW c \in Creators,
         \/ faults' \in {faults, faults + 1} /\ Abandoned' \subseteq Abandoned
         \/ faults' = faults + 1 /\ Abandoned' \subseteq Abandoned \cup {c}
  PROVE  AbandonedPaidByFaults'
<1>1. /\ Abandoned \subseteq Creators /\ IsFiniteSet(Creators)
      /\ faults \in Nat /\ Cardinality(Abandoned) <= faults
  BY CurrentSessionAssumption DEF Inv, Shape, Abandoned, AbandonedPaidByFaults
<1>2. IsFiniteSet(Abandoned) /\ Cardinality(Abandoned) \in Nat
  BY <1>1, FS_Subset, FS_CardinalityType
<1>3. /\ IsFiniteSet(Abandoned \cup {c})
      /\ Cardinality(Abandoned \cup {c}) <= Cardinality(Abandoned) + 1
  BY <1>2, FS_AddElement
<1>4. CASE faults' \in {faults, faults + 1} /\ Abandoned' \subseteq Abandoned
  <2>1. Cardinality(Abandoned') <= Cardinality(Abandoned) /\ Cardinality(Abandoned') \in Nat
    BY <1>2, <1>4, FS_Subset, FS_CardinalityType
  <2>2. QED
    BY <1>1, <1>2, <1>4, <2>1 DEF AbandonedPaidByFaults
<1>5. CASE faults' = faults + 1 /\ Abandoned' \subseteq Abandoned \cup {c}
  <2>1. /\ Cardinality(Abandoned') <= Cardinality(Abandoned \cup {c})
        /\ Cardinality(Abandoned') \in Nat /\ Cardinality(Abandoned \cup {c}) \in Nat
    BY <1>3, <1>5, FS_Subset, FS_CardinalityType
  <2>2. QED
    BY <1>1, <1>2, <1>3, <1>5, <2>1 DEF AbandonedPaidByFaults
<1>6. QED
  BY <1>4, <1>5

(* Rows that only grow take nothing from what lookups have. *)
LEMMA LooksKeep ==
  ASSUME Shape, NoneOlder, RowsGrow,
         \A l \in Lookups : /\ look'[l].pc = look[l].pc /\ look'[l].id = look[l].id
                            /\ look'[l].began = look[l].began
  PROVE  NoneOlder'
<1>1. ASSUME NEW l \in Lookups, look[l].pc = "read"
      PROVE  look[l].began = 0 \/ \E id \in Ids' : rows'[id].started >= look[l].began
  BY <1>1, Zenon DEF NoneOlder, RowsGrow, Ids
<1>2. ASSUME NEW l \in Lookups, look[l].pc \in {"check", "expire", "found"}
      PROVE  rows'[look[l].id].started >= look[l].began
  BY <1>2 DEF NoneOlder, RowsGrow, Shape
<1>3. QED
  BY <1>1, <1>2 DEF NoneOlder

(* What stays true when no request to create moves and rows grow. *)
LEMMA CreatesKeep ==
  ASSUME Inv, RowsGrow, UNCHANGED <<disk, create>>, faults' \in {faults, faults + 1}
  PROVE  ToldAreStored' /\ IdleMadeNothing' /\ AbandonedPaidByFaults'
<1>1. ToldAreStored'
  BY DEF Inv, ToldAreStored, RowsGrow, Ids
<1>2. IdleMadeNothing'
  BY DEF Inv, IdleMadeNothing
<1>3. Abandoned' \subseteq Abandoned
  BY DEF Abandoned, RowsGrow, Ids
<1>4. ASSUME Creators # {} PROVE AbandonedPaidByFaults'
  BY <1>3, <1>4, AbandonPays
<1>5. ASSUME Creators = {} PROVE AbandonedPaidByFaults'
  <2>1. Abandoned' = {}
    BY <1>5 DEF Inv, Shape, Abandoned
  <2>2. Cardinality(Abandoned') = 0 /\ faults' \in Nat
    BY <2>1, Numbers, FS_EmptySet DEF Inv, Shape
  <2>3. QED
    BY <2>2 DEF AbandonedPaidByFaults
<1>6. QED
  BY <1>1, <1>2, <1>4, <1>5

LEMMA FaultCounts ==
  ASSUME Shape, faults' = faults \/ Fault
  PROVE  faults' \in 0..MaxFaults /\ faults' \in {faults, faults + 1}
  BY Numbers DEF Shape, Fault

LEMMA LookGoesTo ==
  ASSUME Shape, NEW l \in Lookups,
         NEW target \in {"idle", "read", "check", "expire", "found", "missing", "gone", "error"},
         NEW id \in Nat, NEW status \in Statuses \cup {"none"},
         LookGoes(l, target, id, status)
  PROVE  /\ look' \in [Lookups -> Lookup]
         /\ look'[l].pc = target /\ look'[l].id = id /\ look'[l].began = look[l].began
         /\ \A k \in Lookups \ {l} : look'[k] = look[k]
<1>1. look \in [Lookups -> Lookup]
  BY DEF Shape
<1>2. /\ look'[l] = [[[look[l] EXCEPT !.pc = target] EXCEPT !.id = id] EXCEPT !.status = status]
      /\ \A k \in Lookups \ {l} : look'[k] = look[k]
      /\ look' \in [Lookups -> {look'[k] : k \in Lookups}]
  BY <1>1 DEF LookGoes
<1>3. look[l] \in Lookup
  BY <1>1
<1>4. /\ look'[l] \in Lookup
      /\ look'[l].pc = target /\ look'[l].id = id /\ look'[l].began = look[l].began
  BY <1>2, <1>3 DEF Lookup
<1>5. QED
  BY <1>1, <1>2, <1>4
-----------------------------------------------------------------------------
(* The requests that create sessions *)

LEMMA CreateStepInv ==
  ASSUME Inv, NEW c \in Creators,
         \/ Reject(c) \/ MakeWorkspace(c) \/ MakeWorkspaceFails(c) \/ Insert(c) \/ InsertFails(c)
  PROVE  Inv'
<1>0. /\ Shape /\ create \in [Creators -> CreationState] /\ create[c] \in CreationState
      /\ UNCHANGED <<now, look>>
  BY DEF Inv, Shape, Reject, MakeWorkspace, MakeWorkspaceFails, Insert, InsertFails
<1>1. NewRow(c) \in Row
  BY <1>0 DEF NewRow, Row, CreationState, Statuses
<1>2. /\ rows' \in Seq(Row) /\ RowsGrow /\ Ids \subseteq Ids'
      /\ rows' = rows \/ rows' = Append(rows, NewRow(c))
  <2>1. CASE rows' = rows
    BY <1>0, <2>1 DEF Shape, RowsGrow, Ids
  <2>2. CASE rows' = Append(rows, NewRow(c))
    BY <1>0, <1>1, <2>2, AppendGrows DEF Ids
  <2>3. QED
    BY <2>1, <2>2 DEF Reject, MakeWorkspace, MakeWorkspaceFails, Insert, InsertFails
<1>3. \A target \in {"idle", "insert", "answered", "failed"}, t \in 0..MaxTime :
          CreateGoes(c, target, t) =>
            /\ create' \in [Creators -> CreationState]
            /\ create'[c].pc = target /\ create'[c].started = t
            /\ \A d \in Creators \ {c} : create'[d] = create[d]
  BY <1>0 DEF CreateGoes, CreationState
<1>4. /\ create' \in [Creators -> CreationState]
      /\ create'[c].pc \in {"insert", "answered", "failed"}
      /\ \A d \in Creators \ {c} : create'[d] = create[d]
  <2>1. 0 \in 0..MaxTime /\ now \in 0..MaxTime /\ create[c].started \in 0..MaxTime
    BY <1>0, Numbers DEF Shape, CreationState
  <2>2. QED
    BY <1>3, <2>1 DEF Reject, MakeWorkspace, MakeWorkspaceFails, Insert, InsertFails
<1>5. /\ disk' \subseteq Creators /\ disk \subseteq disk' /\ disk' \subseteq disk \cup {c}
      /\ faults' \in 0..MaxFaults /\ faults' \in {faults, faults + 1}
  <2>1. faults' = faults \/ Fault
    BY DEF Reject, MakeWorkspace, MakeWorkspaceFails, Insert, InsertFails
  <2>2. disk' \in {disk, disk \cup {c}}
    BY DEF Reject, MakeWorkspace, MakeWorkspaceFails, Insert, InsertFails
  <2>3. QED
    BY <1>0, <2>1, <2>2, FaultCounts DEF Shape
<1>6. Shape'
  BY <1>0, <1>2, <1>4, <1>5 DEF Shape
<1>7. ToldAreStored'
  <2>1. ASSUME NEW d \in Creators \ {c}, create'[d].pc = "answered"
        PROVE  \E id \in Ids' : rows'[id].started = create'[d].started
    BY <1>2, <1>4, <2>1 DEF Inv, ToldAreStored, RowsGrow, Ids
  <2>2. ASSUME create'[c].pc = "answered"
        PROVE  \E id \in Ids' : rows'[id].started = create'[c].started
    <3>1. Insert(c)
      <4>1. 0 \in 0..MaxTime /\ now \in 0..MaxTime /\ create[c].started \in 0..MaxTime
        BY <1>0, Numbers DEF Shape, CreationState
      <4>2. QED
        BY <1>3, <2>2, <4>1 DEF Reject, MakeWorkspace, MakeWorkspaceFails, InsertFails
    <3>2. create'[c].started = create[c].started
      BY <1>0, <1>3, <3>1 DEF Insert, CreationState
    <3>3. Len(rows) + 1 \in Ids' /\ rows'[Len(rows) + 1] = NewRow(c)
      BY <1>0, <1>1, <3>1, AppendGrows DEF Insert, Ids
    <3>4. QED
      BY <3>2, <3>3 DEF NewRow
  <2>3. QED
    BY <2>1, <2>2 DEF ToldAreStored
<1>8. NoneOlder'
  BY <1>0, <1>2, LooksKeep DEF Inv
<1>9. IdleMadeNothing'
  BY <1>4, <1>5 DEF Inv, IdleMadeNothing
<1>10. AbandonedPaidByFaults'
  <2>1. Abandoned' \subseteq Abandoned \cup {c}
    BY <1>2, <1>4, <1>5 DEF Abandoned, RowsGrow
  <2>2. CASE faults' = faults
    <3>1. CASE Reject(c)
      <4>1. c \notin disk'
        BY <3>1 DEF Reject, Inv, IdleMadeNothing
      <4>2. QED
        BY <1>5, <2>1, <4>1, AbandonPays DEF Abandoned
    <3>2. CASE MakeWorkspace(c)
      <4>1. create'[c].pc = "insert"
        BY <1>0, <1>3, <3>2 DEF MakeWorkspace, Shape
      <4>2. QED
        BY <1>5, <2>1, <4>1, AbandonPays DEF Abandoned
    <3>3. CASE Insert(c)
      <4>1. create'[c].pc = "answered"
        BY <1>0, <1>3, <3>3 DEF Insert, CreationState
      <4>2. QED
        BY <1>5, <2>1, <4>1, AbandonPays DEF Abandoned
    <3>4. CASE Fault
      BY <1>0, <2>2, <3>4 DEF Fault, Shape
    <3>5. QED
      BY <3>1, <3>2, <3>3, <3>4 DEF MakeWorkspaceFails, InsertFails
  <2>3. CASE faults' = faults + 1
    BY <2>1, <2>3, AbandonPays
  <2>4. QED
    BY <1>5, <2>2, <2>3
<1>11. QED
  BY <1>6, <1>7, <1>8, <1>9, <1>10 DEF Inv

-----------------------------------------------------------------------------
(* The lookups and the rest of the API *)

LEMMA LookStepInv ==
  ASSUME Inv, NEW l \in Lookups, Begin(l) \/ Read(l) \/ Check(l) \/ Expire(l)
  PROVE  Inv'
<1>0. /\ Shape /\ ToldAreStored /\ NoneOlder /\ look \in [Lookups -> Lookup] /\ look[l] \in Lookup
      /\ UNCHANGED <<now, disk, create>>
      /\ 0 \in Nat /\ NoId = 0
  BY DEF Inv, Shape, Begin, Read, Check, Expire, NoId
<1>1. /\ faults' \in 0..MaxFaults /\ faults' \in {faults, faults + 1}
  <2>1. faults' = faults \/ Fault
    BY DEF Begin, Read, Check, Expire
  <2>2. QED
    BY <1>0, <2>1, FaultCounts
<1>2. rows' \in Seq(Row) /\ RowsGrow /\ DOMAIN rows' = Ids
  <2>1. CASE rows' = rows
    BY <1>0, <2>1 DEF Shape, RowsGrow, Ids
  <2>2. CASE Expire(l) /\ rows' # rows
    <3>1. rows' = [rows EXCEPT ![look[l].id].status = "expired"] /\ look[l].id \in Ids
      BY <1>0, <2>2 DEF Expire, Shape
    <3>2. QED
      BY <1>0, <3>1, StatusGrows DEF Statuses
  <2>3. QED
    BY <2>1, <2>2 DEF Begin, Read, Check, Expire
(* Where the lookup goes, with which id, and what it has begun with. *)
<1>3. PICK target, id, began :
        /\ look' \in [Lookups -> Lookup]
        /\ look'[l].pc = target /\ look'[l].id = id /\ look'[l].began = began
        /\ \A k \in Lookups \ {l} : look'[k] = look[k]
        /\ id \in Ids \cup {NoId}
        /\ target = "read" => began = 0 \/ \E i \in Ids : rows[i].started >= began
        /\ target \in {"check", "expire", "found"} => id \in Ids /\ rows[id].started >= began
        /\ target = "missing" /\ id = NoId => began = 0
  <2>0. /\ look[l].id \in Nat /\ look[l].status \in Statuses \cup {"none"} /\ look[l].began \in Nat
        /\ look[l].id \in Ids \cup {NoId}
        /\ \A i \in Ids : i \in Nat /\ i # NoId /\ rows[i].started \in Nat /\ rows[i].status \in Statuses
    BY <1>0, IdsAre, Numbers DEF Lookup, Shape, Row
  <2>1. CASE Begin(l)
    <3> DEFINE m == Max0(Told)
    <3>1. /\ look' = [look EXCEPT ![l] = [pc |-> "read", id |-> NoId, status |-> "none",
                                          began |-> m, lasting |-> {i \in Ids : Usable(i)}]]
      BY <2>1 DEF Begin
    <3>2. Told \subseteq 0..MaxTime
      BY <1>0 DEF Told, Shape, CreationState
    <3>3. m \in Nat /\ (m = 0 \/ \E i \in Ids : rows[i].started >= m)
      <4>1. CASE Told = {}
        BY <4>1 DEF Max0
      <4>2. CASE Told # {}
        <5>1. m \in Told
          BY <3>2, <4>2, MaxIsReached
        <5>2. PICK c \in Creators : create[c].pc = "answered" /\ create[c].started = m
          BY <5>1 DEF Told
        <5>3. m \in Nat
          BY <3>2, <5>1, Numbers
        <5>4. PICK i \in Ids : rows[i].started = m
          BY <1>0, <5>2 DEF ToldAreStored
        <5>5. QED
          BY <5>3, <5>4
      <4>3. QED
        BY <4>1, <4>2
    <3>4. {i \in Ids : Usable(i)} \in SUBSET Nat
      BY <2>0
    <3> HIDE DEF m
    <3>5. look' \in [Lookups -> Lookup] /\ look'[l].pc = "read" /\ look'[l].id = NoId
          /\ look'[l].began = m /\ \A k \in Lookups \ {l} : look'[k] = look[k]
      BY <1>0, <3>1, <3>3, <3>4 DEF Lookup
    <3>6. QED
      BY <3>3, <3>5
  <2>2. CASE Read(l)
    <3>1. CASE rows = <<>> /\ LookGoes(l, "missing", NoId, "none")
      <4>1. Ids = {}
        BY <3>1 DEF Ids
      <4>2. look[l].began = 0
        BY <1>0, <2>2, <4>1 DEF Read, NoneOlder
      <4>3. QED
        BY <1>0, <2>0, <3>1, <4>2, LookGoesTo
    <3>2. ASSUME NEW i \in Ids, Current(i), LookGoes(l, "check", i, rows[i].status)
          PROVE  /\ look' \in [Lookups -> Lookup]
                 /\ look'[l].pc = "check" /\ look'[l].id = i /\ look'[l].began = look[l].began
                 /\ \A k \in Lookups \ {l} : look'[k] = look[k]
                 /\ rows[i].started >= look[l].began
      <4>1. look[l].pc = "read"
        BY <2>2 DEF Read
      <4>2. rows[i].started >= look[l].began
        <5>1. look[l].began = 0 \/ \E j \in Ids : rows[j].started >= look[l].began
          BY <1>0, <4>1 DEF NoneOlder
        <5>2. \A j \in Ids : rows[j].started <= rows[i].started
          BY <2>0, <3>2 DEF Current
        <5>3. QED
          BY <2>0, <5>1, <5>2
      <4>3. QED
        BY <1>0, <2>0, <3>2, <4>2, LookGoesTo
    <3>3. CASE LookGoes(l, "error", NoId, "none")
      BY <1>0, <2>0, <3>3, LookGoesTo
    <3>4. QED
      BY <2>0, <2>2, <3>1, <3>2, <3>3 DEF Read
  <2>3. CASE Check(l)
    <3>1. /\ look[l].id \in Ids /\ rows[look[l].id].started >= look[l].began
      BY <1>0, <2>3 DEF Check, Shape, NoneOlder
    <3>2. PICK target \in {"missing", "gone", "found", "expire"} :
              LookGoes(l, target, look[l].id, look[l].status)
      <4> DEFINE target == CASE look[l].status = "expired" -> "missing"
                             [] look[l].status = "orphaned" -> "gone"
                             [] OTHER -> IF Expires(look[l].id) > now THEN "found" ELSE "expire"
      <4>1. LookGoes(l, target, look[l].id, look[l].status)
        BY <2>3 DEF Check
      <4>2. target \in {"missing", "gone", "found", "expire"}
        OBVIOUS
      <4> HIDE DEF target
      <4>3. QED
        BY <4>1, <4>2
    <3>3. /\ look' \in [Lookups -> Lookup] /\ look'[l].pc = target
          /\ look'[l].id = look[l].id /\ look'[l].began = look[l].began
          /\ \A k \in Lookups \ {l} : look'[k] = look[k]
      BY <1>0, <2>0, <3>2, LookGoesTo
    <3>4. look[l].id # NoId /\ target # "read"
      BY <2>0, <3>1
    <3>5. QED
      BY <3>1, <3>3, <3>4
  <2>4. CASE Expire(l)
    <3>1. look[l].id \in Ids
      BY <1>0, <2>4 DEF Expire, Shape
    <3>2. \/ LookGoes(l, "missing", look[l].id, "expired")
          \/ LookGoes(l, "error", look[l].id, look[l].status)
      BY <2>4 DEF Expire
    <3>3. look[l].id # NoId /\ "expired" \in Statuses \cup {"none"}
      BY <2>0, <3>1 DEF Statuses
    <3>4. /\ look' \in [Lookups -> Lookup] /\ look'[l].pc \in {"missing", "error"}
          /\ look'[l].id = look[l].id /\ look'[l].began = look[l].began
          /\ \A k \in Lookups \ {l} : look'[k] = look[k]
      BY <1>0, <2>0, <3>2, <3>3, LookGoesTo
    <3>5. QED
      BY <3>1, <3>3, <3>4
  <2>5. QED
    BY <2>1, <2>2, <2>3, <2>4
<1>4. Shape'
  BY <1>0, <1>1, <1>2, <1>3 DEF Shape, Ids
<1>5. NoneOlder'
  <2>1. \A i \in Ids : i \in Ids' /\ rows'[i].started = rows[i].started
    BY <1>2 DEF RowsGrow, Ids
  <2>2. ASSUME NEW k \in Lookups \ {l}
        PROVE  /\ look'[k].pc = "read" =>
                    look'[k].began = 0 \/ \E i \in Ids' : rows'[i].started >= look'[k].began
               /\ look'[k].pc \in {"check", "expire", "found"} =>
                    rows'[look'[k].id].started >= look'[k].began
               /\ look'[k].pc = "missing" /\ look'[k].id = NoId => look'[k].began = 0
    <3>1. look'[k] = look[k] /\ (look[k].pc \in {"check", "expire", "found"} => look[k].id \in Ids)
      BY <1>0, <1>3 DEF Shape
    <3>2. /\ look[k].pc = "read" =>
                look[k].began = 0 \/ \E i \in Ids : rows[i].started >= look[k].began
          /\ look[k].pc \in {"check", "expire", "found"} =>
                rows[look[k].id].started >= look[k].began
          /\ look[k].pc = "missing" /\ look[k].id = NoId => look[k].began = 0
      BY <1>0 DEF NoneOlder
    <3>3. QED
      BY <2>1, <3>1, <3>2
  <2>3. /\ look'[l].pc = "read" =>
              look'[l].began = 0 \/ \E i \in Ids' : rows'[i].started >= look'[l].began
        /\ look'[l].pc \in {"check", "expire", "found"} =>
              rows'[look'[l].id].started >= look'[l].began
        /\ look'[l].pc = "missing" /\ look'[l].id = NoId => look'[l].began = 0
    BY <1>3, <2>1
  <2>4. QED
    BY <2>2, <2>3 DEF NoneOlder
<1>6. QED
  BY <1>0, <1>1, <1>2, <1>4, <1>5, CreatesKeep DEF Inv

LEMMA EnvironmentInv ==
  ASSUME Inv, Sweep \/ Tick \/ \E id \in Ids : Orphan(id)
  PROVE  Inv'
<1>0. /\ Shape /\ look \in [Lookups -> Lookup] /\ UNCHANGED <<disk, create, faults>>
  BY DEF Inv, Shape, Sweep, Tick, Orphan
<1>1. /\ look' \in [Lookups -> Lookup]
      /\ \A l \in Lookups : /\ look'[l].pc = look[l].pc /\ look'[l].id = look[l].id
                             /\ look'[l].began = look[l].began
  <2>1. \A r \in Lookup, S \in SUBSET Nat :
            LET q == [r EXCEPT !.lasting = S] IN
            q \in Lookup /\ q.pc = r.pc /\ q.id = r.id /\ q.began = r.began
    BY DEF Lookup
  <2>2. \A l \in Lookups : look[l] \in Lookup /\ look[l].lasting \in SUBSET Nat
    BY <1>0 DEF Lookup
  <2>3. CASE Lasting(rows', now)
    <3>1. look' = [l \in Lookups |-> [look[l] EXCEPT !.lasting =
            {i \in look[l].lasting : rows'[i].status = "active" /\ rows'[i].started + TTL > now}]]
      BY <2>3 DEF Lasting
    <3>2. \A l \in Lookups :
            {i \in look[l].lasting : rows'[i].status = "active" /\ rows'[i].started + TTL > now}
                \in SUBSET Nat
      BY <2>2
    <3>3. QED
      BY <2>1, <2>2, <3>1, <3>2
  <2>4. CASE Lasting(rows, now')
    <3>1. look' = [l \in Lookups |-> [look[l] EXCEPT !.lasting =
            {i \in look[l].lasting : rows[i].status = "active" /\ rows[i].started + TTL > now'}]]
      BY <2>4 DEF Lasting
    <3>2. \A l \in Lookups :
            {i \in look[l].lasting : rows[i].status = "active" /\ rows[i].started + TTL > now'}
                \in SUBSET Nat
      BY <2>2
    <3>3. QED
      BY <2>1, <2>2, <3>1, <3>2
  <2>5. QED
    BY <2>3, <2>4 DEF Sweep, Tick, Orphan
<1>2. rows' \in Seq(Row) /\ RowsGrow /\ DOMAIN rows' = Ids /\ now' \in 0..MaxTime
  <2>0. now' \in 0..MaxTime
    BY <1>0, Numbers DEF Sweep, Tick, Orphan, Shape
  <2>1. CASE Tick
    BY <1>0, <2>0, <2>1 DEF Tick, Shape, RowsGrow, Ids
  <2>2. ASSUME NEW id \in Ids, Orphan(id) PROVE rows' \in Seq(Row) /\ RowsGrow /\ DOMAIN rows' = Ids
    BY <1>0, <2>2, StatusGrows DEF Orphan, Statuses
  <2>3. CASE Sweep
    <3>1. /\ Ids = 1 .. Len(rows) /\ Len(rows) \in Nat /\ \A i \in Ids : rows[i] \in Row
      BY <1>0, IdsAre
    <3>2. \A r \in Row : LET q == [r EXCEPT !.status = "expired"] IN
              q \in Row /\ q.started = r.started /\ q.owner = r.owner
      BY DEF Row, Statuses
    <3>3. rows' = [id \in Ids |-> IF rows[id].status = "active" /\ Expires(id) <= now
                                  THEN [rows[id] EXCEPT !.status = "expired"] ELSE rows[id]]
      BY <2>3 DEF Sweep
    <3>4. rows' \in [1 .. Len(rows) -> Row] /\ RowsGrow /\ DOMAIN rows' = Ids
      <4>1. DOMAIN rows' = Ids /\ \A id \in Ids :
                rows'[id] = rows[id] \/ rows'[id] = [rows[id] EXCEPT !.status = "expired"]
        BY <3>3
      <4>2. \A id \in Ids : /\ rows'[id] \in Row /\ rows'[id].started = rows[id].started
                            /\ rows'[id].owner = rows[id].owner
        BY <3>1, <3>2, <4>1
      <4>3. rows' \in [1 .. Len(rows) -> Row]
        BY <3>1, <3>3, <4>2
      <4>4. QED
        BY <4>1, <4>2, <4>3 DEF RowsGrow
    <3>5. rows' \in Seq(Row)
      BY <3>1, <3>4
    <3>6. QED
      BY <2>0, <3>4, <3>5
  <2>4. QED
    BY <2>0, <2>1, <2>2, <2>3
<1>3. Shape'
  BY <1>0, <1>1, <1>2 DEF Shape, Ids
<1>4. NoneOlder'
  BY <1>0, <1>1, <1>2, LooksKeep DEF Inv
<1>5. QED
  BY <1>0, <1>2, <1>3, <1>4, CreatesKeep DEF Inv

-----------------------------------------------------------------------------
(* What hides a session that is usable *)

(* The sessions that have been usable since a lookup began still are; the row it has
   found is no older than any of them, and is not active when the lookup returns
   nothing.  A copy that was not active, or whose time was up, is of a row that is so. *)
Hides(l) ==
    /\ \A id \in look[l].lasting : id \in Ids /\ Usable(id)
    /\ look[l].pc \in {"check", "expire", "missing", "gone"} =>
        IF look[l].id = NoId THEN look[l].lasting = {}
        ELSE \A id \in look[l].lasting : rows[id].started <= rows[look[l].id].started
    /\ look[l].pc = "check" /\ look[l].status # "active" => rows[look[l].id].status # "active"
    /\ look[l].pc = "expire" => Expires(look[l].id) <= now
    /\ look[l].pc \in {"missing", "gone"} /\ look[l].id # NoId =>
        rows[look[l].id].status # "active"
    /\ look[l].pc = "gone" => look[l].id # NoId

HidesInv == \A l \in Lookups : Hides(l)

(* No row becomes active again. *)
EndedRowsStay == \A id \in Ids : rows[id].status # "active" => rows'[id].status # "active"

LEMMA HidesKept ==
  ASSUME Shape, RowsGrow, EndedRowsStay, now' \in Nat, now <= now', NEW l \in Lookups, Hides(l),
         look'[l].pc = look[l].pc, look'[l].id = look[l].id, look'[l].status = look[l].status,
         look'[l].lasting \subseteq look[l].lasting,
         \A id \in look'[l].lasting : rows'[id].status = "active" /\ rows[id].started + TTL > now'
  PROVE  Hides(l)'
<1>0. /\ look[l].id \in Ids \cup {NoId}
      /\ look[l].pc \in {"check", "expire"} => look[l].id \in Ids
      /\ now \in Nat /\ TTL \in Nat
      /\ \A id \in Ids : id \in Nat /\ id # NoId /\ rows[id].started \in Nat
  BY IdsAre, Numbers DEF Shape, Row
<1>1. \A id \in Ids : id \in Ids' /\ rows'[id].started = rows[id].started
  BY DEF RowsGrow, Ids
<1>2. \A id \in look[l].lasting : id \in Ids
  BY DEF Hides
<1>3. \A id \in look'[l].lasting : id \in Ids' /\ Usable(id)'
  BY <1>1, <1>2 DEF Usable, Expires
<1>4. look[l].pc \in {"check", "expire", "missing", "gone"} =>
        IF look[l].id = NoId THEN look'[l].lasting = {}
        ELSE \A id \in look'[l].lasting : rows'[id].started <= rows'[look[l].id].started
  BY <1>0, <1>1, <1>2 DEF Hides
<1>5. look[l].id # NoId /\ rows[look[l].id].status # "active" => rows'[look[l].id].status # "active"
  BY <1>0 DEF EndedRowsStay
<1>6. look[l].pc = "expire" => Expires(look[l].id)' <= now'
  BY <1>0, <1>1 DEF Hides, Expires
<1>7. QED
  BY <1>0, <1>3, <1>4, <1>5, <1>6 DEF Hides

LEMMA HidesInit == Init => HidesInv
  BY DEF Init, HidesInv, Hides, Idle, NoId

(* Rows only grow and a request to create changes nothing else that lookups see. *)
LEMMA HidesCreate ==
  ASSUME Inv, HidesInv, NEW c \in Creators,
         \/ Reject(c) \/ MakeWorkspace(c) \/ MakeWorkspaceFails(c) \/ Insert(c) \/ InsertFails(c)
  PROVE  HidesInv'
<1>0. Shape /\ create[c] \in CreationState /\ UNCHANGED <<now, look>> /\ now \in Nat
  BY Numbers DEF Inv, Shape, Reject, MakeWorkspace, MakeWorkspaceFails, Insert, InsertFails
<1>1. NewRow(c) \in Row
  BY <1>0 DEF NewRow, Row, CreationState, Statuses
<1>2. rows' = rows \/ rows' = Append(rows, NewRow(c))
  BY DEF Reject, MakeWorkspace, MakeWorkspaceFails, Insert, InsertFails
<1>3. RowsGrow /\ \A id \in Ids : rows'[id] = rows[id]
  <2>1. CASE rows' = rows
    BY <2>1 DEF RowsGrow, Ids
  <2>2. CASE rows' = Append(rows, NewRow(c))
    BY <1>0, <1>1, <2>2, AppendGrows, IdsAre DEF Shape, Ids
  <2>3. QED
    BY <1>2, <2>1, <2>2
<1>4. EndedRowsStay
  BY <1>3 DEF EndedRowsStay
<1>5. ASSUME NEW l \in Lookups PROVE Hides(l)'
  <2>1. Hides(l)
    BY DEF HidesInv
  <2>2. \A id \in look'[l].lasting : rows'[id].status = "active" /\ rows[id].started + TTL > now'
    BY <1>0, <1>3, <2>1 DEF Hides, Usable, Expires
  <2>3. QED
    BY <1>0, <1>3, <1>4, <2>1, <2>2, HidesKept
<1>6. QED
  BY <1>5 DEF HidesInv

(* An update of a lookup overwrites a row whose time is up, which no lookup counts as
   usable. *)
LEMMA HidesExpire ==
  ASSUME Inv, HidesInv, NEW l \in Lookups, Expire(l)
  PROVE  HidesInv'
<1>0. /\ Shape /\ look \in [Lookups -> Lookup] /\ look[l] \in Lookup /\ now \in Nat /\ UNCHANGED now
      /\ look[l].pc = "expire" /\ look[l].id \in Ids /\ look[l].id \in Nat /\ look[l].id # NoId
  BY Numbers, IdsAre DEF Inv, Shape, Expire
<1>1. \/ rows' = rows /\ LookGoes(l, "error", look[l].id, look[l].status)
      \/ /\ rows' = [rows EXCEPT ![look[l].id].status = "expired"]
         /\ \/ LookGoes(l, "missing", look[l].id, "expired")
            \/ LookGoes(l, "error", look[l].id, look[l].status)
  BY DEF Expire
<1>2. /\ RowsGrow /\ DOMAIN rows' = Ids
      /\ \A id \in Ids : id # look[l].id => rows'[id] = rows[id]
      /\ rows'[look[l].id].status \in {rows[look[l].id].status, "expired"}
  <2>1. CASE rows' = rows
    BY <2>1 DEF RowsGrow, Ids
  <2>2. CASE rows' = [rows EXCEPT ![look[l].id].status = "expired"]
    <3>1. RowsGrow /\ DOMAIN rows' = Ids
      BY <1>0, <2>2, StatusGrows DEF Statuses
    <3>2. \A id \in Ids : id # look[l].id => rows'[id] = rows[id]
      BY <2>2 DEF Ids
    <3>3. rows[look[l].id] \in Row
      BY <1>0, IdsAre
    <3>4. rows'[look[l].id].status = "expired"
      BY <1>0, <2>2, <3>3 DEF Ids, Row
    <3>5. QED
      BY <3>1, <3>2, <3>4
  <2>3. QED
    BY <1>1, <2>1, <2>2
<1>3. EndedRowsStay
  BY <1>2 DEF EndedRowsStay
<1>4. \A k \in Lookups : \A id \in look[k].lasting :
          rows'[id].status = "active" /\ rows[id].started + TTL > now
  <2>1. ASSUME NEW k \in Lookups, NEW id \in look[k].lasting
        PROVE  id \in Ids /\ Usable(id) /\ id # look[l].id
    <3>1. id \in Ids /\ Usable(id) /\ Expires(look[l].id) <= now
      BY <1>0 DEF HidesInv, Hides
    <3>2. rows[id].started \in Nat
      BY <1>0, <3>1, IdsAre, Numbers DEF Row
    <3>3. QED
      BY <1>0, <3>1, <3>2, Numbers DEF Usable, Expires
  <2>2. QED
    BY <1>2, <2>1 DEF Usable, Expires
<1>5. /\ look'[l].pc \in {"missing", "error"} /\ look'[l].id = look[l].id
      /\ look'[l].pc = "missing" => rows'[look[l].id].status = "expired"
      /\ look'[l].lasting = look[l].lasting
      /\ \A k \in Lookups \ {l} : look'[k] = look[k]
  <2>1. \A target \in {"missing", "error"}, st \in Statuses \cup {"none"} :
          LookGoes(l, target, look[l].id, st) =>
            /\ look'[l].pc = target /\ look'[l].id = look[l].id
            /\ look'[l].lasting = look[l].lasting
            /\ \A k \in Lookups \ {l} : look'[k] = look[k]
    BY <1>0 DEF LookGoes, Lookup
  <2>2. look[l].status \in Statuses \cup {"none"} /\ "expired" \in Statuses \cup {"none"}
    BY <1>0 DEF Lookup, Statuses
  <2>3. ASSUME look'[l].pc = "missing" PROVE rows'[look[l].id].status = "expired"
    <3>1. rows' = [rows EXCEPT ![look[l].id].status = "expired"]
      BY <1>1, <2>1, <2>2, <2>3
    <3>2. rows[look[l].id] \in Row
      BY <1>0, IdsAre
    <3>3. QED
      BY <1>0, <3>1, <3>2 DEF Ids, Row
  <2>4. QED
    BY <1>1, <2>1, <2>2, <2>3
<1>6. ASSUME NEW k \in Lookups \ {l} PROVE Hides(k)'
  BY <1>0, <1>2, <1>3, <1>4, <1>5, HidesKept DEF HidesInv
<1>7. Hides(l)'
  <2>1. \A id \in look[l].lasting : id \in Ids /\ Usable(id) /\ rows[id].started <= rows[look[l].id].started
    BY <1>0 DEF HidesInv, Hides
  <2>2. \A id \in Ids : id \in Ids' /\ rows'[id].started = rows[id].started
    BY <1>2 DEF RowsGrow, Ids
  <2>3. \A id \in look'[l].lasting :
            id \in Ids' /\ Usable(id)' /\ rows'[id].started <= rows'[look'[l].id].started
    BY <1>0, <1>4, <1>5, <2>1, <2>2 DEF Usable, Expires
  <2>4. QED
    BY <1>0, <1>5, <2>3 DEF Hides
<1>8. QED
  BY <1>6, <1>7 DEF HidesInv

(* The other steps of a lookup change no row. *)
LEMMA HidesLook ==
  ASSUME Inv, HidesInv, NEW l \in Lookups, Begin(l) \/ Read(l) \/ Check(l)
  PROVE  HidesInv'
<1>0. /\ Shape /\ look \in [Lookups -> Lookup] /\ look[l] \in Lookup /\ now \in Nat /\ TTL \in Nat
      /\ UNCHANGED <<now, rows>>
      /\ \A id \in Ids : /\ id \in Nat /\ id # NoId /\ rows[id].started \in Nat
                         /\ rows[id].status \in Statuses
  BY Numbers, IdsAre DEF Inv, Shape, Begin, Read, Check, Row
<1>1. RowsGrow /\ EndedRowsStay
  BY <1>0 DEF RowsGrow, EndedRowsStay, Ids
<1>2. \A k \in Lookups \ {l} : look'[k] = look[k]
  BY <1>0 DEF Begin, Read, Check, LookGoes
<1>3. ASSUME NEW k \in Lookups \ {l} PROVE Hides(k)'
  BY <1>0, <1>1, <1>2, HidesKept DEF HidesInv, Hides, Usable, Expires
<1>4. Hides(l)'
  <2>0. /\ \A id \in look[l].lasting : id \in Ids /\ Usable(id)
        /\ \A i : Usable(i)' <=> Usable(i)
        /\ \A i : Expires(i)' = Expires(i)
        /\ Ids' = Ids
    BY <1>0 DEF HidesInv, Hides, Usable, Expires, Ids
  <2>1. CASE Begin(l)
    <3>1. look'[l] = [pc |-> "read", id |-> NoId, status |-> "none",
                      began |-> Max0(Told), lasting |-> {i \in Ids : Usable(i)}]
      BY <1>0, <2>1 DEF Begin
    <3>2. QED
      BY <2>0, <3>1 DEF Hides
  <2>2. CASE Read(l)
    <3>1. CASE rows = <<>> /\ LookGoes(l, "missing", NoId, "none")
      <4>1. Ids = {}
        BY <3>1 DEF Ids
      <4>2. look'[l].pc = "missing" /\ look'[l].id = NoId /\ look'[l].lasting = look[l].lasting
        BY <1>0, <3>1 DEF LookGoes, Lookup
      <4>3. QED
        BY <2>0, <4>1, <4>2 DEF Hides
    <3>2. ASSUME NEW i \in Ids, Current(i), LookGoes(l, "check", i, rows[i].status)
          PROVE  Hides(l)'
      <4>1. /\ look'[l].pc = "check" /\ look'[l].id = i /\ look'[l].status = rows[i].status
            /\ look'[l].lasting = look[l].lasting
        BY <1>0, <3>2 DEF LookGoes, Lookup
      <4>2. \A j \in Ids : rows[j].started <= rows[i].started
        BY <1>0, <3>2 DEF Current
      <4>3. QED
        BY <1>0, <2>0, <4>1, <4>2 DEF Hides
    <3>3. CASE LookGoes(l, "error", NoId, "none")
      <4>1. look'[l].pc = "error" /\ look'[l].lasting = look[l].lasting
        BY <1>0, <3>3 DEF LookGoes, Lookup
      <4>2. QED
        BY <2>0, <4>1 DEF Hides
    <3>4. QED
      BY <2>2, <3>1, <3>2, <3>3 DEF Read
  <2>3. CASE Check(l)
    <3>1. /\ look[l].pc = "check" /\ look[l].id \in Ids /\ look[l].id # NoId
          /\ look[l].status # "active" => rows[look[l].id].status # "active"
          /\ \A id \in look[l].lasting : rows[id].started <= rows[look[l].id].started
      BY <1>0, <2>3 DEF Check, Shape, HidesInv, Hides
    <3> DEFINE target == CASE look[l].status = "expired" -> "missing"
                           [] look[l].status = "orphaned" -> "gone"
                           [] OTHER -> IF Expires(look[l].id) > now THEN "found" ELSE "expire"
    <3>2. LookGoes(l, target, look[l].id, look[l].status)
      BY <2>3 DEF Check
    <3>3. /\ target \in {"missing", "gone", "found", "expire"}
          /\ target \in {"missing", "gone"} => look[l].status # "active"
          /\ target = "expire" => ~ (Expires(look[l].id) > now)
      OBVIOUS
    <3> HIDE DEF target
    <3>4. look'[l].pc = target /\ look'[l].id = look[l].id /\ look'[l].lasting = look[l].lasting
      BY <1>0, <3>2 DEF LookGoes, Lookup
    <3>5. target = "expire" => Expires(look[l].id) <= now
      BY <1>0, <3>1, <3>3 DEF Expires
    <3>6. QED
      BY <1>0, <2>0, <3>1, <3>3, <3>4, <3>5 DEF Hides
  <2>4. QED
    BY <2>1, <2>2, <2>3
<1>5. QED
  BY <1>3, <1>4 DEF HidesInv

(* What ends sessions takes them out of what the lookups count as usable. *)
LEMMA HidesEnvironment ==
  ASSUME Inv, HidesInv, Sweep \/ Tick \/ \E id \in Ids : Orphan(id)
  PROVE  HidesInv'
<1>0. /\ Shape /\ look \in [Lookups -> Lookup] /\ now \in Nat
      /\ now' \in Nat /\ now <= now'
      /\ \A id \in Ids : rows[id] \in Row
  BY Numbers, IdsAre DEF Inv, Shape, Sweep, Tick, Orphan
<1>1. /\ RowsGrow /\ EndedRowsStay
  <2>1. CASE Tick
    BY <2>1 DEF Tick, RowsGrow, EndedRowsStay, Ids
  <2>2. ASSUME NEW id \in Ids, Orphan(id) PROVE RowsGrow /\ EndedRowsStay
    <3>1. RowsGrow
      BY <1>0, <2>2, StatusGrows DEF Orphan, Statuses
    <3>2. \A i \in Ids : rows'[i] = IF i = id THEN [rows[i] EXCEPT !.status = "orphaned"] ELSE rows[i]
      BY <2>2 DEF Orphan, Ids
    <3>3. [rows[id] EXCEPT !.status = "orphaned"].status = "orphaned"
      BY <1>0 DEF Row
    <3>4. QED
      BY <3>1, <3>2, <3>3 DEF EndedRowsStay
  <2>3. CASE Sweep
    <3>1. rows' = [id \in Ids |-> IF rows[id].status = "active" /\ Expires(id) <= now
                                  THEN [rows[id] EXCEPT !.status = "expired"] ELSE rows[id]]
      BY <2>3 DEF Sweep
    <3>2. \A r \in Row : LET q == [r EXCEPT !.status = "expired"] IN
              q.status = "expired" /\ q.started = r.started /\ q.owner = r.owner
      BY DEF Row
    <3>3. \A id \in Ids : /\ id \in DOMAIN rows'
                          /\ rows'[id] = rows[id] \/ rows'[id] = [rows[id] EXCEPT !.status = "expired"]
      BY <3>1
    <3>4. QED
      BY <1>0, <3>2, <3>3 DEF RowsGrow, EndedRowsStay
  <2>4. QED
    BY <2>1, <2>2, <2>3
<1>2. ASSUME NEW l \in Lookups PROVE Hides(l)'
  <2>0. Hides(l) /\ look[l] \in Lookup
    BY <1>0 DEF HidesInv
  <2>1. \A S \in SUBSET Nat : LET q == [look[l] EXCEPT !.lasting = S] IN
            q.lasting = S /\ q.pc = look[l].pc /\ q.id = look[l].id /\ q.status = look[l].status
    BY <2>0 DEF Lookup
  <2>2. look[l].lasting \in SUBSET Nat
    BY <2>0 DEF Lookup
  <2>3. /\ look'[l].pc = look[l].pc /\ look'[l].id = look[l].id /\ look'[l].status = look[l].status
        /\ look'[l].lasting =
             {i \in look[l].lasting : rows'[i].status = "active" /\ rows'[i].started + TTL > now'}
    <3> DEFINE S == {i \in look[l].lasting : rows'[i].status = "active" /\ rows'[i].started + TTL > now'}
    <3>1. look'[l] = [look[l] EXCEPT !.lasting = S]
      <4>1. CASE Lasting(rows', now) /\ now' = now
        BY <4>1 DEF Lasting
      <4>2. CASE Lasting(rows, now') /\ rows' = rows
        BY <4>2 DEF Lasting
      <4>3. QED
        BY <4>1, <4>2 DEF Sweep, Tick, Orphan
    <3>2. S \in SUBSET Nat
      BY <2>2
    <3> HIDE DEF S
    <3>3. look'[l].lasting = S /\ look'[l].pc = look[l].pc /\ look'[l].id = look[l].id
          /\ look'[l].status = look[l].status
      BY <2>1, <3>1, <3>2
    <3>4. QED
      BY <3>3 DEF S
  <2>4. \A i \in look'[l].lasting : i \in Ids /\ rows'[i].started = rows[i].started
    BY <1>1, <2>0, <2>3 DEF Hides, RowsGrow
  <2>5. QED
    BY <1>0, <1>1, <2>0, <2>3, <2>4, HidesKept
<1>3. QED
  BY <1>2 DEF HidesInv

LEMMA HidesStep == Inv /\ HidesInv /\ [Next]_vars => HidesInv'
<1> SUFFICES ASSUME Inv, HidesInv, [Next]_vars PROVE HidesInv'
  OBVIOUS
<1>1. CASE Next
  BY <1>1, HidesCreate, HidesLook, HidesExpire, HidesEnvironment DEF Next
<1>2. CASE UNCHANGED vars
  BY <1>2 DEF vars, HidesInv, Hides, Usable, Expires, Ids
<1>3. QED
  BY <1>1, <1>2

LEMMA InvStep == Inv /\ [Next]_vars => Inv'
<1> SUFFICES ASSUME Inv, [Next]_vars PROVE Inv'
  OBVIOUS
<1>1. CASE Next
  BY <1>1, CreateStepInv, LookStepInv, EnvironmentInv DEF Next
<1>2. CASE UNCHANGED vars
  BY <1>2 DEF vars, Inv, Shape, ToldAreStored, NoneOlder, IdleMadeNothing, Ids,
              AbandonedPaidByFaults, Abandoned
<1>3. QED
  BY <1>1, <1>2

LEMMA Invariant == Spec => []Inv
  BY InvInit, InvStep, PTL DEF Spec
-----------------------------------------------------------------------------
(* Results *)

(* Every variable keeps its shape: the rows remain a sequence of rows, and a lookup
   holds an id only of a row that exists. *)
THEOREM TypeCorrect == Spec => []TypeOK
<1>1. Inv => TypeOK
  BY DEF Inv, Shape, TypeOK, CreationState, Lookup
<1>2. QED
  BY <1>1, Invariant, PTL

(* A lookup never returns a session older than one the user had been told of when it
   began, in whatever order the inserts arrived. *)
THEOREM NeverAnOlderOne == Spec => []NeverOlder
<1>1. Inv => NeverOlder
  BY DEF Inv, NoneOlder, NeverOlder
<1>2. QED
  BY <1>1, Invariant, PTL

(* Every workspace that will never get a session is paid for by a fault. *)
THEOREM AbandonedIsPaid == Spec => []AbandonedPaidByFaults
<1>1. Inv => AbandonedPaidByFaults
  BY DEF Inv
<1>2. QED
  BY <1>1, Invariant, PTL

(* A lookup that returns nothing, although a session was usable all along, has met a
   session that has ended and that is no older. *)
THEOREM OnlyANewerOneHides == Spec => []OnlyNewerHides
<1>1. Inv /\ HidesInv => OnlyNewerHides
  <2> SUFFICES ASSUME Inv, HidesInv, NEW l \in Lookups, look[l].pc \in {"missing", "gone"},
                      NEW id \in look[l].lasting
               PROVE  /\ look[l].id # NoId /\ rows[look[l].id].status # "active"
                      /\ rows[look[l].id].started >= rows[id].started
    BY DEF OnlyNewerHides
  <2>1. look[l].id # NoId /\ id \in Ids /\ look[l].id \in Ids
    BY DEF Inv, Shape, HidesInv, Hides
  <2>2. rows[id].started \in Nat /\ rows[look[l].id].started \in Nat
    BY <2>1, IdsAre, Numbers DEF Inv, Row
  <2>3. QED
    BY <2>1, <2>2 DEF HidesInv, Hides
<1>2. Inv /\ HidesInv /\ [Next]_vars => Inv' /\ HidesInv'
  BY InvStep, HidesStep
<1>3. Init => Inv /\ HidesInv
  BY InvInit, HidesInit
<1>4. QED
  BY <1>1, <1>2, <1>3, PTL DEF Spec
-----------------------------------------------------------------------------
(* Migrations *)

FileNos == 1 .. 3
CmdType == [pc : Schema!Ended \cup {"check", "count", "exec", "detached", "record"},
            file : FileNos, k : 1 .. 3, count : 0 .. 2]

SchemaShape ==
    /\ applied \subseteq {"users", "sessions", "seed", "jobs"}
    /\ recorded \subseteq FileNos
    /\ cmd \in [Commands -> CmdType]
    /\ runs \in 0 .. MaxRuns /\ crashes \in 0 .. MaxCrashes

(* A command works on a file when the files before it are recorded; it has executed the
   statements before its next one; what it has counted was there; a file it is about to
   record has been applied. *)
Grounded(c) ==
    /\ cmd[c].pc \in {"check", "count", "exec", "detached", "record"} =>
           1 .. cmd[c].file - 1 \subseteq recorded
    /\ cmd[c].pc = "count" =>
           /\ cmd[c].file = 1 /\ cmd[c].count < cmd[c].k
           /\ cmd[c].count = cmd[c].k - 1 =>
                 \A i \in 1 .. cmd[c].k - 1 : Schema!InitialTables[i] \in applied
    /\ cmd[c].pc \in {"exec", "detached"} =>
           /\ cmd[c].k <= Len(Schema!Files[cmd[c].file])
           /\ \A i \in 1 .. cmd[c].k - 1 : Schema!Files[cmd[c].file][i] \in applied
    /\ cmd[c].pc = "record" => Schema!Statements(cmd[c].file) \subseteq applied
    /\ cmd[c].pc = "ok" => recorded = FileNos

(* A file's statements have been applied from the first on. *)
InOrder ==
    "sessions" \in applied => "users" \in applied

(* No table of a file that is not recorded exists. *)
Untouched ==
    \A m \in FileNos \ recorded : Schema!Statements(m) \cap Schema!Tables \cap applied = {}

(* A command that nothing the others do now can make fail: it has still to see that no
   table of the next file exists, or it is the one that has begun to create them. *)
OnTrack(c) ==
    \/ cmd[c].pc = "check" /\ Untouched
    \/ cmd[c].pc = "count" /\ cmd[c].count = 0 /\ 1 \notin recorded /\ Untouched
    \/ /\ cmd[c].pc = "exec" /\ cmd[c].file \notin recorded
       /\ \A i \in cmd[c].k .. Len(Schema!Files[cmd[c].file]) :
             Schema!Files[cmd[c].file][i] \notin Schema!Tables \cap applied
    \/ cmd[c].pc = "record" /\ cmd[c].file \notin recorded

(* As long as no command has died, one is on its way to finish. *)
Champion ==
    /\ runs = 0 => /\ applied = {} /\ recorded = {}
                   /\ \A c \in Commands : cmd[c].pc \in Schema!Ended
    /\ crashes = 0 => \A c \in Commands : cmd[c].pc # "detached"
    /\ runs > 0 /\ crashes = 0 /\ recorded # FileNos => \E c \in Commands : OnTrack(c)

SafeInv ==
    /\ SchemaShape /\ InOrder /\ Schema!RecordedIsApplied
    /\ \A c \in Commands : Grounded(c)

SchemaInv == SafeInv /\ Champion
-----------------------------------------------------------------------------
(* The files, written out. *)
LEMMA FilesAre ==
  /\ Len(Schema!Files) = 3 /\ Len(Schema!InitialTables) = 2
  /\ Len(Schema!Files[1]) = 2 /\ Len(Schema!Files[2]) = 1 /\ Len(Schema!Files[3]) = 1
  /\ Schema!Files[1][1] = "users" /\ Schema!Files[1][2] = "sessions"
  /\ Schema!Files[2][1] = "seed" /\ Schema!Files[3][1] = "jobs"
  /\ Schema!InitialTables[1] = "users" /\ Schema!InitialTables[2] = "sessions"
  /\ Schema!Statements(1) = {"users", "sessions"}
  /\ Schema!Statements(2) = {"seed"} /\ Schema!Statements(3) = {"jobs"}
<1>1. /\ Len(Schema!Files) = 3 /\ Len(Schema!InitialTables) = 2
      /\ Len(Schema!Files[1]) = 2 /\ Len(Schema!Files[2]) = 1 /\ Len(Schema!Files[3]) = 1
      /\ Schema!Files[1][1] = "users" /\ Schema!Files[1][2] = "sessions"
      /\ Schema!Files[2][1] = "seed" /\ Schema!Files[3][1] = "jobs"
      /\ Schema!InitialTables[1] = "users" /\ Schema!InitialTables[2] = "sessions"
  BY DEF Schema!Files, Schema!InitialTables
<1>2. 1 .. 2 = {1, 2} /\ 1 .. 1 = {1}
  OBVIOUS
<1>3. QED
  BY <1>1, <1>2 DEF Schema!Statements

LEMMA SchemaInit == Schema!Init => SchemaInv
<1> SUFFICES ASSUME Schema!Init PROVE SchemaInv
  OBVIOUS
<1>1. Schema!Off \in CmdType /\ Schema!Off.pc = "off"
  BY DEF Schema!Off, Schema!At, Schema!Ended, CmdType, FileNos
<1>2. SchemaShape
  BY <1>1, SharedAssumption DEF Schema!Init, SchemaShape
<1>3. /\ applied = {} /\ recorded = {} /\ runs = 0
      /\ \A c \in Commands : cmd[c].pc = "off"
  BY <1>1 DEF Schema!Init
<1>4. Schema!RecordedIsApplied
  BY <1>3 DEF Schema!RecordedIsApplied
<1>5. \A c \in Commands : Grounded(c)
  BY <1>3 DEF Grounded
<1>6. Champion
  BY <1>3 DEF Champion, Schema!Ended
<1>7. QED
  BY <1>2, <1>3, <1>4, <1>5, <1>6 DEF SchemaInv, SafeInv, InOrder
-----------------------------------------------------------------------------
(* One command moves to "to". *)
Goes(c, to) ==
    /\ cmd'[c] = to /\ cmd' \in [Commands -> CmdType]
    /\ \A d \in Commands \ {c} : cmd'[d] = cmd[d]

LEMMA SetGoes ==
  ASSUME SchemaShape, NEW c \in Commands, NEW to \in CmdType, Schema!Set(c, to)
  PROVE  Goes(c, to)
  BY DEF SchemaShape, Schema!Set, Goes

LEMMA AtIs ==
  ASSUME NEW at \in Schema!Ended \cup {"check", "count", "exec", "detached", "record"},
         NEW file \in FileNos, NEW k \in 1 .. 3, NEW count \in 0 .. 2
  PROVE  /\ Schema!At(at, file, k, count) \in CmdType
         /\ Schema!At(at, file, k, count).pc = at /\ Schema!At(at, file, k, count).file = file
         /\ Schema!At(at, file, k, count).k = k /\ Schema!At(at, file, k, count).count = count
  BY DEF Schema!At, CmdType

(* What is applied and recorded stays so, and what commands rest on with it. *)
LEMMA GroundedKept ==
  ASSUME applied \subseteq applied', recorded \subseteq recorded', recorded' \subseteq FileNos,
         NEW d \in Commands, Grounded(d), cmd'[d] = cmd[d]
  PROVE  Grounded(d)'
  BY DEF Grounded

(* The file after one that is recorded, or the end. *)
LEMMA NextFileIs ==
  ASSUME SchemaShape, NEW c \in Commands
  PROVE  /\ Schema!NextFile(c) \in CmdType
         /\ cmd[c].file < 3 => /\ Schema!NextFile(c).pc = "check"
                               /\ Schema!NextFile(c).file = cmd[c].file + 1
         /\ cmd[c].file = 3 => Schema!NextFile(c).pc = "ok"
<1>1. cmd[c].file \in {1, 2, 3}
  BY DEF SchemaShape, CmdType, FileNos
<1>2. CASE cmd[c].file < 3
  <2>1. Schema!NextFile(c) = Schema!At("check", cmd[c].file + 1, 1, 0)
    BY <1>1, <1>2, FilesAre DEF Schema!NextFile
  <2>2. cmd[c].file + 1 \in FileNos
    BY <1>1, <1>2 DEF FileNos
  <2>3. QED
    BY <1>1, <1>2, <2>1, <2>2, AtIs
<1>3. CASE cmd[c].file = 3
  <2>1. Schema!NextFile(c) = Schema!At("ok", 1, 1, 0)
    BY <1>1, <1>3, FilesAre DEF Schema!NextFile
  <2>2. QED
    BY <1>3, <2>1, AtIs DEF FileNos, Schema!Ended
<1>4. QED
  BY <1>1, <1>2, <1>3
-----------------------------------------------------------------------------
(* Steps that apply and record nothing *)

LEMMA QuietSafe ==
  ASSUME SafeInv, NEW c \in Commands, NEW to \in CmdType, Goes(c, to),
         UNCHANGED <<applied, recorded>>, runs' \in 0 .. MaxRuns, crashes' \in 0 .. MaxCrashes,
         Grounded(c)'
  PROVE  SafeInv'
<1>1. SchemaShape' /\ InOrder'
  BY DEF SafeInv, SchemaShape, InOrder, Goes
<1>2. Schema!RecordedIsApplied'
  BY DEF SafeInv, Schema!RecordedIsApplied
<1>3. ASSUME NEW d \in Commands \ {c} PROVE Grounded(d)'
  <2>1. cmd'[d] = cmd[d] /\ recorded' \subseteq FileNos
    BY DEF Goes, SafeInv, SchemaShape
  <2>2. QED
    BY <2>1, GroundedKept DEF SafeInv
<1>4. QED
  BY <1>1, <1>2, <1>3 DEF SafeInv

LEMMA StartSafe ==
  ASSUME SafeInv, NEW c \in Commands, Schema!Start(c)
  PROVE  SafeInv' /\ cmd'[c].pc = "check" /\ cmd[c].pc \in Schema!Ended
                  /\ \A d \in Commands \ {c} : cmd'[d] = cmd[d]
<1> DEFINE to == Schema!At("check", 1, 1, 0)
<1>1. to \in CmdType /\ to.pc = "check" /\ to.file = 1
  BY AtIs DEF FileNos
<1>2. Schema!Set(c, to)
  BY DEF Schema!Start
<1> HIDE DEF to
<1>3. Goes(c, to)
  BY <1>1, <1>2, SetGoes DEF SafeInv
<1>4. UNCHANGED <<applied, recorded, crashes>> /\ runs' \in 0 .. MaxRuns /\ cmd[c].pc \in Schema!Ended
  BY SharedAssumption DEF Schema!Start, SafeInv, SchemaShape
<1>5. Grounded(c)'
  BY <1>1, <1>3 DEF Grounded, Goes
<1>6. SafeInv'
  BY <1>1, <1>3, <1>4, <1>5, QuietSafe DEF SafeInv, SchemaShape
<1>7. QED
  BY <1>1, <1>3, <1>4, <1>6 DEF Goes

LEMMA CheckSafe ==
  ASSUME SafeInv, NEW c \in Commands, Schema!CheckApplied(c)
  PROVE  /\ SafeInv' /\ UNCHANGED <<applied, recorded, runs, crashes>>
         /\ cmd[c].pc = "check"
         /\ \A d \in Commands \ {c} : cmd'[d] = cmd[d]
         /\ \/ cmd'[c].pc = "check"
            \/ cmd'[c].pc = "ok" /\ recorded = FileNos
            \/ cmd'[c].pc = "count" /\ cmd'[c].count = 0 /\ cmd'[c].file \notin recorded
            \/ cmd'[c].pc = "exec" /\ cmd'[c].file \notin recorded
<1>0. /\ SchemaShape /\ cmd[c].file \in FileNos /\ cmd[c].file \in {1, 2, 3} /\ cmd[c].pc = "check"
      /\ UNCHANGED <<applied, recorded, runs, crashes>>
      /\ 1 .. cmd[c].file - 1 \subseteq recorded /\ recorded \subseteq FileNos
  BY DEF SafeInv, SchemaShape, CmdType, FileNos, Grounded, Schema!CheckApplied
<1>1. CASE cmd[c].file \in recorded
  <2>1. Schema!Set(c, Schema!NextFile(c))
    BY <1>1 DEF Schema!CheckApplied
  <2>2. Goes(c, Schema!NextFile(c)) /\ Schema!NextFile(c) \in CmdType
    BY <1>0, <2>1, NextFileIs, SetGoes
  <2>3. /\ cmd'[c] = Schema!NextFile(c)
        /\ \/ cmd'[c].pc = "check" /\ cmd'[c].file = cmd[c].file + 1
           \/ cmd'[c].pc = "ok" /\ cmd[c].file = 3
    <3>1. cmd'[c] = Schema!NextFile(c)
      BY <2>2 DEF Goes
    <3>2. cmd[c].file < 3 \/ cmd[c].file = 3
      BY <1>0
    <3>3. CASE cmd[c].file < 3
      <4>1. Schema!NextFile(c).pc = "check" /\ Schema!NextFile(c).file = cmd[c].file + 1
        BY <1>0, <3>3, NextFileIs
      <4>2. QED
        BY <1>0, <3>1, <4>1
    <3>4. CASE cmd[c].file = 3
      BY <1>0, <3>1, <3>4, NextFileIs
    <3>5. QED
      BY <3>2, <3>3, <3>4
  <2>4. cmd'[c].pc = "ok" => recorded = FileNos
    <3>1. SUFFICES ASSUME cmd[c].file = 3 PROVE recorded = FileNos
      BY <2>3
    <3>2. 1 \in recorded /\ 2 \in recorded /\ 3 \in recorded
      BY <1>0, <1>1, <3>1
    <3>3. FileNos = {1, 2, 3}
      BY DEF FileNos
    <3>4. QED
      BY <1>0, <3>2, <3>3
  <2>5. Grounded(c)'
    BY <1>0, <1>1, <2>3, <2>4 DEF Grounded
  <2>6. SafeInv'
    BY <1>0, <2>2, <2>5, QuietSafe DEF SchemaShape
  <2>7. QED
    BY <1>0, <2>2, <2>3, <2>4, <2>6 DEF Goes
<1>2. CASE cmd[c].file \notin recorded
  <2> DEFINE to == Schema!At(IF cmd[c].file = 1 THEN "count" ELSE "exec", cmd[c].file, 1, 0)
  <2>1. Schema!Set(c, to)
    BY <1>2 DEF Schema!CheckApplied
  <2>2. /\ to \in CmdType /\ to.file = cmd[c].file /\ to.k = 1 /\ to.count = 0
        /\ to.pc = (IF cmd[c].file = 1 THEN "count" ELSE "exec")
    BY <1>0, AtIs
  <2> HIDE DEF to
  <2>3. Goes(c, to)
    BY <1>0, <2>1, <2>2, SetGoes
  <2>4. Grounded(c)'
    BY <1>0, <2>2, <2>3, FilesAre DEF Grounded, Goes
  <2>5. SafeInv'
    BY <1>0, <2>2, <2>3, <2>4, QuietSafe DEF SchemaShape
  <2>6. QED
    BY <1>0, <1>2, <2>2, <2>3, <2>5 DEF Goes
<1>3. QED
  BY <1>1, <1>2

LEMMA CountSafe ==
  ASSUME SafeInv, NEW c \in Commands, Schema!CountTable(c)
  PROVE  /\ SafeInv' /\ UNCHANGED <<applied, recorded, runs, crashes>>
         /\ cmd[c].pc = "count" /\ cmd'[c].pc = "count"
         /\ Untouched /\ 1 \notin recorded /\ cmd[c].count = 0 => cmd'[c].count = 0
         /\ \A d \in Commands \ {c} : cmd'[d] = cmd[d]
<1>0. /\ SchemaShape /\ cmd[c] \in CmdType /\ cmd[c].pc = "count"
      /\ UNCHANGED <<applied, recorded, runs, crashes>>
      /\ cmd[c].k \in {1, 2} /\ cmd[c].file = 1 /\ cmd[c].count < cmd[c].k
      /\ cmd[c].count = cmd[c].k - 1 =>
            \A i \in 1 .. cmd[c].k - 1 : Schema!InitialTables[i] \in applied
  BY FilesAre DEF SafeInv, SchemaShape, CmdType, Grounded, Schema!CountTable
<1> DEFINE there == Schema!InitialTables[cmd[c].k] \in applied
           to == [cmd[c] EXCEPT !.k = @ + 1, !.count = IF there THEN @ + 1 ELSE @]
<1>1. Schema!Set(c, to)
  BY DEF Schema!CountTable
<1>2. /\ to \in CmdType /\ to.pc = "count" /\ to.file = 1 /\ to.k = cmd[c].k + 1
      /\ to.count = IF there THEN cmd[c].count + 1 ELSE cmd[c].count
  <2>1. cmd[c].k + 1 \in 1 .. 3 /\ cmd[c].count \in 0 .. 1
    BY <1>0 DEF CmdType
  <2>2. (IF there THEN cmd[c].count + 1 ELSE cmd[c].count) \in 0 .. 2
    BY <2>1
  <2>3. QED
    BY <1>0, <2>1, <2>2 DEF CmdType
<1> HIDE DEF to
<1>3. Goes(c, to)
  BY <1>0, <1>1, <1>2, SetGoes
<1>4. Grounded(c)'
  <2>1. /\ cmd'[c].pc = "count" /\ cmd'[c].file = 1 /\ cmd'[c].k = cmd[c].k + 1
        /\ cmd'[c].count = IF there THEN cmd[c].count + 1 ELSE cmd[c].count
    BY <1>2, <1>3 DEF Goes
  <2>2. cmd[c].count \in 0 .. 2
    BY <1>0 DEF CmdType
  <2>3. cmd'[c].count < cmd'[c].k
    BY <1>0, <2>1, <2>2
  <2>4. ASSUME cmd'[c].count = cmd'[c].k - 1
        PROVE  \A i \in 1 .. cmd'[c].k - 1 : Schema!InitialTables[i] \in applied
    <3>1. there /\ cmd[c].count = cmd[c].k - 1
      BY <1>0, <2>1, <2>2, <2>4
    <3>2. ASSUME NEW i \in 1 .. cmd'[c].k - 1 PROVE Schema!InitialTables[i] \in applied
      <4>1. i \in 1 .. cmd[c].k - 1 \/ i = cmd[c].k
        BY <1>0, <2>1
      <4>2. QED
        BY <1>0, <3>1, <4>1
    <3>3. QED
      BY <3>2
  <2>5. QED
    BY <1>0, <2>1, <2>3, <2>4 DEF Grounded
<1>5. SafeInv'
  BY <1>0, <1>2, <1>3, <1>4, QuietSafe DEF SchemaShape
<1>6. ASSUME Untouched, 1 \notin recorded, cmd[c].count = 0 PROVE cmd'[c].count = 0
  <2>1. Schema!InitialTables[cmd[c].k] \in Schema!Statements(1) \cap Schema!Tables
    BY <1>0, FilesAre DEF Schema!Tables
  <2>2. ~there
    BY <1>6, <2>1 DEF Untouched, FileNos
  <2>3. QED
    BY <1>2, <1>3, <1>6, <2>2 DEF Goes
<1>7. QED
  BY <1>0, <1>2, <1>3, <1>5, <1>6 DEF Goes

LEMMA BaselineSafe ==
  ASSUME SafeInv, NEW c \in Commands, Schema!Baseline(c)
  PROVE  /\ SafeInv' /\ UNCHANGED <<applied, recorded, runs, crashes>>
         /\ cmd[c].pc = "count" /\ cmd'[c].pc \in {"exec", "record", "failed"} /\ cmd[c].file = 1
         /\ cmd[c].count = 0 => cmd'[c].pc = "exec" /\ cmd'[c].file = 1
         /\ \A d \in Commands \ {c} : cmd'[d] = cmd[d]
<1>0. /\ SchemaShape /\ cmd[c] \in CmdType /\ cmd[c].pc = "count"
      /\ UNCHANGED <<applied, recorded, runs, crashes>>
      /\ cmd[c].k = 3 /\ cmd[c].file = 1 /\ cmd[c].count \in 0 .. 2
      /\ cmd[c].count = 2 => Schema!Statements(1) \subseteq applied
  <2>1. /\ SchemaShape /\ cmd[c] \in CmdType /\ cmd[c].pc = "count"
        /\ UNCHANGED <<applied, recorded, runs, crashes>>
        /\ cmd[c].k = 3 /\ cmd[c].file = 1 /\ cmd[c].count \in 0 .. 2
    BY FilesAre DEF SafeInv, SchemaShape, CmdType, Grounded, Schema!Baseline
  <2>2. cmd[c].count = 2 => \A i \in 1 .. 2 : Schema!InitialTables[i] \in applied
    BY <2>1 DEF SafeInv, Grounded
  <2>3. QED
    BY <2>1, <2>2, FilesAre
<1> DEFINE to == CASE cmd[c].count = 0 -> Schema!At("exec", 1, 1, 0)
                   [] cmd[c].count = Len(Schema!InitialTables) -> Schema!At("record", 1, 1, 0)
                   [] OTHER -> Schema!Fatal
<1>1. Schema!Set(c, to)
  BY DEF Schema!Baseline
<1>2. /\ to \in CmdType /\ to.file = 1 /\ to.k = 1
      /\ to.pc \in {"exec", "record", "failed"}
      /\ cmd[c].count = 0 => to.pc = "exec"
      /\ to.pc = "record" => cmd[c].count = 2
  <2>1. /\ Schema!At("exec", 1, 1, 0) \in CmdType /\ Schema!At("record", 1, 1, 0) \in CmdType
        /\ Schema!Fatal \in CmdType
        /\ Schema!At("exec", 1, 1, 0).pc = "exec" /\ Schema!At("record", 1, 1, 0).pc = "record"
        /\ Schema!Fatal.pc = "failed"
        /\ Schema!At("exec", 1, 1, 0).k = 1 /\ Schema!At("record", 1, 1, 0).k = 1 /\ Schema!Fatal.k = 1
        /\ Schema!At("exec", 1, 1, 0).file = 1 /\ Schema!At("record", 1, 1, 0).file = 1
        /\ Schema!Fatal.file = 1
    BY DEF Schema!At, Schema!Fatal, CmdType, FileNos, Schema!Ended
  <2>2. QED
    BY <1>0, <2>1, FilesAre
<1> HIDE DEF to
<1>3. Goes(c, to)
  BY <1>0, <1>1, <1>2, SetGoes
<1>4. Grounded(c)'
  BY <1>0, <1>2, <1>3, FilesAre DEF Grounded, Goes
<1>5. SafeInv'
  BY <1>0, <1>2, <1>3, <1>4, QuietSafe DEF SchemaShape
<1>6. QED
  BY <1>0, <1>2, <1>3, <1>5 DEF Goes

LEMMA CrashSafe ==
  ASSUME SafeInv, NEW c \in Commands, Schema!Crash(c)
  PROVE  SafeInv' /\ crashes' # 0 /\ UNCHANGED <<applied, recorded, runs>>
<1>0. /\ SchemaShape /\ cmd[c] \in CmdType /\ UNCHANGED <<applied, recorded, runs>>
      /\ crashes' \in 0 .. MaxCrashes /\ crashes' # 0
  BY SharedAssumption DEF SafeInv, SchemaShape, Schema!Crash
<1>1. CASE Schema!Set(c, Schema!At("dead", 1, 1, 0))
  <2>1. /\ Schema!At("dead", 1, 1, 0) \in CmdType /\ Schema!At("dead", 1, 1, 0).pc = "dead"
    BY AtIs DEF FileNos, Schema!Ended
  <2>2. Goes(c, Schema!At("dead", 1, 1, 0))
    BY <1>0, <1>1, <2>1, SetGoes
  <2>3. Grounded(c)'
    BY <2>1, <2>2 DEF Grounded, Goes
  <2>4. QED
    BY <1>0, <2>1, <2>2, <2>3, QuietSafe DEF SchemaShape
<1>2. CASE cmd[c].pc = "exec" /\ Schema!Set(c, [cmd[c] EXCEPT !.pc = "detached"])
  <2> DEFINE to == [cmd[c] EXCEPT !.pc = "detached"]
  <2>1. to \in CmdType /\ to.pc = "detached" /\ to.file = cmd[c].file /\ to.k = cmd[c].k
    BY <1>0 DEF CmdType
  <2>2. Schema!Set(c, to)
    BY <1>2
  <2> HIDE DEF to
  <2>3. Goes(c, to)
    BY <1>0, <2>1, <2>2, SetGoes
  <2>4. Grounded(c)'
    BY <1>0, <1>2, <2>1, <2>3 DEF Grounded, Goes, SafeInv
  <2>5. QED
    BY <1>0, <2>1, <2>3, <2>4, QuietSafe DEF SchemaShape
<1>3. QED
  BY <1>0, <1>1, <1>2 DEF Schema!Crash
-----------------------------------------------------------------------------
(* Steps that apply a statement or record a file *)

(* The next statement of the command's file: which it is, by file and place. *)
LEMMA NextStatement ==
  ASSUME SafeInv, NEW c \in Commands, cmd[c].pc \in {"exec", "detached"}
  PROVE  LET s == Schema!Files[cmd[c].file][cmd[c].k] IN
         \/ cmd[c].file = 1 /\ cmd[c].k = 1 /\ s = "users"
         \/ cmd[c].file = 1 /\ cmd[c].k = 2 /\ s = "sessions" /\ "users" \in applied
         \/ cmd[c].file = 2 /\ cmd[c].k = 1 /\ s = "seed" /\ 1 \in recorded
         \/ cmd[c].file = 3 /\ cmd[c].k = 1 /\ s = "jobs" /\ 1 \in recorded /\ 2 \in recorded
<1>1. /\ cmd[c].file \in {1, 2, 3} /\ cmd[c].k \in 1 .. 3
      /\ cmd[c].k <= Len(Schema!Files[cmd[c].file])
      /\ \A i \in 1 .. cmd[c].k - 1 : Schema!Files[cmd[c].file][i] \in applied
      /\ 1 .. cmd[c].file - 1 \subseteq recorded
  BY DEF SafeInv, SchemaShape, CmdType, FileNos, Grounded
<1>2. CASE cmd[c].file = 1
  <2>1. cmd[c].k = 1 \/ cmd[c].k = 2
    BY <1>1, <1>2, FilesAre
  <2>2. QED
    BY <1>1, <1>2, <2>1, FilesAre
<1>3. CASE cmd[c].file = 2
  BY <1>1, <1>3, FilesAre
<1>4. CASE cmd[c].file = 3
  BY <1>1, <1>4, FilesAre
<1>5. QED
  BY <1>1, <1>2, <1>3, <1>4

LEMMA ExecuteSafe ==
  ASSUME SafeInv, NEW c \in Commands, Schema!Execute(c)
  PROVE  LET s == Schema!Files[cmd[c].file][cmd[c].k] IN
         /\ SafeInv' /\ UNCHANGED <<recorded, runs, crashes>>
         /\ cmd[c].pc \in {"exec", "detached"} /\ (cmd[c].pc = "exec" => cmd'[c].pc # "detached")
         /\ s \in Schema!Tables \cap applied => applied' = applied
         /\ s \notin Schema!Tables \cap applied =>
               /\ applied' = applied \cup {s}
               /\ cmd[c].pc = "exec" =>
                     /\ cmd'[c].file = cmd[c].file
                     /\ \/ cmd'[c].pc = "record"
                        \/ cmd'[c].pc = "exec" /\ cmd[c].file = 1 /\ cmd[c].k = 1 /\ cmd'[c].k = 2
         /\ \A d \in Commands \ {c} : cmd'[d] = cmd[d]
<1> DEFINE s == Schema!Files[cmd[c].file][cmd[c].k]
           last == cmd[c].k = Len(Schema!Files[cmd[c].file])
           dead == Schema!At("dead", 1, 1, 0)
           stop == IF cmd[c].pc = "exec" THEN Schema!Fatal ELSE dead
           go == IF ~last THEN [cmd[c] EXCEPT !.k = @ + 1]
                 ELSE IF cmd[c].pc = "exec" THEN Schema!At("record", cmd[c].file, 1, 0) ELSE dead
<1>0. /\ SchemaShape /\ cmd[c] \in CmdType /\ cmd[c].file \in FileNos
      /\ UNCHANGED <<recorded, runs, crashes>> /\ cmd[c].pc \in {"exec", "detached"}
      /\ 1 .. cmd[c].file - 1 \subseteq recorded
  BY DEF SafeInv, SchemaShape, CmdType, Grounded, Schema!Execute
<1>1. /\ s \in Schema!Tables \cap applied => Schema!Set(c, stop) /\ applied' = applied
      /\ s \notin Schema!Tables \cap applied => Schema!Set(c, go) /\ applied' = applied \cup {s}
  BY DEF Schema!Execute
<1>2. /\ stop \in CmdType /\ stop.pc \in {"failed", "dead"}
  BY DEF Schema!Fatal, Schema!At, CmdType, Schema!Ended, FileNos
<1>3. \/ cmd[c].file = 1 /\ cmd[c].k = 1 /\ s = "users" /\ ~last
      \/ cmd[c].file = 1 /\ cmd[c].k = 2 /\ s = "sessions" /\ "users" \in applied /\ last
      \/ cmd[c].file = 2 /\ cmd[c].k = 1 /\ s = "seed" /\ 1 \in recorded /\ last
      \/ cmd[c].file = 3 /\ cmd[c].k = 1 /\ s = "jobs" /\ 1 \in recorded /\ 2 \in recorded /\ last
  BY <1>0, NextStatement, FilesAre
<1>4. /\ go \in CmdType
      /\ ~last => /\ go.pc = cmd[c].pc /\ go.file = 1 /\ go.k = 2
      /\ last => go.pc \in {"record", "dead"} /\ (go.pc = "record" => go.file = cmd[c].file)
      /\ last /\ cmd[c].pc = "exec" => go.pc = "record"
  <2>1. CASE last
    BY <1>0, <2>1 DEF Schema!At, CmdType, Schema!Ended, FileNos
  <2>2. CASE ~last
    <3>1. cmd[c].file = 1 /\ cmd[c].k = 1
      BY <1>3, <2>2
    <3>2. QED
      BY <1>0, <2>2, <3>1 DEF CmdType
  <2>3. QED
    BY <2>1, <2>2
<1> HIDE DEF stop, go, dead
<1>5. CASE s \in Schema!Tables \cap applied
  <2>1. Goes(c, stop) /\ applied' = applied
    BY <1>0, <1>1, <1>2, <1>5, SetGoes
  <2>2. Grounded(c)'
    BY <1>2, <2>1 DEF Grounded, Goes
  <2>3. SafeInv'
    BY <1>0, <1>2, <2>1, <2>2, QuietSafe DEF SchemaShape
  <2>4. QED
    BY <1>0, <1>2, <1>5, <2>1, <2>3 DEF Goes
<1>6. CASE s \notin Schema!Tables \cap applied
  <2>1. Goes(c, go) /\ applied' = applied \cup {s}
    BY <1>0, <1>1, <1>4, <1>6, SetGoes
  <2>2. SchemaShape'
    BY <1>0, <1>3, <2>1 DEF SchemaShape, Goes
  <2>3. InOrder'
    BY <1>3, <2>1 DEF SafeInv, InOrder
  <2>4. Schema!RecordedIsApplied'
    <3>1. SUFFICES ASSUME NEW m \in {1, 2, 3}
                   PROVE  /\ m \in recorded' => Schema!Statements(m) \subseteq applied'
                          /\ (Schema!Statements(m) \cap applied' # {}) => 1 .. m - 1 \subseteq recorded'
      <4>1. 1 .. 3 = {1, 2, 3}
        OBVIOUS
      <4>2. QED
        BY <3>1, <4>1, FilesAre DEF Schema!RecordedIsApplied
    <3>2. /\ m \in recorded => Schema!Statements(m) \subseteq applied
          /\ (Schema!Statements(m) \cap applied # {}) => 1 .. m - 1 \subseteq recorded
      BY <3>1, FilesAre DEF SafeInv, Schema!RecordedIsApplied
    <3>3. s \in Schema!Statements(m) => m = cmd[c].file
      BY <1>3, <3>1, FilesAre
    <3>4. QED
      BY <1>0, <2>1, <3>2, <3>3
  <2>5. Grounded(c)'
    <3>1. CASE last
      <4>1. go.pc = "record" => Schema!Statements(cmd[c].file) \subseteq applied'
        BY <1>3, <2>1, <3>1, FilesAre
      <4>2. QED
        BY <1>0, <1>4, <2>1, <3>1, <4>1 DEF Grounded, Goes
    <3>2. CASE ~last
      <4>1. /\ cmd'[c].pc \in {"exec", "detached"} /\ cmd'[c].file = 1 /\ cmd'[c].k = 2
            /\ "users" \in applied'
        BY <1>0, <1>3, <1>4, <2>1, <3>2 DEF Goes
      <4>2. \A i \in 1 .. 2 - 1 : i = 1
        OBVIOUS
      <4>3. QED
        BY <4>1, <4>2, FilesAre DEF Grounded
    <3>3. QED
      BY <3>1, <3>2
  <2>6. ASSUME NEW d \in Commands \ {c} PROVE Grounded(d)'
    <3>1. cmd'[d] = cmd[d] /\ recorded' \subseteq FileNos
      BY <1>0, <2>1 DEF Goes, SchemaShape
    <3>2. QED
      BY <1>0, <2>1, <3>1, GroundedKept DEF SafeInv
  <2>7. SafeInv'
    BY <2>2, <2>3, <2>4, <2>5, <2>6 DEF SafeInv
  <2>8. cmd[c].pc = "exec" =>
          /\ cmd'[c].file = cmd[c].file
          /\ \/ cmd'[c].pc = "record"
             \/ cmd'[c].pc = "exec" /\ cmd[c].file = 1 /\ cmd[c].k = 1 /\ cmd'[c].k = 2
    BY <1>3, <1>4, <2>1 DEF Goes
  <2>9. QED
    BY <1>0, <1>6, <2>1, <2>7, <2>8 DEF Goes
<1>7. QED
  BY <1>5, <1>6

(* The file that is recorded is the first that was not, and none after it is begun. *)
LEMMA RecordSafe ==
  ASSUME SafeInv, NEW c \in Commands, Schema!Record(c)
  PROVE  /\ SafeInv' /\ UNCHANGED <<applied, runs, crashes>> /\ cmd[c].pc = "record"
         /\ cmd[c].file \in recorded => recorded' = recorded /\ cmd'[c].pc = "failed"
         /\ cmd[c].file \notin recorded =>
               Untouched' /\ (cmd'[c].pc = "check" \/ recorded' = FileNos)
         /\ cmd'[c].pc # "detached"
         /\ \A d \in Commands \ {c} : cmd'[d] = cmd[d]
<1> DEFINE f == cmd[c].file
           to == IF f \in recorded THEN Schema!Fatal ELSE Schema!NextFile(c)
<1>0. /\ SchemaShape /\ f \in {1, 2, 3} /\ cmd[c].pc = "record"
      /\ UNCHANGED <<applied, runs, crashes>> /\ recorded' = recorded \cup {f}
      /\ 1 .. f - 1 \subseteq recorded /\ recorded \subseteq {1, 2, 3}
      /\ Schema!Statements(f) \subseteq applied /\ FileNos = {1, 2, 3}
  <2>1. FileNos = {1, 2, 3}
    BY DEF FileNos
  <2>2. QED
    BY <2>1 DEF SafeInv, SchemaShape, CmdType, Grounded, Schema!Record
<1>1. Schema!Set(c, to)
  BY DEF Schema!Record
<1>2. /\ to \in CmdType
      /\ f \in recorded => to.pc = "failed"
      /\ f \notin recorded =>
            \/ f < 3 /\ to.pc = "check" /\ to.file = f + 1
            \/ f = 3 /\ to.pc = "ok"
  <2>1. Schema!Fatal \in CmdType /\ Schema!Fatal.pc = "failed"
    BY DEF Schema!Fatal, Schema!At, CmdType, Schema!Ended, FileNos
  <2>2. f < 3 \/ f = 3
    BY <1>0
  <2>3. CASE f \in recorded
    BY <2>1, <2>3
  <2>4. CASE f \notin recorded
    <3>1. to = Schema!NextFile(c) /\ to \in CmdType
      BY <1>0, <2>4, NextFileIs
    <3>2. CASE f < 3
      <4>1. Schema!NextFile(c).pc = "check" /\ Schema!NextFile(c).file = f + 1
        BY <1>0, <3>2, NextFileIs
      <4>2. QED
        BY <1>0, <2>4, <3>1, <3>2, <4>1
    <3>3. CASE f = 3
      BY <1>0, <2>4, <3>1, <3>3, NextFileIs
    <3>4. QED
      BY <2>2, <2>4, <3>1, <3>2, <3>3
  <2>5. QED
    BY <2>3, <2>4
<1> HIDE DEF to
<1>3. Goes(c, to)
  BY <1>0, <1>1, <1>2, SetGoes
<1>4. ASSUME f \notin recorded PROVE recorded' = 1 .. f /\ (f = 3 => recorded' = FileNos)
  <2>1. \A m \in {1, 2, 3} : m \in recorded => m < f
    <3>1. SUFFICES ASSUME NEW m \in {1, 2, 3}, m \in recorded, m > f PROVE FALSE
      BY <1>0, <1>4
    <3>2. Schema!Statements(m) \cap applied # {} /\ f \in 1 .. m - 1
      BY <1>0, <3>1, FilesAre DEF SafeInv, Schema!RecordedIsApplied
    <3>3. QED
      BY <1>0, <1>4, <3>1, <3>2, FilesAre DEF SafeInv, Schema!RecordedIsApplied
  <2>2. recorded' = 1 .. f
    <3>1. ASSUME NEW m \in {1, 2, 3} PROVE m \in recorded' <=> m \in 1 .. f
      <4>0. m < f => m \in 1 .. f - 1
        BY <1>0
      <4>1. m < f => m \in recorded
        BY <1>0, <4>0
      <4>2. m \in recorded => m < f
        BY <2>1
      <4>3. QED
        BY <1>0, <4>1, <4>2
    <3>2. recorded' \subseteq {1, 2, 3} /\ 1 .. f \subseteq {1, 2, 3}
      <4>1. f <= 3 /\ f \in Nat
        BY <1>0
      <4>2. \A m \in 1 .. f : m \in {1, 2, 3}
        BY <4>1
      <4>3. QED
        BY <1>0, <4>2
    <3>3. QED
      BY <3>1, <3>2
  <2>3. QED
    BY <2>2 DEF FileNos
<1>5. SchemaShape' /\ InOrder'
  BY <1>0, <1>3 DEF SafeInv, SchemaShape, InOrder, Goes
<1>6. Schema!RecordedIsApplied'
  BY <1>0, FilesAre DEF SafeInv, Schema!RecordedIsApplied
<1>7. Grounded(c)'
  <2>1. cmd'[c].pc = "ok" => recorded' = FileNos
    BY <1>2, <1>3, <1>4 DEF Goes
  <2>2. CASE f \in recorded
    BY <1>2, <1>3, <2>2 DEF Grounded, Goes
  <2>3. CASE f \notin recorded
    <3>1. cmd'[c].pc = "check" => 1 .. cmd'[c].file - 1 \subseteq recorded'
      BY <1>0, <1>2, <1>3, <1>4, <2>3 DEF Goes
    <3>2. QED
      BY <1>2, <1>3, <2>1, <2>3, <3>1 DEF Grounded, Goes
  <2>4. QED
    BY <2>2, <2>3
<1>8. ASSUME NEW d \in Commands \ {c} PROVE Grounded(d)'
  <2>1. cmd'[d] = cmd[d] /\ recorded' \subseteq FileNos
    BY <1>0, <1>3 DEF Goes
  <2>2. QED
    BY <1>0, <2>1, GroundedKept DEF SafeInv
<1>9. ASSUME f \notin recorded PROVE Untouched'
  <2>1. SUFFICES ASSUME NEW m \in {1, 2, 3}, m \notin recorded'
                 PROVE  Schema!Statements(m) \cap applied = {}
    BY <1>0 DEF Untouched
  <2>2. f \in 1 .. m - 1
    BY <1>0, <1>4, <1>9, <2>1
  <2>3. QED
    BY <1>9, <2>1, <2>2, FilesAre DEF SafeInv, Schema!RecordedIsApplied
<1>10. SafeInv'
  BY <1>5, <1>6, <1>7, <1>8 DEF SafeInv
<1>11. QED
  BY <1>0, <1>2, <1>3, <1>4, <1>9, <1>10 DEF Goes
-----------------------------------------------------------------------------
(* Of commands that do not die one is always on its way *)

LEMMA OnTrackKept ==
  ASSUME NEW d \in Commands, OnTrack(d), cmd'[d] = cmd[d],
         recorded' = recorded, applied' \cap Schema!Tables = applied \cap Schema!Tables
  PROVE  OnTrack(d)'
<1>1. Untouched => Untouched'
  BY DEF Untouched
<1>2. QED
  BY <1>1 DEF OnTrack

(* A command that begins a file none of whose tables exists is on track. *)
LEMMA BeginsOnTrack ==
  ASSUME SafeInv', Untouched', NEW c \in Commands,
         cmd'[c].pc = "exec", cmd'[c].file \notin recorded'
  PROVE  OnTrack(c)'
<1>1. cmd'[c].file \in {1, 2, 3} /\ cmd'[c].k \in 1 .. 3
  BY DEF SafeInv, SchemaShape, CmdType, FileNos
<1>2. ASSUME NEW i \in cmd'[c].k .. Len(Schema!Files[cmd'[c].file])
      PROVE  Schema!Files[cmd'[c].file][i] \notin Schema!Tables \cap applied'
  <2>1. i \in 1 .. Len(Schema!Files[cmd'[c].file])
    BY <1>1, FilesAre
  <2>2. Schema!Files[cmd'[c].file][i] \in Schema!Statements(cmd'[c].file)
    BY <2>1 DEF Schema!Statements
  <2>3. QED
    BY <1>1, <2>2 DEF Untouched, FileNos
<1>3. QED
  BY <1>2 DEF OnTrack

(* Another command finds nothing to do, or is told that there is nothing to do. *)
LEMMA QuietChampion ==
  ASSUME SchemaInv, NEW c \in Commands,
         UNCHANGED <<applied, recorded, runs, crashes>>,
         \A d \in Commands \ {c} : cmd'[d] = cmd[d],
         cmd[c].pc \notin Schema!Ended, cmd'[c].pc # "detached",
         OnTrack(c) => OnTrack(c)' \/ recorded = FileNos
  PROVE  Champion'
<1>1. runs > 0 /\ runs # 0
  BY DEF SchemaInv, SafeInv, SchemaShape, Champion
<1>2. crashes = 0 => \A d \in Commands : cmd'[d].pc # "detached"
  BY DEF SchemaInv, Champion
<1>3. ASSUME crashes = 0, recorded # FileNos PROVE \E d \in Commands : OnTrack(d)'
  <2>1. PICK d \in Commands : OnTrack(d)
    BY <1>1, <1>3 DEF SchemaInv, Champion
  <2>2. CASE d = c
    BY <1>3, <2>1, <2>2
  <2>3. CASE d # c
    BY <2>1, <2>3, OnTrackKept
  <2>4. QED
    BY <2>2, <2>3
<1>4. QED
  BY <1>1, <1>2, <1>3 DEF Champion

LEMMA StartChampion ==
  ASSUME SchemaInv, NEW c \in Commands, Schema!Start(c)
  PROVE  Champion'
<1>1. /\ cmd'[c].pc = "check" /\ cmd[c].pc \in Schema!Ended
      /\ \A d \in Commands \ {c} : cmd'[d] = cmd[d]
  BY StartSafe DEF SchemaInv
<1>2. UNCHANGED <<applied, recorded, crashes>> /\ runs' = runs + 1 /\ runs \in Nat
  BY DEF Schema!Start, SchemaInv, SafeInv, SchemaShape
<1>3. CASE runs = 0
  <2>1. Untouched'
    BY <1>2, <1>3 DEF SchemaInv, Champion, Untouched
  <2>2. QED
    BY <1>1, <1>2, <2>1 DEF SchemaInv, Champion, OnTrack
<1>4. CASE runs # 0
  <2>1. ASSUME crashes = 0, recorded # FileNos PROVE \E d \in Commands : OnTrack(d)'
    <3>1. PICK d \in Commands : OnTrack(d)
      BY <1>2, <1>4, <2>1 DEF SchemaInv, Champion
    <3>2. d # c
      BY <1>1, <3>1 DEF OnTrack, Schema!Ended
    <3>3. QED
      BY <1>1, <1>2, <3>1, <3>2, OnTrackKept
  <2>2. QED
    BY <1>1, <1>2, <2>1 DEF SchemaInv, Champion
<1>5. QED
  BY <1>3, <1>4

LEMMA CheckChampion ==
  ASSUME SchemaInv, NEW c \in Commands, Schema!CheckApplied(c)
  PROVE  Champion'
<1>1. /\ SafeInv' /\ UNCHANGED <<applied, recorded, runs, crashes>>
      /\ cmd[c].pc = "check"
      /\ \A d \in Commands \ {c} : cmd'[d] = cmd[d]
      /\ \/ cmd'[c].pc = "check"
         \/ cmd'[c].pc = "ok" /\ recorded = FileNos
         \/ cmd'[c].pc = "count" /\ cmd'[c].count = 0 /\ cmd'[c].file \notin recorded
         \/ cmd'[c].pc = "exec" /\ cmd'[c].file \notin recorded
  BY CheckSafe DEF SchemaInv
<1>2. ASSUME OnTrack(c), recorded # FileNos PROVE OnTrack(c)'
  <2>1. Untouched /\ Untouched'
    BY <1>1, <1>2 DEF OnTrack, Untouched
  <2>2. CASE cmd'[c].pc = "check"
    BY <2>1, <2>2 DEF OnTrack
  <2>3. CASE cmd'[c].pc = "count" /\ cmd'[c].count = 0 /\ cmd'[c].file \notin recorded
    <3>1. cmd'[c].file = 1
      BY <1>1, <2>3 DEF SafeInv, Grounded
    <3>2. QED
      BY <1>1, <2>1, <2>3, <3>1 DEF OnTrack
  <2>4. CASE cmd'[c].pc = "exec" /\ cmd'[c].file \notin recorded
    <3>1. cmd'[c].file \notin recorded'
      BY <1>1, <2>4
    <3>2. QED
      BY <1>1, <2>1, <2>4, <3>1, BeginsOnTrack
  <2>5. QED
    BY <1>1, <1>2, <2>2, <2>3, <2>4
<1>3. QED
  BY <1>1, <1>2, QuietChampion DEF Schema!Ended

LEMMA CountChampion ==
  ASSUME SchemaInv, NEW c \in Commands, Schema!CountTable(c)
  PROVE  Champion'
<1>1. /\ UNCHANGED <<applied, recorded, runs, crashes>>
      /\ cmd[c].pc = "count" /\ cmd'[c].pc = "count"
      /\ Untouched /\ 1 \notin recorded /\ cmd[c].count = 0 => cmd'[c].count = 0
      /\ \A d \in Commands \ {c} : cmd'[d] = cmd[d]
  BY CountSafe DEF SchemaInv
<1>2. ASSUME OnTrack(c) PROVE OnTrack(c)'
  BY <1>1, <1>2 DEF OnTrack, Untouched
<1>3. QED
  BY <1>1, <1>2, QuietChampion DEF Schema!Ended

LEMMA BaselineChampion ==
  ASSUME SchemaInv, NEW c \in Commands, Schema!Baseline(c)
  PROVE  Champion'
<1>1. /\ SafeInv' /\ UNCHANGED <<applied, recorded, runs, crashes>>
      /\ cmd[c].pc = "count" /\ cmd'[c].pc \in {"exec", "record", "failed"}
      /\ cmd[c].count = 0 => cmd'[c].pc = "exec" /\ cmd'[c].file = 1
      /\ \A d \in Commands \ {c} : cmd'[d] = cmd[d]
  BY BaselineSafe DEF SchemaInv
<1>2. ASSUME OnTrack(c) PROVE OnTrack(c)'
  <2>1. /\ Untouched' /\ 1 \notin recorded' /\ cmd[c].count = 0
    BY <1>1, <1>2 DEF OnTrack, Untouched
  <2>2. QED
    BY <1>1, <2>1, BeginsOnTrack
<1>3. QED
  BY <1>1, <1>2, QuietChampion DEF Schema!Ended

(* The command that creates a table is on track from then on. *)
LEMMA ExecuteChampion ==
  ASSUME SchemaInv, NEW c \in Commands, Schema!Execute(c)
  PROVE  Champion'
<1> DEFINE s == Schema!Files[cmd[c].file][cmd[c].k]
<1>1. /\ SafeInv' /\ UNCHANGED <<recorded, runs, crashes>>
      /\ cmd[c].pc \in {"exec", "detached"} /\ (cmd[c].pc = "exec" => cmd'[c].pc # "detached")
      /\ s \in Schema!Tables \cap applied => applied' = applied
      /\ s \notin Schema!Tables \cap applied =>
            /\ applied' = applied \cup {s}
            /\ cmd[c].pc = "exec" =>
                  /\ cmd'[c].file = cmd[c].file
                  /\ \/ cmd'[c].pc = "record"
                     \/ cmd'[c].pc = "exec" /\ cmd[c].file = 1 /\ cmd[c].k = 1 /\ cmd'[c].k = 2
      /\ \A d \in Commands \ {c} : cmd'[d] = cmd[d]
  BY ExecuteSafe DEF SchemaInv
<1>2. runs # 0 /\ runs > 0 /\ cmd[c].pc \in {"exec", "detached"}
  BY DEF SchemaInv, SafeInv, SchemaShape, Champion, Schema!Execute, Schema!Ended
<1>3. crashes = 0 => cmd[c].pc = "exec" /\ \A d \in Commands : cmd'[d].pc # "detached"
  BY <1>1, <1>2 DEF SchemaInv, Champion
<1>4. \/ cmd[c].file = 1 /\ cmd[c].k = 1 /\ s = "users"
      \/ cmd[c].file = 1 /\ cmd[c].k = 2 /\ s = "sessions" /\ "users" \in applied
      \/ cmd[c].file = 2 /\ cmd[c].k = 1 /\ s = "seed" /\ 1 \in recorded
      \/ cmd[c].file = 3 /\ cmd[c].k = 1 /\ s = "jobs" /\ 1 \in recorded /\ 2 \in recorded
  BY <1>2, NextStatement DEF SchemaInv
<1>5. ASSUME crashes = 0, recorded # FileNos PROVE \E d \in Commands : OnTrack(d)'
  <2>1. PICK e \in Commands : OnTrack(e)
    BY <1>2, <1>5 DEF SchemaInv, Champion
  <2>2. cmd[c].pc = "exec"
    BY <1>3, <1>5
  <2>3. CASE s \in Schema!Tables \cap applied
    <3>1. e # c
      <4>1. SUFFICES ASSUME OnTrack(c) PROVE FALSE
        BY <2>1
      <4>2. cmd[c].k \in cmd[c].k .. Len(Schema!Files[cmd[c].file])
        BY <1>4, FilesAre
      <4>3. QED
        BY <2>2, <2>3, <4>1, <4>2 DEF OnTrack
    <3>2. QED
      BY <1>1, <2>1, <2>3, <3>1, OnTrackKept
  <2>4. CASE s \notin Schema!Tables \cap applied /\ s \in Schema!Tables
    <3>1. cmd[c].file \notin recorded
      BY <1>4, <2>4, FilesAre DEF SchemaInv, SafeInv, Schema!RecordedIsApplied
    <3>2. CASE cmd'[c].pc = "record"
      BY <1>1, <2>2, <2>4, <3>1, <3>2 DEF OnTrack
    <3>3. CASE cmd'[c].pc = "exec" /\ cmd[c].file = 1 /\ cmd[c].k = 1 /\ cmd'[c].k = 2
      <4>1. "sessions" \notin applied'
        BY <1>1, <1>4, <2>4, <3>3 DEF SchemaInv, SafeInv, InOrder
      <4>2. /\ cmd'[c].file = 1 /\ cmd'[c].file \notin recorded'
        BY <1>1, <2>2, <2>4, <3>1, <3>3
      <4>3. \A i \in 2 .. 2 : i = 2
        OBVIOUS
      <4>4. \A i \in cmd'[c].k .. Len(Schema!Files[cmd'[c].file]) :
               Schema!Files[cmd'[c].file][i] \notin Schema!Tables \cap applied'
        BY <3>3, <4>1, <4>2, <4>3, FilesAre
      <4>5. QED
        BY <3>3, <4>2, <4>4 DEF OnTrack
    <3>4. QED
      BY <1>1, <2>2, <2>4, <3>2, <3>3
  <2>5. CASE s \notin Schema!Tables
    <3>1. /\ s = "seed" /\ cmd[c].file = 2 /\ "seed" \notin Schema!Tables
          /\ applied' \cap Schema!Tables = applied \cap Schema!Tables
      BY <1>1, <1>4, <2>5 DEF Schema!Tables
    <3>2. CASE e = c
      BY <1>1, <2>1, <2>2, <2>5, <3>1, <3>2 DEF OnTrack
    <3>3. CASE e # c
      BY <1>1, <2>1, <3>1, <3>3, OnTrackKept
    <3>4. QED
      BY <3>2, <3>3
  <2>6. QED
    BY <2>3, <2>4, <2>5
<1>6. QED
  BY <1>1, <1>2, <1>3, <1>5 DEF Champion

(* The command that records a file is on track from then on. *)
LEMMA RecordChampion ==
  ASSUME SchemaInv, NEW c \in Commands, Schema!Record(c)
  PROVE  Champion'
<1>1. /\ UNCHANGED <<applied, runs, crashes>> /\ cmd[c].pc = "record"
      /\ cmd[c].file \in recorded => recorded' = recorded /\ cmd'[c].pc = "failed"
      /\ cmd[c].file \notin recorded =>
            Untouched' /\ (cmd'[c].pc = "check" \/ recorded' = FileNos)
      /\ cmd'[c].pc # "detached"
      /\ \A d \in Commands \ {c} : cmd'[d] = cmd[d]
  BY RecordSafe DEF SchemaInv
<1>2. CASE cmd[c].file \in recorded
  <2>1. ~OnTrack(c)
    BY <1>1, <1>2 DEF OnTrack
  <2>2. QED
    BY <1>1, <1>2, <2>1, QuietChampion DEF Schema!Ended
<1>3. CASE cmd[c].file \notin recorded
  <2>1. runs # 0 /\ (crashes = 0 => \A d \in Commands : cmd'[d].pc # "detached")
    BY <1>1 DEF SchemaInv, Champion, Schema!Ended
  <2>2. recorded' # FileNos => OnTrack(c)'
    BY <1>1, <1>3 DEF OnTrack
  <2>3. QED
    BY <1>1, <2>1, <2>2 DEF Champion
<1>4. QED
  BY <1>2, <1>3

LEMMA CrashChampion ==
  ASSUME SchemaInv, NEW c \in Commands, Schema!Crash(c)
  PROVE  Champion'
<1>1. crashes' # 0 /\ UNCHANGED <<applied, recorded, runs>>
  BY CrashSafe DEF SchemaInv
<1>2. runs # 0
  BY DEF SchemaInv, Champion, Schema!Crash, Schema!Ended
<1>3. QED
  BY <1>1, <1>2 DEF Champion

LEMMA SchemaStep == SchemaInv /\ Schema!Next => SchemaInv'
<1> SUFFICES ASSUME SchemaInv, Schema!Next PROVE SchemaInv'
  OBVIOUS
<1>1. PICK c \in Commands : Schema!Start(c) \/ Schema!Step(c) \/ Schema!Crash(c)
  BY DEF Schema!Next
<1>2. CASE Schema!Start(c)
  BY <1>2, StartSafe, StartChampion DEF SchemaInv
<1>3. CASE Schema!CheckApplied(c)
  BY <1>3, CheckSafe, CheckChampion DEF SchemaInv
<1>4. CASE Schema!CountTable(c)
  BY <1>4, CountSafe, CountChampion DEF SchemaInv
<1>5. CASE Schema!Baseline(c)
  BY <1>5, BaselineSafe, BaselineChampion DEF SchemaInv
<1>6. CASE Schema!Execute(c)
  BY <1>6, ExecuteSafe, ExecuteChampion DEF SchemaInv
<1>7. CASE Schema!Record(c)
  BY <1>7, RecordSafe, RecordChampion DEF SchemaInv
<1>8. CASE Schema!Crash(c)
  BY <1>8, CrashSafe, CrashChampion DEF SchemaInv
<1>9. QED
  BY <1>1, <1>2, <1>3, <1>4, <1>5, <1>6, <1>7, <1>8 DEF Schema!Step

LEMMA SchemaStutter == SchemaInv /\ UNCHANGED schemaVars => SchemaInv'
<1> SUFFICES ASSUME SchemaInv, UNCHANGED schemaVars PROVE SchemaInv'
  OBVIOUS
<1>1. UNCHANGED <<applied, recorded, cmd, runs, crashes>>
  BY DEF schemaVars
<1>2. SafeInv'
  BY <1>1 DEF SchemaInv, SafeInv, SchemaShape, InOrder, Schema!RecordedIsApplied, Grounded
<1>3. Champion'
  BY <1>1 DEF SchemaInv, Champion, OnTrack, Untouched
<1>4. QED
  BY <1>2, <1>3 DEF SchemaInv
-----------------------------------------------------------------------------
LEMMA SchemaInvariant == Parts => []SchemaInv
<1>1. PartsInit => SchemaInv
  BY SchemaInit DEF PartsInit
<1>2. SchemaInv /\ [PartsNext]_allVars => SchemaInv'
  BY SchemaStep, SchemaStutter DEF PartsNext, allVars
<1>3. QED
  BY <1>1, <1>2, PTL DEF Parts

LEMMA SchemaInvIsSafe ==
  SchemaInv => /\ Schema!TypeOK /\ Schema!RecordedIsApplied
               /\ Schema!OkIsComplete /\ Schema!OneOfThemFinishes
<1> SUFFICES ASSUME SchemaInv
             PROVE  /\ Schema!TypeOK /\ Schema!OkIsComplete /\ Schema!OneOfThemFinishes
  BY DEF SchemaInv, SafeInv
<1>1. 1 .. Len(Schema!Files) = FileNos /\ FileNos = {1, 2, 3}
  BY FilesAre DEF FileNos
<1>2. UNION {Schema!Statements(m) : m \in 1 .. Len(Schema!Files)}
        = {"users", "sessions", "seed", "jobs"}
  BY <1>1, FilesAre
<1>3. Schema!TypeOK
  <2>1. ASSUME NEW c \in Commands
        PROVE  /\ cmd[c].pc \in Schema!Ended \cup {"check", "count", "exec", "detached", "record"}
               /\ cmd[c].file \in FileNos
               /\ cmd[c].pc \in {"exec", "detached"} => cmd[c].k <= Len(Schema!Files[cmd[c].file])
    BY DEF SchemaInv, SafeInv, SchemaShape, CmdType, Grounded
  <2>2. QED
    BY <1>1, <1>2, <2>1 DEF SchemaInv, SafeInv, SchemaShape, Schema!TypeOK
<1>4. Schema!OkIsComplete
  BY <1>1 DEF SchemaInv, SafeInv, Grounded, Schema!OkIsComplete
<1>5. Schema!OneOfThemFinishes
  BY <1>1 DEF SchemaInv, Champion, OnTrack, Schema!Ended, Schema!OneOfThemFinishes
<1>6. QED
  BY <1>3, <1>4, <1>5

(* What is recorded has been applied, in the order of the files; a command that ends
   well leaves the whole schema; and of commands that overlap, however many and however
   often each begins again, one finishes unless one dies. *)
THEOREM SchemaIsCompleted == Parts => []SchemaCompletes
<1>1. SchemaInv => SchemaCompletes
  BY SchemaInvIsSafe DEF SchemaCompletes
<1>2. QED
  BY <1>1, SchemaInvariant, PTL
-----------------------------------------------------------------------------
(* TerminalSession *)
Chunk == 1 .. MaxChunks
Channel == [buf : Seq(Chunk), open : BOOLEAN]
Streams == {"off", "subscribe", "loop", "deliver", "leave", "report", "over"}

SessionShape ==
    /\ shell \in {"running", "exited"} /\ pty \in BOOLEAN
    /\ written \in 0 .. MaxChunks /\ pumped \in 0 .. written
    /\ pump \in [pc : {"read", "broadcast", "send", "hangup", "done"}, left : SUBSET Readers]
    /\ monitor \in {"wait", "finish", "done"}
    /\ release \in {"idle", "finish", "terminate", "hangup", "reap", "done"}
    /\ closed \in BOOLEAN /\ closeErr \in Session!CloseErrors
    /\ subs \subseteq Readers
    /\ chan \in [Readers -> Channel]
    /\ stream \in [Readers -> Streams]
    /\ handler \in [Readers -> {"off", "read", "input", "write", "join", "over"}]
    /\ outcome \in [Readers -> {"none", "ended", "failed", "cancelled"}]
    /\ joined \in [Readers -> 0 .. MaxChunks]
    /\ seen \in [Readers -> Seq(Nat)] /\ hand \in [Readers -> Seq(Nat)]
    /\ client \in [Readers -> {"up", "gone"}]
    /\ sock \in [Readers -> {"open", "normal", "error"}]

(* Whom the pump has still to send to is subscribed: nobody is added or removed while it
   holds the mutex.  Of a chunk that it carries it has sent none before that. *)
PumpInv ==
    /\ pump.pc = "send" => pump.left \subseteq subs
    /\ pump.pc \in {"broadcast", "send"} => pumped > 0
    /\ closed => subs = {}
    /\ panicked = FALSE

(* The chunks a subscriber has been sent: all that were pumped, but the one the pump
   carries until it has sent it to this one. *)
SentUpTo(r) ==
    IF pump.pc = "broadcast" \/ (pump.pc = "send" /\ r \in pump.left) THEN pumped - 1 ELSE pumped

(* The chunks after the n-th, one by one. *)
Follows(s, n) == \A i \in 1 .. Len(s) : s[i] = n + i

ReaderInv(r) ==
    /\ chan[r].open <=> r \in subs
    /\ Len(chan[r].buf) <= Cap
    /\ r \in subs => stream[r] \in {"loop", "deliver", "leave"}
    /\ handler[r] = "off" => stream[r] = "off"
    /\ stream[r] = "loop" => hand[r] = <<>>
    /\ stream[r] \in {"off", "subscribe"} => seen[r] = <<>> /\ hand[r] = <<>> /\ chan[r].buf = <<>>
    /\ Follows(seen[r], joined[r])
    /\ Follows(hand[r], joined[r] + Len(seen[r]))
    /\ Follows(chan[r].buf, joined[r] + Len(seen[r]) + Len(hand[r]))
    /\ r \in subs =>
          joined[r] + Len(seen[r]) + Len(hand[r]) + Len(chan[r].buf) = SentUpTo(r)

SessionInv == SessionShape /\ PumpInv /\ \A r \in Readers : ReaderInv(r)
-----------------------------------------------------------------------------
(* Sequences of consecutive numbers *)

LEMMA FollowsEmpty == ASSUME NEW n PROVE Follows(<<>>, n)
  BY DEF Follows

LEMMA FollowsAppend ==
  ASSUME NEW s \in Seq(Nat), NEW n \in Nat, Follows(s, n)
  PROVE  /\ Follows(Append(s, n + Len(s) + 1), n)
         /\ Len(Append(s, n + Len(s) + 1)) = Len(s) + 1
  BY DEF Follows

LEMMA FollowsHead ==
  ASSUME NEW s \in Seq(Nat), NEW n \in Nat, Follows(s, n), s # <<>>
  PROVE  /\ Head(s) = n + 1 /\ Tail(s) \in Seq(Nat) /\ Len(Tail(s)) = Len(s) - 1
         /\ Follows(Tail(s), n + 1) /\ <<Head(s)>> \in Seq(Nat)
<1>1. Len(s) \in Nat \ {0} /\ Head(s) = s[1] /\ 1 \in 1 .. Len(s)
  BY DEF Follows
<1>2. Head(s) = n + 1
  BY <1>1 DEF Follows
<1>3. Len(Tail(s)) = Len(s) - 1 /\ \A i \in 1 .. Len(s) - 1 : Tail(s)[i] = s[i + 1]
  BY <1>1
<1>4. \A i \in 1 .. Len(s) - 1 : i + 1 \in 1 .. Len(s)
  BY <1>1
<1>5. QED
  BY <1>1, <1>2, <1>3, <1>4 DEF Follows

LEMMA FollowsConcat ==
  ASSUME NEW s \in Seq(Nat), NEW t \in Seq(Nat), NEW n \in Nat,
         Follows(s, n), Follows(t, n + Len(s))
  PROVE  /\ s \o t \in Seq(Nat) /\ Len(s \o t) = Len(s) + Len(t)
         /\ Follows(s \o t, n)
<1>1. /\ s \o t \in Seq(Nat) /\ Len(s \o t) = Len(s) + Len(t)
      /\ Len(s) \in Nat /\ Len(t) \in Nat
      /\ \A i \in 1 .. Len(s) + Len(t) :
            (s \o t)[i] = IF i <= Len(s) THEN s[i] ELSE t[i - Len(s)]
  BY ConcatProperties
<1>2. ASSUME NEW i \in 1 .. Len(s) + Len(t) PROVE (s \o t)[i] = n + i
  <2>1. CASE i <= Len(s)
    BY <1>1, <2>1 DEF Follows
  <2>2. CASE ~(i <= Len(s))
    <3>1. i - Len(s) \in 1 .. Len(t)
      BY <1>1, <2>2
    <3>2. (s \o t)[i] = n + Len(s) + (i - Len(s))
      BY <1>1, <2>2, <3>1 DEF Follows
    <3>3. QED
      BY <1>1, <3>2
  <2>3. QED
    BY <2>1, <2>2
<1>3. QED
  BY <1>1, <1>2 DEF Follows
-----------------------------------------------------------------------------
LEMMA SessionInit == Session!Init => SessionInv
<1> SUFFICES ASSUME Session!Init PROVE SessionInv
  OBVIOUS
<1>1. SessionShape
  <2>1. /\ [buf |-> <<>>, open |-> FALSE] \in Channel /\ <<>> \in Seq(Nat)
        /\ [pc |-> "read", left |-> {}]
              \in [pc : {"read", "broadcast", "send", "hangup", "done"}, left : SUBSET Readers]
    BY DEF Channel
  <2>2. /\ chan \in [Readers -> Channel]
        /\ joined \in [Readers -> 0 .. MaxChunks]
        /\ seen \in [Readers -> Seq(Nat)] /\ hand \in [Readers -> Seq(Nat)]
    BY <2>1, SharedAssumption DEF Session!Init
  <2>3. /\ stream \in [Readers -> Streams]
        /\ handler \in [Readers -> {"off", "read", "input", "write", "join", "over"}]
        /\ outcome \in [Readers -> {"none", "ended", "failed", "cancelled"}]
        /\ client \in [Readers -> {"up", "gone"}]
        /\ sock \in [Readers -> {"open", "normal", "error"}]
    BY DEF Session!Init, Streams
  <2>4. /\ pump \in [pc : {"read", "broadcast", "send", "hangup", "done"}, left : SUBSET Readers]
        /\ written \in 0 .. MaxChunks /\ pumped \in 0 .. written
        /\ subs \subseteq Readers
    BY <2>1, SharedAssumption DEF Session!Init
  <2>5. /\ shell \in {"running", "exited"} /\ pty \in BOOLEAN
        /\ monitor \in {"wait", "finish", "done"}
        /\ release \in {"idle", "finish", "terminate", "hangup", "reap", "done"}
        /\ closed \in BOOLEAN /\ closeErr \in Session!CloseErrors
    BY DEF Session!Init, Session!CloseErrors
  <2>6. QED
    BY <2>2, <2>3, <2>4, <2>5 DEF SessionShape
<1>2. PumpInv
  BY DEF Session!Init, PumpInv
<1>3. ASSUME NEW r \in Readers PROVE ReaderInv(r)
  BY FollowsEmpty, SharedAssumption DEF Session!Init, ReaderInv
<1>4. QED
  BY <1>1, <1>2, <1>3 DEF SessionInv
-----------------------------------------------------------------------------
(* What concerns a reader stays as it is. *)
Kept(r) ==
    /\ chan'[r] = chan[r] /\ stream'[r] = stream[r]
    /\ handler'[r] = "off" => handler[r] = "off"
    /\ joined'[r] = joined[r] /\ seen'[r] = seen[r] /\ hand'[r] = hand[r]
    /\ (r \in subs') = (r \in subs)
    /\ r \in subs => SentUpTo(r)' = SentUpTo(r)

LEMMA ReaderKept ==
  ASSUME NEW r \in Readers, ReaderInv(r), Kept(r)
  PROVE  ReaderInv(r)'
  BY DEF ReaderInv, Kept

readerVars == <<chan, stream, joined, seen, hand, subs>>

(* Steps that concern neither the pump nor a reader. *)
LEMMA QuietKeeps ==
  ASSUME SessionInv, SessionShape', UNCHANGED <<readerVars, pump, pumped, closed, panicked>>,
         \A r \in Readers : handler'[r] = "off" => handler[r] = "off"
  PROVE  SessionInv'
<1>1. PumpInv'
  BY DEF SessionInv, PumpInv, readerVars
<1>2. ASSUME NEW r \in Readers PROVE ReaderInv(r)'
  <2>1. Kept(r)
    BY DEF Kept, SentUpTo, readerVars
  <2>2. QED
    BY <2>1, ReaderKept DEF SessionInv
<1>3. QED
  BY <1>1, <1>2 DEF SessionInv

LEMMA ShellKeeps ==
  ASSUME SessionInv, Session!ShellWrites \/ Session!ShellExits
  PROVE  SessionInv'
<1>1. UNCHANGED <<readerVars, handler, pump, pumped, closed, panicked>>
  BY DEF Session!ShellWrites, Session!ShellExits, Session!connVars, Session!sessionVars, readerVars
<1>2. CASE Session!ShellWrites
  <2>1. SessionShape'
    BY <1>2, SharedAssumption DEF Session!ShellWrites, Session!connVars, Session!sessionVars,
       SessionInv, SessionShape
  <2>2. QED
    BY <1>1, <2>1, QuietKeeps
<1>3. CASE Session!ShellExits
  <2>1. SessionShape'
    BY <1>3 DEF Session!ShellExits, Session!connVars, Session!sessionVars,
       SessionInv, SessionShape
  <2>2. QED
    BY <1>1, <2>1, QuietKeeps
<1>4. QED
  BY <1>2, <1>3

LEMMA ReleaseKeeps ==
  ASSUME SessionInv,
         \/ Session!ReleaseBegins \/ Session!ReleaseTerminates
         \/ Session!ReleaseClosesBackend \/ Session!ReleaseReaps \/ Session!ProcessReaped
  PROVE  SessionInv'
<1>1. UNCHANGED <<readerVars, handler, pump, pumped, closed, panicked>>
  BY DEF Session!ReleaseBegins, Session!ReleaseTerminates, Session!ReleaseClosesBackend,
     Session!ReleaseReaps, Session!ProcessReaped,
     Session!connVars, Session!sessionVars, Session!ptyVars, readerVars
<1>2. SessionShape'
  BY DEF Session!ReleaseBegins, Session!ReleaseTerminates, Session!ReleaseClosesBackend,
     Session!ReleaseReaps, Session!ProcessReaped,
     Session!connVars, Session!sessionVars, Session!ptyVars, SessionInv, SessionShape
<1>3. QED
  BY <1>1, <1>2, QuietKeeps

LEMMA HandlerKeeps ==
  ASSUME SessionInv, NEW r \in Readers,
         \/ Session!MessageArrives(r) \/ Session!HandlerStep(r) \/ Session!InputWritten(r)
         \/ Session!ClientGoes(r)
  PROVE  SessionInv'
<1>1. UNCHANGED <<readerVars, pump, pumped, closed, panicked>>
  BY DEF Session!MessageArrives, Session!HandlerStep, Session!Input, Session!InputWritten,
     Session!InputFails, Session!SocketFails, Session!Join, Session!ClientGoes,
     Session!sessionVars, Session!ptyVars, readerVars
<1>2. SessionShape /\ \A q \in Readers : handler'[q] = "off" => handler[q] = "off"
  BY DEF SessionInv, SessionShape, Session!MessageArrives, Session!HandlerStep, Session!Input,
     Session!InputWritten, Session!InputFails, Session!InputRefused, Session!SocketFails,
     Session!Join, Session!ClientGoes, Session!HandlerAt
<1>3. CASE Session!MessageArrives(r)
  <2>1. SessionShape'
    BY <1>2, <1>3 DEF Session!MessageArrives, Session!HandlerAt, Session!sessionVars,
       Session!ptyVars, SessionShape
  <2>2. QED
    BY <1>1, <1>2, <2>1, QuietKeeps
<1>4. CASE Session!Input(r) \/ Session!InputWritten(r) \/ Session!InputFails(r)
  <2>1. /\ UNCHANGED <<shell, pty, written, monitor, release, closeErr, outcome, client>>
        /\ \E to \in {"read", "write", "join"} : handler' = [handler EXCEPT ![r] = to]
        /\ sock' = sock \/ sock' = [sock EXCEPT ![r] = IF @ = "open" THEN "error" ELSE @]
    BY <1>4 DEF Session!Input, Session!InputWritten, Session!InputFails, Session!InputRefused,
       Session!HandlerAt, Session!ptyVars, Session!sessionVars
  <2>2. /\ handler' \in [Readers -> {"off", "read", "input", "write", "join", "over"}]
        /\ sock' \in [Readers -> {"open", "normal", "error"}]
    <3>1. /\ handler \in [Readers -> {"off", "read", "input", "write", "join", "over"}]
          /\ sock \in [Readers -> {"open", "normal", "error"}]
      BY <1>2 DEF SessionShape
    <3>2. handler' \in [Readers -> {"off", "read", "input", "write", "join", "over"}]
      BY <2>1, <3>1
    <3>3. sock' \in [Readers -> {"open", "normal", "error"}]
      BY <2>1, <3>1
    <3>4. QED
      BY <3>2, <3>3
  <2>3. SessionShape'
    BY <1>1, <1>2, <2>1, <2>2 DEF SessionShape, readerVars
  <2>4. QED
    BY <1>1, <1>2, <2>3, QuietKeeps
<1>5. CASE Session!SocketFails(r) \/ Session!Join(r)
  <2>1. SessionShape'
    BY <1>2, <1>5, ZenonT(30) DEF Session!SocketFails, Session!Join, Session!HandlerAt, Session!sessionVars,
       Session!ptyVars, SessionShape
  <2>2. QED
    BY <1>1, <1>2, <2>1, QuietKeeps
<1>6. CASE Session!ClientGoes(r)
  <2>1. SessionShape'
    BY <1>2, <1>6 DEF Session!ClientGoes, Session!sessionVars, Session!ptyVars, SessionShape
  <2>2. QED
    BY <1>1, <1>2, <2>1, QuietKeeps
<1>7. QED
  BY <1>3, <1>4, <1>5, <1>6 DEF Session!HandlerStep
-----------------------------------------------------------------------------
(* The pump *)

LEMMA PumpReadsKeeps ==
  ASSUME SessionInv, Session!PumpReads
  PROVE  SessionInv'
<1>1. /\ pump.pc = "read" /\ pumped < written /\ pumped' = pumped + 1
      /\ pump' = [pc |-> "broadcast", left |-> {}]
      /\ UNCHANGED <<readerVars, handler, closed, panicked>>
  BY DEF Session!PumpReads, Session!PumpAt, Session!sessionVars, Session!connVars, readerVars
<1>2. SessionShape /\ pumped \in Nat
  BY SharedAssumption DEF SessionInv, SessionShape
<1>3. SessionShape'
  BY <1>2, SharedAssumption DEF Session!PumpReads, Session!PumpAt, Session!sessionVars,
     Session!connVars, SessionShape
<1>4. PumpInv'
  BY <1>1, <1>2 DEF SessionInv, PumpInv, readerVars
<1>5. ASSUME NEW r \in Readers PROVE ReaderInv(r)'
  <2>1. SentUpTo(r)' = SentUpTo(r)
    BY <1>1, <1>2 DEF SentUpTo
  <2>2. Kept(r)
    BY <1>1, <2>1 DEF Kept, readerVars
  <2>3. QED
    BY <2>2, ReaderKept DEF SessionInv
<1>6. QED
  BY <1>3, <1>4, <1>5 DEF SessionInv

(* It begins to send to all subscribers, or drops the chunk when there is none. *)
LEMMA BroadcastBeginsKeeps ==
  ASSUME SessionInv, Session!BroadcastBegins
  PROVE  SessionInv'
<1>1. /\ pump.pc = "broadcast" /\ UNCHANGED <<readerVars, handler, pumped, closed, panicked>>
      /\ closed \/ subs = {} => pump' = [pc |-> "read", left |-> {}]
      /\ ~(closed \/ subs = {}) => pump' = [pc |-> "send", left |-> subs]
  BY DEF Session!BroadcastBegins, Session!PumpAt, Session!sessionVars, Session!connVars,
     Session!ptyVars, readerVars
<1>2. SessionShape /\ PumpInv
  BY DEF SessionInv
<1>3. SessionShape'
  BY <1>2 DEF Session!BroadcastBegins, Session!PumpAt, Session!sessionVars,
     Session!connVars, Session!ptyVars, SessionShape
<1>4. PumpInv'
  BY <1>1, <1>2 DEF PumpInv, readerVars
<1>5. ASSUME NEW r \in Readers PROVE ReaderInv(r)'
  <2>1. r \in subs => SentUpTo(r)' = SentUpTo(r)
    BY <1>1, <1>2 DEF SentUpTo, PumpInv
  <2>2. Kept(r)
    BY <1>1, <2>1 DEF Kept, readerVars
  <2>3. QED
    BY <2>2, ReaderKept DEF SessionInv
<1>6. QED
  BY <1>3, <1>4, <1>5 DEF SessionInv

(* The channel it sends on is open, and the chunk is the next for this subscriber. *)
LEMMA SendKeeps ==
  ASSUME SessionInv, NEW r \in Readers, Session!Send(r)
  PROVE  SessionInv'
<1>0. /\ SessionShape /\ PumpInv /\ ReaderInv(r) /\ chan[r] \in Channel
      /\ pumped \in Nat /\ pumped > 0 /\ pumped \in Chunk
      /\ pump.pc = "send" /\ r \in pump.left /\ pump.left \subseteq Readers
      /\ r \in subs /\ chan[r].open
  <2>1. SessionShape /\ PumpInv /\ ReaderInv(r) /\ pump.pc = "send" /\ r \in pump.left
    BY DEF SessionInv, Session!Send
  <2>2. /\ chan[r] \in Channel /\ pump.left \subseteq Readers
        /\ MaxChunks \in Nat /\ written \in 0 .. MaxChunks /\ pumped \in 0 .. written
    BY <2>1, SharedAssumption DEF SessionShape
  <2>3. pumped \in Nat /\ pumped > 0 /\ pumped \in Chunk
    BY <2>1, <2>2 DEF PumpInv, Chunk
  <2>4. r \in subs /\ chan[r].open
    BY <2>1 DEF PumpInv, ReaderInv
  <2>5. QED
    BY <2>1, <2>2, <2>3, <2>4
<1> DEFINE n == joined[r] + Len(seen[r]) + Len(hand[r])
           more == [chan[r] EXCEPT !.buf = Append(@, pumped)]
<1>1. /\ Len(chan[r].buf) < Cap
      /\ chan' = [chan EXCEPT ![r].buf = Append(@, pumped)]
      /\ panicked' = (panicked \/ ~chan[r].open)
      /\ pump' = [pc |-> IF pump.left = {r} THEN "read" ELSE "send", left |-> pump.left \ {r}]
      /\ UNCHANGED <<pumped, subs, closed, stream, handler, joined, seen, hand>>
  BY <1>0 DEF Session!Send, Session!SendDone, Session!PumpAt, Session!connVars, Session!ptyVars
<1>2. /\ chan' = [chan EXCEPT ![r] = more]
      /\ more \in Channel /\ more.open /\ more.buf = Append(chan[r].buf, pumped)
      /\ chan[r].buf \in Seq(Chunk) /\ chan[r].buf \in Seq(Nat)
  <2>1. chan[r].buf \in Seq(Chunk)
    BY <1>0 DEF Channel
  <2>2. Chunk \subseteq Nat
    BY DEF Chunk
  <2>3. chan[r].buf \in Seq(Nat)
    BY <2>1, <2>2, SeqMonotonic
  <2>4. Append(chan[r].buf, pumped) \in Seq(Chunk)
    BY <1>0, <2>1
  <2>5. more = [buf |-> Append(chan[r].buf, pumped), open |-> chan[r].open]
    <3>1. chan[r] = [buf |-> chan[r].buf, open |-> chan[r].open]
      BY <1>0 DEF Channel
    <3>2. QED
      BY <3>1
  <2>6. chan' = [chan EXCEPT ![r] = more]
    BY <1>1
  <2>7. QED
    BY <1>0, <2>1, <2>3, <2>4, <2>5, <2>6 DEF Channel
<1>3. /\ chan' \in [Readers -> Channel] /\ chan'[r] = more
      /\ \A q \in Readers \ {r} : chan'[q] = chan[q]
  BY <1>0, <1>2 DEF SessionShape
<1> HIDE DEF more
<1>4. SessionShape'
  BY <1>0, <1>3 DEF Session!Send, Session!SendDone, Session!PumpAt, Session!connVars,
     Session!ptyVars, SessionShape
<1>5. PumpInv'
  BY <1>0, <1>1 DEF PumpInv
<1>6. ReaderInv(r)'
  <2>1. joined[r] \in Nat /\ Len(seen[r]) \in Nat /\ Len(hand[r]) \in Nat /\ Len(chan[r].buf) \in Nat
    BY <1>0, <1>2, SharedAssumption DEF SessionShape
  <2>2. /\ n \in Nat /\ pumped = n + Len(chan[r].buf) + 1 /\ Follows(chan[r].buf, n)
    BY <1>0, <2>1 DEF ReaderInv, SentUpTo
  <2>3. /\ Follows(more.buf, n) /\ Len(more.buf) = Len(chan[r].buf) + 1
    BY <1>2, <2>2, FollowsAppend
  <2>4. SentUpTo(r)' = pumped
    BY <1>1 DEF SentUpTo
  <2>5. Len(more.buf) <= Cap /\ n + Len(more.buf) = pumped
    <3>1. Len(more.buf) <= Cap
      BY <1>1, <2>1, <2>3, SharedAssumption
    <3>2. n + Len(more.buf) = pumped
      BY <2>1, <2>2, <2>3
    <3>3. QED
      BY <3>1, <3>2
  <2>6. QED
    BY <1>0, <1>1, <1>2, <1>3, <2>3, <2>4, <2>5 DEF ReaderInv
<1>7. ASSUME NEW q \in Readers \ {r} PROVE ReaderInv(q)'
  <2>1. SentUpTo(q)' = SentUpTo(q)
    BY <1>0, <1>1 DEF SentUpTo
  <2>2. Kept(q)
    BY <1>1, <1>3, <2>1 DEF Kept
  <2>3. QED
    BY <2>2, ReaderKept DEF SessionInv
<1>8. QED
  BY <1>4, <1>5, <1>6, <1>7 DEF SessionInv

(* finish: it closes the channels of all subscribers, each of them open. *)
LEMMA FinishKeeps ==
  ASSUME SessionInv, SessionShape', NEW err, Session!Finish(err),
         UNCHANGED <<pumped, stream, handler, joined, seen, hand>>,
         \/ pump' = pump
         \/ pump.pc = "read" /\ pump' = [pc |-> "hangup", left |-> {}]
  PROVE  SessionInv'
<1>1. SessionShape /\ PumpInv /\ \A r \in Readers : ReaderInv(r)
  BY DEF SessionInv
<1>2. \A r \in Readers : SentUpTo(r)' = SentUpTo(r)
  BY DEF SentUpTo
<1>3. CASE closed /\ UNCHANGED <<closed, closeErr, subs, chan, panicked>>
  <2>1. PumpInv'
    BY <1>1, <1>3 DEF PumpInv
  <2>2. ASSUME NEW r \in Readers PROVE ReaderInv(r)'
    BY <1>1, <1>2, <1>3, ReaderKept DEF Kept
  <2>3. QED
    BY <2>1, <2>2 DEF SessionInv
<1>4. CASE /\ pump.pc # "send" /\ closed' = TRUE /\ subs' = {}
           /\ chan' = [r \in Readers |-> IF r \in subs THEN [chan[r] EXCEPT !.open = FALSE]
                                                       ELSE chan[r]]
           /\ panicked' = (panicked \/ \E r \in subs : ~chan[r].open)
  <2>1. ~panicked'
    BY <1>1, <1>4 DEF PumpInv, ReaderInv, SessionShape
  <2>2. PumpInv'
    BY <1>1, <1>4, <2>1 DEF PumpInv
  <2>3. ASSUME NEW r \in Readers PROVE ReaderInv(r)'
    <3>1. chan'[r].buf = chan[r].buf /\ ~chan'[r].open
      BY <1>1, <1>4 DEF SessionShape, Channel, ReaderInv
    <3>2. QED
      BY <1>1, <1>4, <3>1 DEF ReaderInv
  <2>4. QED
    BY <2>2, <2>3 DEF SessionInv
<1>5. QED
  BY <1>3, <1>4 DEF Session!Finish, Session!sessionVars, Session!Locked

LEMMA FinishType ==
  ASSUME SessionShape, NEW err \in Session!CloseErrors, Session!Finish(err)
  PROVE  /\ closed' \in BOOLEAN /\ closeErr' \in Session!CloseErrors /\ subs' \subseteq Readers
         /\ chan' \in [Readers -> Channel]
<1>1. CASE closed /\ UNCHANGED <<closed, closeErr, subs, chan, panicked>>
  BY <1>1 DEF SessionShape
<1>2. CASE ~closed
  <2>1. /\ closed' = TRUE /\ closeErr' = err /\ subs' = {}
        /\ chan' = [r \in Readers |-> IF r \in subs THEN [chan[r] EXCEPT !.open = FALSE]
                                                    ELSE chan[r]]
    BY <1>2 DEF Session!Finish
  <2>2. ASSUME NEW r \in Readers PROVE chan[r] \in Channel /\ [chan[r] EXCEPT !.open = FALSE] \in Channel
    BY DEF SessionShape, Channel
  <2>3. QED
    BY <2>1, <2>2
<1>3. QED
  BY <1>1, <1>2 DEF Session!Finish, Session!sessionVars

LEMMA PumpEndsKeeps ==
  ASSUME SessionInv, Session!PumpReadFails \/ Session!PumpClosesBackend
  PROVE  SessionInv'
<1>0. SessionShape
  BY DEF SessionInv
<1>1. CASE Session!PumpReadFails
  <2>1. PICK err \in Session!CloseErrors : Session!Finish(err)
    BY <1>1 DEF Session!PumpReadFails, Session!CloseErrors, Session!HangupErrors
  <2>2. /\ pump.pc = "read" /\ pump' = [pc |-> "hangup", left |-> {}]
        /\ UNCHANGED <<shell, pty, written, pumped, stream, handler, outcome, joined, seen, hand,
                       client, sock, monitor, release>>
    BY <1>1 DEF Session!PumpReadFails, Session!PumpAt, Session!ptyVars, Session!connVars
  <2>3. SessionShape'
    BY <1>0, <2>1, <2>2, FinishType DEF SessionShape
  <2>4. QED
    BY <2>1, <2>2, <2>3, FinishKeeps
<1>2. CASE Session!PumpClosesBackend
  <2>1. /\ pump.pc = "hangup" /\ pump' = [pc |-> "done", left |-> {}]
        /\ UNCHANGED <<readerVars, handler, pumped, closed, panicked>>
    BY <1>2 DEF Session!PumpClosesBackend, Session!PumpAt, Session!sessionVars,
       Session!connVars, readerVars
  <2>2. SessionShape'
    BY <1>0, <1>2 DEF Session!PumpClosesBackend, Session!PumpAt, Session!sessionVars,
       Session!connVars, SessionShape
  <2>3. PumpInv'
    BY <2>1 DEF SessionInv, PumpInv, readerVars
  <2>4. ASSUME NEW r \in Readers PROVE ReaderInv(r)'
    BY <2>1, ReaderKept DEF SessionInv, Kept, SentUpTo, readerVars
  <2>5. QED
    BY <2>2, <2>3, <2>4 DEF SessionInv
<1>3. QED
  BY <1>1, <1>2

LEMMA FinishersKeep ==
  ASSUME SessionInv, Session!MonitorFinishes \/ Session!ReleaseFinishes
  PROVE  SessionInv'
<1>0. SessionShape
  BY DEF SessionInv
<1>1. PICK err \in Session!CloseErrors : Session!Finish(err)
  BY DEF Session!MonitorFinishes, Session!ReleaseFinishes, Session!CloseErrors
<1>2. /\ UNCHANGED <<shell, pty, written, pumped, stream, handler, outcome, joined, seen, hand,
                     client, sock, pump>>
      /\ monitor' \in {"wait", "finish", "done"}
      /\ release' \in {"idle", "finish", "terminate", "hangup", "reap", "done"}
  BY <1>0 DEF Session!MonitorFinishes, Session!ReleaseFinishes, Session!ptyVars,
     Session!connVars, SessionShape
<1>3. SessionShape'
  BY <1>0, <1>1, <1>2, FinishType DEF SessionShape
<1>4. QED
  BY <1>1, <1>2, <1>3, FinishKeeps
-----------------------------------------------------------------------------
(* The read loops *)

(* A step of one reader leaves the others as they are. *)
LEMMA OthersKept ==
  ASSUME SessionInv, NEW r \in Readers, NEW q \in Readers \ {r},
         UNCHANGED <<pump, pumped>>,
         handler'[q] = handler[q], (q \in subs') = (q \in subs), chan'[q] = chan[q], stream'[q] = stream[q],
         joined'[q] = joined[q], seen'[q] = seen[q], hand'[q] = hand[q]
  PROVE  ReaderInv(q)'
<1>1. Kept(q)
  BY DEF Kept, SentUpTo
<1>2. QED
  BY <1>1, ReaderKept DEF SessionInv

(* The lengths of what a reader has. *)
LEMMA ReaderIs ==
  ASSUME SessionInv, NEW r \in Readers
  PROVE  /\ SessionShape /\ ReaderInv(r)
         /\ chan[r] \in Channel /\ chan[r].buf \in Seq(Chunk) /\ chan[r].buf \in Seq(Nat)
         /\ chan[r].open \in BOOLEAN
         /\ seen[r] \in Seq(Nat) /\ hand[r] \in Seq(Nat)
         /\ joined[r] \in Nat /\ Len(seen[r]) \in Nat
         /\ Len(hand[r]) \in Nat /\ Len(chan[r].buf) \in Nat
         /\ MaxChunks \in Nat /\ pumped \in 0 .. MaxChunks
<1>1. /\ SessionShape /\ ReaderInv(r) /\ chan[r] \in Channel
      /\ seen[r] \in Seq(Nat) /\ hand[r] \in Seq(Nat) /\ joined[r] \in 0 .. MaxChunks
      /\ MaxChunks \in Nat /\ written \in 0 .. MaxChunks /\ pumped \in 0 .. written
  BY SharedAssumption DEF SessionInv, SessionShape
<1>2. chan[r].buf \in Seq(Chunk) /\ chan[r].open \in BOOLEAN /\ Chunk \subseteq Nat
  BY <1>1 DEF Channel, Chunk
<1>3. chan[r].buf \in Seq(Nat)
  BY <1>2, SeqMonotonic
<1>4. QED
  BY <1>1, <1>2, <1>3

(* Its numbers. *)
LEMMA ReaderNumbers ==
  ASSUME SessionInv, NEW r \in Readers
  PROVE  /\ joined[r] \in Nat /\ Len(seen[r]) \in Nat
         /\ Len(hand[r]) \in Nat /\ Len(chan[r].buf) \in Nat
         /\ pumped \in Nat
<1>1. joined[r] \in Nat /\ Len(seen[r]) \in Nat /\ Len(hand[r]) \in Nat /\ Len(chan[r].buf) \in Nat
  BY ReaderIs
<1>2. MaxChunks \in Nat /\ pumped \in 0 .. MaxChunks
  BY ReaderIs
<1>3. QED
  BY <1>1, <1>2

(* A channel with another buffer, and an open or a closed one. *)
LEMMA OtherBuffer ==
  ASSUME NEW c \in Channel, NEW b
  PROVE  [c EXCEPT !.buf = b] = [buf |-> b, open |-> c.open]
<1>1. ASSUME NEW a, NEW o, c = [buf |-> a, open |-> o]
      PROVE  [c EXCEPT !.buf = b] = [buf |-> b, open |-> o]
  BY <1>1
<1>2. c = [buf |-> c.buf, open |-> c.open]
  BY DEF Channel
<1>3. QED
  BY <1>1, <1>2

LEMMA OtherOpen ==
  ASSUME NEW c \in Channel, NEW o
  PROVE  [c EXCEPT !.open = o] = [buf |-> c.buf, open |-> o]
<1>1. ASSUME NEW a, NEW b, c = [buf |-> a, open |-> b]
      PROVE  [c EXCEPT !.open = o] = [buf |-> a, open |-> o]
  BY <1>1
<1>2. c = [buf |-> c.buf, open |-> c.open]
  BY DEF Channel
<1>3. QED
  BY <1>1, <1>2

(* About sums, for the leaves in which the terms are lengths. *)
LEMMA SumIs ==
  /\ \A a, b, c \in Nat : a + (b + c) = a + b + c
  /\ \A a \in Nat : a + 0 = a
  /\ \A a, b, c \in Nat : a + b + c \in Nat
  OBVIOUS

LEMMA AttachKeeps ==
  ASSUME SessionInv, NEW r \in Readers, Session!Attach(r)
  PROVE  SessionInv'
<1>1. /\ UNCHANGED <<pump, pumped, chan, joined, seen, hand, subs, closed, panicked>>
      /\ handler[r] = "off"
      /\ \/ handler' = [handler EXCEPT ![r] = "read"] /\ stream' = [stream EXCEPT ![r] = "subscribe"]
         \/ handler' = [handler EXCEPT ![r] = "over"] /\ UNCHANGED stream
  BY DEF Session!Attach, Session!HandlerAt, Session!StreamAt, Session!sessionVars, Session!ptyVars
<1>2. SessionShape /\ ReaderInv(r) /\ stream[r] = "off"
  BY <1>1, ReaderIs DEF ReaderInv
<1>3. SessionShape'
  <2>1. /\ handler' \in [Readers -> {"off", "read", "input", "write", "join", "over"}]
        /\ stream' \in [Readers -> Streams]
    BY <1>1, <1>2 DEF SessionShape, Streams
  <2>2. QED
    BY <1>2, <2>1 DEF Session!Attach, Session!sessionVars, Session!ptyVars, SessionShape
<1>4. PumpInv'
  BY <1>1 DEF SessionInv, PumpInv
<1>5. ReaderInv(r)'
  <2>1. /\ handler'[r] # "off" /\ stream'[r] \in {"off", "subscribe"} /\ r \notin subs
        /\ SentUpTo(r)' = SentUpTo(r)
    BY <1>1, <1>2 DEF SessionShape, ReaderInv, SentUpTo
  <2>2. QED
    BY <1>1, <1>2, <2>1 DEF ReaderInv
<1>6. ASSUME NEW q \in Readers \ {r} PROVE ReaderInv(q)'
  <2>1. handler'[q] = handler[q] /\ stream'[q] = stream[q]
    BY <1>1, <1>2 DEF SessionShape
  <2>2. QED
    BY <1>1, <2>1, OthersKept
<1>7. QED
  BY <1>3, <1>4, <1>5, <1>6 DEF SessionInv

(* A reader joins where the pump is. *)
LEMMA SubscribeKeeps ==
  ASSUME SessionInv, NEW r \in Readers, Session!Subscribe(r)
  PROVE  SessionInv'
<1>1. /\ stream[r] = "subscribe" /\ pump.pc # "send"
      /\ UNCHANGED <<pump, pumped, closed, panicked, handler, seen, hand>>
  BY DEF Session!Subscribe, Session!Locked, Session!sessionVars, Session!ptyVars
<1>2. SessionShape /\ ReaderInv(r)
  BY ReaderIs
<1>3. CASE closed /\ stream' = [stream EXCEPT ![r] = "report"] 
           /\ outcome' = [outcome EXCEPT ![r] = "failed"] /\ UNCHANGED <<closeErr, subs, chan, joined>>
  <2>1. stream' \in [Readers -> Streams] /\ stream'[r] = "report"
        /\ \A q \in Readers \ {r} : stream'[q] = stream[q]
    BY <1>2, <1>3 DEF SessionShape, Streams
  <2>2. SessionShape'
    <3>1. outcome' \in [Readers -> {"none", "ended", "failed", "cancelled"}]
      BY <1>2, <1>3 DEF SessionShape
    <3>2. UNCHANGED <<shell, pty, written, pumped, pump, monitor, release, closed, closeErr, subs,
                      chan, handler, joined, seen, hand, client, sock>>
      BY <1>1, <1>3 DEF Session!Subscribe, Session!ptyVars
    <3>3. QED
      BY <1>2, <2>1, <3>1, <3>2 DEF SessionShape
  <2>3. PumpInv'
    BY <1>1, <1>3 DEF SessionInv, PumpInv
  <2>4. ReaderInv(r)'
    BY <1>1, <1>2, <1>3, <2>1 DEF ReaderInv
  <2>5. ASSUME NEW q \in Readers \ {r} PROVE ReaderInv(q)'
    BY <1>1, <1>3, <2>1, OthersKept
  <2>6. QED
    BY <2>2, <2>3, <2>4, <2>5 DEF SessionInv
<1>4. CASE /\ ~closed /\ subs' = subs \cup {r} /\ chan' = [chan EXCEPT ![r].open = TRUE]
           /\ joined' = [joined EXCEPT ![r] = IF pump.pc = "broadcast" THEN pumped - 1 ELSE pumped]
           /\ stream' = [stream EXCEPT ![r] = "loop"] /\ UNCHANGED <<closeErr, outcome>>
  <2>1. /\ seen[r] = <<>> /\ hand[r] = <<>> /\ chan[r].buf = <<>>
    BY <1>1, <1>2 DEF ReaderInv
  <2>2. /\ chan' \in [Readers -> Channel] /\ chan'[r].buf = <<>> /\ chan'[r].open
        /\ \A q \in Readers \ {r} : chan'[q] = chan[q]
    <3>1. [chan[r] EXCEPT !.open = TRUE] = [buf |-> <<>>, open |-> TRUE]
      <4>1. [chan[r] EXCEPT !.open = TRUE] = [buf |-> chan[r].buf, open |-> TRUE]
        BY ReaderIs, OtherOpen
      <4>2. QED
        BY <2>1, <4>1
    <3>2. [buf |-> <<>>, open |-> TRUE] \in Channel
      BY DEF Channel
    <3>3. chan' = [chan EXCEPT ![r] = [chan[r] EXCEPT !.open = TRUE]]
      BY <1>4
    <3>4. QED
      BY <1>2, <3>1, <3>2, <3>3 DEF SessionShape
  <2>3. /\ joined' \in [Readers -> 0 .. MaxChunks] /\ joined'[r] = SentUpTo(r)'
        /\ \A q \in Readers \ {r} : joined'[q] = joined[q]
    <3>1. (IF pump.pc = "broadcast" THEN pumped - 1 ELSE pumped) \in 0 .. MaxChunks
      <4>1. pump.pc = "broadcast" => pumped > 0
        BY DEF SessionInv, PumpInv
      <4>2. pumped \in 0 .. MaxChunks /\ MaxChunks \in Nat
        BY <1>2, SharedAssumption DEF SessionShape
      <4>3. QED
        BY <4>1, <4>2
    <3>2. QED
      BY <1>1, <1>2, <1>4, <3>1 DEF SessionShape, SentUpTo
  <2>4. /\ stream' \in [Readers -> Streams] /\ stream'[r] = "loop"
        /\ \A q \in Readers \ {r} : stream'[q] = stream[q]
    BY <1>2, <1>4 DEF SessionShape, Streams
  <2>5. SessionShape'
    BY <1>2, <1>4, <2>2, <2>3, <2>4 DEF Session!Subscribe, Session!sessionVars, Session!ptyVars,
       SessionShape
  <2>6. PumpInv'
    BY <1>1, <1>4 DEF SessionInv, PumpInv
  <2>7. ReaderInv(r)'
    <3>1. /\ seen'[r] = <<>> /\ hand'[r] = <<>> /\ chan'[r].buf = <<>> /\ r \in subs'
          /\ joined'[r] \in Nat /\ Cap \in Nat /\ stream'[r] = "loop" /\ handler'[r] # "off"
      BY <1>1, <1>2, <1>4, <2>1, <2>2, <2>3, <2>4, SharedAssumption DEF ReaderInv
    <3>2. QED
      BY <2>2, <2>3, <3>1, FollowsEmpty DEF ReaderInv
  <2>8. ASSUME NEW q \in Readers \ {r} PROVE ReaderInv(q)'
    BY <1>1, <1>4, <2>2, <2>3, <2>4, OthersKept
  <2>9. QED
    BY <2>5, <2>6, <2>7, <2>8 DEF SessionInv
<1>5. QED
  BY <1>3, <1>4 DEF Session!Subscribe, Session!StreamAt, Session!Returns, Session!sessionVars

(* The first chunk of the channel is the next one. *)
LEMMA ReceiveKeeps ==
  ASSUME SessionInv, NEW r \in Readers, Session!Receive(r)
  PROVE  SessionInv'
<1> DEFINE s == chan[r].buf
           n == joined[r] + Len(seen[r])
           rest == [chan[r] EXCEPT !.buf = Tail(@)]
<1>1. /\ stream[r] = "loop" /\ s # <<>>
      /\ chan' = [chan EXCEPT ![r] = rest]
      /\ hand' = [hand EXCEPT ![r] = <<Head(s)>>]
      /\ stream' = [stream EXCEPT ![r] = "deliver"]
      /\ UNCHANGED <<pump, pumped, subs, closed, panicked, handler, joined, seen>>
  BY DEF Session!Receive, Session!StreamAt, Session!ptyVars
<1>2. /\ SessionShape /\ ReaderInv(r) /\ hand[r] = <<>> /\ Follows(s, n) /\ n \in Nat
      /\ s \in Seq(Nat) /\ s \in Seq(Chunk) /\ Len(s) \in Nat
  <2>1. /\ SessionShape /\ ReaderInv(r) /\ hand[r] = <<>> /\ n \in Nat
        /\ s \in Seq(Nat) /\ s \in Seq(Chunk) /\ Len(s) \in Nat
    BY <1>1, ReaderIs DEF ReaderInv
  <2>2. n + Len(hand[r]) = n
    BY <2>1
  <2>3. QED
    BY <2>1, <2>2 DEF ReaderInv
<1>3. /\ Head(s) = n + 1 /\ <<Head(s)>> \in Seq(Nat) /\ Len(Tail(s)) = Len(s) - 1
      /\ Follows(Tail(s), n + 1)
  BY <1>1, <1>2, FollowsHead
<1>4. /\ rest \in Channel /\ rest.buf = Tail(s) /\ rest.open = chan[r].open
  <2>1. chan[r] = [buf |-> s, open |-> chan[r].open] /\ chan[r].open \in BOOLEAN
    BY ReaderIs DEF Channel
  <2>2. rest = [buf |-> Tail(s), open |-> chan[r].open]
    BY ReaderIs, OtherBuffer
  <2>3. Tail(s) \in Seq(Chunk)
    BY <1>1, <1>2
  <2>4. QED
    BY <2>1, <2>2, <2>3 DEF Channel
<1> HIDE DEF rest
<1>5. /\ chan' \in [Readers -> Channel] /\ chan'[r] = rest
      /\ hand' \in [Readers -> Seq(Nat)] /\ hand'[r] = <<Head(s)>>
      /\ stream' \in [Readers -> Streams] /\ stream'[r] = "deliver"
      /\ \A q \in Readers \ {r} : chan'[q] = chan[q] /\ hand'[q] = hand[q] /\ stream'[q] = stream[q]
  BY <1>1, <1>2, <1>3, <1>4 DEF SessionShape, Streams
<1>6. SessionShape'
  BY <1>2, <1>5 DEF Session!Receive, Session!ptyVars, SessionShape
<1>7. PumpInv'
  BY <1>1 DEF SessionInv, PumpInv
<1>8. ReaderInv(r)'
  <2>1. Follows(hand'[r], n)
    BY <1>3, <1>5 DEF Follows
  <2>2. /\ Len(hand'[r]) = 1 /\ Len(hand[r]) = 0 /\ Len(s) \in Nat \ {0}
    BY <1>1, <1>2, <1>5
  <2>3. SentUpTo(r)' = SentUpTo(r)
    BY <1>1 DEF SentUpTo
  <2>4. r \in subs => n + 1 + Len(Tail(s)) = SentUpTo(r)
    <3>1. r \in subs => n + 0 + Len(s) = SentUpTo(r)
      BY <1>2, <2>2 DEF ReaderInv
    <3>2. n + 1 + Len(Tail(s)) = n + 0 + Len(s)
      BY <1>2, <1>3, <2>2
    <3>3. QED
      BY <3>1, <3>2
  <2>5. Len(Tail(s)) <= Cap
    BY <1>2, <1>3, SharedAssumption DEF ReaderInv
  <2>6. joined'[r] + Len(seen'[r]) = n /\ n + Len(hand'[r]) = n + 1
    BY <1>1, <2>2
  <2>7. QED
    BY <1>1, <1>2, <1>3, <1>4, <1>5, <2>1, <2>3, <2>4, <2>5, <2>6 DEF ReaderInv
<1>9. ASSUME NEW q \in Readers \ {r} PROVE ReaderInv(q)'
  BY <1>1, <1>5, OthersKept
<1>10. QED
  BY <1>6, <1>7, <1>8, <1>9 DEF SessionInv

LEMMA StreamLeavesKeeps ==
  ASSUME SessionInv, NEW r \in Readers, Session!ChannelClosed(r) \/ Session!ContextDone(r)
  PROVE  SessionInv'
<1>1. /\ stream[r] = "loop" /\ stream' = [stream EXCEPT ![r] = "leave"]
      /\ UNCHANGED <<pump, pumped, subs, chan, closed, panicked, handler, joined, seen, hand>>
      /\ \E what \in {"ended", "failed", "cancelled"} : outcome' = [outcome EXCEPT ![r] = what]
  BY DEF Session!ChannelClosed, Session!ContextDone, Session!StreamAt, Session!Returns,
     Session!sessionVars, Session!ptyVars
<1>2. SessionShape /\ ReaderInv(r)
  BY ReaderIs
<1>3. /\ stream' \in [Readers -> Streams] /\ stream'[r] = "leave"
      /\ \A q \in Readers \ {r} : stream'[q] = stream[q]
      /\ outcome' \in [Readers -> {"none", "ended", "failed", "cancelled"}]
  BY <1>1, <1>2 DEF SessionShape, Streams
<1>4. SessionShape'
  BY <1>2, <1>3 DEF Session!ChannelClosed, Session!ContextDone, Session!sessionVars,
     Session!ptyVars, SessionShape
<1>5. PumpInv'
  BY <1>1 DEF SessionInv, PumpInv
<1>6. ReaderInv(r)'
  BY <1>1, <1>2, <1>3 DEF ReaderInv, SentUpTo
<1>7. ASSUME NEW q \in Readers \ {r} PROVE ReaderInv(q)'
  BY <1>1, <1>3, OthersKept
<1>8. QED
  BY <1>4, <1>5, <1>6, <1>7 DEF SessionInv

LEMMA DeliverKeeps ==
  ASSUME SessionInv, NEW r \in Readers, Session!Deliver(r)
  PROVE  SessionInv'
<1>1. /\ stream[r] = "deliver"
      /\ UNCHANGED <<pump, pumped, subs, chan, closed, panicked, handler, joined>>
  BY DEF Session!Deliver, Session!sessionVars, Session!ptyVars
<1>2. SessionShape /\ ReaderInv(r)
  BY ReaderIs
<1>3. PumpInv'
  BY <1>1 DEF SessionInv, PumpInv
<1>4. CASE /\ seen' = [seen EXCEPT ![r] = @ \o hand[r]] /\ hand' = [hand EXCEPT ![r] = <<>>]
           /\ stream' = [stream EXCEPT ![r] = "loop"] /\ UNCHANGED outcome
  <2>1. /\ seen[r] \o hand[r] \in Seq(Nat) /\ Len(seen[r] \o hand[r]) = Len(seen[r]) + Len(hand[r])
        /\ Follows(seen[r] \o hand[r], joined[r])
    BY ReaderIs, FollowsConcat DEF ReaderInv
  <2>2. /\ seen' \in [Readers -> Seq(Nat)] /\ seen'[r] = seen[r] \o hand[r]
        /\ hand' \in [Readers -> Seq(Nat)] /\ hand'[r] = <<>>
        /\ stream' \in [Readers -> Streams] /\ stream'[r] = "loop"
        /\ \A q \in Readers \ {r} : seen'[q] = seen[q] /\ hand'[q] = hand[q] /\ stream'[q] = stream[q]
    BY <1>2, <1>4, <2>1 DEF SessionShape, Streams
  <2>3. SessionShape'
    BY <1>2, <1>4, <2>2 DEF Session!Deliver, Session!sessionVars, Session!ptyVars, SessionShape
  <2>4. ReaderInv(r)'
    <3>1. /\ Len(seen'[r]) = Len(seen[r]) + Len(hand[r]) /\ Len(hand'[r]) = 0
          /\ SentUpTo(r)' = SentUpTo(r)
      BY <1>1, <2>1, <2>2 DEF SentUpTo
    <3>2. joined'[r] + Len(seen'[r]) + Len(hand'[r]) = joined[r] + Len(seen[r]) + Len(hand[r])
      <4>1. joined[r] \in Nat /\ Len(seen[r]) \in Nat /\ Len(hand[r]) \in Nat
        BY ReaderNumbers
      <4>2. joined'[r] = joined[r]
        BY <1>1
      <4>3. joined[r] + (Len(seen[r]) + Len(hand[r])) = joined[r] + Len(seen[r]) + Len(hand[r])
        BY <4>1, SumIs, Zenon
      <4>4. joined'[r] + Len(seen'[r]) \in Nat
        <5>1. joined[r] + Len(seen[r]) + Len(hand[r]) \in Nat
          BY <4>1, SumIs, Zenon
        <5>2. QED
          BY <3>1, <4>2, <4>3, <5>1
      <4>5. joined'[r] + Len(seen'[r]) + Len(hand'[r]) = joined'[r] + Len(seen'[r])
        BY <3>1, <4>4, SumIs, Zenon
      <4>6. QED
        BY <3>1, <4>2, <4>3, <4>5
    <3>3. QED
      BY <1>1, <1>2, <2>1, <2>2, <3>1, <3>2, FollowsEmpty DEF ReaderInv
  <2>5. ASSUME NEW q \in Readers \ {r} PROVE ReaderInv(q)'
    BY <1>1, <2>2, OthersKept
  <2>6. QED
    BY <1>3, <2>3, <2>4, <2>5 DEF SessionInv
<1>5. CASE /\ outcome' = [outcome EXCEPT ![r] = "failed"]
           /\ stream' = [stream EXCEPT ![r] = "leave"] /\ UNCHANGED <<seen, hand>>
  <2>1. /\ stream' \in [Readers -> Streams] /\ stream'[r] = "leave"
        /\ \A q \in Readers \ {r} : stream'[q] = stream[q]
        /\ outcome' \in [Readers -> {"none", "ended", "failed", "cancelled"}]
    BY <1>2, <1>5 DEF SessionShape, Streams
  <2>2. SessionShape'
    BY <1>2, <1>5, <2>1 DEF Session!Deliver, Session!sessionVars, Session!ptyVars, SessionShape
  <2>3. ReaderInv(r)'
    BY <1>1, <1>2, <1>5, <2>1 DEF ReaderInv, SentUpTo
  <2>4. ASSUME NEW q \in Readers \ {r} PROVE ReaderInv(q)'
    BY <1>1, <1>5, <2>1, OthersKept
  <2>5. QED
    BY <1>3, <2>2, <2>3, <2>4 DEF SessionInv
<1>6. QED
  BY <1>4, <1>5 DEF Session!Deliver, Session!StreamAt, Session!Returns

(* A channel is closed by the one that takes it from the map, finish or unsubscribe. *)
LEMMA UnsubscribeKeeps ==
  ASSUME SessionInv, NEW r \in Readers, Session!Unsubscribe(r)
  PROVE  SessionInv'
<1> DEFINE left == [chan[r] EXCEPT !.open = IF r \in subs THEN FALSE ELSE @]
<1>1. /\ stream[r] = "leave" /\ pump.pc # "send" /\ subs' = subs \ {r}
      /\ chan' = [chan EXCEPT ![r] = left]
      /\ panicked' = (panicked \/ (r \in subs /\ ~chan[r].open))
      /\ stream' = [stream EXCEPT ![r] = "report"]
      /\ UNCHANGED <<pump, pumped, closed, handler, joined, seen, hand>>
  BY DEF Session!Unsubscribe, Session!Locked, Session!StreamAt, Session!ptyVars
<1>2. SessionShape /\ ReaderInv(r)
  BY ReaderIs
<1>3. /\ left \in Channel /\ left.buf = chan[r].buf /\ ~left.open
  <2>1. chan[r] = [buf |-> chan[r].buf, open |-> chan[r].open] /\ chan[r].open \in BOOLEAN
    BY ReaderIs DEF Channel
  <2>2. left = [buf |-> chan[r].buf, open |-> IF r \in subs THEN FALSE ELSE chan[r].open]
    BY ReaderIs, OtherOpen
  <2>3. (IF r \in subs THEN FALSE ELSE chan[r].open) = FALSE
    BY <1>2, <2>1 DEF ReaderInv
  <2>4. QED
    BY <2>2, <2>3, ReaderIs DEF Channel
<1> HIDE DEF left
<1>4. /\ chan' \in [Readers -> Channel] /\ chan'[r] = left
      /\ stream' \in [Readers -> Streams] /\ stream'[r] = "report"
      /\ \A q \in Readers \ {r} : chan'[q] = chan[q] /\ stream'[q] = stream[q]
  BY <1>1, <1>2, <1>3 DEF SessionShape, Streams
<1>5. SessionShape'
  BY <1>1, <1>2, <1>4 DEF Session!Unsubscribe, Session!ptyVars, SessionShape
<1>6. PumpInv'
  BY <1>1, <1>2 DEF SessionInv, PumpInv, ReaderInv
<1>7. ReaderInv(r)'
  BY <1>1, <1>2, <1>3, <1>4 DEF ReaderInv
<1>8. ASSUME NEW q \in Readers \ {r} PROVE ReaderInv(q)'
  <2>1. (q \in subs') = (q \in subs)
    BY <1>1
  <2>2. QED
    BY <1>1, <1>4, <2>1, OthersKept
<1>9. QED
  BY <1>5, <1>6, <1>7, <1>8 DEF SessionInv

LEMMA ReportKeeps ==
  ASSUME SessionInv, NEW r \in Readers, Session!Report(r)
  PROVE  SessionInv'
<1> DEFINE none == [chan[r] EXCEPT !.buf = <<>>]
<1>1. /\ stream[r] = "report" /\ stream' = [stream EXCEPT ![r] = "over"]
      /\ chan' = [chan EXCEPT ![r] = none]
      /\ hand' = [hand EXCEPT ![r] = <<>>] /\ seen' = [seen EXCEPT ![r] = <<>>]
      /\ joined' = [joined EXCEPT ![r] = 0]
      /\ outcome' = [outcome EXCEPT ![r] = "none"]
      /\ UNCHANGED <<pump, pumped, subs, closed, panicked, handler>>
  BY DEF Session!Report, Session!StreamAt, Session!Forget, Session!Returns, Session!ptyVars
<1>2. SessionShape /\ ReaderInv(r) /\ r \notin subs
  BY <1>1, ReaderIs DEF ReaderInv
<1>3. /\ none \in Channel /\ none.buf = <<>> /\ none.open = chan[r].open
  <2>1. chan[r] = [buf |-> chan[r].buf, open |-> chan[r].open] /\ chan[r].open \in BOOLEAN
    BY ReaderIs DEF Channel
  <2>2. none = [buf |-> <<>>, open |-> chan[r].open]
    BY ReaderIs, OtherBuffer
  <2>3. <<>> \in Seq(Chunk)
    OBVIOUS
  <2>4. [buf |-> <<>>, open |-> chan[r].open] \in Channel
    BY <2>1, <2>3 DEF Channel
  <2>5. QED
    BY <2>2, <2>4
<1> HIDE DEF none
<1>4. /\ chan' \in [Readers -> Channel] /\ chan'[r] = none
      /\ stream' \in [Readers -> Streams] /\ stream'[r] = "over"
      /\ hand' \in [Readers -> Seq(Nat)] /\ hand'[r] = <<>>
      /\ seen' \in [Readers -> Seq(Nat)] /\ seen'[r] = <<>>
      /\ joined' \in [Readers -> 0 .. MaxChunks] /\ joined'[r] = 0
      /\ outcome' \in [Readers -> {"none", "ended", "failed", "cancelled"}]
      /\ \A q \in Readers \ {r} : /\ chan'[q] = chan[q] /\ stream'[q] = stream[q]
                                 /\ hand'[q] = hand[q] /\ seen'[q] = seen[q]
                                 /\ joined'[q] = joined[q]
  BY <1>1, <1>2, <1>3, SharedAssumption DEF SessionShape, Streams
<1>5. sock' \in [Readers -> {"open", "normal", "error"}]
  BY <1>2 DEF Session!Report, SessionShape
<1>6. SessionShape'
  BY <1>1, <1>2, <1>4, <1>5 DEF Session!Report, Session!ptyVars, SessionShape
<1>7. PumpInv'
  BY <1>1 DEF SessionInv, PumpInv
<1>8. ReaderInv(r)'
  BY <1>1, <1>2, <1>3, <1>4, FollowsEmpty, SharedAssumption DEF ReaderInv
<1>9. ASSUME NEW q \in Readers \ {r} PROVE ReaderInv(q)'
  BY <1>1, <1>4, OthersKept
<1>10. QED
  BY <1>6, <1>7, <1>8, <1>9 DEF SessionInv
-----------------------------------------------------------------------------
LEMMA SessionStep == SessionInv /\ Session!Next => SessionInv'
<1> SUFFICES ASSUME SessionInv, Session!Next PROVE SessionInv'
  OBVIOUS
<1>1. CASE Session!ShellWrites \/ Session!ShellExits
  BY <1>1, ShellKeeps
<1>2. CASE Session!PumpStep
  BY <1>2, PumpReadsKeeps, BroadcastBeginsKeeps, SendKeeps, PumpEndsKeeps DEF Session!PumpStep
<1>3. CASE Session!MonitorStep \/ Session!ReleaseBegins \/ Session!ReleaseStep
  BY <1>3, ReleaseKeeps, FinishersKeep DEF Session!MonitorStep, Session!ReleaseStep
<1>4. ASSUME NEW r \in Readers, Session!StreamStep(r) PROVE SessionInv'
  BY <1>4, SubscribeKeeps, ReceiveKeeps, StreamLeavesKeeps, DeliverKeeps, UnsubscribeKeeps,
     ReportKeeps DEF Session!StreamStep
<1>5. ASSUME NEW r \in Readers,
             \/ Session!HandlerStep(r) \/ Session!InputWritten(r)
             \/ Session!MessageArrives(r) \/ Session!ClientGoes(r)
      PROVE  SessionInv'
  BY <1>5, HandlerKeeps
<1>6. ASSUME NEW r \in Readers, Session!Attach(r) PROVE SessionInv'
  BY <1>6, AttachKeeps
<1>7. QED
  BY <1>1, <1>2, <1>3, <1>4, <1>5, <1>6 DEF Session!Next

LEMMA SessionStutter == SessionInv /\ UNCHANGED sessionVars => SessionInv'
<1> SUFFICES ASSUME SessionInv, UNCHANGED sessionVars PROVE SessionInv'
  OBVIOUS
<1>1. UNCHANGED <<shell, pty, written, pumped, pump, monitor, release, closed, closeErr, subs,
                  chan, stream, handler, outcome, joined, seen, hand, client, sock, panicked>>
  BY DEF sessionVars
<1>2. SessionShape'
  BY <1>1 DEF SessionInv, SessionShape
<1>3. QED
  BY <1>1, <1>2, QuietKeeps DEF readerVars

LEMMA SessionInvariant == Parts => []SessionInv
<1>1. PartsInit => SessionInv
  BY SessionInit DEF PartsInit
<1>2. SessionInv /\ [PartsNext]_allVars => SessionInv'
  BY SessionStep, SessionStutter DEF PartsNext, allVars
<1>3. QED
  BY <1>1, <1>2, PTL DEF Parts

LEMMA ReceivedFollows ==
  ASSUME SessionInv, NEW r \in Readers
  PROVE  /\ Follows(Session!Received(r), joined[r])
         /\ Len(Session!Received(r)) = Len(seen[r]) + Len(hand[r]) + Len(chan[r].buf)
         /\ DOMAIN Session!Received(r) = 1 .. Len(Session!Received(r))
<1> DEFINE had == seen[r] \o hand[r]
<1>1. /\ had \in Seq(Nat) /\ Len(had) = Len(seen[r]) + Len(hand[r]) /\ Follows(had, joined[r])
  BY ReaderIs, FollowsConcat DEF ReaderInv
<1>2. joined[r] + Len(had) = joined[r] + Len(seen[r]) + Len(hand[r])
  <2>1. joined[r] \in Nat /\ Len(seen[r]) \in Nat /\ Len(hand[r]) \in Nat
    BY ReaderNumbers
  <2>2. joined[r] + (Len(seen[r]) + Len(hand[r])) = joined[r] + Len(seen[r]) + Len(hand[r])
    BY <2>1, SumIs, Zenon
  <2>3. QED
    BY <1>1, <2>2
<1>3. Follows(chan[r].buf, joined[r] + Len(had))
  BY <1>2, ReaderIs DEF ReaderInv
<1> HIDE DEF had
<1>4. /\ had \o chan[r].buf \in Seq(Nat) /\ Follows(had \o chan[r].buf, joined[r])
      /\ Len(had \o chan[r].buf) = Len(had) + Len(chan[r].buf)
  BY <1>1, <1>3, ReaderIs, FollowsConcat
<1>5. had \o chan[r].buf = Session!Received(r)
  BY DEF had, Session!Received
<1>6. DOMAIN (had \o chan[r].buf) = 1 .. Len(had \o chan[r].buf)
  BY <1>4, LenProperties
<1>7. QED
  BY <1>1, <1>4, <1>5, <1>6

(* Nobody sends on a closed channel or closes one twice, and every subscriber, however many
   there are and however slow, gets the output from the moment it joined, in order and
   without a gap, until its channel is closed. *)
THEOREM OutputComesInOrder == Parts => []OutputInOrder
<1>1. ASSUME SessionInv PROVE Session!NoPanic /\ Session!NothingSkipped
  <2>1. Session!NoPanic
    BY <1>1 DEF SessionInv, PumpInv, Session!NoPanic
  <2>2. ASSUME NEW r \in Readers
        PROVE  /\ \A i \in DOMAIN Session!Received(r) : Session!Received(r)[i] = joined[r] + i
               /\ (r \in subs /\ pump.pc = "read") =>
                      Len(Session!Received(r)) = pumped - joined[r]
    <3>1. \A i \in DOMAIN Session!Received(r) : Session!Received(r)[i] = joined[r] + i
      BY <1>1, ReceivedFollows DEF Follows
    <3>2. ASSUME r \in subs, pump.pc = "read"
          PROVE  Len(Session!Received(r)) = pumped - joined[r]
      <4>0. /\ joined[r] \in Nat /\ Len(seen[r]) \in Nat /\ Len(hand[r]) \in Nat
            /\ Len(chan[r].buf) \in Nat /\ pumped \in Nat
        BY <1>1, ReaderNumbers
      <4>1. joined[r] + Len(seen[r]) + Len(hand[r]) + Len(chan[r].buf) = pumped
        BY <1>1, <3>2 DEF SessionInv, ReaderInv, SentUpTo
      <4>2. Len(seen[r]) + Len(hand[r]) + Len(chan[r].buf) = pumped - joined[r]
        <5> DEFINE a == joined[r]  b == Len(seen[r])  c == Len(hand[r])  d == Len(chan[r].buf)
        <5>1. a \in Nat /\ b \in Nat /\ c \in Nat /\ d \in Nat /\ pumped \in Nat
          BY <4>0
        <5>2. a + b + c + d = pumped
          BY <4>1
        <5> HIDE DEF a, b, c, d
        <5>3. b + c + d = pumped - a
          BY <5>1, <5>2
        <5>4. QED
          BY <5>3 DEF a, b, c, d
      <4>3. QED
        BY <1>1, <4>2, ReceivedFollows
    <3>3. QED
      BY <3>1, <3>2
  <2>3. QED
    BY <2>1, <2>2 DEF Session!NothingSkipped
<1>2. SessionInv => OutputInOrder
  BY <1>1 DEF OutputInOrder
<1>3. QED
  BY <1>2, SessionInvariant, PTL
=============================================================================
