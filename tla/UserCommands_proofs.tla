------------------------ MODULE UserCommands_proofs -----------------------
(*************************************************************************)
(* Proofs about CommandRun, for any number of calls at the same time and *)
(* whether or not what a command leaves running ends; and about          *)
(* TerminalBridge, for any number of frames.                             *)
(*************************************************************************)
EXTENDS MCUserCommands, TLAPS

Results == {"none", "result", "timeout", "error"}
Event == [of : Commands, type : {"started", "finished"}, launched : BOOLEAN, result : Results]

(* What a call's progress says of its events, and of its process and outcome. *)
Progress(c) ==
    /\ pc[c] \in {"parse", "started"} => EventsOf(c) = {}
    /\ pc[c] \in {"launch", "wait", "post", "finished"} => Started(c)
    /\ pc[c] = "refused" => Refused(c)
    /\ pc[c] = "done" => Paired(c)

Settled(c) ==
    /\ pc[c] \in {"parse", "refused", "started", "launch"} => process[c] = "none"
    /\ pc[c] \in {"post", "finished", "done"} =>
          /\ process[c] # "alive" /\ outcome[c] # "none"
          /\ process[c] = "killed" => outcome[c] = "timeout"

EndOf(e) == e.type = "finished" /\ e.launched =>
                /\ pc[e.of] = "done" /\ e.result = outcome[e.of]

Recorded == \A i \in DOMAIN events : EndOf(events[i])

Shape == TypeOK /\ events \in Seq(Event)

Inv ==
    /\ Shape
    /\ \A c \in Commands : Progress(c) /\ Settled(c)
    /\ Recorded
-----------------------------------------------------------------------------
(* The recorder *)

LEMMA AppendKeeps ==
  ASSUME NEW s \in Seq(Event), NEW e \in Event, NEW t, t = Append(s, e)
  PROVE  /\ t \in Seq(Event)
         /\ DOMAIN s = 1 .. Len(s) /\ DOMAIN t = DOMAIN s \cup {Len(s) + 1}
         /\ Len(s) \in Nat /\ Len(s) + 1 \notin DOMAIN s
         /\ \A i \in DOMAIN s : t[i] = s[i] /\ i < Len(s) + 1
         /\ t[Len(s) + 1] = e
  OBVIOUS

LEMMA EventAt ==
  ASSUME NEW s \in Seq(Event), NEW i \in DOMAIN s PROVE s[i].of \in Commands
<1>1. s[i] \in Event
  OBVIOUS
<1>2. QED
  BY <1>1 DEF Event

(* An event is appended to its own call's events, and touches no other's. *)
LEMMA EventAppended ==
  ASSUME events \in Seq(Event), NEW e \in Event, events' = Append(events, e)
  PROVE  /\ events' \in Seq(Event)
         /\ \E n : /\ EventsOf(e.of)' = EventsOf(e.of) \cup {n} /\ events'[n] = e
                   /\ \A i \in EventsOf(e.of) : i < n
         /\ \A i \in DOMAIN events' : events'[i] = e \/ (i \in DOMAIN events /\ events'[i] = events[i])
         /\ \A i \in DOMAIN events : events'[i] = events[i]
         /\ \A d \in Commands \ {e.of} : EventsOf(d)' = EventsOf(d)
<1> DEFINE n == Len(events) + 1
<1>1. /\ DOMAIN events' = DOMAIN events \cup {n} /\ n \notin DOMAIN events
      /\ \A i \in DOMAIN events : events'[i] = events[i] /\ i < n
      /\ events'[n] = e /\ events' \in Seq(Event)
  BY AppendKeeps
<1> HIDE DEF n
<1>2. EventsOf(e.of)' = EventsOf(e.of) \cup {n} /\ \A i \in EventsOf(e.of) : i < n
  BY <1>1 DEF EventsOf
<1>3. \A d \in Commands \ {e.of} : EventsOf(d)' = EventsOf(d)
  BY <1>1 DEF EventsOf
<1>4. QED
  BY <1>1, <1>2, <1>3

(* What a call's events say stays, if none of them is added. *)
LEMMA StandingsKept ==
  ASSUME NEW c, EventsOf(c)' = EventsOf(c),
         \A i \in EventsOf(c) : events'[i] = events[i]
  PROVE  /\ Started(c) => Started(c)'
         /\ Refused(c) => Refused(c)'
         /\ Paired(c) => Paired(c)'
  BY DEF Started, Refused, Paired

(* The first event of a call, and its second. *)
LEMMA FirstEvent ==
  ASSUME NEW c \in Commands, events \in Seq(Event), NEW e \in Event,
         events' = Append(events, e), e.of = c, EventsOf(c) = {}
  PROVE  /\ e.type = "started" => Started(c)'
         /\ e.type = "finished" => Refused(c)'
<1>1. PICK n : EventsOf(c)' = EventsOf(c) \cup {n} /\ events'[n] = e
  BY EventAppended
<1>2. EventsOf(c)' = {n} /\ events'[n].type = e.type
  BY <1>1
<1>3. QED
  BY <1>2 DEF Started, Refused

LEMMA SecondEvent ==
  ASSUME NEW c \in Commands, events \in Seq(Event), NEW e \in Event,
         events' = Append(events, e), e.of = c, e.type = "finished", Started(c)
  PROVE  Paired(c)'
<1>1. PICK i \in EventsOf(c) : EventsOf(c) = {i} /\ events[i].type = "started"
  BY DEF Started
<1>2. PICK n : EventsOf(c)' = EventsOf(c) \cup {n} /\ events'[n] = e /\ i < n
  BY <1>1, EventAppended
<1>3. events'[i].type = "started"
  BY <1>1, EventAppended DEF EventsOf
<1>4. QED
  BY <1>1, <1>2, <1>3 DEF Paired
-----------------------------------------------------------------------------
(* The calls *)

PCs == {"parse", "refused", "started", "launch", "wait", "post", "finished", "done"}

LEMMA InvInit == Init => Inv
<1> SUFFICES ASSUME Init PROVE Inv
  OBVIOUS
<1>1. Shape
  BY DEF Init, Shape, TypeOK
<1>2. \A c \in Commands : Progress(c) /\ Settled(c)
  <2>1. \A c \in Commands : EventsOf(c) = {}
    <3>1. DOMAIN events = {}
      BY DEF Init
    <3>2. QED
      BY <3>1 DEF EventsOf
  <2>2. QED
    BY <2>1 DEF Init, Progress, Settled
<1>3. Recorded
  BY DEF Init, Recorded
<1>4. QED
  BY <1>1, <1>2, <1>3 DEF Inv

(* A step of one call leaves the others where they are. *)
LEMMA OthersKept ==
  ASSUME Inv, NEW c \in Commands, NEW d \in Commands \ {c},
         pc'[d] = pc[d], process'[d] = process[d], outcome'[d] = outcome[d],
         EventsOf(d)' = EventsOf(d), \A i \in EventsOf(d) : events'[i] = events[i]
  PROVE  Progress(d)' /\ Settled(d)'
<1>1. Progress(d) /\ Settled(d)
  BY DEF Inv
<1>2. Progress(d)'
  BY <1>1, StandingsKept DEF Progress
<1>3. Settled(d)'
  BY <1>1 DEF Settled
<1>4. QED
  BY <1>2, <1>3

(* A step that records nothing and does not touch the outcome of a call that is
   done keeps what was recorded. *)
LEMMA QuietKeepsRecorded ==
  ASSUME Inv, NEW c \in Commands, UNCHANGED events,
         \A d \in Commands \ {c} : pc'[d] = pc[d] /\ outcome'[d] = outcome[d],
         pc[c] # "done" \/ (pc'[c] = "done" /\ outcome'[c] = outcome[c])
  PROVE  Recorded'
<1> SUFFICES ASSUME NEW i \in DOMAIN events PROVE EndOf(events[i])'
  BY DEF Recorded
<1>1. EndOf(events[i])
  BY DEF Inv, Recorded
<1>2. events[i].of \in Commands
  BY EventAt DEF Inv, Shape
<1>3. QED
  BY <1>1, <1>2 DEF EndOf

LEMMA QuietKeeps ==
  ASSUME Inv, NEW c \in Commands, UNCHANGED events,
         \A d \in Commands \ {c} :
            pc'[d] = pc[d] /\ process'[d] = process[d] /\ outcome'[d] = outcome[d],
         pc[c] # "done" \/ (pc'[c] = "done" /\ outcome'[c] = outcome[c]),
         Shape', Progress(c)', Settled(c)'
  PROVE  Inv'
<1>1. \A d \in Commands \ {c} : Progress(d)' /\ Settled(d)'
  BY OthersKept DEF EventsOf
<1>2. Recorded'
  BY QuietKeepsRecorded
<1>3. QED
  BY <1>1, <1>2 DEF Inv

LEMMA RecordKeeps ==
  ASSUME Inv, NEW c \in Commands, NEW e \in Event, e.of = c, events' = Append(events, e),
         \A d \in Commands \ {c} : pc'[d] = pc[d],
         UNCHANGED <<process, outcome>>, pc[c] # "done",
         Shape', Progress(c)', Settled(c)', EndOf(e)'
  PROVE  Inv'
<1>1. events \in Seq(Event)
  BY DEF Inv, Shape
<1>2. /\ \A d \in Commands \ {c} : EventsOf(d)' = EventsOf(d)
      /\ \A i \in DOMAIN events : events'[i] = events[i]
      /\ \A i \in DOMAIN events' : events'[i] = e \/ (i \in DOMAIN events /\ events'[i] = events[i])
  BY <1>1, EventAppended
<1>3. \A d \in Commands \ {c} : Progress(d)' /\ Settled(d)'
  BY <1>2, OthersKept DEF EventsOf
<1>4. Recorded'
  <2> SUFFICES ASSUME NEW i \in DOMAIN events' PROVE EndOf(events[i])'
    BY DEF Recorded
  <2>1. CASE events'[i] = e
    BY <2>1 DEF EndOf
  <2>2. CASE i \in DOMAIN events /\ events'[i] = events[i]
    <3>1. EndOf(events[i])
      BY <2>2 DEF Inv, Recorded
    <3>2. events[i].of \in Commands
      BY <1>1, <2>2, EventAt
    <3>3. QED
      BY <2>2, <3>1, <3>2 DEF EndOf
  <2>3. QED
    BY <1>2, <2>1, <2>2
<1>5. QED
  BY <1>3, <1>4 DEF Inv
-----------------------------------------------------------------------------
(* The steps that record *)

LEMMA PcSet ==
  ASSUME Inv, NEW c \in Commands, NEW from, NEW to, Goes(c, from, to)
  PROVE  /\ pc[c] = from /\ pc'[c] = to
         /\ \A d \in Commands \ {c} : pc'[d] = pc[d]
         /\ to \in PCs => pc' \in [Commands -> PCs]
  BY DEF Goes, Inv, Shape, TypeOK, PCs

LEMMA RefuseKeeps == ASSUME Inv, NEW c \in Commands, Refuse(c) PROVE Inv'
<1> DEFINE e == [of |-> c, type |-> "finished", launched |-> FALSE, result |-> "error"]
<1>1. e \in Event /\ events' = Append(events, e) /\ events \in Seq(Event)
  BY DEF Refuse, Record, Event, Results, Inv, Shape
<1>2. pc[c] = "parse" /\ pc'[c] = "refused" /\ (\A d \in Commands \ {c} : pc'[d] = pc[d])
      /\ pc' \in [Commands -> PCs]
  BY PcSet DEF Refuse, PCs
<1>3. Progress(c) /\ Settled(c)
  BY DEF Inv
<1>4. Progress(c)'
  BY <1>1, <1>2, <1>3, FirstEvent DEF Progress
<1>5. Settled(c)'
  BY <1>2, <1>3 DEF Refuse, Settled
<1>6. Shape'
  <2>1. events' \in Seq(Event)
    BY <1>1
  <2>2. QED
    BY <1>2, <2>1 DEF Refuse, Inv, Shape, TypeOK, PCs
<1>7. EndOf(e)' /\ UNCHANGED <<process, outcome>>
  BY DEF Refuse, EndOf
<1>8. QED
  BY <1>1, <1>2, <1>4, <1>5, <1>6, <1>7, RecordKeeps

LEMMA RecordStartedKeeps == ASSUME Inv, NEW c \in Commands, RecordStarted(c) PROVE Inv'
<1> DEFINE e == [of |-> c, type |-> "started", launched |-> FALSE, result |-> "none"]
<1>1. e \in Event /\ events' = Append(events, e) /\ events \in Seq(Event)
  BY DEF RecordStarted, Record, Event, Results, Inv, Shape
<1>2. pc[c] = "started" /\ pc'[c] = "launch" /\ (\A d \in Commands \ {c} : pc'[d] = pc[d])
      /\ pc' \in [Commands -> PCs]
  BY PcSet DEF RecordStarted, PCs
<1>3. Progress(c) /\ Settled(c)
  BY DEF Inv
<1>4. Progress(c)'
  BY <1>1, <1>2, <1>3, FirstEvent DEF Progress
<1>5. Settled(c)'
  BY <1>2, <1>3 DEF RecordStarted, Settled
<1>6. Shape'
  <2>1. events' \in Seq(Event)
    BY <1>1
  <2>2. QED
    BY <1>2, <2>1 DEF RecordStarted, Inv, Shape, TypeOK, PCs
<1>7. EndOf(e)' /\ UNCHANGED <<process, outcome>>
  BY DEF RecordStarted, EndOf
<1>8. QED
  BY <1>1, <1>2, <1>4, <1>5, <1>6, <1>7, RecordKeeps

LEMMA RecordFinishedKeeps == ASSUME Inv, NEW c \in Commands, RecordFinished(c) PROVE Inv'
<1> DEFINE e == [of |-> c, type |-> "finished", launched |-> TRUE, result |-> outcome[c]]
<1>1. e \in Event /\ events' = Append(events, e) /\ events \in Seq(Event)
  BY DEF RecordFinished, Record, Event, Results, Inv, Shape, TypeOK
<1>2. pc[c] = "finished" /\ pc'[c] = "done" /\ (\A d \in Commands \ {c} : pc'[d] = pc[d])
      /\ pc' \in [Commands -> PCs]
  BY PcSet DEF RecordFinished, PCs
<1>3. Progress(c) /\ Settled(c)
  BY DEF Inv
<1>4. Progress(c)'
  BY <1>1, <1>2, <1>3, SecondEvent DEF Progress
<1>5. Settled(c)'
  BY <1>2, <1>3 DEF RecordFinished, Settled
<1>6. Shape'
  <2>1. events' \in Seq(Event)
    BY <1>1
  <2>2. QED
    BY <1>2, <2>1 DEF RecordFinished, Inv, Shape, TypeOK, PCs
<1>7. EndOf(e)' /\ UNCHANGED <<process, outcome>>
  BY <1>2 DEF RecordFinished, EndOf
<1>8. QED
  BY <1>1, <1>2, <1>4, <1>5, <1>6, <1>7, RecordKeeps
-----------------------------------------------------------------------------
(* The others *)

QuietStep(c) ==
    \/ PreSnapshot(c) \/ Launch(c) \/ LaunchFails(c) \/ StartHelper(c) \/ HelperEnds(c)
    \/ Exit(c) \/ Deadline(c) \/ Collect(c) \/ PostSnapshot(c)

LEMMA QuietStepKeeps == ASSUME Inv, NEW c \in Commands, QuietStep(c) PROVE Inv'
<1>1. TypeOK /\ events \in Seq(Event) /\ UNCHANGED events
  BY DEF Inv, Shape, QuietStep, PreSnapshot, Launch, LaunchFails, StartHelper, HelperEnds, Exit,
         Deadline, Collect, PostSnapshot
<1>2. Progress(c) /\ Settled(c)
  BY DEF Inv
<1>3. /\ EventsOf(c)' = EventsOf(c)
      /\ Started(c) => Started(c)'
      /\ Refused(c) => Refused(c)'
      /\ Paired(c) => Paired(c)'
  BY <1>1, StandingsKept DEF EventsOf
<1>4. CASE PreSnapshot(c)
  <2>1. pc[c] = "parse" /\ pc'[c] = "started" /\ (\A d \in Commands \ {c} : pc'[d] = pc[d])
        /\ pc' \in [Commands -> PCs]
    BY <1>4, PcSet DEF PreSnapshot, PCs
  <2>2. Shape'
    BY <1>1, <1>4, <2>1 DEF PreSnapshot, Shape, TypeOK, PCs
  <2>3. Progress(c)'
    BY <1>2, <1>3, <2>1 DEF Progress
  <2>4. Settled(c)'
    BY <1>2, <1>4, <2>1 DEF PreSnapshot, Settled
  <2>5. QED
    BY <1>1, <1>4, <2>1, <2>2, <2>3, <2>4, QuietKeeps DEF PreSnapshot
<1>5. CASE Launch(c)
  BY <1>1, <1>2, <1>3, <1>5, QuietKeeps DEF Launch, Goes, Shape, TypeOK, Progress, Settled
<1>6. CASE LaunchFails(c)
  BY <1>1, <1>2, <1>3, <1>6, QuietKeeps DEF LaunchFails, Goes, Shape, TypeOK, Progress, Settled
<1>7. CASE StartHelper(c)
  BY <1>1, <1>2, <1>3, <1>7, QuietKeeps DEF StartHelper, Shape, TypeOK, Progress, Settled
<1>8. CASE HelperEnds(c)
  <2>1. helper' \in [Commands -> BOOLEAN]
    BY <1>1, <1>8 DEF HelperEnds, TypeOK
  <2>2. Shape'
    BY <1>1, <1>8, <2>1 DEF HelperEnds, Shape, TypeOK
  <2>3. Progress(c)' /\ Settled(c)'
    <3>1. UNCHANGED <<pc, process, outcome>>
      BY <1>8 DEF HelperEnds
    <3>2. Progress(c)'
      BY <1>2, <1>3, <3>1 DEF Progress
    <3>3. Settled(c)'
      BY <1>2, <3>1 DEF Settled
    <3>4. QED
      BY <3>2, <3>3
  <2>4. QED
    BY <1>1, <1>8, <2>2, <2>3, QuietKeeps DEF HelperEnds
<1>9. CASE Exit(c)
  BY <1>1, <1>2, <1>3, <1>9, QuietKeeps DEF Exit, Shape, TypeOK, Progress, Settled
<1>10. CASE Deadline(c)
  BY <1>1, <1>2, <1>3, <1>10, QuietKeeps DEF Deadline, Shape, TypeOK, Progress, Settled
<1>11. CASE Collect(c)
  BY <1>1, <1>2, <1>3, <1>11, QuietKeeps DEF Collect, Goes, Shape, TypeOK, Progress, Settled
<1>12. CASE PostSnapshot(c)
  <2>1. snapshotError' \in [Commands -> BOOLEAN]
    BY <1>1, <1>12 DEF PostSnapshot, TypeOK
  <2>2. Shape'
    BY <1>1, <1>12, <2>1 DEF PostSnapshot, Goes, Shape, TypeOK
  <2>3. QED
    BY <1>1, <1>2, <1>3, <1>12, <2>2, QuietKeeps DEF PostSnapshot, Goes, TypeOK, Progress, Settled
<1>13. QED
  BY <1>4, <1>5, <1>6, <1>7, <1>8, <1>9, <1>10, <1>11, <1>12 DEF QuietStep

LEMMA InvStep == Inv /\ [Next]_vars => Inv'
<1> SUFFICES ASSUME Inv, [Next]_vars PROVE Inv'
  OBVIOUS
<1>1. CASE Next
  BY <1>1, RefuseKeeps, RecordStartedKeeps, RecordFinishedKeeps, QuietStepKeeps DEF Next, QuietStep
<1>2. CASE UNCHANGED vars
  BY <1>2, SMTT(30) DEF vars, Inv, Shape, TypeOK, Progress, Settled, Recorded, EndOf, EventsOf, Started,
              Refused, Paired
<1>3. QED
  BY <1>1, <1>2

LEMMA InvAlways == Spec => []Inv
  BY InvInit, InvStep, PTL DEF Spec
-----------------------------------------------------------------------------
(* The variables keep their types; no process is killed before its deadline
   (exec.CommandContext in runCommand). *)
THEOREM TypeCorrect == Spec => []TypeOK
<1>1. Inv => TypeOK
  BY DEF Inv, Shape
<1>2. QED
  BY <1>1, InvAlways, PTL

(* However many calls share the recorder, each records a start, or none, and then
   one end, in that order (RunCommandWithEvents, recordCommandFinished). *)
THEOREM Pairing == Spec => []EventsPaired
<1>1. Inv => EventsPaired
  BY DEF Inv, Shape, TypeOK, Progress, EventsPaired
<1>2. QED
  BY <1>1, InvAlways, PTL

(* The end that is recorded of a launched command has the outcome of that very
   call; a process that was killed is told as a time-out (runCommand). *)
THEOREM Outcomes == Spec => []OutcomeRecorded
<1>1. ASSUME Inv PROVE OutcomeRecorded
  <2> SUFFICES ASSUME NEW i \in DOMAIN events, events[i].type = "finished", events[i].launched
               PROVE  /\ events[i].result = outcome[events[i].of] /\ events[i].result # "none"
                      /\ process[events[i].of] = "killed" => events[i].result = "timeout"
    BY DEF OutcomeRecorded
  <2>1. events[i].of \in Commands
    BY <1>1, EventAt DEF Inv, Shape
  <2>2. pc[events[i].of] = "done" /\ events[i].result = outcome[events[i].of]
    BY <1>1 DEF Inv, Recorded, EndOf
  <2>3. QED
    BY <1>1, <2>1, <2>2 DEF Inv, Settled
<1>2. QED
  BY <1>1, InvAlways, PTL
-----------------------------------------------------------------------------
(* TerminalBridge *)
BridgeSides == {Browser, Runner}
Goroutine == [pc : {"off", "read", "write", "report", "done"}, err : Bridge!Errors \cup {"none"}]
Statuses == {"none", "normal", "passed on", "internal error"}

BridgeShape ==
    /\ peer \in [BridgeSides -> {"open", "closed", "dropped"}]
    /\ conn \in [BridgeSides -> {"none", "live", "dead"}]
    /\ sent \in [BridgeSides -> 0 .. MaxFrames]
    /\ read \in [BridgeSides -> Nat] /\ got \in [BridgeSides -> Nat]
    /\ proxy \in [BridgeSides -> Goroutine]
    /\ bridgeErr \in Seq(Bridge!Errors) /\ Len(bridgeErr) <= 2
    /\ bridgeHandler \in {"accept", "wait", "closeRunner", "closeBrowser", "cancel", "done"}
    /\ bridgeResult \in Bridge!Errors \cup {"none"}
    /\ told \in [BridgeSides -> Statuses]
    /\ cancelled \in BOOLEAN

(* What is in the hand of the goroutine that reads from a side. *)
InHand(c) == IF proxy[c].pc = "write" THEN 1 ELSE 0

(* The frames read from a side are those it has sent, those written to the other at most
   those read, and all of them but the one in hand while the other is there and no write
   has failed. *)
Flow(c) ==
    LET o == Bridge!Other(c) IN
    /\ read[c] <= sent[c] /\ got[o] + InHand(c) <= read[c]
    /\ peer[o] = "open" /\ (proxy[c].pc \in {"off", "read", "write"} \/ proxy[c].err = "closed") =>
           got[o] + InHand(c) = read[c]

(* Who reports a close had read everything, and has closed its connection. *)
Reported(c) ==
    /\ proxy[c].err = "none" <=> proxy[c].pc \in {"off", "read", "write"}
    /\ bridgeHandler = "accept" => proxy[c].pc = "off"
    /\ proxy[c].err = "closed" => peer[c] = "closed" /\ read[c] = sent[c] /\ conn[c] = "dead"

CloseRead == \E c \in BridgeSides : proxy[c].err = "closed"

(* A close that is being passed on was reported, by the goroutine that reads from the
   other side. *)
Origin ==
    /\ \A i \in 1 .. Len(bridgeErr) : bridgeErr[i] = "closed" => CloseRead
    /\ bridgeResult = "closed" => CloseRead
    /\ \A c \in BridgeSides :
          told[c] = "passed on" => peer[c] = "open" /\ proxy[Bridge!Other(c)].err = "closed"

BridgeInv ==
    /\ BridgeShape /\ Origin
    /\ \A c \in BridgeSides : Flow(c) /\ Reported(c)
-----------------------------------------------------------------------------
(* There are two sides. *)
LEMMA TwoSides ==
  ASSUME NEW c \in BridgeSides
  PROVE  /\ Bridge!Other(c) \in BridgeSides /\ Bridge!Other(c) # c
         /\ Bridge!Other(Bridge!Other(c)) = c
         /\ \A d \in BridgeSides : d = c \/ d = Bridge!Other(c)
  BY BridgeAssumption DEF BridgeSides, Bridge!Other

(* A goroutine moves on. *)
LEMMA ProxyMoves ==
  ASSUME BridgeShape, NEW c \in BridgeSides, NEW to \in {"read", "write", "done"},
         proxy' = [proxy EXCEPT ![c].pc = to]
  PROVE  /\ proxy' \in [BridgeSides -> Goroutine]
         /\ proxy'[c].pc = to /\ proxy'[c].err = proxy[c].err
         /\ \A d \in BridgeSides \ {c} : proxy'[d] = proxy[d]
<1>1. proxy \in [BridgeSides -> Goroutine]
  BY DEF BridgeShape
<1>2. proxy[c] \in Goroutine /\ proxy' = [proxy EXCEPT ![c] = [proxy[c] EXCEPT !.pc = to]]
  BY <1>1
<1>3. /\ [proxy[c] EXCEPT !.pc = to] \in Goroutine
      /\ [proxy[c] EXCEPT !.pc = to].pc = to /\ [proxy[c] EXCEPT !.pc = to].err = proxy[c].err
  BY <1>2 DEF Goroutine
<1>4. QED
  BY <1>1, <1>2, <1>3

(* What the errors rest on, while the goroutines keep theirs. *)
LEMMA CloseReadKept ==
  ASSUME \A c \in BridgeSides : proxy[c].err = "closed" => proxy'[c].err = "closed"
  PROVE  CloseRead => CloseRead'
  BY DEF CloseRead

LEMMA OriginKept ==
  ASSUME Origin, UNCHANGED <<bridgeErr, bridgeResult, told>>,
         \A c \in BridgeSides : peer[c] = "open" /\ told[c] # "none" => peer'[c] = "open",
         \A c \in BridgeSides : proxy[c].err = "closed" => proxy'[c].err = "closed"
  PROVE  Origin'
<1>1. CloseRead => CloseRead'
  BY CloseReadKept
<1>2. QED
  BY <1>1, TwoSides DEF Origin

LEMMA BridgeInit == Bridge!Init => BridgeInv
<1> SUFFICES ASSUME Bridge!Init PROVE BridgeInv
  OBVIOUS
<1>1. /\ sent = [c \in BridgeSides |-> 0] /\ read = sent /\ got = sent
      /\ peer = [c \in BridgeSides |-> "open"]
      /\ proxy = [c \in BridgeSides |-> [pc |-> "off", err |-> "none"]]
      /\ conn = [c \in BridgeSides |-> IF c = Runner THEN "live" ELSE "none"]
      /\ bridgeErr = <<>> /\ bridgeHandler = "accept" /\ bridgeResult = "none"
      /\ told = [c \in BridgeSides |-> "none"] /\ cancelled = FALSE
  BY DEF Bridge!Init, Bridge!Sides, BridgeSides
<1>2. BridgeShape
  <2>1. bridgeErr \in Seq(Bridge!Errors) /\ Len(bridgeErr) <= 2
    BY <1>1
  <2>2. /\ sent \in [BridgeSides -> 0 .. MaxFrames]
        /\ read \in [BridgeSides -> Nat] /\ got \in [BridgeSides -> Nat]
    BY <1>1, BridgeAssumption
  <2>3. proxy \in [BridgeSides -> Goroutine]
    BY <1>1 DEF Goroutine
  <2>4. QED
    BY <1>1, <2>1, <2>2, <2>3 DEF BridgeShape, Statuses
<1>3. Origin
  BY <1>1 DEF Origin
<1>4. ASSUME NEW c \in BridgeSides PROVE Flow(c) /\ Reported(c)
  BY <1>1, TwoSides DEF Flow, Reported, InHand
<1>5. QED
  BY <1>2, <1>3, <1>4 DEF BridgeInv
-----------------------------------------------------------------------------
(* The far ends *)

LEMMA PeerSendsKeeps ==
  ASSUME BridgeInv, NEW c \in BridgeSides, Bridge!PeerSends(c)
  PROVE  BridgeInv'
<1>1. /\ peer[c] = "open" /\ sent[c] < MaxFrames /\ sent' = [sent EXCEPT ![c] = @ + 1]
      /\ UNCHANGED <<peer, got, conn, read, proxy, bridgeErr, bridgeHandler, bridgeResult,
                     told, cancelled>>
  BY DEF Bridge!PeerSends
<1>2. BridgeShape' /\ BridgeShape
  BY <1>1, BridgeAssumption DEF BridgeInv, BridgeShape
<1>3. Origin'
  BY <1>1, OriginKept DEF BridgeInv
<1>4. ASSUME NEW d \in BridgeSides PROVE Flow(d)' /\ Reported(d)'
  BY <1>1, <1>2, TwoSides DEF BridgeInv, BridgeShape, Flow, InHand, Reported
<1>5. QED
  BY <1>2, <1>3, <1>4 DEF BridgeInv

LEMMA PeerLeavesKeeps ==
  ASSUME BridgeInv, NEW c \in BridgeSides, Bridge!PeerLeaves(c)
  PROVE  BridgeInv'
<1>1. PICK how \in {"closed", "dropped"} :
        /\ peer[c] = "open" /\ told[c] = "none" /\ peer' = [peer EXCEPT ![c] = how]
        /\ UNCHANGED <<sent, got, conn, read, proxy, bridgeErr, bridgeHandler, bridgeResult,
                       told, cancelled>>
  BY DEF Bridge!PeerLeaves
<1>2. BridgeShape' /\ BridgeShape
  BY <1>1 DEF BridgeInv, BridgeShape
<1>3. Origin'
  BY <1>1, <1>2, OriginKept DEF BridgeInv, BridgeShape
<1>4. ASSUME NEW d \in BridgeSides PROVE Flow(d)' /\ Reported(d)'
  BY <1>1, <1>2, TwoSides DEF BridgeInv, BridgeShape, Flow, InHand, Reported
<1>5. QED
  BY <1>2, <1>3, <1>4 DEF BridgeInv
-----------------------------------------------------------------------------
(* The goroutines *)

LEMMA ReadFrameKeeps ==
  ASSUME BridgeInv, NEW c \in BridgeSides, Bridge!ReadFrame(c)
  PROVE  BridgeInv'
<1>1. /\ proxy[c].pc = "read" /\ read[c] < sent[c] /\ read' = [read EXCEPT ![c] = @ + 1]
      /\ proxy' = [proxy EXCEPT ![c].pc = "write"]
      /\ UNCHANGED <<peer, sent, got, conn, bridgeErr, bridgeHandler, bridgeResult,
                     told, cancelled>>
  BY DEF Bridge!ReadFrame, Bridge!At, Bridge!wireVars
<1>2. BridgeShape' /\ BridgeShape
  <2>1. BridgeShape
    BY DEF BridgeInv
  <2>2. proxy' \in [BridgeSides -> Goroutine]
    BY <1>1, <2>1, ProxyMoves
  <2>3. read' \in [BridgeSides -> Nat]
    BY <1>1, <2>1 DEF BridgeShape
  <2>4. QED
    BY <1>1, <2>1, <2>2, <2>3 DEF BridgeShape
<1>3. /\ proxy'[c].pc = "write" /\ proxy'[c].err = proxy[c].err /\ proxy[c].err = "none"
      /\ \A d \in BridgeSides \ {c} : proxy'[d] = proxy[d]
  BY <1>1, <1>2, ProxyMoves DEF BridgeInv, Reported
<1>4. Origin'
  BY <1>1, <1>3, OriginKept DEF BridgeInv
<1>5. ASSUME NEW d \in BridgeSides PROVE Flow(d)' /\ Reported(d)'
  BY <1>1, <1>2, <1>3, TwoSides DEF BridgeInv, BridgeShape, Flow, InHand, Reported
<1>6. QED
  BY <1>2, <1>4, <1>5 DEF BridgeInv

LEMMA WriteFrameKeeps ==
  ASSUME BridgeInv, NEW c \in BridgeSides, Bridge!WriteFrame(c)
  PROVE  BridgeInv'
<1> DEFINE o == Bridge!Other(c)
<1>1. /\ proxy[c].pc = "write"
      /\ got' = [got EXCEPT ![o] = IF peer[o] = "open" THEN @ + 1 ELSE @]
      /\ proxy' = [proxy EXCEPT ![c].pc = "read"]
      /\ UNCHANGED <<peer, sent, read, conn, bridgeErr, bridgeHandler, bridgeResult,
                     told, cancelled>>
  BY DEF Bridge!WriteFrame, Bridge!At
<1>2. BridgeShape' /\ BridgeShape
  <2>1. BridgeShape /\ o \in BridgeSides
    BY TwoSides DEF BridgeInv
  <2>2. proxy' \in [BridgeSides -> Goroutine]
    BY <1>1, <2>1, ProxyMoves
  <2>3. got' \in [BridgeSides -> Nat]
    BY <1>1, <2>1 DEF BridgeShape
  <2>4. QED
    BY <1>1, <2>1, <2>2, <2>3 DEF BridgeShape
<1>3. /\ proxy'[c].pc = "read" /\ proxy'[c].err = proxy[c].err /\ proxy[c].err = "none"
      /\ \A d \in BridgeSides \ {c} : proxy'[d] = proxy[d]
  BY <1>1, <1>2, ProxyMoves DEF BridgeInv, Reported
<1>4. Origin'
  BY <1>1, <1>3, OriginKept DEF BridgeInv
<1>5. ASSUME NEW d \in BridgeSides PROVE Flow(d)' /\ Reported(d)'
  BY <1>1, <1>2, <1>3, TwoSides DEF BridgeInv, BridgeShape, Flow, InHand, Reported
<1>6. QED
  BY <1>2, <1>4, <1>5 DEF BridgeInv

(* A goroutine fails with an error; only a close that was read is told as one. *)
LEMMA FailureKeeps ==
  ASSUME BridgeInv, NEW c \in BridgeSides, NEW b \in BridgeSides, NEW err \in Bridge!Errors,
         proxy[c].pc \in {"read", "write"}, Bridge!Fails(c, err), Bridge!Dies(b),
         UNCHANGED <<peer, sent, got, read, bridgeErr, bridgeHandler, bridgeResult,
                     told, cancelled>>,
         err = "closed" => /\ proxy[c].pc = "read" /\ b = c
                           /\ peer[c] = "closed" /\ read[c] = sent[c]
  PROVE  BridgeInv'
<1>1. /\ proxy' = [proxy EXCEPT ![c] = [pc |-> "report", err |-> err]]
      /\ conn' = [conn EXCEPT ![b] = "dead"]
  BY DEF Bridge!Fails, Bridge!Dies
<1>2. BridgeShape' /\ BridgeShape
  <2>1. BridgeShape /\ [pc |-> "report", err |-> err] \in Goroutine
    BY DEF BridgeInv, Goroutine
  <2>2. proxy' \in [BridgeSides -> Goroutine] /\ conn' \in [BridgeSides -> {"none", "live", "dead"}]
    BY <1>1, <2>1 DEF BridgeShape
  <2>3. QED
    BY <2>1, <2>2 DEF BridgeShape
<1>3. /\ proxy'[c].pc = "report" /\ proxy'[c].err = err /\ err # "none" /\ proxy[c].err = "none"
      /\ \A d \in BridgeSides \ {c} : proxy'[d] = proxy[d]
      /\ conn'[b] = "dead" /\ \A d \in BridgeSides \ {b} : conn'[d] = conn[d]
  BY <1>1, <1>2 DEF BridgeInv, BridgeShape, Reported, Bridge!Errors
<1>4. Origin'
  BY <1>3, OriginKept DEF BridgeInv
<1>5. ASSUME NEW d \in BridgeSides PROVE Flow(d)' /\ Reported(d)'
  <2>1. CASE d = c
    <3>1. Flow(c)'
      BY <1>2, <1>3, TwoSides, SMTT(30) DEF BridgeInv, BridgeShape, Flow, InHand
    <3>2. Reported(c)'
      BY <1>2, <1>3 DEF BridgeInv, BridgeShape, Reported
    <3>3. QED
      BY <2>1, <3>1, <3>2
  <2>2. CASE d # c
    <3>1. proxy'[d] = proxy[d] /\ (conn'[d] = conn[d] \/ conn'[d] = "dead")
      BY <1>3, <2>2
    <3>2. QED
      BY <3>1 DEF BridgeInv, Flow, InHand, Reported
  <2>3. QED
    BY <2>1, <2>2
<1>6. QED
  BY <1>2, <1>4, <1>5 DEF BridgeInv

LEMMA ReadFailsKeeps ==
  ASSUME BridgeInv, NEW c \in BridgeSides, Bridge!ReadFails(c)
  PROVE  BridgeInv'
<1>1. /\ proxy[c].pc = "read" /\ Bridge!Dies(c)
      /\ UNCHANGED <<peer, sent, got, read, bridgeErr, bridgeHandler, bridgeResult,
                     told, cancelled>>
  BY DEF Bridge!ReadFails, Bridge!wireVars
<1>2. PICK err \in Bridge!Errors :
        /\ Bridge!Fails(c, err)
        /\ err = "closed" => peer[c] = "closed" /\ read[c] = sent[c]
  BY DEF Bridge!ReadFails, Bridge!Errors
<1>3. QED
  BY <1>1, <1>2, FailureKeeps

LEMMA WriteFailsKeeps ==
  ASSUME BridgeInv, NEW c \in BridgeSides, Bridge!WriteFails(c)
  PROVE  BridgeInv'
<1>1. /\ proxy[c].pc = "write" /\ Bridge!Dies(Bridge!Other(c))
      /\ UNCHANGED <<peer, sent, got, read, bridgeErr, bridgeHandler, bridgeResult,
                     told, cancelled>>
  BY DEF Bridge!WriteFails, Bridge!wireVars
<1>2. PICK err \in Bridge!Errors : Bridge!Fails(c, err) /\ err # "closed"
  BY DEF Bridge!WriteFails, Bridge!Errors
<1>3. QED
  BY <1>1, <1>2, TwoSides, FailureKeeps

LEMMA ReportKeeps ==
  ASSUME BridgeInv, NEW c \in BridgeSides, Bridge!Report(c)
  PROVE  BridgeInv'
<1>1. /\ proxy[c].pc = "report" /\ Len(bridgeErr) < 2
      /\ bridgeErr' = Append(bridgeErr, proxy[c].err)
      /\ proxy' = [proxy EXCEPT ![c].pc = "done"]
      /\ UNCHANGED <<peer, sent, got, read, conn, bridgeHandler, bridgeResult, told, cancelled>>
  BY DEF Bridge!Report, Bridge!At, Bridge!wireVars
<1>2. BridgeShape /\ proxy[c].err \in Bridge!Errors
  <2>1. BridgeShape /\ proxy[c] \in Goroutine
    BY DEF BridgeInv, BridgeShape
  <2>2. proxy[c].err # "none"
    BY <1>1 DEF BridgeInv, Reported
  <2>3. QED
    BY <2>1, <2>2 DEF Goroutine
<1>3. BridgeShape'
  <2>1. bridgeErr' \in Seq(Bridge!Errors) /\ Len(bridgeErr') <= 2
    BY <1>1, <1>2 DEF BridgeShape
  <2>2. QED
    BY <1>1, <1>2, <2>1, ProxyMoves DEF BridgeShape
<1>4. /\ proxy'[c].pc = "done" /\ proxy'[c].err = proxy[c].err
      /\ \A d \in BridgeSides \ {c} : proxy'[d] = proxy[d]
  BY <1>1, <1>2, ProxyMoves
<1>5. Origin'
  <2>1. ASSUME NEW i \in 1 .. Len(bridgeErr')
        PROVE  bridgeErr'[i] = proxy[c].err \/ \E j \in 1 .. Len(bridgeErr) : bridgeErr'[i] = bridgeErr[j]
    BY <1>1, <1>2 DEF BridgeShape
  <2>2. CloseRead => CloseRead'
    BY <1>4, CloseReadKept
  <2>3. proxy[c].err = "closed" => CloseRead
    BY DEF CloseRead
  <2>4. ASSUME NEW i \in 1 .. Len(bridgeErr'), bridgeErr'[i] = "closed" PROVE CloseRead'
    BY <2>1, <2>2, <2>3, <2>4 DEF BridgeInv, Origin
  <2>5. QED
    BY <1>1, <1>4, <2>2, <2>4, TwoSides DEF BridgeInv, Origin
<1>6. ASSUME NEW d \in BridgeSides PROVE Flow(d)' /\ Reported(d)'
  BY <1>1, <1>2, <1>3, <1>4, TwoSides DEF BridgeInv, BridgeShape, Flow, InHand, Reported
<1>7. QED
  BY <1>3, <1>5, <1>6 DEF BridgeInv
-----------------------------------------------------------------------------
(* The request's goroutine *)

LEMMA AcceptKeeps ==
  ASSUME BridgeInv, Bridge!Accept
  PROVE  BridgeInv'
<1>1. /\ bridgeHandler = "accept" /\ bridgeHandler' # "accept"
      /\ UNCHANGED <<peer, sent, got, read, bridgeErr, bridgeResult, cancelled>>
  BY DEF Bridge!Accept, Bridge!wireVars
<1>2. BridgeShape /\ \A d \in BridgeSides : proxy[d].pc = "off" /\ proxy[d].err = "none"
  BY <1>1 DEF BridgeInv, BridgeShape, Reported
<1>3. CASE /\ conn' = [conn EXCEPT ![Browser] = "live"]
           /\ proxy' = [d \in BridgeSides |-> [pc |-> "read", err |-> "none"]]
           /\ bridgeHandler' = "wait" /\ UNCHANGED told
  <2>1. BridgeShape'
    <3>1. [pc |-> "read", err |-> "none"] \in Goroutine
      BY DEF Goroutine
    <3>2. proxy' \in [BridgeSides -> Goroutine] /\ conn' \in [BridgeSides -> {"none", "live", "dead"}]
      BY <1>2, <1>3, <3>1 DEF BridgeShape
    <3>3. QED
      BY <1>1, <1>2, <1>3, <3>2 DEF BridgeShape
  <2>2. \A d \in BridgeSides : proxy'[d].pc = "read" /\ proxy'[d].err = "none"
    BY <1>3
  <2>3. Origin'
    BY <1>1, <1>2, <1>3, TwoSides, OriginKept DEF BridgeInv, Origin
  <2>4. ASSUME NEW d \in BridgeSides PROVE Flow(d)' /\ Reported(d)'
    BY <1>1, <1>2, <2>1, <2>2, TwoSides DEF BridgeInv, BridgeShape, Flow, InHand, Reported
  <2>5. QED
    BY <2>1, <2>3, <2>4 DEF BridgeInv
<1>4. CASE /\ conn' = [d \in BridgeSides |-> "dead"]
           /\ told' = [told EXCEPT ![Runner] = IF peer[Runner] = "open" THEN "normal" ELSE @]
           /\ bridgeHandler' = "done" /\ UNCHANGED proxy
  <2>1. BridgeShape'
    BY <1>1, <1>2, <1>4 DEF BridgeShape, Statuses
  <2>2. Origin'
    <3>1. CloseRead' = CloseRead
      BY <1>4 DEF CloseRead
    <3>2. ASSUME NEW d \in BridgeSides, told'[d] = "passed on" PROVE told[d] = "passed on"
      BY <1>2, <1>4, <3>2 DEF BridgeShape
    <3>3. QED
      BY <1>1, <1>4, <3>1, <3>2 DEF BridgeInv, Origin
  <2>3. ASSUME NEW d \in BridgeSides PROVE Flow(d)' /\ Reported(d)'
    BY <1>1, <1>2, <1>4, TwoSides DEF BridgeInv, Flow, InHand, Reported
  <2>4. QED
    BY <2>1, <2>2, <2>3 DEF BridgeInv
<1>5. QED
  BY <1>3, <1>4 DEF Bridge!Accept, Bridge!Sides, BridgeSides

LEMMA FirstErrorKeeps ==
  ASSUME BridgeInv, Bridge!FirstError
  PROVE  BridgeInv'
<1>1. /\ bridgeErr # <<>> /\ bridgeResult' = Head(bridgeErr) /\ bridgeErr' = Tail(bridgeErr)
      /\ bridgeHandler' = "closeRunner"
      /\ UNCHANGED <<peer, sent, got, read, conn, proxy, told, cancelled>>
  BY DEF Bridge!FirstError, Bridge!wireVars
<1>2. BridgeShape
  BY DEF BridgeInv
<1>3. BridgeShape'
  BY <1>1, <1>2 DEF BridgeShape
<1>4. Origin'
  <2>1. Len(bridgeErr) \in Nat \ {0} /\ bridgeResult' = bridgeErr[1] /\ 1 \in 1 .. Len(bridgeErr)
    BY <1>1, <1>2 DEF BridgeShape
  <2>2. ASSUME NEW i \in 1 .. Len(bridgeErr')
        PROVE  \E j \in 1 .. Len(bridgeErr) : bridgeErr'[i] = bridgeErr[j]
    BY <1>1, <1>2 DEF BridgeShape
  <2>3. CloseRead' = CloseRead
    BY <1>1 DEF CloseRead
  <2>4. ASSUME NEW i \in 1 .. Len(bridgeErr'), bridgeErr'[i] = "closed" PROVE CloseRead
    BY <2>2, <2>4 DEF BridgeInv, Origin
  <2>5. bridgeResult' = "closed" => CloseRead
    BY <2>1 DEF BridgeInv, Origin
  <2>6. QED
    BY <1>1, <2>3, <2>4, <2>5 DEF BridgeInv, Origin
<1>5. ASSUME NEW d \in BridgeSides PROVE Flow(d)' /\ Reported(d)'
  BY <1>1 DEF BridgeInv, Flow, InHand, Reported
<1>6. QED
  BY <1>3, <1>4, <1>5 DEF BridgeInv

(* The close that is passed on goes to the side it was not read from: that one's
   connection is dead. *)
LEMMA CloseKeeps ==
  ASSUME BridgeInv, NEW c \in BridgeSides, Bridge!Close(c),
         bridgeHandler' \in {"closeBrowser", "cancel"},
         UNCHANGED <<peer, sent, got, read, proxy, bridgeErr, bridgeResult, cancelled>>
  PROVE  BridgeInv'
<1>1. /\ conn' = [conn EXCEPT ![c] = "dead"]
      /\ told' = [told EXCEPT ![c] = IF conn[c] = "live" /\ peer[c] = "open"
                                     THEN Bridge!CloseStatus(bridgeResult) ELSE @]
  BY DEF Bridge!Close, Bridge!Dies
<1>2. /\ BridgeShape /\ Bridge!CloseStatus(bridgeResult) \in Statuses
      /\ Bridge!CloseStatus(bridgeResult) = "passed on" => bridgeResult = "closed"
  BY DEF BridgeInv, Bridge!CloseStatus, Statuses
<1>3. BridgeShape'
  BY <1>1, <1>2 DEF BridgeShape
<1>4. /\ conn'[c] = "dead" /\ \A d \in BridgeSides \ {c} : conn'[d] = conn[d] /\ told'[d] = told[d]
  BY <1>1, <1>2 DEF BridgeShape
<1>5. ASSUME told'[c] = "passed on" PROVE peer[c] = "open" /\ proxy[Bridge!Other(c)].err = "closed"
  <2>1. CASE ~(conn[c] = "live" /\ peer[c] = "open")
    BY <1>1, <1>2, <1>5, <2>1 DEF BridgeShape, BridgeInv, Origin
  <2>2. CASE conn[c] = "live" /\ peer[c] = "open"
    <3>1. bridgeResult = "closed"
      BY <1>1, <1>2, <1>5, <2>2 DEF BridgeShape
    <3>2. PICK d \in BridgeSides : proxy[d].err = "closed"
      BY <3>1 DEF BridgeInv, Origin, CloseRead
    <3>3. d # c
      BY <2>2, <3>2 DEF BridgeInv, Reported
    <3>4. QED
      BY <2>2, <3>2, <3>3, TwoSides
  <2>3. QED
    BY <2>1, <2>2
<1>6. Origin'
  <2>1. CloseRead' = CloseRead
    BY DEF CloseRead
  <2>2. QED
    BY <1>4, <1>5, <2>1 DEF BridgeInv, Origin
<1>7. ASSUME NEW d \in BridgeSides PROVE Flow(d)' /\ Reported(d)'
  BY <1>4 DEF BridgeInv, Flow, InHand, Reported
<1>8. QED
  BY <1>3, <1>6, <1>7 DEF BridgeInv

LEMMA CancelKeeps ==
  ASSUME BridgeInv, Bridge!Cancel
  PROVE  BridgeInv'
<1>1. /\ cancelled' = TRUE /\ bridgeHandler' = "done"
      /\ UNCHANGED <<peer, sent, got, read, conn, proxy, bridgeErr, bridgeResult, told>>
  BY DEF Bridge!Cancel, Bridge!wireVars
<1>2. QED
  BY <1>1 DEF BridgeInv, BridgeShape, Origin, CloseRead, Flow, InHand, Reported
-----------------------------------------------------------------------------
LEMMA BridgeStep == BridgeInv /\ Bridge!Next => BridgeInv'
<1> SUFFICES ASSUME BridgeInv, Bridge!Next PROVE BridgeInv'
  OBVIOUS
<1>1. CASE Bridge!Accept
  BY <1>1, AcceptKeeps
<1>2. CASE Bridge!FirstError
  BY <1>2, FirstErrorKeeps
<1>3. CASE Bridge!CloseRunner
  BY <1>3, CloseKeeps DEF Bridge!CloseRunner, Bridge!wireVars, BridgeSides
<1>4. CASE Bridge!CloseBrowser
  BY <1>4, CloseKeeps DEF Bridge!CloseBrowser, Bridge!wireVars, BridgeSides
<1>5. CASE Bridge!Cancel
  BY <1>5, CancelKeeps
<1>6. ASSUME NEW c \in BridgeSides, Bridge!ProxyStep(c) PROVE BridgeInv'
  BY <1>6, ReadFrameKeeps, ReadFailsKeeps, WriteFrameKeeps, WriteFailsKeeps, ReportKeeps
  DEF Bridge!ProxyStep
<1>7. ASSUME NEW c \in BridgeSides, Bridge!PeerSends(c) \/ Bridge!PeerLeaves(c) PROVE BridgeInv'
  BY <1>7, PeerSendsKeeps, PeerLeavesKeeps
<1>8. QED
  BY <1>1, <1>2, <1>3, <1>4, <1>5, <1>6, <1>7
  DEF Bridge!Next, Bridge!HandlerStep, Bridge!Sides, BridgeSides

LEMMA BridgeStutter == BridgeInv /\ UNCHANGED bridgeVars => BridgeInv'
<1> SUFFICES ASSUME BridgeInv, UNCHANGED bridgeVars PROVE BridgeInv'
  OBVIOUS
<1>1. UNCHANGED <<peer, conn, sent, got, read, proxy, bridgeErr, bridgeHandler, bridgeResult,
                  told, cancelled>>
  BY DEF bridgeVars
<1>2. BridgeShape'
  BY <1>1 DEF BridgeInv, BridgeShape
<1>3. Origin'
  BY <1>1, OriginKept DEF BridgeInv
<1>4. ASSUME NEW d \in BridgeSides PROVE Flow(d)' /\ Reported(d)'
  BY <1>1 DEF BridgeInv, Flow, InHand, Reported
<1>5. QED
  BY <1>2, <1>3, <1>4 DEF BridgeInv

LEMMA BridgeInvariant == FairStages => []BridgeInv
<1>1. StagesInit => BridgeInv
  BY BridgeInit DEF StagesInit
<1>2. BridgeInv /\ [StagesNext]_allVars => BridgeInv'
  BY BridgeStep, BridgeStutter
  DEF StagesNext, RunMoves, SessionMoves, TrackerMoves, BridgeMoves, LineMoves, allVars
<1>3. QED
  BY <1>1, <1>2, PTL DEF FairStages

(* A close that the bridge passes on comes last: the side that gets it has received
   every frame the other had sent before it closed. *)
THEOREM PassedOnComesLast == FairStages => []PassedOnIsComplete
<1>1. ASSUME BridgeInv, NEW c \in BridgeSides,
             peer[c] = "open", proxy[Bridge!Other(c)].err = "closed"
      PROVE  peer[Bridge!Other(c)] = "closed" /\ got[c] = sent[Bridge!Other(c)]
  <2>1. PICK d \in BridgeSides : d = Bridge!Other(c) /\ Bridge!Other(d) = c
    BY TwoSides
  <2>2. peer[d] = "closed" /\ read[d] = sent[d] /\ proxy[d].pc # "write"
    BY <1>1, <2>1 DEF BridgeInv, Reported
  <2>3. got[c] + InHand(d) = read[d]
    BY <1>1, <2>1 DEF BridgeInv, Flow
  <2>4. InHand(d) = 0 /\ got[c] \in Nat
    BY <1>1, <2>2 DEF InHand, BridgeInv, BridgeShape
  <2>5. got[c] = read[d]
    BY <2>3, <2>4
  <2>6. QED
    BY <2>1, <2>2, <2>5
<1>2. BridgeInv => PassedOnIsComplete
  BY <1>1 DEF BridgeInv, Origin, PassedOnIsComplete, Bridge!PassedOnIsComplete,
              Bridge!Sides, BridgeSides
<1>3. QED
  BY <1>2, BridgeInvariant, PTL
=============================================================================
