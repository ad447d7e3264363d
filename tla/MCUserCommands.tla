---------------------------- MODULE MCUserCommands ----------------------------
(* What becomes of what a user types, stage by stage, in finite instances for TLC:
   the command API (CommandLine, CommandRun), the session of a shell (TerminalSession),
   its output on the way to the runner's socket (CompletionTracker), and the API's
   bridge to the browser (TerminalBridge).

   The stages share no variable, so a behaviour of all of them is one of each, with
   stutters: it is enough to let one move and keep the others where they start. *)
EXTENDS CommandRun

CONSTANTS
    c1, c2, k1, d1, d2,
    Readers, Typists, Cap, MaxChunks,           (* TerminalSession    *)
    G, E, T, C, X, A, N, Data, ExitLine, MaxSegments, MaxInputs,
                                                (* CompletionTracker  *)
    Browser, Runner, MaxFrames,                 (* TerminalBridge     *)
    Dq, Sq, Bs, Sp, Ch, MaxRaw, MaxArg, MaxArgs (* CommandLine        *)

ASSUME BridgeAssumption == Browser # Runner /\ MaxFrames \in Nat
ASSUME SessionAssumption == Cap \in Nat \ {0} /\ MaxChunks \in Nat
ASSUME RuneAssumption ==
    /\ Dq \notin {Sq, Bs, Sp, Ch, "none"} /\ Sq \notin {Bs, Sp, Ch, "none"}
    /\ Bs \notin {Sp, Ch} /\ Sp # Ch
ASSUME LineAssumption == MaxRaw \in Nat /\ MaxArg \in Nat /\ MaxArgs \in Nat
ASSUME TokenAssumption ==
    /\ G \notin {E, T, C, X, A, N} /\ E \notin {T, C, X, A, N} /\ T \notin {C, X, A, N}
    /\ C \notin {X, A, N} /\ X \notin {A, N} /\ A # N
    /\ Data \cap {G, E, T, C, X, A, N, ExitLine} = {} /\ {d1, d2} \subseteq Data

ASSUME OutputAssumption == MaxSegments \in Nat /\ MaxInputs \in Nat

VARIABLES
    stage,   (* the stage that moves *)
    shell, pty, written, pumped, pump, monitor, release, closed, closeErr, subs, chan,
    stream, handler, readOutcome, joined, seen, hand, client, sock, panicked,
    whole, rest, pending, shown, done, clean, noted, line, inputs, ended,
    peer, conn, sent, got, read, proxy, bridgeErr, bridgeHandler, bridgeResult, told, cancelled,
    raw, style, args, pos, parts, current, inQuote, tokenStarted, result

(* Complete, malformed and coloured marker lines, text with and without an end. *)
Pieces ==
    { <<G, E, C, d1, N>>, <<G, E, C, d2, N>>, <<A, G, E, C, d1, N>>, <<G, E, C, N>>,
      <<G, E, C, X, N>>, <<G, T, N>>, <<X, N>>, <<X>>, <<G>> }

Session == INSTANCE TerminalSession WITH outcome <- readOutcome
Tracker == INSTANCE CompletionTracker WITH Segments <- Pieces
Bridge == INSTANCE TerminalBridge WITH handler <- bridgeHandler, result <- bridgeResult
Line == INSTANCE CommandLine

(* Instances with nothing to read, for the stages that do not move. *)
Silence == INSTANCE CompletionTracker
             WITH Segments <- Pieces, MaxSegments <- 0
NoLine == INSTANCE CommandLine WITH MaxRaw <- 0, MaxArgs <- 0

sessionVars == <<shell, pty, written, pumped, pump, monitor, release, closed, closeErr, subs,
                 chan, stream, handler, readOutcome, joined, seen, hand, client, sock, panicked>>
trackerVars == <<whole, rest, pending, shown, done, clean, noted, line, inputs, ended>>
bridgeVars == <<peer, conn, sent, got, read, proxy, bridgeErr, bridgeHandler, bridgeResult,
                told, cancelled>>
lineVars == <<raw, style, args, pos, parts, current, inQuote, tokenStarted, result>>
allVars == <<stage, vars, sessionVars, trackerVars, bridgeVars, lineVars>>

StagesInit ==
    /\ stage \in {"line", "run", "session", "tracker", "bridge"}
    /\ Init /\ Session!Init /\ Bridge!Init
    /\ IF stage = "tracker" THEN Tracker!Init ELSE Silence!Init
    /\ IF stage = "line" THEN Line!Init ELSE NoLine!Init

RunMoves(Step) ==
    stage = "run" /\ Step /\ UNCHANGED <<stage, sessionVars, trackerVars, bridgeVars, lineVars>>
SessionMoves(Step) ==
    stage = "session" /\ Step /\ UNCHANGED <<stage, vars, trackerVars, bridgeVars, lineVars>>
TrackerMoves(Step) ==
    stage = "tracker" /\ Step /\ UNCHANGED <<stage, vars, sessionVars, bridgeVars, lineVars>>
BridgeMoves(Step) ==
    stage = "bridge" /\ Step /\ UNCHANGED <<stage, vars, sessionVars, trackerVars, lineVars>>
LineMoves(Step) ==
    stage = "line" /\ Step /\ UNCHANGED <<stage, vars, sessionVars, trackerVars, bridgeVars>>

StagesNext ==
    \/ RunMoves(Next) \/ SessionMoves(Session!Next) \/ TrackerMoves(Tracker!Next)
    \/ BridgeMoves(Bridge!Next) \/ LineMoves(Line!Next)

(* The fairness of each stage, as its module states it. *)
FairStages ==
    /\ StagesInit /\ [][StagesNext]_allVars
    /\ \A c \in Commands :
        /\ WF_allVars(RunMoves(Refuse(c) \/ PreSnapshot(c))) /\ WF_allVars(RunMoves(RecordStarted(c)))
        /\ WF_allVars(RunMoves(Launch(c) \/ LaunchFails(c)))
        /\ WF_allVars(RunMoves(Deadline(c))) /\ WF_allVars(RunMoves(HelperEnds(c)))
        /\ WF_allVars(RunMoves(Collect(c)))
        /\ WF_allVars(RunMoves(PostSnapshot(c))) /\ WF_allVars(RunMoves(RecordFinished(c)))
    /\ WF_allVars(SessionMoves(Session!PumpStep)) /\ WF_allVars(SessionMoves(Session!MonitorStep))
    /\ WF_allVars(SessionMoves(Session!ReleaseStep))
    /\ \A r \in Readers :
        /\ WF_allVars(SessionMoves(Session!StreamStep(r)))
        /\ WF_allVars(SessionMoves(Session!HandlerStep(r)))
    /\ WF_allVars(BridgeMoves(Bridge!HandlerStep))
    /\ \A c \in {Browser, Runner} : WF_allVars(BridgeMoves(Bridge!ProxyStep(c)))
-----------------------------------------------------------------------------
(* The values each stage's variables take. *)
TypesOK == TypeOK /\ Session!TypeOK /\ Tracker!TypeOK /\ Bridge!TypeOK /\ Line!TypeOK

(* A connection whose client has gone is torn down, a release ends with the process
   reaped, and a closed session takes every connection down, unless the session jams or,
   for the first, its shell never reads what was typed (TerminalSession). *)
SessionEnds ==
    stage = "session" =>
        Session!LeavesOrJams /\ Session!ReleaseEndsOrJams /\ Session!CloseReachesReaders

(* However the output is cut, text is shown once and in order and each command is
   completed once; and only a cut inside a marker line, or one that leaves a marker as
   the rest of a line, can change what is shown and completed (CompletionTracker). *)
OutputKept == Tracker!NothingLost /\ Tracker!OtherCutsAreHarmless

(* A close that is passed on comes after everything sent before it (TerminalBridge). *)
PassedOnIsComplete == Bridge!PassedOnIsComplete

(* Once either side of the bridge is gone, both connections and both goroutines end
   (TerminalBridge). *)
BridgeEnds == stage = "bridge" => Bridge!BridgeEnds

(* Arguments are read as they were written, in pieces or with escapes (but for an
   escaped quote before a blank), and whatever is typed, each ordinary rune ends up in
   one argument, in order (CommandLine). *)
ParsedAsWritten == Line!PiecesRead /\ Line!EscapesRead /\ Line!OrdinaryRunesKept

(* A call returns, also past its deadline, if its helpers end (CommandRun). *)
CommandsReturn == stage = "run" => CallsReturn
===============================================================================
