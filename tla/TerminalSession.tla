--------------------------- MODULE TerminalSession ---------------------------
(***************************************************************************)
(* One shell of the runner and the connections that watch it: the goroutine *)
(* that pumps the terminal's output, the one that waits for the process,    *)
(* the read loop and the message loop of each WebSocket connection, and the *)
(* close of the session, over the session's mutex and the bounded channel   *)
(* of each subscriber.                                                      *)
(*                                                                         *)
(* The mutex is held across a blocking operation in one place only, by the  *)
(* pump while it sends a chunk to the subscribers; every other critical     *)
(* section is one step that waits until the pump is not there (Locked).     *)
(* doneOnce and waitOnce are the first disjunct of Finish and monitor.      *)
(***************************************************************************)
EXTENDS Naturals, Sequences, FiniteSets

CONSTANTS
    Readers,    (* connections that may attach to the session                *)
    Typists,    (* those whose client types, or resizes its terminal         *)
    Cap,        (* capacity of a subscriber's channel, 32 in the code        *)
    MaxChunks   (* bound on the chunks of output the shell writes            *)

VARIABLES
    shell,      (* the process: "running" or "exited"                        *)
    pty,        (* the terminal's master side is open                        *)
    written,    (* chunks the shell has written to the terminal              *)
    pumped,     (* chunks the pump has read from it                          *)
    pump,       (* the pump: where it is, whom it has still to send to       *)
    monitor,    (* the goroutine that waits for the process                  *)
    release,    (* TerminalSession.close, called once by the manager         *)
    closed,     (* the session's closed flag                                 *)
    closeErr,   (* why it was closed                                         *)
    subs,       (* the subscribers map                                       *)
    chan,       (* each reader's channel: contents, closed or not            *)
    stream,     (* each connection's read loop                               *)
    handler,    (* each connection's message loop                            *)
    outcome,    (* what ReadLoop returned                                    *)
    joined,     (* chunks broadcast before the reader subscribed             *)
    seen,       (* chunks whose frames were written to the client            *)
    hand,       (* the chunk the read loop is writing                        *)
    client,     (* the client's side of the socket: "up" or "gone"           *)
    sock,       (* the runner's side: "open", or the status it closed with   *)
    panicked    (* a send on, or a close of, a closed channel                *)

ptyVars == <<shell, pty, written, pumped>>
sessionVars == <<closed, closeErr, subs, chan>>
connVars == <<stream, handler, outcome, joined, seen, hand, client, sock>>
vars == <<ptyVars, sessionVars, connVars, pump, monitor, release, panicked>>

Chunks == 1 .. MaxChunks
CloseErrors == {"none", "eof", "eio", "released"}

(* What the master side reads once the last holder of the terminal is gone:
   Linux reports EIO, other systems end of file. *)
HangupErrors == {"eof", "eio"}

Init ==
    /\ shell = "running" /\ pty = TRUE /\ written = 0 /\ pumped = 0
    /\ pump = [pc |-> "read", left |-> {}]
    /\ monitor = "wait" /\ release = "idle"
    /\ closed = FALSE /\ closeErr = "none"
    /\ subs = {}
    /\ chan = [r \in Readers |-> [buf |-> <<>>, open |-> FALSE]]
    /\ stream = [r \in Readers |-> "off"]
    /\ handler = [r \in Readers |-> "off"]
    /\ outcome = [r \in Readers |-> "none"]
    /\ joined = [r \in Readers |-> 0]
    /\ seen = [r \in Readers |-> <<>>]
    /\ hand = [r \in Readers |-> <<>>]
    /\ client = [r \in Readers |-> "up"]
    /\ sock = [r \in Readers |-> "open"]
    /\ panicked = FALSE

(* Mutant: WriteInput holds the mutex while it writes to the terminal. *)
LockedByWriters == pump.pc = "send" \/ \E r \in Readers : handler[r] = "write"

(* s.mu is held across steps. *)
Locked == pump.pc = "send"

(* Mutant: the context is cancelled after the stream has been waited for. *)
CancelledLate(r) == handler[r] = "over"

Cancelled(r) == handler[r] \in {"join", "over"}

(* Mutant: finish marks the session closed but leaves the channels open. *)
FinishQuiet(err) ==
    \/ closed /\ UNCHANGED <<sessionVars, panicked>>
    \/ /\ ~closed /\ ~Locked
       /\ closed' = TRUE /\ closeErr' = err /\ subs' = {}
       /\ UNCHANGED <<chan, panicked>>

(* finish: once, under the mutex, close every subscriber's channel. *)
Finish(err) ==
    \/ closed /\ UNCHANGED <<sessionVars, panicked>>
    \/ /\ ~closed /\ ~Locked
       /\ closed' = TRUE /\ closeErr' = err
       /\ subs' = {}
       /\ chan' = [r \in Readers |-> IF r \in subs THEN [chan[r] EXCEPT !.open = FALSE]
                                                   ELSE chan[r]]
       /\ panicked' = (panicked \/ \E r \in subs : ~chan[r].open)
-----------------------------------------------------------------------------
(* The shell *)

ShellWrites ==
    /\ shell = "running" /\ pty /\ written < MaxChunks
    /\ written' = written + 1
    /\ UNCHANGED <<shell, pty, pumped, sessionVars, connVars, pump, monitor, release, panicked>>

ShellExits ==
    /\ shell = "running"
    /\ shell' = "exited"
    /\ UNCHANGED <<pty, written, pumped, sessionVars, connVars, pump, monitor, release, panicked>>
-----------------------------------------------------------------------------
(* pump *)

PumpAt(pc, left) == pump' = [pc |-> pc, left |-> left]

PumpReads ==
    /\ pump.pc = "read" /\ pty /\ pumped < written
    /\ pumped' = pumped + 1
    /\ PumpAt("broadcast", {})
    /\ UNCHANGED <<shell, pty, written, sessionVars, connVars, monitor, release, panicked>>

(* broadcast takes the mutex and, unless the session is closed, starts sending. *)
BroadcastBegins ==
    /\ pump.pc = "broadcast"
    /\ IF closed \/ subs = {} THEN PumpAt("read", {}) ELSE PumpAt("send", subs)
    /\ UNCHANGED <<ptyVars, sessionVars, connVars, monitor, release, panicked>>

SendDone(r) ==
    PumpAt(IF pump.left = {r} THEN "read" ELSE "send", pump.left \ {r})

(* Mutant: a full subscriber is skipped instead of waited for. *)
SendOrSkip(r) ==
    /\ pump.pc = "send" /\ r \in pump.left
    /\ chan' = IF Len(chan[r].buf) < Cap
               THEN [chan EXCEPT ![r].buf = Append(@, pumped)] ELSE chan
    /\ panicked' = (panicked \/ ~chan[r].open)
    /\ SendDone(r)
    /\ UNCHANGED <<ptyVars, closed, closeErr, subs, connVars, monitor, release>>

(* Mutant: a channel without a limit. *)
SendUnlimited(r) ==
    /\ pump.pc = "send" /\ r \in pump.left
    /\ chan' = [chan EXCEPT ![r].buf = Append(@, pumped)]
    /\ panicked' = (panicked \/ ~chan[r].open)
    /\ SendDone(r)
    /\ UNCHANGED <<ptyVars, closed, closeErr, subs, connVars, monitor, release>>

(* subscriber <- chunk: waits while the channel is full, with the mutex held;
   panics on a closed one.  The map is ranged over in any order. *)
Send(r) ==
    /\ pump.pc = "send" /\ r \in pump.left
    /\ ~chan[r].open \/ Len(chan[r].buf) < Cap
    /\ chan' = IF chan[r].open THEN [chan EXCEPT ![r].buf = Append(@, pumped)] ELSE chan
    /\ panicked' = (panicked \/ ~chan[r].open)
    /\ SendDone(r)
    /\ UNCHANGED <<ptyVars, closed, closeErr, subs, connVars, monitor, release>>

(* Read fails: the pty was closed, or nobody holds its other side and all that
   was written has been read. *)
PumpReadFails ==
    /\ pump.pc = "read"
    /\ \/ ~pty /\ Finish("released")
       \/ /\ pty /\ shell = "exited" /\ pumped = written
          /\ \E err \in HangupErrors : Finish(err)
    /\ PumpAt("hangup", {})
    /\ UNCHANGED <<ptyVars, connVars, monitor, release>>

PumpClosesBackend ==
    /\ pump.pc = "hangup"
    /\ pty' = FALSE
    /\ PumpAt("done", {})
    /\ UNCHANGED <<shell, written, pumped, sessionVars, connVars, monitor, release, panicked>>

PumpStep ==
    \/ PumpReads \/ BroadcastBegins \/ PumpReadFails \/ PumpClosesBackend
    \/ \E r \in Readers : Send(r)
-----------------------------------------------------------------------------
(* monitorProcessExit: waitProcess, whose waitOnce everyone else waits for *)

ProcessReaped ==
    /\ monitor = "wait" /\ shell = "exited"
    /\ monitor' = "finish"
    /\ UNCHANGED <<ptyVars, sessionVars, connVars, pump, release, panicked>>

MonitorFinishes ==
    /\ monitor = "finish"
    /\ Finish("eof")
    /\ monitor' = "done"
    /\ UNCHANGED <<ptyVars, connVars, pump, release>>

MonitorStep == ProcessReaped \/ MonitorFinishes
-----------------------------------------------------------------------------
(* close: finish, kill the process group, close the terminal, reap *)

ReleaseBegins ==
    /\ release = "idle"
    /\ release' = "finish"
    /\ UNCHANGED <<ptyVars, sessionVars, connVars, pump, monitor, panicked>>

ReleaseFinishes ==
    /\ release = "finish"
    /\ Finish("released")
    /\ release' = "terminate"
    /\ UNCHANGED <<ptyVars, connVars, pump, monitor>>

(* Mutant: the process group is not killed. *)
ReleaseSpares ==
    /\ release = "terminate" /\ ~Locked
    /\ release' = "hangup"
    /\ UNCHANGED <<ptyVars, sessionVars, connVars, pump, monitor, panicked>>

ReleaseTerminates ==
    /\ release = "terminate" /\ ~Locked
    /\ shell' = "exited"
    /\ release' = "hangup"
    /\ UNCHANGED <<pty, written, pumped, sessionVars, connVars, pump, monitor, panicked>>

ReleaseClosesBackend ==
    /\ release = "hangup" /\ ~Locked
    /\ pty' = FALSE
    /\ release' = "reap"
    /\ UNCHANGED <<shell, written, pumped, sessionVars, connVars, pump, monitor, panicked>>

ReleaseReaps ==
    /\ release = "reap" /\ monitor = "done"
    /\ release' = "done"
    /\ UNCHANGED <<ptyVars, sessionVars, connVars, pump, monitor, panicked>>

ReleaseStep ==
    \/ ReleaseFinishes \/ ReleaseTerminates \/ ReleaseClosesBackend \/ ReleaseReaps
-----------------------------------------------------------------------------
(* TerminalWebSocket: the goroutine that runs ReadLoop *)

StreamAt(r, pc) == stream' = [stream EXCEPT ![r] = pc]
Returns(r, what) == outcome' = [outcome EXCEPT ![r] = what]

(* subscribe; on a closed session ReadLoop returns its error at once. *)
Subscribe(r) ==
    /\ stream[r] = "subscribe" /\ ~Locked
    /\ \/ /\ closed
          /\ StreamAt(r, "report") /\ Returns(r, "failed")
          /\ UNCHANGED <<sessionVars, joined>>
       \/ /\ ~closed
          /\ subs' = subs \cup {r}
          /\ chan' = [chan EXCEPT ![r].open = TRUE]
          /\ joined' = [joined EXCEPT ![r] = IF pump.pc = "broadcast" THEN pumped - 1 ELSE pumped]
          /\ StreamAt(r, "loop")
          /\ UNCHANGED <<closed, closeErr, outcome>>
    /\ UNCHANGED <<ptyVars, pump, monitor, release, panicked, handler, seen, hand, client, sock>>

(* The three ways on from the select. *)
Receive(r) ==
    /\ stream[r] = "loop" /\ chan[r].buf # <<>>
    /\ chan' = [chan EXCEPT ![r].buf = Tail(@)]
    /\ hand' = [hand EXCEPT ![r] = <<Head(chan[r].buf)>>]
    /\ StreamAt(r, "deliver")
    /\ UNCHANGED <<ptyVars, closed, closeErr, subs, pump, monitor, release, panicked,
                   handler, outcome, joined, seen, client, sock>>

ChannelClosed(r) ==
    /\ stream[r] = "loop" /\ chan[r].buf = <<>> /\ ~chan[r].open /\ ~Locked
    /\ Returns(r, IF closeErr = "eio" THEN "failed" ELSE "ended")
    /\ StreamAt(r, "leave")
    /\ UNCHANGED <<ptyVars, sessionVars, pump, monitor, release, panicked,
                   handler, joined, seen, hand, client, sock>>

ContextDone(r) ==
    /\ stream[r] = "loop" /\ Cancelled(r)
    /\ Returns(r, "cancelled")
    /\ StreamAt(r, "leave")
    /\ UNCHANGED <<ptyVars, sessionVars, pump, monitor, release, panicked,
                   handler, joined, seen, hand, client, sock>>

(* onData: the chunk's frames are written, or the write fails. *)
Deliver(r) ==
    /\ stream[r] = "deliver"
    /\ \/ /\ client[r] = "up" /\ sock[r] = "open" /\ ~Cancelled(r)
          /\ seen' = [seen EXCEPT ![r] = @ \o hand[r]]
          /\ hand' = [hand EXCEPT ![r] = <<>>]
          /\ StreamAt(r, "loop")
          /\ UNCHANGED outcome
       \/ /\ client[r] = "gone" \/ sock[r] # "open" \/ Cancelled(r)
          /\ Returns(r, "failed")
          /\ StreamAt(r, "leave")
          /\ UNCHANGED <<seen, hand>>
    /\ UNCHANGED <<ptyVars, sessionVars, pump, monitor, release, panicked,
                   handler, joined, client, sock>>

(* Mutant: unsubscribe does not take the mutex. *)
UnsubscribeUnlocked(r) ==
    /\ stream[r] = "leave"
    /\ subs' = subs \ {r}
    /\ chan' = [chan EXCEPT ![r].open = IF r \in subs THEN FALSE ELSE @]
    /\ StreamAt(r, "report")
    /\ UNCHANGED <<ptyVars, closed, closeErr, pump, monitor, release, panicked,
                   handler, outcome, joined, seen, hand, client, sock>>

(* The deferred unsubscribe: under the mutex; finish may have been there first. *)
Unsubscribe(r) ==
    /\ stream[r] = "leave" /\ ~Locked
    /\ subs' = subs \ {r}
    /\ chan' = [chan EXCEPT ![r].open = IF r \in subs THEN FALSE ELSE @]
    /\ panicked' = (panicked \/ (r \in subs /\ ~chan[r].open))
    /\ StreamAt(r, "report")
    /\ UNCHANGED <<ptyVars, closed, closeErr, pump, monitor, release,
                   handler, outcome, joined, seen, hand, client, sock>>

(* What a connection that is over had received is of no further interest. *)
Forget(r) ==
    /\ chan' = [chan EXCEPT ![r].buf = <<>>]
    /\ hand' = [hand EXCEPT ![r] = <<>>]
    /\ seen' = [seen EXCEPT ![r] = <<>>]
    /\ joined' = [joined EXCEPT ![r] = 0]
    /\ Returns(r, "none")

(* After ReadLoop: wait for the exit code and close normally, or close with an
   error, or, when cancelled, leave the socket to the message loop. *)
Report(r) ==
    /\ stream[r] = "report"
    /\ outcome[r] = "ended" => monitor = "done"
    /\ sock' = [sock EXCEPT ![r] =
                  IF @ # "open" \/ outcome[r] = "cancelled" THEN @
                  ELSE IF outcome[r] = "ended" THEN "normal" ELSE "error"]
    /\ StreamAt(r, "over")
    /\ Forget(r)
    /\ UNCHANGED <<ptyVars, closed, closeErr, subs, pump, monitor, release, panicked,
                   handler, client>>

StreamStep(r) ==
    \/ Subscribe(r) \/ Receive(r) \/ ChannelClosed(r) \/ ContextDone(r)
    \/ Deliver(r) \/ Unsubscribe(r) \/ Report(r)
-----------------------------------------------------------------------------
(* TerminalWebSocket: the goroutine of the request *)

HandlerAt(r, pc) == handler' = [handler EXCEPT ![r] = pc]

(* Acquire finds the session open; the ready frame is written, or fails. *)
Attach(r) ==
    /\ handler[r] = "off" /\ ~Locked /\ ~closed
    /\ \/ client[r] = "up" /\ HandlerAt(r, "read") /\ StreamAt(r, "subscribe")
       \/ client[r] = "gone" /\ HandlerAt(r, "over") /\ UNCHANGED stream
    /\ UNCHANGED <<ptyVars, sessionVars, pump, monitor, release, panicked,
                   outcome, joined, seen, hand, client, sock>>

(* An input or resize message arrives; WriteInput and Resize take the mutex. *)
MessageArrives(r) ==
    /\ r \in Typists
    /\ handler[r] = "read" /\ client[r] = "up" /\ sock[r] = "open"
    /\ HandlerAt(r, "input")
    /\ UNCHANGED <<ptyVars, sessionVars, pump, monitor, release, panicked,
                   stream, outcome, joined, seen, hand, client, sock>>

(* The message loop closes the connection and returns. *)
InputRefused(r) ==
    /\ HandlerAt(r, "join")
    /\ sock' = [sock EXCEPT ![r] = IF @ = "open" THEN "error" ELSE @]

(* The check of WriteInput and Resize.  The write to the terminal comes after the
   mutex has been let go; resizing it takes no time, and fails only on a terminal that
   has been closed, as it does on a session that has. *)
Input(r) ==
    /\ handler[r] = "input" /\ ~Locked
    /\ \/ /\ ~closed /\ \E pc \in {"read", "write"} : HandlerAt(r, pc)
          /\ UNCHANGED sock
       \/ closed /\ InputRefused(r)
    /\ UNCHANGED <<ptyVars, sessionVars, pump, monitor, release, panicked,
                   stream, outcome, joined, seen, hand, client>>

(* The terminal takes what is typed once there is room, which is up to the shell:
   until it reads, the message loop does not read its socket either. *)
InputWritten(r) ==
    /\ handler[r] = "write" /\ pty
    /\ HandlerAt(r, "read")
    /\ UNCHANGED <<ptyVars, sessionVars, pump, monitor, release, panicked,
                   stream, outcome, joined, seen, hand, client, sock>>

(* The write fails: the terminal was closed, or nobody holds its other side. *)
InputFails(r) ==
    /\ handler[r] = "write" /\ (~pty \/ shell = "exited")
    /\ InputRefused(r)
    /\ UNCHANGED <<ptyVars, sessionVars, pump, monitor, release, panicked,
                   stream, outcome, joined, seen, hand, client>>

(* wsjson.Read fails: cancel, then wait for the stream. *)
SocketFails(r) ==
    /\ handler[r] = "read" /\ (client[r] = "gone" \/ sock[r] # "open")
    /\ HandlerAt(r, "join")
    /\ UNCHANGED <<ptyVars, sessionVars, pump, monitor, release, panicked,
                   stream, outcome, joined, seen, hand, client, sock>>

Join(r) ==
    /\ handler[r] = "join" /\ stream[r] = "over"
    /\ HandlerAt(r, "over")
    /\ UNCHANGED <<ptyVars, sessionVars, pump, monitor, release, panicked,
                   stream, outcome, joined, seen, hand, client, sock>>

ClientGoes(r) ==
    /\ client[r] = "up" /\ handler[r] # "over"
    /\ client' = [client EXCEPT ![r] = "gone"]
    /\ UNCHANGED <<ptyVars, sessionVars, pump, monitor, release, panicked,
                   stream, handler, outcome, joined, seen, hand, sock>>

HandlerStep(r) == Input(r) \/ InputFails(r) \/ SocketFails(r) \/ Join(r)
-----------------------------------------------------------------------------
Next ==
    \/ ShellWrites \/ ShellExits \/ PumpStep \/ MonitorStep
    \/ ReleaseBegins \/ ReleaseStep
    \/ \E r \in Readers :
          \/ StreamStep(r) \/ HandlerStep(r) \/ InputWritten(r)
          \/ Attach(r) \/ MessageArrives(r) \/ ClientGoes(r)

Spec == Init /\ [][Next]_vars

(* Goroutines run on.  A connected client reads what it is sent or disconnects,
   so Deliver is fair, and a write to a terminal without a shell fails, so InputFails
   is; nothing makes the shell read (InputWritten), write or exit, a client come, type
   or go, or the manager release the session. *)
FairSpec ==
    /\ Spec
    /\ WF_vars(PumpStep) /\ WF_vars(MonitorStep) /\ WF_vars(ReleaseStep)
    /\ \A r \in Readers : WF_vars(StreamStep(r)) /\ WF_vars(HandlerStep(r))
-----------------------------------------------------------------------------
(* The values each variable takes; a channel never holds more than Cap chunks,
   whatever the pump and the read loops do. *)
TypeOK ==
    /\ shell \in {"running", "exited"} /\ pty \in BOOLEAN
    /\ written \in 0 .. MaxChunks /\ pumped \in 0 .. written
    /\ pump \in [pc : {"read", "broadcast", "send", "hangup", "done"}, left : SUBSET Readers]
    /\ monitor \in {"wait", "finish", "done"}
    /\ release \in {"idle", "finish", "terminate", "hangup", "reap", "done"}
    /\ closed \in BOOLEAN /\ closeErr \in CloseErrors
    /\ subs \subseteq Readers
    /\ \A r \in Readers :
          /\ chan[r].open \in BOOLEAN
          /\ Len(chan[r].buf) <= Cap /\ \A i \in DOMAIN chan[r].buf : chan[r].buf[i] \in Chunks
          /\ stream[r] \in {"off", "subscribe", "loop", "deliver", "leave", "report", "over"}
          /\ handler[r] \in {"off", "read", "input", "write", "join", "over"}
          /\ outcome[r] \in {"none", "ended", "failed", "cancelled"}
          /\ joined[r] \in 0 .. MaxChunks
          /\ client[r] \in {"up", "gone"} /\ sock[r] \in {"open", "normal", "error"}
    /\ panicked \in BOOLEAN

(* No goroutine sends on a closed channel or closes one twice, which would end
   the runner: broadcast, unsubscribe and finish race for the same channels. *)
NoPanic == ~panicked

(* What a subscriber gets is the output from the moment it joined, in order and
   without a gap, however slow it or another subscriber is (broadcast waits). *)
Received(r) == seen[r] \o hand[r] \o chan[r].buf
NothingSkipped ==
    \A r \in Readers :
        /\ \A i \in DOMAIN Received(r) : Received(r)[i] = joined[r] + i
        /\ (r \in subs /\ pump.pc = "read") => Len(Received(r)) = pumped - joined[r]

(* The pump holds the mutex and waits for a reader that waits for the mutex. *)
Jammed ==
    /\ Locked
    /\ \E r \in pump.left : stream[r] = "leave" /\ Len(chan[r].buf) = Cap

(* What is typed waits for a shell that runs and does not read it. *)
Unread(r) == handler[r] = "write" /\ shell = "running" /\ pty

(* A connection whose client has gone is torn down, both of its goroutines ended,
   unless the session jams or the shell never reads what the client typed last. *)
LeavesOrJams ==
    \A r \in Readers :
        \/ <>[]Unread(r)
        \/ (client[r] = "gone" /\ handler[r] # "off") ~> (handler[r] = "over" \/ Jammed)

(* Release ends, with the process reaped, unless the session jams, also while input is
   being written to a shell that does not read. *)
ReleaseEndsOrJams == (release = "finish") ~> (release = "done" \/ Jammed)

(* Once the session is closed, by exit or by release, every connection ends, whatever
   it was waiting for. *)
CloseReachesReaders ==
    closed ~> \A r \in Readers : handler[r] \in {"off", "over"}

(* Not kept by the code (it may jam): release always returns ("Close the PTY and kill
   the process on release", the terminal plan). *)
ReleaseEnds == (release = "finish") ~> (release = "done")

(* Not kept by the code (the pump may close the session first, with EIO): a read loop
   whose shell exited by itself ends without an error, so that the socket is closed
   with a normal status (the runner's terminal tests). *)
ShellExitEndsNormally ==
    \A r \in Readers :
        (stream[r] = "leave" /\ hand[r] = <<>> /\ release = "idle") => outcome[r] # "failed"

(* Not kept by the code (the goroutine that waits for the shell may close the session
   before the pump has read the end): a read loop that ends because the shell exited
   has carried all the shell wrote, the exit frames of its last commands among it. *)
FinalOutputDelivered ==
    \A r \in Readers :
        (outcome[r] = "ended" /\ release = "idle") => Len(seen[r]) = written - joined[r]
=============================================================================
