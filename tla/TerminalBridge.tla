---------------------------- MODULE TerminalBridge ----------------------------
(***************************************************************************)
(* The API between a browser and the runner's terminal: two goroutines     *)
(* that copy frames in opposite directions, and the handler that waits for *)
(* the first of them to fail and closes both connections.                  *)
(*                                                                         *)
(* The WebSocket library is external: a connection is live until one side  *)
(* has closed it or a frame could not be written; then reads and writes of *)
(* it fail.  Frames are counted, since each direction is in order.         *)
(***************************************************************************)
EXTENDS Naturals, Sequences

CONSTANTS
    Browser, Runner,
    MaxFrames    (* bound on the frames each side sends                      *)

Sides == {Browser, Runner}
Other(c) == IF c = Browser THEN Runner ELSE Browser

VARIABLES
    peer,      (* the far end: "open", "closed" with a status, or "dropped"    *)
    conn,      (* the API's end: "none" yet, "live" or "dead"                  *)
    sent,      (* frames a far end has sent                                    *)
    got,       (* frames a far end has received                                *)
    read,      (* frames read from a connection                                *)
    proxy,     (* the goroutine that reads from a connection                   *)
    bridgeErr, (* the channel both report to                                   *)
    handler,   (* the request's goroutine                                      *)
    result,    (* the error it closes with                                     *)
    told,      (* the close status each far end was sent                       *)
    cancelled  (* bridgeCtx                                                    *)

wireVars == <<peer, sent, got>>
vars == <<peer, conn, sent, got, read, proxy, bridgeErr, handler, result, told, cancelled>>

(* What a read or a write may return: the far end's close, a cancelled context,
   anything else. *)
Errors == {"closed", "cancelled", "broken"}

(* ConnectTerminal has succeeded. *)
Init ==
    /\ peer = [c \in Sides |-> "open"]
    /\ conn = [c \in Sides |-> IF c = Runner THEN "live" ELSE "none"]
    /\ sent = [c \in Sides |-> 0] /\ got = sent /\ read = sent
    /\ proxy = [c \in Sides |-> [pc |-> "off", err |-> "none"]]
    /\ bridgeErr = <<>>
    /\ handler = "accept" /\ result = "none"
    /\ told = [c \in Sides |-> "none"]
    /\ cancelled = FALSE
-----------------------------------------------------------------------------
(* The far ends *)

PeerSends(c) ==
    /\ peer[c] = "open" /\ told[c] = "none" /\ conn[c] # "none" /\ sent[c] < MaxFrames
    /\ sent' = [sent EXCEPT ![c] = @ + 1]
    /\ UNCHANGED <<peer, got, conn, read, proxy, bridgeErr, handler, result, told, cancelled>>

PeerLeaves(c) ==
    /\ peer[c] = "open" /\ told[c] = "none"
    /\ \E how \in {"closed", "dropped"} : peer' = [peer EXCEPT ![c] = how]
    /\ UNCHANGED <<sent, got, conn, read, proxy, bridgeErr, handler, result, told, cancelled>>
-----------------------------------------------------------------------------
(* proxyTerminalFrames, from c to Other(c) *)

At(c, pc) == proxy' = [proxy EXCEPT ![c].pc = pc]
Fails(c, err) == proxy' = [proxy EXCEPT ![c] = [pc |-> "report", err |-> err]]
Dies(c) == conn' = [conn EXCEPT ![c] = "dead"]

ReadFrame(c) ==
    /\ proxy[c].pc = "read" /\ conn[c] = "live" /\ ~cancelled
    /\ read[c] < sent[c]
    /\ read' = [read EXCEPT ![c] = @ + 1]
    /\ At(c, "write")
    /\ UNCHANGED <<wireVars, conn, bridgeErr, handler, result, told, cancelled>>

ReadFails(c) ==
    /\ proxy[c].pc = "read"
    /\ \/ (conn[c] = "dead" \/ peer[c] = "dropped") /\ Fails(c, "broken")
       \/ cancelled /\ Fails(c, "cancelled")
       \/ conn[c] = "live" /\ peer[c] = "closed" /\ read[c] = sent[c] /\ Fails(c, "closed")
    /\ Dies(c)
    /\ UNCHANGED <<wireVars, read, bridgeErr, handler, result, told, cancelled>>

(* Mutant: the frame is written once more before the next is read. *)
WriteFrameTwice(c) ==
    /\ proxy[c].pc = "write" /\ conn[Other(c)] = "live" /\ ~cancelled
    /\ got' = [got EXCEPT ![Other(c)] = IF peer[Other(c)] = "open" THEN @ + 2 ELSE @]
    /\ At(c, "read")
    /\ UNCHANGED <<peer, sent, conn, read, bridgeErr, handler, result, told, cancelled>>

(* A write may succeed although the far end is no longer there to receive it. *)
WriteFrame(c) ==
    /\ proxy[c].pc = "write" /\ conn[Other(c)] = "live" /\ ~cancelled
    /\ got' = [got EXCEPT ![Other(c)] = IF peer[Other(c)] = "open" THEN @ + 1 ELSE @]
    /\ At(c, "read")
    /\ UNCHANGED <<peer, sent, conn, read, bridgeErr, handler, result, told, cancelled>>

WriteFails(c) ==
    /\ proxy[c].pc = "write"
    /\ \/ (conn[Other(c)] = "dead" \/ peer[Other(c)] # "open") /\ Fails(c, "broken")
       \/ cancelled /\ Fails(c, "cancelled")
    /\ Dies(Other(c))
    /\ UNCHANGED <<wireVars, read, bridgeErr, handler, result, told, cancelled>>

(* Mutant: the channel has room for the first error only. *)
ReportUnbuffered(c) ==
    /\ proxy[c].pc = "report" /\ bridgeErr = <<>> /\ handler = "wait"
    /\ bridgeErr' = Append(bridgeErr, proxy[c].err)
    /\ At(c, "done")
    /\ UNCHANGED <<wireVars, conn, read, handler, result, told, cancelled>>

(* The channel has room for both. *)
Report(c) ==
    /\ proxy[c].pc = "report" /\ Len(bridgeErr) < 2
    /\ bridgeErr' = Append(bridgeErr, proxy[c].err)
    /\ At(c, "done")
    /\ UNCHANGED <<wireVars, conn, read, handler, result, told, cancelled>>

ProxyStep(c) == ReadFrame(c) \/ ReadFails(c) \/ WriteFrame(c) \/ WriteFails(c) \/ Report(c)
-----------------------------------------------------------------------------
(* PracticeTerminalWebsocket *)

Accept ==
    /\ handler = "accept"
    /\ \/ /\ conn' = [conn EXCEPT ![Browser] = "live"]
          /\ proxy' = [c \in Sides |-> [pc |-> "read", err |-> "none"]]
          /\ handler' = "wait"
          /\ UNCHANGED told
       \/ /\ conn' = [c \in Sides |-> "dead"]
          /\ told' = [told EXCEPT ![Runner] = IF peer[Runner] = "open" THEN "normal" ELSE @]
          /\ handler' = "done"
          /\ UNCHANGED proxy
    /\ UNCHANGED <<wireVars, read, bridgeErr, result, cancelled>>

FirstError ==
    /\ handler = "wait" /\ bridgeErr # <<>>
    /\ result' = Head(bridgeErr)
    /\ bridgeErr' = Tail(bridgeErr)
    /\ handler' = "closeRunner"
    /\ UNCHANGED <<wireVars, conn, read, proxy, told, cancelled>>

(* Mutant: the status of a far end's close is assumed whatever the error was. *)
StatusOfClose(err) == "passed on"

(* terminalCloseFromError: the status of the far end's close, or an internal error. *)
CloseStatus(err) ==
    IF err = "closed" THEN "passed on" ELSE IF err = "cancelled" THEN "normal" ELSE "internal error"

Close(c) ==
    /\ Dies(c)
    /\ told' = [told EXCEPT ![c] =
                   IF conn[c] = "live" /\ peer[c] = "open" THEN CloseStatus(result) ELSE @]

CloseRunner ==
    /\ handler = "closeRunner"
    /\ Close(Runner)
    /\ handler' = "closeBrowser"
    /\ UNCHANGED <<wireVars, read, proxy, bridgeErr, result, cancelled>>

CloseBrowser ==
    /\ handler = "closeBrowser"
    /\ Close(Browser)
    /\ handler' = "cancel"
    /\ UNCHANGED <<wireVars, read, proxy, bridgeErr, result, cancelled>>

Cancel ==
    /\ handler = "cancel"
    /\ cancelled' = TRUE
    /\ handler' = "done"
    /\ UNCHANGED <<wireVars, conn, read, proxy, bridgeErr, result, told>>

HandlerStep == Accept \/ FirstError \/ CloseRunner \/ CloseBrowser \/ Cancel
-----------------------------------------------------------------------------
Next ==
    \/ HandlerStep
    \/ \E c \in Sides : ProxyStep(c) \/ PeerSends(c) \/ PeerLeaves(c)

Spec == Init /\ [][Next]_vars

(* A far end that is connected reads what it is sent, or is found to be gone. *)
FairSpec == Spec /\ WF_vars(HandlerStep) /\ \A c \in Sides : WF_vars(ProxyStep(c))
-----------------------------------------------------------------------------
(* The values each variable takes. *)
TypeOK ==
    /\ peer \in [Sides -> {"open", "closed", "dropped"}]
    /\ conn \in [Sides -> {"none", "live", "dead"}]
    /\ \A c \in Sides : /\ sent[c] \in 0 .. MaxFrames
                        /\ read[c] \in 0 .. sent[c] /\ got[c] \in 0 .. read[Other(c)]
    /\ proxy \in [Sides -> [pc : {"off", "read", "write", "report", "done"},
                            err : Errors \cup {"none"}]]
    /\ bridgeErr \in Seq(Errors) /\ Len(bridgeErr) <= 2
    /\ handler \in {"accept", "wait", "closeRunner", "closeBrowser", "cancel", "done"}
    /\ result \in Errors \cup {"none"}
    /\ told \in [Sides -> {"none", "normal", "passed on", "internal error"}]
    /\ cancelled \in BOOLEAN

(* A close that is passed on comes last: the side that gets it has received every
   frame the other had sent before closing. *)
PassedOnIsComplete ==
    \A c \in Sides : told[c] = "passed on" =>
        /\ peer[Other(c)] = "closed"
        /\ got[c] = sent[Other(c)]

(* Once either side is gone, or the browser's upgrade has failed, the bridge ends:
   both connections closed and neither goroutine left, the second to fail too. *)
Ended ==
    /\ handler = "done"
    /\ \A c \in Sides : conn[c] = "dead" /\ proxy[c].pc \in {"off", "done"}
BridgeEnds == (\E c \in Sides : peer[c] # "open") ~> Ended

(* Not kept by the code (the other direction may fail first): the status the runner closed
   with reaches a browser that is still there (the API's test that the bridge preserves it). *)
RunnerCloseStatusPreserved ==
    (handler = "done" /\ peer[Runner] = "closed" /\ told[Browser] # "none") =>
        told[Browser] = "passed on"
=============================================================================
