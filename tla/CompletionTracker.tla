-------------------------- MODULE CompletionTracker --------------------------
(***************************************************************************)
(* What one terminal connection makes of the shell's output.  The shell    *)
(* prints a marker line after each command; the output arrives in chunks   *)
(* cut anywhere; the tracker takes whole marker lines out, shows the rest, *)
(* and holds text back only while it may be the start of a marker.  When   *)
(* the shell exits, a submitted exit command is reported in its name.      *)
(*                                                                         *)
(* Output is a sequence of tokens: the two markers are G E and G T, with   *)
(* their common beginning G; C is an exit code between its colons; a       *)
(* member of Data is an encoded command that decodes, X any other text, A  *)
(* an ANSI sequence and N the end of a line.                               *)
(***************************************************************************)
EXTENDS Naturals, Sequences, SequencesExt, Filtering

CONSTANTS
    G, E, T, C, X, A, N,
    Data,         (* encoded commands                                        *)
    ExitLine,     (* the exit command, in completions                        *)
    Segments,     (* pieces the output is made of                            *)
    MaxSegments,  (* bound on the pieces of one output                       *)
    MaxInputs     (* bound on the client's messages                          *)

VARIABLES
    whole,    (* all the shell prints                                        *)
    rest,     (* what has not been read of it                                *)
    pending,  (* pendingOutput                                               *)
    shown,    (* the data of the output frames, joined                       *)
    done,     (* the commands of the exit frames                             *)
    clean,    (* no chunk so far ended where it changes the result           *)
    noted,    (* shellExitSubmissionTracker: an exit command is pending      *)
    line,     (* the shell's input line, as far as it was typed              *)
    inputs,   (* messages received                                           *)
    ended     (* the shell has exited and its exit was reported              *)

outputVars == <<rest, pending, shown, done, clean>>
inputVars == <<noted, line, inputs>>
vars == <<whole, outputVars, inputVars, ended>>

Outputs == {FlattenSeq(p) : p \in UNION {[1 .. n -> Segments] : n \in 0 .. MaxSegments}}

Init ==
    /\ whole \in Outputs
    /\ rest = whole
    /\ pending = <<>> /\ shown = <<>> /\ done = <<>>
    /\ clean = TRUE
    /\ noted = FALSE /\ line = "empty" /\ inputs = 0
    /\ ended = FALSE
-----------------------------------------------------------------------------
(* drainLocked *)
Tokens == {G, E, T, C, X, A, N} \cup Data

Normalize(l) == Only(l, Tokens \ {N, A})

IsMetadata(l) ==
    /\ Len(Normalize(l)) = 4
    /\ SubSeq(Normalize(l), 1, 3) = <<G, E, C>>
    /\ Normalize(l)[4] \in Data

IsContinuation(l) == Normalize(l) = <<G, T>>
Hidden(l) == IsMetadata(l) \/ IsContinuation(l)

(* Mutant: only a marker that is complete so far is worth waiting for. *)
CouldBeWholeMarker(text) == text = <<G, E>>

(* Mutant: text without a line end always waits for it. *)
CouldBeAnything(text) == text # <<>>

CouldBeMarkerFragment(text) == text # <<>> /\ IsPrefix(text, <<G, E>>)

TakeLine(before, l) ==
    [out |-> IF Hidden(l) THEN before.out ELSE before.out \o l,
     commands |-> IF IsMetadata(l) THEN Append(before.commands, Normalize(l)[4])
                  ELSE before.commands,
     begun |-> <<>>]

(* The loop over the lines of the text, and the line that is begun at its end. *)
Lines(text) ==
    LET lines[n \in 0 .. Len(text)] ==
            IF n = 0 THEN [out |-> <<>>, commands |-> <<>>, begun |-> <<>>]
            ELSE LET before == lines[n - 1]
                     l == Append(before.begun, text[n])
                 IN IF text[n] = N THEN TakeLine(before, l)
                    ELSE [out |-> before.out, commands |-> before.commands, begun |-> l]
    IN lines[Len(text)]

(* Mutant: what was shown is not taken out of the pending text. *)
DrainTwice(text, flushAll) ==
    LET lines == Lines(text)
        held == ~flushAll /\ CouldBeMarkerFragment(lines.begun)
    IN [out |-> lines.out \o (IF held THEN <<>> ELSE lines.begun),
        commands |-> lines.commands,
        pending |-> IF flushAll THEN <<>> ELSE lines.begun]

Drain(text, flushAll) ==
    LET lines == Lines(text)
        held == ~flushAll /\ CouldBeMarkerFragment(lines.begun)
    IN [out |-> lines.out \o (IF held THEN <<>> ELSE lines.begun),
        commands |-> lines.commands,
        pending |-> IF held THEN lines.begun ELSE <<>>]
-----------------------------------------------------------------------------
(* Whether a chunk may end here without changing the result: the line is not
   begun, or is held back, or is ordinary text as a whole and from here on. *)
Beginnings == {<<>>, <<G>>, <<G, E>>}
IsLine(l) == l # <<>> /\ \A i \in DOMAIN l : l[i] = N <=> i = Len(l)
Harmless(begun, after) ==
    \/ begun \in Beginnings
    \/ \A k \in DOMAIN after :
          LET l == SubSeq(after, 1, k) IN IsLine(l) => ~Hidden(begun \o l) /\ ~Hidden(l)

(* ReadLoop's callback: one chunk, its output frame and then its exit frames. *)
IngestOutput(k) ==
    /\ ~ended /\ k \in 1 .. Len(rest)
    /\ LET chunk == SubSeq(rest, 1, k)
           drained == Drain(pending \o chunk, FALSE)
       IN /\ rest' = SubSeq(rest, k + 1, Len(rest))
          /\ pending' = drained.pending
          /\ shown' = shown \o drained.out
          /\ done' = done \o drained.commands
    /\ clean' = (clean /\ Harmless(Lines(SubSeq(whole, 1, Len(whole) - Len(rest'))).begun, rest'))
    /\ UNCHANGED <<whole, inputVars, ended>>

(* An input message: parseShellExitInput sees the message only, the shell the
   lines that messages add up to. *)
Submit(noted1, line1) ==
    /\ ~ended /\ inputs < MaxInputs
    /\ noted' = noted1 /\ line' = line1
    /\ inputs' = inputs + 1
    /\ UNCHANGED <<whole, outputVars, ended>>

SubmitExit == line = "empty" /\ Submit(TRUE, "exited")
SubmitExitHead == line = "empty" /\ Submit(FALSE, "exit")
SubmitExitTail == line = "exit" /\ Submit(FALSE, "exited")
SubmitOther == Submit(FALSE, IF line = "exited" THEN line ELSE "empty")

(* The session has ended and all of it was read: flush, and the exit command that
   was submitted unless the flush has reported it. *)
FlushFrames ==
    LET drained == Drain(pending, TRUE)
        exits == IF noted /\ ~Contains(drained.commands, ExitLine) THEN <<ExitLine>> ELSE <<>>
    IN /\ shown' = shown \o drained.out
       /\ pending' = drained.pending
       /\ done' = done \o drained.commands \o exits

StreamEnds ==
    /\ ~ended /\ rest = <<>>
    /\ FlushFrames
    /\ noted' = FALSE
    /\ ended' = TRUE
    /\ UNCHANGED <<whole, rest, clean, line, inputs>>

Next ==
    \/ \E k \in 1 .. Len(rest) : IngestOutput(k)
    \/ SubmitExit \/ SubmitExitHead \/ SubmitExitTail \/ SubmitOther
    \/ StreamEnds

Spec == Init /\ [][Next]_vars
-----------------------------------------------------------------------------
(* The values each variable takes; text is held back only while it may still become
   the exit marker, so a prompt is shown as soon as it is read. *)
TypeOK ==
    /\ whole \in Seq(Tokens) /\ rest \in Seq(Tokens) /\ shown \in Seq(Tokens)
    /\ pending \in Beginnings
    /\ done \in Seq(Data \cup {ExitLine})
    /\ clean \in BOOLEAN /\ noted \in BOOLEAN /\ ended \in BOOLEAN
    /\ line \in {"empty", "exit", "exited"} /\ inputs \in 0 .. MaxInputs

(* However the output is cut, ordinary text is shown once and in order, and each
   command the shell reported is either completed or still to be seen, never both,
   in the order of the commands. *)
NothingLost ==
    /\ Only(shown \o pending \o rest, {X}) = Only(whole, {X})
    /\ \A d \in Data :
          Len(Only(done, {d})) + Len(Only(shown \o pending \o rest, {d})) = Len(Only(whole, {d}))

(* The only cuts that can change the result are those inside a marker line past the
   part that is held back, and those that leave a marker line as the rest of a line:
   without them the chunks give what the whole output would. *)
OtherCutsAreHarmless ==
    (ended /\ clean) => /\ shown = Drain(whole, TRUE).out
                        /\ Only(done, Data) = Drain(whole, TRUE).commands

(* Not kept by the code (see Harmless): the metadata line of a command is removed from the
   transcript and completes the command (the runner's tracker tests), wherever the output
   was cut. *)
MetadataRemoved == ended => Only(done, Data) = Drain(whole, TRUE).commands

(* Not kept by the code (exit may be typed in several messages): a shell that exits by the
   exit command has the completion of that command emitted before the connection closes
   (the runner's exit completion test). *)
ExitReported == (ended /\ line = "exited") => Contains(done, ExitLine)
=============================================================================
