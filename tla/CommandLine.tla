------------------------------- MODULE CommandLine -------------------------------
(***************************************************************************)
(* parseCommand: how the runner cuts a command into arguments, one rune    *)
(* (or escape) at a time.  The runes are two kinds of quotes, a backslash, *)
(* a blank and one that means nothing.  args are the arguments the user    *)
(* meant, when raw was written from them in one of two styles.             *)
(***************************************************************************)
EXTENDS Naturals, Sequences, SequencesExt, Filtering

CONSTANTS
    Dq, Sq,      (* the quotes                                                  *)
    Bs, Sp, Ch,  (* backslash, blank, any other rune                            *)
    MaxRaw,      (* bound on the length of arbitrary commands                   *)
    MaxArg,      (* bound on the length of an argument                          *)
    MaxArgs      (* bound on the number of arguments                            *)

VARIABLES
    raw, style, args,
    pos,           (* runes read so far                                         *)
    parts, current, inQuote, tokenStarted,
    result         (* reading, parts, unterminated or required                  *)

input == <<raw, style, args>>
vars == <<input, pos, parts, current, inQuote, tokenStarted, result>>

Runes == {Dq, Sq, Bs, Sp, Ch}
NoQuote == "none"
Texts(n) == UNION {[1 .. k -> Runes] : k \in 0 .. n}

(* Each rune in quotes of its own, of the other kind where it is one itself. *)
Piece(r) == IF r = Bs THEN <<r>> ELSE IF r = Dq THEN <<Sq, r, Sq>> ELSE <<Dq, r, Dq>>
InPieces(text) == <<Dq, Dq>> \o FlattenSeq([i \in DOMAIN text |-> Piece(text[i])])

(* The whole in double quotes, with escapes. *)
Escape(r) == IF r \in {Bs, Dq} THEN <<Bs, r>> ELSE <<r>>
Escaped(text) == <<Dq>> \o FlattenSeq([i \in DOMAIN text |-> Escape(text[i])]) \o <<Dq>>

Joined(texts) == FlattenSeq([i \in DOMAIN texts |-> texts[i] \o <<Sp>>])

Init ==
    /\ \/ style = "any" /\ args = <<>> /\ raw \in Texts(MaxRaw)
       \/ /\ style \in {"pieces", "escaped"}
          /\ args \in UNION {[1 .. n -> Texts(MaxArg)] : n \in 1 .. MaxArgs}
          /\ raw = Joined([i \in DOMAIN args |-> IF style = "pieces" THEN InPieces(args[i]) ELSE Escaped(args[i])])
    /\ pos = 0 /\ parts = <<>> /\ current = <<>>
    /\ inQuote = NoQuote /\ tokenStarted = FALSE
    /\ result = "reading"
-----------------------------------------------------------------------------
More(n) == result = "reading" /\ pos + n <= Len(raw)
Rune == raw[pos + 1]
Next2 == raw[pos + 2]

(* quoteTerminatesToken *)
QuoteTerminatesToken(index) == index = Len(raw) \/ raw[index + 1] = Sp

(* A rune is taken into the argument, after reading n. *)
TakeRune(r, n) ==
    /\ current' = Append(current, r) /\ tokenStarted' = TRUE
    /\ pos' = pos + n
    /\ UNCHANGED <<input, parts, inQuote, result>>

IsEscapedBackslash == More(2) /\ inQuote # NoQuote /\ Rune = Bs /\ Next2 = Bs
IsEscapedQuote == More(2) /\ inQuote # NoQuote /\ Rune = Bs /\ Next2 = inQuote /\ ~QuoteTerminatesToken(pos + 2)

(* Mutant: the second backslash is read again. *)
EscapedBackslashHalf == IsEscapedBackslash /\ TakeRune(Bs, 1)
EscapedBackslash == IsEscapedBackslash /\ TakeRune(Bs, 2)
(* Mutant: the rune after the escape is skipped as well. *)
EscapedQuoteWide == IsEscapedQuote /\ TakeRune(inQuote, IF More(3) THEN 3 ELSE 2)
EscapedQuote == IsEscapedQuote /\ TakeRune(inQuote, 2)

CloseQuote ==
    /\ More(1) /\ inQuote # NoQuote /\ Rune = inQuote
    /\ inQuote' = NoQuote /\ pos' = pos + 1
    /\ UNCHANGED <<input, parts, current, tokenStarted, result>>

QuotedRune ==
    /\ More(1) /\ inQuote # NoQuote /\ Rune # inQuote
    /\ ~IsEscapedBackslash /\ ~IsEscapedQuote
    /\ TakeRune(Rune, 1)

(* Mutant: a quote alone does not start an argument. *)
OpenQuoteOnly ==
    /\ More(1) /\ inQuote = NoQuote /\ Rune \in {Dq, Sq}
    /\ inQuote' = Rune /\ pos' = pos + 1
    /\ UNCHANGED <<input, parts, current, tokenStarted, result>>

OpenQuote ==
    /\ More(1) /\ inQuote = NoQuote /\ Rune \in {Dq, Sq}
    /\ inQuote' = Rune /\ tokenStarted' = TRUE /\ pos' = pos + 1
    /\ UNCHANGED <<input, parts, current, result>>

(* flush *)
Flush ==
    /\ parts' = IF tokenStarted THEN Append(parts, current) ELSE parts
    /\ current' = <<>> /\ tokenStarted' = FALSE

Blank ==
    /\ More(1) /\ inQuote = NoQuote /\ Rune = Sp
    /\ Flush /\ pos' = pos + 1
    /\ UNCHANGED <<input, inQuote, result>>

PlainRune == More(1) /\ inQuote = NoQuote /\ Rune \notin {Dq, Sq, Sp} /\ TakeRune(Rune, 1)

Unterminated ==
    /\ result = "reading" /\ pos = Len(raw) /\ inQuote # NoQuote
    /\ result' = "unterminated"
    /\ UNCHANGED <<input, pos, parts, current, inQuote, tokenStarted>>

Finish ==
    /\ result = "reading" /\ pos = Len(raw) /\ inQuote = NoQuote
    /\ Flush
    /\ result' = IF parts' = <<>> THEN "required" ELSE "parts"
    /\ UNCHANGED <<input, pos, inQuote>>

Next ==
    \/ EscapedBackslash \/ EscapedQuote \/ CloseQuote \/ QuotedRune
    \/ OpenQuote \/ Blank \/ PlainRune \/ Unterminated \/ Finish

Spec == Init /\ [][Next]_vars
-----------------------------------------------------------------------------
(* Properties *)

(* The values each variable takes; text is only held for an argument that is begun. *)
TypeOK ==
    /\ pos \in 0 .. Len(raw)
    /\ parts \in Seq(Seq(Runes)) /\ current \in Seq(Runes)
    /\ inQuote \in {NoQuote, Dq, Sq}
    /\ (current # <<>> \/ inQuote # NoQuote) => tokenStarted
    /\ result \in {"reading", "parts", "unterminated", "required"}

(* Whatever is typed, each ordinary rune ends up in one argument, in order, and no
   blank outside quotes does. *)
OrdinaryRunesKept ==
    Only(FlattenSeq(parts) \o current \o SubSeq(raw, pos + 1, Len(raw)), {Ch}) = Only(raw, {Ch})

(* Every list of arguments, empty ones among them, can be written: in pieces, each
   in quotes of the other kind. *)
PiecesRead == (style = "pieces" /\ result # "reading") => (result = "parts" /\ parts = args)

(* Escapes inside quotes are read as they are meant, but for a quote before a blank. *)
QuoteBeforeBlank(text) == \E i \in 1 .. Len(text) - 1 : text[i] = Dq /\ text[i + 1] = Sp
EscapesRead ==
    (style = "escaped" /\ result # "reading" /\ \A i \in DOMAIN args : ~QuoteBeforeBlank(args[i]))
        => (result = "parts" /\ parts = args)

(* Not kept by the code (an escaped quote before a blank ends the argument): escaped quotes
   inside a quoted argument are handled (the name of the parser's test), wherever they
   stand. *)
EscapedQuotesHandled ==
    (style = "escaped" /\ result # "reading") => (result = "parts" /\ parts = args)
=============================================================================
