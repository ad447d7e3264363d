------------------------------ MODULE Filtering ------------------------------
(* Some of the elements of a sequence, in their order. *)
EXTENDS Naturals, Sequences

Only(s, S) ==
    LET only[n \in 0 .. Len(s)] ==
            IF n = 0 THEN <<>>
            ELSE IF s[n] \in S THEN Append(only[n - 1], s[n]) ELSE only[n - 1]
    IN only[Len(s)]
==============================================================================
