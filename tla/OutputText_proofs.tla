-------------------------- MODULE OutputText_proofs -------------------------
(***************************************************************************)
(* Proofs about CompletionTracker, for outputs of any pieces cut anywhere: *)
(* a connection shows all of the shell's output but its markers, in order  *)
(* and once, however it is cut.  At the end, the values of the variables   *)
(* of every stage of MCUserCommands.                                       *)
(***************************************************************************)
EXTENDS LineText_proofs

(* CompletionTracker: the lines of a text *)
Tk == {G, E, T, C, X, A, N} \cup Data
Outcome == [out : Seq(Tk), commands : Seq(Data), begun : Seq(Tk)]
Nil == [out |-> <<>>, commands |-> <<>>, begun |-> <<>>]
TokenTaken(before, x) ==
    IF x = N THEN Tracker!TakeLine(before, Append(before.begun, x))
    ELSE [out |-> before.out, commands |-> before.commands, begun |-> Append(before.begun, x)]

LEMMA TokensDiffer ==
    /\ Tk = Tracker!Tokens
    /\ G # E /\ G # T /\ G # C /\ G # X /\ G # A /\ G # N
    /\ E # T /\ E # C /\ E # X /\ E # A /\ E # N
    /\ T # C /\ T # X /\ T # A /\ T # N
    /\ C # X /\ C # A /\ C # N /\ X # A /\ X # N /\ A # N
    /\ \A d \in Data : d \notin {G, E, T, C, X, A, N, ExitLine}
  BY TokenAssumption DEF Tk, Tracker!Tokens

LEMMA OutcomeIs ==
  ASSUME NEW b, b \in Outcome
  PROVE  b.out \in Seq(Tk) /\ b.commands \in Seq(Data) /\ b.begun \in Seq(Tk)
         /\ b = [out |-> b.out, commands |-> b.commands, begun |-> b.begun]
  BY DEF Outcome

LEMMA TokenTakenType ==
  ASSUME NEW b, NEW x, b \in Outcome, x \in Tk
  PROVE  TokenTaken(b, x) \in Outcome
<1>1. b.out \in Seq(Tk) /\ b.commands \in Seq(Data) /\ b.begun \in Seq(Tk)
  BY OutcomeIs
<1> DEFINE l == Append(b.begun, x)
           o == b.out \o l
           c == Append(b.commands, Tracker!Normalize(l)[4])
<1>2. l \in Seq(Tk)
  BY <1>1, AppendProperties
<1>3. o \in Seq(Tk) /\ <<>> \in Seq(Tk)
  <2> HIDE DEF l
  <2>1. QED
    BY <1>1, <1>2, ConcatProperties, EmptySeq
<1>4. Tracker!IsMetadata(l) => c \in Seq(Data)
  BY <1>1, AppendProperties DEF Tracker!IsMetadata
<1>5. Tracker!TakeLine(b, l) =
         [out |-> IF Tracker!Hidden(l) THEN b.out ELSE o,
          commands |-> IF Tracker!IsMetadata(l) THEN c ELSE b.commands, begun |-> <<>>]
  BY DEF Tracker!TakeLine
<1> HIDE DEF o, c, l
<1>6. Tracker!TakeLine(b, l) \in Outcome
  BY <1>1, <1>3, <1>4, <1>5 DEF Outcome
<1>7. [out |-> b.out, commands |-> b.commands, begun |-> l] \in Outcome
  BY <1>1, <1>2 DEF Outcome
<1>8. QED
  BY <1>6, <1>7 DEF TokenTaken, l

LinesBy(text, f) ==
    f = [n \in 0 .. Len(text) |-> IF n = 0 THEN Nil ELSE TokenTaken(f[n - 1], text[n])]

LEMMA LinesByStep ==
  ASSUME NEW s, NEW f, Len(s) \in Nat
  PROVE  LinesBy(s, f) <=>
            /\ f = [n \in 0 .. Len(s) |-> f[n]]
            /\ f[0] = Nil
            /\ \A i \in 1 .. Len(s) : f[i] = TokenTaken(f[i - 1], s[i])
<1> DEFINE body(n) == IF n = 0 THEN Nil ELSE TokenTaken(f[n - 1], s[n])
<1>1. body(0) = Nil /\ \A i \in 1 .. Len(s) : body(i) = TokenTaken(f[i - 1], s[i])
  OBVIOUS
<1>2. LinesBy(s, f) <=> f = [n \in 0 .. Len(s) |-> body(n)]
  BY DEF LinesBy
<1>3. 0 .. Len(s) = {0} \cup (1 .. Len(s))
  OBVIOUS
<1> HIDE DEF body
<1>4. f = [n \in 0 .. Len(s) |-> body(n)] <=>
         f = [n \in 0 .. Len(s) |-> f[n]] /\ \A n \in 0 .. Len(s) : f[n] = body(n)
  OBVIOUS
<1>5. QED
  BY <1>1, <1>2, <1>3, <1>4

LEMMA LinesSteps ==
  ASSUME NEW s \in Seq(Tk)
  PROVE  \E f \in [0 .. Len(s) -> Outcome] : LinesBy(s, f) /\ Tracker!Lines(s) = f[Len(s)]
<1> DEFINE N0 == Len(s)
           step == [p \in (1 .. N0) \X Outcome |-> TokenTaken(p[2], s[p[1]])]
<1>1. N0 \in Nat /\ \A i \in 1 .. N0 : s[i] \in Tk
  BY LenProperties, ElementOfSeq
<1>2. IsStep(step, N0, Outcome)
  <2>1. ASSUME NEW p \in (1 .. N0) \X Outcome PROVE step[p] \in Outcome
    <3>1. s[p[1]] \in Tk /\ p[2] \in Outcome
      BY <1>1
    <3>2. QED
      BY <3>1, TokenTakenType
  <2>2. QED
    BY <2>1 DEF IsStep
<1>3. Nil \in Outcome
  BY EmptySeq DEF Nil, Outcome
<1>4. PICK f : Stepwise(f, Nil, step, N0, Outcome)
  <2> HIDE DEF step, N0
  <2>1. QED
    BY <1>1, <1>2, <1>3, StepsExist
<1>5. f \in [0 .. N0 -> Outcome] /\ f[0] = Nil
  BY <1>4 DEF Stepwise
<1>6. \A i \in 1 .. N0 : f[i] = TokenTaken(f[i - 1], s[i])
  <2>1. SUFFICES ASSUME NEW i \in 1 .. N0 PROVE f[i] = TokenTaken(f[i - 1], s[i])
    OBVIOUS
  <2>2. f[i - 1] \in Outcome /\ f[i] = step[<<i, f[i - 1]>>]
    <3> HIDE DEF step
    <3>1. i - 1 \in 0 .. N0
      BY <1>1
    <3>2. QED
      BY <3>1, <1>4, <1>5 DEF Stepwise
  <2>3. QED
    BY <2>2
<1>7. LinesBy(s, f)
  <2>1. f = [n \in 0 .. N0 |-> f[n]]
    BY <1>5
  <2>2. QED
    BY <2>1, <1>1, <1>5, <1>6, LinesByStep
<1> DEFINE g == CHOOSE g : LinesBy(s, g)
<1>8. LinesBy(s, g) /\ Tracker!Lines(s) = g[Len(s)]
  BY <1>7 DEF Tracker!Lines, LinesBy, TokenTaken, Nil
<1>9. g[N0] = f[N0]
  <2> HIDE DEF g
  <2>1. g[0] = f[0]
    BY <1>1, <1>7, <1>8, LinesByStep
  <2>2. /\ \A i \in 1 .. N0 : g[i] = TokenTaken(g[i - 1], s[i])
        /\ \A i \in 1 .. N0 : f[i] = TokenTaken(f[i - 1], s[i])
    BY <1>1, <1>7, <1>8, LinesByStep
  <2>3. ASSUME NEW i \in 1 .. N0, g[i - 1] = f[i - 1] PROVE g[i] = f[i]
    BY <2>2, <2>3
  <2>4. QED
    BY <1>1, <2>1, <2>3, StepsAgree
<1>10. QED
  BY <1>5, <1>7, <1>8, <1>9

LEMMA LinesEmpty == Tracker!Lines(<<>>) = Nil
<1>1. PICK f : LinesBy(<<>>, f) /\ Tracker!Lines(<<>>) = f[Len(<<>>)]
  BY LinesSteps, EmptySeq
<1>2. QED
  BY <1>1, EmptySeq DEF LinesBy

LEMMA LinesType == ASSUME NEW s, s \in Seq(Tk) PROVE Tracker!Lines(s) \in Outcome
  BY LinesSteps, LenProperties

LEMMA LinesAppend ==
  ASSUME NEW s, NEW x, s \in Seq(Tk), x \in Tk
  PROVE  Tracker!Lines(Append(s, x)) = TokenTaken(Tracker!Lines(s), x)
<1> DEFINE t == Append(s, x)
<1>1. /\ t \in Seq(Tk) /\ Len(s) \in Nat /\ Len(t) = Len(s) + 1 /\ t[Len(s) + 1] = x
      /\ \A i \in 1 .. Len(s) : t[i] = s[i]
  BY AppendProperties, LenProperties
<1> HIDE DEF t
<1>2. PICK f : LinesBy(s, f) /\ Tracker!Lines(s) = f[Len(s)]
  BY LinesSteps
<1>3. PICK g : LinesBy(t, g) /\ Tracker!Lines(t) = g[Len(t)]
  BY <1>1, LinesSteps
<1>4. g[Len(s)] = f[Len(s)]
  <2>1. g[0] = f[0]
    BY <1>1, <1>2, <1>3, LinesByStep
  <2>2. \A i \in 1 .. Len(t) : g[i] = TokenTaken(g[i - 1], t[i])
    <3>1. Len(t) \in Nat
      BY <1>1
    <3>2. QED
      BY <1>3, <3>1, LinesByStep
  <2>5. \A i \in 1 .. Len(s) : f[i] = TokenTaken(f[i - 1], s[i])
    BY <1>1, <1>2, LinesByStep
  <2>3. ASSUME NEW i \in 1 .. Len(s), g[i - 1] = f[i - 1] PROVE g[i] = f[i]
    BY <1>1, <2>2, <2>5, <2>3
  <2>4. QED
    BY <1>1, <2>1, <2>3, StepsAgree
<1>5. g[Len(t)] = TokenTaken(g[Len(s)], x)
  <2>1. \A i \in 1 .. Len(t) : g[i] = TokenTaken(g[i - 1], t[i])
    BY <1>1, <1>3, LinesByStep
  <2>2. Len(t) \in 1 .. Len(t) /\ Len(t) - 1 = Len(s) /\ t[Len(t)] = x
    BY <1>1
  <2>3. QED
    BY <2>1, <2>2
<1>6. QED
  BY <1>2, <1>3, <1>4, <1>5 DEF t
-----------------------------------------------------------------------------
(* CompletionTracker: what a marker line holds *)
LEMMA TrackerOnly == ASSUME NEW s, NEW S PROVE Tracker!Only(s, S) = Only(s, S)
  BY DEF Tracker!Only, Only

Markers == Tk \ {N, A}

LEMMA NormalizeIs ==
  ASSUME NEW l, l \in Seq(Tk)
  PROVE  /\ Tracker!Normalize(l) = Only(l, Markers) /\ Tracker!Normalize(l) \in Seq(Tk)
         /\ \A x \in Markers : Only(Tracker!Normalize(l), {x}) = Only(l, {x})
<1>1. Tracker!Normalize(l) = Only(l, Markers)
  BY TokensDiffer, TrackerOnly DEF Tracker!Normalize, Markers
<1>2. Only(l, Markers) \in Seq(Tk)
  BY OnlyType
<1>3. ASSUME NEW x \in Markers PROVE Only(Only(l, Markers), {x}) = Only(l, {x})
  <2>1. {x} \subseteq Markers
    OBVIOUS
  <2>2. QED
    BY <2>1, OnlyOfOnly
<1>4. QED
  BY <1>1, <1>2, <1>3

LEMMA MarkersAre ==
  /\ X \in Markers /\ Data \subseteq Markers /\ G \in Tk /\ E \in Tk /\ C \in Tk /\ T \in Tk
  /\ X \in Tk /\ N \in Tk /\ Data \subseteq Tk
  BY TokensDiffer DEF Markers, Tk

LEMMA OnlyTwo ==
  ASSUME NEW x, NEW y, NEW z, x \in Tk, y \in Tk, x # z, y # z
  PROVE  Only(<<x, y>>, {z}) = <<>>
<1> DEFINE none == <<>>
           one == Append(none, x)
           two == Append(one, y)
<1>1. none \in Seq(Tk) /\ Only(none, {z}) = <<>> /\ <<x, y>> = two
  BY OnlyEmpty
<1> HIDE DEF none
<1>2. Only(one, {z}) = <<>> /\ one \in Seq(Tk)
  <2>1. Only(one, {z}) = IF x \in {z} THEN Append(Only(none, {z}), x) ELSE Only(none, {z})
    BY <1>1, OnlyAppend
  <2>2. one \in Seq(Tk)
    BY <1>1, AppendProperties
  <2>3. QED
    BY <1>1, <2>1, <2>2
<1> HIDE DEF one
<1>3. Only(two, {z}) = IF y \in {z} THEN Append(Only(one, {z}), y) ELSE Only(one, {z})
  BY <1>2, OnlyAppend
<1>4. QED
  BY <1>1, <1>2, <1>3

LEMMA FourAre ==
  ASSUME NEW n, n \in Seq(Tk), Len(n) = 4, SubSeq(n, 1, 3) = <<G, E, C>>
  PROVE  n = Append(Append(<<G, E>>, C), n[4])
<1>1. n[1] = G /\ n[2] = E /\ n[3] = C
  <2> DEFINE s == SubSeq(n, 1, 3)
  <2>1. s[1] = n[1] /\ s[2] = n[2] /\ s[3] = n[3]
    OBVIOUS
  <2>2. s = <<G, E, C>>
    OBVIOUS
  <2> HIDE DEF s
  <2>3. s[1] = G /\ s[2] = E /\ s[3] = C
    BY <2>2
  <2>4. QED
    BY <2>1, <2>3
<1>2. n[4] \in Tk /\ G \in Tk /\ E \in Tk /\ C \in Tk
  BY MarkersAre
<1> DEFINE x == n[4]
<1> HIDE DEF x
<1> DEFINE m == <<G, E, C, x>>
<1>3. /\ m \in Seq(Tk) /\ Len(m) = 4 /\ m[1] = G /\ m[2] = E /\ m[3] = C /\ m[4] = x
  BY <1>2 DEF x
<1>4. m = Append(Append(<<G, E>>, C), x)
  OBVIOUS
<1> HIDE DEF m
<1>5. \A i \in 1 .. 4 : n[i] = m[i]
  <2>1. \A i \in 1 .. 4 : i = 1 \/ i = 2 \/ i = 3 \/ i = 4
    OBVIOUS
  <2>2. QED
    BY <1>1, <1>3, <2>1 DEF x
<1>6. n = m
  BY <1>3, <1>5, SeqEqual
<1>7. QED
  BY <1>4, <1>6 DEF x

LEMMA MetadataHolds ==
  ASSUME NEW l, l \in Seq(Tk), Tracker!IsMetadata(l), NEW z, z \in Data \cup {X}
  PROVE  Only(l, {z}) = IF z = Tracker!Normalize(l)[4] THEN <<z>> ELSE <<>>
<1> DEFINE n == Tracker!Normalize(l)
           x == n[4]
           ge == <<G, E>>
           gec == Append(ge, C)
<1>1. n \in Seq(Tk) /\ Only(n, {z}) = Only(l, {z})
  BY NormalizeIs, MarkersAre
<1>2. Len(n) = 4 /\ SubSeq(n, 1, 3) = <<G, E, C>> /\ x \in Data
  BY DEF Tracker!IsMetadata
<1>3. n = Append(gec, x)
  <2> HIDE DEF n
  <2>1. QED
    BY <1>1, <1>2, FourAre
<1>4. x \in Tk /\ C \in Tk /\ ge \in Seq(Tk)
  BY <1>2, MarkersAre
<1>5. Only(ge, {z}) = <<>>
  <2>1. G \in Tk /\ E \in Tk /\ G # z /\ E # z
    BY MarkersAre, TokensDiffer
  <2>2. QED
    BY <2>1, OnlyTwo
<1> HIDE DEF n, x, ge
<1>6. gec \in Seq(Tk)
  BY <1>4, AppendProperties
<1>7. Only(gec, {z}) = <<>>
  <2>1. Only(gec, {z}) = IF C \in {z} THEN Append(Only(ge, {z}), C) ELSE Only(ge, {z})
    BY <1>4, OnlyAppend
  <2>2. C # z
    BY TokensDiffer
  <2>3. QED
    BY <1>5, <2>1, <2>2
<1> HIDE DEF gec
<1>8. Only(Append(gec, x), {z}) = IF x \in {z} THEN Append(Only(gec, {z}), x) ELSE Only(gec, {z})
  BY <1>4, <1>6, OnlyAppend
<1>9. Only(l, {z}) = IF x = z THEN <<z>> ELSE <<>>
  BY <1>1, <1>3, <1>7, <1>8
<1>10. QED
  BY <1>9 DEF x, n

LEMMA ContinuationHolds ==
  ASSUME NEW l, l \in Seq(Tk), Tracker!IsContinuation(l), NEW z, z \in Data \cup {X}
  PROVE  Only(l, {z}) = <<>>
<1>1. Only(Tracker!Normalize(l), {z}) = Only(l, {z})
  BY NormalizeIs, MarkersAre
<1>2. Only(<<G, T>>, {z}) = <<>>
  <2>1. G \in Tk /\ T \in Tk /\ G # z /\ T # z
    BY MarkersAre, TokensDiffer
  <2>2. QED
    BY <2>1, OnlyTwo
<1>3. QED
  BY <1>1, <1>2 DEF Tracker!IsContinuation
-----------------------------------------------------------------------------
(* CompletionTracker: no text is lost in the lines, and no command *)
Count(s, d) == Len(Only(s, {d}))

LEMMA CountCat ==
  ASSUME NEW s, NEW t, NEW d, s \in Seq(Tk), t \in Seq(Tk)
  PROVE  /\ Count(Cat(s, t), d) = Count(s, d) + Count(t, d)
         /\ Count(s, d) \in Nat /\ Count(t, d) \in Nat
<1> DEFINE u == Only(s, {d})
           v == Only(t, {d})
<1>1. Only(s \o t, {d}) = u \o v
  BY OnlyConcat
<1>2. u \in Seq(Tk) /\ v \in Seq(Tk)
  BY OnlyType
<1> HIDE DEF u, v
<1>3. Len(u \o v) = Len(u) + Len(v) /\ Len(u) \in Nat /\ Len(v) \in Nat
  BY <1>2
<1>4. QED
  BY <1>1, <1>3 DEF u, v, Count, Cat

LEMMA OnlyCat ==
  ASSUME NEW s, NEW t, NEW S, s \in Seq(Tk), t \in Seq(Tk)
  PROVE  Only(Cat(s, t), S) = Cat(Only(s, S), Only(t, S))
  BY OnlyConcat DEF Cat

LEMMA CountAppend ==
  ASSUME NEW s, NEW x, NEW d, NEW V, s \in Seq(V), x \in V
  PROVE  /\ Count(Append(s, x), d) = Count(s, d) + (IF x = d THEN 1 ELSE 0)
         /\ Count(s, d) \in Nat
<1> DEFINE u == Only(s, {d})
<1>1. Only(Append(s, x), {d}) = IF x \in {d} THEN Append(u, x) ELSE u
  BY OnlyAppend
<1>2. u \in Seq(V)
  BY OnlyType
<1> HIDE DEF u
<1>3. Len(Append(u, x)) = Len(u) + 1 /\ Len(u) \in Nat
  BY <1>2
<1>4. QED
  BY <1>1, <1>3 DEF u, Count

CountEmptyIs == \A d : Count(<<>>, d) = 0
LEMMA CountEmpty == CountEmptyIs
<1>1. ASSUME NEW d PROVE Count(<<>>, d) = 0
  BY OnlyEmpty DEF Count
<1>2. QED
  BY <1>1 DEF CountEmptyIs

(* What b makes of the text s. *)
Accounts(b, s) ==
    LET w == Cat(b.out, b.begun)
    IN  /\ Only(w, {X}) = Only(s, {X})
        /\ \A d \in Data : Count(b.commands, d) + Count(w, d) = Count(s, d)

LEMMA TokenAccounts ==
  ASSUME NEW b, NEW s, NEW x, b \in Outcome, s \in Seq(Tk), x \in Tk, Accounts(b, s)
  PROVE  Accounts(TokenTaken(b, x), Append(s, x))
<1> DEFINE o == b.out
           u == b.begun
           c == b.commands
           l == Append(u, x)
           w == Cat(o, u)
           wx == Cat(o, l)
           sx == Append(s, x)
<1>1. o \in Seq(Tk) /\ u \in Seq(Tk) /\ c \in Seq(Data)
  BY OutcomeIs
<1>2. /\ Only(w, {X}) = Only(s, {X})
      /\ \A d \in Data : Count(c, d) + Count(w, d) = Count(s, d)
  BY DEF Accounts
<1>3. TokenTaken(b, x) = IF x = N THEN Tracker!TakeLine(b, l)
                         ELSE [out |-> o, commands |-> c, begun |-> l]
  BY DEF TokenTaken
<1>4. Tracker!TakeLine(b, l) =
         [out |-> IF Tracker!Hidden(l) THEN o ELSE Cat(o, l),
          commands |-> IF Tracker!IsMetadata(l) THEN Append(c, Tracker!Normalize(l)[4]) ELSE c,
          begun |-> <<>>]
  BY DEF Tracker!TakeLine, Cat
<1> HIDE DEF o, u, c
<1>5. l \in Seq(Tk) /\ w \in Seq(Tk)
  BY <1>1, AppendProperties, CatType
<1>6. wx = Append(w, x)
  BY <1>1, AppendOfConcat DEF Cat
<1> HIDE DEF w, l
<1>7. wx \in Seq(Tk) /\ sx \in Seq(Tk)
  BY <1>1, <1>5, CatType, AppendProperties
<1>8. Only(wx, {X}) = Only(sx, {X})
  <2>1. Only(Append(w, x), {X}) = IF x \in {X} THEN Append(Only(w, {X}), x) ELSE Only(w, {X})
    BY <1>5, OnlyAppend
  <2>2. Only(Append(s, x), {X}) = IF x \in {X} THEN Append(Only(s, {X}), x) ELSE Only(s, {X})
    BY OnlyAppend
  <2>3. QED
    BY <1>2, <1>6, <2>1, <2>2
<1>9. ASSUME NEW d \in Data
      PROVE  /\ Count(c, d) + Count(wx, d) = Count(sx, d)
             /\ Count(c, d) \in Nat /\ Count(wx, d) \in Nat
  <2>1. Count(Append(w, x), d) = Count(w, d) + (IF x = d THEN 1 ELSE 0) /\ Count(w, d) \in Nat
    BY <1>5, CountAppend
  <2>2. Count(Append(s, x), d) = Count(s, d) + (IF x = d THEN 1 ELSE 0) /\ Count(s, d) \in Nat
    BY CountAppend
  <2>3. Count(c, d) \in Nat
    <3>1. Only(c, {d}) \in Seq(Data)
      BY <1>1, OnlyType
    <3>2. QED
      BY <3>1, LenProperties DEF Count
  <2>4. Count(wx, d) \in Nat
    BY <1>6, <2>1
  <2>5. Count(c, d) + Count(w, d) = Count(s, d)
    BY <1>2
  <2>6. QED
    BY <1>6, <2>1, <2>2, <2>3, <2>4, <2>5
<1> HIDE DEF wx, sx
<1>10. ASSUME NEW b1, Cat(b1.out, b1.begun) = wx, b1.commands = c PROVE Accounts(b1, sx)
  BY <1>8, <1>9, <1>10 DEF Accounts
<1>11. CASE x # N
  <2>1. TokenTaken(b, x) = [out |-> o, commands |-> c, begun |-> l]
    BY <1>3, <1>11
  <2>2. QED
    BY <2>1, <1>10 DEF wx, sx
<1>12. CASE x = N /\ ~Tracker!Hidden(l)
  <2>1. TokenTaken(b, x) = [out |-> wx, commands |-> c, begun |-> <<>>]
    BY <1>3, <1>4, <1>12 DEF wx, Tracker!Hidden
  <2>2. Cat(wx, <<>>) = wx
    BY <1>7, ConcatEmptySeq DEF Cat
  <2>3. QED
    BY <2>1, <2>2, <1>10 DEF sx
<1>13. CASE x = N /\ Tracker!Hidden(l)
  <2> DEFINE c1x == IF Tracker!IsMetadata(l) THEN Append(c, Tracker!Normalize(l)[4]) ELSE c
  <2>1. TokenTaken(b, x) = [out |-> o, commands |-> c1x, begun |-> <<>>]
    BY <1>3, <1>4, <1>13
  <2>2. Cat(o, <<>>) = o
    BY <1>1, ConcatEmptySeq DEF Cat
  <2>3. ASSUME NEW z \in Data \cup {X}
        PROVE  Only(l, {z}) = IF Tracker!IsMetadata(l) /\ z = Tracker!Normalize(l)[4]
                              THEN <<z>> ELSE <<>>
    BY <1>5, <1>13, MetadataHolds, ContinuationHolds DEF Tracker!Hidden
  <2>4. Only(o, {X}) = Only(sx, {X})
    <3>1. Only(l, {X}) = <<>>
      <4>1. Tracker!IsMetadata(l) => X # Tracker!Normalize(l)[4]
        BY TokensDiffer DEF Tracker!IsMetadata
      <4>2. QED
        BY <2>3, <4>1
    <3>2. Only(Cat(o, l), {X}) = Cat(Only(o, {X}), Only(l, {X}))
      BY <1>1, <1>5, OnlyCat
    <3>3. Cat(Only(o, {X}), <<>>) = Only(o, {X})
      <4>1. Only(o, {X}) \in Seq(Tk)
        BY <1>1, OnlyType
      <4>2. QED
        BY <4>1, ConcatEmptySeq DEF Cat
    <3>4. QED
      BY <1>8, <3>1, <3>2, <3>3 DEF wx
  <2>5. ASSUME NEW d \in Data PROVE Count(c1x, d) + Count(o, d) = Count(sx, d)
    <3>1. /\ Count(Cat(o, l), d) = Count(o, d) + Count(l, d)
          /\ Count(o, d) \in Nat /\ Count(l, d) \in Nat
      BY <1>1, <1>5, CountCat
    <3>2. /\ Count(c, d) + Count(wx, d) = Count(sx, d)
          /\ Count(c, d) \in Nat /\ Count(wx, d) \in Nat
      BY <1>9
    <3>3. Count(l, d) = IF Tracker!IsMetadata(l) /\ d = Tracker!Normalize(l)[4] THEN 1 ELSE 0
      <4>1. Len(<<d>>) = 1 /\ Len(<<>>) = 0
        OBVIOUS
      <4>2. QED
        BY <2>3, <4>1 DEF Count
    <3>4. Count(c1x, d) = Count(c, d) + Count(l, d)
      <4>1. CASE Tracker!IsMetadata(l)
        <5> DEFINE e == Tracker!Normalize(l)[4]
        <5>1. e \in Data
          BY <4>1 DEF Tracker!IsMetadata
        <5> HIDE DEF e
        <5>2. Count(Append(c, e), d) = Count(c, d) + (IF e = d THEN 1 ELSE 0)
          BY <1>1, <5>1, CountAppend
        <5>3. QED
          BY <3>2, <3>3, <4>1, <5>2 DEF e
      <4>2. CASE ~Tracker!IsMetadata(l)
        BY <3>2, <3>3, <4>2
      <4>3. QED
        BY <4>1, <4>2
    <3> HIDE DEF c1x
    <3>5. QED
      BY <3>1, <3>2, <3>4 DEF wx
  <2> HIDE DEF c1x
  <2>6. QED
    BY <2>1, <2>2, <2>4, <2>5 DEF Accounts, sx
<1>14. QED
  BY <1>11, <1>12, <1>13

LEMMA LinesAccount ==
  ASSUME NEW s, s \in Seq(Tk) PROVE Accounts(Tracker!Lines(s), s)
<1> DEFINE P == {u \in Seq(Tk) : Accounts(Tracker!Lines(u), u)}
<1>1. <<>> \in P
  <2>1. Cat(<<>>, <<>>) = <<>> /\ <<>> \in Seq(Tk)
    BY EmptySeq, ConcatEmptySeq DEF Cat
  <2>2. Nil.out = <<>> /\ Nil.commands = <<>> /\ Nil.begun = <<>>
    BY DEF Nil
  <2>3. Accounts(Nil, <<>>)
    BY <2>1, <2>2, CountEmpty DEF Accounts, CountEmptyIs
  <2>4. QED
    BY <2>1, <2>3, LinesEmpty
<1>2. ASSUME NEW u \in Seq(Tk), u \in P, NEW x \in Tk PROVE Append(u, x) \in P
  <2>1. Accounts(TokenTaken(Tracker!Lines(u), x), Append(u, x))
    BY <1>2, LinesType, TokenAccounts
  <2>2. Append(u, x) \in Seq(Tk)
    BY AppendProperties
  <2>3. QED
    BY <2>1, <2>2, LinesAppend
<1>3. \A u \in Seq(Tk) : u \in P
  <2> HIDE DEF P
  <2>1. QED
    BY <1>1, <1>2, SequencesByInduction
<1>4. QED
  BY <1>3
-----------------------------------------------------------------------------
(* CompletionTracker: what is held back *)
LEMMA BeginningsAre ==
  /\ Tracker!Beginnings = {<<>>, <<G>>, <<G, E>>}
  /\ Tracker!Beginnings \subseteq Seq(Tk)
<1>1. G \in Tk /\ E \in Tk
  BY MarkersAre
<1>2. QED
  BY <1>1 DEF Tracker!Beginnings

LEMMA FragmentIs ==
  ASSUME NEW s, s \in Seq(Tk)
  PROVE  Tracker!CouldBeMarkerFragment(s) <=> s # <<>> /\ s \in Tracker!Beginnings
<1> DEFINE one == <<G>>
           two == <<G, E>>
<1>1. /\ one \in Seq(Tk) /\ two \in Seq(Tk) /\ Len(one) = 1 /\ Len(two) = 2
      /\ SubSeq(two, 1, 1) = one /\ SubSeq(two, 1, 2) = two
      /\ SubSeq(one, 1, 1) = one
  <2>1. G \in Tk /\ E \in Tk
    BY MarkersAre
  <2>2. one \in Seq(Tk) /\ Len(one) = 1 /\ one[1] = G
    BY <2>1
  <2>3. two \in Seq(Tk) /\ Len(two) = 2 /\ two[1] = G
    BY <2>1
  <2> HIDE DEF one, two
  <2>4. SubSeq(two, 1, 2) = two /\ SubSeq(one, 1, 1) = one
    BY <2>2, <2>3, SubSeqFull
  <2>5. SubSeq(two, 1, 1) = one
    <3>1. /\ SubSeq(two, 1, 1) \in Seq(Tk) /\ Len(SubSeq(two, 1, 1)) = 1
          /\ SubSeq(two, 1, 1)[1] = two[1]
      BY <2>1, <2>3
    <3>2. QED
      BY <2>2, <2>3, <3>1, SeqEqual
  <2>6. QED
    BY <2>2, <2>3, <2>4, <2>5
<1>2. SubSeq(s, 1, Len(s)) = s /\ Len(s) \in Nat /\ (s # <<>> => Len(s) # 0)
  BY SubSeqFull, EmptySeq, LenProperties
<1>3. Tracker!CouldBeMarkerFragment(s) <=>
         s # <<>> /\ Len(s) <= Len(two) /\ SubSeq(s, 1, Len(s)) = SubSeq(two, 1, Len(s))
  BY DEF Tracker!CouldBeMarkerFragment, Tracker!IsPrefix
<1>4. Tracker!Beginnings = {<<>>, one, two}
  BY BeginningsAre
<1> HIDE DEF one, two
<1>5. CASE Len(s) = 1
  BY <1>1, <1>2, <1>3, <1>4, <1>5
<1>6. CASE Len(s) = 2
  BY <1>1, <1>2, <1>3, <1>4, <1>6
<1>7. CASE Len(s) # 1 /\ Len(s) # 2
  BY <1>1, <1>2, <1>3, <1>4, <1>7
<1>8. QED
  BY <1>5, <1>6, <1>7

Fragment(s) == IF Tracker!CouldBeMarkerFragment(s) THEN s ELSE <<>>
Drained(s) == Tracker!Drain(s, FALSE)
Flushed(s) == Tracker!Drain(s, TRUE)

LEMMA DrainIs ==
  ASSUME NEW s, s \in Seq(Tk), NEW b, b = Tracker!Lines(s)
  PROVE  /\ Drained(s) =
              [out |-> IF Fragment(b.begun) = <<>> THEN Cat(b.out, b.begun) ELSE b.out,
               commands |-> b.commands, pending |-> Fragment(b.begun)]
         /\ Flushed(s) =
              [out |-> Cat(b.out, b.begun), commands |-> b.commands, pending |-> <<>>]
<1>1. b.out \in Seq(Tk) /\ b.begun \in Seq(Tk)
  BY LinesType, OutcomeIs
<1>2. b.out \o <<>> = b.out
  BY <1>1, ConcatEmptySeq
<1>3. Fragment(b.begun) = <<>> <=> ~Tracker!CouldBeMarkerFragment(b.begun)
  BY DEF Fragment, Tracker!CouldBeMarkerFragment
<1>4. QED
  BY <1>2, <1>3 DEF Drained, Flushed, Tracker!Drain, Fragment, Cat

LEMMA BeginningLines ==
  ASSUME NEW s, s \in Tracker!Beginnings
  PROVE  Tracker!Lines(s) = [out |-> <<>>, commands |-> <<>>, begun |-> s]
<1> DEFINE none == <<>>
           one == Append(none, G)
           two == Append(one, E)
<1>1. G \in Tk /\ E \in Tk /\ G # N /\ E # N
  BY MarkersAre, TokensDiffer
<1>2. none \in Seq(Tk)
  BY EmptySeq
<1>3. Tracker!Lines(none) = [out |-> <<>>, commands |-> <<>>, begun |-> none]
  BY LinesEmpty DEF Nil
<1>4. s = none \/ s = one \/ s = two
  BY BeginningsAre
<1> HIDE DEF none
<1>5. one \in Seq(Tk) /\ Tracker!Lines(one) = [out |-> <<>>, commands |-> <<>>, begun |-> one]
  <2>1. Tracker!Lines(one) = TokenTaken(Tracker!Lines(none), G)
    BY <1>1, <1>2, LinesAppend
  <2>2. QED
    BY <1>1, <1>2, <1>3, <2>1, AppendProperties DEF TokenTaken
<1> HIDE DEF one
<1>6. Tracker!Lines(two) = [out |-> <<>>, commands |-> <<>>, begun |-> two]
  <2>1. Tracker!Lines(two) = TokenTaken(Tracker!Lines(one), E)
    BY <1>1, <1>5, LinesAppend
  <2>2. QED
    BY <1>1, <1>5, <2>1 DEF TokenTaken
<1>7. QED
  BY <1>3, <1>4, <1>5, <1>6

LEMMA BeginningHead ==
  ASSUME NEW s, NEW t, s \in Seq(Tk), t \in Seq(Tk), Cat(s, t) \in Tracker!Beginnings
  PROVE  s \in Tracker!Beginnings
<1> DEFINE w == Cat(s, t)
<1>1. /\ w \in Seq(Tk) /\ Len(w) = Len(s) + Len(t) /\ Len(s) \in Nat /\ Len(t) \in Nat
      /\ \A i \in 1 .. Len(s) : w[i] = s[i]
  BY ConcatProperties, LenProperties DEF Cat
<1>2. Len(t) = 0 => w = s
  <2>1. Len(t) = 0 => t = <<>>
    BY EmptySeq
  <2>2. s \o <<>> = s
    BY ConcatEmptySeq
  <2>3. QED
    BY <2>1, <2>2 DEF Cat
<1>3. Len(s) = 0 => s = <<>>
  BY EmptySeq
<1>4. (w = <<>> => Len(w) = 0) /\ (w = <<G>> => Len(w) = 1)
      /\ (w = <<G, E>> => Len(w) = 2 /\ w[1] = G)
  OBVIOUS
<1>5. w \in {<<>>, <<G>>, <<G, E>>}
  BY BeginningsAre
<1> HIDE DEF w
<1>6. Len(s) = 1 /\ w = <<G, E>> => s = <<G>>
  <2>1. SUFFICES ASSUME Len(s) = 1, w = <<G, E>> PROVE s = <<G>>
    OBVIOUS
  <2>2. s[1] = G
    BY <1>1, <1>4, <2>1
  <2>3. QED
    BY <2>1, <2>2
<1>7. Len(w) \in {0, 1, 2}
  BY <1>4, <1>5
<1>9. Len(s) = 0 \/ Len(t) = 0 \/ (Len(s) = 1 /\ Len(w) = 2)
  <2> DEFINE m == Len(s)
             n == Len(t)
             k == Len(w)
  <2>1. m \in Nat /\ n \in Nat /\ k = m + n /\ k \in {0, 1, 2}
    BY <1>1, <1>7
  <2> HIDE DEF m, n, k
  <2>2. m = 0 \/ n = 0 \/ (m = 1 /\ k = 2)
    BY <2>1
  <2>3. QED
    BY <2>2 DEF m, n, k
<1>10. Len(w) = 2 => w = <<G, E>>
  BY <1>4, <1>5
<1>11. CASE Len(s) = 0
  BY <1>3, <1>11, BeginningsAre
<1>12. CASE Len(t) = 0
  BY <1>2, <1>12 DEF w
<1>13. CASE Len(s) = 1 /\ Len(w) = 2
  BY <1>6, <1>10, <1>13, BeginningsAre
<1>8. QED
  BY <1>9, <1>11, <1>12, <1>13
-----------------------------------------------------------------------------
(* CompletionTracker: what a chunk adds to the lines *)
NoEnd(s) == \A i \in 1 .. Len(s) : s[i] # N
Quiet(u, v, r) ==
    \A s, t \in Seq(Tk) :
        Cat(s, t) = r /\ Tracker!IsLine(s) =>
            ~Tracker!Hidden(Cat(u, s)) /\ ~Tracker!Hidden(Cat(v, s))

LEMMA IsLineIs ==
  ASSUME NEW s, s \in Seq(Tk)
  PROVE  Tracker!IsLine(s) <=>
            Len(s) # 0 /\ \A i \in 1 .. Len(s) : s[i] = N <=> i = Len(s)
<1>1. DOMAIN s = 1 .. Len(s) /\ (s = <<>> <=> Len(s) = 0)
  BY LenProperties, EmptySeq
<1>2. QED
  BY <1>1 DEF Tracker!IsLine

LEMMA LineEnds ==
  ASSUME NEW s, s \in Seq(Tk), NoEnd(s) PROVE Tracker!IsLine(Append(s, N))
<1> DEFINE t == Append(s, N)
<1>1. /\ t \in Seq(Tk) /\ Len(t) = Len(s) + 1 /\ Len(s) \in Nat /\ t[Len(s) + 1] = N
      /\ \A i \in 1 .. Len(s) : t[i] = s[i]
  BY MarkersAre, AppendProperties, LenProperties
<1> HIDE DEF t
<1>2. \A i \in 1 .. Len(t) : t[i] = N <=> i = Len(t)
  BY <1>1 DEF NoEnd
<1>3. Len(t) # 0 /\ t \in Seq(Tk)
  BY <1>1
<1>4. Tracker!IsLine(t)
  BY <1>2, <1>3, IsLineIs
<1>5. QED
  BY <1>4 DEF t

LEMMA AppendInCat ==
  ASSUME NEW V, NEW s, NEW t, NEW x, s \in Seq(V), t \in Seq(V), x \in V
  PROVE  Cat(s, Append(t, x)) = Append(Cat(s, t), x)
  BY AppendOfConcat DEF Cat

LEMMA LineLater ==
  ASSUME NEW s, NEW t, s \in Seq(Tk), t \in Seq(Tk), NoEnd(s), Tracker!IsLine(t)
  PROVE  Tracker!IsLine(Cat(s, t))
<1> DEFINE w == Cat(s, t)
<1>1. /\ w \in Seq(Tk) /\ Len(w) = Len(s) + Len(t) /\ Len(s) \in Nat /\ Len(t) \in Nat
      /\ \A i \in 1 .. Len(s) + Len(t) : w[i] = IF i <= Len(s) THEN s[i] ELSE t[i - Len(s)]
  BY ConcatProperties, LenProperties DEF Cat
<1>2. Len(t) # 0 /\ \A i \in 1 .. Len(t) : t[i] = N <=> i = Len(t)
  BY IsLineIs
<1> HIDE DEF w
<1>3. ASSUME NEW i \in 1 .. Len(w) PROVE w[i] = N <=> i = Len(w)
  <2>1. CASE i <= Len(s)
    <3>1. w[i] = s[i] /\ s[i] # N
      BY <1>1, <2>1 DEF NoEnd
    <3>2. i # Len(w)
      BY <1>1, <1>2, <2>1
    <3>3. QED
      BY <3>1, <3>2
  <2>2. CASE ~(i <= Len(s))
    <3>1. i - Len(s) \in 1 .. Len(t) /\ w[i] = t[i - Len(s)]
      BY <1>1, <2>2
    <3>2. i = Len(w) <=> i - Len(s) = Len(t)
      BY <1>1
    <3>3. t[i - Len(s)] = N <=> i - Len(s) = Len(t)
      BY <1>2, <3>1
    <3>4. QED
      BY <3>1, <3>2, <3>3
  <2>3. QED
    BY <2>1, <2>2
<1>4. Len(w) # 0
  BY <1>1, <1>2
<1>5. QED
  BY <1>1, <1>3, <1>4, IsLineIs DEF w

LEMMA HarmlessQuiet ==
  ASSUME NEW u, NEW r, u \in Seq(Tk), r \in Seq(Tk), Tracker!Harmless(u, r),
         u \notin Tracker!Beginnings
  PROVE  Quiet(u, <<>>, r)
<1>1. ASSUME NEW s \in Seq(Tk), NEW t \in Seq(Tk), Cat(s, t) = r, Tracker!IsLine(s)
      PROVE  ~Tracker!Hidden(Cat(u, s)) /\ ~Tracker!Hidden(Cat(<<>>, s))
  <2> DEFINE k == Len(s)
  <2>1. k \in Nat /\ Len(t) \in Nat /\ k # 0 /\ Len(r) = k + Len(t) /\ DOMAIN r = 1 .. Len(r)
    BY <1>1, IsLineIs, LenProperties, ConcatProperties DEF Cat
  <2>2. 1 \in 1 .. Len(s) /\ Len(s) \in 1 .. Len(s)
    BY <2>1
  <2>3. SubSeq(s \o t, 1, Len(s)) = SubSeq(s, 1, Len(s))
    BY <2>2, SubSeqOfConcat1
  <2>4. SubSeq(r, 1, k) = s
    BY <1>1, <2>3, SubSeqFull DEF Cat
  <2>5. k \in DOMAIN r
    BY <2>1
  <2>6. ~Tracker!Hidden(u \o s) /\ ~Tracker!Hidden(s)
    BY <1>1, <2>4, <2>5 DEF Tracker!Harmless
  <2>7. <<>> \o s = s
    BY ConcatEmptySeq
  <2>8. QED
    BY <2>6, <2>7 DEF Cat
<1>2. QED
  BY <1>1 DEF Quiet

LEMMA QuietLater ==
  ASSUME NEW u, NEW v, NEW s, NEW r, u \in Seq(Tk), v \in Seq(Tk), s \in Seq(Tk), r \in Seq(Tk),
         NoEnd(s), Quiet(u, v, Cat(s, r))
  PROVE  Quiet(Cat(u, s), Cat(v, s), r)
<1>1. ASSUME NEW l \in Seq(Tk), NEW t \in Seq(Tk), Cat(l, t) = r, Tracker!IsLine(l)
      PROVE  ~Tracker!Hidden(Cat(Cat(u, s), l)) /\ ~Tracker!Hidden(Cat(Cat(v, s), l))
  <2> DEFINE sl == Cat(s, l)
  <2>1. sl \in Seq(Tk) /\ Tracker!IsLine(sl)
    BY <1>1, CatType, LineLater
  <2>2. Cat(sl, t) = Cat(s, r)
    BY <1>1, CatAssociative
  <2>3. Cat(Cat(u, s), l) = Cat(u, sl)
    BY CatAssociative
  <2>4. Cat(Cat(v, s), l) = Cat(v, sl)
    BY CatAssociative
  <2> HIDE DEF sl
  <2>5. ~Tracker!Hidden(Cat(u, sl)) /\ ~Tracker!Hidden(Cat(v, sl))
    BY <2>1, <2>2 DEF Quiet
  <2>6. QED
    BY <2>3, <2>4, <2>5
<1>2. QED
  BY <1>1 DEF Quiet

(* The lines from the pending text on, and those from the start on: they give the same, or
   the line that is begun in both differs. *)
Alike(sh, b, p, w) ==
    Cat(sh, p.out) = w.out /\ Cat(b.commands, p.commands) = w.commands /\ p.begun = w.begun
Apart(b, t, s, p, w) ==
    /\ p = [out |-> <<>>, commands |-> <<>>, begun |-> Cat(t, s)]
    /\ w = [out |-> b.out, commands |-> b.commands, begun |-> Cat(b.begun, s)]
    /\ NoEnd(s)

LEMMA TakeLineIs ==
  ASSUME NEW b, NEW l, b \in Outcome
  PROVE  Tracker!TakeLine(b, l) =
            [out |-> IF Tracker!Hidden(l) THEN b.out ELSE Cat(b.out, l),
             commands |-> IF Tracker!IsMetadata(l) THEN Append(b.commands, Tracker!Normalize(l)[4])
                          ELSE b.commands,
             begun |-> <<>>]
  BY DEF Tracker!TakeLine, Cat

LEMMA AlikeStep ==
  ASSUME NEW sh, NEW b, NEW p, NEW w, NEW x, sh \in Seq(Tk), b \in Outcome, p \in Outcome,
         w \in Outcome, x \in Tk, Alike(sh, b, p, w)
  PROVE  Alike(sh, b, TokenTaken(p, x), TokenTaken(w, x))
<1> DEFINE l == Append(p.begun, x)
           y == Tracker!Normalize(l)[4]
<1>1. /\ p.out \in Seq(Tk) /\ p.commands \in Seq(Data) /\ p.begun \in Seq(Tk)
      /\ b.commands \in Seq(Data)
  BY OutcomeIs
<1>2. Cat(sh, p.out) = w.out /\ Cat(b.commands, p.commands) = w.commands /\ p.begun = w.begun
  BY DEF Alike
<1>3. TokenTaken(p, x) = (IF x = N THEN Tracker!TakeLine(p, l)
                          ELSE [out |-> p.out, commands |-> p.commands, begun |-> l])
      /\ TokenTaken(w, x) = (IF x = N THEN Tracker!TakeLine(w, l)
                             ELSE [out |-> w.out, commands |-> w.commands, begun |-> l])
  BY <1>2 DEF TokenTaken
<1>4. l \in Seq(Tk)
  BY <1>1, AppendProperties
<1>5. Tracker!IsMetadata(l) => y \in Data
  BY DEF Tracker!IsMetadata
<1> HIDE DEF y, l
<1>6. CASE x # N
  BY <1>2, <1>3, <1>6 DEF Alike
<1>7. CASE x = N
  <2>1. Cat(sh, Cat(p.out, l)) = Cat(w.out, l)
    BY <1>1, <1>2, <1>4, CatAssociative
  <2>2. Tracker!IsMetadata(l) =>
           Cat(b.commands, Append(p.commands, y)) = Append(w.commands, y)
    BY <1>1, <1>2, <1>5, AppendInCat
  <2>3. /\ Tracker!TakeLine(p, l) =
              [out |-> IF Tracker!Hidden(l) THEN p.out ELSE Cat(p.out, l),
               commands |-> IF Tracker!IsMetadata(l) THEN Append(p.commands, y)
                            ELSE p.commands,
               begun |-> <<>>]
        /\ Tracker!TakeLine(w, l) =
              [out |-> IF Tracker!Hidden(l) THEN w.out ELSE Cat(w.out, l),
               commands |-> IF Tracker!IsMetadata(l) THEN Append(w.commands, y)
                            ELSE w.commands,
               begun |-> <<>>]
    BY TakeLineIs DEF y
  <2> DEFINE tp == Tracker!TakeLine(p, l)
             tw == Tracker!TakeLine(w, l)
  <2>4. /\ tp.out = (IF Tracker!Hidden(l) THEN p.out ELSE Cat(p.out, l))
        /\ tp.commands = (IF Tracker!IsMetadata(l) THEN Append(p.commands, y) ELSE p.commands)
        /\ tp.begun = <<>>
        /\ tw.out = (IF Tracker!Hidden(l) THEN w.out ELSE Cat(w.out, l))
        /\ tw.commands = (IF Tracker!IsMetadata(l) THEN Append(w.commands, y) ELSE w.commands)
        /\ tw.begun = <<>>
    BY <2>3
  <2>5. TokenTaken(p, x) = tp /\ TokenTaken(w, x) = tw
    BY <1>3, <1>7
  <2> HIDE DEF tp, tw
  <2>6. Cat(sh, tp.out) = tw.out
    BY <1>2, <2>1, <2>4
  <2>7. Cat(b.commands, tp.commands) = tw.commands
    BY <1>2, <2>2, <2>4
  <2>8. QED
    BY <2>4, <2>5, <2>6, <2>7 DEF Alike
<1>8. QED
  BY <1>6, <1>7

LEMMA ApartStep ==
  ASSUME NEW sh, NEW b, NEW t, NEW s, NEW x, NEW p, NEW w,
         sh \in Seq(Tk), b \in Outcome, t \in Seq(Tk), s \in Seq(Tk), x \in Tk,
         Cat(sh, t) = Cat(b.out, b.begun), Apart(b, t, s, p, w),
         x = N => /\ ~Tracker!Hidden(Cat(t, Append(s, x)))
                  /\ ~Tracker!Hidden(Cat(b.begun, Append(s, x)))
  PROVE  Apart(b, t, Append(s, x), TokenTaken(p, x), TokenTaken(w, x))
         \/ Alike(sh, b, TokenTaken(p, x), TokenTaken(w, x))
<1> DEFINE sx == Append(s, x)
           lp == Cat(t, sx)
           lw == Cat(b.begun, sx)
<1>1. b.out \in Seq(Tk) /\ b.commands \in Seq(Data) /\ b.begun \in Seq(Tk)
  BY OutcomeIs
<1>2. /\ p.out = <<>> /\ p.commands = <<>> /\ p.begun = Cat(t, s)
      /\ w.out = b.out /\ w.commands = b.commands /\ w.begun = Cat(b.begun, s) /\ NoEnd(s)
  BY DEF Apart
<1>3. sx \in Seq(Tk) /\ Append(p.begun, x) = lp /\ Append(w.begun, x) = lw
  <2>1. Append(Cat(t, s), x) = lp
    BY AppendInCat
  <2>2. Append(Cat(b.begun, s), x) = lw
    BY <1>1, AppendInCat
  <2>3. QED
    BY <1>2, <2>1, <2>2, AppendProperties
<1>4. p \in Outcome /\ w \in Outcome
  <2>1. Cat(t, s) \in Seq(Tk) /\ Cat(b.begun, s) \in Seq(Tk) /\ <<>> \in Seq(Tk) /\ <<>> \in Seq(Data)
    BY <1>1, CatType, EmptySeq
  <2>2. QED
    BY <1>1, <2>1 DEF Apart, Outcome
<1> HIDE DEF sx
<1>5. lp \in Seq(Tk) /\ lw \in Seq(Tk)
  BY <1>1, <1>3, CatType
<1>6. CASE x # N
  <2>1. NoEnd(sx)
    BY <1>2, <1>6, LenProperties, AppendProperties DEF NoEnd, sx
  <2>2. /\ TokenTaken(p, x) = [out |-> <<>>, commands |-> <<>>, begun |-> lp]
        /\ TokenTaken(w, x) = [out |-> b.out, commands |-> b.commands, begun |-> lw]
    BY <1>2, <1>3, <1>6 DEF TokenTaken
  <2>3. QED
    BY <2>1, <2>2 DEF Apart, sx
<1>7. CASE x = N
  <2>1. ~Tracker!Hidden(lp) /\ ~Tracker!Hidden(lw)
    BY <1>7 DEF sx
  <2>2. Cat(sh, lp) = Cat(b.out, lw)
    <3>1. Cat(Cat(sh, t), sx) = Cat(sh, lp)
      BY <1>3, CatAssociative
    <3>2. Cat(Cat(b.out, b.begun), sx) = Cat(b.out, lw)
      BY <1>1, <1>3, CatAssociative
    <3>3. QED
      BY <3>1, <3>2
  <2> HIDE DEF lp, lw
  <2>3. /\ TokenTaken(p, x) = [out |-> Cat(<<>>, lp), commands |-> <<>>, begun |-> <<>>]
        /\ TokenTaken(w, x) = [out |-> Cat(b.out, lw), commands |-> b.commands, begun |-> <<>>]
    <3>1. TokenTaken(p, x) = Tracker!TakeLine(p, lp) /\ TokenTaken(w, x) = Tracker!TakeLine(w, lw)
      BY <1>3, <1>7 DEF TokenTaken
    <3>2. QED
      BY <1>2, <1>4, <2>1, <3>1, TakeLineIs DEF Tracker!Hidden
  <2>4. Cat(<<>>, lp) = lp
    BY <1>5, ConcatEmptySeq DEF Cat
  <2>5. Cat(b.commands, <<>>) = b.commands
    BY <1>1, ConcatEmptySeq DEF Cat
  <2>6. Alike(sh, b, TokenTaken(p, x), TokenTaken(w, x))
    BY <2>2, <2>3, <2>4, <2>5 DEF Alike
  <2>7. QED
    BY <2>6
<1>8. QED
  BY <1>6, <1>7

LEMMA CancelRight ==
  ASSUME NEW V, NEW s, NEW t, NEW u, s \in Seq(V), t \in Seq(V), u \in Seq(V),
         Cat(s, u) = Cat(t, u)
  PROVE  s = t
<1> DEFINE m == Len(s)
           n == Len(t)
           k == Len(u)
           su == Cat(s, u)
           tu == Cat(t, u)
<1>1. m \in Nat /\ n \in Nat /\ k \in Nat
  BY LenProperties
<1>2. Len(su) = m + k /\ \A i \in 1 .. m + k : su[i] = IF i <= m THEN s[i] ELSE u[i - m]
  BY ConcatProperties DEF Cat
<1>3. Len(tu) = n + k /\ \A i \in 1 .. n + k : tu[i] = IF i <= n THEN t[i] ELSE u[i - n]
  BY ConcatProperties DEF Cat
<1> HIDE DEF su, tu, m, n, k
<1>4. m = n
  <2>1. su = tu
    BY DEF su, tu
  <2>2. QED
    BY <1>1, <1>2, <1>3, <2>1
<1>5. ASSUME NEW i \in 1 .. m PROVE s[i] = t[i]
  <2>1. su[i] = s[i]
    BY <1>1, <1>2
  <2>2. tu[i] = t[i]
    BY <1>1, <1>3, <1>4
  <2>3. QED
    BY <2>1, <2>2 DEF su, tu
<1>6. QED
  BY <1>4, <1>5, SeqEqual DEF m, n

LEMMA CatNothing ==
  ASSUME NEW V, NEW s, s \in Seq(V) PROVE Cat(s, <<>>) = s /\ Cat(<<>>, s) = s
  BY ConcatEmptySeq DEF Cat

LEMMA ChunkStarts ==
  ASSUME NEW sh, NEW t, NEW u, NEW b, NEW r, sh \in Seq(Tk), t \in Tracker!Beginnings,
         u \in Seq(Tk), b = Tracker!Lines(u), Cat(sh, t) = Cat(b.out, b.begun),
         t = b.begun \/ (b.begun \notin Tracker!Beginnings /\ Quiet(b.begun, t, r))
  PROVE  \/ Alike(sh, b, Tracker!Lines(t), b)
         \/ /\ b.begun \notin Tracker!Beginnings /\ Quiet(b.begun, t, r)
            /\ Apart(b, t, <<>>, Tracker!Lines(t), b)
<1>1. b \in Outcome /\ t \in Seq(Tk)
  BY LinesType, BeginningsAre
<1>2. /\ b.out \in Seq(Tk) /\ b.commands \in Seq(Data) /\ b.begun \in Seq(Tk)
      /\ b = [out |-> b.out, commands |-> b.commands, begun |-> b.begun]
  BY <1>1, OutcomeIs
<1>3. Tracker!Lines(t) = [out |-> <<>>, commands |-> <<>>, begun |-> t]
  BY BeginningLines
<1>4. Cat(sh, <<>>) = sh /\ Cat(b.commands, <<>>) = b.commands
  BY <1>2, CatNothing
<1>5. Cat(t, <<>>) = t /\ Cat(b.begun, <<>>) = b.begun
  BY <1>1, <1>2, CatNothing
<1>6. CASE t = b.begun
  <2>1. sh = b.out
    BY <1>1, <1>2, <1>6, CancelRight
  <2>2. QED
    BY <1>3, <1>4, <1>6, <2>1 DEF Alike
<1>7. CASE b.begun \notin Tracker!Beginnings /\ Quiet(b.begun, t, r)
  <2>1. NoEnd(<<>>)
    BY DEF NoEnd
  <2>2. Apart(b, t, <<>>, Tracker!Lines(t), b)
    BY <1>2, <1>3, <1>5, <2>1 DEF Apart
  <2>3. QED
    BY <1>7, <2>2
<1>8. QED
  BY <1>6, <1>7

LEMMA ChunkLines ==
  ASSUME NEW sh, NEW t, NEW u, NEW b, NEW r, NEW c, NEW y, sh \in Seq(Tk),
         t \in Tracker!Beginnings, u \in Seq(Tk), c \in Seq(Tk), y \in Seq(Tk), Cat(c, y) = r,
         b = Tracker!Lines(u), Cat(sh, t) = Cat(b.out, b.begun),
         t = b.begun \/ (b.begun \notin Tracker!Beginnings /\ Quiet(b.begun, t, r))
  PROVE  \/ Alike(sh, b, Tracker!Lines(Cat(t, c)), Tracker!Lines(Cat(u, c)))
         \/ /\ b.begun \notin Tracker!Beginnings /\ Quiet(b.begun, t, r)
            /\ Apart(b, t, c, Tracker!Lines(Cat(t, c)), Tracker!Lines(Cat(u, c)))
<1> DEFINE Differs == b.begun \notin Tracker!Beginnings /\ Quiet(b.begun, t, r)
           Q(s) == \/ Alike(sh, b, Tracker!Lines(Cat(t, s)), Tracker!Lines(Cat(u, s)))
                   \/ Differs /\ Apart(b, t, s, Tracker!Lines(Cat(t, s)), Tracker!Lines(Cat(u, s)))
           P == {s \in Seq(Tk) : \A z \in Seq(Tk) : Cat(s, z) = r => Q(s)}
<1>1. b \in Outcome /\ t \in Seq(Tk)
  BY LinesType, BeginningsAre
<1>2. b.begun \in Seq(Tk)
  BY <1>1, OutcomeIs
<1>3. <<>> \in P
  <2>1. Cat(t, <<>>) = t /\ Cat(u, <<>>) = u /\ <<>> \in Seq(Tk)
    BY <1>1, CatNothing, EmptySeq
  <2>2. Q(<<>>)
    <3>1. \/ Alike(sh, b, Tracker!Lines(t), b)
          \/ Differs /\ Apart(b, t, <<>>, Tracker!Lines(t), b)
      BY ChunkStarts
    <3>2. QED
      BY <2>1, <3>1
  <2>3. QED
    BY <2>1, <2>2
<1>4. ASSUME NEW s \in Seq(Tk), s \in P, NEW x \in Tk PROVE Append(s, x) \in P
  <2> DEFINE sx == Append(s, x)
  <2>1. sx \in Seq(Tk) /\ <<x>> \in Seq(Tk) /\ sx = Cat(s, <<x>>)
    BY AppendProperties, AppendCat
  <2>2. ASSUME NEW z \in Seq(Tk), Cat(sx, z) = r PROVE Q(sx)
    <3> DEFINE xz == Cat(<<x>>, z)
    <3>1. xz \in Seq(Tk) /\ Cat(s, xz) = r
      <4>1. xz \in Seq(Tk)
        BY <2>1, <2>2, CatType
      <4>2. Cat(Cat(s, <<x>>), z) = Cat(s, xz)
        <5> DEFINE one == <<x>>
        <5>1. one \in Seq(Tk)
          BY <2>1
        <5> HIDE DEF one
        <5>2. Cat(Cat(s, one), z) = Cat(s, Cat(one, z))
          BY <5>1, CatAssociative
        <5>3. QED
          BY <5>2 DEF one
      <4>3. QED
        BY <2>1, <2>2, <4>1, <4>2
    <3> HIDE DEF xz, Q
    <3>2. Q(s)
      BY <1>4, <3>1
    <3> DEFINE p == Tracker!Lines(Cat(t, s))
               w == Tracker!Lines(Cat(u, s))
               px == Tracker!Lines(Cat(t, sx))
               wx == Tracker!Lines(Cat(u, sx))
    <3>3. p \in Outcome /\ w \in Outcome /\ px = TokenTaken(p, x) /\ wx = TokenTaken(w, x)
      <4>1. Cat(t, s) \in Seq(Tk) /\ Cat(u, s) \in Seq(Tk)
        BY <1>1, CatType
      <4>2. Cat(t, sx) = Append(Cat(t, s), x) /\ Cat(u, sx) = Append(Cat(u, s), x)
        BY <1>1, AppendInCat
      <4> HIDE DEF sx
      <4>3. QED
        BY <4>1, <4>2, LinesType, LinesAppend
    <3>4. Alike(sh, b, p, w) \/ (Differs /\ Apart(b, t, s, p, w))
      BY <3>2 DEF Q
    <3> HIDE DEF p, w, px, wx
    <3>5. CASE Alike(sh, b, p, w)
      <4>1. Alike(sh, b, px, wx)
        BY <1>1, <3>3, <3>5, AlikeStep
      <4>2. QED
        BY <4>1 DEF Q, px, wx
    <3>6. CASE Differs /\ Apart(b, t, s, p, w)
      <4>1. x = N => ~Tracker!Hidden(Cat(t, sx)) /\ ~Tracker!Hidden(Cat(b.begun, sx))
        <5>1. NoEnd(s)
          BY <3>6 DEF Apart
        <5>2. x = N => Tracker!IsLine(sx)
          BY <5>1, LineEnds
        <5>3. QED
          BY <2>1, <2>2, <3>6, <5>2 DEF Quiet
      <4>2. Apart(b, t, sx, px, wx) \/ Alike(sh, b, px, wx)
        BY <1>1, <3>3, <3>6, <4>1, ApartStep
      <4>3. QED
        BY <3>6, <4>2 DEF Q, px, wx
    <3>7. QED
      BY <3>4, <3>5, <3>6
  <2>3. QED
    BY <2>1, <2>2
<1>5. \A s \in Seq(Tk) : s \in P
  <2> HIDE DEF P
  <2>1. QED
    BY <1>3, <1>4, SequencesByInduction
<1>6. Q(c)
  BY <1>5
<1>7. QED
  BY <1>6

LEMMA HeldOrShown ==
  ASSUME NEW p, NEW q, NEW o, p \in Outcome, q = Fragment(p.begun),
         o = IF q = <<>> THEN Cat(p.out, p.begun) ELSE p.out
  PROVE  /\ q \in Tracker!Beginnings /\ q \in Seq(Tk) /\ o \in Seq(Tk)
         /\ (q = p.begun /\ p.begun \in Tracker!Beginnings)
            \/ (q = <<>> /\ p.begun \notin Tracker!Beginnings)
         /\ Cat(o, q) = Cat(p.out, p.begun)
<1>1. p.out \in Seq(Tk) /\ p.begun \in Seq(Tk)
  BY OutcomeIs
<1>2. q = IF p.begun # <<>> /\ p.begun \in Tracker!Beginnings THEN p.begun ELSE <<>>
  BY <1>1, FragmentIs DEF Fragment
<1>3. <<>> \in Tracker!Beginnings /\ <<>> \in Seq(Tk)
  BY BeginningsAre
<1>4. /\ q \in Tracker!Beginnings /\ q \in Seq(Tk)
      /\ (q = p.begun /\ p.begun \in Tracker!Beginnings)
         \/ (q = <<>> /\ p.begun \notin Tracker!Beginnings)
  BY <1>1, <1>2, <1>3
<1>5. Cat(p.out, p.begun) \in Seq(Tk)
  BY <1>1, CatType
<1>6. CASE q = <<>>
  <2>1. o = Cat(p.out, p.begun)
    BY <1>6
  <2>2. Cat(o, <<>>) = o
    BY <1>5, <2>1, CatNothing
  <2>3. QED
    BY <1>4, <1>5, <1>6, <2>1, <2>2
<1>7. CASE q # <<>>
  BY <1>1, <1>4, <1>7
<1>8. QED
  BY <1>6, <1>7

LEMMA ChunkFollows ==
  ASSUME NEW sh, NEW t, NEW u, NEW b, NEW r, NEW c, NEW y, NEW p, NEW w, NEW q, NEW o,
         sh \in Seq(Tk), t \in Tracker!Beginnings, u \in Seq(Tk), c \in Seq(Tk), y \in Seq(Tk),
         Cat(c, y) = r, b = Tracker!Lines(u), Cat(sh, t) = Cat(b.out, b.begun),
         t = b.begun \/ (b.begun \notin Tracker!Beginnings /\ Quiet(b.begun, t, r)),
         p = Tracker!Lines(Cat(t, c)), w = Tracker!Lines(Cat(u, c)), q = Fragment(p.begun),
         o = IF q = <<>> THEN Cat(p.out, p.begun) ELSE p.out, Tracker!Harmless(w.begun, y)
  PROVE  /\ Cat(Cat(sh, o), q) = Cat(w.out, w.begun)
         /\ Cat(b.commands, p.commands) = w.commands
         /\ q = w.begun \/ (w.begun \notin Tracker!Beginnings /\ Quiet(w.begun, q, y))
<1>1. /\ t \in Seq(Tk) /\ b \in Outcome /\ p \in Outcome /\ w \in Outcome
  <2>1. t \in Seq(Tk)
    BY BeginningsAre
  <2>2. Cat(t, c) \in Seq(Tk) /\ Cat(u, c) \in Seq(Tk)
    BY <2>1, CatType
  <2>3. QED
    BY <2>1, <2>2, LinesType
<1>2. /\ b.out \in Seq(Tk) /\ b.begun \in Seq(Tk) /\ b.commands \in Seq(Data)
      /\ p.out \in Seq(Tk) /\ p.begun \in Seq(Tk)
      /\ w.out \in Seq(Tk) /\ w.begun \in Seq(Tk)
  BY <1>1, OutcomeIs
<1>3. /\ q \in Tracker!Beginnings /\ q \in Seq(Tk) /\ o \in Seq(Tk)
      /\ (q = p.begun /\ p.begun \in Tracker!Beginnings)
         \/ (q = <<>> /\ p.begun \notin Tracker!Beginnings)
      /\ Cat(o, q) = Cat(p.out, p.begun)
  BY <1>1, HeldOrShown
<1>4. Cat(Cat(sh, o), q) = Cat(Cat(sh, p.out), p.begun)
  <2>1. Cat(Cat(sh, o), q) = Cat(sh, Cat(o, q))
    BY <1>3, CatAssociative
  <2>2. Cat(Cat(sh, p.out), p.begun) = Cat(sh, Cat(p.out, p.begun))
    BY <1>2, CatAssociative
  <2>3. QED
    BY <1>3, <2>1, <2>2
<1>5. Alike(sh, b, p, w)
      \/ (b.begun \notin Tracker!Beginnings /\ Quiet(b.begun, t, r) /\ Apart(b, t, c, p, w))
  BY ChunkLines
<1>6. w.begun \notin Tracker!Beginnings => Quiet(w.begun, <<>>, y)
  BY <1>2, HarmlessQuiet
<1>7. CASE Alike(sh, b, p, w)
  <2>1. Cat(sh, p.out) = w.out /\ Cat(b.commands, p.commands) = w.commands /\ p.begun = w.begun
    BY <1>7 DEF Alike
  <2>2. QED
    BY <1>3, <1>4, <1>6, <2>1
<1>8. CASE b.begun \notin Tracker!Beginnings /\ Quiet(b.begun, t, r) /\ Apart(b, t, c, p, w)
  <2> DEFINE v == Cat(b.begun, c)
             k == Cat(t, c)
  <2>1. /\ p.out = <<>> /\ p.commands = <<>> /\ p.begun = k
        /\ w.out = b.out /\ w.commands = b.commands /\ w.begun = v /\ NoEnd(c)
    BY <1>8 DEF Apart
  <2>2. v \notin Tracker!Beginnings
    BY <1>2, <1>8, BeginningHead
  <2>3. Quiet(v, k, y)
    BY <1>1, <1>2, <1>8, <2>1, QuietLater
  <2>4. Cat(sh, k) = Cat(b.out, v)
    <3>1. Cat(Cat(sh, t), c) = Cat(sh, k)
      BY <1>1, CatAssociative
    <3>2. Cat(Cat(b.out, b.begun), c) = Cat(b.out, v)
      BY <1>2, CatAssociative
    <3>3. QED
      BY <3>1, <3>2
  <2>5. Cat(sh, <<>>) = sh /\ Cat(b.commands, <<>>) = b.commands
    BY <1>2, CatNothing
  <2> HIDE DEF v, k
  <2>6. QED
    BY <1>3, <1>4, <1>6, <2>1, <2>2, <2>3, <2>4, <2>5
<1>9. QED
  BY <1>5, <1>7, <1>8
-----------------------------------------------------------------------------
(* CompletionTracker: what is shown, held and still to be read, and what was completed *)
Balanced(sh, t, r, dn, h) ==
    LET w == Cat(Cat(sh, t), r)
    IN  /\ Only(w, {X}) = Only(h, {X})
        /\ \A d \in Data : Count(dn, d) + Count(w, d) = Count(h, d)

IsSum(n, i, j) == n = i + j /\ i \in Nat /\ j \in Nat
IsSumOfThree(n, i, j, k) == n = i + j + k /\ i \in Nat /\ j \in Nat /\ k \in Nat

LEMMA CountCatIn ==
  ASSUME NEW V, NEW s, NEW t, NEW d, s \in Seq(V), t \in Seq(V)
  PROVE  IsSum(Count(Cat(s, t), d), Count(s, d), Count(t, d))
<1> DEFINE u == Only(s, {d})
           v == Only(t, {d})
<1>1. Only(s \o t, {d}) = u \o v
  BY OnlyConcat
<1>2. u \in Seq(V) /\ v \in Seq(V)
  BY OnlyType
<1> HIDE DEF u, v
<1>3. Len(u \o v) = Len(u) + Len(v) /\ Len(u) \in Nat /\ Len(v) \in Nat
  BY <1>2
<1>4. QED
  BY <1>1, <1>3 DEF u, v, Count, Cat, IsSum

LEMMA Rearranged ==
  ASSUME NEW sh, NEW t, NEW c, NEW y, sh \in Seq(Tk), t \in Seq(Tk), c \in Seq(Tk), y \in Seq(Tk)
  PROVE  Cat(Cat(sh, t), Cat(c, y)) = Cat(sh, Cat(Cat(t, c), y))
<1>1. Cat(c, y) \in Seq(Tk) /\ Cat(t, c) \in Seq(Tk)
  BY CatType
<1>2. Cat(Cat(sh, t), Cat(c, y)) = Cat(sh, Cat(t, Cat(c, y)))
  BY <1>1, CatAssociative
<1>3. Cat(t, Cat(c, y)) = Cat(Cat(t, c), y)
  BY CatAssociative
<1>4. QED
  BY <1>2, <1>3

LEMMA MiddleOnly ==
  ASSUME NEW sh, NEW g, NEW y, NEW S, sh \in Seq(Tk), g \in Seq(Tk), y \in Seq(Tk)
  PROVE  Only(Cat(sh, Cat(g, y)), S) = Cat(Only(sh, S), Cat(Only(g, S), Only(y, S)))
<1>1. Cat(g, y) \in Seq(Tk)
  BY CatType
<1>2. Only(Cat(sh, Cat(g, y)), S) = Cat(Only(sh, S), Only(Cat(g, y), S))
  BY <1>1, OnlyCat
<1>3. Only(Cat(g, y), S) = Cat(Only(g, S), Only(y, S))
  BY OnlyCat
<1>4. QED
  BY <1>2, <1>3

LEMMA MiddleCount ==
  ASSUME NEW sh, NEW g, NEW y, NEW d, sh \in Seq(Tk), g \in Seq(Tk), y \in Seq(Tk)
  PROVE  IsSumOfThree(Count(Cat(sh, Cat(g, y)), d), Count(sh, d), Count(g, d), Count(y, d))
<1>1. Cat(g, y) \in Seq(Tk)
  BY CatType
<1>2. Count(Cat(sh, Cat(g, y)), d) = Count(sh, d) + Count(Cat(g, y), d) /\ Count(sh, d) \in Nat
  BY <1>1, CountCat
<1>3. /\ Count(Cat(g, y), d) = Count(g, d) + Count(y, d)
      /\ Count(g, d) \in Nat /\ Count(y, d) \in Nat
  BY CountCat
<1>4. QED
  BY <1>2, <1>3 DEF IsSumOfThree

LEMMA MiddleBalanced ==
  ASSUME NEW sh, NEW g, NEW k, NEW y, NEW dn, NEW cm, NEW V, NEW d, NEW n,
         sh \in Seq(Tk), g \in Seq(Tk), k \in Seq(Tk), y \in Seq(Tk),
         dn \in Seq(V), cm \in Seq(V)
  PROVE  /\ Count(dn, d) + Count(Cat(sh, Cat(k, y)), d) = n
         /\ Count(cm, d) + Count(g, d) = Count(k, d)
         => Count(Cat(dn, cm), d) + Count(Cat(sh, Cat(g, y)), d) = n
<1>1. IsSumOfThree(Count(Cat(sh, Cat(k, y)), d), Count(sh, d), Count(k, d), Count(y, d))
  BY MiddleCount
<1>2. IsSumOfThree(Count(Cat(sh, Cat(g, y)), d), Count(sh, d), Count(g, d), Count(y, d))
  BY MiddleCount
<1>3. IsSum(Count(Cat(dn, cm), d), Count(dn, d), Count(cm, d))
  BY CountCatIn
<1> DEFINE before == Count(Cat(sh, Cat(k, y)), d)
           after == Count(Cat(sh, Cat(g, y)), d)
           both == Count(Cat(dn, cm), d)
           ofSh == Count(sh, d)
           ofK == Count(k, d)
           ofG == Count(g, d)
           ofY == Count(y, d)
           ofDn == Count(dn, d)
           ofCm == Count(cm, d)
<1>4. /\ before = ofSh + ofK + ofY /\ after = ofSh + ofG + ofY /\ both = ofDn + ofCm
      /\ ofSh \in Nat /\ ofK \in Nat /\ ofG \in Nat /\ ofY \in Nat
      /\ ofDn \in Nat /\ ofCm \in Nat
  BY <1>1, <1>2, <1>3, Zenon DEF IsSum, IsSumOfThree
<1> HIDE DEF before, after, both, ofSh, ofK, ofG, ofY, ofDn, ofCm
<1>5. ofCm + ofG = ofK => both + after = ofDn + before
  BY <1>4
<1>6. QED
  BY <1>5 DEF before, after, both, ofSh, ofK, ofG, ofY, ofDn, ofCm

LEMMA ChunkBalanced ==
  ASSUME NEW sh, NEW t, NEW c, NEW y, NEW o, NEW q, NEW dn, NEW cm, NEW V, NEW h,
         sh \in Seq(Tk), t \in Seq(Tk), c \in Seq(Tk), y \in Seq(Tk), o \in Seq(Tk), q \in Seq(Tk),
         dn \in Seq(V), cm \in Seq(V), Balanced(sh, t, Cat(c, y), dn, h),
         Only(Cat(o, q), {X}) = Only(Cat(t, c), {X}),
         \A d \in Data : Count(cm, d) + Count(Cat(o, q), d) = Count(Cat(t, c), d)
  PROVE  Balanced(Cat(sh, o), q, y, Cat(dn, cm), h)
<1> DEFINE k == Cat(t, c)
           g == Cat(o, q)
           wk == Cat(sh, Cat(k, y))
           wg == Cat(sh, Cat(g, y))
<1>1. k \in Seq(Tk) /\ g \in Seq(Tk)
  BY CatType
<1>2. Cat(Cat(sh, t), Cat(c, y)) = wk
  BY Rearranged
<1>3. Cat(Cat(Cat(sh, o), q), y) = wg
  <2>1. Cat(Cat(sh, o), q) = Cat(sh, g)
    BY CatAssociative
  <2>2. Cat(Cat(sh, g), y) = Cat(sh, Cat(g, y))
    BY <1>1, CatAssociative
  <2>3. QED
    BY <2>1, <2>2
<1>4. Only(wk, {X}) = Only(h, {X}) /\ \A d \in Data : Count(dn, d) + Count(wk, d) = Count(h, d)
  BY <1>2 DEF Balanced
<1>5. Only(g, {X}) = Only(k, {X}) /\ \A d \in Data : Count(cm, d) + Count(g, d) = Count(k, d)
  OBVIOUS
<1> HIDE DEF k, g
<1>6. Only(wg, {X}) = Only(wk, {X})
  BY <1>1, <1>5, MiddleOnly
<1>7. ASSUME NEW d \in Data PROVE Count(Cat(dn, cm), d) + Count(wg, d) = Count(h, d)
  <2>1. Count(dn, d) + Count(wk, d) = Count(h, d) /\ Count(cm, d) + Count(g, d) = Count(k, d)
    BY <1>4, <1>5
  <2>2. QED
    BY <1>1, <2>1, MiddleBalanced
<1> HIDE DEF wk, wg
<1>8. QED
  BY <1>3, <1>4, <1>6, <1>7 DEF Balanced

LEMMA OnlyAll ==
  ASSUME NEW s, NEW V, s \in Seq(V) PROVE Only(s, V) = s
<1> DEFINE P == {u \in Seq(V) : Only(u, V) = u}
<1>1. <<>> \in P
  BY OnlyEmpty, EmptySeq
<1>2. ASSUME NEW u \in Seq(V), u \in P, NEW x \in V PROVE Append(u, x) \in P
  BY <1>2, OnlyAppend, AppendProperties
<1>3. \A u \in Seq(V) : u \in P
  <2> HIDE DEF P
  <2>1. QED
    BY <1>1, <1>2, SequencesByInduction
<1>4. QED
  BY <1>3
-----------------------------------------------------------------------------
(* CompletionTracker: one chunk *)
Completions == Data \cup {ExitLine}
(* What was shown and is held is what b, the lines of all that was read, gives with its last
   line; what is held is that line, or neither can become a marker with what is to come. *)
Followed(b, sh, t, r, dn) ==
    /\ Cat(sh, t) = Cat(b.out, b.begun) /\ Only(dn, Data) = b.commands
    /\ t = b.begun \/ (b.begun \notin Tracker!Beginnings /\ Quiet(b.begun, t, r))

LEMMA CompletionsHold ==
  ASSUME NEW dn, NEW cm, dn \in Seq(Completions), cm \in Seq(Data)
  PROVE  /\ cm \in Seq(Completions) /\ Cat(dn, cm) \in Seq(Completions)
         /\ Only(Cat(dn, cm), Data) = Cat(Only(dn, Data), cm)
<1>1. cm \in Seq(Completions)
  BY SeqMonotonic DEF Completions
<1>2. Only(dn \o cm, Data) = Only(dn, Data) \o Only(cm, Data)
  BY <1>1, OnlyConcat
<1>3. Only(cm, Data) = cm
  BY OnlyAll
<1>4. QED
  BY <1>1, <1>2, <1>3, CatType DEF Cat

ChunkOf(t, u, c, b, p, w, q, o) ==
    /\ b = Tracker!Lines(u) /\ p = Tracker!Lines(Cat(t, c)) /\ w = Tracker!Lines(Cat(u, c))
    /\ q = Fragment(p.begun) /\ o = IF q = <<>> THEN Cat(p.out, p.begun) ELSE p.out

LEMMA ChunkKeepsFollowed ==
  ASSUME NEW sh, NEW t, NEW u, NEW b, NEW r, NEW c, NEW y, NEW p, NEW w, NEW q, NEW o, NEW dn,
         sh \in Seq(Tk), t \in Tracker!Beginnings, u \in Seq(Tk), c \in Seq(Tk), y \in Seq(Tk),
         dn \in Seq(Completions), Cat(c, y) = r, ChunkOf(t, u, c, b, p, w, q, o),
         Followed(b, sh, t, r, dn), Tracker!Harmless(w.begun, y)
  PROVE  Followed(w, Cat(sh, o), q, y, Cat(dn, p.commands))
<1>1. /\ b = Tracker!Lines(u) /\ p = Tracker!Lines(Cat(t, c)) /\ w = Tracker!Lines(Cat(u, c))
      /\ q = Fragment(p.begun) /\ o = IF q = <<>> THEN Cat(p.out, p.begun) ELSE p.out
  BY DEF ChunkOf
<1>2. /\ Cat(sh, t) = Cat(b.out, b.begun) /\ Only(dn, Data) = b.commands
      /\ t = b.begun \/ (b.begun \notin Tracker!Beginnings /\ Quiet(b.begun, t, r))
  BY DEF Followed
<1>3. /\ Cat(Cat(sh, o), q) = Cat(w.out, w.begun)
      /\ Cat(b.commands, p.commands) = w.commands
      /\ q = w.begun \/ (w.begun \notin Tracker!Beginnings /\ Quiet(w.begun, q, y))
  BY <1>1, <1>2, ChunkFollows
<1>4. p.commands \in Seq(Data)
  BY <1>1, BeginningsAre, CatType, LinesType, OutcomeIs
<1>5. Only(Cat(dn, p.commands), Data) = w.commands
  BY <1>2, <1>3, <1>4, CompletionsHold
<1>6. QED
  BY <1>3, <1>5 DEF Followed
-----------------------------------------------------------------------------
(* CompletionTracker: the invariant *)
Read == SubSeq(whole, 1, Len(whole) - Len(rest))

TrackerShape ==
    /\ whole \in Seq(Tk) /\ rest \in Seq(Tk) /\ shown \in Seq(Tk) /\ Read \in Seq(Tk)
    /\ Cat(Read, rest) = whole
    /\ pending \in Tracker!Beginnings /\ done \in Seq(Completions)
    /\ clean \in BOOLEAN /\ noted \in BOOLEAN /\ ended \in BOOLEAN
    /\ line \in {"empty", "exit", "exited"} /\ inputs \in 0 .. MaxInputs

Whole == shown = Flushed(whole).out /\ Only(done, Data) = Flushed(whole).commands

TrackerInv ==
    /\ TrackerShape
    /\ Balanced(shown, pending, rest, done, whole)
    /\ ~ended /\ clean => Followed(Tracker!Lines(Read), shown, pending, rest, done)
    /\ ended /\ clean => Whole

LEMMA Cutting ==
  ASSUME NEW V, NEW s, NEW k, s \in Seq(V), k \in 1 .. Len(s)
  PROVE  /\ SubSeq(s, 1, k) \in Seq(V) /\ SubSeq(s, k + 1, Len(s)) \in Seq(V)
         /\ Cat(SubSeq(s, 1, k), SubSeq(s, k + 1, Len(s))) = s
<1>1. Len(s) \in Nat /\ k \in Nat /\ \A i \in 1 .. Len(s) : s[i] \in V
  BY LenProperties, ElementOfSeq
<1>2. SubSeq(s, 1, k) \in Seq(V)
  BY <1>1, SubSeqProperties
<1>3. SubSeq(s, k + 1, Len(s)) \in Seq(V)
  BY <1>1, SubSeqProperties
<1>4. SubSeq(s, 1, k) \o SubSeq(s, k + 1, Len(s)) = SubSeq(s, 1, Len(s))
  BY <1>1, ConcatAdjacentSubSeq
<1>5. QED
  BY <1>2, <1>3, <1>4, SubSeqFull DEF Cat

LEMMA ReadIs ==
  ASSUME NEW u, NEW r, NEW h, u \in Seq(Tk), r \in Seq(Tk), Cat(u, r) = h
  PROVE  SubSeq(h, 1, Len(h) - Len(r)) = u
<1>1. Len(h) = Len(u) + Len(r) /\ Len(u) \in Nat /\ Len(r) \in Nat
  BY ConcatProperties, LenProperties DEF Cat
<1>2. Len(h) - Len(r) = Len(u)
  BY <1>1
<1>3. CASE Len(u) = 0
  <2>1. u = <<>>
    BY <1>3, EmptySeq
  <2>2. SubSeq(h, 1, 0) = <<>>
    BY SubSeqEmpty
  <2>3. QED
    BY <1>2, <1>3, <2>1, <2>2
<1>4. CASE Len(u) # 0
  <2>1. 1 \in 1 .. Len(u) /\ Len(u) \in 1 .. Len(u)
    BY <1>1, <1>4
  <2>2. SubSeq(u \o r, 1, Len(u)) = SubSeq(u, 1, Len(u))
    BY <2>1, SubSeqOfConcat1
  <2>3. QED
    BY <1>2, <2>2, SubSeqFull DEF Cat
<1>5. QED
  BY <1>3, <1>4

LEMMA IngestKeeps ==
  ASSUME TrackerInv, NEW k, Tracker!IngestOutput(k)
  PROVE  TrackerInv'
<1> DEFINE c == SubSeq(rest, 1, k)
           y == SubSeq(rest, k + 1, Len(rest))
           u == Read
           v == Cat(u, c)
           t == pending
           b == Tracker!Lines(u)
           p == Tracker!Lines(Cat(t, c))
           w == Tracker!Lines(v)
           q == Fragment(p.begun)
           o == IF q = <<>> THEN Cat(p.out, p.begun) ELSE p.out
<1>1. /\ ~ended /\ k \in 1 .. Len(rest) /\ rest' = y
      /\ clean' = (clean /\ Tracker!Harmless(
                       Tracker!Lines(SubSeq(whole, 1, Len(whole) - Len(rest'))).begun, rest'))
      /\ whole' = whole /\ noted' = noted /\ line' = line /\ inputs' = inputs /\ ended' = ended
      /\ pending' = Drained(Cat(t, c)).pending
      /\ shown' = Cat(shown, Drained(Cat(t, c)).out)
      /\ done' = Cat(done, Drained(Cat(t, c)).commands)
  BY DEF Tracker!IngestOutput, Tracker!inputVars, Cat, Drained
<1>2. /\ whole \in Seq(Tk) /\ rest \in Seq(Tk) /\ shown \in Seq(Tk) /\ u \in Seq(Tk)
      /\ Cat(u, rest) = whole
      /\ t \in Tracker!Beginnings /\ t \in Seq(Tk) /\ done \in Seq(Completions)
      /\ clean \in BOOLEAN
  BY BeginningsAre DEF TrackerInv, TrackerShape
<1>3. c \in Seq(Tk) /\ y \in Seq(Tk) /\ Cat(c, y) = rest
  BY <1>1, <1>2, Cutting
<1> HIDE DEF c, y, u
<1>4. v \in Seq(Tk) /\ Cat(t, c) \in Seq(Tk)
  BY <1>2, <1>3, CatType
<1>5. Cat(v, y) = whole
  BY <1>2, <1>3, CatAssociative
<1> HIDE DEF v
<1>6. Read' = v /\ SubSeq(whole, 1, Len(whole) - Len(rest')) = v
  BY <1>1, <1>3, <1>4, <1>5, ReadIs DEF Read
<1>7. p \in Outcome /\ p.commands \in Seq(Data)
  BY <1>4, LinesType, OutcomeIs
<1>8. q \in Tracker!Beginnings /\ q \in Seq(Tk) /\ o \in Seq(Tk)
      /\ Cat(o, q) = Cat(p.out, p.begun)
  <2> HIDE DEF p
  <2>1. QED
    BY <1>7, HeldOrShown
<1>9. pending' = q /\ shown' = Cat(shown, o) /\ done' = Cat(done, p.commands)
  <2>1. Drained(Cat(t, c)) = [out |-> o, commands |-> p.commands, pending |-> q]
    BY <1>4, DrainIs
  <2> HIDE DEF p, q, o
  <2>2. /\ Drained(Cat(t, c)).out = o
        /\ Drained(Cat(t, c)).commands = p.commands
        /\ Drained(Cat(t, c)).pending = q
    BY <2>1
  <2>3. QED
    BY <1>1, <2>2
<1>10. Accounts(p, Cat(t, c))
  BY <1>4, LinesAccount
<1> HIDE DEF o, q, p, t, b, w
<1>11. Balanced(Cat(shown, o), q, y, Cat(done, p.commands), whole)
  <2>1. Balanced(shown, t, Cat(c, y), done, whole)
    BY <1>3 DEF TrackerInv, t
  <2>2. /\ Only(Cat(o, q), {X}) = Only(Cat(t, c), {X})
        /\ \A d \in Data : Count(p.commands, d) + Count(Cat(o, q), d) = Count(Cat(t, c), d)
    BY <1>8, <1>10 DEF Accounts
  <2>3. p.commands \in Seq(Completions)
    BY <1>2, <1>7, CompletionsHold
  <2>4. QED
    BY <1>2, <1>3, <1>8, <2>1, <2>2, <2>3, ChunkBalanced
<1>12. TrackerShape'
  <2>1. Cat(shown, o) \in Seq(Tk)
    BY <1>2, <1>8, CatType
  <2>2. Cat(done, p.commands) \in Seq(Completions)
    BY <1>2, <1>7, CompletionsHold
  <2>3. clean' \in BOOLEAN
    BY <1>1, <1>2
  <2>4. QED
    BY <1>1, <1>2, <1>3, <1>4, <1>5, <1>6, <1>8, <1>9, <2>1, <2>2, <2>3
    DEF TrackerInv, TrackerShape
<1>13. ASSUME clean' PROVE Followed(w, Cat(shown, o), q, y, Cat(done, p.commands))
  <2>1. clean /\ Tracker!Harmless(w.begun, y)
    BY <1>1, <1>6, <1>13 DEF w
  <2>2. Followed(b, shown, t, rest, done)
    BY <1>1, <2>1 DEF TrackerInv, b, t, u
  <2>3. ChunkOf(t, u, c, b, p, w, q, o)
    BY DEF b, p, w, v, q, o, ChunkOf
  <2>4. t \in Tracker!Beginnings
    BY <1>2
  <2>5. QED
    BY <1>2, <1>3, <2>1, <2>2, <2>3, <2>4, ChunkKeepsFollowed
<1>14. Tracker!Lines(Read') = w
  BY <1>6 DEF w
<1>15. (~ended /\ clean => Followed(Tracker!Lines(Read), shown, pending, rest, done))'
  BY <1>1, <1>9, <1>13, <1>14
<1>16. Balanced(shown, pending, rest, done, whole)'
  BY <1>1, <1>9, <1>11
<1>17. QED
  BY <1>1, <1>12, <1>15, <1>16 DEF TrackerInv

LEMMA ExitsHold ==
  ASSUME NEW ss, ss \in {<<>>, <<ExitLine>>}
  PROVE  /\ ss \in Seq(Completions) /\ Only(ss, Data) = <<>>
         /\ \A d \in Data : Count(ss, d) = 0
<1> DEFINE none == <<>>
           one == Append(none, ExitLine)
<1>1. none \in Seq(Completions) /\ ExitLine \in Completions /\ ss \in {none, one}
  BY EmptySeq DEF Completions
<1>2. Only(none, Data) = <<>> /\ \A d \in Data : Count(none, d) = 0
  BY OnlyEmpty, CountEmpty DEF CountEmptyIs
<1>3. ExitLine \notin Data
  BY TokensDiffer
<1> HIDE DEF none
<1>4. Only(one, Data) = IF ExitLine \in Data THEN Append(Only(none, Data), ExitLine)
                        ELSE Only(none, Data)
  BY <1>1, OnlyAppend
<1>5. ASSUME NEW d \in Data PROVE Count(one, d) = 0
  <2>1. Count(one, d) = Count(none, d) + (IF ExitLine = d THEN 1 ELSE 0)
    BY <1>1, CountAppend
  <2>2. Count(none, d) = 0 /\ ExitLine # d
    BY <1>2, <1>3
  <2>3. QED
    BY <2>1, <2>2
<1>6. one \in Seq(Completions)
  BY <1>1, AppendProperties
<1> HIDE DEF one
<1>7. QED
  BY <1>1, <1>2, <1>3, <1>4, <1>5, <1>6

LEMMA StreamEndsKeeps ==
  ASSUME TrackerInv, Tracker!StreamEnds
  PROVE  TrackerInv'
<1> DEFINE exits == IF noted /\ ~Tracker!Contains(Flushed(pending).commands, ExitLine)
                    THEN <<ExitLine>> ELSE <<>>
           none == <<>>
           t == pending
<1>1. /\ ~ended /\ ended' = TRUE /\ rest = none /\ noted' = FALSE
      /\ whole' = whole /\ rest' = rest /\ clean' = clean /\ line' = line /\ inputs' = inputs
      /\ shown' = Cat(shown, Flushed(t).out) /\ pending' = Flushed(t).pending
      /\ done' = Cat(Cat(done, Flushed(t).commands), exits)
  BY DEF Tracker!StreamEnds, Tracker!FlushFrames, Cat, Flushed
<1>2. /\ whole \in Seq(Tk) /\ rest \in Seq(Tk) /\ shown \in Seq(Tk) /\ Read \in Seq(Tk)
      /\ Cat(Read, rest) = whole
      /\ t \in Tracker!Beginnings /\ t \in Seq(Tk) /\ done \in Seq(Completions)
      /\ none \in Seq(Tk) /\ none \in Tracker!Beginnings
  BY BeginningsAre DEF TrackerInv, TrackerShape
<1>3. exits \in {<<>>, <<ExitLine>>}
  OBVIOUS
<1> HIDE DEF exits
<1>4. /\ exits \in Seq(Completions) /\ Only(exits, Data) = <<>>
      /\ \A d \in Data : Count(exits, d) = 0
  BY <1>3, ExitsHold
<1>5. /\ Flushed(t).out = t /\ Flushed(t).commands = <<>> /\ Flushed(t).pending = none
  <2>1. Tracker!Lines(t) = [out |-> <<>>, commands |-> <<>>, begun |-> t]
    BY <1>2, BeginningLines
  <2>2. Flushed(t) = [out |-> Cat(<<>>, t), commands |-> <<>>, pending |-> <<>>]
    <3> DEFINE b == Tracker!Lines(t)
    <3>1. Flushed(t) = [out |-> Cat(b.out, b.begun), commands |-> b.commands, pending |-> <<>>]
      BY <1>2, DrainIs
    <3>2. b.out = <<>> /\ b.begun = t /\ b.commands = <<>>
      BY <2>1
    <3> HIDE DEF b
    <3>3. QED
      BY <3>1, <3>2
  <2>3. Cat(<<>>, t) = t
    BY <1>2, CatNothing
  <2>4. QED
    BY <2>2, <2>3
<1>6. /\ shown' = Cat(shown, t) /\ pending' = none /\ done' = Cat(done, exits)
  <2>1. Cat(done, <<>>) = done
    BY <1>2, CatNothing
  <2>2. QED
    BY <1>1, <1>5, <2>1
<1>7. Read = whole
  BY <1>1, <1>2, CatNothing
<1> HIDE DEF t
<1>8. Balanced(Cat(shown, t), none, none, Cat(done, exits), whole)
  <2>1. Cat(none, none) = none /\ Cat(t, none) = t
    BY <1>2, CatNothing
  <2>2. Balanced(shown, t, Cat(none, none), done, whole)
    BY <1>1, <2>1 DEF TrackerInv, t
  <2>3. \A d \in Data : Count(exits, d) + Count(Cat(t, none), d) = Count(Cat(t, none), d)
    <3>1. ASSUME NEW d \in Data PROVE Count(t, d) \in Nat
      BY <1>2, CountCat
    <3>2. QED
      BY <1>4, <2>1, <3>1
  <2> HIDE DEF none
  <2>4. Only(Cat(t, none), {X}) = Only(Cat(t, none), {X})
    OBVIOUS
  <2>5. QED
    BY <1>2, <1>4, <2>2, <2>3, <2>4, ChunkBalanced
<1>9. TrackerShape'
  <2>1. Read' = Read
    BY <1>1 DEF Read
  <2>2. Cat(shown, t) \in Seq(Tk) /\ Cat(done, exits) \in Seq(Completions)
    BY <1>2, <1>4, CatType
  <2>3. QED
    BY <1>1, <1>2, <1>6, <2>1, <2>2 DEF TrackerInv, TrackerShape
<1>10. ASSUME clean PROVE /\ Cat(shown, t) = Flushed(whole).out
                          /\ Only(Cat(done, exits), Data) = Flushed(whole).commands
  <2> DEFINE b == Tracker!Lines(whole)
  <2>1. Followed(b, shown, t, rest, done)
    BY <1>1, <1>7, <1>10 DEF TrackerInv, t
  <2>2. Flushed(whole) = [out |-> Cat(b.out, b.begun), commands |-> b.commands, pending |-> <<>>]
    BY <1>2, DrainIs
  <2>3. Only(done \o exits, Data) = Only(done, Data) \o Only(exits, Data)
    <3>1. done \in Seq(Completions) /\ exits \in Seq(Completions)
      BY <1>2, <1>4
    <3>2. QED
      BY <3>1, OnlyConcat
  <2>4. Cat(Only(done, Data), <<>>) = Only(done, Data)
    <3>1. Only(done, Data) \in Seq(Completions)
      BY <1>2, OnlyType
    <3>2. QED
      BY <3>1, CatNothing
  <2> HIDE DEF b
  <2>5. Only(Cat(done, exits), Data) = b.commands
    BY <1>4, <2>1, <2>3, <2>4 DEF Cat, Followed
  <2>6. QED
    BY <2>1, <2>2, <2>5 DEF Followed
<1>11. (ended /\ clean => Whole)'
  BY <1>1, <1>6, <1>10 DEF Whole
<1>12. Balanced(shown, pending, rest, done, whole)'
  BY <1>1, <1>6, <1>8
<1>13. QED
  BY <1>1, <1>9, <1>11, <1>12 DEF TrackerInv

LEMMA TypedKeeps ==
  ASSUME TrackerInv, noted' \in BOOLEAN, line' \in {"empty", "exit", "exited"},
         inputs' \in 0 .. MaxInputs,
         UNCHANGED <<whole, rest, pending, shown, done, clean, ended>>
  PROVE  TrackerInv'
<1>1. /\ whole' = whole /\ rest' = rest /\ pending' = pending /\ shown' = shown /\ done' = done
      /\ clean' = clean /\ ended' = ended
  OBVIOUS
<1>2. Read' = Read
  BY <1>1 DEF Read
<1>3. QED
  BY <1>1, <1>2 DEF TrackerInv, TrackerShape, Whole

LEMMA SubmitKeeps ==
  ASSUME TrackerInv, NEW noted1 \in BOOLEAN, NEW line1 \in {"empty", "exit", "exited"},
         Tracker!Submit(noted1, line1)
  PROVE  TrackerInv'
<1>1. inputs \in 0 .. MaxInputs /\ inputs < MaxInputs /\ inputs' = inputs + 1
  BY DEF TrackerInv, TrackerShape, Tracker!Submit
<1>2. inputs' \in 0 .. MaxInputs
  BY <1>1, OutputAssumption
<1>3. QED
  BY <1>2, TypedKeeps DEF Tracker!Submit, Tracker!outputVars

LEMMA TrackerStep == TrackerInv /\ Tracker!Next => TrackerInv'
<1>1. SUFFICES ASSUME TrackerInv, Tracker!Next PROVE TrackerInv'
  OBVIOUS
<1>2. line \in {"empty", "exit", "exited"}
  BY <1>1 DEF TrackerInv, TrackerShape
<1>3. CASE \E k \in 1 .. Len(rest) : Tracker!IngestOutput(k)
  BY <1>1, <1>3, IngestKeeps
<1>4. CASE Tracker!SubmitExit \/ Tracker!SubmitExitHead \/ Tracker!SubmitExitTail
  BY <1>1, <1>4, SubmitKeeps DEF Tracker!SubmitExit, Tracker!SubmitExitHead, Tracker!SubmitExitTail
<1>5. CASE Tracker!SubmitOther
  BY <1>1, <1>2, <1>5, SubmitKeeps DEF Tracker!SubmitOther
<1>6. CASE Tracker!StreamEnds
  BY <1>1, <1>6, StreamEndsKeeps
<1>7. QED
  BY <1>1, <1>3, <1>4, <1>5, <1>6 DEF Tracker!Next

LEMMA TrackerStutter == TrackerInv /\ UNCHANGED trackerVars => TrackerInv'
  BY TypedKeeps DEF trackerVars, TrackerInv, TrackerShape

LEMMA TrackerInvImplies == TrackerInv => OutputKept /\ Tracker!TypeOK
<1>1. SUFFICES ASSUME TrackerInv PROVE OutputKept /\ Tracker!TypeOK
  OBVIOUS
<1>2. Balanced(shown, pending, rest, done, whole)
  BY <1>1 DEF TrackerInv
<1>3. Tracker!NothingLost
  BY <1>2, TrackerOnly DEF Tracker!NothingLost, Balanced, Count, Cat
<1>4. Tracker!OtherCutsAreHarmless
  BY <1>1, TrackerOnly DEF TrackerInv, Whole, Flushed, Tracker!OtherCutsAreHarmless
<1>5. Tracker!TypeOK
  BY <1>1, TokensDiffer DEF TrackerInv, TrackerShape, Completions, Tracker!TypeOK
<1>6. QED
  BY <1>3, <1>4, <1>5 DEF OutputKept

LEMMA PiecesAre == Pieces \subseteq Seq(Tk)
<1>1. /\ G \in Tk /\ E \in Tk /\ T \in Tk /\ C \in Tk /\ X \in Tk /\ A \in Tk /\ N \in Tk
      /\ d1 \in Tk /\ d2 \in Tk
  BY TokenAssumption DEF Tk
<1>2. /\ <<G, E, C, d1, N>> \in Seq(Tk) /\ <<G, E, C, d2, N>> \in Seq(Tk)
      /\ <<A, G, E, C, d1, N>> \in Seq(Tk)
  BY <1>1
<1>3. /\ <<G, E, C, N>> \in Seq(Tk) /\ <<G, E, C, X, N>> \in Seq(Tk) /\ <<G, T, N>> \in Seq(Tk)
      /\ <<X, N>> \in Seq(Tk) /\ <<X>> \in Seq(Tk) /\ <<G>> \in Seq(Tk)
  BY <1>1
<1>4. QED
  BY <1>2, <1>3 DEF Pieces

LEMMA JoinedPieces ==
  ASSUME NEW n \in Nat, NEW p \in UNION {[1 .. i -> Pieces] : i \in 0 .. n}
  PROVE  FlattenSeq(p) \in Seq(Tk)
<1>1. p \in Seq(Pieces)
  BY TextIsSeq
<1>2. p \in Seq(Seq(Tk))
  BY <1>1, PiecesAre, SeqMonotonic
<1>3. QED
  BY <1>2, FlattenType

LEMMA OutputsAre == Tracker!Outputs \cup Silence!Outputs \subseteq Seq(Tk)
<1>1. ASSUME NEW h \in Tracker!Outputs PROVE h \in Seq(Tk)
  <2>1. PICK p \in UNION {[1 .. i -> Pieces] : i \in 0 .. MaxSegments} : h = FlattenSeq(p)
    BY DEF Tracker!Outputs, Tracker!FlattenSeq, FlattenSeq
  <2>2. QED
    BY <2>1, JoinedPieces, OutputAssumption
<1>2. ASSUME NEW h \in Silence!Outputs PROVE h \in Seq(Tk)
  <2>1. PICK p \in UNION {[1 .. i -> Pieces] : i \in 0 .. 0} : h = FlattenSeq(p)
    BY DEF Silence!Outputs, Silence!FlattenSeq, FlattenSeq
  <2>2. QED
    BY <2>1, JoinedPieces
<1>3. QED
  BY <1>1, <1>2

LEMMA TrackerStarts == Tracker!Init \/ Silence!Init => TrackerInv
<1>1. SUFFICES ASSUME Tracker!Init \/ Silence!Init PROVE TrackerInv
  OBVIOUS
<1> DEFINE none == <<>>
<1>2. /\ whole \in Seq(Tk) /\ rest = whole /\ pending = none /\ shown = none /\ done = none
      /\ clean = TRUE /\ noted = FALSE /\ line = "empty" /\ inputs = 0 /\ ended = FALSE
  BY <1>1, OutputsAre DEF Tracker!Init, Silence!Init
<1>3. none \in Seq(Tk) /\ none \in Seq(Completions) /\ none \in Tracker!Beginnings
  BY EmptySeq, BeginningsAre
<1>4. Read = none
  <2>1. Len(whole) - Len(rest) = 0
    BY <1>2, LenProperties
  <2>2. QED
    BY <2>1, SubSeqEmpty DEF Read
<1>5. Cat(none, none) = none /\ Cat(none, whole) = whole
  BY <1>2, <1>3, CatNothing
<1>6. /\ Tracker!Lines(none).out = none /\ Tracker!Lines(none).begun = none
      /\ Tracker!Lines(none).commands = none
  BY LinesEmpty DEF Nil
<1>7. Only(none, Data) = none /\ \A d \in Data : Count(none, d) = 0
  BY OnlyEmpty, CountEmpty DEF CountEmptyIs
<1>8. \A d \in Data : Count(whole, d) \in Nat
  BY <1>2, CountCat
<1> HIDE DEF none
<1>9. Balanced(none, none, whole, none, whole)
  BY <1>5, <1>7, <1>8 DEF Balanced
<1>10. Followed(Tracker!Lines(none), none, none, whole, none)
  BY <1>6, <1>7 DEF Followed
<1>11. TrackerShape
  <2>1. inputs \in 0 .. MaxInputs /\ line \in {"empty", "exit", "exited"}
    BY <1>2, OutputAssumption
  <2>2. Read \in Seq(Tk) /\ Cat(Read, rest) = whole
    BY <1>2, <1>3, <1>4, <1>5
  <2>3. /\ whole \in Seq(Tk) /\ rest \in Seq(Tk) /\ shown \in Seq(Tk)
        /\ pending \in Tracker!Beginnings /\ done \in Seq(Completions)
    BY <1>2, <1>3
  <2>4. clean \in BOOLEAN /\ noted \in BOOLEAN /\ ended \in BOOLEAN
    BY <1>2
  <2>5. QED
    BY <2>1, <2>2, <2>3, <2>4 DEF TrackerShape
<1>12. QED
  BY <1>2, <1>4, <1>9, <1>10, <1>11 DEF TrackerInv

LEMMA TrackerInvariant == FairStages => []TrackerInv
<1>1. StagesInit => TrackerInv
  BY TrackerStarts DEF StagesInit
<1>2. TrackerInv /\ [StagesNext]_allVars => TrackerInv'
  BY TrackerStep, TrackerStutter
  DEF StagesNext, RunMoves, SessionMoves, TrackerMoves, BridgeMoves, LineMoves, allVars
<1>3. QED
  BY <1>1, <1>2, PTL DEF FairStages

(* However the output is cut, ordinary text is shown once and in order, and each command the
   shell reported is completed once; without a cut inside a marker line or one that leaves a
   marker line as the rest of a line, the chunks give what the whole output would. *)
THEOREM OutputSurvives == FairStages => []OutputKept
  BY TrackerInvImplies, TrackerInvariant, PTL
-----------------------------------------------------------------------------
(* TerminalSession: the types *)
Chunk == 1 .. MaxChunks
Channel == {c \in [buf : Seq(Chunk), open : BOOLEAN] : Len(c.buf) <= Cap}
Streams == {"off", "subscribe", "loop", "deliver", "leave", "report", "over"}
Handlers == {"off", "read", "input", "write", "join", "over"}
ReadOutcomes == {"none", "ended", "failed", "cancelled"}
Pumps == [pc : {"read", "broadcast", "send", "hangup", "done"}, left : SUBSET Readers]

(* The session: a chunk the pump carries has been read. *)
OwnTypes ==
    /\ shell \in {"running", "exited"} /\ pty \in BOOLEAN
    /\ written \in 0 .. MaxChunks /\ pumped \in 0 .. written
    /\ pump \in Pumps /\ (pump.pc \in {"broadcast", "send"} => pumped > 0)
    /\ monitor \in {"wait", "finish", "done"}
    /\ release \in {"idle", "finish", "terminate", "hangup", "reap", "done"}
    /\ closed \in BOOLEAN /\ closeErr \in Session!CloseErrors
    /\ subs \subseteq Readers /\ panicked \in BOOLEAN

(* Its connections. *)
ConnTypes ==
    /\ chan \in [Readers -> Channel] /\ stream \in [Readers -> Streams]
    /\ handler \in [Readers -> Handlers] /\ readOutcome \in [Readers -> ReadOutcomes]
    /\ joined \in [Readers -> 0 .. MaxChunks]
    /\ client \in [Readers -> {"up", "gone"}]
    /\ sock \in [Readers -> {"open", "normal", "error"}]

SessionTypes == OwnTypes /\ ConnTypes

ownVars == <<shell, pty, written, pumped, pump, monitor, release, closed, closeErr, subs, panicked>>
connTypeVars == <<chan, stream, handler, readOutcome, joined, client, sock>>

LEMMA OwnStays == OwnTypes /\ UNCHANGED ownVars => OwnTypes'
  BY DEF OwnTypes, ownVars
LEMMA ConnStays == ConnTypes /\ UNCHANGED connTypeVars => ConnTypes'
  BY DEF ConnTypes, connTypeVars

LEMMA ChannelIs ==
  ASSUME NEW c, c \in Channel
  PROVE  c = [buf |-> c.buf, open |-> c.open] /\ c.buf \in Seq(Chunk) /\ c.open \in BOOLEAN
         /\ Len(c.buf) <= Cap /\ Len(c.buf) \in Nat
  BY DEF Channel

LEMMA ChannelOf ==
  ASSUME NEW s, NEW o, s \in Seq(Chunk), o \in BOOLEAN, Len(s) <= Cap
  PROVE  [buf |-> s, open |-> o] \in Channel
  BY DEF Channel

LEMMA ChannelWith ==
  ASSUME NEW c, NEW s, NEW o, c \in Channel
  PROVE  /\ s \in Seq(Chunk) /\ Len(s) <= Cap => [c EXCEPT !.buf = s] \in Channel
         /\ o \in BOOLEAN => [c EXCEPT !.open = o] \in Channel
<1>1. c = [buf |-> c.buf, open |-> c.open] /\ c.buf \in Seq(Chunk) /\ c.open \in BOOLEAN
      /\ Len(c.buf) <= Cap
  BY ChannelIs
<1>2. /\ [c EXCEPT !.buf = s] = [buf |-> s, open |-> c.open]
      /\ [c EXCEPT !.open = o] = [buf |-> c.buf, open |-> o]
  BY <1>1
<1>3. QED
  BY <1>1, <1>2, ChannelOf

LEMMA SessionTyped == Session!Init => SessionTypes
<1> SUFFICES ASSUME Session!Init PROVE SessionTypes
  OBVIOUS
<1>1. [buf |-> <<>>, open |-> FALSE] \in Channel
  <2> DEFINE none == <<>>
  <2>1. none \in Seq(Chunk) /\ Len(none) <= Cap
    BY EmptySeq, SessionAssumption
  <2> HIDE DEF none
  <2>2. [buf |-> none, open |-> FALSE] \in Channel
    BY <2>1, ChannelOf
  <2>3. QED
    BY <2>2 DEF none
<1>2. chan \in [Readers -> Channel] /\ joined \in [Readers -> 0 .. MaxChunks]
  BY <1>1, SessionAssumption DEF Session!Init
<1>3. /\ stream \in [Readers -> Streams] /\ handler \in [Readers -> Handlers]
      /\ readOutcome \in [Readers -> ReadOutcomes]
      /\ client \in [Readers -> {"up", "gone"}]
      /\ sock \in [Readers -> {"open", "normal", "error"}]
  BY DEF Session!Init, Streams, Handlers, ReadOutcomes
<1>4. /\ pump \in Pumps /\ pump.pc = "read"
      /\ written \in 0 .. MaxChunks /\ pumped \in 0 .. written /\ subs \subseteq Readers
  BY SessionAssumption DEF Session!Init, Pumps
<1>5. /\ shell \in {"running", "exited"} /\ pty \in BOOLEAN
      /\ monitor \in {"wait", "finish", "done"}
      /\ release \in {"idle", "finish", "terminate", "hangup", "reap", "done"}
      /\ closed \in BOOLEAN /\ closeErr \in Session!CloseErrors /\ panicked \in BOOLEAN
  BY DEF Session!Init, Session!CloseErrors
<1>6. QED
  BY <1>2, <1>3, <1>4, <1>5 DEF SessionTypes, OwnTypes, ConnTypes

LEMMA FinishTyped ==
  ASSUME OwnTypes, chan \in [Readers -> Channel], NEW err \in Session!CloseErrors,
         Session!Finish(err)
  PROVE  /\ closed' \in BOOLEAN /\ closeErr' \in Session!CloseErrors /\ subs' \subseteq Readers
         /\ chan' \in [Readers -> Channel] /\ panicked' \in BOOLEAN
<1>1. CASE closed /\ UNCHANGED <<closed, closeErr, subs, chan, panicked>>
  BY <1>1 DEF OwnTypes
<1>2. CASE ~closed
  <2>1. /\ closed' = TRUE /\ closeErr' = err /\ subs' = {}
        /\ chan' = [r \in Readers |-> IF r \in subs THEN [chan[r] EXCEPT !.open = FALSE]
                                                    ELSE chan[r]]
        /\ panicked' = (panicked \/ \E r \in subs : ~chan[r].open)
    BY <1>2 DEF Session!Finish
  <2>2. ASSUME NEW r \in Readers PROVE chan[r] \in Channel /\ [chan[r] EXCEPT !.open = FALSE] \in Channel
    <3>1. chan[r] \in Channel
      OBVIOUS
    <3>2. QED
      BY <3>1, ChannelWith
  <2>3. QED
    BY <2>1, <2>2 DEF OwnTypes
<1>3. QED
  BY <1>1, <1>2 DEF Session!Finish, Session!sessionVars

LEMMA OwnTyped ==
  ASSUME SessionTypes,
         \/ Session!ShellWrites \/ Session!ShellExits \/ Session!PumpReads
         \/ Session!BroadcastBegins \/ Session!PumpClosesBackend \/ Session!ProcessReaped
         \/ Session!ReleaseBegins \/ Session!ReleaseTerminates
         \/ Session!ReleaseClosesBackend \/ Session!ReleaseReaps
  PROVE  SessionTypes'
<1>1. OwnTypes /\ ConnTypes
  BY DEF SessionTypes
<1>2. UNCHANGED connTypeVars /\ UNCHANGED <<closed, closeErr, subs, panicked>>
  BY DEF Session!ShellWrites, Session!ShellExits, Session!PumpReads, Session!BroadcastBegins,
     Session!PumpClosesBackend, Session!ProcessReaped, Session!ReleaseBegins,
     Session!ReleaseTerminates, Session!ReleaseClosesBackend, Session!ReleaseReaps,
     Session!sessionVars, Session!connVars, connTypeVars
<1>3. CASE Session!ShellWrites
  <2>1. written' = written + 1 /\ written < MaxChunks
        /\ UNCHANGED <<shell, pty, pumped, pump, monitor, release>>
    BY <1>3 DEF Session!ShellWrites
  <2>2. written' \in 0 .. MaxChunks /\ pumped' \in 0 .. written'
    BY <1>1, <2>1, SessionAssumption DEF OwnTypes
  <2>3. QED
    BY <1>1, <1>2, <2>1, <2>2, ConnStays DEF OwnTypes, SessionTypes
<1>4. CASE Session!ShellExits \/ Session!ReleaseTerminates
  BY <1>1, <1>2, <1>4, ConnStays DEF OwnTypes, SessionTypes, Session!ShellExits,
     Session!ReleaseTerminates, Session!ptyVars
<1>5. CASE Session!PumpReads
  <2>1. pumped' = pumped + 1 /\ pumped < written /\ pump' = [pc |-> "broadcast", left |-> {}]
        /\ UNCHANGED <<shell, pty, written, monitor, release>>
    BY <1>5 DEF Session!PumpReads, Session!PumpAt
  <2>2. pumped' \in 0 .. written' /\ pumped' > 0
    BY <1>1, <2>1, SessionAssumption DEF OwnTypes
  <2>3. pump' \in Pumps
    BY <2>1 DEF Pumps
  <2>4. QED
    BY <1>1, <1>2, <2>1, <2>2, <2>3, ConnStays DEF OwnTypes, SessionTypes
<1>6. CASE Session!BroadcastBegins
  <2>1. pump' \in Pumps /\ pump.pc = "broadcast" /\ UNCHANGED Session!ptyVars
        /\ UNCHANGED <<monitor, release>>
    BY <1>1, <1>6 DEF Session!BroadcastBegins, Session!PumpAt, Pumps, OwnTypes
  <2>2. QED
    BY <1>1, <1>2, <2>1, ConnStays DEF OwnTypes, SessionTypes, Session!ptyVars
<1>7. CASE Session!PumpClosesBackend
  <2>1. pump' = [pc |-> "done", left |-> {}] /\ pty' = FALSE
        /\ UNCHANGED <<shell, written, pumped, monitor, release>>
    BY <1>7 DEF Session!PumpClosesBackend, Session!PumpAt
  <2>2. pump' \in Pumps /\ pump'.pc = "done"
    BY <2>1 DEF Pumps
  <2>3. QED
    BY <1>1, <1>2, <2>1, <2>2, ConnStays DEF OwnTypes, SessionTypes
<1>8. CASE Session!ProcessReaped \/ Session!ReleaseBegins \/ Session!ReleaseClosesBackend
           \/ Session!ReleaseReaps
  BY <1>1, <1>2, <1>8, ConnStays DEF OwnTypes, SessionTypes, Session!ProcessReaped,
     Session!ReleaseBegins, Session!ReleaseClosesBackend, Session!ReleaseReaps, Session!ptyVars
<1>9. QED
  BY <1>3, <1>4, <1>5, <1>6, <1>7, <1>8

LEMMA FinishersTyped ==
  ASSUME SessionTypes,
         Session!PumpReadFails \/ Session!MonitorFinishes \/ Session!ReleaseFinishes
  PROVE  SessionTypes'
<1>1. OwnTypes /\ ConnTypes /\ chan \in [Readers -> Channel]
  BY DEF SessionTypes, ConnTypes
<1>2. PICK err \in Session!CloseErrors : Session!Finish(err)
  BY DEF Session!PumpReadFails, Session!MonitorFinishes, Session!ReleaseFinishes,
     Session!CloseErrors, Session!HangupErrors
<1>3. /\ closed' \in BOOLEAN /\ closeErr' \in Session!CloseErrors /\ subs' \subseteq Readers
      /\ chan' \in [Readers -> Channel] /\ panicked' \in BOOLEAN
  BY <1>1, <1>2, FinishTyped
<1>4. UNCHANGED <<shell, pty, written, pumped, stream, handler, readOutcome, joined, client, sock>>
  BY DEF Session!PumpReadFails, Session!MonitorFinishes, Session!ReleaseFinishes,
     Session!ptyVars, Session!connVars
<1>5. /\ monitor' \in {"wait", "finish", "done"}
      /\ release' \in {"idle", "finish", "terminate", "hangup", "reap", "done"}
      /\ pump' = pump \/ pump' = [pc |-> "hangup", left |-> {}]
  BY <1>1 DEF Session!PumpReadFails, Session!MonitorFinishes, Session!ReleaseFinishes,
     Session!PumpAt, OwnTypes
<1>6. pump' \in Pumps /\ (pump'.pc \in {"broadcast", "send"} => pumped' > 0)
  BY <1>1, <1>4, <1>5 DEF OwnTypes, Pumps
<1>7. QED
  BY <1>1, <1>3, <1>4, <1>5, <1>6 DEF OwnTypes, ConnTypes, SessionTypes

LEMMA SendTyped ==
  ASSUME SessionTypes, NEW r \in Readers, Session!Send(r)
  PROVE  SessionTypes'
<1>1. OwnTypes /\ ConnTypes /\ chan \in [Readers -> Channel] /\ chan[r] \in Channel
  BY DEF SessionTypes, ConnTypes
<1>2. /\ pump.pc = "send"
      /\ chan[r].open => Len(chan[r].buf) < Cap
      /\ chan' = (IF chan[r].open THEN [chan EXCEPT ![r].buf = Append(@, pumped)] ELSE chan)
      /\ panicked' = (panicked \/ ~chan[r].open)
      /\ pump' = [pc |-> IF pump.left = {r} THEN "read" ELSE "send", left |-> pump.left \ {r}]
      /\ UNCHANGED <<shell, pty, written, pumped, closed, closeErr, subs, stream, handler,
                     readOutcome, joined, client, sock, monitor, release>>
  BY DEF Session!Send, Session!SendDone, Session!PumpAt, Session!connVars, Session!ptyVars
<1> DEFINE s == Append(chan[r].buf, pumped)
<1>3. pumped \in Chunk
  BY <1>1, <1>2, SessionAssumption DEF OwnTypes, Chunk
<1>4. chan[r].buf \in Seq(Chunk) /\ Len(chan[r].buf) \in Nat
  BY <1>1, ChannelIs
<1>5. s \in Seq(Chunk) /\ Len(s) = Len(chan[r].buf) + 1
  BY <1>3, <1>4, AppendProperties
<1>6. chan[r].open => [chan[r] EXCEPT !.buf = s] \in Channel
  <2>1. chan[r].open => Len(s) <= Cap
    BY <1>2, <1>4, <1>5, SessionAssumption
  <2> HIDE DEF s
  <2>2. QED
    BY <1>1, <1>5, <2>1, ChannelWith
<1>7. chan' \in [Readers -> Channel]
  <2> DEFINE more == [chan[r] EXCEPT !.buf = s]
  <2>1. chan[r].open => chan' = [chan EXCEPT ![r] = more]
    BY <1>2
  <2> HIDE DEF more
  <2>2. QED
    BY <1>1, <1>2, <1>6, <2>1 DEF more
<1>8. pump' \in Pumps
  BY <1>1, <1>2 DEF OwnTypes, Pumps
<1>9. panicked' \in BOOLEAN
  BY <1>2
<1>10. QED
  BY <1>1, <1>2, <1>7, <1>8, <1>9 DEF OwnTypes, ConnTypes, SessionTypes

LEMMA HandlerTyped ==
  ASSUME SessionTypes, NEW r \in Readers,
         \/ Session!Attach(r) \/ Session!MessageArrives(r) \/ Session!HandlerStep(r)
         \/ Session!InputWritten(r) \/ Session!ClientGoes(r)
  PROVE  SessionTypes'
<1>1. OwnTypes /\ ConnTypes
  BY DEF SessionTypes
<1>2. UNCHANGED ownVars /\ UNCHANGED <<chan, readOutcome, joined>>
  BY DEF Session!Attach, Session!MessageArrives, Session!HandlerStep, Session!Input,
     Session!InputWritten, Session!InputFails, Session!SocketFails, Session!Join, Session!ClientGoes, Session!sessionVars,
     Session!ptyVars, ownVars
<1>3. /\ handler' \in [Readers -> Handlers] /\ stream' \in [Readers -> Streams]
  <2>1. /\ handler' = handler \/ \E pc1 \in Handlers : handler' = [handler EXCEPT ![r] = pc1]
        /\ stream' = stream \/ stream' = [stream EXCEPT ![r] = "subscribe"]
    BY DEF Session!Attach, Session!MessageArrives, Session!HandlerStep, Session!Input,
       Session!InputWritten, Session!InputFails, Session!InputRefused, Session!SocketFails, Session!Join, Session!ClientGoes, Session!HandlerAt,
       Session!StreamAt, Handlers
  <2>2. QED
    BY <1>1, <2>1 DEF ConnTypes, Streams
<1>4. /\ client' \in [Readers -> {"up", "gone"}] /\ sock' \in [Readers -> {"open", "normal", "error"}]
  <2>1. /\ client' = client \/ client' = [client EXCEPT ![r] = "gone"]
        /\ sock' = sock \/ sock' = [sock EXCEPT ![r] = IF @ = "open" THEN "error" ELSE @]
    BY DEF Session!Attach, Session!MessageArrives, Session!HandlerStep, Session!Input,
       Session!InputWritten, Session!InputFails, Session!InputRefused, Session!SocketFails, Session!Join, Session!ClientGoes
  <2>2. QED
    BY <1>1, <2>1 DEF ConnTypes
<1>5. OwnTypes'
  BY <1>1, <1>2, OwnStays
<1>6. ConnTypes'
  BY <1>1, <1>2, <1>3, <1>4 DEF ConnTypes
<1>7. QED
  BY <1>5, <1>6 DEF SessionTypes

LEMMA SubscribeTyped ==
  ASSUME SessionTypes, NEW r \in Readers, Session!Subscribe(r)
  PROVE  SessionTypes'
<1>1. OwnTypes /\ ConnTypes /\ chan[r] \in Channel
  BY DEF SessionTypes, ConnTypes
<1>2. /\ UNCHANGED <<shell, pty, written, pumped, pump, monitor, release, panicked, handler,
                     client, sock>>
  BY DEF Session!Subscribe, Session!ptyVars
<1>3. CASE /\ closed /\ stream' = [stream EXCEPT ![r] = "report"]
           /\ readOutcome' = [readOutcome EXCEPT ![r] = "failed"]
           /\ UNCHANGED <<closed, closeErr, subs, chan, joined>>
  BY <1>1, <1>2, <1>3 DEF SessionTypes, OwnTypes, ConnTypes, Streams, ReadOutcomes
<1>4. CASE /\ subs' = subs \cup {r} /\ chan' = [chan EXCEPT ![r].open = TRUE]
           /\ joined' = [joined EXCEPT ![r] = IF pump.pc = "broadcast" THEN pumped - 1 ELSE pumped]
           /\ stream' = [stream EXCEPT ![r] = "loop"] /\ UNCHANGED <<closed, closeErr, readOutcome>>
  <2> DEFINE opened == [chan[r] EXCEPT !.open = TRUE]
             from == IF pump.pc = "broadcast" THEN pumped - 1 ELSE pumped
  <2>1. opened \in Channel /\ chan' = [chan EXCEPT ![r] = opened]
    BY <1>1, <1>4, ChannelWith
  <2>2. from \in 0 .. MaxChunks
    <3>1. /\ pumped \in 0 .. written /\ written \in 0 .. MaxChunks
          /\ (pump.pc = "broadcast" => pumped > 0)
      BY <1>1 DEF OwnTypes
    <3>2. QED
      BY <3>1, SessionAssumption
  <2>3. joined' = [joined EXCEPT ![r] = from]
    BY <1>4
  <2> HIDE DEF opened, from
  <2>4. chan' \in [Readers -> Channel]
    BY <1>1, <2>1 DEF ConnTypes
  <2>5. joined' \in [Readers -> 0 .. MaxChunks]
    <3>1. joined \in [Readers -> 0 .. MaxChunks]
      BY <1>1 DEF ConnTypes
    <3>2. QED
      BY <2>2, <2>3, <3>1
  <2>6. stream' \in [Readers -> Streams]
    <3>1. stream \in [Readers -> Streams] /\ "loop" \in Streams
      BY <1>1 DEF ConnTypes, Streams
    <3>2. QED
      BY <1>4, <3>1
  <2>7. OwnTypes'
    BY <1>1, <1>2, <1>4 DEF OwnTypes
  <2>8. ConnTypes'
    BY <1>1, <1>2, <1>4, <2>4, <2>5, <2>6 DEF ConnTypes
  <2>9. QED
    BY <2>7, <2>8 DEF SessionTypes
<1>5. QED
  BY <1>3, <1>4 DEF Session!Subscribe, Session!StreamAt, Session!Returns, Session!sessionVars

LEMMA StreamTyped ==
  ASSUME SessionTypes, NEW r \in Readers,
         \/ Session!Receive(r) \/ Session!ChannelClosed(r) \/ Session!ContextDone(r)
         \/ Session!Deliver(r) \/ Session!Unsubscribe(r) \/ Session!Report(r)
  PROVE  SessionTypes'
<1>1. OwnTypes /\ ConnTypes /\ chan \in [Readers -> Channel] /\ chan[r] \in Channel
  BY DEF SessionTypes, ConnTypes
<1>2. /\ UNCHANGED <<shell, pty, written, pumped, pump, monitor, release, closed, closeErr,
                     handler, client>>
  BY DEF Session!Receive, Session!ChannelClosed, Session!ContextDone, Session!Deliver,
     Session!Unsubscribe, Session!Report, Session!ptyVars, Session!sessionVars
<1>3. stream' \in [Readers -> Streams]
  <2>1. \E pc1 \in Streams : stream' = [stream EXCEPT ![r] = pc1]
    BY DEF Session!Receive, Session!ChannelClosed, Session!ContextDone, Session!Deliver,
       Session!Unsubscribe, Session!Report, Session!StreamAt, Streams
  <2>2. QED
    BY <1>1, <2>1 DEF ConnTypes
<1>4. readOutcome' \in [Readers -> ReadOutcomes]
  <2>1. readOutcome' = readOutcome \/ \E what \in ReadOutcomes : readOutcome' = [readOutcome EXCEPT ![r] = what]
    BY DEF Session!Receive, Session!ChannelClosed, Session!ContextDone, Session!Deliver,
       Session!Unsubscribe, Session!Report, Session!Returns, Session!Forget, ReadOutcomes
  <2>2. QED
    BY <1>1, <2>1 DEF ConnTypes
<1>5. joined' \in [Readers -> 0 .. MaxChunks]
  <2>1. joined' = joined \/ joined' = [joined EXCEPT ![r] = 0]
    BY DEF Session!Receive, Session!ChannelClosed, Session!ContextDone, Session!Deliver,
       Session!Unsubscribe, Session!Report, Session!Forget
  <2>2. QED
    BY <1>1, <2>1, SessionAssumption DEF ConnTypes
<1>6. sock' \in [Readers -> {"open", "normal", "error"}]
  <2>1. \/ sock' = sock
        \/ sock' = [sock EXCEPT ![r] = IF @ # "open" \/ readOutcome[r] = "cancelled" THEN @
                                       ELSE IF readOutcome[r] = "ended" THEN "normal" ELSE "error"]
    BY DEF Session!Receive, Session!ChannelClosed, Session!ContextDone, Session!Deliver,
       Session!Unsubscribe, Session!Report
  <2>2. QED
    BY <1>1, <2>1 DEF ConnTypes
<1>7. chan' \in [Readers -> Channel]
  <2>1. CASE Session!ChannelClosed(r) \/ Session!ContextDone(r) \/ Session!Deliver(r)
    BY <1>1, <2>1 DEF Session!ChannelClosed, Session!ContextDone, Session!Deliver,
       Session!sessionVars
  <2> DEFINE s == chan[r].buf
             o == IF r \in subs THEN FALSE ELSE chan[r].open
  <2>2. s \in Seq(Chunk) /\ Len(s) <= Cap /\ Len(s) \in Nat /\ chan[r].open \in BOOLEAN
    BY <1>1, ChannelIs
  <2>3. CASE Session!Receive(r)
    <3> DEFINE z == Tail(s)
               tailed == [chan[r] EXCEPT !.buf = z]
    <3>1. s # <<>> /\ chan' = [chan EXCEPT ![r] = tailed]
      BY <2>3 DEF Session!Receive
    <3>2. z \in Seq(Chunk) /\ Len(z) <= Cap
      BY <2>2, <3>1, HeadTailProperties, SessionAssumption
    <3> HIDE DEF z
    <3>3. tailed \in Channel
      BY <1>1, <3>2, ChannelWith
    <3> HIDE DEF tailed
    <3>4. QED
      BY <1>1, <3>1, <3>3
  <2>4. CASE Session!Unsubscribe(r)
    <3> DEFINE left == [chan[r] EXCEPT !.open = o]
    <3>1. chan' = [chan EXCEPT ![r] = left]
      BY <2>4 DEF Session!Unsubscribe
    <3>2. o \in BOOLEAN
      BY <2>2
    <3> HIDE DEF o
    <3>3. left \in Channel
      BY <1>1, <3>2, ChannelWith
    <3> HIDE DEF left
    <3>4. QED
      BY <1>1, <3>1, <3>3
  <2>5. CASE Session!Report(r)
    <3> DEFINE none == <<>>
               emptied == [chan[r] EXCEPT !.buf = none]
    <3>1. chan' = [chan EXCEPT ![r] = emptied]
      BY <2>5 DEF Session!Report, Session!Forget
    <3>2. none \in Seq(Chunk) /\ Len(none) <= Cap
      BY EmptySeq, SessionAssumption
    <3> HIDE DEF none
    <3>3. emptied \in Channel
      BY <1>1, <3>2, ChannelWith
    <3> HIDE DEF emptied
    <3>4. QED
      BY <1>1, <3>1, <3>3
  <2>6. QED
    BY <2>1, <2>3, <2>4, <2>5
<1>8. subs' \subseteq Readers /\ panicked' \in BOOLEAN
  BY <1>1 DEF OwnTypes, Session!Receive, Session!ChannelClosed, Session!ContextDone,
     Session!Deliver, Session!Unsubscribe, Session!Report, Session!sessionVars
<1>9. OwnTypes'
  BY <1>1, <1>2, <1>8 DEF OwnTypes
<1>10. ConnTypes'
  BY <1>1, <1>2, <1>3, <1>4, <1>5, <1>6, <1>7 DEF ConnTypes
<1>11. QED
  BY <1>9, <1>10 DEF SessionTypes

LEMMA SessionTypesStep == SessionTypes /\ Session!Next => SessionTypes'
<1> SUFFICES ASSUME SessionTypes, Session!Next PROVE SessionTypes'
  OBVIOUS
<1>1. CASE Session!ShellWrites \/ Session!ShellExits
  BY <1>1, OwnTyped
<1>2. CASE Session!PumpStep
  BY <1>2, OwnTyped, FinishersTyped, SendTyped DEF Session!PumpStep
<1>3. CASE Session!MonitorStep \/ Session!ReleaseBegins \/ Session!ReleaseStep
  BY <1>3, OwnTyped, FinishersTyped DEF Session!MonitorStep, Session!ReleaseStep
<1>4. ASSUME NEW r \in Readers, Session!StreamStep(r) PROVE SessionTypes'
  BY <1>4, SubscribeTyped, StreamTyped DEF Session!StreamStep
<1>5. ASSUME NEW r \in Readers,
             \/ Session!HandlerStep(r) \/ Session!Attach(r) \/ Session!MessageArrives(r)
             \/ Session!InputWritten(r) \/ Session!ClientGoes(r)
      PROVE  SessionTypes'
  BY <1>5, HandlerTyped
<1>6. QED
  BY <1>1, <1>2, <1>3, <1>4, <1>5 DEF Session!Next

LEMMA SessionTypesStay == SessionTypes /\ UNCHANGED sessionVars => SessionTypes'
  BY OwnStays, ConnStays DEF SessionTypes, sessionVars, ownVars, connTypeVars

LEMMA SessionTypesInvariant == FairStages => []SessionTypes
<1>1. StagesInit => SessionTypes
  BY SessionTyped DEF StagesInit
<1>2. SessionTypes /\ [StagesNext]_allVars => SessionTypes'
  BY SessionTypesStep, SessionTypesStay
  DEF StagesNext, RunMoves, SessionMoves, TrackerMoves, BridgeMoves, LineMoves, allVars
<1>3. QED
  BY <1>1, <1>2, PTL DEF FairStages

LEMMA SessionTypesImply == SessionTypes => Session!TypeOK
<1> SUFFICES ASSUME SessionTypes PROVE Session!TypeOK
  OBVIOUS
<1>1. OwnTypes /\ ConnTypes
  BY DEF SessionTypes
<1>2. ASSUME NEW r \in Readers
      PROVE  /\ chan[r].open \in BOOLEAN
             /\ Len(chan[r].buf) <= Cap
             /\ \A i \in DOMAIN chan[r].buf : chan[r].buf[i] \in Session!Chunks
  <2>1. chan[r] \in Channel
    BY <1>1 DEF ConnTypes
  <2>2. chan[r].buf \in Seq(Chunk) /\ chan[r].open \in BOOLEAN /\ Len(chan[r].buf) <= Cap
    BY <2>1, ChannelIs
  <2>3. ASSUME NEW i \in DOMAIN chan[r].buf PROVE chan[r].buf[i] \in Session!Chunks
    <3> DEFINE s == chan[r].buf
    <3>1. s \in Seq(Chunk) /\ i \in 1 .. Len(s)
      BY <2>2, <2>3, LenProperties
    <3> HIDE DEF s
    <3>2. s[i] \in Chunk
      BY <3>1, ElementOfSeq
    <3>3. QED
      BY <3>2 DEF s, Chunk, Session!Chunks
  <2>4. QED
    BY <2>2, <2>3
<1>3. ASSUME NEW r \in Readers
      PROVE  /\ stream[r] \in {"off", "subscribe", "loop", "deliver", "leave", "report", "over"}
             /\ handler[r] \in {"off", "read", "input", "write", "join", "over"}
             /\ readOutcome[r] \in {"none", "ended", "failed", "cancelled"}
             /\ joined[r] \in 0 .. MaxChunks
             /\ client[r] \in {"up", "gone"} /\ sock[r] \in {"open", "normal", "error"}
  BY <1>1 DEF ConnTypes, Streams, Handlers, ReadOutcomes
<1>4. /\ shell \in {"running", "exited"} /\ pty \in BOOLEAN
      /\ written \in 0 .. MaxChunks /\ pumped \in 0 .. written
      /\ pump \in [pc : {"read", "broadcast", "send", "hangup", "done"}, left : SUBSET Readers]
      /\ monitor \in {"wait", "finish", "done"}
      /\ release \in {"idle", "finish", "terminate", "hangup", "reap", "done"}
      /\ closed \in BOOLEAN /\ closeErr \in Session!CloseErrors
      /\ subs \subseteq Readers /\ panicked \in BOOLEAN
  BY <1>1 DEF OwnTypes, Pumps
<1>5. QED
  BY <1>2, <1>3, <1>4 DEF Session!TypeOK
-----------------------------------------------------------------------------
(* The types of all stages *)
LEMMA RunInvariant == FairStages => []Inv
<1>1. StagesInit => Inv
  BY InvInit DEF StagesInit
<1>2. Inv /\ [StagesNext]_allVars => Inv'
  BY InvStep DEF StagesNext, RunMoves, SessionMoves, TrackerMoves, BridgeMoves, LineMoves, allVars
<1>3. QED
  BY <1>1, <1>2, PTL DEF FairStages

LEMMA BridgeTypes == BridgeInv => Bridge!TypeOK
<1> SUFFICES ASSUME BridgeInv PROVE Bridge!TypeOK
  OBVIOUS
<1>1. BridgeShape /\ \A c \in BridgeSides : Flow(c)
  BY DEF BridgeInv
<1>2. /\ peer \in [BridgeSides -> {"open", "closed", "dropped"}]
      /\ conn \in [BridgeSides -> {"none", "live", "dead"}]
      /\ bridgeErr \in Seq(Bridge!Errors) /\ Len(bridgeErr) <= 2
      /\ bridgeHandler \in {"accept", "wait", "closeRunner", "closeBrowser", "cancel", "done"}
      /\ bridgeResult \in Bridge!Errors \cup {"none"}
      /\ cancelled \in BOOLEAN
  BY <1>1 DEF BridgeShape
<1>3. ASSUME NEW c \in BridgeSides
      PROVE  /\ sent[c] \in 0 .. MaxFrames /\ read[c] \in 0 .. sent[c]
             /\ got[c] \in 0 .. read[Bridge!Other(c)]
  <2> DEFINE o == Bridge!Other(c)
  <2>1. o \in BridgeSides /\ Bridge!Other(o) = c
    BY TwoSides
  <2>2. /\ sent[c] \in 0 .. MaxFrames /\ read[c] \in Nat /\ got[c] \in Nat /\ read[o] \in Nat
    BY <1>1, <2>1 DEF BridgeShape
  <2>3. read[c] <= sent[c]
    BY <1>1 DEF Flow
  <2>4. got[c] + InHand(o) <= read[o]
    BY <1>1, <2>1 DEF Flow
  <2>5. InHand(o) \in {0, 1}
    BY DEF InHand
  <2>6. QED
    BY <2>2, <2>3, <2>4, <2>5, BridgeAssumption
<1>4. proxy \in [BridgeSides -> [pc : {"off", "read", "write", "report", "done"},
                                 err : Bridge!Errors \cup {"none"}]]
  BY <1>1 DEF BridgeShape, Goroutine
<1>5. told \in [BridgeSides -> {"none", "normal", "passed on", "internal error"}]
  BY <1>1 DEF BridgeShape, Statuses
<1>6. QED
  BY <1>2, <1>3, <1>4, <1>5 DEF Bridge!TypeOK, Bridge!Sides, BridgeSides

(* The variables of every stage keep their types; among them, no channel of a session ever
   holds more than its capacity, and the output of the shell is held back only while it may
   still become a marker. *)
THEOREM StagesTypeCorrect == FairStages => []TypesOK
<1>1. Inv => TypeOK
  BY DEF Inv, Shape
<1>2. BridgeInv => Bridge!TypeOK
  BY BridgeTypes
<1>3. TypeOK /\ Session!TypeOK /\ Tracker!TypeOK /\ Bridge!TypeOK /\ Line!TypeOK => TypesOK
  BY DEF TypesOK
<1>4. QED
  BY <1>1, <1>2, <1>3, RunInvariant, SessionTypesInvariant, SessionTypesImply, TrackerInvariant,
     TrackerInvImplies, BridgeInvariant, LineInvariant, LineInvImplies, PTL
=============================================================================
