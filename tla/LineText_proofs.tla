--------------------------- MODULE LineText_proofs --------------------------
(***************************************************************************)
(* Proofs about CommandLine, for lines of any length: the runner reads     *)
(* every command line as it was written, and loses no rune of any other.   *)
(* First, what is true of all texts: selections, joined pieces, induction. *)
(***************************************************************************)
EXTENDS UserCommands_proofs, Filtering, SequencesExt, SequenceTheorems, WellFoundedInduction

(* Induction, for a set of numbers and for a set of sequences. *)
LEMMA NumbersByInduction ==
  ASSUME NEW S, 0 \in S, \A n \in Nat : n \in S => n + 1 \in S
  PROVE  \A n \in Nat : n \in S
<1> DEFINE Left == Nat \ S
<1> SUFFICES ASSUME Left # {} PROVE FALSE
  OBVIOUS
<1>1. \E x \in Left : \A y \in Left : ~ (<<y, x>> \in OpToRel(<, Nat))
  <2>1. Left \subseteq Nat
    OBVIOUS
  <2> HIDE DEF Left
  <2>2. QED
    BY <2>1, WFMin, NatLessThanWellFounded, Zenon
<1>2. PICK x \in Left : \A y \in Left : ~ (<<y, x>> \in OpToRel(<, Nat))
  BY <1>1
<1>3. x \in Nat /\ x # 0
  BY <1>2
<1>4. x - 1 \in Nat /\ x - 1 < x /\ (x - 1) + 1 = x
  BY <1>3
<1>5. x - 1 \in Left
  BY <1>2, <1>4
<1>6. <<x - 1, x>> \in OpToRel(<, Nat)
  <2> HIDE DEF Left
  <2>1. QED
    BY <1>3, <1>4 DEF OpToRel
<1>7. QED
  BY <1>2, <1>5, <1>6

LEMMA SequencesByInduction ==
  ASSUME NEW V, NEW S, <<>> \in S,
         \A s \in Seq(V) : s \in S => \A x \in V : Append(s, x) \in S
  PROVE  \A s \in Seq(V) : s \in S
<1> DEFINE Long == {n \in Nat : \A s \in Seq(V) : Len(s) = n => s \in S}
<1>1. 0 \in Long
  BY EmptySeq
<1>2. ASSUME NEW n \in Nat, n \in Long PROVE n + 1 \in Long
  <2>1. SUFFICES ASSUME NEW s \in Seq(V), Len(s) = n + 1 PROVE s \in S
    OBVIOUS
  <2>2. s # <<>>
    BY <2>1
  <2>3. PICK t \in Seq(V), x \in V : s = Append(t, x)
    BY <2>2, SequenceEmptyOrAppend
  <2>4. Len(t) = n
    BY <2>1, <2>3, AppendProperties
  <2>5. QED
    BY <1>2, <2>3, <2>4
<1>3. \A n \in Nat : n \in Long
  <2> HIDE DEF Long
  <2>1. QED
    BY <1>1, <1>2, NumbersByInduction
<1>4. QED
  BY <1>3

LEMMA AppendOfConcat ==
  ASSUME NEW V, NEW s \in Seq(V), NEW t \in Seq(V), NEW x \in V
  PROVE  s \o Append(t, x) = Append(s \o t, x)
<1>1. Append(t, x) = t \o <<x>> /\ <<x>> \in Seq(V)
  BY AppendIsConcat
<1>2. s \o t \in Seq(V) /\ Append(s \o t, x) = (s \o t) \o <<x>>
  BY ConcatProperties, AppendIsConcat
<1>3. QED
  BY <1>1, <1>2, ConcatAssociative

(* A function defined by what it takes from its last value, and no other. *)
IsStep(step, n, R) == step \in [(1 .. n) \X R -> R]

Stepwise(f, base, step, n, R) ==
    f \in [0 .. n -> R] /\ f[0] = base /\ \A i \in 1 .. n : f[i] = step[<<i, f[i - 1]>>]

LEMMA StepsExist ==
  ASSUME NEW R, NEW base \in R, NEW n \in Nat, NEW step, IsStep(step, n, R)
  PROVE  \E f : Stepwise(f, base, step, n, R)
<1> USE DEF IsStep, Stepwise
<1> DEFINE Upto == {k \in Nat : k <= n =>
                      \E f \in [0 .. k -> R] :
                         f[0] = base /\ \A i \in 1 .. k : f[i] = step[<<i, f[i - 1]>>]}
<1>1. 0 \in Upto
  <2> DEFINE f == [i \in 0 .. 0 |-> base]
  <2>1. f \in [0 .. 0 -> R] /\ f[0] = base /\ \A i \in 1 .. 0 : f[i] = step[<<i, f[i - 1]>>]
    OBVIOUS
  <2>2. QED
    BY <2>1
<1>2. ASSUME NEW k \in Nat, k \in Upto PROVE k + 1 \in Upto
  <2>1. SUFFICES ASSUME k + 1 <= n
        PROVE \E f \in [0 .. k + 1 -> R] :
                 f[0] = base /\ \A i \in 1 .. k + 1 : f[i] = step[<<i, f[i - 1]>>]
    OBVIOUS
  <2>2. PICK f \in [0 .. k -> R] :
           f[0] = base /\ \A i \in 1 .. k : f[i] = step[<<i, f[i - 1]>>]
    BY <1>2, <2>1
  <2> DEFINE g == [i \in 0 .. k + 1 |-> IF i = k + 1 THEN step[<<k + 1, f[k]>>] ELSE f[i]]
  <2>3. step[<<k + 1, f[k]>>] \in R
    BY <2>1, <2>2
  <2>4. g \in [0 .. k + 1 -> R]
    BY <2>2, <2>3
  <2>5. g[0] = base
    BY <2>2
  <2>6. \A i \in 1 .. k + 1 : g[i] = step[<<i, g[i - 1]>>]
    <3>1. SUFFICES ASSUME NEW i \in 1 .. k + 1 PROVE g[i] = step[<<i, g[i - 1]>>]
      OBVIOUS
    <3>2. CASE i = k + 1
      <4>1. g[i - 1] = f[k] /\ i - 1 = k
        BY <3>2
      <4>2. g[i] = step[<<i, f[k]>>]
        BY <3>2
      <4> HIDE DEF g
      <4>3. QED
        BY <4>1, <4>2
    <3>3. CASE i # k + 1
      <4>1. i \in 1 .. k /\ g[i] = f[i] /\ g[i - 1] = f[i - 1]
        BY <3>1, <3>3
      <4>2. QED
        BY <4>1, <2>2
    <3>4. QED
      BY <3>2, <3>3
  <2>7. QED
    BY <2>4, <2>5, <2>6
<1>3. n \in Upto
  <2>1. \A k \in Nat : k \in Upto
    <3> HIDE DEF Upto
    <3>1. QED
      BY <1>1, <1>2, NumbersByInduction
  <2>2. QED
    BY <2>1
<1>4. QED
  BY <1>3

LEMMA StepsAgree ==
  ASSUME NEW n \in Nat, NEW f, NEW g, f[0] = g[0],
         \A i \in 1 .. n : f[i - 1] = g[i - 1] => f[i] = g[i]
  PROVE  f[n] = g[n]
<1> DEFINE Same == {k \in Nat : k <= n => f[k] = g[k]}
<1>1. 0 \in Same
  OBVIOUS
<1>2. ASSUME NEW k \in Nat, k \in Same PROVE k + 1 \in Same
  <2>1. SUFFICES ASSUME k + 1 <= n PROVE f[k + 1] = g[k + 1]
    OBVIOUS
  <2>2. k + 1 \in 1 .. n /\ (k + 1) - 1 = k /\ f[k] = g[k]
    BY <1>2, <2>1
  <2>3. QED
    BY <2>2
<1>3. \A k \in Nat : k \in Same
  <2> HIDE DEF Same
  <2>1. QED
    BY <1>1, <1>2, NumbersByInduction
<1>4. QED
  BY <1>3
-----------------------------------------------------------------------------
(* Only *)
OnlyBy(s, S, f) ==
    f = [n \in 0 .. Len(s) |->
            IF n = 0 THEN <<>> ELSE IF s[n] \in S THEN Append(f[n - 1], s[n]) ELSE f[n - 1]]

LEMMA OnlyByStep ==
  ASSUME NEW s, NEW S, NEW f, Len(s) \in Nat
  PROVE  OnlyBy(s, S, f) <=>
            /\ f = [n \in 0 .. Len(s) |-> f[n]]
            /\ f[0] = <<>>
            /\ \A i \in 1 .. Len(s) :
                  f[i] = IF s[i] \in S THEN Append(f[i - 1], s[i]) ELSE f[i - 1]
<1> DEFINE body(n) ==
              IF n = 0 THEN <<>> ELSE IF s[n] \in S THEN Append(f[n - 1], s[n]) ELSE f[n - 1]
<1>1. body(0) = <<>> /\ \A i \in 1 .. Len(s) :
                  body(i) = IF s[i] \in S THEN Append(f[i - 1], s[i]) ELSE f[i - 1]
  OBVIOUS
<1>2. OnlyBy(s, S, f) <=> f = [n \in 0 .. Len(s) |-> body(n)]
  BY DEF OnlyBy
<1>3. 0 .. Len(s) = {0} \cup (1 .. Len(s))
  OBVIOUS
<1> HIDE DEF body
<1>4. f = [n \in 0 .. Len(s) |-> body(n)] <=>
         f = [n \in 0 .. Len(s) |-> f[n]] /\ \A n \in 0 .. Len(s) : f[n] = body(n)
  OBVIOUS
<1>5. QED
  BY <1>1, <1>2, <1>3, <1>4

LEMMA OnlySteps ==
  ASSUME NEW V, NEW s \in Seq(V), NEW S
  PROVE  \E f \in [0 .. Len(s) -> Seq(V)] : OnlyBy(s, S, f) /\ Only(s, S) = f[Len(s)]
<1> DEFINE N0 == Len(s)
           R == Seq(V)
           step == [p \in (1 .. N0) \X R |-> IF s[p[1]] \in S THEN Append(p[2], s[p[1]]) ELSE p[2]]
<1>1. N0 \in Nat /\ \A i \in 1 .. N0 : s[i] \in V
  BY LenProperties, ElementOfSeq
<1>2. step \in [(1 .. N0) \X R -> R]
  <2>1. ASSUME NEW p \in (1 .. N0) \X R PROVE step[p] \in R
    <3>1. s[p[1]] \in V /\ p[2] \in R
      BY <1>1
    <3>2. QED
      BY <3>1, AppendProperties
  <2>2. QED
    BY <2>1
<1>3. <<>> \in R
  BY EmptySeq
<1>4. PICK f \in [0 .. N0 -> R] : f[0] = <<>> /\ \A i \in 1 .. N0 : f[i] = step[<<i, f[i - 1]>>]
  <2> DEFINE base == <<>>
  <2>1. N0 \in Nat /\ base \in R
    BY <1>1, <1>3
  <2>2. IsStep(step, N0, R)
    BY <1>2 DEF IsStep
  <2> HIDE DEF step, R, N0, base
  <2>3. \E f : Stepwise(f, base, step, N0, R)
    BY <2>1, <2>2, StepsExist
  <2>4. QED
    BY <2>3 DEF base, Stepwise
<1>5. \A i \in 1 .. N0 : f[i] = IF s[i] \in S THEN Append(f[i - 1], s[i]) ELSE f[i - 1]
  <2>1. SUFFICES ASSUME NEW i \in 1 .. N0
                 PROVE f[i] = IF s[i] \in S THEN Append(f[i - 1], s[i]) ELSE f[i - 1]
    OBVIOUS
  <2>2. f[i - 1] \in R
    BY <1>1
  <2>3. QED
    BY <2>2, <1>4
<1>6. OnlyBy(s, S, f)
  <2>1. f = [n \in 0 .. N0 |-> f[n]]
    BY <1>4
  <2>2. QED
    BY <2>1, <1>1, <1>4, <1>5, OnlyByStep
<1> DEFINE g == CHOOSE g : OnlyBy(s, S, g)
<1>7. OnlyBy(s, S, g) /\ Only(s, S) = g[Len(s)]
  BY <1>6 DEF Only, OnlyBy
<1>8. g[N0] = f[N0]
  <2> HIDE DEF g
  <2>1. g[0] = f[0]
    BY <1>1, <1>6, <1>7, OnlyByStep
  <2>0. /\ \A i \in 1 .. N0 : g[i] = IF s[i] \in S THEN Append(g[i - 1], s[i]) ELSE g[i - 1]
        /\ \A i \in 1 .. N0 : f[i] = IF s[i] \in S THEN Append(f[i - 1], s[i]) ELSE f[i - 1]
    BY <1>1, <1>6, <1>7, OnlyByStep
  <2>2. ASSUME NEW i \in 1 .. N0, g[i - 1] = f[i - 1] PROVE g[i] = f[i]
    BY <2>0, <2>2
  <2>3. QED
    BY <1>1, <2>1, <2>2, StepsAgree
<1>9. QED
  BY <1>6, <1>7, <1>8

LEMMA OnlyEmpty == ASSUME NEW S PROVE Only(<<>>, S) = <<>>
<1>1. PICK f : OnlyBy(<<>>, S, f) /\ Only(<<>>, S) = f[Len(<<>>)]
  BY OnlySteps, EmptySeq
<1>2. QED
  BY <1>1, EmptySeq DEF OnlyBy

LEMMA OnlyType ==
  ASSUME NEW V, NEW s \in Seq(V), NEW S PROVE Only(s, S) \in Seq(V)
  BY OnlySteps, LenProperties

LEMMA OnlyAppend ==
  ASSUME NEW V, NEW s \in Seq(V), NEW x \in V, NEW S
  PROVE  Only(Append(s, x), S) = IF x \in S THEN Append(Only(s, S), x) ELSE Only(s, S)
<1> DEFINE t == Append(s, x)
<1>1. /\ t \in Seq(V) /\ Len(s) \in Nat /\ Len(t) = Len(s) + 1 /\ t[Len(s) + 1] = x
      /\ \A i \in 1 .. Len(s) : t[i] = s[i]
  BY AppendProperties, LenProperties
<1> HIDE DEF t
<1>2. PICK f : OnlyBy(s, S, f) /\ Only(s, S) = f[Len(s)]
  BY OnlySteps
<1>3. PICK g : OnlyBy(t, S, g) /\ Only(t, S) = g[Len(t)]
  BY <1>1, OnlySteps
<1>4. g[Len(s)] = f[Len(s)]
  <2>1. g[0] = f[0]
    BY <1>1, <1>2, <1>3, OnlyByStep
  <2>2. ASSUME NEW i \in 1 .. Len(s), g[i - 1] = f[i - 1] PROVE g[i] = f[i]
    BY <1>1, <1>2, <1>3, <2>2, OnlyByStep
  <2>3. QED
    BY <1>1, <2>1, <2>2, StepsAgree
<1>5. g[Len(t)] = IF x \in S THEN Append(g[Len(s)], x) ELSE g[Len(s)]
  BY <1>1, <1>3, OnlyByStep
<1>6. QED
  BY <1>2, <1>3, <1>4, <1>5 DEF t

LEMMA OnlyConcat ==
  ASSUME NEW V, NEW s \in Seq(V), NEW t \in Seq(V), NEW S
  PROVE  Only(s \o t, S) = Only(s, S) \o Only(t, S)
<1> DEFINE P == {u \in Seq(V) : Only(s \o u, S) = Only(s, S) \o Only(u, S)}
<1>0. Only(s, S) \in Seq(V)
  BY OnlyType
<1>1. <<>> \in P
  <2>1. Only(s, S) \o <<>> = Only(s, S) /\ s \o <<>> = s
    BY <1>0, ConcatEmptySeq
  <2>2. QED
    BY <2>1, OnlyEmpty, EmptySeq
<1>2. ASSUME NEW u \in Seq(V), u \in P, NEW x \in V PROVE Append(u, x) \in P
  <2>1. s \o u \in Seq(V) /\ Append(u, x) \in Seq(V) /\ Only(u, S) \in Seq(V)
    BY ConcatProperties, AppendProperties, OnlyType
  <2>2. s \o Append(u, x) = Append(s \o u, x)
    BY AppendOfConcat
  <2>3. Only(s, S) \o Append(Only(u, S), x) = Append(Only(s, S) \o Only(u, S), x)
    BY <1>0, <2>1, AppendOfConcat
  <2>4. Only(Append(u, x), S) = IF x \in S THEN Append(Only(u, S), x) ELSE Only(u, S)
    BY OnlyAppend
  <2>5. Only(Append(s \o u, x), S) =
           IF x \in S THEN Append(Only(s \o u, S), x) ELSE Only(s \o u, S)
    BY <2>1, OnlyAppend
  <2>6. QED
    BY <1>2, <2>1, <2>2, <2>3, <2>4, <2>5
<1>3. \A u \in Seq(V) : u \in P
  <2> HIDE DEF P
  <2>1. QED
    BY <1>1, <1>2, SequencesByInduction
<1>4. QED
  BY <1>3

LEMMA OnlyOfOnly ==
  ASSUME NEW V, NEW s \in Seq(V), NEW S, NEW U, U \subseteq S
  PROVE  Only(Only(s, S), U) = Only(s, U)
<1> DEFINE P == {u \in Seq(V) : Only(Only(u, S), U) = Only(u, U)}
<1>1. <<>> \in P
  BY OnlyEmpty, EmptySeq
<1>2. ASSUME NEW u \in Seq(V), u \in P, NEW x \in V PROVE Append(u, x) \in P
  <2>1. Append(u, x) \in Seq(V) /\ Only(u, S) \in Seq(V)
    BY AppendProperties, OnlyType
  <2>2. Only(Append(u, x), S) = IF x \in S THEN Append(Only(u, S), x) ELSE Only(u, S)
    BY OnlyAppend
  <2>3. Only(Append(u, x), U) = IF x \in U THEN Append(Only(u, U), x) ELSE Only(u, U)
    BY OnlyAppend
  <2>4. Only(Append(Only(u, S), x), U) =
           IF x \in U THEN Append(Only(Only(u, S), U), x) ELSE Only(Only(u, S), U)
    BY <2>1, OnlyAppend
  <2>5. QED
    BY <1>2, <2>1, <2>2, <2>3, <2>4
<1>3. \A u \in Seq(V) : u \in P
  <2> HIDE DEF P
  <2>1. QED
    BY <1>1, <1>2, SequencesByInduction
<1>4. QED
  BY <1>3
-----------------------------------------------------------------------------
(* FlattenSeq *)
Cat(s, t) == s \o t

FlattenBy(ss, f) ==
    f = [i \in 1 .. Len(ss) |-> IF i = 1 THEN ss[i] ELSE Cat(f[i - 1], ss[i])]

LEMMA FlattenByStep ==
  ASSUME NEW ss, NEW f, Len(ss) \in Nat
  PROVE  FlattenBy(ss, f) <=>
            /\ f = [i \in 1 .. Len(ss) |-> f[i]]
            /\ Len(ss) # 0 => f[1] = ss[1]
            /\ \A i \in 2 .. Len(ss) : f[i] = Cat(f[i - 1], ss[i])
<1> DEFINE body(i) == IF i = 1 THEN ss[i] ELSE Cat(f[i - 1], ss[i])
<1>1. body(1) = ss[1] /\ \A i \in 2 .. Len(ss) : body(i) = Cat(f[i - 1], ss[i])
  OBVIOUS
<1>2. FlattenBy(ss, f) <=> f = [i \in 1 .. Len(ss) |-> body(i)]
  BY DEF FlattenBy
<1>3. /\ \A i \in 1 .. Len(ss) : Len(ss) # 0 /\ (i = 1 \/ i \in 2 .. Len(ss))
      /\ Len(ss) # 0 => 1 \in 1 .. Len(ss)
      /\ \A i \in 2 .. Len(ss) : i \in 1 .. Len(ss)
  OBVIOUS
<1> HIDE DEF body
<1>4. f = [i \in 1 .. Len(ss) |-> body(i)] <=>
         f = [i \in 1 .. Len(ss) |-> f[i]] /\ \A i \in 1 .. Len(ss) : f[i] = body(i)
  OBVIOUS
<1>5. QED
  BY <1>1, <1>2, <1>3, <1>4

LEMMA FlattenAgree ==
  ASSUME NEW n \in Nat \ {0}, NEW f, NEW g, f[1] = g[1],
         \A i \in 2 .. n : f[i - 1] = g[i - 1] => f[i] = g[i]
  PROVE  f[n] = g[n]
<1> DEFINE f0 == [i \in 0 .. n - 1 |-> f[i + 1]]
           g0 == [i \in 0 .. n - 1 |-> g[i + 1]]
<1>1. n - 1 \in Nat /\ f0[0] = g0[0] /\ f0[n - 1] = f[n] /\ g0[n - 1] = g[n]
  OBVIOUS
<1>2. ASSUME NEW i \in 1 .. n - 1, f0[i - 1] = g0[i - 1] PROVE f0[i] = g0[i]
  <2>1. f0[i - 1] = f[i] /\ g0[i - 1] = g[i] /\ f0[i] = f[i + 1] /\ g0[i] = g[i + 1]
    OBVIOUS
  <2>2. i + 1 \in 2 .. n /\ (i + 1) - 1 = i
    OBVIOUS
  <2>3. QED
    BY <1>2, <2>1, <2>2
<1>3. f0[n - 1] = g0[n - 1]
  <2> HIDE DEF f0, g0
  <2>1. QED
    BY <1>1, <1>2, StepsAgree
<1>4. QED
  BY <1>1, <1>3

LEMMA FlattenSteps ==
  ASSUME NEW V, NEW ss \in Seq(Seq(V)), ss # <<>>
  PROVE  \E f \in [1 .. Len(ss) -> Seq(V)] : FlattenBy(ss, f) /\ FlattenSeq(ss) = f[Len(ss)]
<1> DEFINE N0 == Len(ss)
           R == Seq(V)
           base == <<>>
           step == [p \in (1 .. N0) \X R |-> Cat(p[2], ss[p[1]])]
<1>1. N0 \in Nat \ {0} /\ base \in R /\ \A i \in 1 .. N0 : ss[i] \in R
  BY EmptySeq, ElementOfSeq
<1>2. IsStep(step, N0, R)
  <2>1. ASSUME NEW p \in (1 .. N0) \X R PROVE step[p] \in R
    <3>1. ss[p[1]] \in R /\ p[2] \in R
      BY <1>1
    <3>2. QED
      BY <3>1, ConcatProperties DEF Cat
  <2>2. QED
    BY <2>1 DEF IsStep
<1>3. PICK f : Stepwise(f, base, step, N0, R)
  <2> HIDE DEF step, R, N0, base
  <2>1. QED
    BY <1>1, <1>2, StepsExist
<1>4. \A i \in 1 .. N0 : f[i] \in R /\ f[i] = Cat(f[i - 1], ss[i])
  <2>1. SUFFICES ASSUME NEW i \in 1 .. N0 PROVE f[i] \in R /\ f[i] = Cat(f[i - 1], ss[i])
    OBVIOUS
  <2>2. f[i - 1] \in R /\ f[i] \in R /\ f[i] = step[<<i, f[i - 1]>>]
    <3> HIDE DEF step, base, R
    <3>1. i - 1 \in 0 .. N0 /\ i \in 0 .. N0
      BY <1>1
    <3>2. QED
      BY <3>1, <1>3 DEF Stepwise
  <2>3. QED
    BY <2>2
<1>5. f[1] = ss[1]
  <2>1. f[1] = Cat(f[1 - 1], ss[1]) /\ ss[1] \in R
    BY <1>1, <1>4
  <2>2. f[1 - 1] = <<>>
    BY <1>3 DEF Stepwise
  <2>3. QED
    BY <2>1, <2>2, ConcatEmptySeq DEF Cat
<1> DEFINE h == [i \in 1 .. N0 |-> f[i]]
<1>6. h \in [1 .. N0 -> R] /\ FlattenBy(ss, h)
  <2>1. h \in [1 .. N0 -> R]
    BY <1>4
  <2>2. h = [i \in 1 .. N0 |-> h[i]] /\ h[1] = ss[1]
    BY <1>1, <1>5
  <2>3. \A i \in 2 .. N0 : h[i] = Cat(h[i - 1], ss[i])
    BY <1>1, <1>4
  <2> HIDE DEF h
  <2>4. QED
    BY <1>1, <2>1, <2>2, <2>3, FlattenByStep
<1> DEFINE g == CHOOSE g : FlattenBy(ss, g)
<1>7. FlattenBy(ss, g) /\ FlattenSeq(ss) = g[Len(ss)]
  <2>1. Len(ss) # 0
    BY <1>1
  <2>2. QED
    BY <1>6, <2>1 DEF FlattenSeq, FlattenBy, Cat
<1>8. g[N0] = h[N0]
  <2> HIDE DEF g, h
  <2>1. g[1] = h[1]
    BY <1>1, <1>6, <1>7, FlattenByStep
  <2>2. /\ \A i \in 2 .. N0 : g[i] = Cat(g[i - 1], ss[i])
        /\ \A i \in 2 .. N0 : h[i] = Cat(h[i - 1], ss[i])
    BY <1>1, <1>6, <1>7, FlattenByStep
  <2>3. ASSUME NEW i \in 2 .. N0, g[i - 1] = h[i - 1] PROVE g[i] = h[i]
    BY <2>2, <2>3
  <2>4. QED
    BY <1>1, <2>1, <2>3, FlattenAgree
<1>9. QED
  BY <1>6, <1>7, <1>8

LEMMA FlattenEmpty == FlattenSeq(<<>>) = <<>>
  BY EmptySeq DEF FlattenSeq

LEMMA FlattenType ==
  ASSUME NEW V, NEW ss \in Seq(Seq(V)) PROVE FlattenSeq(ss) \in Seq(V)
<1>1. CASE ss = <<>>
  BY <1>1, FlattenEmpty, EmptySeq
<1>2. CASE ss # <<>>
  <2>1. PICK f \in [1 .. Len(ss) -> Seq(V)] : FlattenSeq(ss) = f[Len(ss)]
    BY <1>2, FlattenSteps
  <2>2. Len(ss) \in 1 .. Len(ss)
    BY <1>2, EmptySeq
  <2>3. QED
    BY <2>1, <2>2
<1>3. QED
  BY <1>1, <1>2

LEMMA FlattenAppend ==
  ASSUME NEW V, NEW ss \in Seq(Seq(V)), NEW s \in Seq(V)
  PROVE  FlattenSeq(Append(ss, s)) = FlattenSeq(ss) \o s
<1> DEFINE tt == Append(ss, s)
<1>1. /\ tt \in Seq(Seq(V)) /\ tt # <<>> /\ Len(ss) \in Nat /\ Len(tt) = Len(ss) + 1
      /\ tt[Len(ss) + 1] = s /\ \A i \in 1 .. Len(ss) : tt[i] = ss[i]
  BY AppendProperties, LenProperties
<1> HIDE DEF tt
<1>2. PICK g : FlattenBy(tt, g) /\ FlattenSeq(tt) = g[Len(tt)]
  BY <1>1, FlattenSteps
<1>3. CASE ss = <<>>
  <2>1. Len(tt) = 1 /\ tt[1] = s
    BY <1>1, <1>3, EmptySeq
  <2>2. g[1] = tt[1]
    BY <1>2, <2>1, FlattenByStep
  <2>3. <<>> \o s = s
    BY ConcatEmptySeq
  <2>4. QED
    BY <1>2, <1>3, <2>1, <2>2, <2>3, FlattenEmpty DEF tt
<1>4. CASE ss # <<>>
  <2>1. PICK f : FlattenBy(ss, f) /\ FlattenSeq(ss) = f[Len(ss)]
    BY <1>4, FlattenSteps
  <2>2. Len(ss) \in Nat \ {0}
    BY <1>4, EmptySeq
  <2>3. /\ g[1] = tt[1] /\ f[1] = ss[1]
        /\ \A i \in 2 .. Len(tt) : g[i] = Cat(g[i - 1], tt[i])
        /\ \A i \in 2 .. Len(ss) : f[i] = Cat(f[i - 1], ss[i])
    BY <1>1, <1>2, <2>1, <2>2, FlattenByStep
  <2>4. g[1] = f[1]
    BY <1>1, <2>2, <2>3
  <2>5. ASSUME NEW i \in 2 .. Len(ss), g[i - 1] = f[i - 1] PROVE g[i] = f[i]
    BY <1>1, <2>2, <2>3, <2>5
  <2>6. g[Len(ss)] = f[Len(ss)]
    BY <2>2, <2>4, <2>5, FlattenAgree
  <2>7. Len(tt) \in 2 .. Len(tt) /\ Len(tt) - 1 = Len(ss) /\ tt[Len(tt)] = s
    BY <1>1, <2>2
  <2>8. g[Len(tt)] = Cat(g[Len(ss)], s)
    BY <2>3, <2>7
  <2>9. QED
    BY <1>2, <2>1, <2>6, <2>8 DEF tt, Cat
<1>5. QED
  BY <1>3, <1>4

LEMMA FlattenConcat ==
  ASSUME NEW V, NEW ss \in Seq(Seq(V)), NEW tt \in Seq(Seq(V))
  PROVE  FlattenSeq(ss \o tt) = FlattenSeq(ss) \o FlattenSeq(tt)
<1> DEFINE P == {uu \in Seq(Seq(V)) : FlattenSeq(ss \o uu) = FlattenSeq(ss) \o FlattenSeq(uu)}
<1>0. FlattenSeq(ss) \in Seq(V)
  BY FlattenType
<1>1. <<>> \in P
  <2>1. FlattenSeq(ss) \o <<>> = FlattenSeq(ss) /\ ss \o <<>> = ss
    BY <1>0, ConcatEmptySeq
  <2>2. QED
    BY <2>1, FlattenEmpty, EmptySeq
<1>2. ASSUME NEW uu \in Seq(Seq(V)), uu \in P, NEW s \in Seq(V) PROVE Append(uu, s) \in P
  <2>1. /\ ss \o uu \in Seq(Seq(V)) /\ Append(uu, s) \in Seq(Seq(V))
        /\ FlattenSeq(uu) \in Seq(V)
    BY ConcatProperties, AppendProperties, FlattenType
  <2>2. ss \o Append(uu, s) = Append(ss \o uu, s)
    BY AppendOfConcat
  <2>3. FlattenSeq(Append(ss \o uu, s)) = FlattenSeq(ss \o uu) \o s
    BY <2>1, FlattenAppend
  <2>4. FlattenSeq(Append(uu, s)) = FlattenSeq(uu) \o s
    BY FlattenAppend
  <2>5. (FlattenSeq(ss) \o FlattenSeq(uu)) \o s = FlattenSeq(ss) \o (FlattenSeq(uu) \o s)
    BY <1>0, <2>1, ConcatAssociative
  <2>6. QED
    BY <1>2, <2>1, <2>2, <2>3, <2>4, <2>5
<1>3. \A uu \in Seq(Seq(V)) : uu \in P
  <2> HIDE DEF P
  <2>1. QED
    BY <1>1, <1>2, SequencesByInduction
<1>4. QED
  BY <1>3

LEMMA FlattenOne == ASSUME NEW V, NEW s \in Seq(V) PROVE FlattenSeq(<<s>>) = s
<1>1. <<s>> = Append(<<>>, s) /\ <<>> \in Seq(Seq(V)) /\ <<>> \o s = s
  BY EmptySeq, ConcatEmptySeq
<1>2. QED
  BY <1>1, FlattenAppend, FlattenEmpty
-----------------------------------------------------------------------------
(* What a sequence of words is written as *)
Mapped(m, s) == FlattenSeq([i \in DOMAIN s |-> m[s[i]]])

LEMMA MapIsSeq ==
  ASSUME NEW D, NEW V, NEW m \in [D -> Seq(V)], NEW s \in Seq(D)
  PROVE  /\ [i \in DOMAIN s |-> m[s[i]]] \in Seq(Seq(V))
         /\ Len([i \in DOMAIN s |-> m[s[i]]]) = Len(s)
<1>1. DOMAIN s = 1 .. Len(s) /\ Len(s) \in Nat /\ \A i \in 1 .. Len(s) : s[i] \in D
  BY LenProperties, ElementOfSeq
<1>2. \A i \in 1 .. Len(s) : m[s[i]] \in Seq(V)
  BY <1>1
<1>3. QED
  BY <1>1, <1>2

LEMMA MappedType ==
  ASSUME NEW D, NEW V, NEW m \in [D -> Seq(V)], NEW s \in Seq(D)
  PROVE  Mapped(m, s) \in Seq(V)
<1> DEFINE taken == [i \in DOMAIN s |-> m[s[i]]]
<1>1. taken \in Seq(Seq(V))
  BY MapIsSeq
<1>2. Mapped(m, s) = FlattenSeq(taken)
  BY DEF Mapped
<1> HIDE DEF taken
<1>3. QED
  BY <1>1, <1>2, FlattenType

LEMMA MappedEmpty == ASSUME NEW m PROVE Mapped(m, <<>>) = <<>>
<1>1. [i \in DOMAIN <<>> |-> m[<<>>[i]]] = <<>>
  OBVIOUS
<1>2. QED
  BY <1>1, FlattenEmpty DEF Mapped

IsMap(m, D, V) == m \in [D -> Seq(V)]

Before(x, s) == <<x>> \o s

LEMMA MappedCons ==
  ASSUME NEW D, NEW V, NEW m, NEW x, NEW s, x \in D, s \in Seq(D), IsMap(m, D, V)
  PROVE  Mapped(m, Before(x, s)) = Cat(m[x], Mapped(m, s))
<1>0. m \in [D -> Seq(V)]
  BY DEF IsMap
<1> DEFINE xs == <<x>> \o s
           ms == [i \in DOMAIN s |-> m[s[i]]]
           mx == [i \in DOMAIN xs |-> m[xs[i]]]
<1>1. <<x>> \in Seq(D) /\ xs \in Seq(D) /\ m[x] \in Seq(V) /\ <<m[x]>> \in Seq(Seq(V))
  BY <1>0, ConcatProperties
<1>2. /\ Len(s) \in Nat /\ Len(xs) = Len(s) + 1 /\ xs[1] = x /\ DOMAIN xs = 1 .. Len(s) + 1
      /\ DOMAIN s = 1 .. Len(s) /\ \A i \in 2 .. Len(s) + 1 : xs[i] = s[i - 1]
  OBVIOUS
<1>3. ms \in Seq(Seq(V)) /\ Len(ms) = Len(s) /\ mx \in Seq(Seq(V)) /\ Len(mx) = Len(s) + 1
  <2> HIDE DEF xs
  <2>1. QED
    BY <1>0, <1>1, <1>2, MapIsSeq
<1>4. mx = <<m[x]>> \o ms
  <2>1. mx[1] = m[x] /\ \A i \in 2 .. Len(s) + 1 : mx[i] = ms[i - 1]
    <3> HIDE DEF xs
    <3>1. QED
      BY <1>2
  <2> HIDE DEF mx, ms
  <2>2. /\ <<m[x]>> \o ms \in Seq(Seq(V)) /\ Len(<<m[x]>> \o ms) = Len(s) + 1
        /\ (<<m[x]>> \o ms)[1] = m[x]
        /\ \A i \in 2 .. Len(s) + 1 : (<<m[x]>> \o ms)[i] = ms[i - 1]
    BY <1>1, <1>2, <1>3
  <2>3. \A i \in 1 .. Len(s) + 1 : mx[i] = (<<m[x]>> \o ms)[i]
    <3>1. \A i \in 1 .. Len(s) + 1 : i = 1 \/ i \in 2 .. Len(s) + 1
      BY <1>2
    <3>2. QED
      BY <2>1, <2>2, <3>1
  <2>4. QED
    BY <1>3, <2>2, <2>3, SeqEqual
<1>5. FlattenSeq(<<m[x]>> \o ms) = m[x] \o FlattenSeq(ms)
  <2> HIDE DEF xs, ms, mx
  <2>1. FlattenSeq(<<m[x]>>) = m[x]
    BY <1>1, FlattenOne
  <2>2. QED
    BY <1>1, <1>3, <2>1, FlattenConcat
<1>6. QED
  BY <1>4, <1>5 DEF Mapped, Before, Cat
-----------------------------------------------------------------------------
(* CommandLine: what is left to read, and the step its first rune determines. *)
Runes == {Dq, Sq, Bs, Sp, Ch}
Quotes == {Dq, Sq}
Rest == SubSeq(raw, pos + 1, Len(raw))

LEMMA RunesDiffer ==
    /\ Runes = Line!Runes /\ Line!NoQuote = "none"
    /\ Dq # Sq /\ Dq # Bs /\ Dq # Sp /\ Dq # Ch /\ Dq # "none"
    /\ Sq # Bs /\ Sq # Sp /\ Sq # Ch /\ Sq # "none" /\ Bs # Sp /\ Bs # Ch /\ Sp # Ch
  BY RuneAssumption DEF Runes, Line!Runes, Line!NoQuote

LineShape ==
    /\ raw \in Seq(Runes) /\ args \in Seq(Seq(Runes)) /\ style \in {"any", "pieces", "escaped"}
    /\ style # "any" => args # <<>>
    /\ pos \in 0 .. Len(raw)
    /\ parts \in Seq(Seq(Runes)) /\ current \in Seq(Runes)
    /\ inQuote \in {"none"} \cup Quotes /\ tokenStarted \in BOOLEAN
    /\ (current # <<>> \/ inQuote # "none") => tokenStarted = TRUE
    /\ result \in {"reading", "parts", "unterminated", "required"}

LEMMA RestAt ==
  ASSUME NEW V, NEW s \in Seq(V), NEW k \in 0 .. Len(s)
  PROVE  /\ SubSeq(s, k + 1, Len(s)) \in Seq(V)
         /\ k = Len(s) => SubSeq(s, k + 1, Len(s)) = <<>>
         /\ k < Len(s) => /\ k + 1 \in 0 .. Len(s) /\ s[k + 1] \in V
                          /\ SubSeq(s, k + 1, Len(s)) = <<s[k + 1]>> \o SubSeq(s, k + 2, Len(s))
<1>1. Len(s) \in Nat /\ k \in Nat /\ \A i \in k + 1 .. Len(s) : s[i] \in V
  BY LenProperties, ElementOfSeq
<1>2. SubSeq(s, k + 1, Len(s)) \in Seq(V)
  BY <1>1, SubSeqProperties
<1>3. k = Len(s) => SubSeq(s, k + 1, Len(s)) = <<>>
  BY <1>1, SubSeqEmpty
<1>4. ASSUME k < Len(s)
      PROVE  /\ k + 1 \in 0 .. Len(s) /\ s[k + 1] \in V
             /\ SubSeq(s, k + 1, Len(s)) = <<s[k + 1]>> \o SubSeq(s, k + 2, Len(s))
  <2>1. k + 1 \in 1 .. Len(s) /\ Len(s) \in k + 1 .. Len(s) /\ (k + 1) + 1 = k + 2
    BY <1>1, <1>4
  <2>2. SubSeq(s, k + 1, Len(s)) = <<s[k + 1]>> \o SubSeq(s, (k + 1) + 1, Len(s))
    BY <2>1, SubSeqRecursiveFirst
  <2>3. QED
    BY <1>1, <2>1, <2>2
<1>5. QED
  BY <1>2, <1>3, <1>4

LEMMA ConsIs ==
  ASSUME NEW V, NEW x \in V, NEW y \in V, NEW s \in Seq(V), NEW t \in Seq(V),
         <<x>> \o s = <<y>> \o t
  PROVE  x = y /\ s = t
<1>1. (<<x>> \o s)[1] = x /\ (<<y>> \o t)[1] = y
  OBVIOUS
<1>2. x = y
  BY <1>1
<1>3. <<x>> \in Seq(V)
  OBVIOUS
<1>4. QED
  BY <1>2, <1>3, ConcatSimplifications

LEMMA ConsNotEmpty ==
  ASSUME NEW V, NEW x \in V, NEW s \in Seq(V) PROVE <<x>> \o s # <<>> /\ <<x>> \o s \in Seq(V)
<1>1. Len(<<x>> \o s) = 1 + Len(s) /\ Len(s) \in Nat /\ Len(<<>>) = 0
  OBVIOUS
<1>2. QED
  BY <1>1

(* What the beginning of the rest says of the runes read next. *)
LEMMA RuneIs ==
  ASSUME LineShape, NEW r \in Runes, NEW t \in Seq(Runes), Rest = <<r>> \o t
  PROVE  /\ pos < Len(raw) /\ pos + 1 \in 0 .. Len(raw) /\ raw[pos + 1] = r
         /\ SubSeq(raw, pos + 2, Len(raw)) = t
<1>1. pos \in Nat /\ Len(raw) \in Nat
  BY LenProperties DEF LineShape
<1>2. pos # Len(raw)
  BY <1>1, RestAt, ConsNotEmpty DEF Rest, LineShape
<1>3. pos < Len(raw)
  BY <1>1, <1>2 DEF LineShape
<1>4. /\ pos + 1 \in 0 .. Len(raw) /\ raw[pos + 1] \in Runes
      /\ Rest = <<raw[pos + 1]>> \o SubSeq(raw, pos + 2, Len(raw))
  BY <1>3, RestAt DEF Rest, LineShape
<1>5. SubSeq(raw, pos + 2, Len(raw)) \in Seq(Runes)
  <2>1. pos + 2 = (pos + 1) + 1
    BY <1>1
  <2>2. QED
    BY <2>1, <1>4, RestAt DEF LineShape
<1>6. raw[pos + 1] = r /\ SubSeq(raw, pos + 2, Len(raw)) = t
  <2> DEFINE u == SubSeq(raw, pos + 2, Len(raw))
             x == raw[pos + 1]
  <2>1. x \in Runes /\ u \in Seq(Runes) /\ <<x>> \o u = <<r>> \o t
    BY <1>4, <1>5
  <2> HIDE DEF u, x
  <2>2. x = r /\ u = t
    BY <2>1, ConsIs
  <2>3. QED
    BY <2>2 DEF u, x
<1>7. QED
  BY <1>3, <1>4, <1>6

LEMMA TwoRunesAre ==
  ASSUME LineShape, NEW r \in Runes, NEW q \in Runes, NEW t \in Seq(Runes),
         Rest = <<r>> \o (<<q>> \o t)
  PROVE  /\ pos + 2 <= Len(raw) /\ pos + 2 \in 0 .. Len(raw)
         /\ raw[pos + 1] = r /\ raw[pos + 2] = q
         /\ SubSeq(raw, pos + 3, Len(raw)) = t
<1>1. pos \in Nat /\ Len(raw) \in Nat /\ <<q>> \o t \in Seq(Runes) /\ <<q>> \o t # <<>>
  BY LenProperties, ConsNotEmpty DEF LineShape
<1> DEFINE k == pos + 1
<1>2. /\ pos < Len(raw) /\ k \in 0 .. Len(raw) /\ raw[pos + 1] = r
      /\ SubSeq(raw, k + 1, Len(raw)) = <<q>> \o t
  <2>1. pos + 2 = k + 1
    BY <1>1
  <2>2. QED
    BY <1>1, <2>1, RuneIs
<1>3. k + 1 = pos + 2 /\ k + 2 = pos + 3 /\ k \in Nat
  BY <1>1
<1> HIDE DEF k
<1>4. k # Len(raw) /\ raw \in Seq(Runes)
  BY <1>1, <1>2, RestAt DEF LineShape
<1>5. k < Len(raw)
  BY <1>1, <1>2, <1>3, <1>4
<1>6. /\ k + 1 \in 0 .. Len(raw) /\ raw[k + 1] \in Runes
      /\ SubSeq(raw, k + 1, Len(raw)) = <<raw[k + 1]>> \o SubSeq(raw, k + 2, Len(raw))
  BY <1>2, <1>4, <1>5, RestAt
<1>7. SubSeq(raw, k + 2, Len(raw)) \in Seq(Runes)
  <2>1. k + 2 = (k + 1) + 1
    BY <1>3
  <2>2. QED
    BY <2>1, <1>4, <1>6, RestAt
<1>8. raw[k + 1] = q /\ SubSeq(raw, k + 2, Len(raw)) = t
  <2> DEFINE u == SubSeq(raw, k + 2, Len(raw))
             x == raw[k + 1]
  <2>1. x \in Runes /\ u \in Seq(Runes) /\ <<x>> \o u = <<q>> \o t
    BY <1>2, <1>6, <1>7
  <2> HIDE DEF u, x
  <2>2. x = q /\ u = t
    BY <2>1, ConsIs
  <2>3. QED
    BY <2>2 DEF u, x
<1>9. pos + 2 <= Len(raw)
  BY <1>1, <1>3, <1>6
<1>10. SubSeq(raw, pos + 3, Len(raw)) = t /\ raw[pos + 2] = q /\ pos + 2 \in 0 .. Len(raw)
  BY <1>3, <1>6, <1>8
<1>11. QED
  BY <1>2, <1>9, <1>10

LEMMA PlainRuneStep ==
  ASSUME LineShape, Line!Next, inQuote = "none",
         NEW r \in {Bs, Ch}, NEW t \in Seq(Runes), Rest = <<r>> \o t
  PROVE  Line!TakeRune(r, 1)
<1>1. raw[pos + 1] = r /\ pos < Len(raw)
  BY RuneIs DEF Runes
<1>2. pos # Len(raw)
  BY <1>1 DEF LineShape
<1>3. Line!PlainRune
  BY <1>1, <1>2, RunesDiffer
  DEF Line!Next, Line!EscapedBackslash, Line!IsEscapedBackslash, Line!EscapedQuote,
      Line!IsEscapedQuote, Line!CloseQuote, Line!QuotedRune, Line!OpenQuote, Line!Blank,
      Line!Unterminated, Line!Finish, Line!Rune
<1>4. QED
  BY <1>1, <1>3 DEF Line!PlainRune, Line!Rune

LEMMA OpenStep ==
  ASSUME LineShape, Line!Next, inQuote = "none",
         NEW r \in Quotes, NEW t \in Seq(Runes), Rest = <<r>> \o t
  PROVE  /\ inQuote' = r /\ tokenStarted' = TRUE /\ pos' = pos + 1
         /\ UNCHANGED <<raw, style, args, parts, current, result>>
<1>1. raw[pos + 1] = r /\ pos < Len(raw)
  BY RuneIs DEF Runes, Quotes
<1>2. pos # Len(raw)
  BY <1>1 DEF LineShape
<1>3. Line!OpenQuote
  BY <1>1, <1>2, RunesDiffer
  DEF Line!Next, Line!EscapedBackslash, Line!IsEscapedBackslash, Line!EscapedQuote,
      Line!IsEscapedQuote, Line!CloseQuote, Line!QuotedRune, Line!PlainRune, Line!Blank,
      Line!Unterminated, Line!Finish, Line!Rune, Quotes
<1>4. QED
  BY <1>1, <1>3 DEF Line!OpenQuote, Line!Rune, Line!input

LEMMA BlankStep ==
  ASSUME LineShape, Line!Next, inQuote = "none", NEW t \in Seq(Runes), Rest = <<Sp>> \o t
  PROVE  Line!Flush /\ pos' = pos + 1 /\ UNCHANGED <<raw, style, args, inQuote, result>>
<1>1. raw[pos + 1] = Sp /\ pos < Len(raw)
  BY RuneIs DEF Runes
<1>2. pos # Len(raw)
  BY <1>1 DEF LineShape
<1>3. Line!Blank
  BY <1>1, <1>2, RunesDiffer
  DEF Line!Next, Line!EscapedBackslash, Line!IsEscapedBackslash, Line!EscapedQuote,
      Line!IsEscapedQuote, Line!CloseQuote, Line!QuotedRune, Line!PlainRune, Line!OpenQuote,
      Line!Unterminated, Line!Finish, Line!Rune
<1>4. QED
  BY <1>3 DEF Line!Blank, Line!input

LEMMA CloseStep ==
  ASSUME LineShape, Line!Next, inQuote \in Quotes,
         NEW t \in Seq(Runes), Rest = <<inQuote>> \o t
  PROVE  /\ inQuote' = "none" /\ pos' = pos + 1
         /\ UNCHANGED <<raw, style, args, parts, current, tokenStarted, result>>
<1>1. raw[pos + 1] = inQuote /\ pos < Len(raw)
  BY RuneIs DEF Runes, Quotes
<1>2. pos # Len(raw) /\ inQuote # Bs /\ inQuote # "none"
  BY <1>1, RunesDiffer DEF LineShape, Quotes
<1>3. Line!CloseQuote
  BY <1>1, <1>2, RunesDiffer
  DEF Line!Next, Line!EscapedBackslash, Line!IsEscapedBackslash, Line!EscapedQuote,
      Line!IsEscapedQuote, Line!Blank, Line!QuotedRune, Line!PlainRune, Line!OpenQuote,
      Line!Unterminated, Line!Finish, Line!Rune
<1>4. QED
  BY <1>3, RunesDiffer DEF Line!CloseQuote, Line!input

LEMMA QuotedRuneStep ==
  ASSUME LineShape, Line!Next, inQuote \in Quotes,
         NEW r \in Runes \ {Bs, inQuote}, NEW t \in Seq(Runes), Rest = <<r>> \o t
  PROVE  Line!TakeRune(r, 1)
<1>1. raw[pos + 1] = r /\ pos < Len(raw)
  BY RuneIs
<1>2. pos # Len(raw) /\ inQuote # "none"
  BY <1>1, RunesDiffer DEF LineShape, Quotes
<1>3. Line!QuotedRune
  BY <1>1, <1>2, RunesDiffer
  DEF Line!Next, Line!EscapedBackslash, Line!IsEscapedBackslash, Line!EscapedQuote,
      Line!IsEscapedQuote, Line!Blank, Line!CloseQuote, Line!PlainRune, Line!OpenQuote,
      Line!Unterminated, Line!Finish, Line!Rune
<1>4. QED
  BY <1>1, <1>3 DEF Line!QuotedRune, Line!Rune

LEMMA EscapedBackslashStep ==
  ASSUME LineShape, Line!Next, inQuote \in Quotes,
         NEW t \in Seq(Runes), Rest = <<Bs>> \o (<<Bs>> \o t)
  PROVE  Line!TakeRune(Bs, 2)
<1>1. raw[pos + 1] = Bs /\ raw[pos + 2] = Bs /\ pos + 2 <= Len(raw)
  BY TwoRunesAre DEF Runes
<1>2. pos # Len(raw) /\ inQuote # "none" /\ inQuote # Bs
  <2>1. pos \in Nat /\ Len(raw) \in Nat
    BY LenProperties DEF LineShape
  <2>2. QED
    BY <1>1, <2>1, RunesDiffer DEF LineShape, Quotes
<1>3. ~Line!IsEscapedQuote /\ (result = "reading" => Line!IsEscapedBackslash)
  BY <1>1, <1>2, RunesDiffer
  DEF Line!IsEscapedQuote, Line!IsEscapedBackslash, Line!Rune, Line!Next2, Line!More
<1>4. Line!EscapedBackslash
  BY <1>1, <1>2, <1>3, RunesDiffer
  DEF Line!Next, Line!EscapedBackslash, Line!EscapedQuote, Line!More,
      Line!Blank, Line!CloseQuote, Line!PlainRune, Line!OpenQuote, Line!QuotedRune,
      Line!Unterminated, Line!Finish, Line!Rune
<1>5. QED
  BY <1>4 DEF Line!EscapedBackslash

LEMMA EscapedQuoteStep ==
  ASSUME LineShape, Line!Next, inQuote \in Quotes,
         NEW r \in Runes \ {Sp}, NEW t \in Seq(Runes),
         Rest = <<Bs>> \o (<<inQuote>> \o (<<r>> \o t))
  PROVE  Line!TakeRune(inQuote, 2)
<1>0. <<r>> \o t \in Seq(Runes) /\ pos \in Nat /\ Len(raw) \in Nat
  BY ConsNotEmpty, LenProperties DEF LineShape
<1>1. /\ raw[pos + 1] = Bs /\ raw[pos + 2] = inQuote /\ pos + 2 <= Len(raw)
      /\ pos + 2 \in 0 .. Len(raw) /\ SubSeq(raw, pos + 3, Len(raw)) = <<r>> \o t
  BY <1>0, TwoRunesAre DEF Runes, Quotes
<1>2. pos + 2 # Len(raw) /\ raw[pos + 3] = r
  <2> DEFINE k == pos + 2
  <2>1. k + 1 = pos + 3 /\ k \in 0 .. Len(raw) /\ k \in Nat
    BY <1>0, <1>1
  <2> HIDE DEF k
  <2>2. SubSeq(raw, k + 1, Len(raw)) # <<>> /\ raw \in Seq(Runes)
    BY <1>1, <2>1, ConsNotEmpty DEF LineShape
  <2>3. k # Len(raw)
    BY <2>1, <2>2, RestAt
  <2>4. k < Len(raw)
    BY <1>0, <2>1, <2>3
  <2>5. /\ k + 1 \in 0 .. Len(raw) /\ raw[k + 1] \in Runes
        /\ <<r>> \o t = <<raw[k + 1]>> \o SubSeq(raw, k + 2, Len(raw))
    BY <1>1, <2>1, <2>2, <2>4, RestAt
  <2>6. SubSeq(raw, k + 2, Len(raw)) \in Seq(Runes)
    <3>1. k + 2 = (k + 1) + 1
      BY <2>1
    <3>2. QED
      BY <3>1, <2>2, <2>5, RestAt
  <2>7. raw[k + 1] = r
    <3> DEFINE u == SubSeq(raw, k + 2, Len(raw))
               x == raw[k + 1]
    <3>1. x \in Runes /\ u \in Seq(Runes) /\ <<x>> \o u = <<r>> \o t
      BY <2>5, <2>6
    <3> HIDE DEF u, x
    <3>2. x = r
      BY <3>1, ConsIs
    <3>3. QED
      BY <3>2 DEF x
  <2>8. QED
    BY <2>1, <2>3, <2>7 DEF k
<1>3. pos # Len(raw) /\ inQuote # "none" /\ inQuote # Bs
  BY <1>0, <1>1, RunesDiffer DEF Quotes
<1>4. ~Line!QuoteTerminatesToken(pos + 2)
  <2>1. (pos + 2) + 1 = pos + 3
    BY <1>0
  <2>2. QED
    BY <1>2, <2>1 DEF Line!QuoteTerminatesToken
<1>5. ~Line!IsEscapedBackslash /\ (result = "reading" => Line!IsEscapedQuote)
  BY <1>1, <1>3, <1>4
  DEF Line!IsEscapedQuote, Line!IsEscapedBackslash, Line!Rune, Line!Next2, Line!More, Line!NoQuote
<1>6. Line!EscapedQuote
  BY <1>1, <1>3, <1>5, RunesDiffer
  DEF Line!Next, Line!EscapedBackslash, Line!EscapedQuote, Line!More,
      Line!Blank, Line!CloseQuote, Line!PlainRune, Line!OpenQuote, Line!QuotedRune,
      Line!Unterminated, Line!Finish, Line!Rune
<1>7. QED
  BY <1>6 DEF Line!EscapedQuote

LEMMA LastStep ==
  ASSUME LineShape, Line!Next, Rest = <<>>
  PROVE  Line!Unterminated \/ Line!Finish
<1>1. pos \in Nat /\ Len(raw) \in Nat /\ raw \in Seq(Runes) /\ pos \in 0 .. Len(raw)
  BY LenProperties DEF LineShape
<1>2. ~ (pos < Len(raw))
  <2>1. SUFFICES ASSUME pos < Len(raw) PROVE FALSE
    OBVIOUS
  <2>2. /\ raw[pos + 1] \in Runes /\ pos + 1 \in 0 .. Len(raw)
        /\ Rest = <<raw[pos + 1]>> \o SubSeq(raw, pos + 2, Len(raw))
    BY <1>1, <2>1, RestAt DEF Rest
  <2>3. SubSeq(raw, pos + 2, Len(raw)) \in Seq(Runes)
    <3>1. pos + 2 = (pos + 1) + 1
      BY <1>1
    <3>2. QED
      BY <3>1, <1>1, <2>2, RestAt
  <2>4. QED
    BY <2>2, <2>3, ConsNotEmpty
<1>3. ~Line!More(1) /\ ~Line!More(2)
  BY <1>1, <1>2 DEF Line!More
<1>4. QED
  BY <1>3
  DEF Line!Next, Line!EscapedBackslash, Line!IsEscapedBackslash, Line!EscapedQuote,
      Line!IsEscapedQuote, Line!Blank, Line!CloseQuote, Line!PlainRune, Line!OpenQuote,
      Line!QuotedRune
-----------------------------------------------------------------------------
(* CommandLine: how far the words that raw was written from have been read. *)
PieceOf == [r \in Runes |-> Line!Piece(r)]
EscapeOf == [r \in Runes |-> Line!Escape(r)]
Word(st, a) ==
    IF st = "pieces" THEN <<Dq>> \o (<<Dq>> \o Mapped(PieceOf, a))
    ELSE <<Dq>> \o (Mapped(EscapeOf, a) \o <<Dq>>)
WordOf(st) == [a \in Seq(Runes) |-> Word(st, a) \o <<Sp>>]
Words(st, as) == Mapped(WordOf(st), as)
After(as) == <<Sp>> \o Words(style, as)

(* The rest of the line writes the arguments that are left: as between two words, s and as
   within one.  In a quote that is open there is a rune to come, or its end. *)
BetweenWords(as) ==
    /\ tokenStarted = FALSE /\ inQuote = "none" /\ current = <<>>
    /\ args = parts \o as /\ Rest = Words(style, as)

InPieces(s, as) ==
    \/ inQuote = "none" /\ Rest = Mapped(PieceOf, s) \o After(as)
    \/ inQuote \in Quotes /\ Rest = <<inQuote>> \o (Mapped(PieceOf, s) \o After(as))
    \/ /\ inQuote \in Quotes
       /\ \E r \in Runes \ {Bs, inQuote}, t \in Seq(Runes) :
             /\ s = <<r>> \o t
             /\ Rest = <<r>> \o (<<inQuote>> \o (Mapped(PieceOf, t) \o After(as)))

InEscapes(s, as) ==
    \/ inQuote = Dq /\ Rest = Mapped(EscapeOf, s) \o (<<Dq>> \o After(as))
    \/ inQuote = "none" /\ s = <<>> /\ Rest = After(as)

InWord(s, as) ==
    /\ tokenStarted = TRUE
    /\ args = parts \o (<<current \o s>> \o as)
    /\ IF style = "pieces" THEN InPieces(s, as) ELSE InEscapes(s, as)

Reading ==
    \E as \in Seq(Seq(Runes)) : BetweenWords(as) \/ \E s \in Seq(Runes) : InWord(s, as)

Writable ==
    /\ style \in {"pieces", "escaped"} /\ args # <<>>
    /\ style = "escaped" => \A i \in DOMAIN args : ~Line!QuoteBeforeBlank(args[i])

(* A line that can be written is read so far, or read as what it was written from. *)
ReadSoFar ==
    Writable => IF result = "reading" THEN Reading ELSE result = "parts" /\ parts = args

LEMMA PieceTypes ==
    /\ PieceOf \in [Runes -> Seq(Runes)] /\ EscapeOf \in [Runes -> Seq(Runes)]
    /\ PieceOf[Bs] = <<Bs>> /\ EscapeOf[Bs] = <<Bs, Bs>> /\ EscapeOf[Dq] = <<Bs, Dq>>
    /\ \A r \in Runes \ {Bs} : \E q \in Quotes \ {r} : PieceOf[r] = <<q, r, q>>
    /\ \A r \in Runes \ {Bs, Dq} : EscapeOf[r] = <<r>>
<1>0. \A x, y, z \in Runes : /\ <<x>> \in Seq(Runes) /\ <<x, y>> \in Seq(Runes)
                             /\ <<x, y, z>> \in Seq(Runes)
  OBVIOUS
<1>1. ASSUME NEW r \in Runes PROVE Line!Piece(r) \in Seq(Runes) /\ Line!Escape(r) \in Seq(Runes)
  <2>1. Dq \in Runes /\ Sq \in Runes /\ Bs \in Runes
    BY DEF Runes
  <2>2. QED
    BY <1>0, <2>1 DEF Line!Piece, Line!Escape
<1>2. PieceOf \in [Runes -> Seq(Runes)] /\ EscapeOf \in [Runes -> Seq(Runes)]
  BY <1>1 DEF PieceOf, EscapeOf
<1>3. Bs \in Runes /\ Dq \in Runes
  BY DEF Runes
<1>4. PieceOf[Bs] = <<Bs>> /\ EscapeOf[Bs] = <<Bs, Bs>> /\ EscapeOf[Dq] = <<Bs, Dq>>
  BY <1>3, RunesDiffer DEF PieceOf, EscapeOf, Line!Piece, Line!Escape
<1>5. ASSUME NEW r \in Runes \ {Bs} PROVE \E q \in Quotes \ {r} : PieceOf[r] = <<q, r, q>>
  <2>1. PieceOf[r] = IF r = Dq THEN <<Sq, r, Sq>> ELSE <<Dq, r, Dq>>
    BY RunesDiffer DEF PieceOf, Line!Piece
  <2>2. QED
    BY <2>1, RunesDiffer DEF Quotes
<1>6. ASSUME NEW r \in Runes \ {Bs, Dq} PROVE EscapeOf[r] = <<r>>
  BY RunesDiffer DEF EscapeOf, Line!Escape
<1>7. QED
  BY <1>2, <1>4, <1>5, <1>6

LEMMA WordTypes ==
  ASSUME NEW st
  PROVE  WordOf(st) \in [Seq(Runes) -> Seq(Runes)]
<1>1. ASSUME NEW a \in Seq(Runes) PROVE Word(st, a) \o <<Sp>> \in Seq(Runes)
  <2>1. Mapped(PieceOf, a) \in Seq(Runes) /\ Mapped(EscapeOf, a) \in Seq(Runes)
    BY PieceTypes, MappedType
  <2>2. <<Dq>> \in Seq(Runes) /\ <<Sp>> \in Seq(Runes)
    BY DEF Runes
  <2>3. Word(st, a) \in Seq(Runes)
    BY <2>1, <2>2, ConcatProperties DEF Word
  <2>4. QED
    BY <2>2, <2>3, ConcatProperties
<1>2. QED
  BY <1>1 DEF WordOf

LEMMA TextTypes ==
  ASSUME NEW s \in Seq(Runes), NEW as \in Seq(Seq(Runes))
  PROVE  /\ Mapped(PieceOf, s) \in Seq(Runes) /\ Mapped(EscapeOf, s) \in Seq(Runes)
         /\ Words(style, as) \in Seq(Runes) /\ After(as) \in Seq(Runes)
         /\ Dq \in Runes /\ Sq \in Runes /\ Bs \in Runes /\ Sp \in Runes /\ Ch \in Runes
         /\ <<Dq>> \in Seq(Runes) /\ <<Sp>> \in Seq(Runes)
<1>1. <<Sp>> \in Seq(Runes) /\ <<Dq>> \in Seq(Runes)
      /\ Dq \in Runes /\ Sq \in Runes /\ Bs \in Runes /\ Sp \in Runes /\ Ch \in Runes
  BY DEF Runes
<1>2. Words(style, as) \in Seq(Runes)
  BY WordTypes, MappedType DEF Words
<1>3. Mapped(PieceOf, s) \in Seq(Runes) /\ Mapped(EscapeOf, s) \in Seq(Runes)
  BY PieceTypes, MappedType
<1>4. QED
  BY <1>1, <1>2, <1>3, ConcatProperties DEF After

LEMMA FirstOf ==
  ASSUME NEW V, NEW s \in Seq(V), s # <<>>
  PROVE  \E x \in V, t \in Seq(V) : s = <<x>> \o t
<1>1. Head(s) \in V /\ Tail(s) \in Seq(V)
  BY HeadTailProperties
<1>2. s = <<Head(s)>> \o Tail(s)
  OBVIOUS
<1>3. QED
  BY <1>1, <1>2

(* Concatenations, with the brackets to the right. *)
LEMMA ToTheRight ==
  ASSUME NEW V, NEW s \in Seq(V), NEW t \in Seq(V), NEW u \in Seq(V), NEW v \in Seq(V)
  PROVE  /\ s \o t \in Seq(V) /\ (s \o t) \o u = s \o (t \o u) /\ (s \o t) \o u \in Seq(V)
         /\ ((s \o t) \o u) \o v = s \o (t \o (u \o v))
         /\ (s \o (t \o u)) \o v = s \o (t \o (u \o v))
<1>1. s \o t \in Seq(V) /\ t \o u \in Seq(V) /\ u \o v \in Seq(V)
  BY ConcatProperties
<1>2. (s \o t) \o u \in Seq(V) /\ (s \o t) \o u = s \o (t \o u)
  BY <1>1, ConcatProperties, ConcatAssociative
<1>3. ((s \o t) \o u) \o v = (s \o t) \o (u \o v)
  <2> DEFINE w == s \o t
  <2>1. w \in Seq(V)
    BY <1>1
  <2> HIDE DEF w
  <2>2. (w \o u) \o v = w \o (u \o v)
    BY <2>1, ConcatAssociative, SMTT(30)
  <2>3. QED
    BY <2>2 DEF w
<1>4. (s \o t) \o (u \o v) = s \o (t \o (u \o v))
  <2> DEFINE w == u \o v
  <2>1. w \in Seq(V)
    BY <1>1
  <2> HIDE DEF w
  <2>2. (s \o t) \o w = s \o (t \o w)
    BY <2>1, ConcatAssociative, SMTT(30)
  <2>3. QED
    BY <2>2 DEF w
<1>5. QED
  BY <1>1, <1>2, <1>3, <1>4, Zenon

LEMMA Pair ==
  ASSUME NEW V, NEW x \in V, NEW y \in V PROVE <<x, y>> = <<x>> \o <<y>>
<1>1. /\ Len(<<x>> \o <<y>>) = 2 /\ (<<x>> \o <<y>>)[1] = x /\ (<<x>> \o <<y>>)[2] = y
      /\ <<x>> \o <<y>> \in Seq(V)
  OBVIOUS
<1> DEFINE v == <<x>> \o <<y>>
           w == <<x, y>>
<1>2. /\ v \in Seq(V) /\ Len(v) = 2 /\ v[1] = x /\ v[2] = y
      /\ w \in Seq(V) /\ Len(w) = 2 /\ w[1] = x /\ w[2] = y
  BY <1>1
<1> HIDE DEF v, w
<1>3. \A i \in 1 .. 2 : w[i] = v[i]
  <2>1. \A i \in 1 .. 2 : i = 1 \/ i = 2
    OBVIOUS
  <2>2. QED
    BY <1>2, <2>1
<1>4. w = v
  BY <1>2, <1>3, SeqEqual
<1>5. QED
  BY <1>4 DEF v, w

LEMMA Triple ==
  ASSUME NEW V, NEW x \in V, NEW y \in V, NEW z \in V
  PROVE  <<x, y, z>> = (<<x>> \o <<y>>) \o <<z>>
<1> DEFINE w == <<x, y>>
<1>1. w \in Seq(V) /\ Len(w) = 2 /\ w[1] = x /\ w[2] = y
  OBVIOUS
<1> HIDE DEF w
<1>2. /\ Len(w \o <<z>>) = 3 /\ (w \o <<z>>)[1] = x /\ (w \o <<z>>)[2] = y
      /\ (w \o <<z>>)[3] = z /\ w \o <<z>> \in Seq(V)
  <2> DEFINE v == <<z>>
  <2>1. v \in Seq(V) /\ Len(v) = 1 /\ v[1] = z
    OBVIOUS
  <2> HIDE DEF v
  <2>2. /\ w \o v \in Seq(V) /\ Len(w \o v) = Len(w) + Len(v)
        /\ \A i \in 1 .. Len(w) + Len(v) :
              (w \o v)[i] = IF i <= Len(w) THEN w[i] ELSE v[i - Len(w)]
    BY <1>1, <2>1, ConcatProperties
  <2>3. QED
    BY <1>1, <2>1, <2>2 DEF v
<1>3. <<x, y, z>> = w \o <<z>>
  BY <1>2
<1>4. QED
  BY Pair, <1>3 DEF w

LEMMA FourToTheRight ==
  ASSUME NEW V, NEW s, NEW t, NEW u, NEW v,
         s \in Seq(V), t \in Seq(V), u \in Seq(V), v \in Seq(V)
  PROVE  Cat(Cat(Cat(s, t), u), v) = Cat(s, Cat(t, Cat(u, v)))
<1>1. Cat(Cat(s, t), u) = Cat(s, Cat(t, u))
  BY ConcatAssociative DEF Cat
<1> DEFINE w == Cat(t, u)
<1>2. w \in Seq(V)
  BY ConcatProperties DEF Cat
<1>3. Cat(w, v) = Cat(t, Cat(u, v))
  BY ConcatAssociative DEF Cat
<1> HIDE DEF w
<1>4. Cat(Cat(s, w), v) = Cat(s, Cat(w, v))
  BY <1>2, ConcatAssociative DEF Cat
<1>5. QED
  BY <1>1, <1>3, <1>4 DEF w

LEMMA MappedWord ==
  ASSUME NEW m, NEW x, NEW s, x \in Seq(Runes), s \in Seq(Seq(Runes)),
         IsMap(m, Seq(Runes), Runes)
  PROVE  Mapped(m, Before(x, s)) = Cat(m[x], Mapped(m, s))
<1> DEFINE W == Seq(Runes)
<1>1. x \in W /\ s \in Seq(W) /\ IsMap(m, W, Runes)
  OBVIOUS
<1> HIDE DEF W
<1>2. QED
  BY <1>1, MappedCons

LEMMA WordsCons ==
  ASSUME NEW a \in Seq(Runes), NEW as \in Seq(Seq(Runes))
  PROVE  /\ Words(style, <<>>) = <<>>
         /\ Words(style, <<a>> \o as) =
               IF style = "pieces"
               THEN <<Dq>> \o (<<Dq>> \o (Mapped(PieceOf, a) \o After(as)))
               ELSE <<Dq>> \o (Mapped(EscapeOf, a) \o (<<Dq>> \o After(as)))
<1>1. Words(style, <<>>) = <<>>
  BY MappedEmpty DEF Words
<1> DEFINE p == Mapped(PieceOf, a)
           e == Mapped(EscapeOf, a)
           w == Words(style, as)
           dq == <<Dq>>
           sp == <<Sp>>
<1>2. p \in Seq(Runes) /\ e \in Seq(Runes) /\ w \in Seq(Runes) /\ dq \in Seq(Runes) /\ sp \in Seq(Runes)
  BY TextTypes
<1>3. Words(style, <<a>> \o as) = (Word(style, a) \o sp) \o w
  <2>1. WordOf(style)[a] = Word(style, a) \o sp
    BY DEF WordOf
  <2> DEFINE m == WordOf(style)
  <2>4. IsMap(m, Seq(Runes), Runes)
    BY WordTypes DEF IsMap
  <2>2. Words(style, <<a>> \o as) = WordOf(style)[a] \o w
    <3> HIDE DEF m
    <3>1. Mapped(m, Before(a, as)) = Cat(m[a], Mapped(m, as))
      BY <2>4, MappedWord
    <3>2. QED
      BY <3>1, Zenon DEF m, Before, Words, Cat
  <2>3. QED
    BY <2>1, <2>2
<1>4. Word(style, a) = IF style = "pieces" THEN dq \o (dq \o p) ELSE dq \o (e \o dq)
  BY DEF Word
<1>5. After(as) = sp \o w
  BY DEF After
<1> HIDE DEF p, e, w, dq, sp
<1> DEFINE dp == dq \o p
           ed == e \o dq
           sw == sp \o w
<1>6. /\ dp \in Seq(Runes) /\ ed \in Seq(Runes) /\ sw \in Seq(Runes)
      /\ dq \o dp \in Seq(Runes) /\ dq \o ed \in Seq(Runes)
  <2>1. dp \in Seq(Runes) /\ ed \in Seq(Runes) /\ sw \in Seq(Runes)
    BY <1>2, ConcatProperties
  <2> HIDE DEF dp, ed, sw
  <2>2. QED
    BY <1>2, <2>1, ConcatProperties
<1>7. dp \o sw = dq \o (p \o sw)
  <2>1. dq \in Seq(Runes) /\ p \in Seq(Runes) /\ sw \in Seq(Runes)
    BY <1>2, <1>6
  <2> HIDE DEF sw
  <2>2. QED
    BY <2>1, ConcatAssociative
<1>8. ed \o sw = e \o (dq \o sw)
  <2>1. dq \in Seq(Runes) /\ e \in Seq(Runes) /\ sw \in Seq(Runes)
    BY <1>2, <1>6
  <2> HIDE DEF sw
  <2>2. QED
    BY <2>1, ConcatAssociative
<1> HIDE DEF dp, ed
<1>11. ((dq \o dp) \o sp) \o w = dq \o (dp \o sw)
  <2>1. dq \in Seq(Runes) /\ dp \in Seq(Runes) /\ sp \in Seq(Runes) /\ w \in Seq(Runes)
    BY <1>2, <1>6
  <2>2. QED
    <3>1. Cat(Cat(Cat(dq, dp), sp), w) = Cat(dq, Cat(dp, Cat(sp, w)))
      BY <2>1, FourToTheRight
    <3>2. QED
      BY <3>1 DEF Cat
<1>12. ((dq \o ed) \o sp) \o w = dq \o (ed \o sw)
  <2>1. dq \in Seq(Runes) /\ ed \in Seq(Runes) /\ sp \in Seq(Runes) /\ w \in Seq(Runes)
    BY <1>2, <1>6
  <2>2. QED
    <3>1. Cat(Cat(Cat(dq, ed), sp), w) = Cat(dq, Cat(ed, Cat(sp, w)))
      BY <2>1, FourToTheRight
    <3>2. QED
      BY <3>1 DEF Cat
<1>9. Words(style, <<a>> \o as) =
         IF style = "pieces" THEN dq \o (dq \o (p \o (sp \o w))) ELSE dq \o (e \o (dq \o (sp \o w)))
  BY <1>3, <1>4, <1>7, <1>8, <1>11, <1>12 DEF dp, ed
<1>10. QED
  BY <1>1, <1>5, <1>9 DEF p, e, dq

LEMMA WordGrows ==
  ASSUME NEW V, NEW c \in Seq(V), NEW r \in V, NEW t \in Seq(V)
  PROVE  c \o (<<r>> \o t) = Append(c, r) \o t
<1>1. Append(c, r) = c \o <<r>> /\ <<r>> \in Seq(V)
  BY AppendIsConcat
<1>2. QED
  BY <1>1, ToTheRight

(* A rune of the word is taken. *)
LEMMA RuneTaken ==
  ASSUME LineShape, result = "reading", NEW r \in Runes, NEW n, Line!TakeRune(r, n),
         NEW t \in Seq(Runes), NEW as \in Seq(Seq(Runes)),
         args = parts \o (<<current \o (<<r>> \o t)>> \o as)
  PROVE  /\ tokenStarted' = TRUE /\ inQuote' = inQuote /\ result' = "reading" /\ style' = style
         /\ args' = parts' \o (<<current' \o t>> \o as) /\ args' = args
         /\ pos' = pos + n /\ raw' = raw /\ After(as)' = After(as)
<1>1. current \o (<<r>> \o t) = Append(current, r) \o t
  <2>1. current \in Seq(Runes)
    BY DEF LineShape
  <2>2. QED
    BY <2>1, WordGrows
<1>2. QED
  BY <1>1 DEF Line!TakeRune, Line!input, After

LEMMA ReadingKept ==
  ASSUME Writable, UNCHANGED <<style, args>>, result' = "reading", Reading'
  PROVE  ReadSoFar'
  BY DEF ReadSoFar

LEMMA BetweenStep ==
  ASSUME LineShape, Writable, result = "reading", Line!Next,
         NEW as \in Seq(Seq(Runes)), BetweenWords(as)
  PROVE  ReadSoFar'
<1>1. CASE as = <<>>
  <2>1. Rest = <<>> /\ parts = args
    <3>1. Words(style, <<>>) = <<>>
      BY MappedEmpty DEF Words
    <3>2. parts \o <<>> = parts
      BY ConcatEmptySeq DEF LineShape
    <3>3. QED
      BY <1>1, <3>1, <3>2 DEF BetweenWords
  <2>2. Line!Finish
    BY <2>1, LastStep, RunesDiffer DEF BetweenWords, Line!Unterminated
  <2>3. parts' = parts /\ args' = args /\ result' = "parts"
    BY <2>1, <2>2 DEF Line!Finish, Line!Flush, Line!input, BetweenWords, Writable
  <2>4. QED
    BY <2>1, <2>3 DEF ReadSoFar
<1>2. CASE as # <<>>
  <2>1. PICK a \in Seq(Runes), bs \in Seq(Seq(Runes)) : as = <<a>> \o bs
    BY <1>2, FirstOf
  <2> DEFINE p == Mapped(PieceOf, a) \o After(bs)
             e == Mapped(EscapeOf, a) \o (<<Dq>> \o After(bs))
             t == IF style = "pieces" THEN <<Dq>> \o p ELSE e
  <2>2. t \in Seq(Runes) /\ Rest = <<Dq>> \o t
    <3>1. Rest = IF style = "pieces" THEN <<Dq>> \o (<<Dq>> \o p) ELSE <<Dq>> \o e
      BY <2>1, WordsCons DEF BetweenWords
    <3>2. p \in Seq(Runes) /\ e \in Seq(Runes) /\ <<Dq>> \o p \in Seq(Runes)
      BY TextTypes, ConcatProperties
    <3> HIDE DEF p, e
    <3>3. QED
      BY <3>1, <3>2
  <2>3. /\ inQuote' = Dq /\ tokenStarted' = TRUE /\ pos' = pos + 1
        /\ UNCHANGED <<raw, style, args, parts, current, result>>
    <3> HIDE DEF t
    <3>1. QED
      BY <2>2, OpenStep DEF BetweenWords, Quotes
  <2>4. Rest' = t
    <3>1. SubSeq(raw, pos + 2, Len(raw)) = t
      <4> HIDE DEF t
      <4>1. QED
        BY <2>2, RuneIs DEF Runes
    <3>2. (pos + 1) + 1 = pos + 2
      BY DEF LineShape
    <3>3. QED
      BY <2>3, <3>1, <3>2 DEF Rest
  <2>5. args' = parts' \o (<<current' \o a>> \o bs)
    <3>1. current \o a = a
      BY ConcatEmptySeq DEF BetweenWords
    <3>2. QED
      BY <2>1, <2>3, <3>1 DEF BetweenWords
  <2>6. IF style' = "pieces" THEN InPieces(a, bs)' ELSE InEscapes(a, bs)'
    <3>1. After(bs)' = After(bs)
      BY <2>3 DEF After
    <3>2. CASE style = "pieces"
      BY <2>3, <2>4, <3>1, <3>2 DEF InPieces, Quotes
    <3>3. CASE style # "pieces"
      BY <2>3, <2>4, <3>1, <3>3 DEF InEscapes
    <3>4. QED
      BY <2>3, <3>2, <3>3
  <2>7. InWord(a, bs)'
    BY <2>3, <2>5, <2>6 DEF InWord
  <2>8. QED
    BY <2>3, <2>7, ReadingKept DEF Reading
<1>3. QED
  BY <1>1, <1>2
LEMMA RestMoves ==
  ASSUME LineShape, NEW r, NEW t, r \in Runes, t \in Seq(Runes), Rest = <<r>> \o t,
         raw' = raw, pos' = pos + 1
  PROVE  Rest' = t
<1>1. SubSeq(raw, pos + 2, Len(raw)) = t
  BY RuneIs
<1>2. (pos + 1) + 1 = pos + 2
  BY DEF LineShape
<1>3. QED
  BY <1>1, <1>2 DEF Rest

LEMMA RestMovesTwo ==
  ASSUME LineShape, NEW r, NEW q, NEW t, r \in Runes, q \in Runes, t \in Seq(Runes),
         Rest = <<r>> \o (<<q>> \o t), raw' = raw, pos' = pos + 2
  PROVE  Rest' = t
<1>1. SubSeq(raw, pos + 3, Len(raw)) = t
  BY TwoRunesAre
<1>2. (pos + 2) + 1 = pos + 3
  BY DEF LineShape
<1>3. QED
  BY <1>1, <1>2 DEF Rest

(* How a text begins, in pieces and with escapes. *)
LEMMA MappedThen ==
  ASSUME NEW m, NEW r, NEW t, NEW u, r \in Runes, t \in Seq(Runes), u \in Seq(Runes),
         IsMap(m, Runes, Runes)
  PROVE  /\ Cat(Mapped(m, Before(r, t)), u) = Cat(m[r], Cat(Mapped(m, t), u))
         /\ Cat(Mapped(m, t), u) \in Seq(Runes)
<1>1. Mapped(m, Before(r, t)) = Cat(m[r], Mapped(m, t))
  BY MappedCons
<1>2. Mapped(m, t) \in Seq(Runes) /\ m[r] \in Seq(Runes)
  BY MappedType DEF IsMap
<1> DEFINE v == Mapped(m, t)
           w == m[r]
<1>3. v \in Seq(Runes) /\ w \in Seq(Runes)
  BY <1>2
<1> HIDE DEF v, w
<1>4. (w \o v) \o u = w \o (v \o u) /\ v \o u \in Seq(Runes)
  BY <1>3, ConcatAssociative, ConcatProperties
<1>5. QED
  BY <1>1, <1>4 DEF v, w, Cat

LEMMA TwoBefore ==
  ASSUME NEW V, NEW x, NEW y, NEW u, NEW w, x \in V, y \in V, u \in Seq(V), w = <<x, y>>
  PROVE  Cat(w, u) = Before(x, Before(y, u))
<1>1. <<x, y>> = <<x>> \o <<y>> /\ <<x>> \in Seq(V) /\ <<y>> \in Seq(V)
  BY Pair
<1> DEFINE s == <<x>>
           t == <<y>>
<1>2. w = s \o t /\ s \in Seq(V) /\ t \in Seq(V)
  BY <1>1
<1> HIDE DEF s, t
<1>3. (s \o t) \o u = s \o (t \o u)
  BY <1>2, ConcatAssociative
<1>4. QED
  BY <1>2, <1>3, Zenon DEF Cat, Before, s, t

LEMMA ThreeBefore ==
  ASSUME NEW V, NEW x, NEW y, NEW z, NEW u, NEW w, x \in V, y \in V, z \in V, u \in Seq(V),
         w = <<x, y, z>>
  PROVE  Cat(w, u) = Before(x, Before(y, Before(z, u)))
<1>1. /\ <<x, y, z>> = (<<x>> \o <<y>>) \o <<z>>
      /\ <<x>> \in Seq(V) /\ <<y>> \in Seq(V) /\ <<z>> \in Seq(V)
  BY Triple
<1> DEFINE s == <<x>>
           t == <<y>>
           v == <<z>>
<1>2. w = (s \o t) \o v /\ s \in Seq(V) /\ t \in Seq(V) /\ v \in Seq(V)
  BY <1>1
<1> HIDE DEF s, t, v
<1>3. Cat(Cat(Cat(s, t), v), u) = Cat(s, Cat(t, Cat(v, u)))
  BY <1>2, FourToTheRight
<1>4. QED
  BY <1>2, <1>3, Zenon DEF Cat, Before, s, t, v

LEMMA PieceFirst ==
  ASSUME NEW r, NEW t, NEW u, NEW v, NEW w, r \in Runes, t \in Seq(Runes), u \in Seq(Runes),
         v = Cat(Mapped(PieceOf, t), u), w = Cat(Mapped(PieceOf, Before(r, t)), u)
  PROVE  /\ v \in Seq(Runes)
         /\ r = Bs => w = Before(r, v)
         /\ r # Bs => \E q \in Quotes \ {r} : w = Before(q, Before(r, Before(q, v)))
<1> DEFINE p == PieceOf[r]
<1>1. w = Cat(p, v) /\ v \in Seq(Runes)
  <2>1. IsMap(PieceOf, Runes, Runes)
    BY PieceTypes DEF IsMap
  <2>2. QED
    BY <2>1, MappedThen
<1> HIDE DEF p
<1>2. CASE r = Bs
  <2>1. p = <<r>> /\ Cat(<<r>>, v) = Before(r, v)
    <3>1. p = <<r>>
      BY <1>2, PieceTypes DEF p
    <3>2. Cat(<<r>>, v) = Before(r, v)
      BY DEF Cat, Before
    <3>3. QED
      BY <3>1, <3>2
  <2>2. w = Before(r, v)
    BY <1>1, <2>1
  <2>3. QED
    BY <1>1, <1>2, <2>2
<1>3. CASE r # Bs
  <2>1. PICK q \in Quotes \ {r} : p = <<q, r, q>>
    BY <1>3, PieceTypes DEF p
  <2>2. q \in Runes
    BY DEF Quotes, Runes
  <2> DEFINE qrq == <<q, r, q>>
  <2>3. Cat(qrq, v) = Before(q, Before(r, Before(q, v)))
    BY <1>1, <2>2, ThreeBefore
  <2>4. p = qrq
    BY <2>1
  <2> HIDE DEF qrq
  <2>5. w = Before(q, Before(r, Before(q, v)))
    BY <1>1, <2>3, <2>4
  <2>6. QED
    BY <1>1, <1>3, <2>5
<1>4. QED
  BY <1>2, <1>3

LEMMA EscapeFirst ==
  ASSUME NEW r, NEW t, NEW u, NEW v, NEW w, r \in Runes, t \in Seq(Runes), u \in Seq(Runes),
         v = Cat(Mapped(EscapeOf, t), u), w = Cat(Mapped(EscapeOf, Before(r, t)), u)
  PROVE  /\ v \in Seq(Runes)
         /\ r \in {Bs, Dq} => w = Before(Bs, Before(r, v))
         /\ r \notin {Bs, Dq} => w = Before(r, v)
<1> DEFINE p == EscapeOf[r]
<1>1. w = Cat(p, v) /\ v \in Seq(Runes)
  <2>1. IsMap(EscapeOf, Runes, Runes)
    BY PieceTypes DEF IsMap
  <2>2. QED
    BY <2>1, MappedThen
<1> HIDE DEF p
<1>2. CASE r \in {Bs, Dq}
  <2> DEFINE br == <<Bs, r>>
  <2>1. p = br /\ Bs \in Runes
    BY <1>2, PieceTypes DEF p, Runes
  <2>2. Cat(br, v) = Before(Bs, Before(r, v))
    BY <1>1, <2>1, TwoBefore
  <2> HIDE DEF br
  <2>3. w = Before(Bs, Before(r, v))
    BY <1>1, <2>1, <2>2
  <2>4. QED
    BY <1>1, <1>2, <2>3
<1>3. CASE r \notin {Bs, Dq}
  <2>1. p = <<r>>
    BY <1>3, PieceTypes DEF p
  <2>2. Cat(<<r>>, v) = Before(r, v)
    BY DEF Cat, Before
  <2>3. w = Before(r, v)
    BY <1>1, <2>1, <2>2
  <2>4. QED
    BY <1>1, <1>3, <2>3
<1>4. QED
  BY <1>2, <1>3

LEMMA WordKept ==
  ASSUME Writable, UNCHANGED <<style, args>>, result' = "reading",
         NEW s \in Seq(Runes), NEW as \in Seq(Seq(Runes)), InWord(s, as)'
  PROVE  ReadSoFar'
  BY ReadingKept DEF Reading

LEMMA WordEnds ==
  ASSUME NEW c, NEW r, NEW t, c \in Seq(Seq(Runes)), r \in Seq(Runes), t \in Seq(Seq(Runes))
  PROVE  Cat(c, Before(r, t)) = Cat(Append(c, r), t)
<1> DEFINE W == Seq(Runes)
           b == <<r>>
<1>1. c \in Seq(W) /\ b \in Seq(W) /\ t \in Seq(W)
  OBVIOUS
<1>2. Append(c, r) = c \o b
  BY AppendIsConcat
<1> HIDE DEF W, b
<1>3. (c \o b) \o t = c \o (b \o t)
  BY <1>1, ConcatAssociative
<1>4. QED
  BY <1>2, <1>3, Zenon DEF b, Cat, Before

(* The blank after a word. *)
LEMMA BlankAfterWord ==
  ASSUME LineShape, Writable, result = "reading", Line!Next,
         NEW as \in Seq(Seq(Runes)), inQuote = "none", tokenStarted = TRUE, Rest = After(as),
         args = parts \o (<<current \o <<>>>> \o as)
  PROVE  ReadSoFar'
<1> DEFINE t == Words(style, as)
<1>1. t \in Seq(Runes) /\ Rest = <<Sp>> \o t /\ Sp \in Runes
  BY WordTypes, MappedType DEF Words, After, Runes
<1> HIDE DEF t
<1>2. Line!Flush /\ pos' = pos + 1 /\ UNCHANGED <<raw, style, args, inQuote, result>>
  BY <1>1, BlankStep
<1>3. Rest' = t
  BY <1>1, <1>2, RestMoves
<1>4. parts' = Append(parts, current) /\ current' = <<>> /\ tokenStarted' = FALSE
  BY <1>2 DEF Line!Flush
<1>5. args' = parts' \o as
  <2>1. current \o <<>> = current
    BY ConcatEmptySeq DEF LineShape
  <2>2. parts \in Seq(Seq(Runes)) /\ current \in Seq(Runes)
    BY DEF LineShape
  <2>3. Cat(parts, Before(current, as)) = Cat(Append(parts, current), as)
    <3> DEFINE S == Seq(Runes)
               U == Seq(S)
    <3>1. \A x, z \in U, y \in S : Cat(x, Before(y, z)) = Cat(Append(x, y), z)
      BY WordEnds
    <3>2. parts \in U /\ current \in S /\ as \in U
      BY <2>2
    <3> HIDE DEF S, U
    <3>3. QED
      BY <3>1, <3>2
  <2>4. QED
    BY <1>2, <1>4, <2>1, <2>3 DEF Cat, Before
<1>6. BetweenWords(as)'
  BY <1>2, <1>3, <1>4, <1>5 DEF BetweenWords, t
<1>7. QED
  BY <1>2, <1>6, ReadingKept DEF Reading

LEMMA NoneLeft ==
  ASSUME NEW m, NEW V, NEW u \in Seq(V) PROVE Cat(Mapped(m, <<>>), u) = u
  BY MappedEmpty, ConcatEmptySeq DEF Cat

LEMMA InPiecesStep ==
  ASSUME LineShape, Writable, result = "reading", Line!Next, style = "pieces",
         NEW s \in Seq(Runes), NEW as \in Seq(Seq(Runes)), InWord(s, as)
  PROVE  ReadSoFar'
<1> DEFINE u == After(as)
           m == PieceOf
<1>1. u \in Seq(Runes) /\ Cat(Mapped(m, s), u) \in Seq(Runes)
  <2>1. Mapped(m, s) \in Seq(Runes) /\ u \in Seq(Runes)
    BY TextTypes
  <2>2. QED
    BY <2>1, ConcatProperties DEF Cat
<1>2. /\ tokenStarted = TRUE /\ args = parts \o (<<current \o s>> \o as)
      /\ \/ inQuote = "none" /\ Rest = Cat(Mapped(m, s), u)
         \/ inQuote \in Quotes /\ Rest = Before(inQuote, Cat(Mapped(m, s), u))
         \/ /\ inQuote \in Quotes
            /\ \E r \in Runes \ {Bs, inQuote}, t \in Seq(Runes) :
                  s = Before(r, t) /\ Rest = Before(r, Before(inQuote, Cat(Mapped(m, t), u)))
  BY DEF InWord, InPieces, Cat, Before
<1>3. ASSUME UNCHANGED <<style, args>>, After(as)' = u, result' = "reading",
             tokenStarted' = TRUE, NEW t \in Seq(Runes),
             args' = parts' \o (<<current' \o t>> \o as),
             \/ inQuote' = "none" /\ Rest' = Cat(Mapped(m, t), u)
             \/ inQuote' \in Quotes /\ Rest' = Before(inQuote', Cat(Mapped(m, t), u))
             \/ /\ inQuote' \in Quotes
                /\ \E r \in Runes \ {Bs, inQuote'}, v \in Seq(Runes) :
                      t = Before(r, v) /\ Rest' = Before(r, Before(inQuote', Cat(Mapped(m, v), u)))
      PROVE  ReadSoFar'
  <2>1. InPieces(t, as)'
    BY <1>3 DEF InPieces, Cat, Before
  <2>2. InWord(t, as)'
    BY <1>3, <2>1 DEF InWord
  <2>3. QED
    BY <1>3, <2>2, WordKept
<1>4. CASE inQuote = "none" /\ Rest = Cat(Mapped(m, s), u) /\ s = <<>>
  <2>1. Rest = u
    BY <1>1, <1>4, NoneLeft
  <2>2. QED
    BY <1>2, <1>4, <2>1, BlankAfterWord
<1>5. ASSUME inQuote = "none", Rest = Cat(Mapped(m, s), u), s # <<>> PROVE ReadSoFar'
  <2>1. PICK r \in Runes, t \in Seq(Runes) : s = Before(r, t)
    BY <1>5, FirstOf DEF Before
  <2> DEFINE v == Cat(Mapped(m, t), u)
  <2>2. /\ v \in Seq(Runes)
        /\ r = Bs => Rest = Before(r, v)
        /\ r # Bs => \E q \in Quotes \ {r} : Rest = Before(q, Before(r, Before(q, v)))
    <3> DEFINE w == Cat(Mapped(m, Before(r, t)), u)
    <3>1. /\ v \in Seq(Runes)
          /\ r = Bs => w = Before(r, v)
          /\ r # Bs => \E q \in Quotes \ {r} : w = Before(q, Before(r, Before(q, v)))
      <4>1. v = Cat(Mapped(PieceOf, t), u) /\ w = Cat(Mapped(PieceOf, Before(r, t)), u)
            /\ u \in Seq(Runes)
        BY <1>1
      <4> HIDE DEF u, v, w
      <4>2. QED
        BY <4>1, PieceFirst
    <3>2. Rest = w
      BY <1>5, <2>1
    <3> HIDE DEF w, v
    <3>3. QED
      BY <3>1, <3>2
  <2> HIDE DEF v
  <2>3. CASE r = Bs
    <3>1. Rest = <<r>> \o v
      BY <2>2, <2>3 DEF Before
    <3>2. Line!TakeRune(r, 1)
      BY <1>5, <2>2, <2>3, <3>1, PlainRuneStep
    <3>3. args = parts \o (<<current \o (<<r>> \o t)>> \o as)
      BY <1>2, <2>1 DEF Before
    <3>4. /\ tokenStarted' = TRUE /\ inQuote' = inQuote /\ result' = "reading" /\ style' = style
          /\ args' = parts' \o (<<current' \o t>> \o as) /\ args' = args
          /\ pos' = pos + 1 /\ raw' = raw /\ After(as)' = After(as)
      BY <3>2, <3>3, RuneTaken
    <3>5. Rest' = v
      BY <2>2, <3>1, <3>4, RestMoves
    <3>6. QED
      BY <1>3, <1>5, <3>4, <3>5 DEF v
  <2>4. CASE r # Bs
    <3>1. PICK q \in Quotes \ {r} : Rest = Before(q, Before(r, Before(q, v)))
      BY <2>2, <2>4
    <3> DEFINE w == Before(r, Before(q, v))
    <3>2. w \in Seq(Runes) /\ q \in Runes
      <4>1. q \in Runes
        BY DEF Quotes, Runes
      <4> DEFINE x == Before(q, v)
      <4>2. x \in Seq(Runes)
        BY <2>2, <4>1, ConsNotEmpty DEF Before
      <4> HIDE DEF x
      <4>3. Before(r, x) \in Seq(Runes)
        BY <4>2, ConsNotEmpty DEF Before
      <4>4. QED
        BY <4>1, <4>3 DEF x
    <3> HIDE DEF w
    <3>3. Rest = <<q>> \o w
      BY <3>1 DEF w, Before
    <3>4. /\ inQuote' = q /\ tokenStarted' = TRUE /\ pos' = pos + 1
          /\ UNCHANGED <<raw, style, args, parts, current, result>>
      BY <1>5, <3>2, <3>3, OpenStep
    <3>5. Rest' = w
      BY <3>2, <3>3, <3>4, RestMoves
    <3>6. After(as)' = u
      BY <3>4 DEF After
    <3>7. args' = parts' \o (<<current' \o s>> \o as)
      BY <1>2, <3>4
    <3>8. r \in Runes \ {Bs, inQuote'}
      BY <2>4, <3>4
    <3>9. QED
      BY <1>3, <2>1, <3>4, <3>5, <3>6, <3>7, <3>8 DEF v, w
  <2>5. QED
    BY <2>3, <2>4
<1>6. CASE inQuote \in Quotes /\ Rest = Before(inQuote, Cat(Mapped(m, s), u))
  <2> DEFINE v == Cat(Mapped(m, s), u)
  <2>1. v \in Seq(Runes) /\ Rest = <<inQuote>> \o v /\ inQuote \in Runes
    BY <1>1, <1>6 DEF Before, Quotes, Runes
  <2> HIDE DEF v
  <2>2. /\ inQuote' = "none" /\ pos' = pos + 1
        /\ UNCHANGED <<raw, style, args, parts, current, tokenStarted, result>>
    BY <1>6, <2>1, CloseStep
  <2>3. Rest' = v
    BY <2>1, <2>2, RestMoves
  <2>4. After(as)' = u
    BY <2>2 DEF After
  <2>5. args' = parts' \o (<<current' \o s>> \o as)
    BY <1>2, <2>2
  <2>6. QED
    BY <1>2, <1>3, <2>2, <2>3, <2>4, <2>5 DEF v
<1>7. ASSUME inQuote \in Quotes, NEW r \in Runes \ {Bs, inQuote}, NEW t \in Seq(Runes),
             s = Before(r, t), Rest = Before(r, Before(inQuote, Cat(Mapped(m, t), u)))
      PROVE  ReadSoFar'
  <2> DEFINE v == Before(inQuote, Cat(Mapped(m, t), u))
  <2>1. v \in Seq(Runes) /\ Rest = <<r>> \o v
    <3>1. Cat(Mapped(m, t), u) \in Seq(Runes)
      <4>1. Mapped(PieceOf, t) \in Seq(Runes)
        BY TextTypes
      <4>2. QED
        BY <1>1, <4>1, ConcatProperties DEF Cat
    <3> DEFINE x == Cat(Mapped(m, t), u)
    <3> HIDE DEF x
    <3>2. Before(inQuote, x) \in Seq(Runes)
      BY <1>7, <3>1, ConsNotEmpty DEF x, Before, Quotes, Runes
    <3>3. QED
      BY <1>7, <3>2 DEF x, Before
  <2> HIDE DEF v
  <2>2. Line!TakeRune(r, 1)
    BY <1>7, <2>1, QuotedRuneStep
  <2>3. args = parts \o (<<current \o (<<r>> \o t)>> \o as)
    BY <1>2, <1>7 DEF Before
  <2>4. /\ tokenStarted' = TRUE /\ inQuote' = inQuote /\ result' = "reading" /\ style' = style
        /\ args' = parts' \o (<<current' \o t>> \o as) /\ args' = args
        /\ pos' = pos + 1 /\ raw' = raw /\ After(as)' = After(as)
    BY <2>2, <2>3, RuneTaken
  <2>5. Rest' = v
    BY <2>1, <2>4, RestMoves
  <2>6. QED
    BY <1>3, <1>7, <2>4, <2>5 DEF v
<1>8. QED
  BY <1>2, <1>4, <1>5, <1>6, <1>7

(* What an argument that is being read is, at the runes to come. *)
NextTo(ss, x, y) ==
    \E i \in DOMAIN ss : \E k \in 1 .. Len(ss[i]) - 1 : ss[i][k] = x /\ ss[i][k + 1] = y

LEMMA BeforeIs ==
  ASSUME NEW V, NEW x, NEW s, x \in V, s \in Seq(V)
  PROVE  /\ Before(x, s) \in Seq(V) /\ Len(Before(x, s)) = Len(s) + 1 /\ Len(s) \in Nat
         /\ Before(x, s)[1] = x
  BY DEF Before

LEMMA ArgumentRunes ==
  ASSUME NEW ps, NEW c, NEW x, NEW y, NEW t, NEW as,
         ps \in Seq(Seq(Runes)), c \in Seq(Runes), x \in Runes, y \in Runes, t \in Seq(Runes), as \in Seq(Seq(Runes)),
         NEW ss, ss = Cat(ps, Before(Cat(c, Before(x, Before(y, t))), as))
  PROVE  NextTo(ss, x, y)
<1> DEFINE xy == Before(x, Before(y, t))
           w == Cat(c, xy)
           i == Len(ps) + 1
           k == Len(c) + 1
<1>1. /\ xy \in Seq(Runes) /\ Len(xy) \in Nat /\ Len(xy) >= 2 /\ xy[1] = x /\ xy[2] = y
  <2> DEFINE yt == Before(y, t)
  <2>1. yt \in Seq(Runes) /\ Len(yt) = Len(t) + 1 /\ Len(t) \in Nat /\ yt[1] = y
    BY DEF Before
  <2> HIDE DEF yt
  <2>2. /\ <<x>> \o yt \in Seq(Runes) /\ Len(<<x>> \o yt) = Len(yt) + 1
        /\ (<<x>> \o yt)[1] = x /\ (<<x>> \o yt)[2] = yt[1]
    BY <2>1
  <2>3. QED
    BY <2>1, <2>2 DEF yt, Before
<1> HIDE DEF xy
<1>2. /\ w \in Seq(Runes) /\ Len(c) \in Nat /\ Len(w) = Len(c) + Len(xy)
      /\ w[Len(c) + 1] = x /\ w[Len(c) + 2] = y
  <2>1. /\ c \o xy \in Seq(Runes) /\ Len(c \o xy) = Len(c) + Len(xy) /\ Len(c) \in Nat
        /\ \A j \in 1 .. Len(c) + Len(xy) :
              (c \o xy)[j] = IF j <= Len(c) THEN c[j] ELSE xy[j - Len(c)]
    BY <1>1, ConcatProperties
  <2>2. /\ Len(c) + 1 \in 1 .. Len(c) + Len(xy) /\ Len(c) + 2 \in 1 .. Len(c) + Len(xy)
        /\ (Len(c) + 1) - Len(c) = 1 /\ (Len(c) + 2) - Len(c) = 2
    BY <1>1, <2>1
  <2>3. QED
    BY <1>1, <2>1, <2>2 DEF Cat
<1> HIDE DEF w
<1>3. i \in DOMAIN ss /\ ss[i] = w
  <2> DEFINE V2 == Seq(Runes)
             was == Before(w, as)
  <2>1. ps \in Seq(V2) /\ w \in V2 /\ as \in Seq(V2) /\ Len(ps) \in Nat
    BY <1>2, LenProperties
  <2> HIDE DEF V2
  <2>2. was \in Seq(V2) /\ Len(was) = Len(as) + 1 /\ Len(as) \in Nat /\ was[1] = w
    BY <2>1, BeforeIs
  <2> HIDE DEF was
  <2>3. /\ ps \o was \in Seq(V2) /\ Len(ps \o was) = Len(ps) + Len(was)
        /\ \A j \in 1 .. Len(ps) + Len(was) :
              (ps \o was)[j] = IF j <= Len(ps) THEN ps[j] ELSE was[j - Len(ps)]
    BY <2>1, <2>2, ConcatProperties
  <2>4. i \in 1 .. Len(ps) + Len(was) /\ i - Len(ps) = 1 /\ ~ (i <= Len(ps))
    <3> DEFINE n == Len(ps)
               short == Len(as)
               extended == Len(was)
    <3>1. n \in Nat /\ extended = short + 1 /\ short \in Nat /\ i = n + 1
      BY <2>1, <2>2, Zenon
    <3> HIDE DEF n, short, extended, i
    <3>2. extended \in Nat \ {0}
      BY <3>1
    <3>3. i \in 1 .. n + extended /\ i - n = 1 /\ ~ (i <= n)
      BY <3>1, <3>2
    <3>4. QED
      BY <3>3 DEF n, extended
  <2>5. ss = ps \o was
    BY DEF Cat, was, w, xy
  <2>6. DOMAIN ss = 1 .. Len(ps) + Len(was)
    BY <2>3, <2>5, LenProperties
  <2> HIDE DEF i
  <2>7. QED
    BY <2>2, <2>3, <2>4, <2>5, <2>6
<1>4. k \in 1 .. Len(w) - 1 /\ w[k] = x /\ w[k + 1] = y
  BY <1>1, <1>2
<1>5. QED
  BY <1>3, <1>4 DEF NextTo

LEMMA InEscapesStep ==
  ASSUME LineShape, Writable, result = "reading", Line!Next, style = "escaped",
         NEW s \in Seq(Runes), NEW as \in Seq(Seq(Runes)), InWord(s, as)
  PROVE  ReadSoFar'
<1> DEFINE m == EscapeOf
           z == After(as)
           u == Before(Dq, z)
<1>1. z \in Seq(Runes) /\ u \in Seq(Runes) /\ Dq \in Runes
  <2>1. z \in Seq(Runes) /\ Dq \in Runes
    BY TextTypes
  <2> HIDE DEF z
  <2>2. QED
    BY <2>1, ConsNotEmpty DEF Before
<1>2. /\ tokenStarted = TRUE /\ args = parts \o (<<current \o s>> \o as)
      /\ \/ inQuote = Dq /\ Rest = Cat(Mapped(m, s), u)
         \/ inQuote = "none" /\ s = <<>> /\ Rest = After(as)
  BY DEF InWord, InEscapes, Cat, Before
<1>3. ASSUME UNCHANGED <<style, args>>, After(as)' = z, result' = "reading",
             tokenStarted' = TRUE, NEW t \in Seq(Runes),
             args' = parts' \o (<<current' \o t>> \o as),
             \/ inQuote' = Dq /\ Rest' = Cat(Mapped(m, t), u)
             \/ inQuote' = "none" /\ t = <<>> /\ Rest' = z
      PROVE  ReadSoFar'
  <2>1. InEscapes(t, as)'
    BY <1>3 DEF InEscapes, Cat, Before
  <2>2. InWord(t, as)'
    BY <1>3, <2>1 DEF InWord
  <2>3. QED
    BY <1>3, <2>2, WordKept
<1>4. CASE inQuote = "none" /\ s = <<>> /\ Rest = After(as)
  BY <1>2, <1>4, BlankAfterWord
<1>5. ASSUME inQuote = Dq, Rest = Cat(Mapped(m, s), u), s = <<>> PROVE ReadSoFar'
  <2>1. Rest = <<inQuote>> \o z /\ inQuote \in Quotes /\ inQuote \in Runes
    BY <1>1, <1>5, NoneLeft DEF Before, Quotes
  <2> HIDE DEF z
  <2>2. /\ inQuote' = "none" /\ pos' = pos + 1
        /\ UNCHANGED <<raw, style, args, parts, current, tokenStarted, result>>
    BY <1>1, <2>1, CloseStep
  <2>3. Rest' = z
    BY <1>1, <2>1, <2>2, RestMoves
  <2>4. After(as)' = z
    BY <2>2 DEF After, z
  <2>5. args' = parts' \o (<<current' \o s>> \o as)
    BY <1>2, <2>2
  <2>6. QED
    BY <1>2, <1>3, <1>5, <2>2, <2>3, <2>4, <2>5
<1>6. ASSUME inQuote = Dq, Rest = Cat(Mapped(m, s), u), s # <<>> PROVE ReadSoFar'
  <2>1. PICK r \in Runes, t \in Seq(Runes) : s = Before(r, t)
    BY <1>6, FirstOf DEF Before
  <2> DEFINE v == Cat(Mapped(m, t), u)
  <2>2. /\ v \in Seq(Runes)
        /\ r \in {Bs, Dq} => Rest = Before(Bs, Before(r, v))
        /\ r \notin {Bs, Dq} => Rest = Before(r, v)
    <3> DEFINE w == Cat(Mapped(m, Before(r, t)), u)
    <3>1. v = Cat(Mapped(EscapeOf, t), u) /\ w = Cat(Mapped(EscapeOf, Before(r, t)), u)
          /\ u \in Seq(Runes)
      BY <1>1
    <3>2. Rest = w
      BY <1>6, <2>1
    <3> HIDE DEF u, v, w
    <3>3. /\ v \in Seq(Runes)
          /\ r \in {Bs, Dq} => w = Before(Bs, Before(r, v))
          /\ r \notin {Bs, Dq} => w = Before(r, v)
      BY <3>1, EscapeFirst
    <3>4. QED
      BY <3>2, <3>3
  <2>3. args = parts \o (<<current \o (<<r>> \o t)>> \o as)
    BY <1>2, <2>1 DEF Before
  <2>4. inQuote \in Quotes
    BY <1>6 DEF Quotes
  <2> HIDE DEF v
  <2>5. ASSUME NEW n \in {1, 2}, Line!TakeRune(r, n), Rest' = v PROVE ReadSoFar'
    <3>1. /\ tokenStarted' = TRUE /\ inQuote' = inQuote /\ result' = "reading" /\ style' = style
          /\ args' = parts' \o (<<current' \o t>> \o as) /\ args' = args
          /\ pos' = pos + n /\ raw' = raw /\ After(as)' = After(as)
      BY <2>3, <2>5, RuneTaken
    <3>2. QED
      BY <1>3, <1>6, <2>5, <3>1 DEF v
  <2>6. ASSUME NEW n, Line!TakeRune(r, n) PROVE pos' = pos + n /\ raw' = raw
    BY <2>6 DEF Line!TakeRune, Line!input
  <2>7. CASE r \notin {Bs, Dq}
    <3>1. Rest = <<r>> \o v
      BY <2>2, <2>7 DEF Before
    <3>2. Line!TakeRune(r, 1)
      BY <1>6, <2>2, <2>4, <2>7, <3>1, QuotedRuneStep
    <3>3. Rest' = v
      BY <2>2, <2>6, <3>1, <3>2, RestMoves
    <3>4. QED
      BY <2>5, <3>2, <3>3
  <2>8. CASE r = Bs
    <3>1. Rest = <<Bs>> \o (<<Bs>> \o v)
      BY <2>2, <2>8 DEF Before
    <3>2. Line!TakeRune(r, 2)
      BY <2>2, <2>4, <2>8, <3>1, EscapedBackslashStep
    <3>3. Rest' = v
      BY <2>2, <2>6, <2>8, <3>1, <3>2, RestMovesTwo
    <3>4. QED
      BY <2>5, <3>2, <3>3
  <2>9. CASE r = Dq
    <3>1. Rest = <<Bs>> \o (<<inQuote>> \o v)
      BY <1>6, <2>2, <2>9 DEF Before
    <3>2. \E y \in Runes \ {Sp}, x \in Seq(Runes) : v = Before(y, x)
      <4>1. CASE t = <<>>
        <5>1. v = Before(Dq, z)
          BY <1>1, <4>1, NoneLeft DEF v
        <5>2. Dq \in Runes \ {Sp}
          BY <1>1, RunesDiffer
        <5>3. QED
          BY <1>1, <5>1, <5>2
      <4>2. CASE t # <<>>
        <5>1. PICK y \in Runes, x \in Seq(Runes) : t = Before(y, x)
          BY <4>2, FirstOf DEF Before
        <5>2. y # Sp
          <6>1. parts \in Seq(Seq(Runes)) /\ current \in Seq(Runes)
            BY DEF LineShape
          <6>2. args = Cat(parts, Before(Cat(current, Before(r, Before(y, x))), as))
            BY <2>3, <5>1 DEF Cat, Before
          <6>3. NextTo(args, r, y)
            BY <6>1, <6>2, ArgumentRunes
          <6>4. \A i \in DOMAIN args : ~Line!QuoteBeforeBlank(args[i])
            BY DEF Writable
          <6>5. QED
            BY <2>9, <6>3, <6>4 DEF NextTo, Line!QuoteBeforeBlank
        <5> DEFINE b == Cat(Mapped(m, x), u)
                   w == Cat(Mapped(m, Before(y, x)), u)
        <5>3. /\ b \in Seq(Runes)
              /\ y \in {Bs, Dq} => w = Before(Bs, Before(y, b))
              /\ y \notin {Bs, Dq} => w = Before(y, b)
          <6>1. b = Cat(Mapped(EscapeOf, x), u) /\ w = Cat(Mapped(EscapeOf, Before(y, x)), u)
                /\ u \in Seq(Runes)
            BY <1>1
          <6> HIDE DEF u, b, w
          <6>2. QED
            BY <6>1, EscapeFirst
        <5>4. v = w
          BY <5>1 DEF v
        <5> HIDE DEF b, w
        <5>5. CASE y \in {Bs, Dq}
          <6>1. v = Before(Bs, Before(y, b)) /\ Before(y, b) \in Seq(Runes)
            BY <5>3, <5>4, <5>5, ConsNotEmpty DEF Before
          <6>2. Bs \in Runes \ {Sp}
            BY RunesDiffer DEF Runes
          <6>3. QED
            BY <6>1, <6>2
        <5>6. CASE y \notin {Bs, Dq}
          BY <5>2, <5>3, <5>4, <5>6
        <5>7. QED
          BY <5>5, <5>6
      <4>3. QED
        BY <4>1, <4>2
    <3>3. PICK y \in Runes \ {Sp}, x \in Seq(Runes) : v = Before(y, x)
      BY <3>2
    <3>4. Rest = <<Bs>> \o (<<inQuote>> \o (<<y>> \o x))
      BY <3>1, <3>3 DEF Before
    <3>5. Line!TakeRune(inQuote, 2)
      BY <2>4, <3>4, EscapedQuoteStep
    <3>6. Line!TakeRune(r, 2)
      BY <1>6, <2>9, <3>5
    <3>7. Rest' = v
      <4>1. Bs \in Runes /\ inQuote \in Runes
        BY <2>4 DEF Quotes, Runes
      <4>2. QED
        BY <2>2, <2>6, <3>1, <3>6, <4>1, RestMovesTwo
    <3>8. QED
      BY <2>5, <3>6, <3>7
  <2>10. QED
    BY <2>7, <2>8, <2>9
<1>7. QED
  BY <1>2, <1>4, <1>5, <1>6
-----------------------------------------------------------------------------
(* CommandLine: the ordinary runes *)
Said(s) == Only(s, {Ch})
Kept == Cat(Cat(Said(FlattenSeq(parts)), Said(current)), Said(Rest)) = Said(raw)

LEMMA SaidType == ASSUME NEW s, s \in Seq(Runes) PROVE Said(s) \in Seq(Runes)
  BY OnlyType DEF Said

LEMMA SaidCat ==
  ASSUME NEW s, NEW t, s \in Seq(Runes), t \in Seq(Runes)
  PROVE  Said(Cat(s, t)) = Cat(Said(s), Said(t))
  BY OnlyConcat DEF Said, Cat

LEMMA SaidOne ==
  ASSUME NEW r, r \in Runes
  PROVE  Said(<<r>>) = IF r = Ch THEN <<r>> ELSE <<>>
<1>1. <<>> \in Seq(Runes) /\ <<r>> = Append(<<>>, r) /\ Only(<<>>, {Ch}) = <<>>
  BY OnlyEmpty
<1>2. Only(Append(<<>>, r), {Ch}) =
         IF r \in {Ch} THEN Append(Only(<<>>, {Ch}), r) ELSE Only(<<>>, {Ch})
  BY <1>1, OnlyAppend
<1>3. QED
  BY <1>1, <1>2 DEF Said

LEMMA SaidBefore ==
  ASSUME NEW r, NEW s, r \in Runes, s \in Seq(Runes)
  PROVE  Said(Before(r, s)) = Cat(Said(<<r>>), Said(s))
<1> DEFINE one == <<r>>
<1>1. one \in Seq(Runes) /\ Before(r, s) = Cat(one, s)
  BY DEF Before, Cat
<1> HIDE DEF one
<1>2. Said(Cat(one, s)) = Cat(Said(one), Said(s))
  BY <1>1, SaidCat
<1>3. QED
  BY <1>1, <1>2 DEF one

LEMMA NothingSaid ==
  ASSUME NEW r, NEW s, r \in Runes \ {Ch}, s \in Seq(Runes)
  PROVE  Said(Before(r, s)) = Said(s)
<1>1. Said(s) \in Seq(Runes)
  BY SaidType
<1> DEFINE t == Said(s)
<1> HIDE DEF t
<1>2. Cat(<<>>, t) = t
  BY <1>1, ConcatEmptySeq DEF t, Cat
<1>3. Said(<<r>>) = <<>>
  BY SaidOne
<1>4. QED
  BY <1>2, <1>3, SaidBefore DEF t

LEMMA RestSplit ==
  ASSUME LineShape, pos + 1 <= Len(raw)
  PROVE  /\ raw[pos + 1] \in Runes /\ SubSeq(raw, pos + 2, Len(raw)) \in Seq(Runes)
         /\ Rest = <<raw[pos + 1]>> \o SubSeq(raw, pos + 2, Len(raw))
<1>1. raw \in Seq(Runes) /\ pos \in 0 .. Len(raw) /\ pos \in Nat /\ Len(raw) \in Nat
      /\ pos < Len(raw)
  <2>1. raw \in Seq(Runes) /\ pos \in 0 .. Len(raw) /\ Len(raw) \in Nat
    BY LenProperties DEF LineShape
  <2>2. QED
    BY <2>1
<1>2. /\ pos + 1 \in 0 .. Len(raw) /\ raw[pos + 1] \in Runes
      /\ Rest = <<raw[pos + 1]>> \o SubSeq(raw, pos + 2, Len(raw))
  BY <1>1, RestAt DEF Rest
<1>3. SubSeq(raw, pos + 2, Len(raw)) \in Seq(Runes)
  <2>1. pos + 2 = (pos + 1) + 1
    BY <1>1
  <2>2. QED
    BY <2>1, <1>1, <1>2, RestAt
<1>4. QED
  BY <1>2, <1>3

LEMMA RestSplitTwo ==
  ASSUME LineShape, pos + 2 <= Len(raw)
  PROVE  /\ raw[pos + 1] \in Runes /\ raw[pos + 2] \in Runes
         /\ SubSeq(raw, pos + 3, Len(raw)) \in Seq(Runes)
         /\ Rest = <<raw[pos + 1]>> \o (<<raw[pos + 2]>> \o SubSeq(raw, pos + 3, Len(raw)))
<1>1. raw \in Seq(Runes) /\ pos \in Nat /\ Len(raw) \in Nat
  <2>1. raw \in Seq(Runes) /\ pos \in 0 .. Len(raw) /\ Len(raw) \in Nat
    BY LenProperties DEF LineShape
  <2>2. QED
    BY <2>1
<1>2. /\ raw[pos + 1] \in Runes
      /\ Rest = <<raw[pos + 1]>> \o SubSeq(raw, pos + 2, Len(raw))
  BY <1>1, RestSplit
<1> DEFINE k == pos + 1
<1>3. k \in 0 .. Len(raw) /\ k < Len(raw) /\ k + 1 = pos + 2 /\ k + 2 = pos + 3
      /\ k + 1 \in 0 .. Len(raw) /\ (k + 1) + 1 = pos + 3
  BY <1>1
<1> HIDE DEF k
<1>4. /\ raw[k + 1] \in Runes
      /\ SubSeq(raw, k + 1, Len(raw)) = <<raw[k + 1]>> \o SubSeq(raw, k + 2, Len(raw))
  BY <1>1, <1>3, RestAt
<1>5. SubSeq(raw, (k + 1) + 1, Len(raw)) \in Seq(Runes)
  BY <1>1, <1>3, RestAt
<1>6. QED
  BY <1>2, <1>3, <1>4, <1>5

(* A rune that is passed over, or two. *)
LEMMA PassedOver ==
  ASSUME LineShape, Kept, raw' = raw,
         \/ pos' = pos + 1 /\ pos + 1 <= Len(raw) /\ raw[pos + 1] # Ch
         \/ /\ pos' = pos + 2 /\ pos + 2 <= Len(raw)
            /\ raw[pos + 1] # Ch /\ raw[pos + 2] # Ch
  PROVE  Said(Rest') = Said(Rest) /\ Rest' \in Seq(Runes)
<1>0. pos \in Nat /\ (pos + 1) + 1 = pos + 2 /\ (pos + 2) + 1 = pos + 3
  BY LenProperties DEF LineShape
<1>1. CASE pos' = pos + 1 /\ pos + 1 <= Len(raw) /\ raw[pos + 1] # Ch
  <2> DEFINE r == raw[pos + 1]
             t == SubSeq(raw, pos + 2, Len(raw))
  <2>1. r \in Runes /\ t \in Seq(Runes) /\ Rest = Before(r, t) /\ r # Ch
    BY <1>1, RestSplit DEF Before
  <2>2. Rest' = t
    BY <1>0, <1>1 DEF Rest
  <2> HIDE DEF r, t
  <2>3. QED
    BY <2>1, <2>2, NothingSaid
<1>2. CASE /\ pos' = pos + 2 /\ pos + 2 <= Len(raw)
           /\ raw[pos + 1] # Ch /\ raw[pos + 2] # Ch
  <2> DEFINE r == raw[pos + 1]
             q == raw[pos + 2]
             t == SubSeq(raw, pos + 3, Len(raw))
  <2>1. r \in Runes /\ q \in Runes /\ t \in Seq(Runes) /\ Rest = Before(r, Before(q, t))
        /\ r # Ch /\ q # Ch
    BY <1>2, RestSplitTwo DEF Before
  <2>2. Rest' = t
    BY <1>0, <1>2 DEF Rest
  <2> HIDE DEF r, q, t
  <2>3. Said(Before(q, t)) = Said(t) /\ Before(q, t) \in Seq(Runes)
    BY <2>1, NothingSaid, BeforeIs
  <2>4. Said(Before(r, Before(q, t))) = Said(Before(q, t))
    BY <2>1, <2>3, NothingSaid
  <2>5. QED
    BY <2>1, <2>2, <2>3, <2>4
<1>3. QED
  BY <1>1, <1>2

LEMMA AppendCat == ASSUME NEW V, NEW s, NEW x, s \in Seq(V), x \in V
                   PROVE Append(s, x) = Cat(s, <<x>>)
  BY AppendIsConcat DEF Cat

LEMMA CatType == ASSUME NEW V, NEW s, NEW t, s \in Seq(V), t \in Seq(V)
                 PROVE Cat(s, t) \in Seq(V)
  BY ConcatProperties DEF Cat

LEMMA CatAssociative ==
  ASSUME NEW V, NEW s, NEW t, NEW u, s \in Seq(V), t \in Seq(V), u \in Seq(V)
  PROVE  Cat(Cat(s, t), u) = Cat(s, Cat(t, u))
  BY ConcatAssociative DEF Cat

(* A rune that is taken, alone or after a backslash. *)
LEMMA TakenKept ==
  ASSUME LineShape, Kept, NEW r \in Runes, NEW n, Line!TakeRune(r, n),
         \/ n = 1 /\ pos + 1 <= Len(raw) /\ r = raw[pos + 1]
         \/ /\ n = 2 /\ pos + 2 <= Len(raw) /\ r # Ch
            /\ raw[pos + 1] # Ch /\ raw[pos + 2] # Ch
  PROVE  Kept'
<1>1. current' = Append(current, r) /\ pos' = pos + n /\ raw' = raw /\ parts' = parts
  BY DEF Line!TakeRune, Line!input
<1> DEFINE one == <<r>>
           f == Said(FlattenSeq(parts))
           c == Said(current)
           t == Said(Rest')
           o == Said(one)
<1>2. one \in Seq(Runes) /\ FlattenSeq(parts) \in Seq(Runes) /\ current \in Seq(Runes)
  BY FlattenType DEF LineShape
<1>3. Said(current') = Cat(c, o)
  <2>1. current' = Cat(current, one)
    BY <1>1, <1>2, AppendCat
  <2> HIDE DEF one
  <2>2. QED
    BY <1>2, <2>1, SaidCat
<1>4. f \in Seq(Runes) /\ c \in Seq(Runes) /\ o \in Seq(Runes)
  BY <1>2, SaidType
<1>5. Rest' \in Seq(Runes) /\ Said(Rest) = Cat(o, t)
  <2>1. CASE n = 1 /\ pos + 1 <= Len(raw) /\ r = raw[pos + 1]
    <3>1. SubSeq(raw, pos + 2, Len(raw)) \in Seq(Runes)
          /\ Rest = Before(r, SubSeq(raw, pos + 2, Len(raw)))
      BY <2>1, RestSplit DEF Before
    <3>2. Rest' = SubSeq(raw, pos + 2, Len(raw))
      <4>1. (pos + 1) + 1 = pos + 2
        BY DEF LineShape
      <4>2. QED
        BY <1>1, <2>1, <4>1 DEF Rest
    <3>3. Rest' \in Seq(Runes) /\ Rest = Before(r, Rest')
      BY <3>1, <3>2
    <3>4. QED
      BY <3>3, SaidBefore
  <2>2. CASE /\ n = 2 /\ pos + 2 <= Len(raw) /\ r # Ch
             /\ raw[pos + 1] # Ch /\ raw[pos + 2] # Ch
    <3>1. Said(Rest') = Said(Rest) /\ Rest' \in Seq(Runes)
      BY <1>1, <2>2, PassedOver
    <3>2. o = <<>>
      BY <2>2, SaidOne
    <3>3. t \in Seq(Runes)
      BY <3>1, SaidType
    <3> HIDE DEF t, o
    <3>4. Cat(o, t) = t
      BY <3>2, <3>3, ConcatEmptySeq DEF Cat
    <3>5. QED
      BY <3>1, <3>4 DEF t
  <2>3. QED
    BY <2>1, <2>2
<1>6. t \in Seq(Runes)
  BY <1>5, SaidType
<1> HIDE DEF f, c, t, o
<1>7. Cat(Cat(f, c), Cat(o, t)) = Said(raw)
  BY <1>5 DEF Kept, f, c
<1>8. Cat(Cat(f, Cat(c, o)), t) = Cat(Cat(f, c), Cat(o, t))
  <2>1. Cat(Cat(f, c), o) = Cat(f, Cat(c, o))
    BY <1>4, CatAssociative
  <2> DEFINE fc == Cat(f, c)
  <2>2. fc \in Seq(Runes)
    BY <1>4, CatType
  <2> HIDE DEF fc
  <2>3. Cat(Cat(fc, o), t) = Cat(fc, Cat(o, t))
    BY <1>4, <1>6, <2>2, CatAssociative
  <2>4. QED
    BY <2>1, <2>3 DEF fc
<1>9. QED
  BY <1>1, <1>3, <1>7, <1>8 DEF Kept, f, t

LEMMA FlushKept ==
  ASSUME LineShape, Kept, Line!Flush, raw' = raw, Said(Rest') = Said(Rest)
  PROVE  Kept'
<1> DEFINE ff == FlattenSeq(parts)
           f == Said(ff)
           c == Said(current)
<1>1. ff \in Seq(Runes) /\ current \in Seq(Runes)
  BY FlattenType DEF LineShape
<1>2. f \in Seq(Runes) /\ c \in Seq(Runes)
  BY <1>1, SaidType
<1>3. Said(<<>>) = <<>>
  BY OnlyEmpty DEF Said
<1>4. Said(FlattenSeq(parts')) = Cat(f, c)
  <2>1. CASE tokenStarted = TRUE
    <3>1. parts' = Append(parts, current)
      BY <2>1 DEF Line!Flush
    <3>2. FlattenSeq(Append(parts, current)) = Cat(ff, current)
      BY FlattenAppend DEF LineShape, Cat
    <3> HIDE DEF ff
    <3>3. QED
      BY <1>1, <3>1, <3>2, SaidCat
  <2>2. CASE tokenStarted = FALSE
    <3>1. parts' = parts /\ c = <<>>
      BY <1>3, <2>2 DEF Line!Flush, LineShape
    <3> HIDE DEF f, c
    <3>2. Cat(f, c) = f
      BY <1>2, <3>1, ConcatEmptySeq DEF Cat
    <3>3. QED
      BY <3>1, <3>2 DEF f
  <2>3. QED
    BY <2>1, <2>2 DEF LineShape
<1>5. Said(current') = <<>>
  BY <1>3 DEF Line!Flush
<1> DEFINE fc == Cat(f, c)
<1>6. fc \in Seq(Runes)
  BY <1>2, CatType
<1> HIDE DEF fc
<1>7. Cat(fc, <<>>) = fc
  BY <1>6, ConcatEmptySeq DEF Cat
<1>8. QED
  BY <1>4, <1>5, <1>7 DEF Kept, fc
-----------------------------------------------------------------------------
(* CommandLine: the steps together *)
LineInv == LineShape /\ Kept /\ ReadSoFar

LEMMA TakeRuneShape ==
  ASSUME LineShape, NEW r \in Runes, NEW n \in {1, 2}, pos + n <= Len(raw), Line!TakeRune(r, n)
  PROVE  LineShape'
<1>1. current' \in Seq(Runes)
  BY AppendProperties DEF LineShape, Line!TakeRune
<1>2. pos' \in 0 .. Len(raw)
  <2>1. pos \in Nat /\ Len(raw) \in Nat
    BY LenProperties DEF LineShape
  <2>2. QED
    BY <2>1 DEF Line!TakeRune
<1>3. QED
  BY <1>1, <1>2 DEF LineShape, Line!TakeRune, Line!input

LEMMA FlushShape ==
  ASSUME LineShape, Line!Flush
  PROVE  parts' \in Seq(Seq(Runes)) /\ current' = <<>> /\ tokenStarted' = FALSE
<1>1. Append(parts, current) \in Seq(Seq(Runes))
  BY AppendProperties DEF LineShape
<1>2. QED
  BY <1>1 DEF LineShape, Line!Flush

LEMMA LineKinds ==
  ASSUME LineShape, Line!Next
  PROVE  \/ \E r \in Runes, n \in {1, 2} :
               /\ Line!TakeRune(r, n) /\ pos + n <= Len(raw)
               /\ \/ n = 1 /\ r = raw[pos + 1]
                  \/ n = 2 /\ r # Ch /\ raw[pos + 1] # Ch /\ raw[pos + 2] # Ch
         \/ Line!CloseQuote \/ Line!OpenQuote \/ Line!Blank
         \/ Line!Unterminated \/ Line!Finish
<1>1. CASE Line!EscapedBackslash
  <2>1. Bs \in Runes /\ Line!TakeRune(Bs, 2) /\ pos + 2 <= Len(raw) /\ Bs # Ch
        /\ raw[pos + 1] = Bs /\ raw[pos + 2] = Bs
    BY <1>1, RunesDiffer
    DEF Line!EscapedBackslash, Line!IsEscapedBackslash, Line!More, Line!Rune, Line!Next2, Runes
  <2>2. QED
    BY <2>1
<1>2. CASE Line!EscapedQuote
  <2>1. inQuote \in Quotes
    BY <1>2, RunesDiffer DEF Line!EscapedQuote, Line!IsEscapedQuote, LineShape
  <2>2. inQuote \in Runes /\ inQuote # Ch
    BY <2>1, RunesDiffer DEF Quotes, Runes
  <2>3. Line!TakeRune(inQuote, 2) /\ pos + 2 <= Len(raw)
        /\ raw[pos + 1] = Bs /\ raw[pos + 2] = inQuote /\ Bs # Ch
    BY <1>2, RunesDiffer
    DEF Line!EscapedQuote, Line!IsEscapedQuote, Line!More, Line!Rune, Line!Next2
  <2>4. QED
    BY <2>2, <2>3
<1>3. CASE Line!QuotedRune \/ Line!PlainRune
  <2>1. pos + 1 <= Len(raw) /\ Line!TakeRune(raw[pos + 1], 1)
    BY <1>3 DEF Line!QuotedRune, Line!PlainRune, Line!More, Line!Rune
  <2>2. raw[pos + 1] \in Runes
    BY <2>1, RestSplit
  <2>3. QED
    BY <2>1, <2>2
<1>4. QED
  BY <1>1, <1>2, <1>3 DEF Line!Next

LEMMA OneMore ==
  ASSUME LineShape, Line!More(1), pos' = pos + 1
  PROVE  pos' \in 0 .. Len(raw)
<1>1. pos \in Nat /\ Len(raw) \in Nat
  BY LenProperties DEF LineShape
<1>2. QED
  BY <1>1 DEF Line!More

LEMMA LineShapeStep ==
  ASSUME LineShape, Line!Next PROVE LineShape'
<1>1. ASSUME NEW r \in Runes, NEW n \in {1, 2}, Line!TakeRune(r, n), pos + n <= Len(raw)
      PROVE  LineShape'
  BY <1>1, TakeRuneShape
<1>2. CASE Line!CloseQuote
  <2>1. pos' \in 0 .. Len(raw)
    BY <1>2, OneMore DEF Line!CloseQuote
  <2>2. QED
    BY <1>2, <2>1, RunesDiffer DEF Line!CloseQuote, Line!input, LineShape
<1>3. CASE Line!OpenQuote
  <2>1. pos' \in 0 .. Len(raw)
    BY <1>3, OneMore DEF Line!OpenQuote
  <2>2. QED
    BY <1>3, <2>1 DEF Line!OpenQuote, Line!input, LineShape, Quotes
<1>4. CASE Line!Blank
  <2>1. pos' \in 0 .. Len(raw)
    BY <1>4, OneMore DEF Line!Blank
  <2>2. inQuote = "none"
    BY <1>4, RunesDiffer DEF Line!Blank
  <2>3. Line!Flush /\ UNCHANGED <<raw, style, args, inQuote, result>>
    BY <1>4 DEF Line!Blank, Line!input
  <2>4. parts' \in Seq(Seq(Runes)) /\ current' = <<>> /\ tokenStarted' = FALSE
    BY <2>3, FlushShape
  <2>5. current' \in Seq(Runes)
    BY <2>4, EmptySeq
  <2>6. QED
    BY <2>1, <2>2, <2>3, <2>4, <2>5 DEF LineShape
<1>5. CASE Line!Unterminated
  BY <1>5 DEF Line!Unterminated, Line!input, LineShape
<1>6. CASE Line!Finish
  <2>1. inQuote = "none"
    BY <1>6, RunesDiffer DEF Line!Finish
  <2>2. Line!Flush /\ UNCHANGED <<raw, style, args, pos, inQuote>> /\ result' \in {"parts", "required"}
    BY <1>6 DEF Line!Finish, Line!input
  <2>3. parts' \in Seq(Seq(Runes)) /\ current' = <<>> /\ tokenStarted' = FALSE
    BY <2>2, FlushShape
  <2>4. current' \in Seq(Runes)
    BY <2>3, EmptySeq
  <2>5. QED
    BY <2>1, <2>2, <2>3, <2>4 DEF LineShape
<1>7. QED
  BY <1>1, <1>2, <1>3, <1>4, <1>5, <1>6, LineKinds

LEMMA KeptStep ==
  ASSUME LineShape, Kept, Line!Next PROVE Kept'
<1>1. ASSUME NEW r \in Runes, NEW n \in {1, 2}, Line!TakeRune(r, n), pos + n <= Len(raw),
             \/ n = 1 /\ r = raw[pos + 1]
             \/ n = 2 /\ r # Ch /\ raw[pos + 1] # Ch /\ raw[pos + 2] # Ch
      PROVE  Kept'
  BY <1>1, TakenKept
<1>2. CASE Line!CloseQuote \/ Line!OpenQuote
  <2>1. /\ pos' = pos + 1 /\ pos + 1 <= Len(raw)
        /\ UNCHANGED <<raw, parts, current>>
        /\ inQuote # "none" => raw[pos + 1] = inQuote
        /\ inQuote = "none" => raw[pos + 1] \in Quotes
    BY <1>2, RunesDiffer DEF Line!CloseQuote, Line!OpenQuote, Line!More, Line!Rune, Line!input, Quotes
  <2>2. raw[pos + 1] # Ch
    BY <2>1, RunesDiffer DEF LineShape, Quotes
  <2>3. Said(Rest') = Said(Rest)
    BY <2>1, <2>2, PassedOver
  <2>4. QED
    BY <2>1, <2>3 DEF Kept
<1>3. CASE Line!Blank
  <2>1. pos' = pos + 1 /\ pos + 1 <= Len(raw) /\ raw' = raw /\ raw[pos + 1] # Ch /\ Line!Flush
    BY <1>3, RunesDiffer DEF Line!Blank, Line!More, Line!Rune, Line!input
  <2>2. Said(Rest') = Said(Rest)
    BY <2>1, PassedOver
  <2>3. QED
    BY <2>1, <2>2, FlushKept
<1>4. CASE Line!Unterminated
  BY <1>4 DEF Line!Unterminated, Line!input, Kept, Rest
<1>5. CASE Line!Finish
  <2>1. Line!Flush /\ raw' = raw /\ Rest' = Rest
    BY <1>5 DEF Line!Finish, Line!input, Rest
  <2>2. QED
    BY <2>1, FlushKept
<1>6. QED
  BY <1>1, <1>2, <1>3, <1>4, <1>5, LineKinds

LEMMA LineReads ==
  ASSUME Line!Next
  PROVE  result = "reading" /\ UNCHANGED <<raw, style, args>>
  BY DEF Line!Next, Line!EscapedBackslash, Line!IsEscapedBackslash, Line!EscapedQuote,
         Line!IsEscapedQuote, Line!TakeRune, Line!CloseQuote, Line!QuotedRune, Line!OpenQuote,
         Line!Blank, Line!PlainRune, Line!Unterminated, Line!Finish, Line!More, Line!input

LEMMA ReadStep ==
  ASSUME LineShape, ReadSoFar, Line!Next PROVE ReadSoFar'
<1>1. CASE ~Writable
  <2>1. Writable' = Writable
    BY LineReads DEF Writable
  <2>2. QED
    BY <1>1, <2>1 DEF ReadSoFar
<1>2. CASE Writable
  <2>1. Reading /\ result = "reading"
    BY <1>2, LineReads DEF ReadSoFar
  <2>2. PICK as \in Seq(Seq(Runes)) : BetweenWords(as) \/ \E s \in Seq(Runes) : InWord(s, as)
    BY <2>1 DEF Reading
  <2>3. CASE BetweenWords(as)
    BY <1>2, <2>1, <2>3, BetweenStep
  <2>4. CASE \E s \in Seq(Runes) : InWord(s, as)
    <3>1. PICK s \in Seq(Runes) : InWord(s, as)
      BY <2>4
    <3>2. CASE style = "pieces"
      BY <1>2, <2>1, <3>1, <3>2, InPiecesStep
    <3>3. CASE style = "escaped"
      BY <1>2, <2>1, <3>1, <3>3, InEscapesStep
    <3>4. QED
      BY <1>2, <3>2, <3>3 DEF Writable
  <2>5. QED
    BY <2>2, <2>3, <2>4
<1>3. QED
  BY <1>1, <1>2

LEMMA LineStep == ASSUME LineInv, Line!Next PROVE LineInv'
  BY LineShapeStep, KeptStep, ReadStep DEF LineInv

LEMMA LineStutter == ASSUME LineInv, UNCHANGED lineVars PROVE LineInv'
<1>1. UNCHANGED <<raw, style, args, pos, parts, current, inQuote, tokenStarted, result>>
  BY DEF lineVars
<1>2. LineShape' /\ Kept'
  BY <1>1 DEF LineInv, LineShape, Kept, Rest
<1>3. ReadSoFar'
  <2>1. Writable' = Writable
    BY <1>1 DEF Writable
  <2>2. \A as : After(as)' = After(as) /\ BetweenWords(as)' = BetweenWords(as)
    BY <1>1 DEF BetweenWords, After, Rest
  <2>3. \A s, as : InPieces(s, as)' = InPieces(s, as) /\ InEscapes(s, as)' = InEscapes(s, as)
    BY <1>1, <2>2 DEF InPieces, InEscapes, Rest
  <2>4. \A s, as : InWord(s, as)' = InWord(s, as)
    BY <1>1, <2>3 DEF InWord
  <2>5. Reading' = Reading
    BY <2>2, <2>4 DEF Reading
  <2>6. QED
    BY <1>1, <2>1, <2>5 DEF LineInv, ReadSoFar
<1>4. QED
  BY <1>2, <1>3 DEF LineInv

LEMMA LineInvImplies ==
  ASSUME LineInv PROVE ParsedAsWritten /\ Line!TypeOK
<1>1. Line!TypeOK
  BY RunesDiffer DEF LineInv, LineShape, Line!TypeOK, Quotes
<1>2. Line!OrdinaryRunesKept
  <2>1. FlattenSeq(parts) \in Seq(Runes) /\ current \in Seq(Runes) /\ Rest \in Seq(Runes)
    BY FlattenType, RestAt DEF LineInv, LineShape, Rest
  <2> DEFINE f == FlattenSeq(parts)
             fc == Cat(f, current)
  <2>2. fc \in Seq(Runes) /\ Said(fc) = Cat(Said(f), Said(current))
    BY <2>1, CatType, SaidCat
  <2> HIDE DEF fc
  <2>3. Said(Cat(fc, Rest)) = Cat(Said(fc), Said(Rest))
    BY <2>1, <2>2, SaidCat
  <2>4. Said(Cat(fc, Rest)) = Said(raw)
    BY <2>2, <2>3 DEF LineInv, Kept
  <2>5. QED
    BY <2>4 DEF Line!OrdinaryRunesKept, Said, Cat, fc, Rest, Line!FlattenSeq, FlattenSeq,
                Line!Only, Only
<1>3. Line!PiecesRead /\ Line!EscapesRead
  <2>1. (style \in {"pieces", "escaped"}) => args # <<>>
    BY DEF LineInv, LineShape
  <2>2. QED
    BY <2>1 DEF LineInv, ReadSoFar, Line!PiecesRead, Line!EscapesRead, Writable
<1>4. QED
  BY <1>1, <1>2, <1>3 DEF ParsedAsWritten
-----------------------------------------------------------------------------
(* CommandLine: the commands that are written *)
LEMMA FreshLine ==
  ASSUME raw \in Seq(Runes), args \in Seq(Seq(Runes)), style \in {"any", "pieces", "escaped"},
         style # "any" => args # <<>> /\ raw = Words(style, args),
         pos = 0, parts = <<>>, current = <<>>, inQuote = "none", tokenStarted = FALSE,
         result = "reading"
  PROVE  LineInv
<1>1. Len(raw) \in Nat /\ 0 \in 0 .. Len(raw) /\ <<>> \in Seq(Runes) /\ <<>> \in Seq(Seq(Runes))
  BY LenProperties, EmptySeq
<1>2. LineShape
  BY <1>1 DEF LineShape
<1>3. Rest = raw
  <2>1. SubSeq(raw, 1, Len(raw)) = raw
    BY SubSeqFull
  <2>2. QED
    BY <2>1 DEF Rest
<1>4. Kept
  <2>1. FlattenSeq(parts) = <<>> /\ Said(<<>>) = <<>>
    BY FlattenEmpty, OnlyEmpty DEF Said
  <2>2. Said(raw) \in Seq(Runes)
    BY SaidType
  <2> DEFINE r == Said(raw)
  <2> HIDE DEF r
  <2>3. Cat(Cat(<<>>, <<>>), r) = r
    BY <2>2, <1>1, ConcatEmptySeq DEF r, Cat
  <2>4. QED
    BY <1>3, <2>1, <2>3 DEF Kept, r
<1>5. ReadSoFar
  <2>1. ASSUME Writable PROVE Reading
    <3>1. Rest = Words(style, args)
      BY <1>3, <2>1 DEF Writable
    <3>2. args = parts \o args
      BY ConcatEmptySeq
    <3>3. BetweenWords(args)
      BY <3>1, <3>2 DEF BetweenWords
    <3>4. QED
      BY <3>3 DEF Reading
  <2>2. QED
    BY <2>1 DEF ReadSoFar
<1>6. QED
  BY <1>2, <1>4, <1>5 DEF LineInv

LEMMA TextIsSeq ==
  ASSUME NEW W, NEW n \in Nat, NEW s \in UNION {[1 .. k -> W] : k \in 0 .. n}
  PROVE  s \in Seq(W)
<1>1. PICK k \in 0 .. n : s \in [1 .. k -> W]
  OBVIOUS
<1>2. k \in Nat
  OBVIOUS
<1>3. QED
  BY <1>1, <1>2

LEMMA LineFlatten == ASSUME NEW ss PROVE Line!FlattenSeq(ss) = FlattenSeq(ss)
  BY DEF Line!FlattenSeq, FlattenSeq

LEMMA WrittenIs ==
  ASSUME NEW a \in Seq(Runes)
  PROVE  /\ Line!InPieces(a) = Word("pieces", a) /\ Line!Escaped(a) = Word("escaped", a)
         /\ Word("pieces", a) \in Seq(Runes) /\ Word("escaped", a) \in Seq(Runes)
<1>1. \A i \in DOMAIN a : a[i] \in Runes
  OBVIOUS
<1>2. /\ [i \in DOMAIN a |-> Line!Piece(a[i])] = [i \in DOMAIN a |-> PieceOf[a[i]]]
      /\ [i \in DOMAIN a |-> Line!Escape(a[i])] = [i \in DOMAIN a |-> EscapeOf[a[i]]]
  BY <1>1 DEF PieceOf, EscapeOf
<1> DEFINE p == Mapped(PieceOf, a)
           e == Mapped(EscapeOf, a)
           dq == <<Dq>>
           dd == <<Dq, Dq>>
<1>3. p \in Seq(Runes) /\ e \in Seq(Runes) /\ dq \in Seq(Runes) /\ Dq \in Runes
  <2>1. <<>> \in Seq(Seq(Runes))
    BY EmptySeq
  <2>2. QED
    BY <2>1, TextTypes
<1>4. Line!InPieces(a) = Cat(dd, p)
  <2> DEFINE ps == [i \in DOMAIN a |-> Line!Piece(a[i])]
  <2>1. p = FlattenSeq(ps)
    BY <1>2 DEF Mapped
  <2>2. Line!InPieces(a) = dd \o Line!FlattenSeq(ps)
    BY DEF Line!InPieces
  <2> HIDE DEF ps, p, dd
  <2>3. QED
    BY <2>1, <2>2, LineFlatten DEF Cat
<1>5. Line!Escaped(a) = Cat(Cat(dq, e), dq)
  <2> DEFINE es == [i \in DOMAIN a |-> Line!Escape(a[i])]
  <2>1. e = FlattenSeq(es)
    BY <1>2 DEF Mapped
  <2>2. Line!Escaped(a) = (dq \o Line!FlattenSeq(es)) \o dq
    BY DEF Line!Escaped
  <2> HIDE DEF es, e, dq
  <2>3. QED
    BY <2>1, <2>2, LineFlatten DEF Cat
<1>6. Word("pieces", a) = Before(Dq, Before(Dq, p)) /\ Word("escaped", a) = Cat(dq, Cat(e, dq))
  BY DEF Word, Before, Cat
<1> HIDE DEF p, e
<1>7. Cat(dd, p) = Before(Dq, Before(Dq, p))
  BY <1>3, TwoBefore
<1> HIDE DEF dd, dq
<1>8. Cat(Cat(dq, e), dq) = Cat(dq, Cat(e, dq))
  BY <1>3, CatAssociative
<1>9. Before(Dq, Before(Dq, p)) \in Seq(Runes)
  <2> DEFINE b == Before(Dq, p)
  <2>1. b \in Seq(Runes)
    BY <1>3, BeforeIs
  <2> HIDE DEF b
  <2>2. Before(Dq, b) \in Seq(Runes)
    BY <1>3, <2>1, BeforeIs
  <2>3. QED
    BY <2>2 DEF b
<1>10. Cat(dq, Cat(e, dq)) \in Seq(Runes)
  <2> DEFINE b == Cat(e, dq)
  <2>1. b \in Seq(Runes)
    BY <1>3, CatType
  <2> HIDE DEF b
  <2>2. Cat(dq, b) \in Seq(Runes)
    BY <1>3, <2>1, CatType
  <2>3. QED
    BY <2>2 DEF b
<1>11. QED
  BY <1>4, <1>5, <1>6, <1>7, <1>8, <1>9, <1>10

LEMMA LineInit == ASSUME Line!Init PROVE LineInv
<1>1. /\ pos = 0 /\ parts = <<>> /\ current = <<>> /\ inQuote = "none" /\ tokenStarted = FALSE
      /\ result = "reading"
  BY RunesDiffer DEF Line!Init
<1>2. CASE style = "any" /\ args = <<>> /\ raw \in Line!Texts(MaxRaw)
  <2>1. raw \in Seq(Runes)
    BY <1>2, RunesDiffer, LineAssumption, TextIsSeq DEF Line!Texts
  <2>2. args \in Seq(Seq(Runes))
    BY <1>2, EmptySeq
  <2>3. QED
    BY <1>1, <1>2, <2>1, <2>2, FreshLine
<1>3. CASE /\ style \in {"pieces", "escaped"}
           /\ args \in UNION {[1 .. n -> Line!Texts(MaxArg)] : n \in 1 .. MaxArgs}
           /\ raw = Line!Joined([i \in DOMAIN args |->
                       IF style = "pieces" THEN Line!InPieces(args[i]) ELSE Line!Escaped(args[i])])
  <2>1. PICK n \in 1 .. MaxArgs : args \in [1 .. n -> Line!Texts(MaxArg)]
    BY <1>3
  <2>2. n \in Nat /\ n >= 1
    BY LineAssumption
  <2>3. \A i \in 1 .. n : args[i] \in Seq(Runes)
    <3>1. SUFFICES ASSUME NEW i \in 1 .. n PROVE args[i] \in Seq(Runes)
      OBVIOUS
    <3>2. args[i] \in UNION {[1 .. k -> Runes] : k \in 0 .. MaxArg}
      BY <2>1, RunesDiffer DEF Line!Texts
    <3>3. QED
      BY <3>2, LineAssumption, TextIsSeq
  <2>4. args \in Seq(Seq(Runes)) /\ DOMAIN args = 1 .. n /\ Len(args) = n
    <3>1. args \in [1 .. n -> Seq(Runes)]
      BY <2>1, <2>3
    <3>2. QED
      BY <2>2, <3>1
  <2>5. args # <<>>
    BY <2>2, <2>4
  <2> DEFINE ws == [i \in DOMAIN args |->
                       IF style = "pieces" THEN Line!InPieces(args[i]) ELSE Line!Escaped(args[i])]
  <2>6. [i \in DOMAIN ws |-> ws[i] \o <<Sp>>] = [i \in DOMAIN args |-> WordOf(style)[args[i]]]
    <3>1. \A i \in DOMAIN args : ws[i] = Word(style, args[i])
      <4>1. SUFFICES ASSUME NEW i \in DOMAIN args PROVE ws[i] = Word(style, args[i])
        OBVIOUS
      <4>2. args[i] \in Seq(Runes)
        BY <2>3, <2>4
      <4>3. Line!InPieces(args[i]) = Word("pieces", args[i])
            /\ Line!Escaped(args[i]) = Word("escaped", args[i])
        BY <4>2, WrittenIs
      <4>4. QED
        BY <1>3, <4>3
    <3>2. \A i \in DOMAIN args : WordOf(style)[args[i]] = Word(style, args[i]) \o <<Sp>>
      BY <2>3, <2>4 DEF WordOf
    <3>3. DOMAIN ws = DOMAIN args
      OBVIOUS
    <3> HIDE DEF ws
    <3>4. QED
      BY <3>1, <3>2, <3>3
  <2>7. raw = Words(style, args)
    <3>1. raw = Line!Joined(ws)
      BY <1>3
    <3> HIDE DEF ws
    <3>2. raw = FlattenSeq([i \in DOMAIN ws |-> ws[i] \o <<Sp>>])
      BY <3>1, LineFlatten DEF Line!Joined
    <3>3. QED
      BY <2>6, <3>2 DEF Words, Mapped
  <2>8. raw \in Seq(Runes)
    BY <2>4, <2>7, WordTypes, MappedType DEF Words
  <2>9. QED
    BY <1>1, <1>3, <2>4, <2>5, <2>7, <2>8, FreshLine
<1>4. QED
  BY <1>2, <1>3 DEF Line!Init

LEMMA NoLineInit == ASSUME NoLine!Init PROVE LineInv
<1>1. /\ pos = 0 /\ parts = <<>> /\ current = <<>> /\ inQuote = "none" /\ tokenStarted = FALSE
      /\ result = "reading"
  BY DEF NoLine!Init, NoLine!NoQuote
<1>2. style = "any" /\ args = <<>> /\ raw \in NoLine!Texts(0)
  <2>1. 1 .. 0 = {}
    OBVIOUS
  <2>2. QED
    BY <2>1 DEF NoLine!Init
<1>3. raw \in Seq(Runes)
  BY <1>2, TextIsSeq DEF NoLine!Texts, NoLine!Runes, Runes
<1>4. QED
  BY <1>1, <1>2, <1>3, EmptySeq, FreshLine

LEMMA LineInvariant == FairStages => []LineInv
<1>1. StagesInit => LineInv
  BY LineInit, NoLineInit DEF StagesInit
<1>2. LineInv /\ [StagesNext]_allVars => LineInv'
  BY LineStep, LineStutter
  DEF StagesNext, RunMoves, SessionMoves, TrackerMoves, BridgeMoves, LineMoves, allVars
<1>3. QED
  BY <1>1, <1>2, PTL DEF FairStages

(* A command that was written from a list of arguments, in pieces or with escapes, is read
   as that list (but for an escaped quote before a blank), and whatever is typed, each
   ordinary rune ends up in one argument, in order. *)
THEOREM CommandsRead == FairStages => []ParsedAsWritten
  BY LineInvImplies, LineInvariant, PTL
=============================================================================
