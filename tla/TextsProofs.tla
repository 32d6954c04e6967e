----------------------------- MODULE TextsProofs -----------------------------
(***************************************************************************)
(* Induction over numbers and sequences, said of the set of those that     *)
(* have the property, and what it gives for recursive functions and for    *)
(* Split.                                                                  *)
(***************************************************************************)
EXTENDS Texts, Integers, WellFoundedInduction, SequenceTheorems, TLAPS

-----------------------------------------------------------------------------
(* Induction *)

\* There is no least number outside a set that has 0 and the successors of its
\* members.
LEMMA SetInduction ==
    ASSUME NEW P, 0 \in P, \A n \in Nat : n \in P => n + 1 \in P
    PROVE  Nat \subseteq P
<1> DEFINE Less == OpToRel(<, Nat)
           out == {n \in Nat : n \notin P}
<1>1. IsWellFoundedOn(Less, Nat)
    BY NatLessThanWellFounded
<1>2. SUFFICES ASSUME out # {} PROVE FALSE
    OBVIOUS
<1>3. Less = {pair \in Nat \X Nat : pair[1] < pair[2]}
    BY DEF OpToRel
<1> HIDE DEF Less
<1>4. PICK x \in out : \A y \in out : ~(<<y, x>> \in Less)
    BY <1>1, <1>2, WFMin
<1>5. x # 0 /\ x - 1 \in Nat
    BY <1>4
<1>6. <<x - 1, x>> \in Less
    BY <1>3, <1>5
<1> QED
    BY <1>4, <1>5, <1>6

LEMMA UpTo ==
    ASSUME NEW N \in Nat, NEW P, 0 \in P, \A n \in 1 .. N : n - 1 \in P => n \in P
    PROVE  0 .. N \subseteq P
<1> DEFINE Q == {n \in Nat : n <= N => n \in P}
<1>1. 0 \in Q
    OBVIOUS
<1>2. ASSUME NEW n \in Nat, n \in Q PROVE n + 1 \in Q
    <2>1. CASE n + 1 <= N
        <3>1. n + 1 \in 1 .. N /\ (n + 1) - 1 \in P
            BY <1>2, <2>1
        <3> QED
            BY <3>1
    <2> QED
        BY <2>1
<1>3. Nat \subseteq Q
    <2> HIDE DEF Q
    <2> QED
        BY <1>1, <1>2, SetInduction
<1> QED
    BY <1>3

LEMMA SeqInduction ==
    ASSUME NEW S, NEW P, <<>> \in P,
           \A s \in Seq(S), x \in S : s \in P => Append(s, x) \in P
    PROVE  Seq(S) \subseteq P
<1> DEFINE Q == {n \in Nat : \A s \in Seq(S) : Len(s) = n => s \in P}
<1>1. 0 \in Q
    <2>1. \A s \in Seq(S) : Len(s) = 0 => s = <<>>
        OBVIOUS
    <2> QED
        BY <2>1
<1>2. ASSUME NEW n \in Nat, n \in Q PROVE n + 1 \in Q
    <2> SUFFICES ASSUME NEW s \in Seq(S), Len(s) = n + 1 PROVE s \in P
        OBVIOUS
    <2> DEFINE front == SubSeq(s, 1, n)
    <2>1. front \in Seq(S) /\ Len(front) = n /\ s[n + 1] \in S
        OBVIOUS
    <2>2. s = Append(front, s[n + 1])
        OBVIOUS
    <2>3. front \in P
        BY <1>2, <2>1
    <2> HIDE DEF front
    <2> QED
        BY <2>1, <2>2, <2>3
<1>3. Nat \subseteq Q
    <2> HIDE DEF Q
    <2> QED
        BY <1>1, <1>2, SetInduction
<1> QED
    BY <1>3

\* Max and Min, of a set of positions
LEMMA MaxUpTo ==
    ASSUME NEW N \in Nat, NEW I \in SUBSET (1 .. N), I # {}
    PROVE  Max(I) \in I /\ \A i \in I : i <= Max(I)
<1> DEFINE P == {n \in 0 .. N : (\E i \in I : i <= n) =>
                        \E m \in I : m <= n /\ \A i \in I : i <= n => i <= m}
<1>1. 0 \in P
    OBVIOUS
<1>2. ASSUME NEW n \in 1 .. N, n - 1 \in P PROVE n \in P
    <2>1. CASE n \in I
        BY <2>1
    <2>2. CASE n \notin I
        <3>1. \A i \in I : i <= n <=> i <= n - 1
            BY <2>2
        <3> QED
            BY <1>2, <3>1
    <2> QED
        BY <2>1, <2>2
<1>3. N \in P
    <2> HIDE DEF P
    <2>1. 0 .. N \subseteq P
        BY <1>1, <1>2, UpTo
    <2> QED
        BY <2>1
<1>4. PICK m \in I : \A i \in I : i <= m
    <2>1. PICK x \in I : x <= N
        <3>1. PICK x : x \in I
            OBVIOUS
        <3> QED
            BY <3>1
    <2>2. PICK m \in I : \A i \in I : i <= N => i <= m
        BY <1>3, <2>1
    <2> QED
        BY <2>2
<1> QED
    BY <1>4 DEF Max

LEMMA MinUpTo ==
    ASSUME NEW N \in Nat, NEW I \in SUBSET (1 .. N), I # {}
    PROVE  Min(I) \in I /\ \A i \in I : Min(I) <= i
<1> DEFINE P == {n \in 0 .. N : (\E i \in I : i <= n) => \E m \in I : \A i \in I : m <= i}
<1>1. 0 \in P
    OBVIOUS
<1>2. ASSUME NEW n \in 1 .. N, n - 1 \in P PROVE n \in P
    <2>1. CASE \E i \in I : i <= n - 1
        BY <1>2, <2>1
    <2>2. CASE ~\E i \in I : i <= n - 1
        <3>1. \A i \in I : n <= i
            BY <2>2
        <3> QED
            BY <3>1
    <2> QED
        BY <2>1, <2>2
<1>3. N \in P
    <2> HIDE DEF P
    <2>1. 0 .. N \subseteq P
        BY <1>1, <1>2, UpTo
    <2> QED
        BY <2>1
<1>4. PICK m \in I : \A i \in I : m <= i
    <2>1. PICK x : x \in I
        OBVIOUS
    <2>2. x <= N
        BY <2>1
    <2> QED
        BY <1>3, <2>1, <2>2
<1> QED
    BY <1>4 DEF Min

-----------------------------------------------------------------------------
(* Recursion over 0 .. N *)

\* g is a step that stays in S, and f takes it N times, from a.
StaysIn(S, N, g) == g \in [S \X (1 .. N) -> S]

Takes(S, a, N, g, f) ==
    f \in [0 .. N -> S] /\ f[0] = a /\ \A n \in 1 .. N : f[n] = g[<<f[n - 1], n>>]

LEMMA Recursion ==
    ASSUME NEW S, NEW a \in S, NEW N \in Nat, NEW g, StaysIn(S, N, g)
    PROVE  \E f : Takes(S, a, N, g, f)
<1> USE DEF StaysIn, Takes
<1> DEFINE Reach(m, f) == f[0] = a /\ \A n \in 1 .. m : f[n] = g[<<f[n - 1], n>>]
           P == {m \in Nat : \E f \in [0 .. m -> S] : Reach(m, f)}
<1>1. 0 \in P
    <2> DEFINE f == [n \in 0 .. 0 |-> a]
    <2>1. f \in [0 .. 0 -> S] /\ f[0] = a
        OBVIOUS
    <2>2. Reach(0, f)
        BY <2>1
    <2> QED
        BY <2>1, <2>2
<1>2. ASSUME NEW m \in 1 .. N, m - 1 \in P PROVE m \in P
    <2>1. PICK f \in [0 .. m - 1 -> S] : Reach(m - 1, f)
        BY <1>2
    <2> DEFINE h == [n \in 0 .. m |-> IF n = m THEN g[<<f[m - 1], m>>] ELSE f[n]]
    <2>2. g[<<f[m - 1], m>>] \in S
        BY <2>1
    <2>3. h \in [0 .. m -> S]
        BY <2>1, <2>2
    <2>4. \A n \in 0 .. m - 1 : h[n] = f[n]
        OBVIOUS
    <2>5. h[m] = g[<<f[m - 1], m>>]
        OBVIOUS
    <2> HIDE DEF h
    <2>6. h[0] = a
        BY <2>1, <2>4
    <2>7. ASSUME NEW n \in 1 .. m PROVE h[n] = g[<<h[n - 1], n>>]
        <3>1. CASE n = m
            BY <2>4, <2>5, <3>1
        <3>2. CASE n # m
            <4>1. n \in 1 .. m - 1 /\ n \in 0 .. m - 1 /\ n - 1 \in 0 .. m - 1
                BY <3>2
            <4>2. h[n] = f[n] /\ h[n - 1] = f[n - 1]
                BY <2>4, <4>1
            <4>3. f[n] = g[<<f[n - 1], n>>]
                BY <2>1, <4>1
            <4> QED
                BY <4>2, <4>3
        <3> QED
            BY <3>1, <3>2
    <2> QED
        BY <2>3, <2>6, <2>7
<1>3. N \in P
    <2> HIDE DEF P
    <2>1. 0 .. N \subseteq P
        BY <1>1, <1>2, UpTo
    <2> QED
        BY <2>1
<1> QED
    BY <1>3

-----------------------------------------------------------------------------
(* Cuts *)

LEMMA CutInTwo ==
    ASSUME NEW S, NEW x \in Seq(S), NEW i \in 0 .. Len(x), NEW j \in i .. Len(x)
    PROVE  /\ SubSeq(x, 1, i) \in Seq(S) /\ SubSeq(x, i + 1, j) \in Seq(S)
           /\ SubSeq(x, 1, j) \in Seq(S) /\ Len(SubSeq(x, 1, j)) = j
           /\ SubSeq(x, 1, i) \o SubSeq(x, i + 1, j) = SubSeq(x, 1, j)
           /\ \A k \in 0 .. j : SubSeq(SubSeq(x, 1, j), 1, k) = SubSeq(x, 1, k)
<1>1. i \in Nat /\ j \in Nat /\ Len(x) \in Nat /\ i <= j /\ j <= Len(x)
    OBVIOUS
<1>2. /\ SubSeq(x, 1, i) \in Seq(S) /\ SubSeq(x, i + 1, j) \in Seq(S)
      /\ SubSeq(x, 1, j) \in Seq(S) /\ Len(SubSeq(x, 1, j)) = j
    BY <1>1
<1>3. SubSeq(x, 1, i) \o SubSeq(x, i + 1, j) = SubSeq(x, 1, j)
    <2>1. 1 \in 1 .. Len(x) + 1 /\ i \in 1 - 1 .. Len(x) /\ j \in i .. Len(x)
        BY <1>1
    <2> QED
        BY <2>1, ConcatAdjacentSubSeq
<1>4. ASSUME NEW k \in 0 .. j PROVE SubSeq(SubSeq(x, 1, j), 1, k) = SubSeq(x, 1, k)
    <2> DEFINE y == SubSeq(x, 1, j)
    <2>1. y \in Seq(S) /\ Len(y) = j /\ \A n \in 1 .. j : y[n] = x[n]
        BY <1>1
    <2> HIDE DEF y
    <2>2. SubSeq(y, 1, k) \in Seq(S) /\ Len(SubSeq(y, 1, k)) = k
          /\ \A n \in 1 .. k : SubSeq(y, 1, k)[n] = y[n]
        BY <1>1, <2>1
    <2>3. SubSeq(x, 1, k) \in Seq(S) /\ Len(SubSeq(x, 1, k)) = k
          /\ \A n \in 1 .. k : SubSeq(x, 1, k)[n] = x[n]
        BY <1>1
    <2>4. SubSeq(y, 1, k) = SubSeq(x, 1, k)
        <3>1. \A n \in 1 .. k : SubSeq(y, 1, k)[n] = SubSeq(x, 1, k)[n]
            BY <1>1, <2>1, <2>2, <2>3
        <3> QED
            BY <2>2, <2>3, <3>1, SeqEqual
    <2> QED
        BY <2>4 DEF y
<1> QED
    BY <1>2, <1>3, <1>4

-----------------------------------------------------------------------------
(* Split *)

\* What one more character makes of the pieces
SplitStep(done, x, c) ==
    IF x = c THEN Append(done, <<>>) ELSE [done EXCEPT ![Len(done)] = Append(@, x)]

\* The pieces of the first n characters, for each n
SplitSteps(s, c, f) ==
    f[0] = << <<>> >> /\ \A n \in 1 .. Len(s) : f[n] = SplitStep(f[n - 1], s[n], c)

LEMMA SplitStepType ==
    ASSUME NEW S, NEW done \in Seq(Seq(S)), done # <<>>, NEW x \in S, NEW c
    PROVE  SplitStep(done, x, c) \in Seq(Seq(S)) /\ SplitStep(done, x, c) # <<>>
<1>1. CASE x = c
    BY <1>1 DEF SplitStep
<1>2. CASE x # c
    <2>1. Len(done) \in 1 .. Len(done) /\ done[Len(done)] \in Seq(S)
        OBVIOUS
    <2>2. Append(done[Len(done)], x) \in Seq(S)
        BY <2>1
    <2> QED
        BY <1>2, <2>1, <2>2 DEF SplitStep
<1> QED
    BY <1>1, <1>2

LEMMA SplitExists ==
    ASSUME NEW S, NEW s \in Seq(S), NEW c
    PROVE  \E f : /\ SplitSteps(s, c, f) /\ Split(s, c) = f[Len(s)]
                  /\ \A n \in 0 .. Len(s) : f[n] \in Seq(Seq(S)) /\ f[n] # <<>>
<1> DEFINE T == {q \in Seq(Seq(S)) : q # <<>>}
           N == Len(s)
           none == << <<>> >>
           g == [z \in T \X (1 .. N) |-> SplitStep(z[1], s[z[2]], c)]
           Is(f) == f = [n \in 0 .. Len(s) |-> IF n = 0 THEN << <<>> >>
                                               ELSE SplitStep(f[n - 1], s[n], c)]
           h == CHOOSE f : Is(f)
<1>1. none \in T /\ N \in Nat
    OBVIOUS
<1>2. StaysIn(T, N, g)
    <2>1. ASSUME NEW z \in T \X (1 .. N) PROVE SplitStep(z[1], s[z[2]], c) \in T
        <3>1. z[1] \in T /\ s[z[2]] \in S
            OBVIOUS
        <3> QED
            BY <3>1, SplitStepType
    <2> QED
        BY <2>1 DEF StaysIn
<1>3. \A q \in T, n \in 1 .. N : g[<<q, n>>] = SplitStep(q, s[n], c)
    OBVIOUS
<1> HIDE DEF g, T
<1>4. PICK f : Takes(T, none, N, g, f)
    BY <1>1, <1>2, Recursion
<1>5. f \in [0 .. N -> T] /\ f[0] = none /\ \A n \in 1 .. N : f[n] = SplitStep(f[n - 1], s[n], c)
    <2>1. \A n \in 1 .. N : f[n - 1] \in T
        BY <1>1, <1>4 DEF Takes
    <2> QED
        BY <1>3, <1>4, <2>1 DEF Takes
<1>6. Is(f)
    <2>1. f = [n \in 0 .. N |-> f[n]]
        BY <1>5
    <2>2. \A n \in 0 .. N : f[n] = IF n = 0 THEN none ELSE SplitStep(f[n - 1], s[n], c)
        BY <1>1, <1>5
    <2> QED
        BY <2>1, <2>2
<1>7. Is(h)
    BY <1>6
<1>8. Split(s, c) = h[N]
    BY DEF Split, SplitStep
<1> HIDE DEF h
<1>9. h[0] = none /\ \A n \in 1 .. N : h[n] = SplitStep(h[n - 1], s[n], c)
    BY <1>1, <1>7
<1> HIDE DEF N, none, Is
<1> DEFINE P == {n \in 0 .. N : h[n] = f[n]}
<1>10. 0 \in P /\ \A n \in 1 .. N : n - 1 \in P => n \in P
    BY <1>1, <1>5, <1>9
<1>11. 0 .. N \subseteq P
    <2> HIDE DEF P
    <2> QED
        BY <1>1, <1>10, UpTo
<1>12. SplitSteps(s, c, h)
    BY <1>9 DEF SplitSteps, N, none
<1>13. \A n \in 0 .. N : h[n] \in T
    BY <1>5, <1>11
<1> QED
    BY <1>8, <1>12, <1>13 DEF N, T

LEMMA SplitEmpty == \A c : Split(<<>>, c) = << <<>> >>
<1> SUFFICES ASSUME NEW c PROVE Split(<<>>, c) = << <<>> >>
    OBVIOUS
<1>1. <<>> \in Seq({})
    OBVIOUS
<1>2. PICK f : SplitSteps(<<>>, c, f) /\ Split(<<>>, c) = f[Len(<<>>)]
    BY <1>1, SplitExists
<1> QED
    BY <1>2 DEF SplitSteps

LEMMA SplitAppend ==
    ASSUME NEW S, NEW s \in Seq(S), NEW x \in S, NEW c
    PROVE  Split(Append(s, x), c) = SplitStep(Split(s, c), x, c)
<1> DEFINE t == Append(s, x)
<1>1. t \in Seq(S) /\ Len(t) = Len(s) + 1 /\ t[Len(t)] = x
      /\ \A n \in 1 .. Len(s) : t[n] = s[n]
    OBVIOUS
<1> HIDE DEF t
<1>2. PICK f : SplitSteps(s, c, f) /\ Split(s, c) = f[Len(s)]
    BY SplitExists
<1>3. PICK h : SplitSteps(t, c, h) /\ Split(t, c) = h[Len(t)]
    BY <1>1, SplitExists
<1> DEFINE P == {n \in 0 .. Len(s) : h[n] = f[n]}
<1>4. 0 \in P /\ \A n \in 1 .. Len(s) : n - 1 \in P => n \in P
    BY <1>1, <1>2, <1>3 DEF SplitSteps
<1>5. h[Len(s)] = f[Len(s)]
    <2> HIDE DEF P
    <2>1. Len(s) \in Nat
        OBVIOUS
    <2>2. 0 .. Len(s) \subseteq P
        BY <1>4, <2>1, UpTo
    <2> QED
        BY <2>1, <2>2 DEF P
<1>6. h[Len(t)] = SplitStep(h[Len(t) - 1], t[Len(t)], c)
    BY <1>1, <1>3 DEF SplitSteps
<1> QED
    BY <1>1, <1>2, <1>3, <1>5, <1>6 DEF t

LEMMA SplitType ==
    ASSUME NEW S, NEW s \in Seq(S), NEW c
    PROVE  Split(s, c) \in Seq(Seq(S)) /\ Split(s, c) # <<>>
BY SplitExists

LEMMA LastReplaced ==
    ASSUME NEW T, NEW p \in Seq(T), p # <<>>, NEW e \in T
    PROVE  LET r == [p EXCEPT ![Len(p)] = e] IN
           /\ Len(r) = Len(p) /\ r[Len(p)] = e
           /\ \A i \in 1 .. Len(p) : i # Len(p) => r[i] = p[i]
<1>1. Len(p) \in 1 .. Len(p)
    OBVIOUS
<1> QED
    BY <1>1, ExceptSeq

LEMMA LongerIsSome ==
    ASSUME NEW S
    PROVE  \A u \in Seq(S), z \in S : Append(u, z) \in Seq(S) /\ Append(u, z) # <<>>
BY AppendProperties

\* The pieces after a character tell the pieces before it and the character.
LEMMA SplitStepTells ==
    ASSUME NEW S, NEW T, T = Seq(S), NEW c, NEW p \in Seq(T), NEW q \in Seq(T),
           p # <<>>, q # <<>>, NEW x \in S, NEW y \in S,
           SplitStep(p, x, c) = SplitStep(q, y, c)
    PROVE  p = q /\ x = y
<1> DEFINE m == Len(p)
           n == Len(q)
           r == SplitStep(p, x, c)
<1>1. m \in Nat \ {0} /\ n \in Nat \ {0} /\ p[m] \in T /\ q[n] \in T /\ <<>> \in T
    OBVIOUS
<1>2. Append(p[m], x) \in T /\ Append(q[n], y) \in T
      /\ Append(p[m], x) # <<>> /\ Append(q[n], y) # <<>>
    <2>1. \A u \in Seq(S), z \in S : Append(u, z) \in Seq(S) /\ Append(u, z) # <<>>
        BY LongerIsSome
    <2> QED
        BY <1>1, <2>1
<1>3. x = c => r = Append(p, <<>>) /\ Len(r) = m + 1 /\ r[m + 1] = <<>>
    BY <1>1, AppendProperties DEF SplitStep
<1>4. y = c => r = Append(q, <<>>) /\ Len(r) = n + 1 /\ r[n + 1] = <<>>
    <2>1. y = c => SplitStep(q, y, c) = Append(q, <<>>)
        BY DEF SplitStep
    <2> QED
        BY <1>1, <2>1, AppendProperties
<1>5. x # c => /\ Len(r) = m /\ r[m] = Append(p[m], x)
               /\ \A i \in 1 .. m : i # m => r[i] = p[i]
    <2>1. x # c => SplitStep(p, x, c) = [p EXCEPT ![m] = Append(p[m], x)]
        BY DEF SplitStep
    <2> QED
        BY <1>2, <2>1, LastReplaced
<1>6. y # c => /\ Len(r) = n /\ r[n] = Append(q[n], y)
               /\ \A i \in 1 .. n : i # n => r[i] = q[i]
    <2>1. y # c => SplitStep(q, y, c) = [q EXCEPT ![n] = Append(q[n], y)]
        BY DEF SplitStep
    <2> QED
        BY <1>2, <2>1, LastReplaced
<1> HIDE DEF r
<1>7. x = c <=> y = c
    BY <1>1, <1>2, <1>3, <1>4, <1>5, <1>6
<1>8. CASE x = c
    <2>1. Append(p, <<>>) = Append(q, <<>>)
        BY <1>3, <1>4, <1>7, <1>8
    <2> QED
        BY <1>1, <1>7, <1>8, <2>1, AppendInjective
<1>9. CASE x # c
    <2>1. m = n /\ Append(p[m], x) = Append(q[m], y)
        BY <1>5, <1>6, <1>7, <1>9
    <2>2. p[m] = q[m] /\ x = y
        BY <1>1, <2>1, AppendInjective
    <2>3. \A i \in 1 .. m : p[i] = q[i]
        BY <1>5, <1>6, <1>7, <1>9, <2>1, <2>2
    <2>4. p = q
        BY <2>1, <2>3, SeqEqual
    <2> QED
        BY <2>2, <2>4
<1> QED
    BY <1>8, <1>9

LEMMA SplitNotEmpty ==
    ASSUME NEW S, NEW s \in Seq(S), NEW x \in S, NEW c
    PROVE  Split(Append(s, x), c) # Split(<<>>, c)
<1> DEFINE T == Seq(S)
           p == Split(s, c)
           r == SplitStep(p, x, c)
<1>1. p \in Seq(T) /\ p # <<>> /\ Split(Append(s, x), c) = r
    BY SplitType, SplitAppend
<1>2. Len(p) \in Nat \ {0} /\ p[Len(p)] \in T /\ <<>> \in T
    BY <1>1
<1>3. CASE x = c
    <2>1. Len(r) = Len(p) + 1
        BY <1>1, <1>2, <1>3, AppendProperties DEF SplitStep
    <2> QED
        BY <1>1, <1>2, <2>1, SplitEmpty
<1>4. CASE x # c
    <2>1. Append(p[Len(p)], x) \in T /\ Append(p[Len(p)], x) # <<>>
        BY <1>2, AppendProperties
    <2>2. r = [p EXCEPT ![Len(p)] = Append(p[Len(p)], x)]
        BY <1>4 DEF SplitStep
    <2>3. Len(r) = Len(p) /\ r[Len(p)] # <<>>
        BY <1>1, <2>1, <2>2, LastReplaced
    <2>4. Len(Split(<<>>, c)) = 1 /\ Split(<<>>, c)[1] = <<>>
        BY SplitEmpty
    <2> HIDE DEF p, r
    <2> QED
        BY <1>1, <2>3, <2>4
<1> QED
    BY <1>3, <1>4

\* The pieces and the separator tell the text.
LEMMA SplitInjective ==
    ASSUME NEW S, NEW c, NEW s \in Seq(S), NEW t \in Seq(S), Split(s, c) = Split(t, c)
    PROVE  s = t
<1> DEFINE P == {u \in Seq(S) : \A v \in Seq(S) : Split(u, c) = Split(v, c) => u = v}
<1>1. <<>> \in P
    <2> SUFFICES ASSUME NEW v \in Seq(S), Split(<<>>, c) = Split(v, c), v # <<>> PROVE FALSE
        OBVIOUS
    <2>1. PICK f \in Seq(S), x \in S : v = Append(f, x)
        BY SequenceEmptyOrAppend
    <2> QED
        BY <2>1, SplitNotEmpty
<1>2. ASSUME NEW u \in Seq(S), NEW x \in S, u \in P PROVE Append(u, x) \in P
    <2> SUFFICES ASSUME NEW v \in Seq(S), Split(Append(u, x), c) = Split(v, c)
                 PROVE  Append(u, x) = v
        OBVIOUS
    <2>1. v # <<>>
        BY SplitNotEmpty
    <2>2. PICK f \in Seq(S), y \in S : v = Append(f, y)
        BY <2>1, SequenceEmptyOrAppend
    <2> DEFINE T == Seq(S)
               p == Split(u, c)
               q == Split(f, c)
    <2>3. p \in Seq(T) /\ q \in Seq(T) /\ p # <<>> /\ q # <<>>
        BY SplitType
    <2>4. SplitStep(p, x, c) = SplitStep(q, y, c)
        BY <2>2, SplitAppend
    <2>5. p = q /\ x = y
        <3> HIDE DEF p, q
        <3> QED
            BY <2>3, <2>4, SplitStepTells
    <2>6. u = f
        BY <1>2, <2>5
    <2> QED
        BY <2>2, <2>5, <2>6
<1>3. Seq(S) \subseteq P
    <2> HIDE DEF P
    <2> QED
        BY <1>1, <1>2, SeqInduction
<1>4. s \in P
    BY <1>3
<1> QED
    BY <1>4
=============================================================================
