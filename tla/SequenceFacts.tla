--------------------------- MODULE SequenceFacts ---------------------------
(***************************************************************************)
(* Facts about Nat, sequences and FlattenSeq that the proofs share.  The   *)
(* library states its induction principles with an operator parameter; the *)
(* ones here speak of a set, and rest on finite subsets of Nat being well  *)
(* founded under strict inclusion.                                         *)
(***************************************************************************)
EXTENDS Integers, Sequences, SequencesExt, FiniteSetsExt, FiniteSetTheorems, SequenceTheorems,
        TLAPS

\* A nonempty set of naturals has a least element.
LEMMA LeastNatural ==
  ASSUME NEW T \in SUBSET Nat, T # {}
  PROVE  \E x \in T : \A y \in T : x <= y
<1> DEFINE Below == {1 .. n : n \in T}
           R == StrictSubsetOrdering(Nat)
<1>1. IsWellFoundedOn(R, FiniteSubsetsOf(Nat))
  BY FS_StrictSubsetOrderingWellFounded
<1>2. Below \subseteq FiniteSubsetsOf(Nat) /\ Below # {}
  <2>1. \A n \in T : IsFiniteSet(1 .. n) /\ 1 .. n \subseteq Nat
    <3> TAKE n \in T
    <3>1. n \in Int /\ 1 \in Int OBVIOUS
    <3> QED BY <3>1, FS_Interval
  <2> QED BY <2>1 DEF FiniteSubsetsOf
<1>3. PICK b \in Below : \A c \in Below : ~ (<<c, b>> \in R)
  <2> HIDE DEF R, Below
  <2> QED BY <1>1, <1>2, WFMin
<1>4. PICK x \in T : b = 1 .. x OBVIOUS
<1>5. \A y \in T : x <= y
  <2> SUFFICES ASSUME NEW y \in T, y < x PROVE FALSE OBVIOUS
  <2>1. 1 .. y \in Below OBVIOUS
  <2>2. <<1 .. y, b>> \notin R BY <1>3, <2>1
  <2>3. x \in 1 .. x /\ x \notin 1 .. y /\ 1 .. y \subseteq 1 .. x OBVIOUS
  <2>4. 1 .. y \in SUBSET Nat /\ b \in SUBSET Nat BY <1>4
  <2> QED BY <2>2, <2>3, <2>4, <1>4 DEF StrictSubsetOrdering
<1> QED BY <1>5

\* What holds of 0 and of the successor holds of every natural.
LEMMA SetInduction ==
  ASSUME NEW S, 0 \in S, \A n \in Nat : n \in S => n + 1 \in S
  PROVE  Nat \subseteq S
<1> SUFFICES ASSUME ~ (Nat \subseteq S) PROVE FALSE OBVIOUS
<1> DEFINE T == {n \in Nat : n \notin S}
<1>1. PICK x \in T : \A y \in T : x <= y
  <2>1. T \in SUBSET Nat /\ T # {} OBVIOUS
  <2> HIDE DEF T
  <2> QED BY <2>1, LeastNatural
<1>2. x \in Nat /\ x # 0 OBVIOUS
<1>3. x - 1 \in Nat /\ x - 1 + 1 = x BY <1>2
<1>4. x - 1 \notin T BY <1>1, <1>2, <1>3
<1>5. x - 1 \in S BY <1>4, <1>3
<1> QED BY <1>5, <1>3

\* What holds of <<>> and of one element more holds of every sequence.
LEMMA SequenceInduction ==
  ASSUME NEW E, NEW S, <<>> \in S,
         \A s \in Seq(E), e \in E : s \in S => Append(s, e) \in S
  PROVE  Seq(E) \subseteq S
<1> DEFINE N == {n \in Nat : \A s \in Seq(E) : Len(s) = n => s \in S}
<1>1. 0 \in N
  BY EmptySeq
<1>2. ASSUME NEW n \in Nat, n \in N PROVE n + 1 \in N
  <2> SUFFICES ASSUME NEW s \in Seq(E), Len(s) = n + 1 PROVE s \in S
    OBVIOUS
  <2>1. s # <<>>
    BY EmptySeq
  <2>2. PICK t \in Seq(E), e \in E : s = Append(t, e)
    BY <2>1, SequenceEmptyOrAppend
  <2>3. Len(t) = n
    BY <2>2, AppendProperties, LenProperties
  <2> QED BY <1>2, <2>2, <2>3
<1>3. Nat \subseteq N
  <2> HIDE DEF N
  <2> QED BY <1>1, <1>2, SetInduction
<1> QED BY <1>3, LenProperties

-----------------------------------------------------------------------------
\* The concatenation of the first i sequences, for each i up to n.
Unrolled(f, ss, n) == f = [i \in 1 .. n |-> IF i = 1 THEN ss[i] ELSE f[i-1] \o ss[i]]

LEMMA UnrolledExists ==
  ASSUME NEW ss
  PROVE  \A n \in Nat : \E f : Unrolled(f, ss, n)
<1> DEFINE S == {n \in Nat : \E f : Unrolled(f, ss, n)}
<1>1. 0 \in S
  <2>1. Unrolled([i \in 1 .. 0 |-> <<>>], ss, 0)
    BY DEF Unrolled
  <2> QED BY <2>1
<1>2. ASSUME NEW n \in Nat, n \in S PROVE n + 1 \in S
  <2>1. PICK f : Unrolled(f, ss, n) BY <1>2
  <2> DEFINE e == IF n = 0 THEN ss[1] ELSE f[n] \o ss[n + 1]
             g == [i \in 1 .. n + 1 |-> IF i = n + 1 THEN e ELSE f[i]]
  <2>2. \A i \in 1 .. n : f[i] = IF i = 1 THEN ss[i] ELSE f[i-1] \o ss[i]
    BY <2>1 DEF Unrolled
  <2>3. \A i \in 1 .. n + 1 : g[i] = IF i = 1 THEN ss[i] ELSE g[i-1] \o ss[i]
    <3> TAKE i \in 1 .. n + 1
    <3>1. CASE i = n + 1 /\ i = 1 BY <3>1
    <3>2. CASE i = n + 1 /\ i # 1
      <4>1. i - 1 \in 1 .. n + 1 /\ i - 1 # n + 1 /\ i - 1 = n /\ n # 0 BY <3>2
      <4> QED BY <3>2, <4>1
    <3>3. CASE i # n + 1 /\ i = 1 BY <3>3, <2>2
    <3>4. CASE i # n + 1 /\ i # 1
      <4>1. i - 1 \in 1 .. n + 1 /\ i - 1 # n + 1 /\ i \in 1 .. n BY <3>4
      <4> HIDE DEF e
      <4> QED BY <3>4, <4>1, <2>2
    <3> QED BY <3>1, <3>2, <3>3, <3>4
  <2>4. Unrolled(g, ss, n + 1)
    <3>1. g = [i \in 1 .. n + 1 |-> g[i]] OBVIOUS
    <3> HIDE DEF g
    <3> QED BY <2>3, <3>1 DEF Unrolled
  <2> QED BY <2>4
<1>3. Nat \subseteq S
  <2> HIDE DEF S
  <2> QED BY <1>1, <1>2, SetInduction
<1> QED BY <1>3

LEMMA UnrolledAt ==
  ASSUME NEW f, NEW ss, NEW n \in Nat, Unrolled(f, ss, n), NEW i \in 1 .. n
  PROVE  f[i] = IF i = 1 THEN ss[i] ELSE f[i-1] \o ss[i]
<1> DEFINE h == [j \in 1 .. n |-> IF j = 1 THEN ss[j] ELSE f[j-1] \o ss[j]]
<1>1. f = h
  BY DEF Unrolled
<1>2. h[i] = IF i = 1 THEN ss[i] ELSE f[i-1] \o ss[i]
  OBVIOUS
<1> HIDE DEF h
<1> QED BY <1>1, <1>2

\* Two unrollings agree as far as their sequences do.
LEMMA UnrolledAgree ==
  ASSUME NEW ss, NEW tt, NEW m \in Nat, NEW n \in Nat, m <= n,
         \A i \in 1 .. m : ss[i] = tt[i],
         NEW f, NEW g, Unrolled(f, ss, m), Unrolled(g, tt, n)
  PROVE  \A i \in 1 .. m : f[i] = g[i]
<1> DEFINE S == {k \in Nat : k \in 1 .. m => f[k] = g[k]}
<1>1. /\ \A i \in 1 .. m : f[i] = IF i = 1 THEN ss[i] ELSE f[i-1] \o ss[i]
      /\ \A i \in 1 .. m : g[i] = IF i = 1 THEN tt[i] ELSE g[i-1] \o tt[i]
  <2>1. \A i \in 1 .. m : i \in 1 .. n OBVIOUS
  <2> QED BY <2>1, UnrolledAt
<1>2. 0 \in S OBVIOUS
<1>3. ASSUME NEW k \in Nat, k \in S PROVE k + 1 \in S
  <2> SUFFICES ASSUME k + 1 \in 1 .. m PROVE f[k + 1] = g[k + 1] OBVIOUS
  <2>1. CASE k = 0 BY <1>1, <2>1
  <2>2. CASE k # 0
    <3>1. k \in 1 .. m /\ k + 1 - 1 = k /\ k + 1 # 1 BY <2>2
    <3>2. f[k] = g[k] BY <1>3, <3>1
    <3> QED BY <1>1, <3>1, <3>2
  <2> QED BY <2>1, <2>2
<1>4. Nat \subseteq S
  <2> HIDE DEF S
  <2> QED BY <1>2, <1>3, SetInduction
<1> QED BY <1>4

LEMMA UnrolledPrefix ==
  ASSUME NEW ss, NEW tt, NEW n \in Nat, n \in 1 .. n, \A i \in 1 .. n : ss[i] = tt[i],
         NEW f, NEW g, Unrolled(f, ss, n), Unrolled(g, tt, n + 1)
  PROVE  f[n] = g[n]
<1>1. n + 1 \in Nat /\ n <= n + 1 OBVIOUS
<1> DEFINE k == n + 1
<1>2. k \in Nat /\ n <= k /\ Unrolled(g, tt, k) OBVIOUS
<1> HIDE DEF k
<1>3. \A i \in 1 .. n : f[i] = g[i] BY <1>2, UnrolledAgree
<1> QED BY <1>3

\* FlattenSeq is the last value of its unrolling.
LEMMA FlattenUnrolls ==
  ASSUME NEW ss, Len(ss) \in Nat, Len(ss) # 0
  PROVE  \E f : Unrolled(f, ss, Len(ss)) /\ FlattenSeq(ss) = f[Len(ss)]
<1>1. \E f : Unrolled(f, ss, Len(ss))
  BY UnrolledExists
<1> QED BY <1>1 DEF FlattenSeq, Unrolled

LEMMA FlattenEmpty == FlattenSeq(<<>>) = <<>>
  BY DEF FlattenSeq

\* One sequence more at the end.
LEMMA FlattenStep ==
  ASSUME NEW ss, NEW tt, NEW n \in Nat, n # 0, Len(ss) = n, Len(tt) = n + 1,
         \A i \in 1 .. n : ss[i] = tt[i]
  PROVE  FlattenSeq(tt) = FlattenSeq(ss) \o tt[n + 1]
<1>1. PICK g : Unrolled(g, tt, n + 1) /\ FlattenSeq(tt) = g[n + 1]
  BY FlattenUnrolls
<1>2. PICK f : Unrolled(f, ss, n) /\ FlattenSeq(ss) = f[n]
  BY FlattenUnrolls
<1>3. g[n + 1] = IF n + 1 = 1 THEN tt[n + 1] ELSE g[n + 1 - 1] \o tt[n + 1]
  <2>1. n + 1 \in Nat /\ n + 1 \in 1 .. n + 1 OBVIOUS
  <2> QED BY <1>1, <2>1, UnrolledAt
<1>4. n \in 1 .. n /\ n + 1 - 1 = n /\ n + 1 # 1 OBVIOUS
<1>5. f[n] = g[n]
  BY <1>1, <1>2, <1>4, UnrolledPrefix
<1> QED BY <1>1, <1>2, <1>3, <1>4, <1>5

LEMMA FlattenSingle ==
  ASSUME NEW tt, Len(tt) = 1
  PROVE  FlattenSeq(tt) = tt[1]
<1>1. PICK g : Unrolled(g, tt, Len(tt)) /\ FlattenSeq(tt) = g[Len(tt)]
  <2>1. Len(tt) \in Nat /\ Len(tt) # 0 OBVIOUS
  <2> QED BY <2>1, FlattenUnrolls
<1>2. 1 \in 1 .. 1 /\ 1 \in Nat OBVIOUS
<1> QED BY <1>1, <1>2, UnrolledAt

\* FlattenSeq distributes over Append and over concatenation, and keeps types.
LEMMA FlattenAppend ==
  ASSUME NEW E, NEW ss \in Seq(Seq(E)), NEW t \in Seq(E)
  PROVE  FlattenSeq(Append(ss, t)) = FlattenSeq(ss) \o t
<1> DEFINE tt == Append(ss, t)
<1>1. /\ Len(tt) = Len(ss) + 1 /\ Len(ss) \in Nat
      /\ \A i \in 1 .. Len(ss) : ss[i] = tt[i]
      /\ tt[Len(ss) + 1] = t
  BY AppendProperties, LenProperties
<1> HIDE DEF tt
<1>2. CASE ss = <<>>
  <2>1. FlattenSeq(tt) = tt[1] /\ tt[1] = t
    BY <1>1, <1>2, EmptySeq, FlattenSingle
  <2>2. FlattenSeq(ss) = <<>> /\ <<>> \o t = t
    BY <1>2, FlattenEmpty, ConcatEmptySeq
  <2> QED BY <2>1, <2>2 DEF tt
<1>3. CASE ss # <<>>
  <2>1. Len(ss) # 0 BY <1>3, EmptySeq
  <2>2. FlattenSeq(tt) = FlattenSeq(ss) \o tt[Len(ss) + 1]
    BY <1>1, <2>1, FlattenStep
  <2> QED BY <1>1, <2>2 DEF tt
<1> QED BY <1>2, <1>3

LEMMA FlattenType ==
  ASSUME NEW E
  PROVE  \A ss \in Seq(Seq(E)) : FlattenSeq(ss) \in Seq(E)
<1> DEFINE S == {ss \in Seq(Seq(E)) : FlattenSeq(ss) \in Seq(E)}
<1>1. <<>> \in S
  BY FlattenEmpty, EmptySeq
<1>2. \A ss \in Seq(Seq(E)), t \in Seq(E) : ss \in S => Append(ss, t) \in S
  <2> SUFFICES ASSUME NEW ss \in Seq(Seq(E)), NEW t \in Seq(E), FlattenSeq(ss) \in Seq(E)
               PROVE  Append(ss, t) \in Seq(Seq(E)) /\ FlattenSeq(Append(ss, t)) \in Seq(E)
    OBVIOUS
  <2>1. Append(ss, t) \in Seq(Seq(E)) BY AppendProperties
  <2>2. FlattenSeq(ss) \o t \in Seq(E) BY ConcatProperties
  <2> QED BY <2>1, <2>2, FlattenAppend
<1>3. Seq(Seq(E)) \subseteq S
  <2> HIDE DEF S
  <2> QED BY <1>1, <1>2, SequenceInduction
<1> QED BY <1>3

LEMMA FlattenConcat ==
  ASSUME NEW E, NEW ss \in Seq(Seq(E))
  PROVE  \A tt \in Seq(Seq(E)) : FlattenSeq(ss \o tt) = FlattenSeq(ss) \o FlattenSeq(tt)
<1> DEFINE S == {tt \in Seq(Seq(E)) : FlattenSeq(ss \o tt) = FlattenSeq(ss) \o FlattenSeq(tt)}
<1>0. FlattenSeq(ss) \in Seq(E) BY FlattenType
<1>1. <<>> \in S
  <2>1. <<>> \in Seq(Seq(E)) /\ ss \o <<>> = ss BY EmptySeq, ConcatEmptySeq
  <2>2. FlattenSeq(ss) \o <<>> = FlattenSeq(ss) BY <1>0, ConcatEmptySeq
  <2> QED BY <2>1, <2>2, FlattenEmpty
<1>2. \A tt \in Seq(Seq(E)), t \in Seq(E) : tt \in S => Append(tt, t) \in S
  <2> SUFFICES ASSUME NEW tt \in Seq(Seq(E)), NEW t \in Seq(E),
                      FlattenSeq(ss \o tt) = FlattenSeq(ss) \o FlattenSeq(tt)
               PROVE  /\ Append(tt, t) \in Seq(Seq(E))
                      /\ FlattenSeq(ss \o Append(tt, t)) = FlattenSeq(ss) \o FlattenSeq(Append(tt, t))
    OBVIOUS
  <2>1. Append(tt, t) \in Seq(Seq(E)) /\ ss \o tt \in Seq(Seq(E))
    BY AppendProperties, ConcatProperties
  <2>2. ss \o Append(tt, t) = Append(ss \o tt, t)
    <3>1. <<t>> \in Seq(Seq(E)) OBVIOUS
    <3>2. Append(tt, t) = tt \o <<t>> BY AppendIsConcat
    <3>3. Append(ss \o tt, t) = (ss \o tt) \o <<t>> BY <2>1, AppendIsConcat
    <3> QED BY <3>1, <3>2, <3>3, ConcatAssociative
  <2>3. FlattenSeq(tt) \in Seq(E) BY FlattenType
  <2>4. (FlattenSeq(ss) \o FlattenSeq(tt)) \o t = FlattenSeq(ss) \o (FlattenSeq(tt) \o t)
    BY <1>0, <2>3, ConcatAssociative, SMTT(20)
  <2>5. FlattenSeq(Append(ss \o tt, t)) = FlattenSeq(ss \o tt) \o t BY <2>1, FlattenAppend
  <2>6. FlattenSeq(Append(tt, t)) = FlattenSeq(tt) \o t BY FlattenAppend
  <2> QED BY <2>1, <2>2, <2>4, <2>5, <2>6
<1>3. Seq(Seq(E)) \subseteq S
  <2> HIDE DEF S
  <2> QED BY <1>1, <1>2, SequenceInduction
<1> QED BY <1>3

-----------------------------------------------------------------------------
(* Consecutive numbers, and the least and the greatest of a set.            *)

\* n numbers from a on: what a window, or a queue, of bytes looks like.
Run(a, n) == [i \in 1 .. n |-> a + i - 1]

\* A run is the sequence of its numbers.
LEMMA RunIs ==
  ASSUME NEW a \in Nat, NEW n \in Nat
  PROVE  /\ Run(a, n) \in Seq(Nat) /\ Len(Run(a, n)) = n
         /\ \A i \in 1 .. n : Run(a, n)[i] = a + i - 1
BY DEF Run

\* A run goes on where one before it ended.
LEMMA RunGoesOn ==
  ASSUME NEW a \in Nat, NEW m \in Nat, NEW n \in Nat
  PROVE  Run(a, m) \o Run(a + m, n) = Run(a, m + n)
<1> DEFINE s == Run(a, m)
           t == Run(a + m, n)
           u == Run(a, m + n)
<1>1. /\ s \in Seq(Nat) /\ Len(s) = m /\ \A i \in 1 .. m : s[i] = a + i - 1
      /\ t \in Seq(Nat) /\ Len(t) = n /\ \A i \in 1 .. n : t[i] = a + m + i - 1
      /\ u \in Seq(Nat) /\ Len(u) = m + n /\ \A i \in 1 .. m + n : u[i] = a + i - 1
  <2> DEFINE b == a + m
             l == m + n
  <2>1. b \in Nat /\ l \in Nat OBVIOUS
  <2> HIDE DEF b, l
  <2>2. /\ Run(b, n) \in Seq(Nat) /\ Len(Run(b, n)) = n
        /\ \A i \in 1 .. n : Run(b, n)[i] = b + i - 1
        /\ Run(a, l) \in Seq(Nat) /\ Len(Run(a, l)) = l
        /\ \A i \in 1 .. l : Run(a, l)[i] = a + i - 1
    BY <2>1, RunIs
  <2> QED BY <2>2, RunIs DEF b, l
<1> HIDE DEF s, t, u
<1>2. /\ s \o t \in Seq(Nat) /\ Len(s \o t) = m + n
      /\ \A i \in 1 .. m + n : (s \o t)[i] = IF i <= m THEN s[i] ELSE t[i - m]
  BY <1>1, ConcatProperties
<1>3. \A i \in 1 .. m + n : (s \o t)[i] = u[i]
  <2> SUFFICES ASSUME NEW i \in 1 .. m + n PROVE (s \o t)[i] = u[i] OBVIOUS
  <2>1. CASE i <= m BY <1>1, <1>2, <2>1
  <2>2. CASE ~ i <= m
    <3>1. PICK j \in 1 .. n : j = i - m BY <2>2
    <3>2. (s \o t)[i] = t[j] BY <1>2, <2>2, <3>1
    <3>3. t[j] = a + m + j - 1 BY <1>1
    <3>4. u[i] = a + i - 1 BY <1>1
    <3>5. a + m + j - 1 = a + i - 1 BY <3>1
    <3> QED BY <3>2, <3>3, <3>4, <3>5
  <2> QED BY <2>1, <2>2
<1>4. s \o t = u BY <1>1, <1>2, <1>3, SeqEqual
<1> QED BY <1>4 DEF s, t, u

\* A window into a run is a run.
InRun(a, n, k, m) == a \in Nat /\ n \in Nat /\ k \in Nat /\ m \in Nat /\ k + m <= n
LEMMA RunWindow ==
  ASSUME NEW a, NEW n, NEW k, NEW m, InRun(a, n, k, m)
  PROVE  SubSeq(Run(a, n), k + 1, k + m) = Run(a + k, m)
<1> USE DEF InRun
<1> DEFINE s == Run(a, n)
           t == Run(a + k, m)
           u == SubSeq(s, k + 1, k + m)
<1>1. /\ s \in Seq(Nat) /\ Len(s) = n /\ \A i \in 1 .. n : s[i] = a + i - 1
      /\ t \in Seq(Nat) /\ Len(t) = m /\ \A i \in 1 .. m : t[i] = a + k + i - 1
  <2> DEFINE b == a + k
  <2>1. b \in Nat OBVIOUS
  <2> HIDE DEF b
  <2>2. /\ Run(b, m) \in Seq(Nat) /\ Len(Run(b, m)) = m
        /\ \A i \in 1 .. m : Run(b, m)[i] = b + i - 1
    BY <2>1, RunIs
  <2> QED BY <2>2, RunIs DEF b
<1> HIDE DEF s, t
<1>2. \A i \in k + 1 .. k + m : i \in 1 .. n /\ s[i] \in Nat BY <1>1
<1>3. /\ u \in Seq(Nat) /\ Len(u) = m
      /\ \A i \in 1 .. m : u[i] = s[k + 1 + i - 1]
  <2>1. k + 1 \in Int /\ k + m \in Int /\ k + m - (k + 1) + 1 = m OBVIOUS
  <2>2. Len(u) = IF k + 1 <= k + m THEN k + m - (k + 1) + 1 ELSE 0
    BY <1>2, <2>1, SubSeqProperties
  <2>3. \A i \in 1 .. k + m - (k + 1) + 1 : u[i] = s[k + 1 + i - 1]
    BY <1>2, <2>1, SubSeqProperties
  <2>4. u \in Seq(Nat) BY <1>2, <2>1, SubSeqProperties
  <2> QED BY <2>1, <2>2, <2>3, <2>4
<1> HIDE DEF u
<1>4. \A i \in 1 .. m : u[i] = t[i]
  <2> SUFFICES ASSUME NEW i \in 1 .. m PROVE u[i] = t[i] OBVIOUS
  <2>1. k + 1 + i - 1 \in 1 .. n OBVIOUS
  <2> QED BY <1>1, <1>3, <2>1
<1>5. u = t BY <1>1, <1>3, <1>4, SeqEqual
<1> QED BY <1>5 DEF s, t, u

\* What Min and Max choose, when there is something to choose.
LEMMA LeastIs ==
  ASSUME NEW S \in SUBSET Int, NEW m \in S, \A y \in S : m <= y
  PROVE  Min(S) = m
<1>1. Min(S) \in S /\ \A y \in S : Min(S) <= y BY DEF Min
<1>2. Min(S) <= m /\ m <= Min(S) /\ Min(S) \in Int /\ m \in Int BY <1>1
<1> QED BY <1>2

\* The least of two.
LEMMA LesserIs ==
  ASSUME NEW a \in Int, NEW b \in Int
  PROVE  Min({a, b}) = IF a <= b THEN a ELSE b
<1>1. CASE a <= b BY <1>1, LeastIs
<1>2. CASE ~ a <= b BY <1>2, LeastIs
<1> QED BY <1>1, <1>2

\* The greater of two.
LEMMA GreaterIs ==
  ASSUME NEW a \in Int, NEW b \in Int
  PROVE  Max({a, b}) = IF a >= b THEN a ELSE b
BY DEF Max

\* A set of naturals that has a member has a least one.
LEMMA LeastOfNaturals ==
  ASSUME NEW S \in SUBSET Nat, S # {}
  PROVE  Min(S) \in S /\ \A y \in S : Min(S) <= y
<1>1. \E x \in S : \A y \in S : x <= y BY LeastNatural
<1> QED BY <1>1 DEF Min

\* n runs, each beginning at the place where the one before it ended.
Adjoining(ss, p, n) ==
  /\ Len(ss) = n
  /\ \A i \in 1 .. n : p[i] <= p[i + 1] /\ ss[i] = Run(p[i], p[i + 1] - p[i])

\* They make one run.
LEMMA AdjoiningFlatten ==
  \A n \in Nat : n # 0 => \A ss \in Seq(Seq(Nat)), p \in [1 .. n + 1 -> Nat] :
    Adjoining(ss, p, n) =>
      p[1] <= p[n + 1] /\ FlattenSeq(ss) = Run(p[1], p[n + 1] - p[1])
<1> DEFINE Good(n) == \A ss \in Seq(Seq(Nat)), p \in [1 .. n + 1 -> Nat] :
             Adjoining(ss, p, n) =>
               p[1] <= p[n + 1] /\ FlattenSeq(ss) = Run(p[1], p[n + 1] - p[1])
           S == {n \in Nat : n # 0 => Good(n)}
<1>1. 0 \in S OBVIOUS
<1>2. ASSUME NEW n \in Nat, n \in S PROVE n + 1 \in S
  <2>1. ASSUME NEW tt \in Seq(Seq(Nat)), NEW p \in [1 .. n + 1 + 1 -> Nat],
               Adjoining(tt, p, n + 1)
        PROVE  p[1] <= p[n + 1 + 1] /\ FlattenSeq(tt) = Run(p[1], p[n + 1 + 1] - p[1])
    <3>1. /\ Len(tt) = n + 1
          /\ \A i \in 1 .. n + 1 : p[i] <= p[i + 1] /\ tt[i] = Run(p[i], p[i + 1] - p[i])
      BY <2>1 DEF Adjoining
    <3>2. CASE n = 0
      <4>1. 1 \in 1 .. n + 1 /\ n + 1 = 1 /\ n + 1 + 1 = 2 BY <3>2
      <4>2. FlattenSeq(tt) = tt[1] BY <3>1, <4>1, FlattenSingle
      <4> QED BY <3>1, <4>1, <4>2
    <3>3. CASE n # 0
      <4> DEFINE ss == [i \in 1 .. n |-> tt[i]]
                 q == [i \in 1 .. n + 1 |-> p[i]]
      <4>1. ss \in Seq(Seq(Nat)) /\ Len(ss) = n /\ \A i \in 1 .. n : ss[i] = tt[i]
        <5>1. \A i \in 1 .. n : tt[i] \in Seq(Nat) BY <3>1
        <5> QED BY <5>1
      <4>2. q \in [1 .. n + 1 -> Nat] /\ \A i \in 1 .. n + 1 : q[i] = p[i] OBVIOUS
      <4> HIDE DEF ss, q
      <4>3. Adjoining(ss, q, n)
        <5> SUFFICES ASSUME NEW i \in 1 .. n
                     PROVE  q[i] <= q[i + 1] /\ ss[i] = Run(q[i], q[i + 1] - q[i])
          BY <4>1 DEF Adjoining
        <5>1. i \in 1 .. n + 1 /\ i + 1 \in 1 .. n + 1 OBVIOUS
        <5>2. q[i] = p[i] /\ q[i + 1] = p[i + 1] BY <4>2, <5>1
        <5> QED BY <3>1, <4>1, <5>1, <5>2
      <4>4. Good(n) BY <1>2, <3>3
      <4>5. q[1] <= q[n + 1] /\ FlattenSeq(ss) = Run(q[1], q[n + 1] - q[1])
        BY <4>1, <4>2, <4>3, <4>4
      <4>6. FlattenSeq(tt) = FlattenSeq(ss) \o tt[n + 1]
        BY <3>1, <3>3, <4>1, FlattenStep
      <4> DEFINE a == p[1]
                 b == p[n + 1]
                 c == p[n + 1 + 1]
      <4>7. a \in Nat /\ b \in Nat /\ c \in Nat
        <5>1. 1 \in 1 .. n + 1 + 1 /\ n + 1 \in 1 .. n + 1 + 1 /\ n + 1 + 1 \in 1 .. n + 1 + 1
          OBVIOUS
        <5> QED BY <5>1
      <4>8. q[1] = a /\ q[n + 1] = b
        <5>1. 1 \in 1 .. n + 1 /\ n + 1 \in 1 .. n + 1 OBVIOUS
        <5> QED BY <4>2, <5>1
      <4>9. b <= c /\ tt[n + 1] = Run(b, c - b)
        <5>1. n + 1 \in 1 .. n + 1 OBVIOUS
        <5> QED BY <3>1, <5>1
      <4> HIDE DEF a, b, c
      <4> DEFINE d == b - a
                 e == c - b
      <4>10. a <= b /\ FlattenSeq(tt) = Run(a, d) \o Run(b, e) BY <4>5, <4>6, <4>8, <4>9
      <4>11. d \in Nat /\ e \in Nat /\ a + d = b /\ d + e = c - a /\ a <= c BY <4>7, <4>9, <4>10
      <4> HIDE DEF d, e
      <4>12. FlattenSeq(tt) = Run(a, d) \o Run(a + d, e) BY <4>10, <4>11
      <4>13. d \in Nat /\ e \in Nat BY <4>11
      <4>14. Run(a, d) \o Run(a + d, e) = Run(a, d + e) BY <4>7, <4>13, RunGoesOn
      <4> QED BY <4>11, <4>12, <4>14 DEF a, c
    <3> QED BY <3>2, <3>3
  <2>2. Good(n + 1) BY <2>1, Zenon
  <2> HIDE DEF Good
  <2> QED BY <2>2
<1>3. Nat \subseteq S
  <2> HIDE DEF S
  <2> QED BY <1>1, <1>2, SetInduction
<1> QED BY <1>3

-----------------------------------------------------------------------------
(* Sequences in parts.                                                     *)

\* What is behind the first part of two.
LEMMA BehindFirst ==
  ASSUME NEW E, NEW s \in Seq(E), NEW t \in Seq(E)
  PROVE  SubSeq(s \o t, Len(s) + 1, Len(s \o t)) = t
<1>1. Len(s) \in Nat /\ Len(t) \in Nat /\ Len(s \o t) = Len(s) + Len(t)
  BY LenProperties, ConcatProperties
<1>2. CASE Len(t) = 0
  <2>1. t = <<>> BY <1>2, EmptySeq
  <2>2. Len(s) + 1 \in Int /\ Len(s \o t) \in Int /\ Len(s \o t) < Len(s) + 1 BY <1>1, <1>2
  <2> QED BY <2>1, <2>2, SubSeqEmpty
<1>3. CASE Len(t) # 0
  <2>1. Len(s) + 1 \in Len(s) + 1 .. Len(s) + Len(t) /\ Len(s) + Len(t) \in Len(s) + 1 .. Len(s) + Len(t)
    BY <1>1, <1>3
  <2>2. SubSeq(s \o t, Len(s) + 1, Len(s) + Len(t))
          = SubSeq(t, Len(s) + 1 - Len(s), Len(s) + Len(t) - Len(s))
    BY <2>1, SubSeqOfConcat2
  <2>3. Len(s) + 1 - Len(s) = 1 /\ Len(s) + Len(t) - Len(s) = Len(t) BY <1>1
  <2> QED BY <1>1, <2>2, <2>3, SubSeqFull
<1> QED BY <1>2, <1>3

\* The same pieces but for one, which was empty, as all behind it are.
FilledIn(ss, tt, k, n) ==
  /\ Len(ss) = n /\ Len(tt) = n /\ ss[k] = <<>>
  /\ \A i \in 1 .. n : i # k => ss[i] = tt[i]
  /\ \A i \in 1 .. n : k < i => ss[i] = <<>>

\* Filling it adds its bytes at the end.
LEMMA FlattenFilled ==
  ASSUME NEW E
  PROVE  \A n \in Nat : \A ss, tt \in Seq(Seq(E)), k \in 1 .. n :
           FilledIn(ss, tt, k, n) => FlattenSeq(tt) = FlattenSeq(ss) \o tt[k]
<1> DEFINE Good(n) == \A ss, tt \in Seq(Seq(E)), k \in 1 .. n :
             FilledIn(ss, tt, k, n) => FlattenSeq(tt) = FlattenSeq(ss) \o tt[k]
           S == {n \in Nat : Good(n)}
<1>1. 0 \in S OBVIOUS
<1>2. ASSUME NEW n \in Nat, n \in S PROVE n + 1 \in S
  <2>1. ASSUME NEW ss \in Seq(Seq(E)), NEW tt \in Seq(Seq(E)), NEW k \in 1 .. n + 1,
               FilledIn(ss, tt, k, n + 1)
        PROVE  FlattenSeq(tt) = FlattenSeq(ss) \o tt[k]
    <3>1. /\ Len(ss) = n + 1 /\ Len(tt) = n + 1 /\ ss[k] = <<>>
          /\ \A i \in 1 .. n + 1 : i # k => ss[i] = tt[i]
          /\ \A i \in 1 .. n + 1 : k < i => ss[i] = <<>>
      BY <2>1 DEF FilledIn
    <3>2. \A i \in 1 .. n + 1 : ss[i] \in Seq(E) /\ tt[i] \in Seq(E) BY <3>1, ElementOfSeq
    <3>3. CASE n = 0
      <4>1. n + 1 = 1 /\ k = 1 BY <3>3
      <4>2. FlattenSeq(ss) = ss[1] /\ FlattenSeq(tt) = tt[1] BY <3>1, <4>1, FlattenSingle
      <4> QED BY <3>1, <3>2, <4>1, <4>2, ConcatEmptySeq
    <3>4. CASE n # 0
      <4> DEFINE hs == [i \in 1 .. n |-> ss[i]]
                 ht == [i \in 1 .. n |-> tt[i]]
      <4>1. /\ hs \in Seq(Seq(E)) /\ Len(hs) = n /\ \A i \in 1 .. n : hs[i] = ss[i]
            /\ ht \in Seq(Seq(E)) /\ Len(ht) = n /\ \A i \in 1 .. n : ht[i] = tt[i]
        <5>1. \A i \in 1 .. n : ss[i] \in Seq(E) /\ tt[i] \in Seq(E) BY <3>2
        <5> QED BY <5>1
      <4> HIDE DEF hs, ht
      <4>2. FlattenSeq(ss) = FlattenSeq(hs) \o ss[n + 1] BY <3>1, <3>4, <4>1, FlattenStep, ZenonT(40)
      <4>3. FlattenSeq(tt) = FlattenSeq(ht) \o tt[n + 1] BY <3>1, <3>4, <4>1, FlattenStep, ZenonT(40)
      <4>4. FlattenSeq(hs) \in Seq(E) /\ FlattenSeq(ht) \in Seq(E) BY <4>1, FlattenType
      <4>5. CASE k = n + 1
        <5>1. hs = ht
          <6>1. \A i \in 1 .. n : hs[i] = ht[i]
            <7>1. \A i \in 1 .. n : i \in 1 .. n + 1 /\ i # k BY <4>5
            <7> QED BY <3>1, <4>1, <7>1
          <6> QED BY <4>1, <6>1, SeqEqual
        <5>2. FlattenSeq(hs) \o <<>> = FlattenSeq(hs) BY <4>4, ConcatEmptySeq
        <5> QED BY <3>1, <4>2, <4>3, <4>5, <5>1, <5>2
      <4>6. CASE k # n + 1
        <5>1. k \in 1 .. n /\ n + 1 \in 1 .. n + 1 /\ n + 1 # k /\ k < n + 1 BY <4>6
        <5>2. ss[n + 1] = <<>> /\ tt[n + 1] = <<>>
          <6>1. ss[n + 1] = <<>> /\ ss[n + 1] = tt[n + 1] BY <3>1, <5>1
          <6> QED BY <6>1
        <5>3. FilledIn(hs, ht, k, n)
          <6>1. hs[k] = <<>> BY <3>1, <4>1, <5>1
          <6>2. ASSUME NEW i \in 1 .. n
                PROVE  (i # k => hs[i] = ht[i]) /\ (k < i => hs[i] = <<>>)
            <7>1. i \in 1 .. n + 1 OBVIOUS
            <7> QED BY <3>1, <4>1, <7>1
          <6> QED BY <4>1, <6>1, <6>2 DEF FilledIn
        <5>4. FlattenSeq(ht) = FlattenSeq(hs) \o ht[k]
          <6>1. Good(n) BY <1>2
          <6> QED BY <4>1, <5>1, <5>3, <6>1
        <5>5. ht[k] = tt[k] BY <4>1, <5>1
        <5>6. FlattenSeq(hs) \o <<>> = FlattenSeq(hs) /\ FlattenSeq(ht) \o <<>> = FlattenSeq(ht)
          BY <4>4, ConcatEmptySeq
        <5> QED BY <4>2, <4>3, <5>2, <5>4, <5>5, <5>6
      <4> QED BY <4>5, <4>6
    <3> QED BY <3>3, <3>4
  <2>2. Good(n + 1) BY <2>1, Zenon
  <2> HIDE DEF Good
  <2> QED BY <2>2
<1>3. Nat \subseteq S
  <2> HIDE DEF S
  <2> QED BY <1>1, <1>2, SetInduction
<1> QED BY <1>3

\* The same pieces and one more, the last.
OneMore(ss, tt, n, m) ==
  /\ n \in Nat /\ m = n + 1 /\ Len(ss) = n /\ Len(tt) = m
  /\ \A i \in 1 .. n : ss[i] = tt[i]

\* Then the pieces together have the bytes of the last at the end.
LEMMA FlattenOneMore ==
  ASSUME NEW E, NEW ss \in Seq(Seq(E)), NEW tt \in Seq(Seq(E)),
         NEW n, NEW m, OneMore(ss, tt, n, m), tt[m] \in Seq(E)
  PROVE  FlattenSeq(tt) = FlattenSeq(ss) \o tt[m]
<1>0. /\ n \in Nat /\ m = n + 1 /\ Len(ss) = n /\ Len(tt) = m
      /\ \A i \in 1 .. n : ss[i] = tt[i]
  BY DEF OneMore
<1>1. PICK t \in Seq(E) : t = tt[m] OBVIOUS
<1>2. tt = Append(ss, t)
  <2>1. /\ Append(ss, t) \in Seq(Seq(E)) /\ Len(Append(ss, t)) = Len(ss) + 1
        /\ \A i \in 1 .. Len(ss) : Append(ss, t)[i] = ss[i]
        /\ Append(ss, t)[Len(ss) + 1] = t
    BY AppendProperties
  <2>2. \A i \in 1 .. n + 1 : Append(ss, t)[i] = tt[i]
    <3> SUFFICES ASSUME NEW i \in 1 .. n + 1 PROVE Append(ss, t)[i] = tt[i] OBVIOUS
    <3>1. i \in 1 .. n \/ i = n + 1 BY <1>0
    <3> QED BY <1>0, <1>1, <2>1, <3>1
  <2> QED BY <1>0, <2>1, <2>2, SeqEqual
<1> QED BY <1>1, <1>2, FlattenAppend

\* The greatest element of a set of indices.
LEMMA MaxOf ==
  ASSUME NEW n \in Nat, NEW S \in SUBSET (1 .. n), S # {}
  PROVE  Max(S) \in S /\ \A y \in S : y <= Max(S)
<1> DEFINE T == {n - y : y \in S}
<1>1. T \in SUBSET Nat /\ T # {}
  <2>1. \A y \in S : y \in Int /\ y <= n /\ n - y \in Nat OBVIOUS
  <2> QED BY <2>1
<1>2. PICK t \in T : \A u \in T : t <= u
  <2> HIDE DEF T
  <2> QED BY <1>1, LeastNatural
<1>3. PICK x \in S : t = n - x OBVIOUS
<1>4. \A y \in S : x >= y
  <2> TAKE y \in S
  <2>1. n - y \in T /\ x \in Int /\ y \in Int OBVIOUS
  <2> QED BY <1>2, <1>3, <2>1
<1>5. \E x_1 \in S : \A y \in S : x_1 >= y BY <1>4
<1>6. Max(S) \in S /\ \A y \in S : Max(S) >= y
  BY <1>5 DEF Max
<1> QED BY <1>6

\* An interval's greatest element is its end.
LEMMA MaxOfInterval ==
  ASSUME NEW n \in Nat, n # 0
  PROVE  Max(1 .. n) = n
<1>1. 1 .. n \in SUBSET (1 .. n) /\ n \in 1 .. n OBVIOUS
<1>2. Max(1 .. n) \in 1 .. n /\ n <= Max(1 .. n)
  BY <1>1, MaxOf
<1> QED BY <1>2

\* Two sequences that agree on their first n elements.
SameUpTo(s, t, n) == \A i \in 1 .. n : s[i] = t[i]

-----------------------------------------------------------------------------
(* Prefixes, and runs without a mark.                                      *)

\* The same pieces and one more, where none is the empty sequence.
GoesOnBy(ss, tt, n, m) == OneMore(ss, tt, n, m) /\ (n = 0 => ss = <<>>)

\* The pieces together go on by the last, whatever the others were.
LEMMA FlattenGrows ==
  ASSUME NEW n, NEW m, NEW ss, NEW tt, GoesOnBy(ss, tt, n, m), <<>> \o tt[m] = tt[m]
  PROVE  FlattenSeq(tt) = FlattenSeq(ss) \o tt[m]
<1>0. /\ n \in Nat /\ m = n + 1 /\ Len(ss) = n /\ Len(tt) = n + 1 /\ (n = 0 => ss = <<>>)
      /\ \A i \in 1 .. n : ss[i] = tt[i]
  BY DEF GoesOnBy, OneMore
<1>1. CASE n = 0
  <2>1. FlattenSeq(tt) = tt[1] /\ m = 1 BY <1>0, <1>1, FlattenSingle
  <2>2. FlattenSeq(ss) = <<>> BY <1>0, <1>1, FlattenEmpty
  <2> QED BY <2>1, <2>2
<1>2. CASE n # 0 BY <1>0, <1>2, FlattenStep
<1> QED BY <1>1, <1>2

\* A prefix, element by element.
LEMMA PrefixIs ==
  ASSUME NEW E, NEW s \in Seq(E), NEW t \in Seq(E)
  PROVE  IsPrefix(s, t) <=> Len(s) <= Len(t) /\ \A i \in 1 .. Len(s) : s[i] = t[i]
<1> DEFINE n == Len(s)
           u == SubSeq(t, 1, n)
<1>1. n \in Nat /\ Len(t) \in Nat BY LenProperties
<1>2. SubSeq(s, 1, n) = s BY SubSeqFull
<1>3. IsPrefix(s, t) <=> n <= Len(t) /\ s = u BY <1>2 DEF IsPrefix
<1>4. ASSUME n <= Len(t)
      PROVE  u \in Seq(E) /\ Len(u) = n /\ \A i \in 1 .. n : u[i] = t[i]
  <2>1. \A i \in 1 .. n : i \in 1 .. Len(t) BY <1>1, <1>4
  <2>2. \A i \in 1 .. n : t[i] \in E BY <2>1, ElementOfSeq
  <2>3. 1 \in Int /\ n \in Int /\ n - 1 + 1 = n BY <1>1
  <2> HIDE DEF n
  <2>4. /\ SubSeq(t, 1, n) \in Seq(E)
        /\ Len(SubSeq(t, 1, n)) = IF 1 <= n THEN n - 1 + 1 ELSE 0
        /\ \A i \in 1 .. n - 1 + 1 : SubSeq(t, 1, n)[i] = t[1 + i - 1]
    BY <2>2, <2>3, SubSeqProperties
  <2>5. \A i \in 1 .. n : 1 + i - 1 = i BY <1>1
  <2> QED BY <1>1, <2>3, <2>4, <2>5
<1> HIDE DEF u
<1>5. ASSUME n <= Len(t), \A i \in 1 .. n : s[i] = t[i] PROVE s = u
  BY <1>4, <1>5, SeqEqual
<1> QED BY <1>3, <1>4, <1>5

\* What is put behind a sequence leaves its prefixes.
LEMMA PrefixGrows ==
  ASSUME NEW E, NEW s \in Seq(E), NEW t \in Seq(E), NEW u \in Seq(E), IsPrefix(s, t)
  PROVE  IsPrefix(s, t \o u)
<1>1. Len(s) \in Nat /\ Len(t) \in Nat /\ Len(u) \in Nat BY LenProperties
<1>2. Len(s) <= Len(t) /\ \A i \in 1 .. Len(s) : s[i] = t[i] BY PrefixIs
<1>3. /\ t \o u \in Seq(E) /\ Len(t \o u) = Len(t) + Len(u)
      /\ \A i \in 1 .. Len(t) + Len(u) : (t \o u)[i] = IF i <= Len(t) THEN t[i] ELSE u[i - Len(t)]
  BY ConcatProperties
<1>4. \A i \in 1 .. Len(s) : i \in 1 .. Len(t) + Len(u) /\ i <= Len(t) BY <1>1, <1>2
<1>5. \A i \in 1 .. Len(s) : s[i] = (t \o u)[i] BY <1>2, <1>3, <1>4
<1>6. Len(s) <= Len(t \o u) BY <1>1, <1>2, <1>3
<1> QED BY <1>3, <1>5, <1>6, PrefixIs

\* Sequences each of which goes on where the one before ended.
GoesOn(f, E, n) ==
  /\ \A i \in 0 .. n : f[i] \in Seq(E)
  /\ \A i \in 0 .. n : i # n => \E u \in Seq(E) : f[i + 1] = f[i] \o u

\* An earlier one is a prefix of a later one.
LEMMA EarlierIsPrefix ==
  ASSUME NEW E, NEW n \in Nat, NEW f, GoesOn(f, E, n), NEW k \in 0 .. n, NEW m \in k .. n
  PROVE  IsPrefix(f[k], f[m])
<1> DEFINE S == {d \in Nat : k + d <= n => IsPrefix(f[k], f[k + d])}
<1>0. f[k] \in Seq(E) BY DEF GoesOn
<1>1. 0 \in S
  <2>1. IsPrefix(f[k], f[k])
    <3> DEFINE s == f[k]
    <3>1. s \in Seq(E) BY <1>0
    <3> HIDE DEF s
    <3>2. Len(s) <= Len(s) BY <3>1, LenProperties
    <3>3. IsPrefix(s, s) BY <3>1, <3>2, PrefixIs
    <3> QED BY <3>3 DEF s
  <2>2. k + 0 = k OBVIOUS
  <2> QED BY <2>1, <2>2
<1>2. ASSUME NEW d \in Nat, d \in S PROVE d + 1 \in S
  <2> SUFFICES ASSUME k + (d + 1) <= n PROVE IsPrefix(f[k], f[k + (d + 1)])
    OBVIOUS
  <2> DEFINE i == k + d
             s == f[k]
             t == f[i]
  <2>1. i \in 0 .. n /\ i # n /\ k + (d + 1) = i + 1 /\ k + d <= n OBVIOUS
  <2>2. IsPrefix(s, t) BY <1>2, <2>1
  <2>3. t \in Seq(E) /\ s \in Seq(E) BY <1>0, <2>1 DEF GoesOn
  <2> HIDE DEF i
  <2>4. PICK u \in Seq(E) : f[i + 1] = t \o u BY <2>1 DEF GoesOn
  <2> HIDE DEF s, t
  <2>5. IsPrefix(s, t \o u) BY <2>2, <2>3, PrefixGrows
  <2> QED BY <2>1, <2>4, <2>5 DEF s
<1>3. Nat \subseteq S
  <2> HIDE DEF S
  <2> QED BY <1>1, <1>2, SetInduction
<1>4. m - k \in Nat /\ k + (m - k) = m /\ m <= n OBVIOUS
<1> QED BY <1>3, <1>4
-----------------------------------------------------------------------------
(* Folds from the left.  A fold is a function of the sets of indices, each  *)
(* of which it takes the greatest of first; only the intervals from 1 on    *)
(* matter, and on those it goes from one element to the next.               *)

FoldOver(iter, step, base, s) ==
  /\ iter[{}] = base
  /\ \A S \in SUBSET (1 .. Len(s)) : S # {} => iter[S] = step[<<iter[S \ {Max(S)}], s[Max(S)]>>]

\* There is one, within whatever set its steps stay in.
LEMMA FoldsExist ==
  ASSUME NEW A, NEW E, NEW step \in [A \X E -> A], NEW base \in A
  PROVE  \A s \in Seq(E) : \E iter \in [SUBSET (1 .. Len(s)) -> A] : FoldOver(iter, step, base, s)
<1> DEFINE T == {s \in Seq(E) : \E iter \in [SUBSET (1 .. Len(s)) -> A] : FoldOver(iter, step, base, s)}
<1>1. <<>> \in T
  <2> DEFINE iter == [S \in SUBSET (1 .. Len(<<>>)) |-> base]
  <2>1. \A S \in SUBSET (1 .. Len(<<>>)) : S = {} OBVIOUS
  <2>2. iter \in [SUBSET (1 .. Len(<<>>)) -> A] /\ iter[{}] = base OBVIOUS
  <2> HIDE DEF iter
  <2>3. FoldOver(iter, step, base, <<>>) BY <2>1, <2>2 DEF FoldOver
  <2>4. <<>> \in Seq(E) OBVIOUS
  <2> QED BY <2>2, <2>3, <2>4
<1>2. ASSUME NEW s \in Seq(E), NEW e \in E, s \in T PROVE Append(s, e) \in T
  <2> DEFINE n == Len(s)
             t == Append(s, e)
  <2>1. PICK iter \in [SUBSET (1 .. n) -> A] : FoldOver(iter, step, base, s) BY <1>2
  <2>2. n \in Nat /\ t \in Seq(E) /\ Len(t) = n + 1 /\ t[n + 1] = e /\ \A i \in 1 .. n : t[i] = s[i] OBVIOUS
  <2> HIDE DEF n, t
  <2> DEFINE g == [S \in SUBSET (1 .. n + 1) |->
                     IF n + 1 \in S THEN step[<<iter[S \ {n + 1}], e>>] ELSE iter[S]]
  <2>3. \A S \in SUBSET (1 .. n + 1) : n + 1 \notin S => S \in SUBSET (1 .. n)
    <3> TAKE S \in SUBSET (1 .. n + 1)
    <3> HAVE n + 1 \notin S
    <3>1. \A x \in S : x \in 1 .. n + 1 /\ x # n + 1 OBVIOUS
    <3>2. \A x \in S : x \in 1 .. n BY <2>2, <3>1
    <3> QED BY <3>2
  <2>4. \A S \in SUBSET (1 .. n + 1) : S \ {n + 1} \in SUBSET (1 .. n)
    <3> TAKE S \in SUBSET (1 .. n + 1)
    <3>1. S \ {n + 1} \in SUBSET (1 .. n + 1) /\ n + 1 \notin S \ {n + 1} OBVIOUS
    <3> QED BY <2>3, <3>1
  <2>5. g \in [SUBSET (1 .. n + 1) -> A]
    <3> SUFFICES ASSUME NEW S \in SUBSET (1 .. n + 1)
                 PROVE  (IF n + 1 \in S THEN step[<<iter[S \ {n + 1}], e>>] ELSE iter[S]) \in A
      OBVIOUS
    <3>1. iter[S \ {n + 1}] \in A BY <2>1, <2>4
    <3>2. n + 1 \notin S => iter[S] \in A BY <2>1, <2>3
    <3>3. step[<<iter[S \ {n + 1}], e>>] \in A BY <3>1
    <3> QED BY <3>2, <3>3
  <2>6. /\ \A S \in SUBSET (1 .. n + 1) : n + 1 \in S => g[S] = step[<<iter[S \ {n + 1}], e>>]
        /\ \A S \in SUBSET (1 .. n + 1) : n + 1 \notin S => g[S] = iter[S]
        /\ g[{}] = iter[{}]
    BY <2>2
  <2> HIDE DEF g
  <2>7. ASSUME NEW S \in SUBSET (1 .. n + 1), S # {} PROVE g[S] = step[<<g[S \ {Max(S)}], t[Max(S)]>>]
    <3>1. CASE n + 1 \in S
      <4>1. Max(S) = n + 1
        <5> DEFINE m == n + 1
        <5>1. m \in Nat /\ S \in SUBSET (1 .. m) /\ S # {} /\ m \in S BY <2>2, <3>1
        <5> HIDE DEF m
        <5>2. Max(S) \in S /\ m <= Max(S) BY <5>1, MaxOf
        <5>3. Max(S) \in 1 .. n + 1 /\ n + 1 <= Max(S) BY <5>1, <5>2 DEF m
        <5> QED BY <2>2, <5>3
      <4>2. S \ {n + 1} \in SUBSET (1 .. n + 1) /\ n + 1 \notin S \ {n + 1} OBVIOUS
      <4>3. g[S \ {n + 1}] = iter[S \ {n + 1}] BY <2>6, <4>2
      <4> QED BY <2>2, <2>6, <3>1, <4>1, <4>3
    <3>2. CASE n + 1 \notin S
      <4>1. S \in SUBSET (1 .. n) BY <2>3, <3>2
      <4>2. Max(S) \in S BY <2>2, <2>7, <4>1, MaxOf
      <4>3. S \ {Max(S)} \in SUBSET (1 .. n + 1) /\ n + 1 \notin S \ {Max(S)} BY <3>2
      <4>4. g[S \ {Max(S)}] = iter[S \ {Max(S)}] BY <2>6, <4>3
      <4>5. t[Max(S)] = s[Max(S)] BY <2>2, <4>1, <4>2
      <4>6. iter[S] = step[<<iter[S \ {Max(S)}], s[Max(S)]>>] BY <2>1, <2>7, <4>1 DEF FoldOver, n
      <4> QED BY <2>6, <3>2, <4>4, <4>5, <4>6
    <3> QED BY <3>1, <3>2
  <2>8. FoldOver(g, step, base, t) BY <2>1, <2>2, <2>6, <2>7 DEF FoldOver
  <2> QED BY <2>2, <2>5, <2>8 DEF t
<1>3. Seq(E) \subseteq T
  <2> HIDE DEF T
  <2> QED BY <1>1, <1>2, SequenceInduction
<1> QED BY <1>3

\* The intervals from 1 on.
LEMMA FoldOverAt ==
  ASSUME NEW n \in Nat, NEW k \in 1 .. n
  PROVE  /\ 1 .. k \in SUBSET (1 .. n) /\ 1 .. k # {} /\ Max(1 .. k) = k
         /\ (1 .. k) \ {k} = 1 .. (k - 1)
<1>1. k \in Nat /\ k # 0 /\ k \in 1 .. k OBVIOUS
<1>2. Max(1 .. k) = k BY <1>1, MaxOfInterval
<1> QED BY <1>1, <1>2

\* A run along a sequence.
RunsAlong(r, A, step, base, s) ==
  /\ r[0] = base /\ \A k \in 0 .. Len(s) : r[k] \in A
  /\ \A k \in 1 .. Len(s) : r[k] = step[<<r[k - 1], s[k]>>]
RunEnds(A, step, base, s, end) == \E r : RunsAlong(r, A, step, base, s) /\ r[Len(s)] = end

GoesAlong(g, A, step, s) ==
  \A k \in 1 .. Len(s) : g[1 .. k - 1] \in A => g[1 .. k] = step[<<g[1 .. k - 1], s[k]>>]

\* A fold that goes from one element to the next makes a run.
LEMMA FoldRuns ==
  ASSUME NEW A, NEW E, NEW step \in [A \X E -> A], NEW s \in Seq(E), NEW base \in A,
         NEW g, g[{}] = base, GoesAlong(g, A, step, s)
  PROVE  RunEnds(A, step, base, s, g[1 .. Len(s)])
<1> DEFINE n == Len(s)
           S == {k \in Nat : k <= n => g[1 .. k] \in A}
           r == [k \in 0 .. n |-> g[1 .. k]]
<1>1. n \in Nat /\ \A k \in 1 .. n : s[k] \in E OBVIOUS
<1> HIDE DEF n
<1>2. 1 .. 0 = {} OBVIOUS
<1>3. 0 \in S BY <1>2
<1>4. ASSUME NEW k \in Nat, k \in S PROVE k + 1 \in S
  <2> SUFFICES ASSUME k + 1 <= n PROVE g[1 .. k + 1] \in A OBVIOUS
  <2>1. k + 1 \in 1 .. n /\ (k + 1) - 1 = k /\ g[1 .. k] \in A BY <1>1, <1>4
  <2>2. g[1 .. k + 1] = step[<<g[1 .. k], s[k + 1]>>] BY <2>1 DEF n, GoesAlong
  <2> QED BY <1>1, <2>1, <2>2
<1>5. Nat \subseteq S
  <2> HIDE DEF S
  <2> QED BY <1>3, <1>4, SetInduction
<1>6. \A k \in 0 .. n : g[1 .. k] \in A BY <1>1, <1>5
<1>7. r[0] = g[{}] /\ r[n] = g[1 .. n] /\ \A k \in 0 .. n : r[k] = g[1 .. k] BY <1>1, <1>2
<1> HIDE DEF r, S
<1>8. ASSUME NEW k \in 1 .. n PROVE r[k] = step[<<r[k - 1], s[k]>>]
  <2>1. k \in 0 .. n /\ k - 1 \in 0 .. n BY <1>1
  <2>2. g[1 .. k] = step[<<g[1 .. k - 1], s[k]>>] BY <1>6, <2>1 DEF n, GoesAlong
  <2> QED BY <1>7, <2>1, <2>2
<1>9. RunsAlong(r, A, step, base, s) BY <1>6, <1>7, <1>8 DEF RunsAlong, n
<1>10. n \in 0 .. n /\ r[n] = g[1 .. n] BY <1>1, <1>7
<1> QED BY <1>9, <1>10 DEF n, RunEnds

\* Runs along a sequence and along it with an element more are the same until there.
LEMMA RunsGoOn ==
  ASSUME NEW A, NEW E, NEW step \in [A \X E -> A], NEW s \in Seq(E), NEW e \in E, NEW base,
         NEW r, NEW q, RunsAlong(r, A, step, base, s), RunsAlong(q, A, step, base, Append(s, e))
  PROVE  q[Len(s) + 1] = step[<<r[Len(s)], e>>] /\ r[Len(s)] \in A
<1> DEFINE n == Len(s)
           t == Append(s, e)
           S == {k \in Nat : k <= n => r[k] = q[k]}
<1>1. n \in Nat /\ Len(t) = n + 1 /\ t[n + 1] = e /\ \A k \in 1 .. n : t[k] = s[k] OBVIOUS
<1>2. /\ r[0] = base /\ \A k \in 1 .. n : r[k] = step[<<r[k - 1], s[k]>>]
      /\ q[0] = base /\ \A k \in 1 .. n + 1 : q[k] = step[<<q[k - 1], t[k]>>]
      /\ r[n] \in A
  BY <1>1 DEF RunsAlong
<1> HIDE DEF n, t
<1>3. 0 \in S BY <1>2
<1>4. ASSUME NEW k \in Nat, k \in S PROVE k + 1 \in S
  <2> SUFFICES ASSUME k + 1 <= n PROVE r[k + 1] = q[k + 1] OBVIOUS
  <2>1. k + 1 \in 1 .. n /\ k + 1 \in 1 .. n + 1 /\ (k + 1) - 1 = k /\ r[k] = q[k] BY <1>1, <1>4
  <2> HIDE DEF S
  <2> QED BY <1>1, <1>2, <2>1
<1>5. Nat \subseteq S
  <2> HIDE DEF S
  <2> QED BY <1>3, <1>4, SetInduction
<1>6. r[n] = q[n] BY <1>1, <1>5
<1>7. n + 1 \in 1 .. n + 1 /\ (n + 1) - 1 = n BY <1>1
<1> QED BY <1>1, <1>2, <1>6, <1>7 DEF n

\* One element more behind two sequences.
LEMMA ConcatOneMore ==
  ASSUME NEW E, NEW s \in Seq(E), NEW t \in Seq(E), NEW e \in E
  PROVE  s \o Append(t, e) = Append(s \o t, e)
<1> DEFINE m == Len(s)
           n == Len(t)
           u == Append(t, e)
           left == s \o u
           v == s \o t
           right == Append(v, e)
<1>1. /\ m \in Nat /\ n \in Nat /\ u \in Seq(E) /\ Len(u) = n + 1 /\ u[n + 1] = e
      /\ \A j \in 1 .. n : u[j] = t[j]
  OBVIOUS
<1> HIDE DEF u
<1>2. left \in Seq(E) /\ Len(left) = m + Len(u) /\ v \in Seq(E) /\ Len(v) = m + n BY <1>1, ConcatProperties
<1>3. /\ \A i \in 1 .. m + Len(u) : left[i] = IF i <= m THEN s[i] ELSE u[i - m]
      /\ \A i \in 1 .. m + n : v[i] = IF i <= m THEN s[i] ELSE t[i - m]
  BY <1>1, ConcatProperties
<1> HIDE DEF left, v
<1> HIDE DEF m, n
<1>4. /\ right \in Seq(E) /\ Len(right) = m + n + 1 /\ right[m + n + 1] = e
      /\ \A i \in 1 .. m + n : right[i] = v[i]
  BY <1>2
<1> HIDE DEF right
<1>5. \A i \in 1 .. m + n + 1 : left[i] = right[i]
  <2> TAKE i \in 1 .. m + n + 1
  <2>1. i \in Int /\ i \in 1 .. m + Len(u) BY <1>1
  <2>2. CASE i = m + n + 1
    <3>1. ~ i <= m /\ i - m = n + 1 BY <1>1, <2>2
    <3> QED BY <1>1, <1>3, <1>4, <2>1, <2>2, <3>1
  <2>3. CASE i # m + n + 1
    <3>1. i \in 1 .. m + n /\ (~ i <= m => i - m \in 1 .. n) BY <1>1, <2>3
    <3> QED BY <1>1, <1>3, <1>4, <2>1, <3>1
  <2> QED BY <2>2, <2>3
<1>6. Len(left) = Len(right) /\ Len(left) = m + n + 1 BY <1>1, <1>2, <1>4
<1>7. left = right BY <1>2, <1>4, <1>5, <1>6, SeqEqual
<1> QED BY <1>7 DEF left, right, u, v
=============================================================================
