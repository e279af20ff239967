---------------------------- MODULE NumberLemmas ----------------------------
(***************************************************************************)
(* What the proofs need to know of Min() and Max(), of natural numbers and   *)
(* of sequences.  The first lemma rests on the well-foundedness of the       *)
(* subset ordering on the intervals 1..n; it gives induction in the form of  *)
(* statements about a set of numbers.                                       *)
(***************************************************************************)
EXTENDS SeqFilter, SequencesExt, SequenceTheorems, FiniteSetTheorems, WellFoundedInduction, TLAPS
LOCAL INSTANCE Integers

\* Min() of numbers is the least of them: their intervals 1..n have a least one.
LEMMA MinOfNumbers ==
    ASSUME NEW S \in SUBSET Nat, S # {}
    PROVE  Min(S) \in S /\ \A y \in S : Min(S) <= y
  <1> DEFINE T == {1..n : n \in S}
  <1>1. T \subseteq FiniteSubsetsOf(Nat) /\ T # {}
    <2>1. \A n \in S : IsFiniteSet(1..n) /\ 1..n \in SUBSET Nat
      BY FS_Interval
    <2> QED BY <2>1 DEF FiniteSubsetsOf
  <1>2. PICK t \in T : \A u \in T : ~(<<u, t>> \in StrictSubsetOrdering(Nat))
    <2> HIDE DEF T
    <2> QED BY <1>1, FS_StrictSubsetOrderingWellFounded, WFMin
  <1>3. PICK x \in S : t = 1..x
    BY <1>2
  <1>4. ASSUME NEW y \in S, y < x PROVE FALSE
    <2>1. 1..y \in T /\ 1..y \subseteq 1..x /\ x \in 1..x /\ x \notin 1..y
      BY <1>4
    <2>2. <<1..y, t>> \in StrictSubsetOrdering(Nat)
      BY <1>1, <1>3, <2>1 DEF StrictSubsetOrdering
    <2> QED BY <1>2, <2>1, <2>2
  <1>5. \E z \in S : \A y \in S : z <= y
    BY <1>4
  <1> QED BY <1>5 DEF Min

LEMMA MaxOfNumbers ==
    ASSUME NEW N \in Nat, NEW S \in SUBSET (0..N), S # {}
    PROVE  Max(S) \in S /\ \A y \in S : y <= Max(S)
  <1> DEFINE T == {N - x : x \in S}
             m == Min(T)
  <1>1. T \in SUBSET Nat /\ T # {}
    OBVIOUS
  <1>2. m \in T /\ \A y \in T : m <= y
    <2> HIDE DEF T
    <2> QED BY <1>1, MinOfNumbers
  <1> HIDE DEF m
  <1>3. PICK x \in S : m = N - x
    BY <1>2
  <1>4. ASSUME NEW y \in S PROVE x >= y
    <2>1. N - y \in T /\ m <= N - y
      BY <1>2
    <2> QED BY <1>3, <2>1
  <1>5. \E z \in S : \A y \in S : z >= y
    BY <1>4
  <1>6. Max(S) \in S /\ \A y \in S : Max(S) >= y
    BY <1>5 DEF Max
  <1> QED BY <1>6

\* Induction: the set of the numbers that have a property.
LEMMA AllNumbers ==
    ASSUME NEW S, 0 \in S, \A n \in Nat : n \in S => n + 1 \in S
    PROVE  Nat \subseteq S
  <1> DEFINE T == Nat \ S
             m == Min(T)
  <1> SUFFICES ASSUME T # {} PROVE FALSE
    OBVIOUS
  <1>1. m \in T /\ \A y \in T : m <= y
    <2>1. T \in SUBSET Nat
      OBVIOUS
    <2> HIDE DEF T
    <2> QED BY <2>1, MinOfNumbers
  <1> HIDE DEF m
  <1>2. m # 0 /\ m \in Nat
    BY <1>1
  <1>3. m - 1 \in Nat /\ m - 1 \notin T
    BY <1>1, <1>2
  <1>4. (m - 1) + 1 = m
    BY <1>2
  <1> QED BY <1>1, <1>3, <1>4

LEMMA PrefixOf ==
    ASSUME NEW S, NEW s \in Seq(S), NEW t \in Seq(S), Len(s) <= Len(t),
           \A i \in 1..Len(s) : s[i] = t[i]
    PROVE  IsPrefix(s, t)
  <1>1. Len(s) \in Nat /\ Len(t) \in Nat
    BY LenProperties
  <1>2. \A i \in 1..Len(s) : s[i] \in S /\ t[i] \in S
    BY <1>1, ElementOfSeq
  <1>3. /\ SubSeq(s, 1, Len(s)) \in Seq(S) /\ Len(SubSeq(s, 1, Len(s))) = Len(s)
        /\ \A i \in 1..Len(s) : SubSeq(s, 1, Len(s))[i] = s[i]
    BY <1>1, <1>2, SubSeqProperties
  <1>4. /\ SubSeq(t, 1, Len(s)) \in Seq(S) /\ Len(SubSeq(t, 1, Len(s))) = Len(s)
        /\ \A i \in 1..Len(s) : SubSeq(t, 1, Len(s))[i] = t[i]
    BY <1>1, <1>2, SubSeqProperties
  <1> DEFINE a == SubSeq(s, 1, Len(s))
             b == SubSeq(t, 1, Len(s))
  <1> HIDE DEF a, b
  <1>5. a \in Seq(S) /\ b \in Seq(S) /\ Len(a) = Len(b) /\ \A i \in 1..Len(a) : a[i] = b[i]
    BY <1>3, <1>4 DEF a, b
  <1>6. a = b
    BY ONLY <1>5, SeqEqual
  <1> QED BY <1>6 DEF IsPrefix, a, b

\* A property of g[0] that each g[n] takes over from the one before, as the set of
\* the values that have it.
LEMMA StaysIn ==
    ASSUME NEW S, NEW N \in Nat, NEW g, g[0] \in S,
           \A n \in 1..N : g[n - 1] \in S => g[n] \in S
    PROVE  \A n \in 0..N : g[n] \in S
  <1> DEFINE T == {n \in Nat : n <= N => g[n] \in S}
  <1>1. 0 \in T
    OBVIOUS
  <1>2. ASSUME NEW n \in Nat, n \in T PROVE n + 1 \in T
    <2>1. CASE n + 1 <= N
      <3>1. n + 1 \in 1..N /\ (n + 1) - 1 = n /\ g[n] \in S
        BY <1>2, <2>1
      <3>2. g[n + 1] \in S
        BY <3>1
      <3> QED BY <3>2
    <2>2. CASE ~(n + 1 <= N)
      BY <2>2
    <2> QED BY <2>1, <2>2
  <1>3. Nat \subseteq T
    <2> HIDE DEF T
    <2> QED BY <1>1, <1>2, AllNumbers
  <1> QED BY <1>3

Iterates(f, N, base, step) == f[0] = base /\ \A n \in 1..N : f[n] = step[<<n, f[n - 1]>>]

\* A recursive function exists, given its step on a set of values.
LEMMA IterationExists ==
    ASSUME NEW S, NEW N \in Nat, NEW base \in S, NEW step \in [(1..N) \X S -> S]
    PROVE  \E f \in [0..N -> S] : Iterates(f, N, base, step)
  <1> DEFINE Upto(f, m) == f[0] = base /\ \A n \in 1..m : f[n] = step[<<n, f[n - 1]>>]
             T == {m \in Nat : m <= N => \E f \in [0..N -> S] : Upto(f, m)}
  <1>1. 0 \in T
    <2>1. [n \in 0..N |-> base] \in [0..N -> S] /\ Upto([n \in 0..N |-> base], 0)
      OBVIOUS
    <2> QED BY <2>1
  <1>2. ASSUME NEW m \in Nat, m \in T PROVE m + 1 \in T
    <2> SUFFICES ASSUME m + 1 <= N PROVE \E f \in [0..N -> S] : Upto(f, m + 1)
      OBVIOUS
    <2>1. PICK f \in [0..N -> S] : Upto(f, m)
      BY <1>2
    <2> DEFINE v == step[<<m + 1, f[m]>>]
               g == [f EXCEPT ![m + 1] = v]
    <2>2. m \in 0..N /\ m + 1 \in 1..N /\ f[m] \in S
      BY <2>1
    <2>3. v \in S
      BY <2>2
    <2>4. g \in [0..N -> S] /\ g[m + 1] = v /\ \A n \in 0..m : g[n] = f[n]
      <3> HIDE DEF v
      <3> QED BY <2>2, <2>3
    <2>5. g[0] = base
      BY <2>1, <2>4
    <2>6. ASSUME NEW n \in 1..(m + 1) PROVE g[n] = step[<<n, g[n - 1]>>]
      <3>1. CASE n = m + 1
        <4>1. n - 1 = m /\ g[m] = f[m]
          BY <3>1, <2>4
        <4> QED BY <4>1, <3>1, <2>4
      <3>2. CASE n # m + 1
        <4>1. n \in 1..m /\ n \in 0..m /\ n - 1 \in 0..m
          BY <3>2
        <4>2. g[n] = f[n] /\ g[n - 1] = f[n - 1]
          BY <4>1, <2>4
        <4> QED BY <4>1, <4>2, <2>1
      <3> QED BY <3>1, <3>2
    <2> QED BY <2>4, <2>5, <2>6
  <1>3. Nat \subseteq T
    <2> HIDE DEF T
    <2> QED BY <1>1, <1>2, AllNumbers
  <1>4. N \in T
    BY <1>3
  <1> QED BY <1>4 DEF Iterates

\* Kept() as the last of a row of sequences.
KeepsUpTo(g, s, T) ==
    /\ Kept(s, T) = g[Len(s)]
    /\ g[0] = <<>>
    /\ \A n \in 1..Len(s) : g[n] = IF s[n] \in T THEN Append(g[n - 1], s[n]) ELSE g[n - 1]

LEMMA KeptUnfolds ==
    ASSUME NEW A, NEW s \in Seq(A), NEW T
    PROVE  \E g \in [0..Len(s) -> Seq(A \cap T)] : KeepsUpTo(g, s, T)
  <1> DEFINE N == Len(s)
             S == Seq(A \cap T)
             Next(n, x) == IF s[n] \in T THEN Append(x, s[n]) ELSE x
             step == [p \in (1..N) \X S |-> Next(p[1], p[2])]
             Body(n, x) == CASE n = 0 -> <<>>
                             [] n > 0 /\ s[n] \in T -> Append(x, s[n])
                             [] OTHER -> x
             kept == CHOOSE g : g = [n \in 0..N |-> Body(n, g[n - 1])]
  <1>1. N \in Nat /\ <<>> \in S /\ \A n \in 1..N : s[n] \in A
    BY LenProperties, ElementOfSeq, EmptySeq
  <1>2. \A n \in 1..N, x \in S : Next(n, x) \in S
    <2> TAKE n \in 1..N, x \in S
    <2>1. CASE s[n] \in T
      BY <1>1, <2>1, AppendProperties
    <2> QED BY <2>1
  <1>3. step \in [(1..N) \X S -> S] /\ \A n \in 1..N, x \in S : step[<<n, x>>] = Next(n, x)
    <2> HIDE DEF Next, S, N
    <2> QED BY <1>2
  <1>4. PICK f \in [0..N -> S] : f[0] = <<>> /\ \A n \in 1..N : f[n] = step[<<n, f[n - 1]>>]
    <2>1. N \in Nat /\ <<>> \in S /\ step \in [(1..N) \X S -> S]
      BY <1>1, <1>3
    <2> HIDE DEF step, S, N
    <2>2. \E f \in [0..N -> S] : Iterates(f, N, <<>>, step)
      BY <2>1, IterationExists
    <2> QED BY <2>2 DEF Iterates
  <1>5. \A n \in 1..N : f[n - 1] \in S /\ f[n] = Next(n, f[n - 1])
    <2> TAKE n \in 1..N
    <2>1. n - 1 \in 0..N
      BY <1>1
    <2>2. f[n - 1] \in S
      BY <2>1, <1>4
    <2> QED BY <2>2, <1>3, <1>4
  <1>6. \A n \in 0..N : f[n] = Body(n, f[n - 1])
    <2> TAKE n \in 0..N
    <2>1. CASE n = 0
      BY <2>1, <1>4
    <2>2. CASE n # 0
      <3>1. n \in 1..N /\ n > 0
        BY <2>2, <1>1
      <3> QED BY <2>2, <3>1, <1>5
    <2> QED BY <2>1, <2>2
  <1>7. f = [n \in 0..N |-> Body(n, f[n - 1])]
    <2> HIDE DEF Body, S, N
    <2> QED BY <1>4, <1>6
  <1>8. kept = [n \in 0..N |-> Body(n, kept[n - 1])]
    <2> HIDE DEF Body, N
    <2> QED BY <1>7
  <1>9. Kept(s, T) = kept[N]
    BY DEF Kept
  <1> HIDE DEF kept, step
  <1>10. kept[0] = <<>> /\ \A n \in 1..N : kept[n] = Next(n, kept[n - 1])
    <2>1. kept[0] = <<>>
      BY <1>8, <1>1
    <2>2. ASSUME NEW n \in 1..N PROVE kept[n] = Next(n, kept[n - 1])
      <3>1. n \in 0..N /\ n # 0 /\ n > 0
        BY <1>1
      <3>2. kept[n] = Body(n, kept[n - 1])
        <4> HIDE DEF Body
        <4> QED BY <1>8, <3>1
      <3> QED BY <3>1, <3>2
    <2> QED BY <2>1, <2>2
  <1>11. \A n \in 0..N : kept[n] \in S
    <2>1. kept[0] \in S /\ \A n \in 1..N : kept[n - 1] \in S => kept[n] \in S
      <3> HIDE DEF Next, S, N
      <3> QED BY <1>1, <1>2, <1>10
    <2> HIDE DEF Next, S, N
    <2> QED BY <2>1, <1>1, StaysIn
  <1>12. kept \in [0..N -> S]
    <2> HIDE DEF Body, S, N
    <2> QED BY <1>8, <1>11
  <1> QED BY <1>9, <1>10, <1>12 DEF KeepsUpTo

LEMMA KeptType ==
    ASSUME NEW A, NEW s \in Seq(A), NEW T
    PROVE  Kept(s, T) \in Seq(A \cap T) /\ Len(Kept(s, T)) <= Len(s)
  <1> DEFINE N == Len(s)
             S == Seq(A \cap T)
  <1>0. N \in Nat
    BY LenProperties
  <1>1. PICK g \in [0..N -> S] :
              /\ Kept(s, T) = g[N]
              /\ g[0] = <<>>
              /\ \A n \in 1..N : g[n] = IF s[n] \in T THEN Append(g[n - 1], s[n]) ELSE g[n - 1]
    <2>1. \E g \in [0..N -> S] : KeepsUpTo(g, s, T)
      BY KeptUnfolds
    <2> QED BY <2>1 DEF KeepsUpTo
  <1> DEFINE Short == {n \in Nat : n <= N => Len(g[n]) <= n}
  <1>2. 0 \in Short
    BY <1>1, EmptySeq
  <1>3. ASSUME NEW n \in Nat, n \in Short PROVE n + 1 \in Short
    <2> SUFFICES ASSUME n + 1 <= N PROVE Len(g[n + 1]) <= n + 1
      OBVIOUS
    <2>1. n \in 0..N /\ n + 1 \in 1..N /\ (n + 1) - 1 = n /\ Len(g[n]) <= n
      BY <1>3, <1>0
    <2>2. g[n] \in S /\ Len(g[n]) \in Nat
      <3> HIDE DEF N
      <3>1. g[n] \in S
        BY <2>1
      <3> QED BY <3>1, LenProperties
    <2>3. CASE s[n + 1] \in T
      <3>1. g[n + 1] = Append(g[n], s[n + 1])
        BY <1>1, <2>1, <2>3
      <3>2. s[n + 1] \in A \cap T
        BY <2>1, <2>3, ElementOfSeq
      <3>3. Len(g[n + 1]) = Len(g[n]) + 1
        BY <3>1, <3>2, <2>2, AppendProperties
      <3> QED BY <3>3, <2>1, <2>2
    <2>4. CASE s[n + 1] \notin T
      <3>1. g[n + 1] = g[n]
        BY <1>1, <2>1, <2>4
      <3> QED BY <3>1, <2>1, <2>2
    <2> QED BY <2>3, <2>4
  <1>4. Nat \subseteq Short
    <2> HIDE DEF Short
    <2> QED BY <1>2, <1>3, AllNumbers
  <1>5. N \in Short /\ N \in 0..N
    BY <1>4, <1>0
  <1>6. g[N] \in S /\ Len(g[N]) <= N
    BY <1>5
  <1> QED BY <1>1, <1>6

LEMMA NumbersUpTo ==
    ASSUME NEW N \in Nat, NEW T, 0 \in T, \A n \in Nat : n < N /\ n \in T => n + 1 \in T
    PROVE  \A n \in 0..N : n \in T
  <1> DEFINE S == {n \in Nat : n <= N => n \in T}
  <1>1. 0 \in S /\ \A n \in Nat : n \in S => n + 1 \in S
    OBVIOUS
  <1>2. Nat \subseteq S
    <2> HIDE DEF S
    <2> QED BY <1>1, AllNumbers
  <1> QED BY <1>2

LEMMA ConcatAppend ==
    ASSUME NEW A, NEW s \in Seq(A), NEW t \in Seq(A), NEW e \in A
    PROVE  s \o Append(t, e) = Append(s \o t, e) /\ s \o <<>> = s /\ <<>> \o s = s
  <1> DEFINE a == s \o Append(t, e)
             b == Append(s \o t, e)
  <1>1. s \o t \in Seq(A) /\ Append(t, e) \in Seq(A)
    BY ConcatProperties, AppendProperties
  <1>2. a \in Seq(A) /\ b \in Seq(A) /\ Len(a) = Len(b)
    BY <1>1, ConcatProperties, AppendProperties, LenProperties
  <1>3. ASSUME NEW i \in 1..Len(a) PROVE a[i] = b[i]
    <2> DEFINE m == Len(s)
               n == Len(t)
    <2>1. /\ m \in Nat /\ n \in Nat /\ Len(s \o t) = m + n /\ Len(Append(t, e)) = n + 1
          /\ Append(t, e)[n + 1] = e /\ \A j \in 1..n : Append(t, e)[j] = t[j]
          /\ \A j \in 1..m : (s \o t)[j] = s[j] /\ a[j] = s[j]
          /\ \A j \in 1..n : (s \o t)[m + j] = t[j]
          /\ \A j \in 1..n + 1 : a[m + j] = Append(t, e)[j]
          /\ Len(a) = m + n + 1 /\ b[m + n + 1] = e
          /\ \A j \in 1..m + n : b[j] = (s \o t)[j]
      BY <1>1, ConcatProperties, AppendProperties, LenProperties
    <2> HIDE DEF a, b, m, n
    <2>2. CASE i \in 1..m
      BY <2>1, <2>2
    <2>3. CASE i = m + n + 1
      BY <2>1, <2>3
    <2>4. CASE i > m /\ i <= m + n
      <3>1. PICK j \in 1..n : i = m + j /\ j \in 1..n + 1 /\ i \in 1..m + n
        <4>1. i - m \in 1..n /\ i - m \in 1..n + 1 /\ i = m + (i - m) /\ i \in 1..m + n
          BY <1>2, <2>1, <2>4
        <4> QED BY <4>1
      <3>2. a[m + j] = t[j] /\ b[m + j] = t[j]
        BY <2>1, <3>1
      <3> QED BY <3>1, <3>2
    <2> QED BY <2>1, <2>2, <2>3, <2>4
  <1>4. a = b
    <2> HIDE DEF a, b
    <2> QED BY <1>2, <1>3, SeqEqual
  <1>5. s \o <<>> = s /\ <<>> \o s = s
    BY ConcatEmptySeq
  <1> QED BY <1>4, <1>5

\* filter() of two arrays one after the other.
LEMMA KeptConcat ==
    ASSUME NEW A, NEW s \in Seq(A), NEW t \in Seq(A), NEW T
    PROVE  Kept(s \o t, T) = Kept(s, T) \o Kept(t, T)
  <1> DEFINE m == Len(s)
             n == Len(t)
             u == s \o t
             S == Seq(A \cap T)
  <1>1. /\ m \in Nat /\ n \in Nat /\ u \in Seq(A) /\ Len(u) = m + n
        /\ \A i \in 1..m : u[i] = s[i] /\ s[i] \in A
        /\ \A i \in 1..n : u[m + i] = t[i] /\ t[i] \in A
    BY ConcatProperties, LenProperties, ElementOfSeq
  <1>2. PICK g \in [0..Len(s) -> S] : KeepsUpTo(g, s, T)
    BY KeptUnfolds
  <1>3. PICK h \in [0..Len(t) -> S] : KeepsUpTo(h, t, T)
    BY KeptUnfolds
  <1>4. PICK f \in [0..Len(u) -> S] : KeepsUpTo(f, u, T)
    BY <1>1, KeptUnfolds
  <1> HIDE DEF u
  <1> DEFINE P == {k \in Nat : k <= m => f[k] = g[k]}
             Joined(k) == f[m + k] = g[m] \o h[k]
             Q == {k \in Nat : k <= n => Joined(k)}
  <1>5. 0 \in P
    BY <1>2, <1>4 DEF KeepsUpTo
  <1>6. ASSUME NEW k \in Nat, k < m, k \in P PROVE k + 1 \in P
    <2>1. k + 1 \in 1..m /\ k + 1 \in 1..Len(u) /\ (k + 1) - 1 = k /\ f[k] = g[k] /\ u[k + 1] = s[k + 1]
      BY <1>1, <1>6
    <2>2. f[k + 1] = g[k + 1]
      BY <1>2, <1>4, <2>1 DEF KeepsUpTo
    <2> QED BY <2>2
  <1>7. m \in P
    <2> HIDE DEF P
    <2>1. \A k \in 0..m : k \in P
      BY <1>1, <1>5, <1>6, NumbersUpTo
    <2> QED BY <1>1, <2>1
  <1>8. f[m] = g[m] /\ g[m] \in S /\ m \in 0..Len(s)
    <2>1. m \in 0..Len(s) /\ f[m] = g[m]
      BY <1>1, <1>7
    <2> HIDE DEF S, m
    <2> QED BY <1>2, <2>1
  <1>9. 0 \in Q
    <2>1. h[0] = <<>> /\ g[m] \o <<>> = g[m]
      BY <1>3, <1>8, ConcatEmptySeq DEF KeepsUpTo
    <2> QED BY <1>1, <1>8, <2>1
  <1>10. ASSUME NEW k \in Nat, k < n, k \in Q PROVE k + 1 \in Q
    <2>1. /\ k + 1 \in 1..n /\ m + k + 1 \in 1..Len(u) /\ (k + 1) - 1 = k /\ (m + k + 1) - 1 = m + k
          /\ f[m + k] = g[m] \o h[k] /\ u[m + (k + 1)] = t[k + 1] /\ m + (k + 1) = m + k + 1
          /\ k \in 0..Len(t)
      BY <1>1, <1>10
    <2>2. h[k] \in S
      BY <1>3, <2>1
    <2>3. CASE t[k + 1] \in T
      <3>1. h[k + 1] = Append(h[k], t[k + 1]) /\ f[m + k + 1] = Append(f[m + k], t[k + 1])
        BY <1>3, <1>4, <2>1, <2>3, ZenonT(60) DEF KeepsUpTo
      <3>2. t[k + 1] \in A \cap T
        BY <1>1, <2>1, <2>3
      <3>3. g[m] \o Append(h[k], t[k + 1]) = Append(g[m] \o h[k], t[k + 1])
        <4> DEFINE x == g[m]
                   y == h[k]
                   e == t[k + 1]
                   B == A \cap T
        <4>1. x \in Seq(B) /\ y \in Seq(B) /\ e \in B
          BY <1>8, <2>2, <3>2
        <4> HIDE DEF x, y, e, B
        <4>2. x \o Append(y, e) = Append(x \o y, e)
          BY ONLY <4>1, ConcatAppend
        <4> QED BY <4>2 DEF x, y, e
      <3>4. Joined(k + 1)
        BY <2>1, <3>1, <3>3
      <3> HIDE DEF Joined
      <3> QED BY <3>4
    <2>4. CASE t[k + 1] \notin T
      <3>1. h[k + 1] = h[k] /\ f[m + k + 1] = f[m + k]
        BY <1>3, <1>4, <2>1, <2>4 DEF KeepsUpTo
      <3>2. Joined(k + 1)
        BY <2>1, <3>1
      <3> HIDE DEF Joined
      <3> QED BY <3>2
    <2> QED BY <2>3, <2>4
  <1>11. n \in Q
    <2> HIDE DEF Q
    <2>1. \A k \in 0..n : k \in Q
      BY <1>1, <1>9, <1>10, NumbersUpTo
    <2> QED BY <1>1, <2>1
  <1>12. f[m + n] = g[m] \o h[n]
    BY <1>1, <1>11
  <1>13. Kept(u, T) = f[m + n] /\ Kept(s, T) = g[m] /\ Kept(t, T) = h[n]
    BY <1>1, <1>2, <1>3, <1>4 DEF KeepsUpTo
  <1> QED BY <1>12, <1>13 DEF u

\* Two tests that agree on the elements.
LEMMA KeptSame ==
    ASSUME NEW A, NEW s \in Seq(A), NEW T, NEW U, \A i \in 1..Len(s) : s[i] \in T <=> s[i] \in U
    PROVE  Kept(s, T) = Kept(s, U)
  <1> DEFINE n == Len(s)
  <1>1. n \in Nat
    BY LenProperties
  <1>2. PICK g : KeepsUpTo(g, s, T)
    BY KeptUnfolds
  <1>3. PICK h : KeepsUpTo(h, s, U)
    BY KeptUnfolds
  <1> DEFINE P == {k \in Nat : k <= n => g[k] = h[k]}
  <1>4. 0 \in P
    BY <1>2, <1>3 DEF KeepsUpTo
  <1>5. ASSUME NEW k \in Nat, k < n, k \in P PROVE k + 1 \in P
    <2>1. k + 1 \in 1..n /\ (k + 1) - 1 = k /\ g[k] = h[k]
      BY <1>1, <1>5
    <2>2. g[k + 1] = h[k + 1]
      BY <1>2, <1>3, <2>1 DEF KeepsUpTo
    <2> QED BY <2>2
  <1>6. n \in P
    <2> HIDE DEF P
    <2>1. \A k \in 0..n : k \in P
      BY <1>1, <1>4, <1>5, NumbersUpTo
    <2> QED BY <1>1, <2>1
  <1> QED BY <1>1, <1>2, <1>3, <1>6 DEF KeepsUpTo

\* No element passes the test, or one.
LEMMA KeptNone ==
    ASSUME NEW A, NEW s \in Seq(A), NEW T, \A i \in 1..Len(s) : s[i] \notin T
    PROVE  Kept(s, T) = <<>>
  <1> DEFINE R == {s[i] : i \in 1..Len(s)}
  <1>1. s \in Seq(R)
    BY LenProperties, SeqDef
  <1>2. R \cap T = {}
    OBVIOUS
  <1> HIDE DEF R
  <1>3. Kept(s, T) \in Seq({})
    BY <1>1, <1>2, KeptType
  <1> QED BY <1>3, EmptySeq, LenProperties, ElementOfSeq

LEMMA KeptOne ==
    ASSUME NEW A, NEW s \in Seq(A), NEW T, NEW k \in 1..Len(s), s[k] \in T,
           \A i \in 1..Len(s) : i # k => s[i] \notin T
    PROVE  Kept(s, T) = <<s[k]>>
  <1> DEFINE n == Len(s)
  <1>1. n \in Nat /\ k \in Nat /\ k <= n
    BY LenProperties
  <1>2. PICK g : KeepsUpTo(g, s, T)
    BY KeptUnfolds
  <1> DEFINE Row(i) == IF i < k THEN <<>> ELSE <<s[k]>>
             P == {i \in Nat : i <= n => g[i] = Row(i)}
  <1>3. 0 \in P
    BY <1>1, <1>2 DEF KeepsUpTo
  <1>4. ASSUME NEW i \in Nat, i < n, i \in P PROVE i + 1 \in P
    <2>1. i + 1 \in 1..n /\ (i + 1) - 1 = i /\ g[i] = Row(i)
      BY <1>1, <1>4
    <2>2. CASE i + 1 = k
      <3>1. g[i] = <<>> /\ Row(i + 1) = <<s[k]>>
        BY <1>1, <2>1, <2>2
      <3>2. g[i + 1] = Append(<<>>, s[k])
        BY <1>2, <2>1, <2>2, <3>1 DEF KeepsUpTo
      <3> QED BY <3>1, <3>2
    <2>3. CASE i + 1 # k
      <3>1. g[i + 1] = g[i] /\ Row(i + 1) = Row(i)
        BY <1>1, <1>2, <2>1, <2>3 DEF KeepsUpTo
      <3> QED BY <2>1, <3>1
    <2> QED BY <2>2, <2>3
  <1>5. n \in P
    <2> HIDE DEF P
    <2>1. \A i \in 0..n : i \in P
      BY <1>1, <1>3, <1>4, NumbersUpTo
    <2> QED BY <1>1, <2>1
  <1> QED BY <1>1, <1>2, <1>5 DEF KeepsUpTo

\* One element more.
LEMMA KeptAppend ==
    ASSUME NEW A, NEW s \in Seq(A), NEW e \in A, NEW T
    PROVE  Kept(Append(s, e), T) = IF e \in T THEN Append(Kept(s, T), e) ELSE Kept(s, T)
  <1> DEFINE one == <<e>>
             k == Kept(s, T)
             B == A \cap T
  <1>1. one \in Seq(A) /\ Len(one) = 1 /\ one[1] = e
    OBVIOUS
  <1>2. Append(s, e) = s \o one
    BY AppendIsConcat
  <1>3. k \in Seq(B)
    BY KeptType
  <1> HIDE DEF one
  <1>4. Kept(Append(s, e), T) = k \o Kept(one, T)
    BY <1>1, <1>2, KeptConcat
  <1>5. CASE e \in T
    <2>1. \A i \in 1..Len(one) : i # 1 => one[i] \notin T
      BY <1>1
    <2>2. 1 \in 1..Len(one) /\ one[1] \in T
      BY <1>1, <1>5
    <2>3. Kept(one, T) = <<one[1]>>
      BY <1>1, <2>1, <2>2, KeptOne
    <2>4. e \in B
      BY <1>5
    <2> HIDE DEF k, B
    <2>5. Append(k, e) = k \o <<e>>
      BY <1>3, <2>4, AppendIsConcat
    <2> QED BY <1>1, <1>4, <1>5, <2>3, <2>5 DEF k
  <1>6. CASE e \notin T
    <2>1. \A i \in 1..Len(one) : one[i] \notin T
      BY <1>1, <1>6
    <2>2. Kept(one, T) = <<>>
      BY <1>1, <2>1, KeptNone
    <2> HIDE DEF k, B
    <2>3. k \o <<>> = k
      BY <1>3, ConcatEmptySeq
    <2> QED BY <1>4, <1>6, <2>2, <2>3 DEF k
  <1> QED BY <1>5, <1>6

\* The elements of x are those of the first n of s that T has, once each.
Picks(x, s, n, T) ==
    /\ \A p, q \in 1..Len(x) : x[p] = x[q] => p = q
    /\ \A p \in 1..Len(x) : \E q \in 1..n : s[q] = x[p]
    /\ \A q \in 1..n : s[q] \in T => \E p \in 1..Len(x) : x[p] = s[q]

LEMMA KeptPicks ==
    ASSUME NEW A, NEW s \in Seq(A), NEW T, \A p, q \in 1..Len(s) : s[p] = s[q] => p = q
    PROVE  Picks(Kept(s, T), s, Len(s), T)
  <1> DEFINE N == Len(s)
             B == A \cap T
  <1>1. N \in Nat /\ \A i \in 1..N : s[i] \in A
    BY LenProperties, ElementOfSeq
  <1>2. PICK g \in [0..Len(s) -> Seq(B)] : KeepsUpTo(g, s, T)
    BY KeptUnfolds
  <1> DEFINE P == {k \in Nat : k <= N => Picks(g[k], s, k, T)}
  <1>3. 0 \in P
    BY <1>2, EmptySeq DEF KeepsUpTo, Picks
  <1>4. ASSUME NEW k \in Nat, k < N, k \in P PROVE k + 1 \in P
    <2> DEFINE x == g[k]
               y == g[k + 1]
    <2>1. /\ k + 1 \in 1..N /\ (k + 1) - 1 = k /\ k \in 0..Len(s) /\ Picks(x, s, k, T)
      BY <1>1, <1>4
    <2>2. x \in Seq(B)
      BY <1>2, <2>1
    <2>3. y = IF s[k + 1] \in T THEN Append(x, s[k + 1]) ELSE x
      BY <1>2, <2>1 DEF KeepsUpTo
    <2>4. Len(x) \in Nat
      BY <2>2, LenProperties
    <2> HIDE DEF x, y
    <2>5. CASE s[k + 1] \notin T
      <3>1. y = x
        BY <2>3, <2>5
      <3>2. \A q \in 1..k + 1 : q \in 1..k \/ q = k + 1
        OBVIOUS
      <3>3. \A q \in 1..k : q \in 1..k + 1
        OBVIOUS
      <3>4. \A p, q \in 1..Len(x) : x[p] = x[q] => p = q
        BY <2>1 DEF Picks
      <3>5. \A p \in 1..Len(x) : \E q \in 1..k + 1 : s[q] = x[p]
        BY <2>1, <3>3 DEF Picks
      <3>6. ASSUME NEW q \in 1..k + 1, s[q] \in T PROVE \E p \in 1..Len(x) : x[p] = s[q]
        <4>1. q \in 1..k
          BY <2>5, <3>2, <3>6
        <4> QED BY <2>1, <3>6, <4>1 DEF Picks
      <3>7. Picks(y, s, k + 1, T)
        BY <3>1, <3>4, <3>5, <3>6 DEF Picks
      <3> QED BY <3>7 DEF y
    <2>6. CASE s[k + 1] \in T
      <3>1. s[k + 1] \in B
        BY <1>1, <2>1, <2>6
      <3> DEFINE e == s[k + 1]
      <3>2. y = Append(x, e)
        BY <2>3, <2>6
      <3> HIDE DEF e
      <3>3. e \in B
        BY <3>1 DEF e
      <3>4. /\ Len(y) = Len(x) + 1 /\ y[Len(x) + 1] = e
            /\ \A p \in 1..Len(x) : y[p] = x[p]
        BY <2>2, <3>2, <3>3, AppendProperties
      <3>5. \A p \in 1..Len(y) : p \in 1..Len(x) \/ p = Len(x) + 1
        BY <2>4, <3>4
      <3>6. \A p \in 1..Len(x) : y[p] # e /\ p \in 1..Len(y)
        <4> TAKE p \in 1..Len(x)
        <4>1. PICK q \in 1..k : s[q] = x[p]
          BY <2>1 DEF Picks
        <4>2. q \in 1..N /\ q # k + 1
          BY <1>1, <1>4, <4>1
        <4>3. s[q] # e
          BY <2>1, <4>2 DEF e
        <4>4. p \in 1..Len(y)
          BY <2>4, <3>4
        <4> QED BY <3>4, <4>1, <4>3, <4>4
      <3>7. \A p, q \in 1..Len(y) : y[p] = y[q] => p = q
        <4> TAKE p, q \in 1..Len(y)
        <4>1. CASE p \in 1..Len(x) /\ q \in 1..Len(x)
          BY <2>1, <3>4, <4>1 DEF Picks
        <4>2. CASE ~(p \in 1..Len(x) /\ q \in 1..Len(x))
          BY <3>4, <3>5, <3>6, <4>2
        <4> QED BY <4>1, <4>2
      <3>8. \A p \in 1..Len(y) : \E q \in 1..k + 1 : s[q] = y[p]
        <4> TAKE p \in 1..Len(y)
        <4>1. CASE p \in 1..Len(x)
          <5>1. PICK q \in 1..k : s[q] = x[p]
            BY <2>1, <4>1 DEF Picks
          <5>2. q \in 1..k + 1
            OBVIOUS
          <5> QED BY <3>4, <4>1, <5>1, <5>2
        <4>2. CASE p = Len(x) + 1
          <5>1. k + 1 \in 1..k + 1
            OBVIOUS
          <5> QED BY <3>4, <4>2, <5>1 DEF e
        <4> QED BY <3>5, <4>1, <4>2
      <3>9. \A q \in 1..k + 1 : s[q] \in T => \E p \in 1..Len(y) : y[p] = s[q]
        <4> SUFFICES ASSUME NEW q \in 1..k + 1, s[q] \in T PROVE \E p \in 1..Len(y) : y[p] = s[q]
          OBVIOUS
        <4>1. CASE q \in 1..k
          <5>1. PICK p \in 1..Len(x) : x[p] = s[q]
            BY <2>1, <4>1 DEF Picks
          <5> QED BY <3>4, <3>6, <5>1
        <4>2. CASE q = k + 1
          <5>1. Len(x) + 1 \in 1..Len(y)
            BY <2>4, <3>4
          <5> QED BY <3>4, <4>2, <5>1 DEF e
        <4> QED BY <4>1, <4>2
      <3>10. Picks(y, s, k + 1, T)
        BY <3>7, <3>8, <3>9 DEF Picks
      <3> QED BY <3>10 DEF y
    <2> QED BY <2>5, <2>6
  <1>5. N \in P
    <2> HIDE DEF P
    <2>1. \A k \in 0..N : k \in P
      BY <1>1, <1>3, <1>4, NumbersUpTo
    <2> QED BY <1>1, <2>1
  <1> QED BY <1>1, <1>2, <1>5 DEF KeepsUpTo

\* Where the elements that are kept come from: pos grows, and leaves none out.
Selects(pos, x, s, n, T) ==
    /\ pos \in [1..Len(x) -> 1..n]
    /\ \A i \in 1..Len(x) : x[i] = s[pos[i]] /\ x[i] \in T
    /\ \A i, j \in 1..Len(x) : i < j => pos[i] < pos[j]
    /\ \A q \in 1..n : s[q] \in T => \E i \in 1..Len(x) : pos[i] = q

LEMMA KeptSelects ==
    ASSUME NEW A, NEW s \in Seq(A), NEW T
    PROVE  \E pos : Selects(pos, Kept(s, T), s, Len(s), T)
  <1> DEFINE N == Len(s)
             B == A \cap T
  <1>1. N \in Nat /\ \A i \in 1..N : s[i] \in A
    BY LenProperties, ElementOfSeq
  <1>2. PICK g \in [0..Len(s) -> Seq(B)] : KeepsUpTo(g, s, T)
    BY KeptUnfolds
  <1> DEFINE P == {k \in Nat : k <= N => \E pos : Selects(pos, g[k], s, k, T)}
  <1>3. 0 \in P
    <2>1. g[0] = <<>> /\ Len(<<>>) = 0
      BY <1>2, EmptySeq DEF KeepsUpTo
    <2>2. Selects([i \in 1..0 |-> 0], <<>>, s, 0, T)
      BY <2>1 DEF Selects
    <2> QED BY <2>1, <2>2
  <1>4. ASSUME NEW k \in Nat, k < N, k \in P PROVE k + 1 \in P
    <2> DEFINE x == g[k]
               y == g[k + 1]
    <2>1. k + 1 \in 1..N /\ (k + 1) - 1 = k /\ k \in 0..Len(s) /\ k + 1 \in 1..(k + 1)
          /\ \A q \in 1..k : q \in 1..(k + 1) /\ q < k + 1
      BY <1>1, <1>4
    <2>2. PICK pos : Selects(pos, x, s, k, T)
      BY <1>4
    <2>3. x \in Seq(B) /\ y = IF s[k + 1] \in T THEN Append(x, s[k + 1]) ELSE x
      BY <1>2, <2>1 DEF KeepsUpTo
    <2>4. Len(x) \in Nat
      BY <2>3, LenProperties
    <2>5. \A q \in 1..(k + 1) : q \in 1..k \/ q = k + 1
      OBVIOUS
    <2> HIDE DEF x, y
    <2>6. CASE s[k + 1] \notin T
      <3>1. y = x
        BY <2>3, <2>6
      <3>2. pos \in [1..Len(x) -> 1..(k + 1)]
        BY <2>1, <2>2 DEF Selects
      <3>3. \A q \in 1..(k + 1) : s[q] \in T => \E i \in 1..Len(x) : pos[i] = q
        BY <2>2, <2>5, <2>6 DEF Selects
      <3>4. Selects(pos, y, s, k + 1, T)
        BY <2>2, <3>1, <3>2, <3>3 DEF Selects
      <3> QED BY <3>4 DEF y
    <2>7. CASE s[k + 1] \in T
      <3> DEFINE e == s[k + 1]
                 n == Len(x)
                 new == [i \in 1..(n + 1) |-> IF i = n + 1 THEN k + 1 ELSE pos[i]]
      <3>1. e \in B /\ y = Append(x, e)
        BY <1>1, <2>1, <2>3, <2>7
      <3>2. Len(y) = n + 1 /\ y[n + 1] = e /\ \A i \in 1..n : y[i] = x[i]
        BY <2>3, <3>1, AppendProperties
      <3>3. /\ n + 1 \in 1..(n + 1)
            /\ \A i \in 1..n : i \in 1..(n + 1) /\ i # n + 1
            /\ \A i \in 1..(n + 1) : i \in 1..n \/ i = n + 1
            /\ \A i, j \in 1..(n + 1) : i < j => i \in 1..n
        BY <2>4
      <3> HIDE DEF n
      <3>4. new[n + 1] = k + 1 /\ \A i \in 1..n : new[i] = pos[i] /\ pos[i] \in 1..k
        BY <2>2, <3>3 DEF Selects, n
      <3>5. new \in [1..(n + 1) -> 1..(k + 1)]
        BY <2>1, <3>3, <3>4
      <3> HIDE DEF new, e
      <3>6. \A i \in 1..(n + 1) : y[i] = s[new[i]] /\ y[i] \in T
        BY <2>2, <2>7, <3>2, <3>3, <3>4 DEF Selects, n, e
      <3>7. \A i, j \in 1..(n + 1) : i < j => new[i] < new[j]
        <4> SUFFICES ASSUME NEW i \in 1..(n + 1), NEW j \in 1..(n + 1), i < j PROVE new[i] < new[j]
          OBVIOUS
        <4>1. i \in 1..n /\ new[i] = pos[i] /\ pos[i] < k + 1
          BY <2>1, <3>3, <3>4
        <4>2. CASE j = n + 1
          BY <3>4, <4>1, <4>2
        <4>3. CASE j \in 1..n
          BY <2>2, <3>4, <4>1, <4>3 DEF Selects, n
        <4> QED BY <3>3, <4>2, <4>3
      <3>8. \A q \in 1..(k + 1) : s[q] \in T => \E i \in 1..(n + 1) : new[i] = q
        <4> SUFFICES ASSUME NEW q \in 1..(k + 1), s[q] \in T PROVE \E i \in 1..(n + 1) : new[i] = q
          OBVIOUS
        <4>1. CASE q = k + 1
          BY <3>3, <3>4, <4>1
        <4>2. CASE q \in 1..k
          <5>1. PICK i \in 1..n : pos[i] = q
            BY <2>2, <4>2 DEF Selects, n
          <5> QED BY <3>3, <3>4, <5>1
        <4> QED BY <2>5, <4>1, <4>2
      <3>9. Selects(new, y, s, k + 1, T)
        BY <3>2, <3>5, <3>6, <3>7, <3>8 DEF Selects
      <3> QED BY <3>9 DEF y
    <2> QED BY <2>6, <2>7
  <1>5. N \in P
    <2> HIDE DEF P
    <2>1. \A k \in 0..N : k \in P
      BY <1>1, <1>3, <1>4, NumbersUpTo
    <2> QED BY <1>1, <2>1
  <1> QED BY <1>1, <1>2, <1>5 DEF KeepsUpTo

=============================================================================
