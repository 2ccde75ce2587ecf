-------------------------- MODULE HostSessionProofs --------------------------
(***************************************************************************)
(* Theorems about HostSession, for any prompts, events, calls of           *)
(* switchAgent and deaths of the backend.                                  *)
(*                                                                         *)
(* The invariant IInv says where every prompt is (Input), how the flags    *)
(* of a turn, a switch, a wake-up and the backend agree (Plain), in which  *)
(* order the calls of switchAgent stand (Connection), and what each call   *)
(* under way may find (Fits) beside every other (Besides).  A step that    *)
(* only changes flags keeps the calls because it is Calm: whatever fits    *)
(* before it fits after it.  A step of a call moves that call alone.       *)
(***************************************************************************)
EXTENDS HostSession, FiniteSetTheorems, SequenceTheorems, WellFoundedInduction, TLAPS

-----------------------------------------------------------------------------
(* Induction, over sets of natural numbers. *)

\* Every set of natural numbers that is not empty has a least element.
LEMMA LeastNumber ==
  ASSUME NEW T, T \subseteq Nat, T # {}
  PROVE  \E x \in T : \A y \in T : x <= y
<1>1. PICK x \in T : \A y \in T : ~ (<<y, x>> \in OpToRel(<, Nat))  BY NatLessThanWellFounded, WFMin
<1>2. ASSUME NEW y \in T PROVE x <= y
  <2>1. ~ (<<y, x>> \in OpToRel(<, Nat))  BY <1>1
  <2>2. ~(y < x)  BY <2>1 DEF OpToRel
  <2>3. x \in Nat /\ y \in Nat  OBVIOUS
  <2> QED BY <2>2, <2>3
<1> QED BY <1>2

\* A set with 0 and the successor of each of its numbers holds all of them.
LEMMA SetInduction ==
  ASSUME NEW S, 0 \in S, \A n \in Nat : n \in S => n + 1 \in S
  PROVE  \A n \in Nat : n \in S
<1> SUFFICES ASSUME Nat \ S # {} PROVE FALSE  OBVIOUS
<1>1. PICK x \in Nat \ S : \A y \in Nat \ S : x <= y  BY LeastNumber
<1>2. x # 0 /\ x - 1 \in Nat /\ x - 1 \in S  BY <1>1
<1> QED BY <1>1, <1>2

-----------------------------------------------------------------------------
(* Texts of a queue: FlattenSeq, which is defined by recursion. *)

\* f holds the texts up to each place of s.
Joined(s, f) == f = [i \in 1 .. Len(s) |-> IF i = 1 THEN s[i] ELSE f[i - 1] \o s[i]]

LEMMA JoinedAt ==
  ASSUME NEW S, NEW s \in Seq(S), NEW f, Joined(s, f), NEW i \in 1 .. Len(s)
  PROVE  f[i] = IF i = 1 THEN s[i] ELSE f[i - 1] \o s[i]
BY DEF Joined

\* There is such a function for every sequence.
LEMMA JoinedExist ==
  ASSUME NEW S, NEW s \in Seq(S)
  PROVE  \E f : Joined(s, f)
<1> DEFINE Upto(n, f) == f = [i \in 1 .. n |-> IF i = 1 THEN s[i] ELSE f[i - 1] \o s[i]]
           N == {n \in Nat : \E f : Upto(n, f)}
<1>1. 0 \in N
  <2>1. Upto(0, [i \in 1 .. 0 |-> i])  OBVIOUS
  <2> QED BY <2>1
<1>2. ASSUME NEW n \in Nat, n \in N PROVE n + 1 \in N
  <2>1. PICK f : Upto(n, f)  BY <1>2
  <2> DEFINE g == [i \in 1 .. n + 1 |-> IF i \in 1 .. n THEN f[i] ELSE IF i = 1 THEN s[i] ELSE f[i - 1] \o s[i]]
  <2>2. ASSUME NEW i \in 1 .. n + 1 PROVE g[i] = IF i = 1 THEN s[i] ELSE g[i - 1] \o s[i]
    <3>1. CASE i = 1
      <4>1. i \in 1 .. n => f[i] = s[i]  BY <2>1, <3>1
      <4> QED BY <3>1, <4>1
    <3>2. CASE i # 1
      <4>1. i - 1 \in 1 .. n /\ g[i - 1] = f[i - 1]  BY <3>2
      <4>2. i \in 1 .. n => f[i] = f[i - 1] \o s[i]  BY <2>1, <3>2
      <4> QED BY <3>2, <4>1, <4>2
    <3> QED BY <3>1, <3>2
  <2>3. g = [i \in 1 .. n + 1 |-> g[i]]  OBVIOUS
  <2> HIDE DEF g
  <2>4. Upto(n + 1, g)
    <3>1. [i \in 1 .. n + 1 |-> g[i]] = [i \in 1 .. n + 1 |-> IF i = 1 THEN s[i] ELSE g[i - 1] \o s[i]]
      BY <2>2
    <3> QED BY <2>3, <3>1
  <2> HIDE DEF Upto
  <2>5. n + 1 \in Nat /\ \E h : Upto(n + 1, h)  BY <2>4
  <2> QED BY <2>5
<1> HIDE DEF N
<1>3. Len(s) \in N  BY <1>1, <1>2, SetInduction, LenProperties
<1> QED BY <1>3 DEF N, Joined

LEMMA FlattenIs ==
  ASSUME NEW S, NEW s \in Seq(S), s # <<>>
  PROVE  \E f : Joined(s, f) /\ FlattenSeq(s) = f[Len(s)]
<1> DEFINE F == CHOOSE f : Joined(s, f)
<1>1. Joined(s, F)  BY JoinedExist
<1>2. Len(s) # 0  BY EmptySeq, LenProperties
<1>3. FlattenSeq(s) = F[Len(s)]  BY <1>2 DEF FlattenSeq, Joined
<1> QED BY <1>1, <1>3

\* Sequences that agree so far have the same texts so far.
LEMMA JoinedAgree ==
  ASSUME NEW S, NEW s \in Seq(S), NEW t \in Seq(S), NEW f, NEW g, Joined(s, f), Joined(t, g),
         NEW m \in Nat, m <= Len(s), m <= Len(t), \A i \in 1 .. m : s[i] = t[i]
  PROVE  \A i \in 1 .. m : f[i] = g[i]
<1> DEFINE N == {n \in Nat : n \in 1 .. m => f[n] = g[n]}
<1>1. 0 \in N  OBVIOUS
<1>2. ASSUME NEW n \in Nat, n \in N PROVE n + 1 \in N
  <2>1. n + 1 \in Nat  OBVIOUS
  <2>2. ASSUME n + 1 \in 1 .. m PROVE f[n + 1] = g[n + 1]
    <3>1. n + 1 \in 1 .. Len(s) /\ n + 1 \in 1 .. Len(t) /\ s[n + 1] = t[n + 1]  BY <2>2, LenProperties
    <3>2. f[n + 1] = IF n + 1 = 1 THEN s[n + 1] ELSE f[n + 1 - 1] \o s[n + 1]  BY <3>1, JoinedAt
    <3>3. g[n + 1] = IF n + 1 = 1 THEN t[n + 1] ELSE g[n + 1 - 1] \o t[n + 1]  BY <3>1, JoinedAt
    <3>4. n + 1 # 1 => n + 1 - 1 = n /\ f[n] = g[n]  BY <1>2, <2>2
    <3> QED BY <3>1, <3>2, <3>3, <3>4
  <2> QED BY <2>1, <2>2
<1> HIDE DEF N
<1>3. \A n \in Nat : n \in N  BY <1>1, <1>2, SetInduction
<1>4. \A i \in 1 .. m : i \in Nat  OBVIOUS
<1> QED BY <1>3, <1>4 DEF N

Agreeing(S, s, t, f, g, m) ==
    /\ s \in Seq(S) /\ t \in Seq(S) /\ Joined(s, f) /\ Joined(t, g)
    /\ m \in Nat /\ m <= Len(s) /\ m <= Len(t) /\ \A i \in 1 .. m : s[i] = t[i]
LEMMA AgreeingJoined ==
  \A S, s, t, f, g, m : Agreeing(S, s, t, f, g, m) => \A i \in 1 .. m : f[i] = g[i]
BY JoinedAgree DEF Agreeing

\* A set with the empty sequence and what one more element makes of each of its
\* sequences holds all of them.
LEMMA AppendInduction ==
  ASSUME NEW S, NEW T, <<>> \in T,
         \A s \in Seq(S) : \A e \in S : s \in T => Append(s, e) \in T
  PROVE  \A s \in Seq(S) : s \in T
<1> DEFINE N == {n \in Nat : \A s \in Seq(S) : Len(s) = n => s \in T}
<1>1. 0 \in N  BY EmptySeq
<1>2. ASSUME NEW n \in Nat, n \in N PROVE n + 1 \in N
  <2>1. n + 1 \in Nat  OBVIOUS
  <2>2. ASSUME NEW s \in Seq(S), Len(s) = n + 1 PROVE s \in T
    <3>1. s # <<>>  BY <2>2, EmptySeq
    <3>2. PICK r \in Seq(S), e \in S : s = Append(r, e)  BY <3>1, SequenceEmptyOrAppend
    <3>3. Len(s) = Len(r) + 1 /\ Len(r) \in Nat  BY <3>2, AppendProperties, LenProperties
    <3>4. Len(r) = n  BY <2>2, <3>3
    <3>5. r \in T  BY <1>2, <3>2, <3>4
    <3> QED BY <3>2, <3>5
  <2> QED BY <2>1, <2>2
<1> HIDE DEF N
<1>3. \A n \in Nat : n \in N  BY <1>1, <1>2, SetInduction
<1> QED BY <1>3, LenProperties DEF N

Associative(P) == \A s, t, u \in Seq(P) : (s \o t) \o u = s \o (t \o u)
LEMMA ConcatAssociates == ASSUME NEW P PROVE Associative(P)
BY ConcatAssociative DEF Associative

LEMMA FlattenEmpty == FlattenSeq(<<>>) = <<>>
BY EmptySeq DEF FlattenSeq

LEMMA FlattenOne ==
  ASSUME NEW P, NEW t \in Seq(P)
  PROVE  FlattenSeq(Append(<<>>, t)) = t
<1> DEFINE s == Append(<<>>, t)
<1>1. s \in Seq(Seq(P)) /\ Len(s) = 1 /\ s[1] = t
  <2>1. <<>> \in Seq(Seq(P)) /\ Len(<<>>) = 0  BY EmptySeq
  <2> QED BY <2>1, AppendProperties
<1>2. s # <<>>  BY <1>1, EmptySeq
<1> HIDE DEF s
<1>3. PICK f : Joined(s, f) /\ FlattenSeq(s) = f[Len(s)]  BY <1>1, <1>2, FlattenIs
<1>4. f[1] = s[1]  BY <1>1, <1>3 DEF Joined
<1> QED BY <1>1, <1>3, <1>4 DEF s

LEMMA FlattenMore ==
  ASSUME NEW P, NEW s \in Seq(Seq(P)), s # <<>>, NEW t \in Seq(P)
  PROVE  FlattenSeq(Append(s, t)) = FlattenSeq(s) \o t
<1> DEFINE r == Append(s, t)
<1>1. /\ r \in Seq(Seq(P)) /\ Len(r) = Len(s) + 1 /\ r[Len(s) + 1] = t
      /\ \A i \in 1 .. Len(s) : r[i] = s[i]
  BY AppendProperties
<1>2. Len(s) \in Nat /\ Len(s) # 0  BY EmptySeq, LenProperties
<1>3. r # <<>>  BY <1>1, <1>2, EmptySeq
<1> HIDE DEF r
<1>4. PICK g : Joined(r, g) /\ FlattenSeq(r) = g[Len(r)]  BY <1>1, <1>3, FlattenIs
<1>5. PICK f : Joined(s, f) /\ FlattenSeq(s) = f[Len(s)]  BY FlattenIs
<1>6. PICK n \in Nat : n = Len(s)  BY <1>2
<1>7. g[n + 1] = g[n] \o r[n + 1]
  <2>1. \A i \in 1 .. Len(r) : g[i] = IF i = 1 THEN r[i] ELSE g[i - 1] \o r[i]
    BY <1>1, <1>4, JoinedAt
  <2>2. PICK m : m = n + 1  OBVIOUS
  <2>3. m \in 1 .. Len(r) /\ m # 1 /\ m - 1 = n  BY <1>1, <1>2, <1>6, <2>2
  <2>4. g[m] = g[m - 1] \o r[m]  BY <2>1, <2>3
  <2> QED BY <2>2, <2>3, <2>4
<1>8. g[n] = f[n]
  <2>1. n <= Len(r) /\ n <= Len(s) /\ n \in 1 .. n  BY <1>1, <1>2, <1>6
  <2>2. \A i \in 1 .. n : r[i] = s[i]  BY <1>1, <1>6
  <2>3. \A i \in 1 .. n : g[i] = f[i]
    <3>1. Joined(r, g) /\ Joined(s, f) /\ r \in Seq(Seq(P))  BY <1>1, <1>4, <1>5
    <3>2. Agreeing(Seq(P), r, s, g, f, n)  BY <1>6, <2>1, <2>2, <3>1 DEF Agreeing
    <3> QED BY <3>2, AgreeingJoined
  <2> QED BY <2>1, <2>3
<1> QED BY <1>1, <1>4, <1>5, <1>6, <1>7, <1>8 DEF r

\* One more entry: its text follows the others.
LEMMA FlattenAppend ==
  ASSUME NEW P, NEW s \in Seq(Seq(P)), NEW t \in Seq(P), FlattenSeq(s) \in Seq(P)
  PROVE  FlattenSeq(Append(s, t)) = FlattenSeq(s) \o t
<1>1. CASE s = <<>>  BY <1>1, FlattenEmpty, FlattenOne, ConcatEmptySeq
<1>2. CASE s # <<>>  BY <1>2, FlattenMore
<1> QED BY <1>1, <1>2

LEMMA FlattenTyped ==
  ASSUME NEW P, NEW s \in Seq(Seq(P))
  PROVE  FlattenSeq(s) \in Seq(P)
<1> DEFINE T == {r \in Seq(Seq(P)) : FlattenSeq(r) \in Seq(P)}
<1>1. <<>> \in T  BY EmptySeq, FlattenEmpty
<1>2. ASSUME NEW r \in Seq(Seq(P)), NEW t \in Seq(P), r \in T PROVE Append(r, t) \in T
  <2>1. FlattenSeq(Append(r, t)) = FlattenSeq(r) \o t  BY <1>2, FlattenAppend
  <2>2. FlattenSeq(r) \o t \in Seq(P)  BY <1>2, ConcatProperties
  <2> QED BY <2>1, <2>2, AppendProperties
<1> HIDE DEF T
<1>3. s \in T  BY <1>1, <1>2, AppendInduction
<1> QED BY <1>3 DEF T

\* One entry less, the first.
LEMMA FlattenHead ==
  ASSUME NEW P, NEW s \in Seq(Seq(P)), s # <<>>
  PROVE  FlattenSeq(s) = Head(s) \o FlattenSeq(Tail(s))
<1> DEFINE T == {r \in Seq(Seq(P)) : r # <<>> => FlattenSeq(r) = Head(r) \o FlattenSeq(Tail(r))}
<1>1. <<>> \in T  BY EmptySeq
<1>2. ASSUME NEW r \in Seq(Seq(P)), NEW t \in Seq(P), r \in T PROVE Append(r, t) \in T
  <2>1. Append(r, t) \in Seq(Seq(P)) /\ FlattenSeq(Append(r, t)) = FlattenSeq(r) \o t /\ FlattenSeq(r) \in Seq(P)
    BY FlattenTyped, FlattenAppend, AppendProperties
  <2>2. CASE r = <<>>
    <3>1. Head(Append(r, t)) = t /\ Tail(Append(r, t)) = <<>>  BY <2>2, HeadTailAppend
    <3>2. FlattenSeq(Append(r, t)) = t /\ t \o <<>> = t  BY <2>2, FlattenOne, ConcatEmptySeq
    <3> QED BY <2>1, <3>1, <3>2, FlattenEmpty
  <2>3. CASE r # <<>>
    <3>1. Head(Append(r, t)) = Head(r) /\ Tail(Append(r, t)) = Append(Tail(r), t)  BY <2>3, HeadTailAppend
    <3>2. Head(r) \in Seq(P) /\ Tail(r) \in Seq(Seq(P))  BY <2>3, HeadTailProperties
    <3>3. FlattenSeq(Tail(r)) \in Seq(P)  BY <3>2, FlattenTyped
    <3>4. FlattenSeq(Append(Tail(r), t)) = FlattenSeq(Tail(r)) \o t  BY <3>2, <3>3, FlattenAppend
    <3>5. FlattenSeq(r) = Head(r) \o FlattenSeq(Tail(r))  BY <1>2, <2>3
    <3>6. PICK h \in Seq(P), w \in Seq(P) : h = Head(r) /\ w = FlattenSeq(Tail(r))  BY <3>2, <3>3
    <3>7. h \in Seq(P) /\ w \in Seq(P) /\ t \in Seq(P)  BY <1>2, <3>6
    <3>8. (h \o w) \o t = h \o (w \o t)
      <4>1. Associative(P)  BY ConcatAssociates
      <4> QED BY <3>7, <4>1, Zenon DEF Associative
    <3> QED BY <2>1, <3>1, <3>4, <3>5, <3>6, <3>8
  <2> QED BY <2>2, <2>3
<1> HIDE DEF T
<1>3. s \in T  BY <1>1, <1>2, AppendInduction
<1> QED BY <1>3 DEF T

-----------------------------------------------------------------------------
(* Places of sequences. *)

LEMMA RangeIs ==
  ASSUME NEW S, NEW s \in Seq(S)
  PROVE  /\ \A x : x \in Range(s) <=> \E i \in 1 .. Len(s) : s[i] = x
         /\ IsInjective(s) <=> \A i, j \in 1 .. Len(s) : s[i] = s[j] => i = j
BY LenProperties DEF Range, IsInjective

\* A concatenation repeats nothing when neither part does and they share nothing.
LEMMA ConcatApart ==
  ASSUME NEW S, NEW a \in Seq(S), NEW b \in Seq(S)
  PROVE  /\ a \o b \in Seq(S)
         /\ Range(a \o b) = Range(a) \cup Range(b)
         /\ IsInjective(a \o b) <=> IsInjective(a) /\ IsInjective(b) /\ Range(a) \cap Range(b) = {}
<1> DEFINE c == a \o b
<1>1. /\ c \in Seq(S) /\ Len(c) = Len(a) + Len(b) /\ Len(a) \in Nat /\ Len(b) \in Nat
      /\ \A i \in 1 .. Len(a) : c[i] = a[i]
      /\ \A i \in 1 .. Len(b) : c[Len(a) + i] = b[i]
  <2>1. \A i \in 1 .. Len(a) + Len(b) : c[i] = IF i <= Len(a) THEN a[i] ELSE b[i - Len(a)]
    BY ConcatProperties
  <2>2. c \in Seq(S) /\ Len(c) = Len(a) + Len(b) /\ Len(a) \in Nat /\ Len(b) \in Nat
    BY ConcatProperties, LenProperties
  <2> HIDE DEF c
  <2>3. ASSUME NEW i \in 1 .. Len(b) PROVE c[Len(a) + i] = b[i]
    <3>1. Len(a) + i \in 1 .. Len(a) + Len(b) /\ ~(Len(a) + i <= Len(a)) /\ Len(a) + i - Len(a) = i  BY <2>2
    <3> QED BY <2>1, <3>1
  <2>4. \A i \in 1 .. Len(a) : i \in 1 .. Len(a) + Len(b) /\ i <= Len(a)  BY <2>2
  <2> QED BY <2>1, <2>2, <2>3, <2>4
<1> HIDE DEF c
<1>2. ASSUME NEW i \in 1 .. Len(c)
      PROVE  (i \in 1 .. Len(a) /\ c[i] = a[i]) \/ (\E j \in 1 .. Len(b) : i = Len(a) + j /\ c[i] = b[j])
  <2>1. CASE i <= Len(a)  BY <1>1, <2>1
  <2>2. CASE ~(i <= Len(a))
    <3>1. i - Len(a) \in 1 .. Len(b) /\ i = Len(a) + (i - Len(a))  BY <1>1, <2>2
    <3> QED BY <1>1, <3>1
  <2> QED BY <2>1, <2>2
<1>3. /\ \A i \in 1 .. Len(a) : i \in 1 .. Len(c)
      /\ \A i \in 1 .. Len(b) : Len(a) + i \in 1 .. Len(c)
  BY <1>1
<1>4. Range(c) = Range(a) \cup Range(b)
  <2>1. \A x : x \in Range(c) => x \in Range(a) \/ x \in Range(b)
    <3>1. SUFFICES ASSUME NEW x, x \in Range(c) PROVE x \in Range(a) \/ x \in Range(b)  OBVIOUS
    <3>2. PICK i \in 1 .. Len(c) : c[i] = x  BY <1>1, <3>1, RangeIs
    <3>3. (i \in 1 .. Len(a) /\ a[i] = x) \/ (\E j \in 1 .. Len(b) : b[j] = x)  BY <1>2, <3>2
    <3> QED BY <3>3, RangeIs
  <2>2. \A x : x \in Range(a) => x \in Range(c)  BY <1>1, <1>3, RangeIs
  <2>3. \A x : x \in Range(b) => x \in Range(c)
    <3>1. SUFFICES ASSUME NEW x, x \in Range(b) PROVE x \in Range(c)  OBVIOUS
    <3>2. PICK i \in 1 .. Len(b) : b[i] = x  BY <3>1, RangeIs
    <3>3. Len(a) + i \in 1 .. Len(c) /\ c[Len(a) + i] = x  BY <1>1, <1>3, <3>2
    <3> QED BY <1>1, <3>3, RangeIs
  <2> QED BY <2>1, <2>2, <2>3
<1>5. ASSUME IsInjective(c) PROVE IsInjective(a) /\ IsInjective(b) /\ Range(a) \cap Range(b) = {}
  <2>0. \A i, j \in 1 .. Len(c) : c[i] = c[j] => i = j  BY <1>1, <1>5, RangeIs
  <2>1. \A i, j \in 1 .. Len(a) : a[i] = a[j] => i = j  BY <1>1, <1>3, <2>0
  <2>2. ASSUME NEW i \in 1 .. Len(b), NEW j \in 1 .. Len(b), b[i] = b[j] PROVE i = j
    <3>1. c[Len(a) + i] = c[Len(a) + j] /\ Len(a) + i \in 1 .. Len(c) /\ Len(a) + j \in 1 .. Len(c)
      BY <1>1, <1>3, <2>2
    <3>2. Len(a) + i = Len(a) + j  BY <2>0, <3>1
    <3> QED BY <1>1, <3>2
  <2>3. ASSUME NEW i \in 1 .. Len(a), NEW j \in 1 .. Len(b), a[i] = b[j] PROVE FALSE
    <3>1. c[i] = c[Len(a) + j] /\ i \in 1 .. Len(c) /\ Len(a) + j \in 1 .. Len(c)  BY <1>1, <1>3, <2>3
    <3>2. i = Len(a) + j  BY <2>0, <3>1
    <3> QED BY <1>1, <3>2
  <2>4. Range(a) \cap Range(b) = {}  BY <2>3, RangeIs
  <2> QED BY <2>1, <2>2, <2>4, RangeIs
<1>6. ASSUME IsInjective(a), IsInjective(b), Range(a) \cap Range(b) = {} PROVE IsInjective(c)
  <2>0. /\ \A i, j \in 1 .. Len(a) : a[i] = a[j] => i = j
        /\ \A i, j \in 1 .. Len(b) : b[i] = b[j] => i = j
        /\ \A i \in 1 .. Len(a) : \A j \in 1 .. Len(b) : a[i] # b[j]
    BY <1>6, RangeIs
  <2>1. ASSUME NEW i \in 1 .. Len(c), NEW j \in 1 .. Len(c), c[i] = c[j] PROVE i = j
    BY <1>2, <2>0, <2>1
  <2> QED BY <1>1, <2>1, RangeIs
<1> QED BY <1>1, <1>4, <1>5, <1>6 DEF c

LEMMA EmptyApart == <<>> \in Seq(Prompts) /\ Range(<<>>) = {} /\ IsInjective(<<>>)
BY EmptySeq DEF Range, IsInjective

-----------------------------------------------------------------------------
(* The texts of a queue. *)

TextsOf(q) == [i \in DOMAIN q |-> q[i].text]

LEMMA TextsOfTyped ==
  ASSUME NEW q \in Seq(Entries)
  PROVE  TextsOf(q) \in Seq(Seq(Prompts)) /\ Len(TextsOf(q)) = Len(q)
<1>1. DOMAIN q = 1 .. Len(q) /\ Len(q) \in Nat  BY LenProperties
<1>2. \A i \in 1 .. Len(q) : q[i].text \in Seq(Prompts)
  <2>1. \A i \in 1 .. Len(q) : q[i] \in Entries  BY ElementOfSeq
  <2>2. \A e \in Entries : e.text \in Seq(Prompts)  BY DEF Entries
  <2> QED BY <2>1, <2>2, Zenon
<1>3. TextsOf(q) \in [1 .. Len(q) -> Seq(Prompts)]  BY <1>1, <1>2 DEF TextsOf
<1> QED BY <1>1, <1>3, IsASeq, LenProperties

LEMMA TextsTyped == ASSUME NEW q \in Seq(Entries) PROVE Texts(q) \in Seq(Prompts)
BY TextsOfTyped, FlattenTyped DEF Texts, TextsOf

LEMMA TextsEmpty == Texts(<<>>) = <<>>
<1>1. [i \in DOMAIN <<>> |-> <<>>[i].text] = <<>>  OBVIOUS
<1> QED BY <1>1, FlattenEmpty DEF Texts

LEMMA TextsAppend ==
  ASSUME NEW q \in Seq(Entries), NEW e \in Entries
  PROVE  Texts(Append(q, e)) = Texts(q) \o e.text
<1>1. /\ Append(q, e) \in Seq(Entries) /\ Len(Append(q, e)) = Len(q) + 1 /\ Len(q) \in Nat
      /\ \A i \in 1 .. Len(q) : Append(q, e)[i] = q[i]
      /\ Append(q, e)[Len(q) + 1] = e
  BY AppendProperties, LenProperties
<1>2. e.text \in Seq(Prompts)  BY DEF Entries
<1>3. PICK s \in Seq(Seq(Prompts)) : s = TextsOf(q) /\ Len(s) = Len(q)  BY TextsOfTyped
<1>4. PICK r \in Seq(Seq(Prompts)) : r = TextsOf(Append(q, e)) /\ Len(r) = Len(q) + 1
  BY <1>1, TextsOfTyped
<1>5. PICK t \in Seq(Seq(Prompts)) : t = Append(s, e.text)  BY <1>2, <1>3, AppendProperties
<1>6. Len(t) = Len(q) + 1 /\ (\A i \in 1 .. Len(q) : t[i] = s[i]) /\ t[Len(q) + 1] = e.text
  BY <1>2, <1>3, <1>5, AppendProperties
<1>7. \A i \in 1 .. Len(q) : s[i] = q[i].text  BY <1>3, LenProperties DEF TextsOf
<1>8. \A i \in 1 .. Len(q) + 1 : r[i] = Append(q, e)[i].text  BY <1>1, <1>4, LenProperties DEF TextsOf
<1>9. \A i \in 1 .. Len(q) + 1 : r[i] = t[i]
  <2>1. ASSUME NEW i \in 1 .. Len(q) + 1 PROVE r[i] = t[i]
    <3>1. CASE i \in 1 .. Len(q)  BY <1>1, <1>6, <1>7, <1>8, <3>1
    <3>2. CASE i \notin 1 .. Len(q)
      <4>1. i = Len(q) + 1  BY <1>1, <3>2
      <4> QED BY <1>1, <1>6, <1>8, <4>1
    <3> QED BY <3>1, <3>2
  <2> QED BY <2>1
<1>10. r = t  BY <1>4, <1>6, <1>9, SeqEqual
<1>11. FlattenSeq(t) = FlattenSeq(s) \o e.text  BY <1>2, <1>3, <1>5, FlattenTyped, FlattenAppend
<1> QED BY <1>3, <1>4, <1>10, <1>11 DEF Texts, TextsOf

LEMMA TextsHead ==
  ASSUME NEW q \in Seq(Entries), q # <<>>
  PROVE  /\ Head(q) \in Entries /\ Tail(q) \in Seq(Entries) /\ Head(q).text \in Seq(Prompts)
         /\ Texts(q) = Head(q).text \o Texts(Tail(q))
<1>1. /\ Head(q) \in Entries /\ Tail(q) \in Seq(Entries) /\ Len(Tail(q)) = Len(q) - 1 /\ Len(q) \in Nat
      /\ Head(q) = q[1] /\ Len(q) # 0
      /\ \A i \in 1 .. Len(Tail(q)) : Tail(q)[i] = q[i + 1]
  BY HeadTailProperties, EmptySeq, LenProperties
<1>2. Head(q).text \in Seq(Prompts)  BY <1>1 DEF Entries
<1>3. PICK s \in Seq(Seq(Prompts)) : s = TextsOf(q) /\ Len(s) = Len(q)  BY TextsOfTyped
<1>4. PICK r \in Seq(Seq(Prompts)) : r = TextsOf(Tail(q)) /\ Len(r) = Len(q) - 1  BY <1>1, TextsOfTyped
<1>5. s # <<>>  BY <1>1, <1>3, EmptySeq
<1>6. /\ Tail(s) \in Seq(Seq(Prompts)) /\ Len(Tail(s)) = Len(q) - 1 /\ Head(s) = s[1]
      /\ \A i \in 1 .. Len(q) - 1 : Tail(s)[i] = s[i + 1]
  BY <1>3, <1>5, HeadTailProperties
<1>7. \A i \in 1 .. Len(q) : s[i] = q[i].text  BY <1>3, LenProperties DEF TextsOf
<1>8. \A i \in 1 .. Len(q) - 1 : r[i] = Tail(q)[i].text  BY <1>1, <1>4, LenProperties DEF TextsOf
<1>9. \A i \in 1 .. Len(q) - 1 : r[i] = Tail(s)[i]
  <2>1. \A i \in 1 .. Len(q) - 1 : i + 1 \in 1 .. Len(q) /\ i \in 1 .. Len(Tail(q))  BY <1>1
  <2> QED BY <1>1, <1>6, <1>7, <1>8, <2>1
<1>10. r = Tail(s)  BY <1>4, <1>6, <1>9, SeqEqual
<1>11. Head(s) = Head(q).text  BY <1>1, <1>6, <1>7
<1>12. FlattenSeq(s) = Head(s) \o FlattenSeq(Tail(s))  BY <1>3, <1>5, FlattenHead
<1> QED BY <1>1, <1>2, <1>3, <1>4, <1>10, <1>11, <1>12 DEF Texts, TextsOf

LEMMA TextsLast ==
  ASSUME NEW q \in Seq(Entries), q # <<>>
  PROVE  /\ Last(q) \in Entries /\ Front(q) \in Seq(Entries) /\ Last(q).text \in Seq(Prompts)
         /\ Texts(q) = Texts(Front(q)) \o Last(q).text
<1>1. PICK r \in Seq(Entries), e \in Entries : q = Append(r, e)  BY SequenceEmptyOrAppend
<1>2. /\ Len(q) = Len(r) + 1 /\ Len(r) \in Nat /\ q[Len(r) + 1] = e
      /\ \A i \in 1 .. Len(r) : q[i] = r[i]
  BY <1>1, AppendProperties, LenProperties
<1>3. Last(q) = e  BY <1>2 DEF Last
<1>4. Front(q) = r
  <2>1. Front(q) = SubSeq(q, 1, Len(r))  BY <1>2 DEF Front
  <2>2. /\ SubSeq(q, 1, Len(r)) \in Seq(Entries) /\ Len(SubSeq(q, 1, Len(r))) = Len(r)
        /\ \A i \in 1 .. Len(r) : SubSeq(q, 1, Len(r))[i] = q[i]
    BY <1>2
  <2> QED BY <1>1, <1>2, <2>1, <2>2, SeqEqual
<1>5. e.text \in Seq(Prompts)  BY <1>1 DEF Entries
<1> QED BY <1>1, <1>3, <1>4, <1>5, TextsAppend

-----------------------------------------------------------------------------
(* The inductive invariant. *)

Major(t) == ~t.old /\ t.st \in {"preparing", "turn", "settled", "creating", "created", "failed"}
Current(t) == ~t.old /\ t.st \in {"preparing", "turn", "settled"}
NewCall(t) == ~t.old /\ t.st \in {"creating", "created", "failed"}
Connecting == conn # <<>> /\ Head(conn).st # "begin"
Attempts == [st : {"begin", "stopping", "connecting", "retiring"}, cont : BOOLEAN, was : BOOLEAN, again : BOOLEAN]

\* Nothing typed is lost or doubled; a prompt that Escape could take back was
\* given away, once; and the queue holds nothing from before the last /new.
Input ==
    /\ typed \subseteq Prompts /\ composer \in Seq(Prompts) /\ queue \in Seq(Entries) /\ unsend \in Seq(Prompts)
    /\ \A e \in Range(queue) : e.epoch = news
    /\ InputKept
    /\ IsInjective(unsend) /\ Range(unsend) \subseteq gone

\* Flags and counters.
PlainBackend == client \in {"none", "live", "exited", "closed"} /\ ready \in BOOLEAN /\ fence \in BOOLEAN
PlainTurn ==
    /\ busy \in BOOLEAN /\ cancel \in BOOLEAN /\ steer \in BOOLEAN /\ grace \in BOOLEAN
    /\ tool \in {"none", "active", "ended"}
    /\ grace => busy /\ cancel
PlainReset == pendingNew \in BOOLEAN /\ switching \in BOOLEAN
PlainWake == drain \in BOOLEAN /\ watch \in BOOLEAN /\ check \in BOOLEAN
PlainCounts ==
    /\ rejoin \in {"no", "due", "joined", "ended"}
    /\ events \in 0..MaxEvents /\ news \in 0..events /\ session \in 0..news
Plain == PlainBackend /\ PlainTurn /\ PlainReset /\ PlainWake /\ PlainCounts

\* Only the first call of switchAgent has begun (InLine); while it is under way the agent
\* is not ready, and a fence keeps every backend from being started.
InLine(c) == c \in Seq(Attempts) /\ \A i \in 1 .. Len(c) : c[i].st = "begin" \/ i = 1
Connection ==
    /\ InLine(conn)
    /\ ready => client # "none" /\ ~Connecting
    /\ fence => client \in {"none", "closed"}
    /\ pendingNew => switching
    /\ Live /\ ~switching => session = news
    /\ conn # <<>> =>
         /\ Head(conn).st = "stopping" => client = "none" /\ ~fence /\ (pendingNew => Head(conn).was)
         /\ Head(conn).st = "connecting" => client # "none" /\ ~fence
         /\ Head(conn).st = "retiring" => client = "closed"

\* A call against the rest of the state.
Fits(t) ==
    /\ t.wait > 0 => t.st = "joined"
    /\ t.wait <= Len(conn)
    /\ t.st = "creating" => ~t.old
    /\ NewCall(t) => switching /\ ~pendingNew
    /\ Current(t) => busy \/ client = "closed"
    /\ Open(t) => t.epoch = session
    /\ t.st = "joined" => ~pendingNew /\ (t.wait = 0 /\ Live => session = news)
    /\ client = "none" \/ Connecting => ~Major(t)

\* Two calls: one has the agent at most, and one runs over the queue at most.
Besides(t, u) ==
    /\ ~(Major(t) /\ Major(u))
    /\ ~(t.by = "flush" /\ u.by = "flush")
    /\ ~(NewCall(t) /\ u.st = "joined") /\ ~(NewCall(u) /\ t.st = "joined")
Apart(ts) == \A i, j \in 1 .. Len(ts) : i # j => Besides(ts[i], ts[j])

Callers ==
    /\ tasks \in Seq(Calls)
    /\ \A i \in 1 .. Len(tasks) : Fits(tasks[i])
    /\ Apart(tasks)

IInv == Input /\ Plain /\ Connection /\ Callers

USE HostAssumption DEF HostAssumption
USE DEF Event

-----------------------------------------------------------------------------
(* Input. *)

\* What InputKept says of the editor's text c and that of the queue, b.
Once(c, b, g, t) ==
    /\ IsInjective(c) /\ IsInjective(b) /\ Range(c) \cap Range(b) = {}
    /\ (Range(c) \cup Range(b)) \cap g = {}
    /\ Range(c) \cup Range(b) \cup g = t

LEMMA OnceIs ==
  ASSUME composer \in Seq(Prompts), queue \in Seq(Entries)
  PROVE  InputKept <=> Once(composer, Texts(queue), gone, typed)
<1>1. PICK b \in Seq(Prompts) : b = Texts(queue)  BY TextsTyped
<1>2. PICK c \in Seq(Prompts) : c = composer  OBVIOUS
<1>3. /\ Range(c \o b) = Range(c) \cup Range(b)
      /\ IsInjective(c \o b) <=> IsInjective(c) /\ IsInjective(b) /\ Range(c) \cap Range(b) = {}
  BY <1>1, <1>2, ConcatApart
<1> QED BY <1>1, <1>2, <1>3, Zenon DEF InputKept, Held, Once

LEMMA OnceIsNext ==
  ASSUME composer' \in Seq(Prompts), queue' \in Seq(Entries)
  PROVE  InputKept' <=> Once(composer', Texts(queue'), gone', typed')
<1>1. PICK b \in Seq(Prompts) : b = Texts(queue')  BY TextsTyped
<1>2. PICK c \in Seq(Prompts) : c = composer'  OBVIOUS
<1>3. /\ Range(c \o b) = Range(c) \cup Range(b)
      /\ IsInjective(c \o b) <=> IsInjective(c) /\ IsInjective(b) /\ Range(c) \cap Range(b) = {}
  BY <1>1, <1>2, ConcatApart
<1>4. Texts(queue)' = Texts(queue')  BY DEF Texts
<1> QED BY <1>1, <1>2, <1>3, <1>4, Zenon DEF InputKept, Held, Once

\* What a step must show of the text it moves.
LEMMA InputStep ==
  ASSUME typed' \subseteq Prompts, composer' \in Seq(Prompts), queue' \in Seq(Entries), unsend' \in Seq(Prompts),
         \A e \in Range(queue') : e.epoch = news',
         Once(composer', Texts(queue'), gone', typed'),
         IsInjective(unsend'), Range(unsend') \subseteq gone'
  PROVE  Input'
BY OnceIsNext DEF Input

LEMMA InputHas ==
  ASSUME Input
  PROVE  /\ typed \subseteq Prompts /\ composer \in Seq(Prompts) /\ queue \in Seq(Entries) /\ unsend \in Seq(Prompts)
         /\ \A e \in Range(queue) : e.epoch = news
         /\ Texts(queue) \in Seq(Prompts)
         /\ Once(composer, Texts(queue), gone, typed)
         /\ IsInjective(unsend) /\ Range(unsend) \subseteq gone
BY OnceIs, TextsTyped DEF Input

\* A step that moves no text.
LEMMA TextSame ==
  ASSUME Input, UNCHANGED <<typed, composer, queue, gone, news>>, unsend' \in {unsend, <<>>}
  PROVE  Input'
<1>1. unsend' \in Seq(Prompts) /\ IsInjective(unsend') /\ Range(unsend') \subseteq gone
  BY InputHas, EmptyApart, Zenon
<1> QED BY <1>1, InputHas, InputStep

\* The queue goes back to the editor, before or after what is typed there.
LEMMA TextRestored ==
  ASSUME Input, RestoreInput, UNCHANGED news, unsend' \in {unsend, <<>>}
  PROVE  Input'
<1>1. PICK b \in Seq(Prompts) : b = Texts(queue)  BY InputHas
<1>2. /\ composer' = b \o composer /\ queue' = <<>> /\ typed' = typed /\ gone' = gone
  BY <1>1 DEF RestoreInput
<1>3. /\ composer' \in Seq(Prompts)
      /\ Range(composer') = Range(b) \cup Range(composer)
      /\ IsInjective(composer') <=> IsInjective(b) /\ IsInjective(composer) /\ Range(b) \cap Range(composer) = {}
  BY <1>2, InputHas, ConcatApart
<1>4. Once(composer', <<>>, gone', typed')
  <2>1. Once(composer, b, gone, typed)  BY <1>1, InputHas
  <2> QED BY <1>2, <1>3, <2>1, EmptyApart DEF Once
<1>5. unsend' \in Seq(Prompts) /\ IsInjective(unsend') /\ Range(unsend') \subseteq gone'
  BY <1>2, InputHas, EmptyApart, Zenon
<1>6. queue' \in Seq(Entries) /\ \A e \in Range(queue') : FALSE
  BY <1>2, EmptySeq, EmptyApart
<1> QED BY <1>2, <1>3, <1>4, <1>5, <1>6, TextsEmpty, InputHas, InputStep

LEMMA RangeTyped == ASSUME NEW S, NEW s \in Seq(S) PROVE Range(s) \subseteq S
BY RangeIs, ElementOfSeq

LEMMA AppendRange ==
  ASSUME NEW S, NEW s \in Seq(S), NEW e \in S
  PROVE  /\ Append(s, e) \in Seq(S) /\ Len(Append(s, e)) = Len(s) + 1
         /\ \A x : x \in Range(Append(s, e)) <=> x \in Range(s) \/ x = e
<1>1. /\ Append(s, e) \in Seq(S) /\ Len(Append(s, e)) = Len(s) + 1 /\ Len(s) \in Nat
      /\ \A i \in 1 .. Len(s) : Append(s, e)[i] = s[i]
      /\ Append(s, e)[Len(s) + 1] = e
  BY AppendProperties, LenProperties
<1>2. PICK r \in Seq(S) : r = Append(s, e)  BY <1>1
<1>3. ASSUME NEW x, x \in Range(r) PROVE x \in Range(s) \/ x = e
  <2>1. PICK i \in 1 .. Len(r) : r[i] = x  BY <1>2, <1>3, RangeIs
  <2>2. i \in 1 .. Len(s) \/ i = Len(s) + 1  BY <1>1, <1>2
  <2> QED BY <1>1, <1>2, <2>1, <2>2, RangeIs
<1>4. ASSUME NEW x, x \in Range(s) PROVE x \in Range(r)
  <2>1. PICK i \in 1 .. Len(s) : s[i] = x  BY <1>4, RangeIs
  <2>2. i \in 1 .. Len(r) /\ r[i] = x  BY <1>1, <1>2, <2>1
  <2> QED BY <1>2, <2>2, RangeIs
<1>5. e \in Range(r)
  <2>1. Len(s) + 1 \in 1 .. Len(r) /\ r[Len(s) + 1] = e  BY <1>1, <1>2
  <2> QED BY <1>2, <2>1, RangeIs
<1> QED BY <1>1, <1>2, <1>3, <1>4, <1>5

LEMMA TailRange ==
  ASSUME NEW S, NEW s \in Seq(S), s # <<>>
  PROVE  Tail(s) \in Seq(S) /\ Range(Tail(s)) \subseteq Range(s)
<1>1. /\ Tail(s) \in Seq(S) /\ Len(Tail(s)) = Len(s) - 1 /\ Len(s) \in Nat
      /\ \A i \in 1 .. Len(Tail(s)) : Tail(s)[i] = s[i + 1]
  BY HeadTailProperties, LenProperties
<1>2. PICK r \in Seq(S) : r = Tail(s)  BY <1>1
<1>2a. r \in Seq(S)  BY <1>2
<1>3. ASSUME NEW x, x \in Range(r) PROVE x \in Range(s)
  <2>1. PICK i \in 1 .. Len(r) : r[i] = x  BY <1>2a, <1>3, RangeIs, Zenon
  <2>2. PICK j \in 1 .. Len(s) : s[j] = x  BY <1>1, <1>2, <2>1
  <2> QED BY <2>2, RangeIs
<1> QED BY <1>1, <1>2, <1>3

LEMMA FrontRange ==
  ASSUME NEW S, NEW s \in Seq(S), s # <<>>
  PROVE  Front(s) \in Seq(S) /\ Range(Front(s)) \subseteq Range(s)
<1>1. PICK r \in Seq(S), e \in S : s = Append(r, e)  BY SequenceEmptyOrAppend
<1>2. /\ Len(s) = Len(r) + 1 /\ Len(r) \in Nat
      /\ \A i \in 1 .. Len(r) : s[i] = r[i]
  BY <1>1, AppendProperties, LenProperties
<1>3. Front(s) = r
  <2>1. PICK f \in Seq(S) : f = Front(s)
    BY <1>2, SubSeqProperties DEF Front
  <2>2. Len(f) = Len(r) /\ \A i \in 1 .. Len(r) : f[i] = r[i]
    BY <1>2, <2>1, SubSeqProperties DEF Front
  <2> QED BY <2>1, <2>2, SeqEqual
<1>4. \A x : x \in Range(s) <=> x \in Range(r) \/ x = e  BY <1>1, AppendRange
<1> QED BY <1>3, <1>4

LEMMA InputTypes ==
  ASSUME Input, NEW p \in Prompts, Type(p)
  PROVE  Input'
<1>1. PICK b \in Seq(Prompts) : b = Texts(queue)  BY InputHas
<1>2. /\ p \notin typed /\ typed' = typed \cup {p} /\ composer' = Append(composer, p)
      /\ UNCHANGED <<queue, gone, unsend, news>>
  BY DEF Type, turn, reset
<1>3. Once(composer, b, gone, typed) /\ composer \in Seq(Prompts) /\ typed \subseteq Prompts  BY <1>1, InputHas
<1>4. /\ composer' \in Seq(Prompts) /\ \A x : x \in Range(composer') <=> x \in Range(composer) \/ x = p
  BY <1>2, <1>3, AppendRange
<1>5. IsInjective(composer')
  <2>1. PICK c \in Seq(Prompts) : c = composer  BY <1>3
  <2>2. PICK d \in Seq(Prompts) : d = Append(c, p)  BY <1>2, <1>4, <2>1
  <2>3. /\ Len(d) = Len(c) + 1 /\ Len(c) \in Nat /\ d[Len(c) + 1] = p
        /\ \A i \in 1 .. Len(c) : d[i] = c[i]
    BY <2>1, <2>2, AppendProperties, LenProperties
  <2>4. \A i, j \in 1 .. Len(c) : c[i] = c[j] => i = j  BY <1>3, <2>1, RangeIs DEF Once
  <2>5. \A i \in 1 .. Len(c) : c[i] # p
    <3>1. p \notin Range(c)  BY <1>2, <1>3, <2>1 DEF Once
    <3> QED BY <2>1, <3>1, RangeIs
  <2>6. ASSUME NEW i \in 1 .. Len(d), NEW j \in 1 .. Len(d), d[i] = d[j] PROVE i = j
    <3>1. i \in 1 .. Len(c) \/ i = Len(c) + 1  BY <2>3
    <3>2. j \in 1 .. Len(c) \/ j = Len(c) + 1  BY <2>3
    <3> QED BY <2>3, <2>4, <2>5, <2>6, <3>1, <3>2
  <2>7. IsInjective(d)  BY <2>2, <2>6, RangeIs
  <2> QED BY <1>2, <2>1, <2>2, <2>7
<1>6. Once(composer', b, gone, typed')  BY <1>2, <1>3, <1>4, <1>5 DEF Once
<1> QED BY <1>1, <1>2, <1>4, <1>6, InputHas, InputStep

\* The editor's text goes to the end of the queue.
LEMMA TextQueued ==
  ASSUME Input, Plain, UNCHANGED <<typed, gone, unsend, news>>, composer' = <<>>,
         NEW timing \in {"afterTool", "afterTurn"},
         queue' = Append(queue, [text |-> composer, timing |-> timing, epoch |-> news])
  PROVE  Input'
<1>1. PICK b \in Seq(Prompts) : b = Texts(queue)  BY InputHas
<1>2. PICK e : e = [text |-> composer, timing |-> timing, epoch |-> news]  OBVIOUS
<1>3. e \in Entries /\ e.text = composer /\ e.epoch = news
  <2>1. news \in 0..MaxEvents /\ composer \in Seq(Prompts)  BY InputHas DEF Plain, PlainCounts
  <2> QED BY <1>2, <2>1 DEF Entries
<1>4. queue' = Append(queue, e)  BY <1>2
<1>5. /\ queue' \in Seq(Entries) /\ \A x : x \in Range(queue') <=> x \in Range(queue) \/ x = e
  BY <1>3, <1>4, InputHas, AppendRange
<1>6. Texts(queue') = b \o composer  BY <1>1, <1>3, <1>4, InputHas, TextsAppend
<1>7. PICK d \in Seq(Prompts) : d = b \o composer  BY InputHas, ConcatApart
<1>8. /\ Range(d) = Range(b) \cup Range(composer)
      /\ IsInjective(d) <=> IsInjective(b) /\ IsInjective(composer) /\ Range(b) \cap Range(composer) = {}
  BY <1>7, InputHas, ConcatApart
<1>9. Once(<<>>, d, gone, typed)
  <2>1. Once(composer, b, gone, typed)  BY <1>1, InputHas
  <2> QED BY <1>8, <2>1, EmptyApart DEF Once
<1> QED BY <1>3, <1>5, <1>6, <1>7, <1>9, EmptyApart, InputHas, InputStep

\* The editor's text is given to the session.
LEMMA TextGiven ==
  ASSUME Input, UNCHANGED <<typed, queue, news>>, composer' = <<>>,
         gone' = gone \cup Range(composer), unsend' \in {<<>>, composer}
  PROVE  Input'
<1>1. PICK b \in Seq(Prompts) : b = Texts(queue)  BY InputHas
<1>2. Once(composer, b, gone, typed)  BY <1>1, InputHas
<1>3. Once(<<>>, b, gone', typed)  BY <1>2, EmptyApart DEF Once
<1>4. unsend' \in Seq(Prompts) /\ IsInjective(unsend') /\ Range(unsend') \subseteq gone'
  <2>1. composer \in Seq(Prompts) /\ IsInjective(composer)  BY <1>2, InputHas DEF Once
  <2> QED BY <2>1, EmptyApart, Zenon
<1> QED BY <1>1, <1>3, <1>4, EmptyApart, InputHas, InputStep

\* The head of the queue is given to the session.
LEMMA HeadGiven ==
  ASSUME Input, UNCHANGED <<typed, composer, news>>, queue # <<>>, queue' = Tail(queue),
         gone' = gone \cup Range(Head(queue).text), unsend' \in {<<>>, Head(queue).text}
  PROVE  Input'
<1>1. /\ queue' \in Seq(Entries) /\ Head(queue).text \in Seq(Prompts)
      /\ Texts(queue) = Head(queue).text \o Texts(queue')
  BY InputHas, TextsHead
<1>2. PICK h \in Seq(Prompts), r \in Seq(Prompts) : h = Head(queue).text /\ r = Texts(queue')
  BY <1>1, TextsTyped
<1>3. PICK b \in Seq(Prompts) : b = h \o r  BY <1>2, ConcatApart
<1>4. /\ Range(b) = Range(h) \cup Range(r)
      /\ IsInjective(b) <=> IsInjective(h) /\ IsInjective(r) /\ Range(h) \cap Range(r) = {}
  BY <1>2, <1>3, ConcatApart
<1>5. Once(composer, b, gone, typed)
  <2>1. b = Texts(queue)  BY <1>1, <1>2, <1>3
  <2> QED BY <2>1, InputHas
<1>6. Once(composer, r, gone', typed)  BY <1>2, <1>4, <1>5 DEF Once
<1>7. unsend' \in Seq(Prompts) /\ IsInjective(unsend') /\ Range(unsend') \subseteq gone'
  <2>1. IsInjective(h) /\ gone' = gone \cup Range(h)  BY <1>2, <1>4, <1>5 DEF Once
  <2> QED BY <1>2, <2>1, EmptyApart, Zenon
<1>8. Range(queue') \subseteq Range(queue)  BY InputHas, TailRange
<1> QED BY <1>1, <1>2, <1>6, <1>7, <1>8, InputHas, InputStep

LEMMA InputUnqueues ==
  ASSUME Input, Unqueue
  PROVE  Input'
<1>1. /\ composer = <<>> /\ queue # <<>> /\ composer' = Last(queue).text /\ queue' = Front(queue)
      /\ UNCHANGED <<typed, gone, unsend, news>>
  BY DEF Unqueue, turn, reset
<1>2. /\ queue' \in Seq(Entries) /\ Last(queue).text \in Seq(Prompts)
      /\ Texts(queue) = Texts(queue') \o Last(queue).text
  BY <1>1, InputHas, TextsLast
<1>3. PICK h \in Seq(Prompts), r \in Seq(Prompts) : h = Last(queue).text /\ r = Texts(queue')
  BY <1>2, TextsTyped
<1>4. PICK b \in Seq(Prompts) : b = r \o h  BY <1>3, ConcatApart
<1>5. /\ Range(b) = Range(r) \cup Range(h)
      /\ IsInjective(b) <=> IsInjective(r) /\ IsInjective(h) /\ Range(r) \cap Range(h) = {}
  BY <1>3, <1>4, ConcatApart
<1>6. Once(composer, b, gone, typed)
  <2>1. b = Texts(queue)  BY <1>2, <1>3, <1>4
  <2> QED BY <2>1, InputHas
<1>7. Once(h, r, gone, typed)  BY <1>1, <1>5, <1>6, EmptyApart DEF Once
<1>8. Range(queue') \subseteq Range(queue)  BY <1>1, InputHas, FrontRange
<1> QED BY <1>1, <1>2, <1>3, <1>7, <1>8, InputHas, InputStep

\* Escape takes back what was given, and the queue with it.
LEMMA InputRetracts ==
  ASSUME Input, Retract, UNCHANGED <<typed, news>>
  PROVE  Input'
<1>1. PICK b \in Seq(Prompts) : b = Texts(queue)  BY InputHas
<1>2. /\ composer' = (unsend \o b) \o composer \/ composer' = unsend \o (b \o composer)
      /\ queue' = <<>> /\ gone' = gone \ Range(unsend) /\ unsend' = <<>>
  BY <1>1 DEF Retract
<1>3. PICK u \in Seq(Prompts), c \in Seq(Prompts) : u = unsend /\ c = composer  BY InputHas
<1>4. /\ u \o b \in Seq(Prompts) /\ b \o c \in Seq(Prompts)
      /\ Range(u \o b) = Range(u) \cup Range(b) /\ Range(b \o c) = Range(b) \cup Range(c)
      /\ IsInjective(u \o b) <=> IsInjective(u) /\ IsInjective(b) /\ Range(u) \cap Range(b) = {}
      /\ IsInjective(b \o c) <=> IsInjective(b) /\ IsInjective(c) /\ Range(b) \cap Range(c) = {}
  BY <1>1, <1>3, ConcatApart
<1>5. PICK v \in Seq(Prompts), w \in Seq(Prompts) : v = u \o b /\ w = b \o c  BY <1>4
<1>5a. u \in Seq(Prompts) /\ c \in Seq(Prompts) /\ v \in Seq(Prompts) /\ w \in Seq(Prompts)  BY <1>3, <1>5
<1>6a. /\ v \o c \in Seq(Prompts) /\ Range(v \o c) = Range(v) \cup Range(c)
       /\ IsInjective(v \o c) <=> IsInjective(v) /\ IsInjective(c) /\ Range(v) \cap Range(c) = {}
  BY <1>5a, ConcatApart
<1>6b. /\ u \o w \in Seq(Prompts) /\ Range(u \o w) = Range(u) \cup Range(w)
       /\ IsInjective(u \o w) <=> IsInjective(u) /\ IsInjective(w) /\ Range(u) \cap Range(w) = {}
  BY <1>5a, ConcatApart
<1>7. composer' = v \o c \/ composer' = u \o w  BY <1>2, <1>3, <1>5
<1>8. Once(c, b, gone, typed) /\ IsInjective(u) /\ Range(u) \subseteq gone  BY <1>1, <1>3, InputHas
<1>9. /\ composer' \in Seq(Prompts) /\ IsInjective(composer')
      /\ Range(composer') = Range(u) \cup Range(b) \cup Range(c)
  <2>1. Range(u) \cap Range(b) = {} /\ Range(u) \cap Range(c) = {} /\ Range(b) \cap Range(c) = {}
        /\ IsInjective(b) /\ IsInjective(c) /\ IsInjective(u)
    BY <1>8 DEF Once
  <2>2. Range(v) = Range(u) \cup Range(b) /\ Range(w) = Range(b) \cup Range(c) /\ IsInjective(v) /\ IsInjective(w)
    BY <1>4, <1>5, <2>1
  <2>3. CASE composer' = v \o c  BY <1>6a, <2>1, <2>2, <2>3
  <2>4. CASE composer' = u \o w  BY <1>6b, <2>1, <2>2, <2>4
  <2> QED BY <1>7, <2>3, <2>4
<1>10. Once(composer', <<>>, gone', typed)  BY <1>2, <1>3, <1>8, <1>9, EmptyApart DEF Once
<1>11. queue' \in Seq(Entries) /\ (\A e \in Range(queue') : FALSE)  BY <1>2, EmptySeq, EmptyApart
<1> QED BY <1>2, <1>9, <1>10, <1>11, EmptyApart, TextsEmpty, InputHas, InputStep

\* /new drops what was queued before it.
LEMMA InputDropped ==
  ASSUME Input, queue' = <<>>, gone' = gone \cup Range(Texts(queue)), UNCHANGED <<typed, composer, unsend>>
  PROVE  Input'
<1>1. PICK b \in Seq(Prompts) : b = Texts(queue)  BY InputHas
<1>2. Once(composer, b, gone, typed)  BY <1>1, InputHas
<1>3. Once(composer, <<>>, gone', typed)  BY <1>1, <1>2, EmptyApart DEF Once
<1>4. queue' \in Seq(Entries) /\ (\A e \in Range(queue') : FALSE)  BY EmptySeq, EmptyApart
<1>5. IsInjective(unsend') /\ Range(unsend') \subseteq gone' /\ unsend' \in Seq(Prompts)  BY InputHas
<1> QED BY <1>3, <1>4, <1>5, TextsEmpty, InputHas, InputStep

-----------------------------------------------------------------------------
(* The calls in flight. *)

LEMMA RemoveAtIs ==
  ASSUME NEW S, NEW s \in Seq(S), NEW i \in 1 .. Len(s)
  PROVE  /\ RemoveAt(s, i) \in Seq(S) /\ Len(RemoveAt(s, i)) = Len(s) - 1
         /\ \A j \in 1 .. Len(s) - 1 : RemoveAt(s, i)[j] = IF j < i THEN s[j] ELSE s[j + 1]
<1>0. Len(s) \in Nat /\ i \in Nat /\ i >= 1 /\ i <= Len(s)  BY LenProperties
<1>1. PICK a : a = SubSeq(s, 1, i - 1)  OBVIOUS
<1>2. PICK b : b = SubSeq(s, i + 1, Len(s))  OBVIOUS
<1>3. a \in Seq(S) /\ Len(a) = i - 1 /\ \A j \in 1 .. i - 1 : a[j] = s[j]
  BY <1>0, <1>1, SubSeqProperties
<1>4. b \in Seq(S) /\ Len(b) = Len(s) - i /\ \A j \in 1 .. Len(s) - i : b[j] = s[i + j]
  BY <1>0, <1>2, SubSeqProperties
<1>5. PICK c : c = a \o b  OBVIOUS
<1>6. /\ c \in Seq(S) /\ Len(c) = Len(s) - 1
      /\ \A j \in 1 .. Len(s) - 1 : c[j] = IF j <= i - 1 THEN a[j] ELSE b[j - (i - 1)]
  <2>1. a \in Seq(S) /\ b \in Seq(S) /\ Len(a) + Len(b) = Len(s) - 1 /\ Len(a) = i - 1  BY <1>0, <1>3, <1>4
  <2> QED BY <1>5, <2>1, ConcatProperties
<1>7. ASSUME NEW j \in 1 .. Len(s) - 1 PROVE c[j] = IF j < i THEN s[j] ELSE s[j + 1]
  <2>1. CASE j < i  BY <1>0, <1>3, <1>6, <2>1
  <2>2. CASE ~(j < i)
    <3>1. PICK k \in 1 .. Len(s) - i : k = j - (i - 1)  BY <1>0, <2>2
    <3>2. c[j] = b[k] /\ i + k = j + 1  BY <1>0, <1>6, <2>2, <3>1
    <3> QED BY <1>4, <2>2, <3>1, <3>2
  <2> QED BY <2>1, <2>2
<1>8. RemoveAt(s, i) = c  BY <1>1, <1>2, <1>5 DEF RemoveAt
<1> QED BY <1>6, <1>7, <1>8

LEMMA ExceptAt ==
  ASSUME NEW S, NEW s \in Seq(S), NEW i \in 1 .. Len(s), NEW u \in S
  PROVE  /\ [s EXCEPT ![i] = u] \in Seq(S) /\ Len([s EXCEPT ![i] = u]) = Len(s)
         /\ [s EXCEPT ![i] = u][i] = u
         /\ \A j \in 1 .. Len(s) : j # i => [s EXCEPT ![i] = u][j] = s[j]
BY ExceptSeq

LEMMA MinIn == ASSUME NEW T, T \subseteq Nat, T # {} PROVE Min(T) \in T
BY LeastNumber DEF Min

\* A call that has changed, and brings it no nearer to another.
Tamer(u, t) ==
  /\ Major(u) => Major(t)
  /\ NewCall(u) => NewCall(t)
  /\ u.by = "flush" => t.by = "flush"
  /\ u.st = "joined" => t.st = "joined"

LEMMA ApartMapped ==
  ASSUME NEW ts \in Seq(Calls), Apart(ts), NEW us \in Seq(Calls), Len(us) = Len(ts),
         \A j \in 1 .. Len(ts) : Tamer(us[j], ts[j])
  PROVE  Apart(us)
BY DEF Apart, Besides, Tamer

LEMMA ApartRemoved ==
  ASSUME NEW ts \in Seq(Calls), Apart(ts), NEW i \in 1 .. Len(ts)
  PROVE  /\ RemoveAt(ts, i) \in Seq(Calls) /\ Apart(RemoveAt(ts, i))
         /\ \A j \in 1 .. Len(RemoveAt(ts, i)) : \E k \in 1 .. Len(ts) : k # i /\ RemoveAt(ts, i)[j] = ts[k]
<1>1. PICK us : us = RemoveAt(ts, i)  OBVIOUS
<1>2. /\ us \in Seq(Calls) /\ Len(us) = Len(ts) - 1 /\ Len(ts) \in Nat
      /\ \A j \in 1 .. Len(us) : us[j] = IF j < i THEN ts[j] ELSE ts[j + 1]
  BY <1>1, RemoveAtIs, LenProperties
<1>3. ASSUME NEW j \in 1 .. Len(us)
      PROVE  \E k \in 1 .. Len(ts) : k = (IF j < i THEN j ELSE j + 1) /\ k # i /\ us[j] = ts[k]
  BY <1>2
<1>4. ASSUME NEW j \in 1 .. Len(us), NEW k \in 1 .. Len(us), j # k PROVE Besides(us[j], us[k])
  <2>1. PICK m \in 1 .. Len(ts) : m = (IF j < i THEN j ELSE j + 1) /\ us[j] = ts[m]  BY <1>3
  <2>2. PICK n \in 1 .. Len(ts) : n = (IF k < i THEN k ELSE k + 1) /\ us[k] = ts[n]  BY <1>3
  <2>3. m # n  BY <1>2, <1>4, <2>1, <2>2
  <2>4. Besides(ts[m], ts[n])  BY <2>3 DEF Apart
  <2> QED BY <2>1, <2>2, <2>4
<1> QED BY <1>1, <1>2, <1>3, <1>4 DEF Apart

LEMMA ApartExcept ==
  ASSUME NEW ts \in Seq(Calls), Apart(ts), NEW i \in 1 .. Len(ts), NEW u \in Calls,
         \A j \in 1 .. Len(ts) : j # i => Besides(u, ts[j])
  PROVE  /\ [ts EXCEPT ![i] = u] \in Seq(Calls) /\ Apart([ts EXCEPT ![i] = u])
         /\ Len([ts EXCEPT ![i] = u]) = Len(ts) /\ [ts EXCEPT ![i] = u][i] = u
         /\ \A j \in 1 .. Len(ts) : j # i => [ts EXCEPT ![i] = u][j] = ts[j]
<1>1. PICK us : us = [ts EXCEPT ![i] = u]  OBVIOUS
<1>2. /\ us \in Seq(Calls) /\ Len(us) = Len(ts) /\ us[i] = u
      /\ \A j \in 1 .. Len(ts) : j # i => us[j] = ts[j]
  BY <1>1, ExceptAt
<1>3. ASSUME NEW j \in 1 .. Len(us), NEW k \in 1 .. Len(us), j # k PROVE Besides(us[j], us[k])
  <2>1. CASE j # i /\ k # i  BY <1>2, <1>3, <2>1 DEF Apart
  <2>2. CASE j = i /\ k # i  BY <1>2, <2>2
  <2>3. CASE j # i /\ k = i
    <3>1. Besides(u, ts[j])  BY <1>2, <2>3
    <3> QED BY <1>2, <2>3, <3>1 DEF Besides
  <2> QED BY <1>3, <2>1, <2>2, <2>3
<1> QED BY <1>1, <1>2, <1>3 DEF Apart

LEMMA ApartAppended ==
  ASSUME NEW ts \in Seq(Calls), Apart(ts), NEW u \in Calls,
         \A j \in 1 .. Len(ts) : Besides(u, ts[j])
  PROVE  /\ Append(ts, u) \in Seq(Calls) /\ Apart(Append(ts, u))
         /\ \A j \in 1 .. Len(Append(ts, u)) : Append(ts, u)[j] = u \/ \E k \in 1 .. Len(ts) : Append(ts, u)[j] = ts[k]
<1>1. PICK us : us = Append(ts, u)  OBVIOUS
<1>2. /\ us \in Seq(Calls) /\ Len(us) = Len(ts) + 1 /\ Len(ts) \in Nat /\ us[Len(ts) + 1] = u
      /\ \A j \in 1 .. Len(ts) : us[j] = ts[j]
  BY <1>1, AppendProperties, LenProperties
<1>3. \A j \in 1 .. Len(us) : j \in 1 .. Len(ts) \/ j = Len(ts) + 1  BY <1>2
<1>4. ASSUME NEW j \in 1 .. Len(us), NEW k \in 1 .. Len(us), j # k PROVE Besides(us[j], us[k])
  <2>1. CASE j \in 1 .. Len(ts) /\ k \in 1 .. Len(ts)  BY <1>2, <1>4, <2>1 DEF Apart
  <2>2. CASE j = Len(ts) + 1 /\ k \in 1 .. Len(ts)  BY <1>2, <2>2
  <2>3. CASE k = Len(ts) + 1 /\ j \in 1 .. Len(ts)
    <3>1. Besides(u, ts[j])  BY <2>3
    <3> QED BY <1>2, <2>3, <3>1 DEF Besides
  <2> QED BY <1>3, <1>4, <2>1, <2>2, <2>3
<1> QED BY <1>1, <1>2, <1>3, <1>4 DEF Apart

\* One field of a call.
LEMMA CallFields ==
  ASSUME NEW t \in Calls
  PROVE  /\ t.by \in {"submit", "flush", "command"} /\ t.old \in BOOLEAN /\ t.epoch \in 0..MaxEvents /\ t.wait \in Nat
         /\ t.st \in {"preparing", "turn", "settled", "creating", "created", "failed", "joined", "done"}
BY DEF Calls
LEMMA CallIn ==
  ASSUME NEW b \in {"submit", "flush", "command"}, NEW o \in BOOLEAN, NEW e \in 0..MaxEvents, NEW w \in Nat,
         NEW s \in {"preparing", "turn", "settled", "creating", "created", "failed", "joined", "done"}
  PROVE  [by |-> b, st |-> s, old |-> o, epoch |-> e, wait |-> w] \in Calls
BY DEF Calls
LEMMA CallSt ==
  ASSUME NEW t \in Calls, NEW s \in {"preparing", "turn", "settled", "creating", "created", "failed", "joined", "done"}
  PROVE  /\ [t EXCEPT !.st = s] \in Calls
         /\ [t EXCEPT !.st = s].st = s /\ [t EXCEPT !.st = s].by = t.by /\ [t EXCEPT !.st = s].old = t.old
         /\ [t EXCEPT !.st = s].epoch = t.epoch /\ [t EXCEPT !.st = s].wait = t.wait
BY DEF Calls
LEMMA CallWait ==
  ASSUME NEW t \in Calls, NEW w \in Nat
  PROVE  /\ [t EXCEPT !.wait = w] \in Calls
         /\ [t EXCEPT !.wait = w].wait = w /\ [t EXCEPT !.wait = w].by = t.by /\ [t EXCEPT !.wait = w].old = t.old
         /\ [t EXCEPT !.wait = w].epoch = t.epoch /\ [t EXCEPT !.wait = w].st = t.st
BY DEF Calls
LEMMA CallBy ==
  ASSUME NEW t \in Calls, NEW b \in {"submit", "flush", "command"}
  PROVE  /\ [t EXCEPT !.by = b] \in Calls
         /\ [t EXCEPT !.by = b].by = b /\ [t EXCEPT !.by = b].old = t.old
         /\ [t EXCEPT !.by = b].epoch = t.epoch /\ [t EXCEPT !.by = b].wait = t.wait /\ [t EXCEPT !.by = b].st = t.st
BY DEF Calls
LEMMA CallOld ==
  ASSUME NEW t \in Calls
  PROVE  /\ [t EXCEPT !.old = TRUE] \in Calls
         /\ [t EXCEPT !.old = TRUE].old = TRUE /\ [t EXCEPT !.old = TRUE].by = t.by
         /\ [t EXCEPT !.old = TRUE].epoch = t.epoch /\ [t EXCEPT !.old = TRUE].wait = t.wait /\ [t EXCEPT !.old = TRUE].st = t.st
BY DEF Calls
LEMMA CallEpoch ==
  ASSUME NEW t \in Calls, NEW e \in 0..MaxEvents
  PROVE  /\ [t EXCEPT !.epoch = e] \in Calls
         /\ [t EXCEPT !.epoch = e].epoch = e /\ [t EXCEPT !.epoch = e].by = t.by /\ [t EXCEPT !.epoch = e].old = t.old
         /\ [t EXCEPT !.epoch = e].wait = t.wait /\ [t EXCEPT !.epoch = e].st = t.st
BY DEF Calls

-----------------------------------------------------------------------------
(* The calls of switchAgent. *)

LEMMA AttemptIs ==
  ASSUME NEW f \in BOOLEAN, NEW g \in BOOLEAN
  PROVE  /\ Attempt(f, g) \in Attempts /\ Attempt(f, g).st = "begin"
         /\ Attempt(f, g).cont = f /\ Attempt(f, g).was = FALSE /\ Attempt(f, g).again = g
BY DEF Attempt, Attempts

LEMMA AttemptFields ==
  ASSUME NEW a \in Attempts
  PROVE  /\ a.st \in {"begin", "stopping", "connecting", "retiring"}
         /\ a.cont \in BOOLEAN /\ a.was \in BOOLEAN /\ a.again \in BOOLEAN
BY DEF Attempts

LEMMA LineHead ==
  ASSUME NEW c, InLine(c), c # <<>>
  PROVE  Head(c) \in Attempts /\ Head(c) = c[1] /\ Len(c) \in Nat /\ Len(c) >= 1
BY EmptySeq, LenProperties, HeadTailProperties, ElementOfSeq DEF InLine

LEMMA LineTail ==
  ASSUME NEW c, InLine(c), c # <<>>
  PROVE  /\ InLine(Tail(c)) /\ Len(Tail(c)) = Len(c) - 1
         /\ Tail(c) # <<>> => Head(Tail(c)).st = "begin"
<1>1. PICK d : d = Tail(c)  OBVIOUS
<1>2. /\ d \in Seq(Attempts) /\ Len(d) = Len(c) - 1 /\ Len(c) \in Nat /\ Len(d) \in Nat
      /\ \A i \in 1 .. Len(d) : d[i] = c[i + 1]
  BY <1>1, LenProperties, HeadTailProperties DEF InLine
<1>3. ASSUME NEW i \in 1 .. Len(d) PROVE d[i].st = "begin"
  <2>1. PICK j \in 1 .. Len(c) : j = i + 1  BY <1>2
  <2>2. d[i] = c[j] /\ j # 1  BY <1>2, <2>1
  <2> QED BY <2>2 DEF InLine
<1>4. InLine(d)  BY <1>2, <1>3 DEF InLine
<1>5. ASSUME d # <<>> PROVE Head(d).st = "begin"
  <2>1. Head(d) = d[1] /\ 1 \in 1 .. Len(d)  BY <1>4, <1>5, LineHead
  <2> QED BY <1>3, <2>1
<1> QED BY <1>1, <1>2, <1>4, <1>5

LEMMA LineChanged ==
  ASSUME NEW c, InLine(c), c # <<>>, NEW a \in Attempts
  PROVE  /\ InLine([c EXCEPT ![1] = a]) /\ Len([c EXCEPT ![1] = a]) = Len(c)
         /\ [c EXCEPT ![1] = a] # <<>> /\ Head([c EXCEPT ![1] = a]) = a
<1>1. PICK d : d = [c EXCEPT ![1] = a]  OBVIOUS
<1>2. c \in Seq(Attempts) /\ Len(c) \in Nat /\ 1 \in 1 .. Len(c)  BY LineHead DEF InLine
<1>3. /\ d \in Seq(Attempts) /\ Len(d) = Len(c) /\ d[1] = a
      /\ \A i \in 1 .. Len(c) : i # 1 => d[i] = c[i]
  BY <1>1, <1>2, ExceptAt
<1>4. InLine(d)  BY <1>2, <1>3 DEF InLine
<1>5. d # <<>>  BY <1>2, <1>3, EmptySeq
<1> QED BY <1>1, <1>3, <1>4, <1>5, LineHead

LEMMA LineMore ==
  ASSUME NEW c, InLine(c), NEW f \in BOOLEAN, NEW g \in BOOLEAN
  PROVE  /\ InLine(Append(c, Attempt(f, g))) /\ Len(Append(c, Attempt(f, g))) = Len(c) + 1
         /\ Append(c, Attempt(f, g)) # <<>>
         /\ Head(Append(c, Attempt(f, g))) = IF c = <<>> THEN Attempt(f, g) ELSE Head(c)
<1>1. PICK a \in Attempts : a = Attempt(f, g) /\ a.st = "begin"  BY AttemptIs
<1>2. PICK d : d = Append(c, a)  OBVIOUS
<1>3. /\ d \in Seq(Attempts) /\ Len(d) = Len(c) + 1 /\ Len(c) \in Nat /\ d[Len(c) + 1] = a
      /\ \A i \in 1 .. Len(c) : d[i] = c[i]
  BY <1>2, AppendProperties, LenProperties DEF InLine
<1>4. ASSUME NEW i \in 1 .. Len(d) PROVE d[i].st = "begin" \/ i = 1
  <2>1. i \in 1 .. Len(c) \/ i = Len(c) + 1  BY <1>3
  <2> QED BY <1>1, <1>3, <2>1 DEF InLine
<1>5. InLine(d) /\ d # <<>>  BY <1>3, <1>4, EmptySeq DEF InLine
<1>6. Head(d) = IF c = <<>> THEN a ELSE Head(c)
  <2>1. Head(d) = d[1]  BY <1>5, LineHead
  <2>2. CASE c = <<>>  BY <1>3, <2>1, <2>2, EmptySeq
  <2>3. CASE c # <<>>
    <3>1. Head(c) = c[1] /\ 1 \in 1 .. Len(c)  BY <2>3, LineHead
    <3> QED BY <1>3, <2>1, <2>3, <3>1
  <2> QED BY <2>2, <2>3
<1> QED BY <1>1, <1>2, <1>3, <1>5, <1>6

LEMMA LineOne ==
  ASSUME NEW f \in BOOLEAN, NEW g \in BOOLEAN
  PROVE  /\ InLine(<<Attempt(f, g)>>) /\ Len(<<Attempt(f, g)>>) = 1
         /\ <<Attempt(f, g)>> # <<>> /\ Head(<<Attempt(f, g)>>).st = "begin"
<1>1. PICK a \in Attempts : a = Attempt(f, g) /\ a.st = "begin"  BY AttemptIs
<1>2. InLine(<<a>>) /\ Len(<<a>>) = 1 /\ Head(<<a>>) = a /\ <<a>> # <<>>  BY <1>1 DEF InLine
<1> QED BY <1>1, <1>2

LEMMA LineAgain ==
  ASSUME NEW c, InLine(c), c # <<>>
  PROVE  LET d == [c EXCEPT ![Len(c)].again = TRUE]
         IN InLine(d) /\ Len(d) = Len(c) /\ d # <<>> /\ Head(d).st = Head(c).st /\ Head(d).was = Head(c).was
<1>0. c \in Seq(Attempts) /\ Len(c) \in Nat /\ 1 \in 1 .. Len(c) /\ Len(c) \in 1 .. Len(c)  BY LineHead DEF InLine
<1>1. PICK n \in 1 .. Len(c) : n = Len(c)  BY <1>0
<1>2. c[n] \in Attempts  BY <1>0, ElementOfSeq
<1>3. PICK a : a = [c[n] EXCEPT !.again = TRUE]  OBVIOUS
<1>4. a \in Attempts /\ a.st = c[n].st /\ a.was = c[n].was  BY <1>2, <1>3 DEF Attempts
<1>5. PICK d : d = [c EXCEPT ![n] = a]  OBVIOUS
<1>6. /\ d \in Seq(Attempts) /\ Len(d) = Len(c) /\ d[n] = a
      /\ \A i \in 1 .. Len(c) : i # n => d[i] = c[i]
  BY <1>0, <1>4, <1>5, ExceptAt
<1>7. \A i \in 1 .. Len(d) : d[i].st = c[i].st /\ d[i].was = c[i].was  BY <1>4, <1>6
<1>8. InLine(d) /\ d # <<>>  BY <1>0, <1>6, <1>7, EmptySeq DEF InLine
<1>9. Head(d) = d[1] /\ Head(c) = c[1]  BY <1>8, LineHead
<1>10. d = [c EXCEPT ![Len(c)].again = TRUE]  BY <1>1, <1>3, <1>5
<1> QED BY <1>0, <1>6, <1>7, <1>8, <1>9, <1>10

-----------------------------------------------------------------------------
(* Flags and counters. *)

LEMMA PlainSame ==
  ASSUME Plain
  PROVE  /\ UNCHANGED backend => PlainBackend'
         /\ UNCHANGED turn => PlainTurn'
         /\ UNCHANGED <<pendingNew, switching>> => PlainReset'
         /\ UNCHANGED wake => PlainWake'
         /\ UNCHANGED <<rejoin, events, news, session>> => PlainCounts'
BY DEF Plain, PlainBackend, PlainTurn, PlainReset, PlainWake, PlainCounts, backend, turn, wake

LEMMA ScheduleTyped ==
  ASSUME NEW q, Schedule(q), Plain, PlainReset'
  PROVE  PlainWake'
<1>1. PICK a \in BOOLEAN : a = (q # <<>>)  OBVIOUS
<1>2. switching' \in BOOLEAN  BY DEF PlainReset
<1>3. PICK b \in BOOLEAN : b = (a /\ ~switching')  OBVIOUS
<1>4. watch' = (watch \/ a) /\ drain' = (drain \/ b) /\ check' = check  BY <1>1, <1>3 DEF Schedule
<1>5. watch \in BOOLEAN /\ drain \in BOOLEAN /\ check \in BOOLEAN  BY DEF Plain, PlainWake
<1> QED BY <1>4, <1>5, Zenon DEF PlainWake

\* What is known of the flags, for Zenon.
LEMMA FlagsHad ==
  ASSUME Plain
  PROVE  /\ ready \in BOOLEAN /\ fence \in BOOLEAN /\ busy \in BOOLEAN /\ cancel \in BOOLEAN /\ steer \in BOOLEAN
         /\ grace \in BOOLEAN /\ pendingNew \in BOOLEAN /\ switching \in BOOLEAN
         /\ (grace => busy /\ cancel)
BY DEF Plain, PlainBackend, PlainTurn, PlainReset

\* An agent that is not live is not ready any more.
LEMMA ReadyTyped ==
  ASSUME Plain, UNCHANGED <<client, fence>>, ready' \in {ready, FALSE, TRUE} \/ ready' = (ready /\ client = "live")
  PROVE  PlainBackend'
<1>1. PICK a \in BOOLEAN : a = (client = "live")  OBVIOUS
<1>2. ready' \in BOOLEAN  BY <1>1, FlagsHad, Zenon
<1> QED BY <1>2 DEF Plain, PlainBackend

LEMMA SteerTyped ==
  ASSUME Plain, NEW now, SteerIf(now), now => busy, UNCHANGED busy,
         tool' \in {"none", "active", "ended"}
  PROVE  PlainTurn'
<1>1. CASE now  BY <1>1 DEF SteerIf, Plain, PlainTurn
<1>2. CASE ~now
  <2>1. steer' = (steer \/ FALSE) /\ cancel' = (cancel \/ FALSE) /\ grace' = (grace \/ FALSE)  BY <1>2 DEF SteerIf
  <2>2. steer' = steer /\ cancel' = cancel /\ grace' = grace  BY <2>1, FlagsHad, Zenon
  <2> QED BY <2>2 DEF Plain, PlainTurn
<1> QED BY <1>1, <1>2

LEMMA InterruptTyped ==
  ASSUME Plain, Interrupt, busy, UNCHANGED <<busy, tool>>, steer' \in BOOLEAN
  PROVE  PlainTurn'
BY DEF Interrupt, Plain, PlainTurn

LEMMA SendTyped ==
  ASSUME Plain, NEW t, NEW e, NEW b, NEW ts, Send(t, e, b, ts), UNCHANGED <<pendingNew, switching>>, ~busy
  PROVE  PlainTurn' /\ PlainWake'
<1>1. CASE Local(t)
  <2>1. /\ busy' = FALSE /\ grace' = FALSE /\ cancel' = FALSE /\ steer' = FALSE /\ tool' = "none"
        /\ Schedule(queue)
    BY <1>1 DEF Send
  <2> QED BY <2>1, PlainSame, ScheduleTyped DEF PlainTurn
<1>2. CASE ~Local(t)
  <2>1. /\ busy' = TRUE /\ grace' = grace /\ cancel' = FALSE /\ steer' = FALSE /\ tool' = "none"
        /\ UNCHANGED wake
    BY <1>2 DEF Send
  <2>2. ~grace /\ grace \in BOOLEAN  BY FlagsHad
  <2> QED BY <2>1, <2>2, PlainSame DEF PlainTurn
<1> QED BY <1>1, <1>2

LEMMA StartsTyped ==
  ASSUME IInv, conn # <<>>, Starts
  PROVE  PlainTurn' /\ PlainReset' /\ (fence' = fence => PlainBackend')
<1>1. Head(conn) \in Attempts  BY LineHead DEF IInv, Connection
<1>2. Head(conn).cont \in BOOLEAN  BY <1>1, AttemptFields
<1> QED BY <1>2 DEF Starts, PlainTurn, PlainReset, PlainBackend, IInv, Plain

LEMMA EndsTyped ==
  ASSUME Plain, AttemptEnds, UNCHANGED <<events, news, session>>
  PROVE  PlainCounts'
BY DEF AttemptEnds, Plain, PlainCounts

LEMMA PlainFinally ==
  ASSUME IInv, NEW i \in DOMAIN tasks, Finally(i)
  PROVE  Plain'
<1>0. Plain  BY DEF IInv
<1>1. UNCHANGED <<client, fence, cancel, steer, news, session, rejoin, events>> /\ TurnEnds(i)  BY DEF Finally
<1>2. PlainCounts'  BY <1>0, <1>1, PlainSame
<1>3. CASE tasks[i].old
  <2>1. UNCHANGED <<busy, grace, unsend, tool, pendingNew, switching, ready, wake>>  BY <1>1, <1>3 DEF TurnEnds
  <2> QED BY <1>0, <1>1, <1>2, <2>1, PlainSame DEF Plain, backend, turn
<1>4. CASE ~tasks[i].old
  <2>1. TurnEnds_AnyClient(i)  BY <1>1, <1>4 DEF TurnEnds
  <2>2. busy' = FALSE /\ grace' = FALSE /\ tool' = Ended(tool) /\ pendingNew' = FALSE
    BY <2>1 DEF TurnEnds_AnyClient
  <2>3. PlainTurn'  BY <1>0, <1>1, <2>2 DEF Plain, PlainTurn, Ended
  <2>4. CASE pendingNew
    <3>1. ready' = (ready /\ client = "live") /\ switching' = TRUE /\ UNCHANGED wake
      BY <2>1, <2>4 DEF TurnEnds_AnyClient, BeginNew
    <3> QED BY <1>0, <1>1, <1>2, <2>2, <2>3, <3>1, PlainSame, ReadyTyped DEF Plain, PlainReset
  <2>5. CASE ~pendingNew
    <3>1. UNCHANGED <<ready, switching>> /\ (UNCHANGED wake \/ Schedule(queue))
      BY <2>1, <2>5 DEF TurnEnds_AnyClient
    <3>2. PlainReset'  BY <1>0, <2>2, <3>1 DEF Plain, PlainReset
    <3> QED BY <1>0, <1>1, <1>2, <2>3, <3>1, <3>2, PlainSame, ReadyTyped, ScheduleTyped DEF Plain
  <2> QED BY <2>4, <2>5
<1> QED BY <1>3, <1>4

LEMMA PlainContinue ==
  ASSUME IInv, NEW i \in DOMAIN tasks, Continue(i)
  PROVE  Plain'
<1>0. Plain  BY DEF IInv
<1>1. UNCHANGED <<backend, events, rejoin>>  BY DEF Continue
<1>2. CASE tasks[i].by = "flush" /\ Flushable
  <2>1. /\ UNCHANGED reset /\ ~busy
        /\ Send(Head(queue).text, Head(queue).epoch, "flush", RemoveAt(tasks, i))
    BY <1>2 DEF Continue, Flushable
  <2>2. PlainTurn' /\ PlainWake'  BY <1>0, <2>1, SendTyped DEF reset
  <2> QED BY <1>0, <1>1, <2>1, <2>2, PlainSame DEF Plain, reset
<1>3. CASE ~(tasks[i].by = "flush" /\ Flushable)
  <2>1. UNCHANGED <<turn, reset, wake>>  BY <1>3 DEF Continue
  <2> QED BY <1>0, <1>1, <2>1, PlainSame DEF Plain, reset
<1> QED BY <1>2, <1>3

LEMMA PlainSettles ==
  ASSUME IInv, NEW i \in DOMAIN tasks, NewSettles(i) \/ JoinSettles(i)
  PROVE  Plain'
<1>0. Plain  BY DEF IInv
<1>1. CASE NewSettles(i)
  <2>1. UNCHANGED <<client, fence, busy, cancel, steer, grace, tool, pendingNew, news, conn, rejoin, events>>
    BY <1>1 DEF NewSettles
  <2>2. PlainTurn'  BY <1>0, <2>1 DEF Plain, PlainTurn
  <2>3. CASE tasks[i].old
    <3>1. UNCHANGED <<ready, switching, session, wake>>  BY <1>1, <2>3 DEF NewSettles
    <3> QED BY <1>0, <2>1, <2>2, <3>1, PlainSame, ReadyTyped DEF Plain
  <2>4. CASE ~tasks[i].old
    <3>1. /\ ready' = (ready /\ client = "live") /\ switching' = FALSE /\ session' = news
          /\ UNCHANGED wake \/ Schedule(queue)
      BY <1>1, <2>4 DEF NewSettles
    <3>2a. PlainReset'
      <4>1. pendingNew' \in BOOLEAN  BY <1>0, <2>1, FlagsHad
      <4>2. switching' \in BOOLEAN  BY <3>1
      <4> QED BY <4>1, <4>2 DEF PlainReset
    <3>2b. PlainCounts'
      <4>1. session' = news /\ UNCHANGED <<news, events, rejoin>>  BY <2>1, <3>1
      <4> QED BY <1>0, <4>1 DEF Plain, PlainCounts
    <3>2. PlainReset' /\ PlainCounts'  BY <3>2a, <3>2b
    <3>3. PlainBackend'  BY <1>0, <2>1, <3>1, ReadyTyped
    <3>4. PlainWake'  BY <1>0, <3>1, <3>2, PlainSame, ScheduleTyped
    <3> QED BY <2>2, <3>2, <3>3, <3>4 DEF Plain
  <2> QED BY <2>3, <2>4
<1>2. CASE JoinSettles(i)
  <2>1. /\ UNCHANGED <<backend, busy, cancel, steer, grace, tool, pendingNew, news, session, conn, rejoin, events>>
        /\ switching' = FALSE /\ (UNCHANGED wake \/ Schedule(queue))
    BY <1>2 DEF JoinSettles
  <2>2. PlainTurn' /\ PlainReset'  BY <1>0, <2>1 DEF Plain, PlainTurn, PlainReset
  <2> QED BY <1>0, <2>1, <2>2, PlainSame, ScheduleTyped DEF Plain
<1> QED BY <1>1, <1>2

LEMMA PlainSwitches ==
  ASSUME IInv, SwitchBegins \/ Stopped
  PROVE  Plain'
<1>0. Plain /\ Connection  BY DEF IInv
<1>1. conn # <<>> /\ UNCHANGED <<events, wake>>  BY DEF SwitchBegins, Stopped
<1>2. Head(conn).was \in BOOLEAN  BY <1>0, <1>1, LineHead, AttemptFields DEF Connection
<1>3. CASE Starts /\ UNCHANGED <<fence, news, session, rejoin>>
  BY <1>0, <1>1, <1>3, StartsTyped, PlainSame DEF Plain
<1>4. CASE SwitchBegins /\ fence
  <2>1. UNCHANGED <<backend, turn, reset>> /\ AttemptEnds  BY <1>4 DEF SwitchBegins
  <2> QED BY <1>0, <1>1, <2>1, EndsTyped, PlainSame DEF Plain, reset
<1>5. CASE SwitchBegins /\ ~fence /\ client # "none"
  <2>1. /\ UNCHANGED <<fence, news, session, rejoin, turn, pendingNew>>
        /\ client' = "none" /\ ready' = FALSE /\ switching' = TRUE
    BY <1>5 DEF SwitchBegins
  <2>2. PlainBackend' /\ PlainReset'  BY <1>0, <2>1 DEF Plain, PlainBackend, PlainReset
  <2> QED BY <1>0, <1>1, <2>1, <2>2, PlainSame DEF Plain
<1>6. CASE Stopped /\ ~Starts
  <2>1. /\ fence' = TRUE /\ switching' = Head(conn).was /\ AttemptEnds
        /\ UNCHANGED <<client, ready, turn, pendingNew, news, session>>
    BY <1>6 DEF Stopped
  <2>2. PlainBackend' /\ PlainReset'  BY <1>0, <1>2, <2>1 DEF Plain, PlainBackend, PlainReset
  <2> QED BY <1>0, <1>1, <2>1, <2>2, EndsTyped, PlainSame DEF Plain
<1>7. SwitchBegins /\ ~fence /\ client = "none" => Starts /\ UNCHANGED <<fence, news, session, rejoin>>
  BY DEF SwitchBegins
<1>8. Stopped /\ Starts => UNCHANGED <<fence, news, session, rejoin>> \/ (fence' = TRUE /\ client' = client)
  BY DEF Stopped
<1>9. CASE Stopped /\ Starts /\ fence' = TRUE /\ client' = client
  \* The alternative of a failed stop, with the agent that Starts names: not from here.
  <2>1. client = "none" /\ client' = "live"
    BY <1>0, <1>9 DEF Stopped, Starts, Connection
  <2> QED BY <1>9, <2>1
<1> QED BY <1>3, <1>4, <1>5, <1>6, <1>7, <1>8, <1>9

LEMMA PlainJoins ==
  ASSUME IInv, Rejoin \/ Rejoined \/ CheckEnds \/ Harness
  PROVE  Plain'
<1>0. Plain  BY DEF IInv
<1>1. CASE Rejoin
  <2>1. UNCHANGED <<backend, turn, reset, wake, events>> /\ rejoin' \in {"no", "joined"}  BY <1>1 DEF Rejoin
  <2>2. PlainCounts'  BY <1>0, <2>1 DEF Plain, PlainCounts, reset
  <2> QED BY <1>0, <2>1, <2>2, PlainSame DEF Plain, reset
<1>2. CASE Rejoined
  <2>1. UNCHANGED <<backend, turn, reset, events>> /\ rejoin' = "no" /\ (UNCHANGED wake \/ Schedule(queue))
    BY <1>2 DEF Rejoined
  <2>2. PlainCounts'  BY <1>0, <2>1 DEF Plain, PlainCounts, reset
  <2> QED BY <1>0, <2>1, <2>2, PlainSame, ScheduleTyped DEF Plain, reset
<1>3. CASE CheckEnds
  <2>1. UNCHANGED <<backend, turn, reset, rejoin, drain, events>> /\ check' = FALSE  BY <1>3 DEF CheckEnds
  <2>2. PICK a \in BOOLEAN : a = (queue # <<>> /\ (Live \/ conn # <<>> \/ switching))  OBVIOUS
  <2>3. watch' = (watch \/ a)  BY <1>3, <2>2 DEF CheckEnds
  <2>4. watch \in BOOLEAN /\ drain \in BOOLEAN  BY <1>0 DEF Plain, PlainWake
  <2>5. watch' \in BOOLEAN  BY <2>3, <2>4, Zenon
  <2> QED BY <1>0, <2>1, <2>4, <2>5, PlainSame DEF Plain, PlainWake, reset
<1>4. CASE Harness
  <2>1. UNCHANGED <<backend, turn, reset, wake, rejoin>> /\ events < MaxEvents /\ events' = events + 1
    BY <1>4 DEF Harness
  <2>2. PlainCounts'  BY <1>0, <2>1 DEF Plain, PlainCounts, reset
  <2> QED BY <1>0, <2>1, <2>2, PlainSame DEF Plain, reset
<1> QED BY <1>1, <1>2, <1>3, <1>4

LEMMA PlainSubmits ==
  ASSUME IInv, NEW timing, Submit(timing)
  PROVE  Plain'
<1>0. Plain  BY DEF IInv
<1>1. UNCHANGED <<client, fence, reset, rejoin, events>>  BY DEF Submit
<1>2. PlainReset' /\ PlainCounts'  BY <1>0, <1>1, PlainSame DEF reset
<1>3. CASE SubmitOffline /\ fence
  <2>1. UNCHANGED <<turn, wake>> /\ ready' = (ready /\ client = "live")  BY <1>3 DEF SubmitOffline
  <2> QED BY <1>0, <1>1, <1>2, <2>1, PlainSame, ReadyTyped DEF Plain
<1>4. ASSUME NEW m, Enqueue(composer, m), UNCHANGED <<busy, tool>>
      PROVE  PlainTurn' /\ PlainWake'
  <2>1. PICK now \in BOOLEAN : now = (m = "afterTool" /\ Steers(queue') /\ tool = "ended")  OBVIOUS
  <2>2. SteerIf(now) /\ Schedule(queue') /\ (now => busy)  BY <1>4, <2>1 DEF Enqueue, Steers
  <2>3. tool' \in {"none", "active", "ended"}  BY <1>0, <1>4 DEF Plain, PlainTurn
  <2> QED BY <1>0, <1>2, <1>4, <2>2, <2>3, SteerTyped, ScheduleTyped
<1>5. CASE SubmitOffline /\ ~fence
  <2>1. UNCHANGED <<busy, unsend, tool>> /\ ready' = (ready /\ client = "live") /\ Enqueue(composer, "afterTurn")
    BY <1>5 DEF SubmitOffline
  <2> QED BY <1>0, <1>1, <1>2, <1>4, <2>1, ReadyTyped DEF Plain
<1>6. CASE SubmitQueued(timing)
  <2>1. UNCHANGED <<ready, busy, unsend, tool>> /\ Enqueue(composer, IF busy /\ ~Local(composer) THEN timing ELSE "afterTurn")
    BY <1>6 DEF SubmitQueued
  <2> QED BY <1>0, <1>1, <1>2, <1>4, <2>1, ReadyTyped DEF Plain
<1>7. CASE SubmitNow
  <2>1. Send(composer, news, "submit", tasks) /\ ~busy /\ UNCHANGED ready  BY <1>7 DEF SubmitNow
  <2>2. PlainTurn' /\ PlainWake'  BY <1>0, <1>1, <2>1, SendTyped DEF reset
  <2> QED BY <1>0, <1>1, <1>2, <2>1, <2>2, ReadyTyped DEF Plain
<1> QED BY <1>3, <1>5, <1>6, <1>7 DEF Submit

LEMMA PlainUses ==
  ASSUME IInv, (\E p \in Prompts : Type(p)) \/ Unqueue \/ Escape \/ New
  PROVE  Plain'
<1>0. Plain  BY DEF IInv
<1>1. CASE (\E p \in Prompts : Type(p)) \/ Unqueue
  BY <1>0, <1>1, PlainSame DEF Plain, Type, Unqueue, reset
<1>2. CASE Escape
  <2>1. UNCHANGED <<backend, busy, tool, reset, rejoin, wake, events>> /\ busy /\ (Retract \/ Stop)
    BY <1>2 DEF Escape
  <2>2. PlainTurn'
    <3>1. CASE Retract  BY <1>0, <2>1, <3>1 DEF Retract, Plain, PlainTurn
    <3>2. CASE Stop
      <4>1. PICK a \in BOOLEAN : a = HasSteering(queue)  BY DEF HasSteering
      <4>2. steer' = (steer \/ (~cancel /\ a)) /\ Interrupt  BY <3>2, <4>1 DEF Stop
      <4>3. steer' \in BOOLEAN  BY <1>0, <4>1, <4>2, FlagsHad, Zenon
      <4> QED BY <1>0, <2>1, <4>2, <4>3, InterruptTyped
    <3> QED BY <2>1, <3>1, <3>2
  <2> QED BY <1>0, <2>1, <2>2, PlainSame DEF Plain, reset
<1>3. CASE New
  <2>1. /\ UNCHANGED <<client, fence, busy, steer, tool, session, rejoin, wake>>
        /\ events < MaxEvents /\ events' = events + 1 /\ news' = news + 1 /\ switching' = TRUE
    BY <1>3 DEF New, BeginNew
  <2>2. PlainCounts' /\ PlainWake'
    <3>1. PlainWake'  BY <1>0, <2>1, PlainSame
    <3>2. /\ events \in Nat /\ news \in Nat /\ session \in Nat /\ news <= events /\ session <= news
          /\ rejoin \in {"no", "due", "joined", "ended"}
      BY <1>0 DEF Plain, PlainCounts
    <3>3. events' \in 0..MaxEvents /\ news' \in 0..events' /\ session' \in 0..news'  BY <2>1, <3>2
    <3> QED BY <2>1, <3>1, <3>2, <3>3 DEF PlainCounts
  <2>3. CASE Live /\ busy
    <3>1. pendingNew' = TRUE /\ Interrupt /\ UNCHANGED ready  BY <1>3, <2>3 DEF New
    <3>2. PlainTurn'  BY <1>0, <2>1, <2>3, <3>1, InterruptTyped, FlagsHad
    <3>3. PlainReset'  BY <2>1, <3>1 DEF PlainReset
    <3> QED BY <1>0, <2>1, <2>2, <3>1, <3>2, <3>3, ReadyTyped DEF Plain
  <2>4. CASE ~(Live /\ busy)
    <3>1. ready' = (ready /\ client = "live") /\ UNCHANGED <<pendingNew, cancel, grace>>
      BY <1>3, <2>4 DEF New, BeginNew
    <3>2. PlainTurn' /\ PlainReset'  BY <1>0, <2>1, <3>1 DEF Plain, PlainTurn, PlainReset
    <3> QED BY <1>0, <2>1, <2>2, <3>1, <3>2, ReadyTyped DEF Plain
  <2> QED BY <2>3, <2>4
<1> QED BY <1>1, <1>2, <1>3

LEMMA PlainFires ==
  ASSUME IInv, Timers
  PROVE  Plain'
<1>0. Plain  BY DEF IInv
<1>1. CASE GraceFires
  <2>1. UNCHANGED <<backend, busy, cancel, steer, unsend, tool, reset, rejoin, wake, events>> /\ grace' = FALSE
    BY <1>1 DEF GraceFires
  <2>2. PlainTurn'  BY <1>0, <2>1 DEF Plain, PlainTurn
  <2> QED BY <1>0, <2>1, <2>2, PlainSame DEF Plain, reset
<1>2. CASE DrainFires
  <2>1. UNCHANGED <<backend, turn, reset, rejoin, watch, check, events>> /\ drain' = FALSE  BY <1>2 DEF DrainFires
  <2>2. PlainWake'  BY <1>0, <2>1 DEF Plain, PlainWake
  <2> QED BY <1>0, <2>1, <2>2, PlainSame DEF Plain, reset
<1>3. CASE WatchFires
  <2>1. UNCHANGED <<backend, turn, reset, rejoin, drain, events>>  BY <1>3 DEF WatchFires
  <2>2. PICK a \in BOOLEAN : a = (queue # <<>> /\ (conn # <<>> \/ switching))  OBVIOUS
  <2>3. check' \in {check, TRUE} /\ watch' \in {FALSE, a}  BY <1>3, <2>2 DEF WatchFires
  <2>4. PlainWake'  BY <1>0, <2>1, <2>3 DEF Plain, PlainWake
  <2> QED BY <1>0, <2>1, <2>4, PlainSame DEF Plain, reset
<1> QED BY <1>1, <1>2, <1>3 DEF Timers

LEMMA PlainBackends ==
  ASSUME IInv, Backend
  PROVE  Plain'
<1>0. Plain  BY DEF IInv
<1>1. ASSUME NEW i \in DOMAIN tasks, Prepared(i) \/ TurnAnswered(i) PROVE Plain'
  BY <1>0, <1>1, PlainSame DEF Plain, Prepared, TurnAnswered, reset
<1>2. ASSUME NEW i \in DOMAIN tasks, NewAnswered(i) PROVE Plain'
  <2>1. UNCHANGED <<backend, turn, pendingNew, switching, news, rejoin, wake, events>> /\ session' \in {session, news}
    BY <1>2 DEF NewAnswered
  <2>2. PlainCounts'  BY <1>0, <2>1 DEF Plain, PlainCounts
  <2> QED BY <1>0, <2>1, <2>2, PlainSame DEF Plain
<1>3. CASE Shows \/ ToolStarts \/ ToolEnds
  <2>1. /\ UNCHANGED <<backend, busy, reset, rejoin, wake, events>> /\ busy
        /\ tool' \in {tool, "active", "ended"} /\ \E now : SteerIf(now) /\ (now => busy)
    <3>1. CASE Shows \/ ToolStarts
      <4>1. /\ UNCHANGED <<backend, busy, reset, rejoin, wake, events, cancel, steer, grace>> /\ busy
            /\ tool' \in {tool, "active"}
        BY <3>1 DEF Shows, ToolStarts, Frame
      <4>2. SteerIf(FALSE)  BY <1>0, <4>1, FlagsHad DEF SteerIf
      <4> QED BY <4>1, <4>2
    <3>2. CASE ToolEnds  BY <3>2 DEF ToolEnds, Frame
    <3> QED BY <1>3, <3>1, <3>2
  <2>2. PICK now : SteerIf(now) /\ (now => busy)  BY <2>1
  <2>3. tool' \in {"none", "active", "ended"}  BY <1>0, <2>1 DEF Plain, PlainTurn
  <2>4. PlainTurn'  BY <1>0, <2>1, <2>2, <2>3, SteerTyped
  <2> QED BY <1>0, <2>1, <2>4, PlainSame DEF Plain, reset
<1>4. CASE Stopped  BY <1>4, PlainSwitches
<1>5. CASE Connected
  <2>1. /\ UNCHANGED <<client, fence, turn, pendingNew, switching, news, events>>
        /\ ready' = TRUE /\ session' = news /\ AttemptEnds /\ (UNCHANGED wake \/ Schedule(queue))
    BY <1>5 DEF Connected
  <2>2. PlainBackend' /\ PlainCounts'  BY <1>0, <2>1 DEF Plain, PlainBackend, PlainCounts, AttemptEnds
  <2> QED BY <1>0, <2>1, <2>2, PlainSame, ScheduleTyped DEF Plain
<1>6. CASE ConnectFails
  <2>1. /\ UNCHANGED <<ready, fence, turn, reset, rejoin, wake>> /\ client' = "closed"
        /\ events' = events \/ (events < MaxEvents /\ events' = events + 1)
    BY <1>6 DEF ConnectFails
  <2>2. PlainBackend' /\ PlainCounts'  BY <1>0, <2>1 DEF Plain, PlainBackend, PlainCounts, reset
  <2> QED BY <1>0, <2>1, <2>2, PlainSame DEF Plain, reset
<1>7. CASE Retired
  <2>1. /\ UNCHANGED <<client, turn, reset, wake, events>> /\ ready' = FALSE /\ fence' \in {fence, TRUE} /\ AttemptEnds
    BY <1>7 DEF Retired
  <2>2. PlainBackend'  BY <1>0, <2>1 DEF Plain, PlainBackend
  <2> QED BY <1>0, <2>1, <2>2, EndsTyped, PlainSame DEF Plain, reset
<1>8. CASE ChildExit
  <2>1. /\ UNCHANGED <<ready, fence, turn, reset, rejoin, wake>> /\ client' = "exited"
        /\ events < MaxEvents /\ events' = events + 1
    BY <1>8 DEF ChildExit
  <2>2. PlainBackend' /\ PlainCounts'  BY <1>0, <2>1 DEF Plain, PlainBackend, PlainCounts, reset
  <2> QED BY <1>0, <2>1, <2>2, PlainSame DEF Plain, reset
<1>9. CASE ChildClose
  <2>1. /\ UNCHANGED <<fence, tool, reset, wake, events>> /\ client' = "closed" /\ ready' = FALSE
        /\ busy' = FALSE /\ cancel' = FALSE /\ steer' = FALSE /\ grace' = FALSE
        /\ rejoin' \in {"due", rejoin}
    BY <1>9 DEF ChildClose
  <2>2. PlainBackend' /\ PlainTurn' /\ PlainCounts'
    BY <1>0, <2>1 DEF Plain, PlainBackend, PlainTurn, PlainCounts, reset
  <2> QED BY <1>0, <2>1, <2>2, PlainSame DEF Plain, reset
<1> QED BY <1>1, <1>2, <1>3, <1>4, <1>5, <1>6, <1>7, <1>8, <1>9 DEF Backend

LEMMA PlainNext ==
  ASSUME IInv, Next
  PROVE  Plain'
<1>1. CASE Continuations  BY <1>1, PlainFinally, PlainContinue, PlainSettles, PlainSwitches, PlainJoins DEF Continuations
<1>2. CASE User  BY <1>2, PlainUses, PlainSubmits, PlainJoins DEF User
<1> QED BY <1>1, <1>2, PlainFires, PlainBackends DEF Next

-----------------------------------------------------------------------------
(* Input, under every action. *)

LEMMA InputContinues ==
  ASSUME IInv, Continuations
  PROVE  Input'
<1>0. Input /\ Plain  BY DEF IInv
<1>1. ASSUME NEW i \in DOMAIN tasks, Finally(i) PROVE Input'
  <2>1. UNCHANGED <<typed, composer, queue, gone, news>>  BY <1>1 DEF Finally, text
  <2>2. unsend' \in {unsend, <<>>}  BY <1>1 DEF Finally, TurnEnds, TurnEnds_AnyClient
  <2> QED BY <1>0, <2>1, <2>2, TextSame
<1>2. ASSUME NEW i \in DOMAIN tasks, Continue(i) PROVE Input'
  <2>1. UNCHANGED <<typed, composer>>  BY <1>2 DEF Continue
  <2>2. CASE tasks[i].by = "flush" /\ Flushable
    <3>1. /\ queue # <<>> /\ queue' = Tail(queue) /\ UNCHANGED news
          /\ Send(Head(queue).text, Head(queue).epoch, "flush", RemoveAt(tasks, i))
      BY <1>2, <2>2 DEF Continue, Flushable, reset
    <3>2. gone' = gone \cup Range(Head(queue).text) /\ unsend' \in {<<>>, Head(queue).text}  BY <3>1 DEF Send
    <3> QED BY <1>0, <2>1, <3>1, <3>2, HeadGiven
  <2>3. CASE ~(tasks[i].by = "flush" /\ Flushable)
    <3>1. UNCHANGED <<queue, gone, unsend, news>>  BY <1>2, <2>3 DEF Continue, turn, reset
    <3> QED BY <1>0, <2>1, <3>1, TextSame
  <2> QED BY <2>2, <2>3
<1>3. ASSUME NEW i \in DOMAIN tasks, NewSettles(i) \/ JoinSettles(i) PROVE Input'
  <2>1. UNCHANGED news /\ unsend' \in {unsend, <<>>}  BY <1>3 DEF NewSettles, JoinSettles
  <2>2. UNCHANGED text \/ RestoreInput  BY <1>3 DEF NewSettles, JoinSettles
  <2> QED BY <1>0, <2>1, <2>2, TextSame, TextRestored DEF text
<1>4. ASSUME SwitchBegins PROVE Input'
  <2>1. UNCHANGED <<text, news>> /\ unsend' \in {unsend, <<>>}  BY <1>4 DEF SwitchBegins, Starts, turn, reset
  <2> QED BY <1>0, <2>1, TextSame DEF text
<1>5. ASSUME Rejoin \/ Rejoined \/ CheckEnds PROVE Input'
  <2>1. UNCHANGED <<text, turn, reset>>  BY <1>5 DEF Rejoin, Rejoined, CheckEnds
  <2> QED BY <1>0, <2>1, TextSame DEF text, turn, reset
<1> QED BY <1>1, <1>2, <1>3, <1>4, <1>5 DEF Continuations

LEMMA InputSubmits ==
  ASSUME IInv, NEW timing \in {"afterTool", "afterTurn"}, Submit(timing)
  PROVE  Input'
<1>0. Input /\ Plain  BY DEF IInv
<1>1. UNCHANGED <<typed, news>>  BY DEF Submit, reset
<1>2. CASE SubmitOffline /\ fence
  <2>1. RestoreInput /\ UNCHANGED unsend  BY <1>1, <1>2 DEF SubmitOffline, RestoreInput, turn
  <2> QED BY <1>0, <1>1, <2>1, TextRestored
<1>3. ASSUME NEW m \in {"afterTool", "afterTurn"}, Enqueue(composer, m), composer' = <<>>, UNCHANGED <<gone, unsend>>
      PROVE  Input'
  <2>1. queue' = Append(queue, [text |-> composer, timing |-> m, epoch |-> news])  BY <1>3 DEF Enqueue
  <2> QED BY <1>0, <1>1, <1>3, <2>1, TextQueued
<1>4. CASE SubmitOffline /\ ~fence  BY <1>3, <1>4 DEF SubmitOffline
<1>5. CASE SubmitQueued(timing)
  <2>1. PICK m \in {"afterTool", "afterTurn"} : m = (IF busy /\ ~Local(composer) THEN timing ELSE "afterTurn")
    OBVIOUS
  <2> QED BY <1>3, <1>5, <2>1 DEF SubmitQueued
<1>6. CASE SubmitNow
  <2>1. composer' = <<>> /\ UNCHANGED queue /\ Send(composer, news, "submit", tasks)  BY <1>6 DEF SubmitNow
  <2>2. gone' = gone \cup Range(composer) /\ unsend' \in {<<>>, composer}  BY <2>1 DEF Send
  <2> QED BY <1>0, <1>1, <2>1, <2>2, TextGiven
<1> QED BY <1>2, <1>4, <1>5, <1>6 DEF Submit

LEMMA InputUsers ==
  ASSUME IInv, User
  PROVE  Input'
<1>0. Input /\ Plain  BY DEF IInv
<1>1. CASE Escape
  <2>1. UNCHANGED <<typed, news>> /\ (Retract \/ Stop)  BY <1>1 DEF Escape, Retract, Stop, RestoreInput, text, reset
  <2>2. CASE Retract  BY <1>0, <2>1, <2>2, InputRetracts
  <2>3. CASE Stop
    <3>1. unsend' \in {unsend, <<>>} /\ (UNCHANGED text \/ RestoreInput)  BY <2>3 DEF Stop
    <3> QED BY <1>0, <2>1, <3>1, TextSame, TextRestored DEF text
  <2> QED BY <2>1, <2>2, <2>3
<1>2. CASE New
  <2>1. queue' = <<>> /\ gone' = gone \cup Range(Texts(queue)) /\ UNCHANGED <<typed, composer, unsend>>
    BY <1>2 DEF New
  <2> QED BY <1>0, <2>1, InputDropped
<1>3. CASE Harness
  <2>1. UNCHANGED <<text, turn, reset>>  BY <1>3 DEF Harness
  <2> QED BY <1>0, <2>1, TextSame DEF text, turn, reset
<1> QED BY <1>0, <1>1, <1>2, <1>3, InputSubmits, InputTypes, InputUnqueues DEF User

LEMMA InputElse ==
  ASSUME IInv, Timers \/ Backend
  PROVE  Input'
<1>0. Input  BY DEF IInv
<1>1. UNCHANGED <<text, news>>
  BY DEF Timers, Backend, GraceFires, DrainFires, WatchFires, Prepared, TurnAnswered, NewAnswered, Frame, Shows,
         ToolStarts, ToolEnds, Stopped, Connected, ConnectFails, Retired, ChildExit, ChildClose, reset
<1>2. unsend' \in {unsend, <<>>}
  BY DEF Timers, Backend, GraceFires, DrainFires, WatchFires, Prepared, TurnAnswered, NewAnswered, Frame, Shows,
         ToolStarts, ToolEnds, Stopped, Starts, Connected, ConnectFails, Retired, ChildExit, ChildClose, turn
<1> QED BY <1>0, <1>1, <1>2, TextSame DEF text

LEMMA InputNext ==
  ASSUME IInv, Next
  PROVE  Input'
BY InputContinues, InputUsers, InputElse DEF Next

-----------------------------------------------------------------------------
(* The agent and its line of switches. *)

LEMMA CallHere ==
  ASSUME IInv, NEW i \in DOMAIN tasks
  PROVE  i \in 1 .. Len(tasks) /\ tasks[i] \in Calls /\ Fits(tasks[i])
<1>1. tasks \in Seq(Calls)  BY DEF IInv, Callers
<1>2. i \in 1 .. Len(tasks)  BY <1>1, LenProperties
<1> QED BY <1>1, <1>2, ElementOfSeq DEF IInv, Callers

LEMMA ConnectionSame ==
  ASSUME Connection, UNCHANGED <<backend, reset, conn>>
  PROVE  Connection'
BY DEF Connection, InLine, Connecting, Live, backend, reset

LEMMA ConnectionBegins ==
  ASSUME Connection, Plain, NEW ts, NEW i, BeginNew(ts, i), UNCHANGED <<client, fence>>, pendingNew' \in {pendingNew, FALSE}
  PROVE  Connection'
<1>1. switching' = TRUE /\ ready' = (ready /\ client = "live")  BY DEF BeginNew
<1>2. CASE conn' = conn
  <2>1. (ready' => ready) /\ (pendingNew' => pendingNew)
    <3>1. ready' => ready  BY <1>1
    <3>2. pendingNew' = pendingNew \/ pendingNew' = FALSE  OBVIOUS
    <3>3. pendingNew' => pendingNew  BY <3>2
    <3> QED BY <3>1, <3>3
  <2>2. InLine(conn)'  BY <1>2 DEF Connection, InLine
  <2>3. (Connecting' <=> Connecting)  BY <1>2 DEF Connecting
  <2> QED BY <1>1, <1>2, <2>1, <2>2, <2>3 DEF Connection, Live
<1>3. CASE conn' = <<Attempt(TRUE, FALSE)>> /\ ~Live
  <2>1. InLine(conn') /\ Head(conn').st = "begin"  BY <1>3, LineOne
  <2>2. ~ready'  BY <1>1, <1>3 DEF Live
  <2>3. InLine(conn)' BY <2>1 DEF InLine
  <2> QED BY <1>1, <2>1, <2>2, <2>3 DEF Connection, Connecting, Live
<1> QED BY <1>2, <1>3 DEF BeginNew

LEMMA ConnectionStarts ==
  ASSUME IInv, Starts, UNCHANGED fence, ~fence, conn # <<>>
  PROVE  Connection'
<1>0. Connection  BY DEF IInv
<1>1. /\ client' = "live" /\ ready' = FALSE /\ pendingNew' = FALSE
      /\ conn' = [conn EXCEPT ![1].st = "connecting"]
  BY DEF Starts
<1>2. PICK a : a = [Head(conn) EXCEPT !.st = "connecting"]  OBVIOUS
<1>3. Head(conn) \in Attempts /\ Head(conn) = conn[1] /\ 1 \in DOMAIN conn
  BY <1>0, LineHead, LenProperties DEF Connection, InLine
<1>4. a \in Attempts /\ a.st = "connecting"  BY <1>2, <1>3 DEF Attempts
<1>5. conn' = [conn EXCEPT ![1] = a]  BY <1>1, <1>2, <1>3
<1>6. InLine(conn') /\ conn' # <<>> /\ Head(conn') = a  BY <1>0, <1>4, <1>5, LineChanged DEF Connection
<1>7. InLine(conn)'  BY <1>6 DEF InLine
<1> QED BY <1>0, <1>1, <1>4, <1>6, <1>7 DEF Connection, Connecting, Live

LEMMA ConnectionContinues ==
  ASSUME IInv, Continuations
  PROVE  Connection'
<1>0. Connection /\ Plain  BY DEF IInv
<1>1. ASSUME NEW i \in DOMAIN tasks, Finally(i) PROVE Connection'
  <2>1. UNCHANGED <<client, fence, news, session>> /\ TurnEnds(i)  BY <1>1 DEF Finally
  <2>2. CASE tasks[i].old
    <3>1. UNCHANGED <<ready, pendingNew, switching, conn>>  BY <2>1, <2>2 DEF TurnEnds
    <3> QED BY <1>0, <2>1, <3>1, ConnectionSame DEF backend, reset
  <2>3. CASE ~tasks[i].old
    <3>1. TurnEnds_AnyClient(i)  BY <2>1, <2>3 DEF TurnEnds
    <3>2. CASE pendingNew
      <4>1. BeginNew(tasks, i) /\ pendingNew' = FALSE  BY <3>1, <3>2 DEF TurnEnds_AnyClient
      <4> QED BY <1>0, <2>1, <4>1, ConnectionBegins
    <3>3. CASE ~pendingNew
      <4>1. UNCHANGED <<ready, switching, conn>> /\ pendingNew' = FALSE  BY <3>1, <3>3 DEF TurnEnds_AnyClient
      <4>2. UNCHANGED pendingNew  BY <1>0, <3>3, <4>1, FlagsHad
      <4> QED BY <1>0, <2>1, <4>1, <4>2, ConnectionSame DEF backend, reset
    <3> QED BY <3>2, <3>3
  <2> QED BY <2>2, <2>3
<1>2. ASSUME NEW i \in DOMAIN tasks, Continue(i) PROVE Connection'
  <2>1. UNCHANGED <<backend, reset, conn>>  BY <1>2 DEF Continue
  <2> QED BY <1>0, <2>1, ConnectionSame
<1>3. ASSUME NEW i \in DOMAIN tasks, NewSettles(i) PROVE Connection'
  <2>1. UNCHANGED <<client, fence, pendingNew, news, conn>> /\ tasks[i].st \in {"created", "failed"}  BY <1>3 DEF NewSettles
  <2>2. CASE tasks[i].old
    <3>1. UNCHANGED <<ready, switching, session>>  BY <1>3, <2>2 DEF NewSettles
    <3> QED BY <1>0, <2>1, <3>1, ConnectionSame DEF backend, reset
  <2>3. CASE ~tasks[i].old
    <3>1. ready' = (ready /\ client = "live") /\ switching' = FALSE /\ session' = news
      BY <1>3, <2>3 DEF NewSettles
    <3>2. ~pendingNew
      <4>1. Fits(tasks[i]) /\ NewCall(tasks[i])  BY <2>1, <2>3, CallHere DEF NewCall
      <4> QED BY <4>1 DEF Fits
    <3>3. ready' => ready  BY <3>1
    <3> QED BY <1>0, <2>1, <3>1, <3>2, <3>3 DEF Connection, InLine, Connecting
  <2> QED BY <2>2, <2>3
<1>4. ASSUME NEW i \in DOMAIN tasks, JoinSettles(i) PROVE Connection'
  <2>1. UNCHANGED <<backend, pendingNew, news, session, conn>> /\ tasks[i].st = "joined" /\ tasks[i].wait = 0
    BY <1>4 DEF JoinSettles
  <2>2. switching' = FALSE  BY <1>4 DEF JoinSettles
  <2>3. ~pendingNew /\ (Live => session = news)
    <3>1. Fits(tasks[i])  BY CallHere
    <3> QED BY <2>1, <3>1 DEF Fits
  <2> QED BY <1>0, <2>1, <2>2, <2>3 DEF Connection, InLine, Connecting, Live, backend
<1>5. ASSUME Rejoin PROVE Connection'
  <2>1. UNCHANGED <<backend, reset>>  BY <1>5 DEF Rejoin
  <2>2. CASE UNCHANGED conn  BY <1>0, <2>1, <2>2, ConnectionSame
  <2>3. CASE conn' = <<Attempt(FALSE, TRUE)>> /\ conn = <<>>
    <3>1. InLine(conn') /\ Head(conn').st = "begin"  BY <2>3, LineOne
    <3>2. InLine(conn)'  BY <3>1 DEF InLine
    <3> QED BY <1>0, <2>1, <3>1, <3>2 DEF Connection, Connecting, Live, backend, reset
  <2>4. CASE conn # <<>> /\ conn' = [conn EXCEPT ![Len(conn)].again = TRUE]
    <3>1. /\ InLine(conn') /\ conn' # <<>> /\ Head(conn').st = Head(conn).st /\ Head(conn').was = Head(conn).was
      BY <1>0, <2>4, LineAgain DEF Connection
    <3>2. InLine(conn)'  BY <3>1 DEF InLine
    <3> QED BY <1>0, <2>1, <2>4, <3>1, <3>2 DEF Connection, Connecting, Live, backend, reset
  <2> QED BY <1>5, <2>2, <2>3, <2>4 DEF Rejoin
<1>6. ASSUME Rejoined \/ CheckEnds PROVE Connection'
  <2>1. UNCHANGED <<backend, reset, conn>>  BY <1>6 DEF Rejoined, CheckEnds
  <2> QED BY <1>0, <2>1, ConnectionSame
<1>7. ASSUME SwitchBegins, fence PROVE Connection'
  <2>1. UNCHANGED <<backend, reset>> /\ conn # <<>> /\ conn' = Tail(conn)  BY <1>7 DEF SwitchBegins, AttemptEnds
  <2>2. InLine(conn') /\ (conn' # <<>> => Head(conn').st = "begin")  BY <1>0, <2>1, LineTail DEF Connection
  <2>3. InLine(conn)'  BY <2>2 DEF InLine
  <2> QED BY <1>0, <2>1, <2>2, <2>3 DEF Connection, Connecting, Live, backend, reset
<1>8. ASSUME SwitchBegins, ~fence, client # "none" PROVE Connection'
  <2>1. /\ conn # <<>> /\ client' = "none" /\ ready' = FALSE /\ switching' = TRUE
        /\ conn' = [conn EXCEPT ![1].st = "stopping", ![1].was = switching]
        /\ UNCHANGED <<fence, pendingNew>>
    BY <1>8 DEF SwitchBegins
  <2>2. PICK a : a = [Head(conn) EXCEPT !.st = "stopping", !.was = switching]  OBVIOUS
  <2>3. a \in Attempts /\ a.st = "stopping" /\ a.was = switching
    <3>1. Head(conn) \in Attempts  BY <1>0, <2>1, LineHead DEF Connection
    <3>2. switching \in BOOLEAN  BY <1>0, FlagsHad
    <3> QED BY <2>2, <3>1, <3>2 DEF Attempts
  <2>4. conn' = [conn EXCEPT ![1] = a]
    <3>1. Head(conn) = conn[1] /\ 1 \in DOMAIN conn  BY <1>0, <2>1, LineHead, LenProperties DEF Connection, InLine
    <3> QED BY <2>1, <2>2, <3>1
  <2>5. InLine(conn') /\ conn' # <<>> /\ Head(conn') = a
    <3>1. InLine(conn) /\ conn # <<>>  BY <1>0, <2>1 DEF Connection
    <3> QED BY <2>3, <2>4, <3>1, LineChanged
  <2>6. InLine(conn)'  BY <2>5 DEF InLine
  <2> QED BY <1>0, <1>8, <2>1, <2>3, <2>5, <2>6 DEF Connection, Connecting, Live
<1>9. ASSUME SwitchBegins, ~fence, client = "none" PROVE Connection'
  <2>1. Starts /\ UNCHANGED fence /\ conn # <<>>  BY <1>9 DEF SwitchBegins
  <2> QED BY <1>9, <2>1, ConnectionStarts
<1> QED BY <1>1, <1>2, <1>3, <1>4, <1>5, <1>6, <1>7, <1>8, <1>9 DEF Continuations

LEMMA ConnectionUsers ==
  ASSUME IInv, User
  PROVE  Connection'
<1>0. Connection /\ Plain  BY DEF IInv
<1>1. ASSUME (\E p \in Prompts : Type(p)) \/ Unqueue \/ Escape PROVE Connection'
  <2>1. UNCHANGED <<backend, reset, conn>>  BY <1>1 DEF Type, Unqueue, Escape
  <2> QED BY <1>0, <2>1, ConnectionSame
<1>2. ASSUME NEW timing, Submit(timing) PROVE Connection'
  <2>1. UNCHANGED <<client, fence, reset>>  BY <1>2 DEF Submit
  <2>2. CASE SubmitQueued(timing) \/ SubmitNow
    <3>1. UNCHANGED <<ready, conn>>  BY <2>2 DEF SubmitQueued, SubmitNow
    <3> QED BY <1>0, <2>1, <3>1, ConnectionSame DEF backend
  <2>3. CASE SubmitOffline
    <3>1. ~ready'  BY <2>3 DEF SubmitOffline, Live
    <3>2. CASE UNCHANGED conn  BY <1>0, <2>1, <3>1, <3>2 DEF Connection, InLine, Connecting, Live, reset
    <3>3. CASE conn' = Append(conn, Attempt(FALSE, FALSE))
      <4>1. /\ InLine(conn') /\ conn' # <<>>
            /\ Head(conn') = IF conn = <<>> THEN Attempt(FALSE, FALSE) ELSE Head(conn)
        BY <1>0, <3>3, LineMore DEF Connection
      <4>2. Attempt(FALSE, FALSE).st = "begin"  BY AttemptIs
      <4>3. InLine(conn)'  BY <4>1 DEF InLine
      <4> QED BY <1>0, <2>1, <3>1, <4>1, <4>2, <4>3 DEF Connection, Connecting, Live, reset
    <3> QED BY <2>3, <3>2, <3>3 DEF SubmitOffline
  <2> QED BY <1>2, <2>2, <2>3 DEF Submit
<1>3. ASSUME New PROVE Connection'
  <2>1. UNCHANGED <<client, fence, session>> /\ switching' = TRUE  BY <1>3 DEF New, BeginNew
  <2>2. CASE Live /\ busy
    <3>1. UNCHANGED <<ready, conn>>  BY <1>3, <2>2 DEF New
    <3> QED BY <1>0, <2>1, <2>2, <3>1 DEF Connection, InLine, Connecting, Live
  <2>3. CASE ~(Live /\ busy)
    <3>1. \E ts, i : BeginNew(ts, i)  BY <1>3, <2>3 DEF New
    <3>2. pendingNew' = pendingNew  BY <1>3, <2>3 DEF New
    <3> QED BY <1>0, <2>1, <3>1, <3>2, ConnectionBegins
  <2> QED BY <2>2, <2>3
<1>4. ASSUME Harness PROVE Connection'
  <2>1. UNCHANGED <<backend, reset>> /\ conn' = <<Attempt(FALSE, FALSE)>>  BY <1>4 DEF Harness
  <2>2. InLine(conn') /\ Head(conn').st = "begin"  BY <2>1, LineOne
  <2>3. InLine(conn)'  BY <2>2 DEF InLine
  <2> QED BY <1>0, <2>1, <2>2, <2>3 DEF Connection, Connecting, Live, backend, reset
<1> QED BY <1>1, <1>2, <1>3, <1>4 DEF User

LEMMA ConnectionElse ==
  ASSUME IInv, Timers \/ Backend
  PROVE  Connection'
<1>0. Connection /\ Plain  BY DEF IInv
<1>1. ASSUME Timers PROVE Connection'
  <2>1. UNCHANGED <<backend, reset, conn>>  BY <1>1 DEF Timers, GraceFires, DrainFires, WatchFires
  <2> QED BY <1>0, <2>1, ConnectionSame
<1>2. ASSUME NEW i \in DOMAIN tasks, Prepared(i) \/ TurnAnswered(i) PROVE Connection'
  <2>1. UNCHANGED <<backend, reset, conn>>  BY <1>2 DEF Prepared, TurnAnswered
  <2> QED BY <1>0, <2>1, ConnectionSame
<1>3. ASSUME NEW i \in DOMAIN tasks, NewAnswered(i) PROVE Connection'
  <2>1. UNCHANGED <<backend, pendingNew, switching, news, conn>> /\ tasks[i].st = "creating"  BY <1>3 DEF NewAnswered
  <2>2. Fits(tasks[i])  BY CallHere
  <2>3. switching  BY <2>1, <2>2 DEF Fits, NewCall
  <2> QED BY <1>0, <2>1, <2>3 DEF Connection, InLine, Connecting, Live, backend
<1>4. ASSUME Shows \/ ToolStarts \/ ToolEnds PROVE Connection'
  <2>1. UNCHANGED <<backend, reset, conn>>  BY <1>4 DEF Shows, ToolStarts, ToolEnds, Frame
  <2> QED BY <1>0, <2>1, ConnectionSame
<1>5. ASSUME Stopped PROVE Connection'
  <2>1. conn # <<>> /\ Head(conn).st = "stopping" /\ client = "none" /\ ~fence /\ (pendingNew => Head(conn).was) /\ ~ready
    BY <1>0, <1>5 DEF Stopped, Connection
  <2>2. CASE Starts /\ UNCHANGED fence  BY <2>1, <2>2, ConnectionStarts
  <2>3. CASE /\ fence' = TRUE /\ switching' = Head(conn).was /\ AttemptEnds /\ UNCHANGED <<client, ready, pendingNew>>
    <3>1. conn' = Tail(conn)  BY <2>3 DEF AttemptEnds
    <3>2. InLine(conn') /\ (conn' # <<>> => Head(conn').st = "begin")  BY <1>0, <2>1, <3>1, LineTail DEF Connection
    <3>3. InLine(conn)'  BY <3>2 DEF InLine
    <3> QED BY <1>0, <2>1, <2>3, <3>2, <3>3 DEF Connection, Connecting, Live
  <2> QED BY <1>5, <2>2, <2>3 DEF Stopped
<1>6. ASSUME Connected PROVE Connection'
  <2>1. /\ conn # <<>> /\ Head(conn).st = "connecting" /\ ready' = TRUE /\ session' = news
        /\ UNCHANGED <<pendingNew, switching, news, client, fence>> /\ conn' = Tail(conn)
    BY <1>6 DEF Connected, AttemptEnds
  <2>2. client # "none" /\ ~fence  BY <1>0, <2>1 DEF Connection
  <2>3. InLine(conn') /\ (conn' # <<>> => Head(conn').st = "begin")  BY <1>0, <2>1, LineTail DEF Connection
  <2>4. InLine(conn)'  BY <2>3 DEF InLine
  <2> QED BY <1>0, <2>1, <2>2, <2>3, <2>4 DEF Connection, Connecting, Live
<1>7. ASSUME ConnectFails PROVE Connection'
  <2>1. /\ conn # <<>> /\ Head(conn).st = "connecting" /\ client' = "closed"
        /\ UNCHANGED <<ready, fence, reset>> /\ conn' = [conn EXCEPT ![1].st = "retiring"]
    BY <1>7 DEF ConnectFails
  <2>2. PICK a : a = [Head(conn) EXCEPT !.st = "retiring"]  OBVIOUS
  <2>3. Head(conn) \in Attempts /\ Head(conn) = conn[1] /\ 1 \in DOMAIN conn
    BY <1>0, <2>1, LineHead, LenProperties DEF Connection, InLine
  <2>4. a \in Attempts /\ a.st = "retiring"  BY <2>2, <2>3 DEF Attempts
  <2>5. conn' = [conn EXCEPT ![1] = a]  BY <2>1, <2>2, <2>3
  <2>6. InLine(conn') /\ conn' # <<>> /\ Head(conn') = a
    <3>1. InLine(conn) /\ conn # <<>>  BY <1>0, <2>1 DEF Connection
    <3> QED BY <2>4, <2>5, <3>1, LineChanged
  <2>7. InLine(conn)'  BY <2>6 DEF InLine
  <2>8. ~ready  BY <1>0, <2>1 DEF Connection, Connecting
  <2> QED BY <1>0, <2>1, <2>4, <2>6, <2>7, <2>8 DEF Connection, Connecting, Live, reset
<1>8. ASSUME Retired PROVE Connection'
  <2>1. /\ conn # <<>> /\ Head(conn).st = "retiring" /\ ready' = FALSE /\ fence' \in {fence, TRUE}
        /\ UNCHANGED <<client, reset>> /\ conn' = Tail(conn)
    BY <1>8 DEF Retired, AttemptEnds
  <2>2. InLine(conn') /\ (conn' # <<>> => Head(conn').st = "begin")  BY <1>0, <2>1, LineTail DEF Connection
  <2>3. InLine(conn)'  BY <2>2 DEF InLine
  <2>4. client = "closed"  BY <1>0, <2>1 DEF Connection
  <2> QED BY <1>0, <2>1, <2>2, <2>3, <2>4 DEF Connection, Connecting, Live, reset
<1>9. ASSUME ChildExit \/ ChildClose PROVE Connection'
  <2>1. /\ client \in {"live", "exited"} /\ UNCHANGED <<fence, reset, conn>>
        /\ ready' \in {ready, FALSE} /\ client' \in {"exited", "closed"}
    BY <1>9 DEF ChildExit, ChildClose
  <2>2. InLine(conn)' /\ (Connecting' <=> Connecting)  BY <1>0, <2>1 DEF Connection, InLine, Connecting
  <2>3. ready' => ready  BY <2>1
  <2>4. ~Live'  BY <2>1 DEF Live
  <2>5. UNCHANGED <<pendingNew, switching>> /\ ~fence  BY <1>0, <2>1 DEF Connection, reset
  <2> QED BY <1>0, <2>1, <2>2, <2>3, <2>4, <2>5 DEF Connection
<1> QED BY <1>1, <1>2, <1>3, <1>4, <1>5, <1>6, <1>7, <1>8, <1>9 DEF Timers, Backend

LEMMA ConnectionNext ==
  ASSUME IInv, Next
  PROVE  Connection'
BY ConnectionContinues, ConnectionUsers, ConnectionElse DEF Next

-----------------------------------------------------------------------------
(* Calls against the rest of the state. *)

\* A step after which the calls may stay as they are.
Calm ==
    /\ Len(conn') >= Len(conn)
    /\ switching => switching'
    /\ pendingNew' => pendingNew
    /\ busy \/ client = "closed" => busy' \/ client' = "closed"
    /\ session' = session
    /\ Live' => Live /\ news' = news
    /\ client' = "none" \/ Connecting' => client = "none" \/ Connecting

\* Fits after the step, of a call t that may be one of this state or of the next.
FitsNext(t) ==
    /\ t.wait > 0 => t.st = "joined"
    /\ t.wait <= Len(conn')
    /\ t.st = "creating" => ~t.old
    /\ NewCall(t) => switching' /\ ~pendingNew'
    /\ Current(t) => busy' \/ client' = "closed"
    /\ Open(t) => t.epoch = session'
    /\ t.st = "joined" => ~pendingNew' /\ (t.wait = 0 /\ Live' => session' = news')
    /\ client' = "none" \/ Connecting' => ~Major(t)

\* A call that goes on, or is given up, without a new right.
Progress(u, t) ==
    /\ u \in Calls /\ Tamer(u, t)
    /\ u.wait = t.wait /\ (t.wait > 0 => u.st = "joined")
    /\ Current(u) => Current(t)
    /\ Open(u) => Open(t) /\ u.epoch = t.epoch
    /\ u.st = "creating" => t.st = "creating" /\ u.old = t.old

LEMMA ProgressFits ==
  ASSUME NEW t, NEW u, t \in Calls, Fits(t), Progress(u, t), Calm, Len(conn) \in Nat, Len(conn') \in Nat
  PROVE  FitsNext(u)
<1>1. u.wait \in Nat /\ t.wait \in Nat  BY CallFields DEF Progress
<1>2. (u.wait > 0 => u.st = "joined") /\ u.wait <= Len(conn')  BY <1>1 DEF Fits, Progress, Calm
<1>3. u.st = "creating" => ~u.old  BY DEF Fits, Progress
<1>4. NewCall(u) => switching' /\ ~pendingNew'  BY DEF Fits, Progress, Calm, Tamer
<1>5. Current(u) => busy' \/ client' = "closed"  BY DEF Fits, Progress, Calm
<1>6. Open(u) => u.epoch = session'  BY DEF Fits, Progress, Calm
<1>7. u.st = "joined" => ~pendingNew' /\ (u.wait = 0 /\ Live' => session' = news')
  BY DEF Fits, Progress, Calm, Tamer
<1>8. client' = "none" \/ Connecting' => ~Major(u)  BY DEF Fits, Progress, Calm, Tamer
<1> QED BY <1>2, <1>3, <1>4, <1>5, <1>6, <1>7, <1>8 DEF FitsNext

LEMMA ProgressNone == ASSUME NEW t \in Calls, Fits(t) PROVE Progress(t, t)
BY DEF Progress, Tamer, Fits

LEMMA ConnLengths ==
  ASSUME Connection, Connection'
  PROVE  Len(conn) \in Nat /\ Len(conn') \in Nat
<1>1. conn \in Seq(Attempts)  BY DEF Connection, InLine
<1>2. conn' \in Seq(Attempts)  BY DEF Connection, InLine, Attempts
<1> QED BY <1>1, <1>2, LenProperties

LEMMA CallersHave ==
  ASSUME Callers
  PROVE  /\ tasks \in Seq(Calls) /\ Len(tasks) \in Nat /\ DOMAIN tasks = 1 .. Len(tasks) /\ Apart(tasks)
         /\ \A i \in 1 .. Len(tasks) : tasks[i] \in Calls /\ Fits(tasks[i])
BY LenProperties, ElementOfSeq DEF Callers

\* What a step must show of the calls.
LEMMA CallersStep ==
  ASSUME tasks' \in Seq(Calls), Apart(tasks'), \A i \in 1 .. Len(tasks') : FitsNext(tasks'[i])
  PROVE  Callers'
<1>1. (tasks \in Seq(Calls))'  BY DEF Calls
<1>2. Apart(tasks)'  BY DEF Apart, Besides, Major, NewCall
<1>3. ASSUME NEW i \in 1 .. Len(tasks') PROVE Fits(tasks[i])'
  BY <1>3 DEF Fits, FitsNext, NewCall, Current, Open, Major, Live, Connecting
<1> QED BY <1>1, <1>2, <1>3 DEF Callers

LEMMA CallersProgress ==
  ASSUME Callers, Calm, Connection, Connection', tasks' \in Seq(Calls), Len(tasks') = Len(tasks),
         \A i \in 1 .. Len(tasks) : Progress(tasks'[i], tasks[i])
  PROVE  Callers'
<1>1. Apart(tasks')  BY CallersHave, ApartMapped DEF Progress
<1>2. ASSUME NEW i \in 1 .. Len(tasks') PROVE FitsNext(tasks'[i])
  BY <1>2, CallersHave, ConnLengths, ProgressFits
<1> QED BY <1>1, <1>2, CallersStep

LEMMA CallersSame ==
  ASSUME Callers, Calm, Connection, Connection', tasks' = tasks
  PROVE  Callers'
<1>1. \A i \in 1 .. Len(tasks) : Progress(tasks'[i], tasks[i])  BY CallersHave, ProgressNone
<1> QED BY <1>1, CallersHave, CallersProgress

LEMMA CallersRemoved ==
  ASSUME Callers, Calm, Connection, Connection', NEW i \in 1 .. Len(tasks), tasks' = RemoveAt(tasks, i)
  PROVE  Callers'
<1>1. /\ tasks' \in Seq(Calls) /\ Apart(tasks')
      /\ \A j \in 1 .. Len(tasks') : \E k \in 1 .. Len(tasks) : tasks'[j] = tasks[k]
  BY CallersHave, ApartRemoved
<1>2. ASSUME NEW j \in 1 .. Len(tasks') PROVE FitsNext(tasks'[j])
  <2>1. PICK k \in 1 .. Len(tasks) : tasks'[j] = tasks[k]  BY <1>1
  <2>2. tasks[k] \in Calls /\ Fits(tasks[k]) /\ Progress(tasks[k], tasks[k])  BY CallersHave, ProgressNone
  <2>3. Fits(tasks[k]) /\ Progress(tasks'[j], tasks[k])  BY <2>1, <2>2
  <2> QED BY <2>2, <2>3, ConnLengths, ProgressFits
<1> QED BY <1>1, <1>2, CallersStep

\* One call goes on.
LEMMA CallersOne ==
  ASSUME Callers, Calm, Connection, Connection', NEW i \in 1 .. Len(tasks), NEW u, Progress(u, tasks[i]),
         tasks' = [tasks EXCEPT ![i] = u]
  PROVE  Callers'
<1>1. /\ tasks' \in Seq(Calls) /\ Len(tasks') = Len(tasks) /\ tasks'[i] = u
      /\ \A j \in 1 .. Len(tasks) : j # i => tasks'[j] = tasks[j]
  BY CallersHave, ExceptAt DEF Progress
<1>2. ASSUME NEW j \in 1 .. Len(tasks) PROVE Progress(tasks'[j], tasks[j])
  <2>1. CASE j = i  BY <1>1, <2>1
  <2>2. CASE j # i  BY <1>1, <2>2, CallersHave, ProgressNone
  <2> QED BY <2>1, <2>2
<1> QED BY <1>1, <1>2, CallersProgress

LEMMA SettledProgress ==
  ASSUME NEW t \in Calls, Fits(t), t.st \in {"preparing", "turn", "settled"}
  PROVE  Settled(t) \in Calls /\ Progress(Settled(t), t)
<1>1. PICK u : u = [t EXCEPT !.st = "settled"]  OBVIOUS
<1>2. u \in Calls /\ u.st = "settled" /\ u.by = t.by /\ u.old = t.old /\ u.epoch = t.epoch /\ u.wait = t.wait
  BY <1>1, CallSt
<1>3. ~(t.wait > 0)  BY DEF Fits
<1>4. Progress(u, t)  BY <1>2, <1>3 DEF Progress, Tamer, Major, Current, NewCall, Open
<1> QED BY <1>1, <1>2, <1>4 DEF Settled

\* forceResolvePrompt settles one call at most.
LEMMA ForceResolvedIs ==
  ASSUME Callers
  PROVE  \/ ForceResolved = tasks
         \/ \E i \in 1 .. Len(tasks) : tasks[i].st = "turn" /\ ForceResolved = [tasks EXCEPT ![i] = Settled(tasks[i])]
<1> DEFINE open == {i \in DOMAIN tasks : ~tasks[i].old /\ tasks[i].st = "turn"}
<1>1. CASE open = {}  BY <1>1 DEF ForceResolved
<1>2. CASE open # {}
  <2>1. open \subseteq Nat  BY CallersHave
  <2>2. PICK i \in open : i = Min(open)  BY <1>2, <2>1, MinIn
  <2>3. ForceResolved = [tasks EXCEPT ![i] = Settled(tasks[i])]  BY <1>2, <2>2 DEF ForceResolved
  <2> QED BY <2>2, <2>3, CallersHave
<1> QED BY <1>1, <1>2

LEMMA CallersForced ==
  ASSUME Callers, Calm, Connection, Connection', tasks' \in {tasks, ForceResolved}
  PROVE  Callers'
<1>1. CASE tasks' = tasks  BY <1>1, CallersSame
<1>2. ASSUME NEW i \in 1 .. Len(tasks), tasks[i].st = "turn", tasks' = [tasks EXCEPT ![i] = Settled(tasks[i])]
      PROVE  Callers'
  <2>1. Progress(Settled(tasks[i]), tasks[i])  BY <1>2, CallersHave, SettledProgress
  <2> QED BY <1>2, <2>1, CallersOne
<1> QED BY <1>1, <1>2, ForceResolvedIs

\* A call that is over: its caller goes on, or there is none.
LEMMA DoneProgress ==
  ASSUME NEW t \in Calls, Fits(t), t.st # "joined" \/ t.wait = 0
  PROVE  [t EXCEPT !.st = "done"] \in Calls /\ Progress([t EXCEPT !.st = "done"], t)
<1>1. PICK u : u = [t EXCEPT !.st = "done"]  OBVIOUS
<1>2. u \in Calls /\ u.st = "done" /\ u.by = t.by /\ u.old = t.old /\ u.epoch = t.epoch /\ u.wait = t.wait
  BY <1>1, CallSt
<1>3. ~(t.wait > 0)
  <2>1. t.wait \in Nat  BY CallFields
  <2> QED BY <2>1 DEF Fits
<1>4. Progress(u, t)  BY <1>2, <1>3 DEF Progress, Tamer, Major, Current, NewCall, Open
<1> QED BY <1>1, <1>2, <1>4

LEMMA ReturnedIs ==
  ASSUME Callers, NEW i \in 1 .. Len(tasks), tasks[i].st # "joined" \/ tasks[i].wait = 0
  PROVE  /\ Returned(i) \in Seq(Calls) /\ Apart(Returned(i))
         /\ \A j \in 1 .. Len(Returned(i)) :
               \/ Returned(i)[j].st = "done" /\ Returned(i)[j].wait = 0
               \/ \E k \in 1 .. Len(tasks) : k # i /\ Returned(i)[j] = tasks[k]
<1>1. CASE tasks[i].by = "command"
  BY <1>1, CallersHave, ApartRemoved DEF Returned
<1>2. CASE tasks[i].by # "command"
  <2>1. PICK u : u = [tasks[i] EXCEPT !.st = "done"]  OBVIOUS
  <2>2. u \in Calls /\ Progress(u, tasks[i])  BY <2>1, CallersHave, DoneProgress
  <2>3. PICK us : us = [tasks EXCEPT ![i] = u]  OBVIOUS
  <2>4. /\ us \in Seq(Calls) /\ Len(us) = Len(tasks) /\ us[i] = u
        /\ \A j \in 1 .. Len(tasks) : j # i => us[j] = tasks[j]
    BY <2>2, <2>3, CallersHave, ExceptAt
  <2>5. \A j \in 1 .. Len(tasks) : Tamer(us[j], tasks[j])
    <3>1. \A j \in 1 .. Len(tasks) : j # i => Tamer(us[j], tasks[j])  BY <2>4 DEF Tamer
    <3>2. Tamer(us[i], tasks[i])  BY <2>2, <2>4 DEF Progress
    <3> QED BY <3>1, <3>2
  <2>6. Apart(us)  BY <2>4, <2>5, CallersHave, ApartMapped
  <2>7. u.st = "done" /\ u.wait = 0
    <3>1. tasks[i] \in Calls /\ Fits(tasks[i])  BY CallersHave
    <3>2. u.st = "done" /\ u.wait = tasks[i].wait  BY <2>1, <3>1, CallSt
    <3>3. tasks[i].wait \in Nat  BY <3>1, CallFields
    <3> QED BY <3>1, <3>2, <3>3 DEF Fits
  <2>8. Returned(i) = us  BY <1>2, <2>1, <2>3 DEF Returned
  <2> QED BY <2>4, <2>6, <2>7, <2>8
<1> QED BY <1>1, <1>2

\* A call that is done fits everywhere.
LEMMA DoneFits ==
  ASSUME NEW t, t.st = "done", t.wait = 0, Len(conn') \in Nat
  PROVE  FitsNext(t)
BY DEF FitsNext, NewCall, Current, Open, Major

LEMMA CallersReturned ==
  ASSUME Callers, Calm, Connection, Connection', NEW i \in 1 .. Len(tasks),
         tasks[i].st # "joined" \/ tasks[i].wait = 0, tasks' = Returned(i)
  PROVE  Callers'
<1>1. /\ tasks' \in Seq(Calls) /\ Apart(tasks')
      /\ \A j \in 1 .. Len(tasks') : \/ tasks'[j].st = "done" /\ tasks'[j].wait = 0
                                     \/ \E k \in 1 .. Len(tasks) : k # i /\ tasks'[j] = tasks[k]
  BY ReturnedIs
<1>2. ASSUME NEW j \in 1 .. Len(tasks') PROVE FitsNext(tasks'[j])
  <2>1. CASE tasks'[j].st = "done" /\ tasks'[j].wait = 0  BY <2>1, ConnLengths, DoneFits
  <2>2. ASSUME NEW k \in 1 .. Len(tasks), tasks'[j] = tasks[k] PROVE FitsNext(tasks'[j])
    <3>1. tasks[k] \in Calls /\ Fits(tasks[k]) /\ Progress(tasks'[j], tasks[k])  BY <2>2, CallersHave, ProgressNone
    <3> QED BY <3>1, ConnLengths, ProgressFits
  <2> QED BY <1>1, <2>1, <2>2
<1> QED BY <1>1, <1>2, CallersStep

-----------------------------------------------------------------------------
(* Callers, under every action. *)

\* What the calls are to an agent that has nothing to do.
LEMMA NoneAtWork ==
  ASSUME IInv, Live, ~busy, ~switching
  PROVE  /\ \A k \in 1 .. Len(tasks) : ~Major(tasks[k])
         /\ session = news /\ client = "live" /\ ~Connecting
<1>1. client = "live" /\ ~Connecting /\ session = news  BY DEF IInv, Connection, Live
<1>2. \A k \in 1 .. Len(tasks) : Fits(tasks[k])  BY DEF IInv, Callers
<1>3. \A k \in 1 .. Len(tasks) : ~Current(tasks[k]) /\ ~NewCall(tasks[k])  BY <1>1, <1>2 DEF Fits
<1> QED BY <1>1, <1>3 DEF Major, Current, NewCall

LEMMA NoneJoined ==
  ASSUME IInv, Live, ~Due, NEW k \in 1 .. Len(tasks)
  PROVE  tasks[k].st # "joined"
<1>1. tasks[k] \in Calls /\ Fits(tasks[k]) /\ k \in DOMAIN tasks  BY CallersHave DEF IInv
<1>2. conn = <<>>
  <2>1. ~Connecting  BY DEF IInv, Connection, Live
  <2> QED BY <2>1 DEF Connecting, Due
<1>3. tasks[k].wait = 0
  <2>1. Len(conn) = 0  BY <1>2
  <2> QED BY <1>1, <2>1, CallFields DEF Fits
<1> QED BY <1>1, <1>3 DEF Due, TaskDue

\* Nothing that the calls depend on has changed.
LEMMA CalmSame ==
  ASSUME Connection, Connection', UNCHANGED <<backend, reset, busy, conn>>
  PROVE  Calm
BY ConnLengths DEF Calm, Live, Connecting, backend, reset

LEMMA NewTask ==
  ASSUME IInv, NEW b \in {"submit", "flush", "command"},
         NEW s \in {"preparing", "turn", "settled", "creating", "created", "failed", "joined", "done"}
  PROVE  /\ Task(b, s) \in Calls /\ Task(b, s).by = b /\ Task(b, s).st = s /\ Task(b, s).old = FALSE
         /\ Task(b, s).epoch = session /\ Task(b, s).wait = 0
<1>1. session \in 0..MaxEvents  BY DEF IInv, Plain, PlainCounts
<1> QED BY <1>1, CallIn DEF Task

\* sendPrompt begins, beside calls ts that do not work.
LEMMA CallersSend ==
  ASSUME IInv, Connection', NEW t, NEW e \in 0..MaxEvents, NEW b \in {"submit", "flush"}, NEW ts \in Seq(Calls),
         Send(t, e, b, ts), e = session, UNCHANGED <<backend, reset, conn>>, Live, ~busy, ~switching,
         Apart(ts), \A j \in 1 .. Len(ts) : \E k \in 1 .. Len(tasks) : ts[j] = tasks[k],
         b = "flush" => \A j \in 1 .. Len(ts) : ts[j].by # "flush"
  PROVE  Callers'
<1>1. /\ \A j \in 1 .. Len(ts) : ~Major(ts[j])
      /\ client' = "live" /\ ~Connecting'
  <2>1. UNCHANGED <<client, conn>>  BY DEF backend
  <2> QED BY <2>1, NoneAtWork DEF Connecting
<1>2. Calm
  <2>1. client = "live"  BY DEF Live
  <2>2. UNCHANGED <<conn, client, ready, switching, pendingNew, session, news>>  BY DEF backend, reset
  <2> QED BY <2>1, <2>2, ConnLengths DEF Calm, Live, Connecting, IInv
<1>3. PICK s \in {"preparing", "turn", "done"} :
         /\ tasks' = Append(ts, IF s = "done" THEN Task(b, s) ELSE [Task(b, s) EXCEPT !.epoch = e])
         /\ s # "done" => busy'
  BY DEF Send
<1>4. PICK u : u = IF s = "done" THEN Task(b, s) ELSE [Task(b, s) EXCEPT !.epoch = e]  OBVIOUS
<1>5. u \in Calls /\ u.by = b /\ u.st = s /\ u.old = FALSE /\ u.wait = 0 /\ u.epoch = session
  <2>1. /\ Task(b, s) \in Calls /\ Task(b, s).by = b /\ Task(b, s).st = s /\ Task(b, s).old = FALSE
        /\ Task(b, s).epoch = session /\ Task(b, s).wait = 0
    <3>1. b \in {"submit", "flush", "command"}  OBVIOUS
    <3>2. s \in {"preparing", "turn", "settled", "creating", "created", "failed", "joined", "done"}  OBVIOUS
    <3> QED BY <3>1, <3>2, NewTask
  <2>2. PICK v \in Calls : /\ v = Task(b, s) /\ v.by = b /\ v.st = s /\ v.old = FALSE
                           /\ v.epoch = session /\ v.wait = 0
    BY <2>1
  <2>3. CASE u = v  BY <2>2, <2>3
  <2>4. CASE u = [v EXCEPT !.epoch = e]
    <3>1. PICK w : w = [v EXCEPT !.epoch = e]  OBVIOUS
    <3>2. /\ w \in Calls /\ w.epoch = e /\ w.by = v.by /\ w.old = v.old /\ w.wait = v.wait /\ w.st = v.st
      BY <2>2, <3>1, CallEpoch
    <3> QED BY <2>2, <2>4, <3>1, <3>2
  <2> QED BY <1>4, <2>2, <2>3, <2>4
<1>6. \A j \in 1 .. Len(ts) : Besides(u, ts[j])
  <2>1. u.st # "joined" /\ ~NewCall(u)  BY <1>3, <1>5 DEF NewCall
  <2>2. \A j \in 1 .. Len(ts) : ~NewCall(ts[j])  BY <1>1 DEF Major, NewCall
  <2> QED BY <1>1, <1>5, <2>1, <2>2 DEF Besides
<1>7. /\ tasks' \in Seq(Calls) /\ Apart(tasks')
      /\ \A j \in 1 .. Len(tasks') : tasks'[j] = u \/ \E k \in 1 .. Len(ts) : tasks'[j] = ts[k]
  <2>1. tasks' = Append(ts, u)  BY <1>3, <1>4
  <2> QED BY <1>5, <1>6, <2>1, ApartAppended
<1>8. FitsNext(u)
  <2>1. Len(conn') \in Nat /\ session' = session  BY ConnLengths DEF IInv, reset
  <2>2. Open(u) => u.epoch = session'  BY <1>5, <2>1
  <2>3. Current(u) => busy'  BY <1>3, <1>5 DEF Current
  <2>4. ~NewCall(u) /\ u.st # "joined" /\ u.st # "creating"  BY <1>3, <1>5 DEF NewCall
  <2> QED BY <1>1, <1>5, <2>1, <2>2, <2>3, <2>4 DEF FitsNext
<1>9. ASSUME NEW j \in 1 .. Len(tasks') PROVE FitsNext(tasks'[j])
  <2>1. ASSUME NEW k \in 1 .. Len(ts), tasks'[j] = ts[k] PROVE FitsNext(tasks'[j])
    <3>1. PICK m \in 1 .. Len(tasks) : tasks'[j] = tasks[m]  BY <2>1
    <3>2. tasks[m] \in Calls /\ Fits(tasks[m]) /\ Progress(tasks'[j], tasks[m])
      BY <3>1, CallersHave, ProgressNone DEF IInv
    <3> QED BY <1>2, <3>2, ConnLengths, ProgressFits DEF IInv
  <2> QED BY <1>7, <1>8, <2>1
<1> QED BY <1>7, <1>9, CallersStep

LEMMA CallersContinue ==
  ASSUME IInv, Connection', NEW i \in DOMAIN tasks, Continue(i)
  PROVE  Callers'
<1>0. Input /\ Plain /\ Connection /\ Callers /\ i \in 1 .. Len(tasks)  BY CallersHave DEF IInv
<1>1. tasks[i].st = "done" /\ tasks[i] \in Calls /\ Fits(tasks[i])  BY <1>0, CallersHave DEF Continue
<1>2. /\ RemoveAt(tasks, i) \in Seq(Calls) /\ Apart(RemoveAt(tasks, i))
      /\ \A j \in 1 .. Len(RemoveAt(tasks, i)) : \E k \in 1 .. Len(tasks) : k # i /\ RemoveAt(tasks, i)[j] = tasks[k]
  BY <1>0, CallersHave, ApartRemoved
<1>3. UNCHANGED <<backend, conn>>  BY DEF Continue
<1>4. CASE tasks[i].by = "flush" /\ Flushable
  <2>1. /\ Live /\ ~busy /\ ~switching /\ queue # <<>> /\ UNCHANGED reset
        /\ Send(Head(queue).text, Head(queue).epoch, "flush", RemoveAt(tasks, i))
    BY <1>4 DEF Continue, Flushable
  <2>2. Head(queue).epoch = session /\ Head(queue).epoch \in 0..MaxEvents
    <3>1. queue \in Seq(Entries) /\ \A e \in Range(queue) : e.epoch = news  BY <1>0 DEF Input
    <3>2. 1 \in 1 .. Len(queue) /\ Head(queue) = queue[1] /\ Len(queue) \in Nat
      BY <2>1, <3>1, EmptySeq, LenProperties, HeadTailProperties
    <3>3. Head(queue) \in Range(queue) /\ Head(queue) \in Entries  BY <3>1, <3>2, RangeIs, ElementOfSeq
    <3>4. Head(queue).epoch = news /\ Head(queue).epoch \in 0..MaxEvents  BY <3>1, <3>3 DEF Entries
    <3> QED BY <2>1, <3>4, NoneAtWork
  <2>3. \A j \in 1 .. Len(RemoveAt(tasks, i)) : RemoveAt(tasks, i)[j].by # "flush"
    <3>1. \A k \in 1 .. Len(tasks) : k # i => tasks[k].by # "flush"
      BY <1>0, <1>4, CallersHave DEF Apart, Besides
    <3> QED BY <1>2, <3>1
  <2> QED BY <1>2, <1>3, <2>1, <2>2, <2>3, CallersSend
<1>5. CASE ~(tasks[i].by = "flush" /\ Flushable)
  <2>1. UNCHANGED <<turn, reset>>  BY <1>5 DEF Continue
  <2>2. Calm  BY <1>0, <1>3, <2>1, CalmSame DEF turn
  <2>3. CASE tasks' = RemoveAt(tasks, i)  BY <1>0, <2>2, <2>3, CallersRemoved
  <2>4. CASE tasks' = [tasks EXCEPT ![i].by = "flush"] /\ ~Flushing
    <3>1. PICK u : u = [tasks[i] EXCEPT !.by = "flush"]  OBVIOUS
    <3>2. u \in Calls /\ u.by = "flush" /\ u.old = tasks[i].old /\ u.st = "done" /\ u.wait = tasks[i].wait
      BY <1>1, <3>1, CallBy
    <3>3. u.wait = 0  BY <1>1, <3>2, CallFields DEF Fits
    <3>4. \A j \in 1 .. Len(tasks) : j # i => Besides(u, tasks[j])
      <4>1. \A j \in 1 .. Len(tasks) : tasks[j].by # "flush"  BY <1>0, <2>4, CallersHave DEF Flushing
      <4>2. ~Major(u) /\ ~NewCall(u) /\ u.st # "joined"  BY <3>2 DEF Major, NewCall
      <4> QED BY <4>1, <4>2 DEF Besides
    <3>5. tasks' = [tasks EXCEPT ![i] = u]  BY <2>4, <3>1
    <3>6. /\ tasks' \in Seq(Calls) /\ Apart(tasks') /\ Len(tasks') = Len(tasks) /\ tasks'[i] = u
          /\ \A j \in 1 .. Len(tasks) : j # i => tasks'[j] = tasks[j]
      BY <1>0, <3>2, <3>4, <3>5, CallersHave, ApartExcept
    <3>7. ASSUME NEW j \in 1 .. Len(tasks') PROVE FitsNext(tasks'[j])
      <4>1. CASE j = i  BY <1>0, <3>2, <3>3, <3>6, <4>1, DoneFits, ConnLengths
      <4>2. CASE j # i
        <5>1. tasks[j] \in Calls /\ Fits(tasks[j]) /\ Progress(tasks'[j], tasks[j])
          BY <1>0, <3>6, <4>2, CallersHave, ProgressNone
        <5> QED BY <1>0, <2>2, <5>1, ConnLengths, ProgressFits
      <4> QED BY <4>1, <4>2
    <3> QED BY <3>6, <3>7, CallersStep
  <2> QED BY <1>5, <2>3, <2>4 DEF Continue
<1> QED BY <1>4, <1>5

\* A call that does not have the agent.
LEMMA IdleFits ==
  ASSUME IInv, Connection', NEW t \in Calls, Fits(t), ~Major(t), Len(conn') >= Len(conn),
         t.st = "joined" => ~pendingNew' /\ (t.wait = 0 /\ Live' => session' = news')
  PROVE  FitsNext(t)
<1>1. t.wait \in Nat /\ Len(conn) \in Nat /\ Len(conn') \in Nat  BY CallFields, ConnLengths DEF IInv
<1>2. (t.wait > 0 => t.st = "joined") /\ t.wait <= Len(conn')  BY <1>1 DEF Fits
<1>3. ~NewCall(t) /\ ~Current(t) /\ ~Open(t)  BY DEF Major, NewCall, Current, Open
<1>4. t.st = "creating" => ~t.old  BY DEF Fits
<1> QED BY <1>2, <1>3, <1>4 DEF FitsNext

\* The call that has the agent shares it with none.
LEMMA OthersIdle ==
  ASSUME IInv, NEW i \in 1 .. Len(tasks), Major(tasks[i])
  PROVE  \A k \in 1 .. Len(tasks) : k # i => ~Major(tasks[k])
BY DEF IInv, Callers, Apart, Besides

LEMMA CallersOver ==
  ASSUME IInv, Connection', NEW i \in 1 .. Len(tasks), tasks[i].st # "joined" \/ tasks[i].wait = 0,
         tasks' = Returned(i), \A k \in 1 .. Len(tasks) : k # i => FitsNext(tasks[k])
  PROVE  Callers'
<1>1. /\ tasks' \in Seq(Calls) /\ Apart(tasks')
      /\ \A j \in 1 .. Len(tasks') : \/ tasks'[j].st = "done" /\ tasks'[j].wait = 0
                                     \/ \E k \in 1 .. Len(tasks) : k # i /\ tasks'[j] = tasks[k]
  BY ReturnedIs DEF IInv
<1>2. ASSUME NEW j \in 1 .. Len(tasks') PROVE FitsNext(tasks'[j])
  BY <1>1, <1>2, ConnLengths, DoneFits DEF IInv
<1> QED BY <1>1, <1>2, CallersStep

LEMMA BeginKeeps ==
  ASSUME IInv, Connection', NEW ts, NEW i, BeginNew(ts, i), UNCHANGED client
  PROVE  Len(conn') >= Len(conn) /\ (Live' => Live) /\ (Connecting' => Connecting)
<1>0. Connection  BY DEF IInv
<1>1. Live' => Live
  <2>1. ready' = (ready /\ client = "live")  BY DEF BeginNew
  <2>2. ready' => ready  BY <2>1
  <2> QED BY <2>2 DEF Live
<1>2. CASE conn' = conn  BY <1>0, <1>1, <1>2, ConnLengths DEF Connecting
<1>3. CASE conn = <<>> /\ conn' = <<Attempt(TRUE, FALSE)>>
  <2>1. Len(conn) = 0 /\ Head(conn').st = "begin"  BY <1>3, LineOne
  <2> QED BY <1>0, <1>1, <2>1, ConnLengths DEF Connecting
<1> QED BY <1>2, <1>3 DEF BeginNew

LEMMA CallersBegin ==
  ASSUME IInv, Connection', NEW ts \in Seq(Calls), Apart(ts), NEW i \in 1 .. Len(ts), BeginNew(ts, i),
         UNCHANGED <<client, fence, session>>, ~pendingNew', ~ts[i].old, ts[i].wait = 0,
         \A j \in 1 .. Len(ts) : j # i =>
            /\ FitsNext(ts[j]) /\ ~NewCall(ts[j])
            /\ Live => ~Major(ts[j]) /\ ts[j].st # "joined"
  PROVE  Callers'
<1>0. Connection /\ Callers  BY DEF IInv
<1>1. switching' = TRUE /\ ready' = (ready /\ client = "live")  BY DEF BeginNew
<1>4. ASSUME NEW j \in 1 .. Len(ts), j # i
      PROVE  FitsNext(ts[j]) /\ ~NewCall(ts[j]) /\ (Live => ~Major(ts[j]) /\ ts[j].st # "joined")
  BY <1>4
<1>5. ASSUME NEW u \in Calls, tasks' = [ts EXCEPT ![i] = u], FitsNext(u), u.by = ts[i].by,
             ~((NewCall(u) \/ Major(u)) /\ ~Live)
      PROVE  Callers'
  <2>1. ASSUME NEW j \in 1 .. Len(ts), j # i PROVE Besides(u, ts[j])
    <3>1. ~(ts[i].by = "flush" /\ ts[j].by = "flush")  BY <2>1 DEF Apart, Besides
    <3>2. ~NewCall(ts[j]) /\ (Live => ~Major(ts[j]) /\ ts[j].st # "joined")  BY <1>4, <2>1
    <3> QED BY <1>5, <3>1, <3>2 DEF Besides
  <2>2. /\ tasks' \in Seq(Calls) /\ Apart(tasks') /\ Len(tasks') = Len(ts) /\ tasks'[i] = u
        /\ \A j \in 1 .. Len(ts) : j # i => tasks'[j] = ts[j]
    <3>1. u \in Calls  BY <1>5
    <3>2. /\ [ts EXCEPT ![i] = u] \in Seq(Calls) /\ Apart([ts EXCEPT ![i] = u])
          /\ Len([ts EXCEPT ![i] = u]) = Len(ts) /\ [ts EXCEPT ![i] = u][i] = u
          /\ \A j \in 1 .. Len(ts) : j # i => [ts EXCEPT ![i] = u][j] = ts[j]
      BY <2>1, <3>1, ApartExcept
    <3>3. tasks' = [ts EXCEPT ![i] = u]  BY <1>5
    <3> QED BY <3>2, <3>3, Zenon
  <2>3. ASSUME NEW j \in 1 .. Len(tasks') PROVE FitsNext(tasks'[j])
    <3>1. CASE j = i  BY <1>5, <2>2, <3>1
    <3>2. CASE j # i  BY <1>4, <2>2, <3>2
    <3> QED BY <3>1, <3>2
  <2> QED BY <2>2, <2>3, CallersStep
<1>6. ts[i] \in Calls  BY ElementOfSeq
<1>7. CASE Live
  <2>1. PICK u : u = [ts[i] EXCEPT !.st = "creating"]  OBVIOUS
  <2>2. u \in Calls /\ u.st = "creating" /\ u.by = ts[i].by /\ ~u.old /\ u.wait = 0  BY <1>6, <2>1, CallSt
  <2>3. tasks' = [ts EXCEPT ![i] = u] /\ conn' = conn  BY <1>7, <2>1 DEF BeginNew
  <2>4. client' = "live" /\ ~Connecting'  BY <1>0, <1>7, <2>3 DEF Connection, Live, Connecting
  <2>5. FitsNext(u)
    <3>1. ~Current(u) /\ ~Open(u)  BY <2>2 DEF Current, Open
    <3>2. Len(conn') \in Nat  BY <1>0, ConnLengths
    <3> QED BY <1>1, <2>2, <2>4, <3>1, <3>2 DEF FitsNext
  <2> QED BY <1>5, <1>7, <2>2, <2>3, <2>5
<1>8. CASE ~Live
  <2>1. PICK n \in Nat : n = (IF conn = <<>> THEN 1 ELSE Len(conn)) /\ n >= 1 /\ n <= Len(conn')
    <3>1. CASE conn = <<>>
      <4>1. conn' = <<Attempt(TRUE, FALSE)>>  BY <1>8, <3>1 DEF BeginNew
      <4>2. Len(conn') = 1  BY <4>1, LineOne
      <4> QED BY <3>1, <4>2
    <3>2. CASE conn # <<>>
      <4>1. Len(conn) >= 1 /\ Len(conn) \in Nat  BY <1>0, <3>2, LineHead DEF Connection
      <4>2. conn' = conn  BY <1>8, <3>2 DEF BeginNew
      <4> QED BY <3>2, <4>1, <4>2
    <3> QED BY <3>1, <3>2
  <2>2. PICK v : v = [ts[i] EXCEPT !.st = "joined"]  OBVIOUS
  <2>3. v \in Calls /\ v.st = "joined" /\ v.by = ts[i].by /\ ~v.old  BY <1>6, <2>2, CallSt
  <2>4. PICK u : u = [v EXCEPT !.wait = n]  OBVIOUS
  <2>5. u \in Calls /\ u.st = "joined" /\ u.by = ts[i].by /\ ~u.old /\ u.wait = n  BY <2>3, <2>4, CallWait
  <2>6. Joins(ts[i]) = u
    <3>1. Joins(ts[i]) = [ts[i] EXCEPT !.st = "joined", !.wait = n]  BY <2>1 DEF Joins
    <3> QED BY <2>2, <2>4, <3>1
  <2>7. tasks' = [ts EXCEPT ![i] = u]  BY <1>8, <2>6 DEF BeginNew
  <2>8. ~Major(u) /\ ~NewCall(u) /\ ~Current(u) /\ ~Open(u)  BY <2>5 DEF Major, NewCall, Current, Open
  <2>9. FitsNext(u)  BY <2>1, <2>5, <2>8 DEF FitsNext
  <2> QED BY <1>5, <2>5, <2>7, <2>8, <2>9
<1> QED BY <1>7, <1>8

LEMMA CallersFinally ==
  ASSUME IInv, Connection', NEW i \in DOMAIN tasks, Finally(i)
  PROVE  Callers'
<1>0. Plain /\ Connection /\ Callers /\ i \in 1 .. Len(tasks)  BY CallersHave DEF IInv
<1>1. /\ tasks[i].st = "settled" /\ tasks[i] \in Calls /\ Fits(tasks[i]) /\ TurnEnds(i)
      /\ UNCHANGED <<client, fence, cancel, steer, news, session>>
  BY <1>0, CallersHave DEF Finally
<1>2. CASE tasks[i].old
  <2>1. tasks' = Returned(i) /\ UNCHANGED <<busy, pendingNew, switching, ready, conn>>  BY <1>1, <1>2 DEF TurnEnds
  <2>2. Calm  BY <1>0, <1>1, <2>1, CalmSame DEF backend, reset
  <2> QED BY <1>0, <1>1, <2>1, <2>2, CallersReturned
<1>3. CASE ~tasks[i].old
  <2>1. Major(tasks[i]) /\ TurnEnds_AnyClient(i)  BY <1>1, <1>3 DEF Major, TurnEnds
  <2>2. \A k \in 1 .. Len(tasks) : k # i => ~Major(tasks[k])  BY <1>0, <2>1, OthersIdle
  <2>3. CASE pendingNew
    <3>1. BeginNew(tasks, i) /\ ~pendingNew'  BY <2>1, <2>3 DEF TurnEnds_AnyClient
    <3>2. \A j \in 1 .. Len(tasks) : tasks[j].st # "joined"  BY <1>0, <2>3, CallersHave DEF Fits
    <3>3. tasks[i].wait = 0  BY <1>1, CallFields DEF Fits
    <3>4. ASSUME NEW j \in 1 .. Len(tasks), j # i
          PROVE  FitsNext(tasks[j]) /\ ~NewCall(tasks[j]) /\ ~Major(tasks[j]) /\ tasks[j].st # "joined"
      <4>1. tasks[j] \in Calls /\ Fits(tasks[j]) /\ ~Major(tasks[j]) /\ tasks[j].st # "joined"
        BY <1>0, <2>2, <3>2, <3>4, CallersHave
      <4>2. Len(conn') >= Len(conn)  BY <1>1, <3>1, BeginKeeps
      <4>3. ~NewCall(tasks[j])  BY <4>1 DEF Major, NewCall
      <4> QED BY <4>1, <4>2, <4>3, IdleFits
    <3> QED BY <1>0, <1>1, <1>3, <3>1, <3>3, <3>4, CallersHave, CallersBegin
  <2>4. CASE ~pendingNew
    <3>1. tasks' = Returned(i) /\ UNCHANGED <<ready, switching, conn>> /\ ~pendingNew'
      BY <2>1, <2>4 DEF TurnEnds_AnyClient
    <3>2. Live' => Live  BY <1>1, <3>1 DEF Live
    <3>3. ASSUME NEW k \in 1 .. Len(tasks), k # i PROVE FitsNext(tasks[k])
      <4>1. tasks[k] \in Calls /\ Fits(tasks[k]) /\ ~Major(tasks[k])  BY <1>0, <2>2, <3>3, CallersHave
      <4>2. tasks[k].st = "joined" => ~pendingNew' /\ (tasks[k].wait = 0 /\ Live' => session' = news')
        BY <1>1, <3>1, <3>2, <4>1 DEF Fits
      <4>3. Len(conn') >= Len(conn)  BY <1>0, <3>1, ConnLengths
      <4> QED BY <4>1, <4>2, <4>3, IdleFits
    <3> QED BY <1>0, <1>1, <3>1, <3>3, CallersOver
  <2> QED BY <2>3, <2>4
<1> QED BY <1>2, <1>3

LEMMA CallersSettle ==
  ASSUME IInv, Connection', NEW i \in DOMAIN tasks, NewSettles(i) \/ JoinSettles(i)
  PROVE  Callers'
<1>0. Plain /\ Connection /\ Callers /\ i \in 1 .. Len(tasks)  BY CallersHave DEF IInv
<1>1. tasks[i] \in Calls /\ Fits(tasks[i]) /\ tasks' = Returned(i) /\ UNCHANGED <<client, fence, busy, pendingNew, news, conn>>
  BY <1>0, CallersHave DEF NewSettles, JoinSettles, backend
<1>2. Len(conn') >= Len(conn)  BY <1>0, <1>1, ConnLengths
<1>3. CASE NewSettles(i) /\ tasks[i].old
  <2>1. UNCHANGED <<ready, switching, session>> /\ tasks[i].st # "joined"  BY <1>3 DEF NewSettles
  <2>2. Calm  BY <1>0, <1>1, <2>1, CalmSame DEF backend, reset
  <2> QED BY <1>0, <1>1, <2>1, <2>2, CallersReturned
<1>4. CASE NewSettles(i) /\ ~tasks[i].old
  <2>1. tasks[i].st \in {"created", "failed"} /\ ready' = (ready /\ client = "live") /\ session' = news
    BY <1>4 DEF NewSettles
  <2>2. Major(tasks[i]) /\ NewCall(tasks[i])  BY <1>4, <2>1 DEF Major, NewCall
  <2>3. ASSUME NEW k \in 1 .. Len(tasks), k # i PROVE FitsNext(tasks[k])
    <3>1. tasks[k] \in Calls /\ Fits(tasks[k]) /\ ~Major(tasks[k])  BY <1>0, <2>2, <2>3, CallersHave, OthersIdle
    <3>2. tasks[k].st # "joined"  BY <1>0, <2>2, <2>3, CallersHave DEF Apart, Besides
    <3> QED BY <1>2, <3>1, <3>2, IdleFits
  <2> QED BY <1>0, <1>1, <2>1, <2>3, CallersOver
<1>5. CASE JoinSettles(i)
  <2>1. tasks[i].st = "joined" /\ tasks[i].wait = 0 /\ UNCHANGED <<ready, session>>  BY <1>5 DEF JoinSettles, backend
  <2>2. ASSUME NEW k \in 1 .. Len(tasks), k # i PROVE FitsNext(tasks[k])
    <3>1. tasks[k] \in Calls /\ Fits(tasks[k])  BY <1>0, CallersHave
    <3>2. ~NewCall(tasks[k])  BY <1>0, <2>1, <2>2, CallersHave DEF Apart, Besides
    <3>3. (Connecting' <=> Connecting) /\ (Live' <=> Live)  BY <1>1, <2>1 DEF Connecting, Live
    <3>4. tasks[k].wait <= Len(conn')  BY <1>1, <3>1 DEF Fits
    <3> QED BY <1>1, <2>1, <3>1, <3>2, <3>3, <3>4 DEF Fits, FitsNext
  <2> QED BY <1>0, <1>1, <2>1, <2>2, CallersOver
<1> QED BY <1>3, <1>4, <1>5

LEMMA CallersNew ==
  ASSUME IInv, Connection', New
  PROVE  Callers'
<1>0. Plain /\ Connection /\ Callers  BY DEF IInv
<1>1. ~Due /\ ~switching /\ switching' = TRUE /\ UNCHANGED <<client, fence, busy, session>>  BY DEF New, BeginNew
<1>2. CASE Live /\ busy
  <2>1. UNCHANGED <<ready, conn>> /\ Interrupt  BY <1>2 DEF New
  <2>2. tasks' \in {tasks, ForceResolved}  BY <2>1 DEF Interrupt
  <2>3. ASSUME NEW t \in Calls, NEW u \in Calls, Fits(t), Progress(u, t), t.st # "joined" PROVE FitsNext(u)
    <3>1. /\ u.wait = t.wait /\ (t.wait > 0 => u.st = "joined") /\ u.st # "joined"
          /\ (NewCall(u) => NewCall(t)) /\ (Current(u) => Current(t)) /\ (Major(u) => Major(t))
          /\ (Open(u) => Open(t) /\ u.epoch = t.epoch)
          /\ (u.st = "creating" => t.st = "creating" /\ u.old = t.old)
      BY <2>3 DEF Progress, Tamer
    <3>2. ~NewCall(t)  BY <1>1, <2>3 DEF Fits
    <3>3. Connecting' <=> Connecting  BY <2>1 DEF Connecting
    <3>4. u.wait <= Len(conn')  BY <2>1, <2>3, <3>1 DEF Fits
    <3> QED BY <1>1, <2>1, <2>3, <3>1, <3>2, <3>3, <3>4 DEF Fits, FitsNext
  <2>4. tasks' \in Seq(Calls) /\ Len(tasks') = Len(tasks) /\ \A j \in 1 .. Len(tasks) : Progress(tasks'[j], tasks[j])
    <3>1. CASE tasks' = tasks  BY <1>0, <3>1, CallersHave, ProgressNone
    <3>2. ASSUME NEW k \in 1 .. Len(tasks), tasks[k].st = "turn", tasks' = [tasks EXCEPT ![k] = Settled(tasks[k])]
          PROVE  /\ tasks' \in Seq(Calls) /\ Len(tasks') = Len(tasks)
                 /\ \A j \in 1 .. Len(tasks) : Progress(tasks'[j], tasks[j])
      <4>1. PICK u \in Calls : u = Settled(tasks[k]) /\ Progress(u, tasks[k])
        BY <1>0, <3>2, CallersHave, SettledProgress
      <4>2. /\ [tasks EXCEPT ![k] = u] \in Seq(Calls) /\ Len([tasks EXCEPT ![k] = u]) = Len(tasks)
            /\ [tasks EXCEPT ![k] = u][k] = u
            /\ \A j \in 1 .. Len(tasks) : j # k => [tasks EXCEPT ![k] = u][j] = tasks[j]
        BY <1>0, <4>1, CallersHave, ExceptAt
      <4>3. tasks' = [tasks EXCEPT ![k] = u]  BY <3>2, <4>1
      <4>4. ASSUME NEW j \in 1 .. Len(tasks) PROVE Progress(tasks'[j], tasks[j])
        <5>1. CASE j = k  BY <4>1, <4>2, <4>3, <5>1
        <5>2. CASE j # k
          <6>1. tasks'[j] = tasks[j]  BY <4>2, <4>3, <5>2
          <6> QED BY <1>0, <6>1, CallersHave, ProgressNone
        <5> QED BY <5>1, <5>2
      <4> QED BY <4>2, <4>3, <4>4
    <3> QED BY <1>0, <2>2, <3>1, <3>2, ForceResolvedIs
  <2>5. Apart(tasks')  BY <1>0, <2>4, CallersHave, ApartMapped DEF Progress
  <2>6. ASSUME NEW j \in 1 .. Len(tasks') PROVE FitsNext(tasks'[j])
    <3>1. tasks[j] \in Calls /\ Fits(tasks[j]) /\ tasks[j].st # "joined"
      BY <1>0, <1>1, <1>2, <2>4, CallersHave, NoneJoined
    <3>2. tasks'[j] \in Calls /\ Progress(tasks'[j], tasks[j])  BY <2>4 DEF Progress
    <3> QED BY <2>3, <3>1, <3>2
  <2> QED BY <2>4, <2>5, <2>6, CallersStep
<1>3. CASE ~(Live /\ busy)
  <2>1. BeginNew(Append(tasks, Task("command", "done")), Len(tasks) + 1) /\ pendingNew' = pendingNew
    BY <1>3 DEF New
  <2>2. ~pendingNew'  BY <1>0, <1>1, <2>1 DEF Connection
  <2>3. PICK c \in Calls : c = Task("command", "done") /\ c.by = "command" /\ c.st = "done" /\ ~c.old /\ c.wait = 0
    BY NewTask
  <2>4. PICK ts : ts = Append(tasks, c)  OBVIOUS
  <2>5. \A j \in 1 .. Len(tasks) : Besides(c, tasks[j])  BY <2>3 DEF Besides, Major, NewCall
  <2>6. ts \in Seq(Calls) /\ Apart(ts)  BY <1>0, <2>3, <2>4, <2>5, CallersHave, ApartAppended
  <2>7. /\ Len(ts) = Len(tasks) + 1 /\ Len(tasks) \in Nat /\ ts[Len(tasks) + 1] = c
        /\ \A j \in 1 .. Len(tasks) : ts[j] = tasks[j]
    BY <1>0, <2>3, <2>4, CallersHave, AppendProperties
  <2>8. PICK i \in 1 .. Len(ts) : i = Len(tasks) + 1  BY <2>7
  <2>9. BeginNew(ts, i) /\ ~ts[i].old /\ ts[i].wait = 0  BY <2>1, <2>3, <2>4, <2>7, <2>8
  <2>10. Len(conn') >= Len(conn) /\ (Live' => Live) /\ (Connecting' => Connecting)  BY <1>1, <2>1, BeginKeeps
  <2>11. ASSUME NEW k \in 1 .. Len(tasks)
         PROVE  FitsNext(tasks[k]) /\ ~NewCall(tasks[k]) /\ (Live => ~Major(tasks[k]) /\ tasks[k].st # "joined")
    <3>1. tasks[k] \in Calls /\ Fits(tasks[k]) /\ ~NewCall(tasks[k])  BY <1>0, <1>1, CallersHave DEF Fits
    <3>2. CASE Live
      <4>1. ~Major(tasks[k]) /\ tasks[k].st # "joined"  BY <1>1, <1>3, <3>2, NoneAtWork, NoneJoined
      <4> QED BY <2>10, <3>1, <4>1, IdleFits
    <3>3. CASE ~Live
      <4>1. tasks[k].wait \in Nat /\ tasks[k].wait <= Len(conn')
        BY <1>0, <2>10, <3>1, CallFields, ConnLengths DEF Fits
      <4> QED BY <1>1, <2>2, <2>10, <3>1, <3>3, <4>1 DEF Fits, FitsNext
    <3> QED BY <3>2, <3>3
  <2>12. ASSUME NEW j \in 1 .. Len(ts), j # i
         PROVE  FitsNext(ts[j]) /\ ~NewCall(ts[j]) /\ (Live => ~Major(ts[j]) /\ ts[j].st # "joined")
    <3>1. j \in 1 .. Len(tasks)  BY <2>7, <2>8, <2>12
    <3> QED BY <2>7, <2>11, <3>1
  <2> QED BY <1>1, <2>2, <2>6, <2>9, <2>12, CallersBegin
<1> QED BY <1>2, <1>3

\* A call of switchAgent is over; those that waited for it are a place nearer.
LEMMA CallersAwoken ==
  ASSUME IInv, Connection', conn # <<>>, conn' = Tail(conn), tasks' = Waiters,
         pendingNew' = pendingNew, Live' => session' = news',
         \A k \in 1 .. Len(tasks) : Major(tasks[k]) => client' # "none" /\ UNCHANGED <<switching, busy, client, session>>
  PROVE  Callers'
<1>0. Connection /\ Callers  BY DEF IInv
<1>1. Len(conn') = Len(conn) - 1 /\ Len(conn) \in Nat /\ ~Connecting'
  BY <1>0, LineTail, LineHead DEF Connection, Connecting
<1>2. ASSUME NEW k \in 1 .. Len(tasks)
      PROVE  /\ Awoken(tasks[k]) \in Calls /\ Tamer(Awoken(tasks[k]), tasks[k]) /\ FitsNext(Awoken(tasks[k]))
  <2>1. PICK t \in Calls : t = tasks[k] /\ Fits(t) /\ (Major(t) => client' # "none" /\ UNCHANGED <<switching, busy, client, session>>)
    BY <1>0, CallersHave
  <2>2. PICK u : u = Awoken(t)  OBVIOUS
  <2>3. t.wait \in Nat  BY <2>1, CallFields
  <2>4. /\ u \in Calls /\ u.st = t.st /\ u.by = t.by /\ u.old = t.old /\ u.epoch = t.epoch
        /\ u.wait <= Len(conn') /\ (u.wait > 0 => u.st = "joined")
    <3>1. CASE t.st = "joined" /\ t.wait > 0
      <4>1. PICK w \in Nat : w = t.wait - 1  BY <2>3, <3>1
      <4>2. u = [t EXCEPT !.wait = w]  BY <2>2, <3>1, <4>1 DEF Awoken
      <4>3. u \in Calls /\ u.st = t.st /\ u.by = t.by /\ u.old = t.old /\ u.epoch = t.epoch /\ u.wait = w
        BY <2>1, <4>1, <4>2, CallWait
      <4>4. w <= Len(conn')  BY <1>1, <2>1, <2>3, <4>1 DEF Fits
      <4> QED BY <3>1, <4>3, <4>4
    <3>2. CASE ~(t.st = "joined" /\ t.wait > 0)
      <4>1. u = t  BY <2>2, <3>2 DEF Awoken
      <4>2. t.wait = 0  BY <2>1, <2>3, <3>2 DEF Fits
      <4>3. Len(conn) >= 1  BY <1>0, LineHead DEF Connection
      <4> QED BY <1>1, <2>1, <4>1, <4>2, <4>3
    <3> QED BY <3>1, <3>2
  <2>5. /\ (Major(u) <=> Major(t)) /\ (NewCall(u) <=> NewCall(t)) /\ (Current(u) <=> Current(t)) /\ (Open(u) <=> Open(t))
    BY <2>4 DEF Major, NewCall, Current, Open
  <2>6. Tamer(u, t)  BY <2>4, <2>5 DEF Tamer
  <2>7. FitsNext(u)
    <3>1. CASE Major(t)
      <4>1. /\ NewCall(u) => switching' /\ ~pendingNew'
            /\ Current(u) => busy' \/ client' = "closed"
            /\ Open(u) => u.epoch = session'
        BY <2>1, <2>4, <2>5, <3>1 DEF Fits
      <4>2. u.st # "joined" /\ (u.st = "creating" => ~u.old)  BY <2>1, <2>4, <3>1 DEF Fits, Major
      <4> QED BY <1>1, <2>1, <2>4, <3>1, <4>1, <4>2 DEF FitsNext
    <3>2. CASE ~Major(t)
      <4>1. ~Major(u) /\ ~NewCall(u) /\ ~Current(u) /\ ~Open(u)
        BY <2>4, <3>2 DEF Major, NewCall, Current, Open
      <4>2. (u.st = "joined" => ~pendingNew') /\ (u.st = "creating" => ~u.old)  BY <2>1, <2>4 DEF Fits
      <4> QED BY <2>4, <4>1, <4>2 DEF FitsNext
    <3> QED BY <3>1, <3>2
  <2> QED BY <2>1, <2>2, <2>4, <2>6, <2>7
<1>3. tasks' = [k \in 1 .. Len(tasks) |-> Awoken(tasks[k])]  BY <1>0, CallersHave DEF Waiters
<1>4. tasks' \in Seq(Calls) /\ Len(tasks') = Len(tasks) /\ \A k \in 1 .. Len(tasks) : tasks'[k] = Awoken(tasks[k])
  <2>1. Len(tasks) \in Nat  BY <1>0, CallersHave
  <2> QED BY <1>2, <1>3, <2>1
<1>5. Apart(tasks')  BY <1>0, <1>2, <1>4, CallersHave, ApartMapped
<1> QED BY <1>2, <1>4, <1>5, CallersStep

\* A new agent, with no call of the old one.
LEMMA CallersStarts ==
  ASSUME IInv, Connection', client = "none", Starts, tasks' = tasks, UNCHANGED session, conn # <<>>
  PROVE  Callers'
<1>0. Connection /\ Callers  BY DEF IInv
<1>1. ~pendingNew' /\ ~Live'  BY DEF Starts, Live
<1>2. Len(conn') >= Len(conn)
  <2>1. PICK a : a = [conn[1] EXCEPT !.st = "connecting"]  OBVIOUS
  <2>2. conn' = [conn EXCEPT ![1] = a]  BY <2>1 DEF Starts
  <2>3. conn[1] \in Attempts  BY <1>0, LineHead DEF Connection
  <2>4. a \in Attempts  BY <2>1, <2>3 DEF Attempts
  <2>5. InLine(conn)  BY <1>0 DEF Connection
  <2>6. Len(conn') = Len(conn)  BY <2>2, <2>4, <2>5, LineChanged
  <2> QED BY <1>0, <2>6, ConnLengths
<1>3. ASSUME NEW k \in 1 .. Len(tasks') PROVE FitsNext(tasks'[k])
  <2>1. tasks'[k] \in Calls /\ Fits(tasks'[k])  BY <1>0, CallersHave
  <2>2. ~Major(tasks'[k])  BY <2>1 DEF Fits
  <2> QED BY <1>1, <1>2, <2>1, <2>2, IdleFits
<1> QED BY <1>0, <1>3, CallersHave, CallersStep

LEMMA DetachedIs ==
  ASSUME NEW t \in Calls, Fits(t), t.st # "joined"
  PROVE  /\ Detached(t) \in Calls /\ Detached(t).old /\ Detached(t).by = t.by /\ Detached(t).wait = 0
         /\ Detached(t).st # "joined" /\ Detached(t).st # "creating"
<1>1. PICK r : r = Rejected(t)  OBVIOUS
<1>2. r \in Calls /\ r.by = t.by /\ r.wait = t.wait /\ r.st # "joined" /\ r.st # "creating"
  <2>1. CASE t.st = "turn"  BY <1>1, <2>1, CallSt DEF Rejected, Settled
  <2>2. CASE t.st = "creating"  BY <1>1, <2>2, CallSt DEF Rejected
  <2>3. CASE t.st \notin {"turn", "creating"}  BY <1>1, <2>3 DEF Rejected
  <2> QED BY <2>1, <2>2, <2>3
<1>3. t.wait = 0  BY CallFields DEF Fits
<1>4. PICK u : u = [r EXCEPT !.old = TRUE]  OBVIOUS
<1>5. u \in Calls /\ u.old = TRUE /\ u.by = r.by /\ u.wait = r.wait /\ u.st = r.st  BY <1>2, <1>4, CallOld
<1> QED BY <1>1, <1>2, <1>3, <1>4, <1>5 DEF Detached

LEMMA CallersSwitch ==
  ASSUME IInv, Connection', SwitchBegins
  PROVE  Callers'
<1>0. Plain /\ Connection /\ Callers /\ conn # <<>>  BY DEF IInv, SwitchBegins
<1>1. CASE fence
  <2>1. UNCHANGED <<backend, turn, reset>> /\ conn' = Tail(conn) /\ tasks' = Waiters
    BY <1>1 DEF SwitchBegins, AttemptEnds
  <2>2. client \in {"none", "closed"}  BY <1>0, <1>1 DEF Connection
  <2>3. \A k \in 1 .. Len(tasks) : Major(tasks[k]) => client' # "none" /\ UNCHANGED <<switching, busy, client, session>>
    BY <1>0, <2>1, CallersHave DEF Fits, backend, turn, reset
  <2>4. ~Live'  BY <2>1, <2>2 DEF Live, backend
  <2> QED BY <1>0, <2>1, <2>3, <2>4, CallersAwoken DEF reset
<1>2. CASE ~fence /\ client = "none"
  BY <1>0, <1>2, CallersStarts DEF SwitchBegins
<1>3. CASE ~fence /\ client # "none"
  <2>1. /\ client' = "none" /\ ready' = FALSE /\ UNCHANGED <<pendingNew, session>>
        /\ tasks' = [k \in DOMAIN tasks |-> IF tasks[k].st = "joined" THEN tasks[k] ELSE Detached(tasks[k])]
        /\ conn' = [conn EXCEPT ![1].st = "stopping", ![1].was = switching]
    BY <1>3 DEF SwitchBegins
  <2>2. Len(conn') >= Len(conn)
    <3>1. PICK a : a = [conn[1] EXCEPT !.st = "stopping", !.was = switching]  OBVIOUS
    <3>2. conn' = [conn EXCEPT ![1] = a]  BY <2>1, <3>1
    <3>3. conn[1] \in Attempts /\ switching \in BOOLEAN  BY <1>0, LineHead, FlagsHad DEF Connection
    <3>4. a \in Attempts  BY <3>1, <3>3 DEF Attempts
    <3>5. InLine(conn)  BY <1>0 DEF Connection
    <3>6. Len(conn') = Len(conn)  BY <1>0, <3>2, <3>4, <3>5, LineChanged
    <3> QED BY <1>0, <3>6, ConnLengths
  <2>3. ASSUME NEW k \in 1 .. Len(tasks)
        PROVE  /\ tasks'[k] \in Calls /\ Fits(tasks'[k]) /\ ~Major(tasks'[k]) /\ Tamer(tasks'[k], tasks[k])
               /\ tasks'[k].st = "joined" => tasks'[k] = tasks[k]
    <3>1. PICK t \in Calls : t = tasks[k] /\ Fits(t) /\ k \in DOMAIN tasks  BY <1>0, CallersHave
    <3>2. PICK u : u = tasks'[k]  OBVIOUS
    <3>3. u = IF t.st = "joined" THEN t ELSE Detached(t)  BY <2>1, <3>1, <3>2
    <3>4. CASE t.st = "joined"
      <4>1. ~Major(t)  BY <3>4 DEF Major
      <4> QED BY <3>1, <3>2, <3>3, <3>4, <4>1 DEF Tamer
    <3>5. CASE t.st # "joined"
      <4>1. u \in Calls /\ u.old /\ u.by = t.by /\ u.wait = 0 /\ u.st # "joined" /\ u.st # "creating"
        BY <3>1, <3>3, <3>5, DetachedIs
      <4>2. ~Major(u) /\ ~NewCall(u) /\ ~Current(u) /\ ~Open(u)  BY <4>1 DEF Major, NewCall, Current, Open
      <4>3. Len(conn) \in Nat  BY <1>0, ConnLengths
      <4> QED BY <3>1, <3>2, <4>1, <4>2, <4>3 DEF Fits, Tamer
    <3> QED BY <3>4, <3>5
  <2>4. tasks' \in Seq(Calls) /\ Len(tasks') = Len(tasks)
    <3>1. tasks' = [k \in 1 .. Len(tasks) |-> IF tasks[k].st = "joined" THEN tasks[k] ELSE Detached(tasks[k])]
          /\ Len(tasks) \in Nat
      BY <1>0, <2>1, CallersHave
    <3>2. \A k \in 1 .. Len(tasks) : (IF tasks[k].st = "joined" THEN tasks[k] ELSE Detached(tasks[k])) \in Calls
      BY <2>3, <3>1
    <3> QED BY <3>1, <3>2
  <2>5. Apart(tasks')  BY <1>0, <2>3, <2>4, CallersHave, ApartMapped
  <2>6. ~Live'  BY <2>1 DEF Live
  <2>7. ASSUME NEW k \in 1 .. Len(tasks') PROVE FitsNext(tasks'[k])
    <3>1. k \in 1 .. Len(tasks) /\ tasks[k] \in Calls /\ Fits(tasks[k])  BY <1>0, <2>4, CallersHave
    <3>2. tasks'[k].st = "joined" => ~pendingNew'  BY <2>1, <2>3, <3>1 DEF Fits
    <3>3. tasks'[k] \in Calls /\ Fits(tasks'[k]) /\ ~Major(tasks'[k])  BY <2>3, <3>1
    <3> QED BY <2>2, <2>6, <3>2, <3>3, IdleFits
  <2> QED BY <2>4, <2>5, <2>7, CallersStep
<1> QED BY <1>1, <1>2, <1>3

LEMMA CallersBackend ==
  ASSUME IInv, Connection', Backend
  PROVE  Callers'
<1>0. Plain /\ Connection /\ Callers  BY DEF IInv
<1>1. ASSUME NEW i \in DOMAIN tasks, Prepared(i) PROVE Callers'
  <2>1. /\ UNCHANGED <<backend, turn, reset, conn>> /\ tasks[i].st = "preparing"
        /\ tasks' = [tasks EXCEPT ![i] = IF ~@.old /\ client = "live" THEN [@ EXCEPT !.st = "turn"] ELSE Settled(@)]
    BY <1>1 DEF Prepared
  <2>2. i \in 1 .. Len(tasks) /\ tasks[i] \in Calls /\ Fits(tasks[i])  BY <1>0, CallersHave
  <2>3. Calm  BY <1>0, <2>1, CalmSame DEF turn
  <2>4. CASE tasks' = [tasks EXCEPT ![i] = Settled(tasks[i])]
    <3>1. Progress(Settled(tasks[i]), tasks[i])  BY <2>1, <2>2, SettledProgress
    <3> QED BY <1>0, <2>2, <2>3, <2>4, <3>1, CallersOne
  <2>5. CASE ~tasks[i].old /\ tasks' = [tasks EXCEPT ![i] = [tasks[i] EXCEPT !.st = "turn"]]
    <3>1. PICK u : u = [tasks[i] EXCEPT !.st = "turn"]  OBVIOUS
    <3>2. /\ u \in Calls /\ u.st = "turn" /\ u.by = tasks[i].by /\ u.old = tasks[i].old
          /\ u.epoch = tasks[i].epoch /\ u.wait = tasks[i].wait
      BY <2>2, <3>1, CallSt
    <3>3. ~(u.wait > 0)  BY <2>1, <2>2, <3>2 DEF Fits
    <3>4. Progress(u, tasks[i])  BY <2>1, <3>2, <3>3 DEF Progress, Tamer, Major, Current, NewCall, Open
    <3>5. tasks' = [tasks EXCEPT ![i] = u]  BY <2>5, <3>1
    <3> QED BY <1>0, <2>2, <2>3, <3>4, <3>5, CallersOne
  <2> QED BY <2>1, <2>4, <2>5
<1>2. ASSUME NEW i \in DOMAIN tasks, TurnAnswered(i) PROVE Callers'
  <2>1. /\ UNCHANGED <<backend, turn, reset, conn>> /\ tasks[i].st = "turn"
        /\ tasks' = [tasks EXCEPT ![i] = Settled(tasks[i])]
    BY <1>2 DEF TurnAnswered
  <2>2. i \in 1 .. Len(tasks) /\ tasks[i] \in Calls /\ Fits(tasks[i])  BY <1>0, CallersHave
  <2>3. Calm  BY <1>0, <2>1, CalmSame DEF turn
  <2>4. Progress(Settled(tasks[i]), tasks[i])  BY <2>1, <2>2, SettledProgress
  <2> QED BY <1>0, <2>1, <2>2, <2>3, <2>4, CallersOne
<1>3. ASSUME NEW i \in DOMAIN tasks, NewAnswered(i) PROVE Callers'
  <2>1. /\ UNCHANGED <<backend, turn, pendingNew, switching, news, conn>> /\ tasks[i].st = "creating"
        /\ \/ tasks' = [tasks EXCEPT ![i] = [tasks[i] EXCEPT !.st = "created"]] /\ session' = news
           \/ tasks' = [tasks EXCEPT ![i] = [tasks[i] EXCEPT !.st = "failed"]] /\ session' = session
    BY <1>3 DEF NewAnswered
  <2>2. i \in 1 .. Len(tasks) /\ tasks[i] \in Calls /\ Fits(tasks[i])  BY <1>0, CallersHave
  <2>3. ~tasks[i].old /\ Major(tasks[i]) /\ NewCall(tasks[i])  BY <2>1, <2>2 DEF Fits, Major, NewCall
  <2>4. PICK u : (u = [tasks[i] EXCEPT !.st = "created"] \/ u = [tasks[i] EXCEPT !.st = "failed"])
                 /\ tasks' = [tasks EXCEPT ![i] = u]
    BY <2>1
  <2>6. /\ u \in Calls /\ u.st \in {"created", "failed"} /\ u.by = tasks[i].by /\ u.old = tasks[i].old
        /\ u.epoch = tasks[i].epoch /\ u.wait = tasks[i].wait
    <3>1. CASE u = [tasks[i] EXCEPT !.st = "created"]  BY <2>2, <3>1, CallSt
    <3>2. CASE u = [tasks[i] EXCEPT !.st = "failed"]  BY <2>2, <3>2, CallSt
    <3> QED BY <2>4, <3>1, <3>2
  <2>7. NewCall(u) /\ Major(u) /\ ~Current(u) /\ ~Open(u) /\ u.st # "joined" /\ u.st # "creating"
    BY <2>3, <2>6 DEF NewCall, Major, Current, Open
  <2>8. (Connecting' <=> Connecting) /\ (Live' <=> Live) /\ UNCHANGED <<client, busy>>
    BY <2>1 DEF Connecting, Live, backend, turn
  <2>9. FitsNext(u)
    <3>1. ~(tasks[i].wait > 0)  BY <2>1, <2>2 DEF Fits
    <3>2. u.wait <= Len(conn')  BY <2>1, <2>2, <2>6 DEF Fits
    <3>3. switching' /\ ~pendingNew' /\ ~(client' = "none" \/ Connecting')  BY <2>1, <2>2, <2>3, <2>8 DEF Fits
    <3> QED BY <2>6, <2>7, <3>1, <3>2, <3>3 DEF FitsNext
  <2>10. \A j \in 1 .. Len(tasks) : j # i => Besides(u, tasks[j])
    <3>1. \A j \in 1 .. Len(tasks) : j # i => Besides(tasks[i], tasks[j])  BY <1>0, <2>2, CallersHave DEF Apart
    <3> QED BY <2>3, <2>6, <2>7, <3>1 DEF Besides
  <2>11. /\ [tasks EXCEPT ![i] = u] \in Seq(Calls) /\ Apart([tasks EXCEPT ![i] = u])
         /\ Len([tasks EXCEPT ![i] = u]) = Len(tasks) /\ [tasks EXCEPT ![i] = u][i] = u
         /\ \A j \in 1 .. Len(tasks) : j # i => [tasks EXCEPT ![i] = u][j] = tasks[j]
    BY <1>0, <2>2, <2>6, <2>10, CallersHave, ApartExcept
  <2>12. tasks' = [tasks EXCEPT ![i] = u]  BY <2>4
  <2>13. ASSUME NEW j \in 1 .. Len(tasks), j # i PROVE FitsNext(tasks[j])
    <3>1. tasks[j] \in Calls /\ Fits(tasks[j]) /\ ~Major(tasks[j]) /\ tasks[j].st # "joined"
      BY <1>0, <2>2, <2>3, <2>13, CallersHave DEF Apart, Besides
    <3>2. Len(conn') >= Len(conn)  BY <1>0, <2>1, ConnLengths
    <3> QED BY <3>1, <3>2, IdleFits
  <2>14. \A j \in 1 .. Len(tasks') : FitsNext(tasks'[j])
    <3>1. ASSUME NEW j \in 1 .. Len(tasks') PROVE FitsNext(tasks'[j])
      <4>1. CASE j = i  BY <2>9, <2>11, <2>12, <4>1
      <4>2. CASE j # i
        <5>1. j \in 1 .. Len(tasks) /\ tasks'[j] = tasks[j]  BY <2>11, <2>12, <4>2
        <5> QED BY <2>13, <4>2, <5>1
      <4> QED BY <4>1, <4>2
    <3> QED BY <3>1
  <2>15. tasks' \in Seq(Calls) /\ Apart(tasks')  BY <2>11, <2>12
  <2> QED BY <2>14, <2>15, CallersStep
<1>4. ASSUME Shows \/ ToolStarts \/ ToolEnds PROVE Callers'
  <2>1. UNCHANGED <<backend, busy, reset, tasks, conn>>  BY <1>4 DEF Shows, ToolStarts, ToolEnds, Frame
  <2> QED BY <1>0, <2>1, CalmSame, CallersSame
<1>5. ASSUME Stopped PROVE Callers'
  <2>1. conn # <<>> /\ Head(conn).st = "stopping" /\ UNCHANGED <<session, news>>  BY <1>5 DEF Stopped
  <2>2. client = "none"  BY <1>0, <2>1 DEF Connection
  <2>3. CASE Starts /\ tasks' = tasks  BY <2>1, <2>2, <2>3, CallersStarts
  <2>4. CASE AttemptEnds /\ tasks' = Waiters /\ UNCHANGED <<client, ready, pendingNew>>
    <3>1. conn' = Tail(conn) /\ ~Live'  BY <2>2, <2>4 DEF AttemptEnds, Live
    <3>2. \A k \in 1 .. Len(tasks) : ~Major(tasks[k])  BY <1>0, <2>2, CallersHave DEF Fits
    <3> QED BY <2>1, <2>4, <3>1, <3>2, CallersAwoken
  <2> QED BY <1>5, <2>3, <2>4 DEF Stopped
<1>6. ASSUME Connected \/ Retired PROVE Callers'
  <2>1. /\ conn # <<>> /\ Connecting /\ conn' = Tail(conn) /\ tasks' = Waiters /\ UNCHANGED <<pendingNew, news>>
        /\ session' = news \/ ~ready'
    BY <1>6 DEF Connected, Retired, Connecting, AttemptEnds, reset
  <2>2. Live' => session' = news'  BY <2>1 DEF Live
  <2>3. \A k \in 1 .. Len(tasks) : ~Major(tasks[k])  BY <1>0, <2>1, CallersHave DEF Fits
  <2> QED BY <2>1, <2>2, <2>3, CallersAwoken
<1>7. ASSUME ConnectFails PROVE Callers'
  <2>1. /\ conn # <<>> /\ Head(conn).st = "connecting" /\ client' = "closed" /\ UNCHANGED <<ready, turn, reset, tasks>>
        /\ conn' = [conn EXCEPT ![1].st = "retiring"]
    BY <1>7 DEF ConnectFails
  <2>2. Connecting /\ ~Live'  BY <2>1 DEF Connecting, Live
  <2>3. Len(conn') >= Len(conn)
    <3>1. PICK a : a = [conn[1] EXCEPT !.st = "retiring"]  OBVIOUS
    <3>2. conn' = [conn EXCEPT ![1] = a]  BY <2>1, <3>1
    <3>3. conn[1] \in Attempts  BY <1>0, <2>1, LineHead DEF Connection
    <3>4. a \in Attempts  BY <3>1, <3>3 DEF Attempts
    <3>5. InLine(conn) /\ conn # <<>>  BY <1>0, <2>1 DEF Connection
    <3>6. Len(conn') = Len(conn)  BY <3>2, <3>4, <3>5, LineChanged
    <3> QED BY <1>0, <3>6, ConnLengths
  <2>4. Calm  BY <2>1, <2>2, <2>3 DEF Calm, reset
  <2> QED BY <1>0, <2>1, <2>4, CallersSame
<1>8. ASSUME ChildExit PROVE Callers'
  <2>1. client = "live" /\ client' = "exited" /\ UNCHANGED <<ready, turn, reset, tasks, conn>>  BY <1>8 DEF ChildExit
  <2>2. Calm  BY <1>0, <2>1, ConnLengths DEF Calm, Live, Connecting, turn, reset
  <2> QED BY <1>0, <2>1, <2>2, CallersSame
<1>9. ASSUME ChildClose PROVE Callers'
  <2>1. /\ client = "exited" /\ client' = "closed" /\ UNCHANGED <<reset, conn>>
        /\ tasks' = [k \in DOMAIN tasks |-> IF tasks[k].old THEN tasks[k] ELSE Rejected(tasks[k])]
    BY <1>9 DEF ChildClose
  <2>2. Calm  BY <1>0, <2>1, ConnLengths DEF Calm, Live, Connecting, reset
  <2>3. ASSUME NEW k \in 1 .. Len(tasks)
        PROVE  (IF tasks[k].old THEN tasks[k] ELSE Rejected(tasks[k])) \in Calls
               /\ Progress(IF tasks[k].old THEN tasks[k] ELSE Rejected(tasks[k]), tasks[k])
    <3>1. PICK t \in Calls : t = tasks[k] /\ Fits(t)  BY <1>0, CallersHave
    <3>2. CASE t.old  BY <3>1, <3>2, ProgressNone
    <3>3. CASE ~t.old /\ t.st \notin {"turn", "creating"}  BY <3>1, <3>3, ProgressNone DEF Rejected
    <3>4. CASE ~t.old /\ t.st = "turn"
      <4>1. Rejected(t) = Settled(t)  BY <3>4 DEF Rejected
      <4> QED BY <3>1, <3>4, <4>1, SettledProgress
    <3>5. CASE ~t.old /\ t.st = "creating"
      <4>1. PICK u : u = [t EXCEPT !.st = "failed"]  OBVIOUS
      <4>2. u \in Calls /\ u.st = "failed" /\ u.by = t.by /\ u.old = t.old /\ u.epoch = t.epoch /\ u.wait = t.wait
        BY <3>1, <4>1, CallSt
      <4>3. ~(t.wait > 0)  BY <3>1, <3>5 DEF Fits
      <4>4. Progress(u, t)  BY <3>5, <4>2, <4>3 DEF Progress, Tamer, Major, Current, NewCall, Open
      <4>5. Rejected(t) = u  BY <3>5, <4>1 DEF Rejected
      <4> QED BY <3>1, <3>5, <4>2, <4>4, <4>5
    <3> QED BY <3>2, <3>3, <3>4, <3>5
  <2>4. Len(tasks) \in Nat /\ DOMAIN tasks = 1 .. Len(tasks)  BY <1>0, CallersHave
  <2>5. tasks' = [k \in 1 .. Len(tasks) |-> IF tasks[k].old THEN tasks[k] ELSE Rejected(tasks[k])]  BY <2>1, <2>4
  <2>6. tasks' \in Seq(Calls) /\ Len(tasks') = Len(tasks)  BY <2>3, <2>4, <2>5
  <2>7. \A k \in 1 .. Len(tasks) : Progress(tasks'[k], tasks[k])  BY <2>3, <2>5
  <2> QED BY <1>0, <2>2, <2>6, <2>7, CallersProgress
<1> QED BY <1>1, <1>2, <1>3, <1>4, <1>5, <1>6, <1>7, <1>8, <1>9 DEF Backend

LEMMA FlushIs ==
  ASSUME IInv, Connection', Calm, tasks' \in {tasks, Flush}
  PROVE  Callers'
<1>0. Connection /\ Callers  BY DEF IInv
<1>1. CASE tasks' = tasks  BY <1>0, <1>1, CallersSame
<1>2. CASE ~Flushing /\ tasks' = Append(tasks, Task("flush", "done"))
  <2>1. PICK c \in Calls : c = Task("flush", "done") /\ c.st = "done" /\ ~c.old /\ c.wait = 0  BY NewTask
  <2>2. \A j \in 1 .. Len(tasks) : tasks[j].by # "flush"  BY <1>0, <1>2, CallersHave DEF Flushing
  <2>3. \A j \in 1 .. Len(tasks) : Besides(c, tasks[j])  BY <2>1, <2>2 DEF Besides, Major, NewCall
  <2>4. tasks' = Append(tasks, c)  BY <1>2, <2>1
  <2>5. /\ tasks' \in Seq(Calls) /\ Apart(tasks')
        /\ \A j \in 1 .. Len(tasks') : tasks'[j] = c \/ \E k \in 1 .. Len(tasks) : tasks'[j] = tasks[k]
    BY <1>0, <2>3, <2>4, CallersHave, ApartAppended
  <2>6. ASSUME NEW j \in 1 .. Len(tasks') PROVE FitsNext(tasks'[j])
    <3>1. CASE tasks'[j] = c  BY <1>0, <2>1, <3>1, ConnLengths, DoneFits
    <3>2. ASSUME NEW k \in 1 .. Len(tasks), tasks'[j] = tasks[k] PROVE FitsNext(tasks'[j])
      <4>1. tasks[k] \in Calls /\ Fits(tasks[k]) /\ Progress(tasks'[j], tasks[k])
        BY <1>0, <3>2, CallersHave, ProgressNone
      <4> QED BY <1>0, <4>1, ConnLengths, ProgressFits
    <3> QED BY <2>5, <3>1, <3>2
  <2> QED BY <2>5, <2>6, CallersStep
<1> QED BY <1>1, <1>2 DEF Flush

LEMMA CallersTimers ==
  ASSUME IInv, Connection', Timers
  PROVE  Callers'
<1>0. Connection /\ Callers  BY DEF IInv
<1>1. UNCHANGED <<backend, reset, busy, conn>>  BY DEF Timers, GraceFires, DrainFires, WatchFires, turn
<1>2. Calm  BY <1>0, <1>1, CalmSame
<1>3. CASE GraceFires
  <2>1. tasks' \in {tasks, ForceResolved}  BY <1>3 DEF GraceFires
  <2> QED BY <1>0, <1>2, <2>1, CallersForced
<1>4. CASE DrainFires \/ WatchFires
  <2>1. tasks' \in {tasks, Flush}  BY <1>4 DEF DrainFires, WatchFires
  <2> QED BY <1>2, <2>1, FlushIs
<1> QED BY <1>3, <1>4 DEF Timers

LEMMA CallersUsers ==
  ASSUME IInv, Connection', User
  PROVE  Callers'
<1>0. Plain /\ Connection /\ Callers  BY DEF IInv
<1>1. ASSUME (\E p \in Prompts : Type(p)) \/ Unqueue PROVE Callers'
  <2>1. UNCHANGED <<backend, reset, busy, tasks, conn>>  BY <1>1 DEF Type, Unqueue, turn
  <2> QED BY <1>0, <2>1, CalmSame, CallersSame
<1>2. ASSUME Escape PROVE Callers'
  <2>1. UNCHANGED <<backend, reset, busy, conn>>  BY <1>2 DEF Escape
  <2>2. tasks' \in {tasks, ForceResolved}  BY <1>2 DEF Escape, Retract, Stop, Interrupt
  <2> QED BY <1>0, <2>1, <2>2, CalmSame, CallersForced
<1>3. ASSUME Harness PROVE Callers'
  <2>1. UNCHANGED <<backend, reset, turn, tasks>> /\ conn = <<>> /\ conn' = <<Attempt(FALSE, FALSE)>>
    BY <1>3 DEF Harness
  <2>2. Head(conn').st = "begin" /\ Len(conn) = 0  BY <2>1, LineOne
  <2>3. Len(conn') >= Len(conn)  BY <1>0, <2>2, ConnLengths
  <2>4. Calm  BY <2>1, <2>2, <2>3 DEF Calm, Live, Connecting, backend, reset, turn
  <2> QED BY <1>0, <2>1, <2>4, CallersSame
<1>4. ASSUME NEW timing, Submit(timing) PROVE Callers'
  <2>1. UNCHANGED <<client, fence, reset>>  BY <1>4 DEF Submit
  <2>2. CASE SubmitOffline
    <3>1. tasks' = tasks /\ UNCHANGED busy /\ ~Live'
      BY <2>1, <2>2 DEF SubmitOffline, Live, turn
    <3>2. Len(conn') >= Len(conn) /\ (Connecting' => Connecting)
      <4>1. CASE conn' = conn  BY <1>0, <4>1, ConnLengths DEF Connecting
      <4>2. CASE conn' = Append(conn, Attempt(FALSE, FALSE))
        <5>1. InLine(conn)  BY <1>0 DEF Connection
        <5>2. /\ Len(conn') = Len(conn) + 1
              /\ Head(conn') = IF conn = <<>> THEN Attempt(FALSE, FALSE) ELSE Head(conn)
          BY <4>2, <5>1, LineMore
        <5>3. Attempt(FALSE, FALSE).st = "begin"  BY AttemptIs
        <5>4. Connecting' => Connecting  BY <5>2, <5>3 DEF Connecting
        <5>5. Len(conn) \in Nat  BY <1>0, ConnLengths
        <5> QED BY <5>2, <5>4, <5>5
      <4> QED BY <2>2, <4>1, <4>2 DEF SubmitOffline
    <3>3. Calm  BY <2>1, <3>1, <3>2 DEF Calm, reset
    <3> QED BY <1>0, <3>1, <3>3, CallersSame
  <2>3. CASE SubmitQueued(timing)
    <3>1. UNCHANGED <<ready, busy, tasks, conn>>  BY <2>3 DEF SubmitQueued
    <3> QED BY <1>0, <2>1, <3>1, CalmSame, CallersSame DEF backend
  <2>4. CASE SubmitNow
    <3>1. /\ Live /\ ~busy /\ ~switching /\ Send(composer, news, "submit", tasks) /\ UNCHANGED <<backend, reset, conn>>
      BY <2>1, <2>4 DEF SubmitNow, backend
    <3>2. news = session /\ news \in 0..MaxEvents
      <4>1. news = session  BY <3>1, NoneAtWork
      <4>2. news \in 0..MaxEvents  BY <1>0 DEF Plain, PlainCounts
      <4> QED BY <4>1, <4>2
    <3>3. /\ tasks \in Seq(Calls) /\ Apart(tasks)
          /\ \A j \in 1 .. Len(tasks) : \E k \in 1 .. Len(tasks) : tasks[j] = tasks[k]
      BY <1>0, CallersHave
    <3> QED BY <3>1, <3>2, <3>3, CallersSend
  <2> QED BY <1>4, <2>2, <2>3, <2>4 DEF Submit
<1> QED BY <1>1, <1>2, <1>3, <1>4, CallersNew DEF User

LEMMA CallersJoin ==
  ASSUME IInv, Connection', Rejoin \/ Rejoined \/ CheckEnds
  PROVE  Callers'
<1>0. Plain /\ Connection /\ Callers  BY DEF IInv
<1>1. UNCHANGED <<backend, turn, reset, tasks>>  BY DEF Rejoin, Rejoined, CheckEnds
<1>2. Len(conn') >= Len(conn) /\ (Connecting' => Connecting)
  <2>1. CASE conn' = conn  BY <1>0, <2>1, ConnLengths DEF Connecting
  <2>2. CASE conn = <<>> /\ conn' = <<Attempt(FALSE, TRUE)>>
    <3>1. Head(conn').st = "begin" /\ Len(conn) = 0  BY <2>2, LineOne
    <3> QED BY <1>0, <3>1, ConnLengths DEF Connecting
  <2>3. CASE conn # <<>> /\ conn' = [conn EXCEPT ![Len(conn)].again = TRUE]
    <3>1. InLine(conn)  BY <1>0 DEF Connection
    <3>2. Len(conn') = Len(conn) /\ Head(conn').st = Head(conn).st  BY <2>3, <3>1, LineAgain
    <3> QED BY <1>0, <2>3, <3>2, ConnLengths DEF Connecting
  <2> QED BY <2>1, <2>2, <2>3 DEF Rejoin, Rejoined, CheckEnds
<1>3. Calm  BY <1>1, <1>2 DEF Calm, Live, backend, reset, turn
<1> QED BY <1>0, <1>1, <1>3, CallersSame

LEMMA CallersNext ==
  ASSUME IInv, Next
  PROVE  Callers'
<1>1. Connection'  BY ConnectionNext
<1>2. CASE Continuations
  BY <1>1, <1>2, CallersFinally, CallersContinue, CallersSettle, CallersSwitch, CallersJoin DEF Continuations
<1> QED BY <1>1, <1>2, CallersUsers, CallersTimers, CallersBackend DEF Next

-----------------------------------------------------------------------------
(* The invariant, and what it says. *)

LEMMA InitHolds == Init => IInv
<1> SUFFICES ASSUME Init PROVE IInv  OBVIOUS
<1>1. Input
  <2>1. composer = <<>> /\ queue = <<>> /\ unsend = <<>> /\ gone = {} /\ typed = {}  BY DEF Init
  <2>2. queue \in Seq(Entries) /\ (\A e \in Range(queue) : FALSE)  BY <2>1, EmptySeq, EmptyApart
  <2>3. Once(composer, Texts(queue), gone, typed)  BY <2>1, TextsEmpty, EmptyApart DEF Once
  <2>4. composer \in Seq(Prompts) /\ unsend \in Seq(Prompts) /\ IsInjective(unsend) /\ Range(unsend) = {}
    BY <2>1, EmptyApart
  <2>5. InputKept  BY <2>2, <2>3, <2>4, OnceIs
  <2> QED BY <2>1, <2>2, <2>4, <2>5 DEF Input
<1>2. Plain
  <2>1. PlainBackend /\ PlainTurn /\ PlainReset /\ PlainWake
    BY DEF Init, PlainBackend, PlainTurn, PlainReset, PlainWake
  <2>2. rejoin = "no" /\ events = 0 /\ news = 0 /\ session = 0 /\ MaxEvents \in Nat
    BY DEF Init
  <2>3. PlainCounts  BY <2>2 DEF PlainCounts
  <2> QED BY <2>1, <2>3 DEF Plain
<1>3. Connection
  <2>1. conn = <<Attempt(FALSE, FALSE)>> /\ client = "none" /\ ready = FALSE /\ fence = FALSE /\ pendingNew = FALSE
    BY DEF Init
  <2>2. InLine(conn) /\ Head(conn).st = "begin"  BY <2>1, LineOne
  <2> QED BY <2>1, <2>2 DEF Connection, Connecting, Live
<1>4. Callers
  <2>1. tasks = <<>>  BY DEF Init
  <2>2. tasks \in Seq(Calls) /\ Len(tasks) = 0  BY <2>1, EmptySeq
  <2> QED BY <2>2 DEF Callers, Apart
<1> QED BY <1>1, <1>2, <1>3, <1>4 DEF IInv

LEMMA StutterHolds == ASSUME IInv, UNCHANGED vars PROVE IInv'
<1>0. UNCHANGED <<text, backend, turn, reset, tasks, conn, rejoin, wake, events>>  BY DEF vars
<1>1. Input'  BY <1>0, TextSame DEF IInv, text, turn, reset
<1>2. Plain'  BY <1>0, PlainSame DEF IInv, Plain, reset
<1>3. Connection'  BY <1>0, ConnectionSame DEF IInv
<1>4. Callers'  BY <1>0, <1>3, CalmSame, CallersSame DEF IInv, turn
<1> QED BY <1>1, <1>2, <1>3, <1>4 DEF IInv

(* The inductive invariant: what is typed is in one place, the agent and its
   line of switches fit together, and so do the calls in flight. *)
THEOREM HostConsistent == Spec => []IInv
<1>1. IInv /\ [Next]_vars => IInv'
  <2> SUFFICES ASSUME IInv, [Next]_vars PROVE IInv'  OBVIOUS
  <2>1. CASE Next  BY <2>1, InputNext, PlainNext, ConnectionNext, CallersNext DEF IInv
  <2>2. CASE UNCHANGED vars  BY <2>2, StutterHolds
  <2> QED BY <2>1, <2>2
<1> QED BY <1>1, InitHolds, PTL DEF Spec

(* Nothing that the user typed is lost or doubled, whatever dies, is refused,
   switched or cancelled. *)
THEOREM InputIsKept == Spec => []InputKept
<1>1. IInv => InputKept  BY DEF IInv, Input
<1> QED BY <1>1, HostConsistent, PTL

\* A set of which no two members differ is empty or a singleton.
LEMMA OneAtMost ==
  ASSUME NEW T, \A x, y \in T : x = y
  PROVE  Cardinality(T) <= 1
<1>1. CASE T = {}  BY <1>1, FS_EmptySet
<1>2. CASE T # {}
  <2>1. PICK x : T = {x}  BY <1>2
  <2>2. Cardinality({x}) = 1  BY FS_Singleton
  <2> QED BY <2>1, <2>2
<1> QED BY <1>1, <1>2

(* A backend never works on two prompts, nor on one that was typed for another
   session than the one it is in. *)
THEOREM OneConversationAtATime == Spec => []OneConversation
<1>1. IInv => OneConversation
  <2> SUFFICES ASSUME IInv PROVE OneConversation  OBVIOUS
  <2> DEFINE open == {i \in DOMAIN tasks : Open(tasks[i])}
  <2>1. \A i, j \in open : i = j
    <3>1. \A i \in open : i \in 1 .. Len(tasks) /\ Major(tasks[i])  BY CallersHave DEF IInv, Open, Major
    <3> QED BY <3>1, CallersHave DEF IInv, Apart, Besides
  <2>2. Cardinality(open) <= 1
    <3> HIDE DEF open
    <3> QED BY <2>1, OneAtMost
  <2>3. \A i \in open : tasks[i].epoch = session  BY CallersHave DEF IInv, Fits
  <2> QED BY <2>2, <2>3 DEF OneConversation
<1> QED BY <1>1, HostConsistent, PTL

(* Types; and a waiting call has a connection to wait for, a grace timer
   belongs to a cancelled turn, one loop at most runs over the queue. *)
THEOREM TypeCorrect == Spec => []TypeOK
<1>1. IInv => TypeOK
  <2> SUFFICES ASSUME IInv PROVE TypeOK  OBVIOUS
  <2> DEFINE loops == {i \in DOMAIN tasks : tasks[i].by = "flush"}
  <2>1. /\ typed \subseteq Prompts /\ composer \in Seq(Prompts) /\ queue \in Seq(Entries) /\ unsend \in Seq(Prompts)
        /\ gone \subseteq typed
    BY InputHas DEF IInv, Once
  <2>2. /\ client \in {"none", "live", "exited", "closed"} /\ ready \in BOOLEAN /\ fence \in BOOLEAN
        /\ tool \in {"none", "active", "ended"} /\ rejoin \in {"no", "due", "joined", "ended"}
        /\ grace => cancel
    BY DEF IInv, Plain, PlainBackend, PlainTurn, PlainCounts
  <2>3. {busy, cancel, steer, grace, pendingNew, switching, drain, watch, check} \subseteq BOOLEAN
    <3>1. /\ busy \in BOOLEAN /\ cancel \in BOOLEAN /\ steer \in BOOLEAN /\ grace \in BOOLEAN
          /\ pendingNew \in BOOLEAN /\ switching \in BOOLEAN
          /\ drain \in BOOLEAN /\ watch \in BOOLEAN /\ check \in BOOLEAN
      BY DEF IInv, Plain, PlainTurn, PlainReset, PlainWake
    <3> QED BY <3>1, Zenon
  <2>4. news \in 0..MaxEvents /\ session \in 0..news  BY DEF IInv, Plain, PlainCounts
  <2>5. (ready => client # "none") /\ \A i \in DOMAIN conn : conn[i].st = "begin" \/ i = 1
    BY LenProperties DEF IInv, Connection, InLine
  <2>6. tasks \in Seq(Calls) /\ \A i \in DOMAIN tasks : tasks[i].wait <= Len(conn)
    BY CallersHave DEF IInv, Fits
  <2>7. Cardinality(loops) <= 1
    <3>1. \A i, j \in loops : i = j  BY CallersHave DEF IInv, Apart, Besides
    <3> HIDE DEF loops
    <3> QED BY <3>1, OneAtMost
  <2> QED BY <2>1, <2>2, <2>3, <2>4, <2>5, <2>6, <2>7 DEF TypeOK
<1> QED BY <1>1, HostConsistent, PTL

==============================================================================
