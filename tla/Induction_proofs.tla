-------------------------- MODULE Induction_proofs --------------------------
(***************************************************************************)
(* Induction over numbers and over sequences, and the recursive functions  *)
(* they are needed for: what the proofs about AsyncLog use to speak of     *)
(* blocks and lines of any number.                                         *)
(*                                                                         *)
(* The induction theorems of the library take an operator, which cannot be *)
(* instantiated.  These take the SET of the numbers, or of the sequences,  *)
(* that have the property; they rest on the minimum of a set of numbers,   *)
(* by the well-foundedness of <.                                           *)
(***************************************************************************)
EXTENDS Integers, SequenceTheorems, SequencesExt, WellFoundedInduction, TLAPS

LEMMA SetMin ==
  ASSUME NEW T, T \subseteq Nat, T # {}
  PROVE  \E x \in T : \A y \in T : x <= y
<1> DEFINE R == OpToRel(<, Nat)
<1>1. IsWellFoundedOn(R, Nat)
  BY NatLessThanWellFounded
<1>2. \A x, y \in Nat : y < x => <<y, x>> \in R
  BY DEF OpToRel
<1> HIDE DEF R
<1>3. PICK x \in T : \A y \in T : ~ (<<y, x>> \in R)
  BY <1>1, WFMin
<1>4. \A y \in T : x <= y
  <2>1. TAKE y \in T
  <2>2. x \in Nat /\ y \in Nat
    OBVIOUS
  <2>3. ~ (y < x)
    BY <1>2, <1>3, <2>2
  <2>4. QED
    BY <2>2, <2>3
<1>5. QED
  BY <1>4

LEMMA SetInduction ==
  ASSUME NEW S, 0 \in S, \A n \in Nat : n \in S => n + 1 \in S
  PROVE  Nat \subseteq S
<1> SUFFICES ASSUME Nat \ S # {} PROVE FALSE
  OBVIOUS
<1>1. PICK x \in Nat \ S : \A y \in Nat \ S : x <= y
  BY SetMin
<1>2. x # 0
  BY <1>1
<1>3. x - 1 \in Nat /\ x - 1 \in S
  BY <1>1, <1>2
<1>4. QED
  BY <1>1, <1>3

(* A set of sequences that has the empty one, and with each its extensions *)
(* by one element, has them all.                                           *)
LEMMA SequenceInduction ==
  ASSUME NEW T, NEW P, <<>> \in P,
         \A s \in Seq(T) : s \in P => \A e \in T : Append(s, e) \in P
  PROVE  Seq(T) \subseteq P
<1> DEFINE S == {n \in Nat : \A s \in Seq(T) : Len(s) = n => s \in P}
<1>1. 0 \in S
  <2>1. \A s \in Seq(T) : Len(s) = 0 => s = <<>>
    BY EmptySeq
  <2>2. QED
    BY <2>1
<1>2. ASSUME NEW n \in Nat, n \in S
      PROVE  n + 1 \in S
  <2>1. ASSUME NEW s \in Seq(T), Len(s) = n + 1
        PROVE  s \in P
    <3>1. s # <<>>
      BY <2>1, EmptySeq
    <3>2. PICK t \in Seq(T), e \in T : s = Append(t, e)
      BY <3>1, SequenceEmptyOrAppend
    <3>3. Len(t) \in Nat /\ Len(s) = Len(t) + 1
      BY <3>2, AppendProperties, LenProperties
    <3>4. Len(t) = n
      BY <3>3, <2>1
    <3>5. t \in P
      BY <3>4, <1>2
    <3>6. QED
      BY <3>2, <3>5
  <2>2. QED
    BY <2>1
<1> HIDE DEF S
<1>3. Nat \subseteq S
  BY <1>1, <1>2, SetInduction
<1>4. ASSUME NEW s \in Seq(T)
      PROVE  s \in P
  <2>1. Len(s) \in Nat
    BY LenProperties
  <2>2. Len(s) \in S
    BY <1>3, <2>1
  <2>3. QED
    BY <2>2 DEF S
<1>5. QED
  BY <1>4

(* f starts with c and takes one step after another, up to n. *)
Recurses(f, V, c, step, n) ==
  /\ f \in [0 .. n -> V]
  /\ f[0] = c
  /\ \A i \in 1 .. n : f[i] = step[<<f[i - 1], i>>]

LEMMA RecursionExists ==
  ASSUME NEW V, NEW c \in V, NEW n \in Nat, NEW step \in [V \X (1 .. n) -> V]
  PROVE  \E f : Recurses(f, V, c, step, n)
<1> DEFINE Upto(k) == \E h \in [0 .. k -> V] :
                         /\ h[0] = c
                         /\ \A i \in 1 .. k : h[i] = step[<<h[i - 1], i>>]
           S == {k \in Nat : k <= n => Upto(k)}
<1>1. 0 \in S
  <2> DEFINE h == [i \in 0 .. 0 |-> c]
  <2>1. h \in [0 .. 0 -> V] /\ h[0] = c /\ \A i \in 1 .. 0 : h[i] = step[<<h[i - 1], i>>]
    OBVIOUS
  <2>2. QED
    BY <2>1
<1>2. ASSUME NEW k \in Nat, k \in S
      PROVE  k + 1 \in S
  <2>1. CASE k + 1 <= n
    <3>1. PICK h \in [0 .. k -> V] : /\ h[0] = c
                                     /\ \A i \in 1 .. k : h[i] = step[<<h[i - 1], i>>]
      BY <1>2, <2>1
    <3>2. step[<<h[k], k + 1>>] \in V
      <4>1. h[k] \in V /\ k + 1 \in 1 .. n
        BY <2>1
      <4>2. QED
        BY <4>1
    <3> DEFINE g == [i \in 0 .. k + 1 |-> IF i = k + 1 THEN step[<<h[k], k + 1>>] ELSE h[i]]
    <3>3. g \in [0 .. k + 1 -> V]
      BY <3>2
    <3>4. g[0] = c
      BY <3>1
    <3>5. ASSUME NEW i \in 1 .. k + 1
          PROVE  g[i] = step[<<g[i - 1], i>>]
      <4>1. CASE i = k + 1
        <5>1. i - 1 = k /\ k \in 0 .. k + 1 /\ k # k + 1
          BY <4>1
        <5>2. g[i] = step[<<h[k], i>>] /\ g[k] = h[k]
          BY <4>1, <5>1
        <5>3. QED
          BY <5>1, <5>2
      <4>2. CASE i # k + 1
        <5>1. i \in 1 .. k /\ i - 1 \in 0 .. k
          BY <4>2
        <5>2. g[i] = h[i] /\ g[i - 1] = h[i - 1]
          BY <5>1, <4>2
        <5>3. QED
          BY <5>1, <5>2, <3>1
      <4>3. QED
        BY <4>1, <4>2
    <3> HIDE DEF g
    <3>6. Upto(k + 1)
      BY <3>3, <3>4, <3>5
    <3>7. QED
      BY <3>6
  <2>2. CASE ~ (k + 1 <= n)
    BY <2>2
  <2>3. QED
    BY <2>1, <2>2
<1> HIDE DEF S
<1>3. Nat \subseteq S
  BY <1>1, <1>2, SetInduction
<1>4. n \in S
  BY <1>3
<1>5. Upto(n)
  BY <1>4 DEF S
<1>6. QED
  BY <1>5 DEF Recurses

(* The same without an end. *)
Iterates(f, V, c, step) ==
  /\ f \in [Nat -> V]
  /\ f[0] = c
  /\ \A n \in Nat : f[n + 1] = step[f[n]]

LEMMA IterationExists ==
  ASSUME NEW V, NEW c \in V, NEW step \in [V -> V]
  PROVE  \E f : Iterates(f, V, c, step)
<1> DEFINE Upto(h, n) == /\ h \in [0 .. n -> V]
                         /\ h[0] = c
                         /\ \A i \in 1 .. n : h[i] = step[h[i - 1]]
           H(n) == CHOOSE h : Upto(h, n)
<1>1. ASSUME NEW n \in Nat
      PROVE  Upto(H(n), n)
  <2> DEFINE turn == [p \in V \X (1 .. n) |-> step[p[1]]]
  <2>1. turn \in [V \X (1 .. n) -> V] /\ \A v \in V, i \in 1 .. n : turn[<<v, i>>] = step[v]
    OBVIOUS
  <2> HIDE DEF turn
  <2>2. PICK h : Recurses(h, V, c, turn, n)
    BY <2>1, RecursionExists
  <2>3. Upto(h, n)
    <3>1. h \in [0 .. n -> V] /\ h[0] = c
      BY <2>2 DEF Recurses
    <3>2. ASSUME NEW i \in 1 .. n
          PROVE  h[i] = step[h[i - 1]]
      <4>1. i - 1 \in 0 .. n
        OBVIOUS
      <4>2. h[i - 1] \in V /\ h[i] = turn[<<h[i - 1], i>>]
        BY <2>2, <3>1, <4>1 DEF Recurses
      <4>3. QED
        BY <2>1, <4>2
    <3>3. QED
      BY <3>1, <3>2
  <2> HIDE DEF Upto
  <2>4. QED
    BY <2>3
<1> HIDE DEF H
<1>2. ASSUME NEW n \in Nat
      PROVE  H(n + 1)[n] = H(n)[n]
  <2> DEFINE S == {k \in Nat : k <= n => H(n + 1)[k] = H(n)[k]}
  <2>1. Upto(H(n), n) /\ Upto(H(n + 1), n + 1)
    BY <1>1
  <2>2. 0 \in S
    BY <2>1
  <2>3. ASSUME NEW k \in Nat, k \in S
        PROVE  k + 1 \in S
    <3>1. SUFFICES ASSUME k + 1 <= n PROVE H(n + 1)[k + 1] = H(n)[k + 1]
      OBVIOUS
    <3>2. k + 1 \in 1 .. n /\ k + 1 \in 1 .. n + 1 /\ (k + 1) - 1 = k
      BY <3>1
    <3>3. H(n + 1)[k + 1] = step[H(n + 1)[k]] /\ H(n)[k + 1] = step[H(n)[k]]
      BY <2>1, <3>2
    <3>4. QED
      BY <2>3, <3>1, <3>3
  <2> HIDE DEF S
  <2>4. Nat \subseteq S
    BY <2>2, <2>3, SetInduction
  <2>5. QED
    BY <2>4 DEF S
<1>3. PICK f : f = [n \in Nat |-> H(n)[n]]
  OBVIOUS
<1>4. f \in [Nat -> V] /\ f[0] = c
  BY <1>1, <1>3
<1>5. ASSUME NEW n \in Nat
      PROVE  f[n + 1] = step[f[n]]
  <2>1. n + 1 \in Nat /\ n + 1 \in 1 .. n + 1 /\ (n + 1) - 1 = n
    OBVIOUS
  <2>2. Upto(H(n + 1), n + 1)
    BY <1>1, <2>1
  <2>3. H(n + 1)[n + 1] = step[H(n + 1)[n]]
    BY <2>1, <2>2
  <2>4. f[n + 1] = H(n + 1)[n + 1] /\ f[n] = H(n)[n]
    BY <1>3, <2>1
  <2>5. QED
    BY <1>2, <2>3, <2>4
<1>6. QED
  BY <1>4, <1>5 DEF Iterates

-----------------------------------------------------------------------------
(* FlattenSeq, the concatenation of a sequence of sequences.                 *)

LEMMA FlattenEmpty == FlattenSeq(<<>>) = <<>>
<1>1. Len(<<>>) = 0
  BY EmptySeq
<1>2. QED
  BY <1>1 DEF FlattenSeq

(* The function by which FlattenSeq is defined. *)
Flattens(f, ss) ==
  f = [i \in 1 .. Len(ss) |-> IF i = 1 THEN ss[i] ELSE f[i - 1] \o ss[i]]

LEMMA FlattenIs ==
  ASSUME NEW T, NEW ss \in Seq(Seq(T)), Len(ss) # 0
  PROVE  \E f : Flattens(f, ss) /\ FlattenSeq(ss) = f[Len(ss)]
<1>1. PICK n \in Nat : n = Len(ss) /\ n # 0
  BY LenProperties
<1>2. \A i \in 1 .. n : ss[i] \in Seq(T)
  BY <1>1, ElementOfSeq
<1> DEFINE step == [p \in Seq(T) \X (1 .. n) |-> p[1] \o ss[p[2]]]
<1>3. \A v \in Seq(T), i \in 1 .. n : step[<<v, i>>] = v \o ss[i]
  OBVIOUS
<1>4. step \in [Seq(T) \X (1 .. n) -> Seq(T)]
  <2>1. \A v \in Seq(T), i \in 1 .. n : v \o ss[i] \in Seq(T)
    BY <1>2
  <2>2. QED
    BY <2>1
<1>5. <<>> \in Seq(T)
  OBVIOUS
<1> HIDE DEF step
<1>6. PICK h : Recurses(h, Seq(T), <<>>, step, n)
  BY <1>4, <1>5, RecursionExists
<1> USE <1>6 DEF Recurses
<1>7. ASSUME NEW i \in 1 .. n
      PROVE  h[i] = IF i = 1 THEN ss[i] ELSE h[i - 1] \o ss[i]
  <2>1. i - 1 \in 0 .. n /\ h[i - 1] \in Seq(T)
    OBVIOUS
  <2>2. h[i] = h[i - 1] \o ss[i]
    BY <1>3, <2>1
  <2>3. CASE i = 1
    <3>1. i - 1 = 0
      BY <2>3
    <3>2. h[i] = <<>> \o ss[i]
      BY <2>2, <3>1
    <3>3. QED
      BY <1>2, <2>3, <3>2, ConcatEmptySeq
  <2>4. QED
    BY <2>2, <2>3
<1> DEFINE g == [i \in 1 .. Len(ss) |-> h[i]]
<1>8. g = [i \in 1 .. Len(ss) |-> IF i = 1 THEN ss[i] ELSE g[i - 1] \o ss[i]]
  <2>1. \A i \in 1 .. n : i # 1 => i - 1 \in 1 .. n
    OBVIOUS
  <2>2. \A i \in 1 .. n : h[i] = IF i = 1 THEN ss[i] ELSE g[i - 1] \o ss[i]
    BY <1>1, <1>7, <2>1
  <2>3. QED
    BY <1>1, <2>2
<1> HIDE DEF g
<1>9. QED
  BY <1>8 DEF FlattenSeq, Flattens

LEMMA FlattenAppend ==
  ASSUME NEW T, NEW ss \in Seq(Seq(T)), NEW s \in Seq(T)
  PROVE  FlattenSeq(Append(ss, s)) = FlattenSeq(ss) \o s
<1>1. PICK n \in Nat : n = Len(ss)
  BY LenProperties
<1> DEFINE tt == Append(ss, s)
<1>2. /\ tt \in Seq(Seq(T)) /\ Len(tt) = n + 1
      /\ \A i \in 1 .. n : tt[i] = ss[i]
      /\ tt[n + 1] = s
  BY <1>1, AppendProperties
<1> HIDE DEF tt
<1>3. PICK g : Flattens(g, tt) /\ FlattenSeq(tt) = g[n + 1]
  <2>1. Len(tt) # 0
    BY <1>2
  <2>2. QED
    BY <1>2, <2>1, FlattenIs
<1>4. CASE n = 0
  <2>1. g[n + 1] = s
    <3>1. g[1] = tt[1]
      BY <1>2, <1>3, <1>4 DEF Flattens
    <3>2. QED
      BY <1>2, <1>4, <3>1
  <2>2. ss = <<>>
    BY <1>1, <1>4, EmptySeq
  <2>3. QED
    BY <1>3, <2>1, <2>2, FlattenEmpty, ConcatEmptySeq DEF tt
<1>5. CASE n # 0
  <2>1. PICK f : Flattens(f, ss) /\ FlattenSeq(ss) = f[n]
    BY <1>1, <1>5, FlattenIs
  <2> DEFINE S == {k \in Nat : k \in 1 .. n => g[k] = f[k]}
  <2>2. 0 \in S
    OBVIOUS
  <2>3. ASSUME NEW k \in Nat, k \in S
        PROVE  k + 1 \in S
    <3>1. CASE k + 1 \in 1 .. n
      <4>1. k + 1 \in 1 .. n + 1 /\ tt[k + 1] = ss[k + 1]
        BY <1>2, <3>1
      <4>2. g[k + 1] = IF k + 1 = 1 THEN tt[k + 1] ELSE g[(k + 1) - 1] \o tt[k + 1]
        BY <1>2, <1>3, <4>1 DEF Flattens
      <4>3. f[k + 1] = IF k + 1 = 1 THEN ss[k + 1] ELSE f[(k + 1) - 1] \o ss[k + 1]
        BY <1>1, <2>1, <3>1 DEF Flattens
      <4>4. k = 0 \/ g[k] = f[k]
        BY <2>3, <3>1
      <4>5. QED
        BY <4>1, <4>2, <4>3, <4>4
    <3>2. QED
      BY <3>1
  <2> HIDE DEF S
  <2>4. Nat \subseteq S
    BY <2>2, <2>3, SetInduction
  <2>5. n \in S
    BY <2>4
  <2>6. g[n] = f[n]
    BY <1>5, <2>5 DEF S
  <2>7. g[n + 1] = g[n] \o s
    <3>1. n + 1 \in 1 .. n + 1 /\ n + 1 # 1 /\ (n + 1) - 1 = n
      BY <1>5
    <3>2. g[n + 1] = IF n + 1 = 1 THEN tt[n + 1] ELSE g[(n + 1) - 1] \o tt[n + 1]
      BY <1>2, <1>3, <3>1 DEF Flattens
    <3>3. QED
      BY <1>2, <3>1, <3>2
  <2>8. QED
    BY <1>3, <2>1, <2>6, <2>7 DEF tt
<1>6. QED
  BY <1>4, <1>5

LEMMA FlattenType ==
  ASSUME NEW T, NEW ss \in Seq(Seq(T))
  PROVE  FlattenSeq(ss) \in Seq(T)
<1> DEFINE P == {xs \in Seq(Seq(T)) : FlattenSeq(xs) \in Seq(T)}
<1>1. <<>> \in P
  <2>1. <<>> \in Seq(Seq(T)) /\ <<>> \in Seq(T)
    OBVIOUS
  <2>2. QED
    BY <2>1, FlattenEmpty
<1>2. ASSUME NEW xs \in Seq(Seq(T)), xs \in P, NEW s \in Seq(T)
      PROVE  Append(xs, s) \in P
  <2>1. Append(xs, s) \in Seq(Seq(T))
    OBVIOUS
  <2>2. FlattenSeq(Append(xs, s)) = FlattenSeq(xs) \o s
    BY FlattenAppend
  <2>3. FlattenSeq(xs) \o s \in Seq(T)
    BY <1>2
  <2>4. QED
    BY <2>1, <2>2, <2>3
<1> HIDE DEF P
<1>3. ss \in P
  BY <1>1, <1>2, SequenceInduction
<1>4. QED
  BY <1>3 DEF P

LEMMA ConcatAppend ==
  ASSUME NEW T, NEW s \in Seq(T), NEW t \in Seq(T), NEW e \in T
  PROVE  s \o t \in Seq(T) /\ s \o Append(t, e) = Append(s \o t, e)
<1>1. <<e>> \in Seq(T) /\ s \o t \in Seq(T)
  OBVIOUS
<1>2. s \o Append(t, e) = s \o (t \o <<e>>) /\ Append(s \o t, e) = (s \o t) \o <<e>>
  BY <1>1, AppendIsConcat
<1>3. QED
  BY <1>1, <1>2, ConcatAssociative

LEMMA FlattenConcat ==
  ASSUME NEW T, NEW ss \in Seq(Seq(T)), NEW tt \in Seq(Seq(T))
  PROVE  FlattenSeq(ss \o tt) = FlattenSeq(ss) \o FlattenSeq(tt)
<1> DEFINE P == {xs \in Seq(Seq(T)) : FlattenSeq(ss \o xs) = FlattenSeq(ss) \o FlattenSeq(xs)}
<1>1. <<>> \in P
  BY FlattenEmpty, FlattenType, ConcatEmptySeq
<1>2. ASSUME NEW xs \in Seq(Seq(T)), xs \in P, NEW s \in Seq(T)
      PROVE  Append(xs, s) \in P
  <2>1. ss \o xs \in Seq(Seq(T)) /\ ss \o Append(xs, s) = Append(ss \o xs, s)
    BY ConcatAppend, SMTT(30)
  <2>2. FlattenSeq(ss \o Append(xs, s)) = FlattenSeq(ss \o xs) \o s
    BY <2>1, FlattenAppend
  <2>3. FlattenSeq(ss \o xs) \o s = FlattenSeq(ss) \o (FlattenSeq(xs) \o s)
    <3>1. FlattenSeq(ss) \in Seq(T) /\ FlattenSeq(xs) \in Seq(T)
      BY FlattenType
    <3>2. FlattenSeq(ss \o xs) = FlattenSeq(ss) \o FlattenSeq(xs)
      BY <1>2
    <3>3. QED
      BY <3>1, <3>2, ConcatAssociative, SMTT(30)
  <2>4. FlattenSeq(Append(xs, s)) = FlattenSeq(xs) \o s
    BY FlattenAppend
  <2>5. QED
    BY <2>2, <2>3, <2>4, AppendProperties
<1> HIDE DEF P
<1>3. tt \in P
  BY <1>1, <1>2, SequenceInduction
<1>4. QED
  BY <1>3 DEF P
-----------------------------------------------------------------------------
(* The elements of a sequence, and sequences without a repetition.           *)

LEMMA ToSetFacts ==
  ASSUME NEW T, NEW s \in Seq(T)
  PROVE  /\ ToSet(s) \subseteq T
         /\ s \in Seq(ToSet(s))
         /\ \A x : x \in ToSet(s) <=> \E i \in 1 .. Len(s) : s[i] = x
<1>1. DOMAIN s = 1 .. Len(s) /\ \A i \in 1 .. Len(s) : s[i] \in T
  BY LenProperties, ElementOfSeq
<1>2. \A x : x \in ToSet(s) <=> \E i \in 1 .. Len(s) : s[i] = x
  BY <1>1 DEF ToSet
<1>3. ToSet(s) \subseteq T
  BY <1>1, <1>2
<1>4. s \in Seq(ToSet(s))
  <2>1. PICK n \in Nat : n = Len(s)
    BY LenProperties
  <2>2. s = [i \in 1 .. n |-> s[i]]
    BY <2>1, LenProperties
  <2>3. \A i \in 1 .. n : s[i] \in ToSet(s)
    BY <1>2, <2>1
  <2>4. s \in [1 .. n -> ToSet(s)]
    BY <2>2, <2>3
  <2>5. QED
    BY <2>4, SeqDef
<1>5. QED
  BY <1>2, <1>3, <1>4

LEMMA ToSetEmpty == ToSet(<<>>) = {}
<1>1. DOMAIN <<>> = {}
  OBVIOUS
<1>2. QED
  BY <1>1 DEF ToSet

LEMMA ToSetAppend ==
  ASSUME NEW T, NEW s \in Seq(T), NEW e \in T
  PROVE  ToSet(Append(s, e)) = ToSet(s) \cup {e}
<1>1. PICK n \in Nat : n = Len(s)
  BY LenProperties
<1> DEFINE t == Append(s, e)
<1>2. /\ t \in Seq(T) /\ Len(t) = n + 1
      /\ \A i \in 1 .. n : t[i] = s[i]
      /\ t[n + 1] = e
  BY <1>1, AppendProperties
<1> HIDE DEF t
<1>3. \A x : x \in ToSet(t) <=> \E i \in 1 .. n + 1 : t[i] = x
  BY <1>2, ToSetFacts
<1>4. \A x : x \in ToSet(s) <=> \E i \in 1 .. n : s[i] = x
  BY <1>1, ToSetFacts
<1>5. ASSUME NEW x, x \in ToSet(t)
      PROVE  x \in ToSet(s) \cup {e}
  <2>1. PICK i \in 1 .. n + 1 : t[i] = x
    BY <1>3, <1>5
  <2>2. i \in 1 .. n \/ i = n + 1
    OBVIOUS
  <2>3. QED
    BY <1>2, <1>4, <2>1, <2>2
<1>6. ASSUME NEW x, x \in ToSet(s) \cup {e}
      PROVE  x \in ToSet(t)
  <2>1. CASE x = e
    <3>1. n + 1 \in 1 .. n + 1
      OBVIOUS
    <3>2. QED
      BY <1>2, <1>3, <2>1, <3>1
  <2>2. CASE x \in ToSet(s)
    <3>1. PICK i \in 1 .. n : s[i] = x
      BY <1>4, <2>2
    <3>2. i \in 1 .. n + 1 /\ t[i] = x
      BY <1>2, <3>1
    <3>3. QED
      BY <1>3, <3>2
  <2>3. QED
    BY <1>6, <2>1, <2>2
<1>7. QED
  BY <1>5, <1>6 DEF t

LEMMA ToSetConcat ==
  ASSUME NEW T, NEW s \in Seq(T), NEW t \in Seq(T)
  PROVE  ToSet(s \o t) = ToSet(s) \cup ToSet(t)
<1> DEFINE P == {u \in Seq(T) : ToSet(s \o u) = ToSet(s) \cup ToSet(u)}
<1>1. <<>> \in P
  <2>1. <<>> \in Seq(T) /\ s \o <<>> = s
    BY ConcatEmptySeq
  <2>2. QED
    BY <2>1, ToSetEmpty
<1>2. ASSUME NEW u \in Seq(T), u \in P, NEW e \in T
      PROVE  Append(u, e) \in P
  <2>1. s \o u \in Seq(T) /\ s \o Append(u, e) = Append(s \o u, e)
    BY ConcatAppend
  <2>2. ToSet(s \o Append(u, e)) = ToSet(s \o u) \cup {e}
    <3> DEFINE v == s \o u
    <3>1. v \in Seq(T) /\ s \o Append(u, e) = Append(v, e)
      BY <2>1
    <3> HIDE DEF v
    <3>2. ToSet(Append(v, e)) = ToSet(v) \cup {e}
      BY <3>1, ToSetAppend
    <3>3. QED
      BY <3>1, <3>2 DEF v
  <2>3. ToSet(Append(u, e)) = ToSet(u) \cup {e}
    BY ToSetAppend
  <2>4. Append(u, e) \in Seq(T)
    OBVIOUS
  <2>5. QED
    BY <1>2, <2>2, <2>3, <2>4
<1> HIDE DEF P
<1>3. t \in P
  BY <1>1, <1>2, SequenceInduction
<1>4. QED
  BY <1>3 DEF P

Distinct(s) == \A i, j \in 1 .. Len(s) : s[i] = s[j] => i = j

LEMMA DistinctAppend ==
  ASSUME NEW T, NEW s \in Seq(T), NEW e \in T, Distinct(s), e \notin ToSet(s)
  PROVE  Distinct(Append(s, e))
<1>1. PICK n \in Nat : n = Len(s)
  BY LenProperties
<1> DEFINE t == Append(s, e)
<1>2. /\ t \in Seq(T) /\ Len(t) = n + 1
      /\ \A i \in 1 .. n : t[i] = s[i]
      /\ t[n + 1] = e
  BY <1>1, AppendProperties
<1> HIDE DEF t
<1>3. \A i \in 1 .. n : s[i] # e
  BY <1>1, ToSetFacts
<1>4. ASSUME NEW i \in 1 .. n + 1, NEW j \in 1 .. n + 1, t[i] = t[j]
      PROVE  i = j
  <2>1. i \in 1 .. n \/ i = n + 1
    OBVIOUS
  <2>2. j \in 1 .. n \/ j = n + 1
    OBVIOUS
  <2>3. CASE i \in 1 .. n /\ j \in 1 .. n
    BY <1>1, <1>2, <1>4, <2>3 DEF Distinct
  <2>4. CASE i = n + 1 /\ j \in 1 .. n
    BY <1>2, <1>3, <1>4, <2>4
  <2>5. CASE i \in 1 .. n /\ j = n + 1
    BY <1>2, <1>3, <1>4, <2>5
  <2>6. QED
    BY <2>1, <2>2, <2>3, <2>4, <2>5
<1>5. Distinct(t)
  BY <1>2, <1>4 DEF Distinct
<1>6. QED
  BY <1>5 DEF t

(* The parts of a sequence without a repetition share no element. *)
LEMMA DistinctParts ==
  ASSUME NEW T, NEW s \in Seq(T), NEW t \in Seq(T), Distinct(s \o t)
  PROVE  /\ Distinct(s)
         /\ ToSet(s) \cap ToSet(t) = {}
<1>1. PICK m \in Nat : m = Len(s)
  BY LenProperties
<1>2. PICK n \in Nat : n = Len(t)
  BY LenProperties
<1> DEFINE u == s \o t
<1>3. /\ Len(u) = m + n
      /\ \A i \in 1 .. m + n : u[i] = IF i <= m THEN s[i] ELSE t[i - m]
  BY <1>1, <1>2, ConcatProperties
<1>4. \A i, j \in 1 .. m + n : u[i] = u[j] => i = j
  BY <1>3 DEF Distinct
<1> HIDE DEF u
<1>5. \A i \in 1 .. m : i \in 1 .. m + n /\ u[i] = s[i]
  BY <1>3
<1>6. ASSUME NEW j \in 1 .. n
      PROVE  m + j \in 1 .. m + n /\ m + j > m /\ u[m + j] = t[j]
  <2>1. m + j \in 1 .. m + n /\ ~ (m + j <= m) /\ (m + j) - m = j
    OBVIOUS
  <2>2. u[m + j] = t[(m + j) - m]
    BY <1>3, <2>1
  <2>3. QED
    BY <2>1, <2>2
<1>7. Distinct(s)
  <2>1. ASSUME NEW i \in 1 .. m, NEW j \in 1 .. m, s[i] = s[j]
        PROVE  i = j
    BY <1>4, <1>5, <2>1
  <2>2. QED
    BY <1>1, <2>1 DEF Distinct
<1>8. ASSUME NEW x, x \in ToSet(s), x \in ToSet(t)
      PROVE  FALSE
  <2>1. PICK i \in 1 .. m : s[i] = x
    BY <1>1, <1>8, ToSetFacts
  <2>2. PICK j \in 1 .. n : t[j] = x
    BY <1>2, <1>8, ToSetFacts
  <2>3. i = m + j
    BY <1>4, <1>5, <1>6, <2>1, <2>2
  <2>4. QED
    BY <1>6, <2>3
<1>9. QED
  BY <1>7, <1>8
=============================================================================
