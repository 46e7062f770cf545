--------------------------- MODULE AsyncLog_proofs ---------------------------
(***************************************************************************)
(* Proofs about AsyncLog, for every set of lines of any lengths, every     *)
(* block size and every limit of the backlog from two blocks on.           *)
(***************************************************************************)
EXTENDS AsyncLog, Induction_proofs

BlockSeq == Seq([data : Seq(Messages), length : Int])

BlockTypes ==
  /\ current \in [data : Seq(Messages), length : Int]
  /\ next \in {Empty, None}
  /\ blocks \in BlockSeq /\ toWrite \in BlockSeq
  /\ pc \in {"none", "begin", "loop", "swap", "output", "recycle", "done", "aborted"}

(* append() leaves next_block_ null only together with a block in blocks_,   *)
(* so an exchange that gives both spares away has two blocks to write.       *)
ReserveUsed == next = None => blocks # <<>>

SparesThere ==
  pc \in {"loop", "swap"} => new1 = Empty /\ new2 = Empty /\ toWrite = <<>>

SparesCovered ==
  pc \in {"output", "recycle"} =>
    /\ new1 = None
    /\ new2 \in {Empty, None}
    /\ Len(toWrite) >= Spares
    /\ toWrite # <<>>

AsyncInv == BlockTypes /\ ReserveUsed /\ SparesThere /\ SparesCovered

LEMMA EmptyIsBlock ==
  /\ Empty \in [data : Seq(Messages), length : Int]
  /\ Empty # None
  /\ None \notin [data : Seq(Messages), length : Nat]
<1>1. <<>> \in Seq(Messages)
  OBVIOUS
<1>2. /\ Empty \in [data : Seq(Messages), length : Int]
      /\ Empty \in [data : Seq(Messages), length : Nat]
  BY <1>1 DEF Empty
<1>3. QED
  BY <1>2, AsyncAssumption

LEMMA AsyncInit == Init => AsyncInv
BY EmptyIsBlock DEF Init, AsyncInv, BlockTypes, BlockSeq, ReserveUsed,
                    SparesThere, SparesCovered

LEMMA PutIsBlock ==
  ASSUME NEW b \in [data : Seq(Messages), length : Int], NEW m \in Messages
  PROVE  Put(b, m) \in [data : Seq(Messages), length : Int]
BY AsyncAssumption DEF Put, Avail

LEMMA AppendBlock ==
  ASSUME NEW S, NEW s \in Seq(S), NEW b \in S
  PROVE  Append(s, b) # <<>> /\ Len(Append(s, b)) = Len(s) + 1
<1>1. Append(s, b) \in Seq(S) /\ Len(Append(s, b)) = Len(s) + 1
  OBVIOUS
<1>2. Len(s) + 1 # 0
  BY LenProperties
<1>3. QED
  BY <1>1, <1>2, EmptySeq

LEMMA FirstTwo ==
  ASSUME NEW S, NEW s \in Seq(S), Len(s) >= 2
  PROVE  /\ SubSeq(s, 1, 2) \in Seq(S)
         /\ Len(SubSeq(s, 1, 2)) = 2
         /\ SubSeq(s, 1, 2) # <<>>
<1>1. \A i \in 1 .. 2 : s[i] \in S
  <2>1. TAKE i \in 1 .. 2
  <2>2. i \in 1 .. Len(s)
    BY LenProperties
  <2>3. QED
    BY <2>2, ElementOfSeq
<1>2. SubSeq(s, 1, 2) \in Seq(S) /\ Len(SubSeq(s, 1, 2)) = 2
  BY <1>1, SubSeqProperties
<1>3. Len(<<>>) # 2
  BY EmptySeq
<1>4. QED
  BY <1>2, <1>3

LEMMA AppendPreserves ==
  ASSUME AsyncInv, NEW m \in Messages, AppendLine(m)
  PROVE  AsyncInv'
<1> USE DEF AsyncInv, BlockTypes, BlockSeq, AppendLine
<1>1. CASE AppendFits(m)
  BY <1>1, PutIsBlock DEF AppendFits, thread, ReserveUsed, SparesThere,
                          SparesCovered, Spares
<1>2. CASE AppendRolls(m)
  <2>1. BlockTypes'
    <3>1. (IF next = None THEN Empty ELSE next) \in [data : Seq(Messages), length : Int]
      BY EmptyIsBlock
    <3>2. current' \in [data : Seq(Messages), length : Int]
      <4> DEFINE b == IF next = None THEN Empty ELSE next
      <4>1. current' = Put(b, m)
        BY <1>2 DEF AppendRolls
      <4>2. Put(b, m) \in [data : Seq(Messages), length : Int]
        <5> HIDE DEF b
        <5> QED
          BY <3>1, PutIsBlock DEF b
      <4>3. QED
        BY <4>1, <4>2
    <3>3. QED
      BY <3>2, <1>2 DEF AppendRolls, thread
  <2>2. blocks' # <<>>
    BY <1>2, AppendBlock DEF AppendRolls
  <2>3. SparesThere' /\ SparesCovered'
    BY <1>2 DEF AppendRolls, thread, SparesThere, SparesCovered, Spares
  <2>4. QED
    BY <2>1, <2>2, <2>3 DEF ReserveUsed
<1>3. QED
  BY <1>1, <1>2

LEMMA SwapPreserves ==
  ASSUME AsyncInv, Swap
  PROVE  AsyncInv'
<1> USE DEF AsyncInv, BlockTypes, BlockSeq, Swap
<1>1. new1 = Empty /\ new2 = Empty
  BY DEF SparesThere
<1>2. BlockTypes'
  <2>1. Append(blocks, current) \in Seq([data : Seq(Messages), length : Int])
    OBVIOUS
  <2>2. current' \in [data : Seq(Messages), length : Int] /\ next' \in {Empty, None}
    BY <1>1, EmptyIsBlock
  <2>3. QED
    BY <2>1, <2>2
<1>3. ReserveUsed' /\ SparesThere'
  BY <1>1, EmptyIsBlock DEF ReserveUsed, SparesThere
<1>4. Len(toWrite') = Len(blocks) + 1 /\ toWrite' # <<>>
  BY AppendBlock
<1>5. Len(toWrite') >= Spares'
  <2>1. CASE next = None
    <3>1. blocks # <<>>
      BY <2>1 DEF ReserveUsed
    <3>2. Len(blocks) >= 1
      BY <3>1
    <3>3. QED
      BY <3>2, <1>4 DEF Spares
  <2>2. CASE next # None
    BY <2>2, <1>1, <1>4, EmptyIsBlock DEF Spares
  <2>3. QED
    BY <2>1, <2>2
<1>6. QED
  BY <1>1, <1>2, <1>3, <1>4, <1>5 DEF SparesCovered

LEMMA OutputPreserves ==
  ASSUME AsyncInv, Output
  PROVE  AsyncInv'
<1> USE DEF AsyncInv, BlockTypes, BlockSeq
<1> DEFINE over == Len(toWrite) > MaxBlocks
<1>1. toWrite' = IF over THEN SubSeq(toWrite, 1, 2) ELSE toWrite
  BY DEF Output
<1>2. /\ toWrite' \in Seq([data : Seq(Messages), length : Int])
      /\ Len(toWrite') >= Spares
      /\ toWrite' # <<>>
  <2>1. CASE over
    <3>1. Len(toWrite) >= 2
      BY <2>1, AsyncAssumption, LenProperties
    <3>2. /\ SubSeq(toWrite, 1, 2) \in Seq([data : Seq(Messages), length : Int])
          /\ Len(SubSeq(toWrite, 1, 2)) = 2
          /\ SubSeq(toWrite, 1, 2) # <<>>
      BY <3>1, FirstTwo
    <3>3. Spares \in Int /\ Spares <= 2
      BY DEF Spares
    <3>4. toWrite' = SubSeq(toWrite, 1, 2)
      BY <1>1, <2>1
    <3>5. toWrite' # <<>>
      BY <3>2, <3>4
    <3>6. QED
      BY <3>2, <3>3, <3>4, <3>5
  <2>2. CASE ~over
    BY <1>1, <2>2 DEF Output, SparesCovered
  <2>3. QED
    BY <2>1, <2>2
<1>3. BlockTypes' /\ ReserveUsed' /\ SparesThere'
  BY <1>2 DEF Output, buffers, ReserveUsed, SparesThere
<1>4. SparesCovered'
  BY <1>2 DEF Output, SparesCovered, Spares
<1>5. QED
  BY <1>3, <1>4

(* Each of these leaves the blocks alone, or sets up or gives up the spares. *)
LEMMA OthersPreserve ==
  ASSUME AsyncInv,
         \/ Start \/ StartReturns \/ Stop \/ StopReturns
         \/ Begin \/ BeginThrows \/ Loop \/ Recycle \/ Finish
         \/ UNCHANGED vars
  PROVE  AsyncInv'
<1> USE EmptyIsBlock DEF AsyncInv, BlockTypes, BlockSeq, ReserveUsed,
          SparesThere, SparesCovered, Spares, buffers, thread
<1>1. CASE Start
  BY <1>1 DEF Start
<1>2. CASE StartReturns \/ Stop \/ StopReturns
  BY <1>2 DEF StartReturns, Stop, StopReturns
<1>3. CASE Begin
  BY <1>3 DEF Begin
<1>4. CASE BeginThrows \/ Loop
  BY <1>4 DEF BeginThrows, Loop
<1>5. CASE Recycle
  BY <1>5 DEF Recycle
<1>6. CASE Finish
  BY <1>6 DEF Finish
<1>7. CASE UNCHANGED vars
  BY <1>7 DEF vars
<1>8. QED
  BY <1>1, <1>2, <1>3, <1>4, <1>5, <1>6, <1>7

LEMMA AsyncStep == AsyncInv /\ [Next]_vars => AsyncInv'
BY AppendPreserves, SwapPreserves, OutputPreserves, OthersPreserve DEF Next, Run

(* The assertions in run() never fail: the exchange finds two empty spares,  *)
(* and enough written blocks are left to make up for those it gave away.     *)
THEOREM AssertionsHold == Spec => []AssertsHold
<1>1. AsyncInv => AssertsHold
  BY DEF AsyncInv, SparesThere, SparesCovered, AssertsHold
<1>2. QED
  BY AsyncInit, AsyncStep, <1>1, PTL DEF Spec
-----------------------------------------------------------------------------
(* Only, the filter that WrittenInOrder speaks of.                           *)

(* The function by which Only is defined. *)
Filters(f, s, S) ==
  f = [i \in 0 .. Len(s) |->
         IF i = 0 THEN <<>>
         ELSE IF s[i] \in S THEN Append(f[i - 1], s[i]) ELSE f[i - 1]]

LEMMA OnlyIs ==
  ASSUME NEW T, NEW s \in Seq(T), NEW S
  PROVE  \E f : Filters(f, s, S) /\ Only(s, S) = f[Len(s)]
<1>1. PICK n \in Nat : n = Len(s)
  BY LenProperties
<1>2. \A i \in 1 .. n : s[i] \in T
  BY <1>1, ElementOfSeq
<1> DEFINE step == [p \in Seq(T) \X (1 .. n) |->
                      IF s[p[2]] \in S THEN Append(p[1], s[p[2]]) ELSE p[1]]
<1>3. \A v \in Seq(T), i \in 1 .. n :
        step[<<v, i>>] = IF s[i] \in S THEN Append(v, s[i]) ELSE v
  OBVIOUS
<1>4. step \in [Seq(T) \X (1 .. n) -> Seq(T)]
  <2>1. \A v \in Seq(T), i \in 1 .. n :
          (IF s[i] \in S THEN Append(v, s[i]) ELSE v) \in Seq(T)
    BY <1>2
  <2>2. QED
    BY <2>1
<1>5. <<>> \in Seq(T)
  OBVIOUS
<1> HIDE DEF step
<1>6. PICK h : Recurses(h, Seq(T), <<>>, step, n)
  BY <1>4, <1>5, RecursionExists
<1>7. h = [i \in 0 .. n |->
             IF i = 0 THEN <<>>
             ELSE IF s[i] \in S THEN Append(h[i - 1], s[i]) ELSE h[i - 1]]
  <2>1. ASSUME NEW i \in 0 .. n, i # 0
        PROVE  h[i] = IF s[i] \in S THEN Append(h[i - 1], s[i]) ELSE h[i - 1]
    <3>1. i \in 1 .. n /\ i - 1 \in 0 .. n
      BY <2>1
    <3>2. h[i - 1] \in Seq(T) /\ h[i] = step[<<h[i - 1], i>>]
      BY <1>6, <3>1 DEF Recurses
    <3>3. QED
      BY <1>3, <3>1, <3>2
  <2>2. h \in [0 .. n -> Seq(T)] /\ h[0] = <<>>
    BY <1>6 DEF Recurses
  <2>3. QED
    BY <2>1, <2>2
<1>8. Filters(h, s, S)
  BY <1>1, <1>7 DEF Filters
<1>9. QED
  BY <1>8 DEF Only, Filters

LEMMA OnlyEmpty ==
  ASSUME NEW S
  PROVE  Only(<<>>, S) = <<>>
<1>1. <<>> \in Seq({}) /\ Len(<<>>) = 0
  BY EmptySeq
<1>2. PICK f : Filters(f, <<>>, S) /\ Only(<<>>, S) = f[0]
  BY <1>1, OnlyIs
<1>3. QED
  BY <1>1, <1>2 DEF Filters

LEMMA OnlyAppend ==
  ASSUME NEW T, NEW s \in Seq(T), NEW e \in T, NEW S
  PROVE  Only(Append(s, e), S) = IF e \in S THEN Append(Only(s, S), e) ELSE Only(s, S)
<1>1. PICK n \in Nat : n = Len(s)
  BY LenProperties
<1> DEFINE t == Append(s, e)
<1>2. /\ t \in Seq(T) /\ Len(t) = n + 1
      /\ \A i \in 1 .. n : t[i] = s[i]
      /\ t[n + 1] = e
  BY <1>1, AppendProperties
<1> HIDE DEF t
<1>3. PICK g : Filters(g, t, S) /\ Only(t, S) = g[n + 1]
  BY <1>2, OnlyIs
<1>4. PICK f : Filters(f, s, S) /\ Only(s, S) = f[n]
  BY <1>1, OnlyIs
<1> DEFINE P == {k \in Nat : k <= n => g[k] = f[k]}
<1>5. 0 \in P
  BY <1>1, <1>2, <1>3, <1>4 DEF Filters
<1>6. ASSUME NEW k \in Nat, k \in P
      PROVE  k + 1 \in P
  <2>1. CASE k + 1 <= n
    <3>1. k + 1 \in 0 .. n /\ k + 1 \in 0 .. n + 1 /\ k + 1 # 0 /\ (k + 1) - 1 = k
      BY <2>1
    <3>2. g[k + 1] = IF t[k + 1] \in S THEN Append(g[k], t[k + 1]) ELSE g[k]
      <4>1. k + 1 \in 0 .. Len(t)
        BY <1>2, <3>1
      <4>2. g[k + 1] = IF k + 1 = 0 THEN <<>>
                       ELSE IF t[k + 1] \in S THEN Append(g[(k + 1) - 1], t[k + 1])
                                               ELSE g[(k + 1) - 1]
        BY <1>3, <4>1 DEF Filters
      <4>3. QED
        BY <3>1, <4>2
    <3>3. f[k + 1] = IF s[k + 1] \in S THEN Append(f[k], s[k + 1]) ELSE f[k]
      BY <1>1, <1>4, <3>1 DEF Filters
    <3>4. g[k] = f[k] /\ t[k + 1] = s[k + 1]
      BY <1>2, <1>6, <2>1
    <3>5. QED
      BY <3>2, <3>3, <3>4
  <2>2. QED
    BY <2>1
<1> HIDE DEF P
<1>7. Nat \subseteq P
  BY <1>5, <1>6, SetInduction
<1>8. g[n] = f[n]
  BY <1>7 DEF P
<1>9. g[n + 1] = IF e \in S THEN Append(g[n], e) ELSE g[n]
  <2>1. n + 1 \in 0 .. n + 1 /\ n + 1 # 0 /\ (n + 1) - 1 = n
    OBVIOUS
  <2>2. g[n + 1] = IF t[n + 1] \in S THEN Append(g[n], t[n + 1]) ELSE g[n]
    BY <1>2, <1>3, <2>1 DEF Filters
  <2>3. QED
    BY <1>2, <2>2
<1>10. QED
  BY <1>3, <1>4, <1>8, <1>9 DEF t

LEMMA OnlyType ==
  ASSUME NEW T, NEW s \in Seq(T), NEW S
  PROVE  Only(s, S) \in Seq(T)
<1> DEFINE P == {u \in Seq(T) : Only(u, S) \in Seq(T)}
<1>1. <<>> \in P
  <2>1. <<>> \in Seq(T)
    OBVIOUS
  <2>2. QED
    BY <2>1, OnlyEmpty
<1>2. ASSUME NEW u \in Seq(T), u \in P, NEW e \in T
      PROVE  Append(u, e) \in P
  <2>1. Only(u, S) \in Seq(T) /\ Append(u, e) \in Seq(T)
    BY <1>2
  <2>2. Append(Only(u, S), e) \in Seq(T)
    BY <2>1
  <2>3. Only(Append(u, e), S) \in Seq(T)
    BY <2>1, <2>2, OnlyAppend
  <2>4. QED
    BY <2>1, <2>3
<1> HIDE DEF P
<1>3. s \in P
  BY <1>1, <1>2, SequenceInduction
<1>4. QED
  BY <1>3 DEF P

LEMMA OnlyElements ==
  ASSUME NEW T, NEW s \in Seq(T), NEW S
  PROVE  ToSet(Only(s, S)) = ToSet(s) \cap S
<1> DEFINE P == {u \in Seq(T) : ToSet(Only(u, S)) = ToSet(u) \cap S}
<1>1. <<>> \in P
  <2>1. <<>> \in Seq(T)
    OBVIOUS
  <2>2. QED
    BY <2>1, OnlyEmpty, ToSetEmpty
<1>2. ASSUME NEW u \in Seq(T), u \in P, NEW e \in T
      PROVE  Append(u, e) \in P
  <2>1. Only(u, S) \in Seq(T) /\ Append(u, e) \in Seq(T)
    BY OnlyType
  <2>2. ToSet(Append(Only(u, S), e)) = ToSet(Only(u, S)) \cup {e}
    BY <2>1, ToSetAppend
  <2>3. ToSet(Append(u, e)) = ToSet(u) \cup {e}
    BY ToSetAppend
  <2>4. Only(Append(u, e), S) = IF e \in S THEN Append(Only(u, S), e) ELSE Only(u, S)
    BY OnlyAppend
  <2>5. QED
    BY <1>2, <2>1, <2>2, <2>3, <2>4
<1> HIDE DEF P
<1>3. s \in P
  BY <1>1, <1>2, SequenceInduction
<1>4. QED
  BY <1>3 DEF P

LEMMA OnlyConcat ==
  ASSUME NEW T, NEW s \in Seq(T), NEW t \in Seq(T), NEW S
  PROVE  Only(s \o t, S) = Only(s, S) \o Only(t, S)
<1> DEFINE P == {u \in Seq(T) : Only(s \o u, S) = Only(s, S) \o Only(u, S)}
<1>0. Only(s, S) \in Seq(T)
  BY OnlyType
<1>1. <<>> \in P
  <2>1. <<>> \in Seq(T) /\ s \o <<>> = s /\ Only(s, S) \o <<>> = Only(s, S)
    BY <1>0, ConcatEmptySeq
  <2>2. QED
    BY <2>1, OnlyEmpty
<1>2. ASSUME NEW u \in Seq(T), u \in P, NEW e \in T
      PROVE  Append(u, e) \in P
  <2>1. Append(u, e) \in Seq(T) /\ Only(u, S) \in Seq(T)
    BY OnlyType
  <2>2. Only(s \o Append(u, e), S)
          = IF e \in S THEN Append(Only(s \o u, S), e) ELSE Only(s \o u, S)
    <3> DEFINE v == s \o u
    <3>1. v \in Seq(T) /\ s \o Append(u, e) = Append(v, e)
      BY ConcatAppend
    <3> HIDE DEF v
    <3>2. Only(Append(v, e), S) = IF e \in S THEN Append(Only(v, S), e) ELSE Only(v, S)
      BY <3>1, OnlyAppend
    <3>3. QED
      BY <3>1, <3>2 DEF v
  <2>3. Only(s \o u, S) = Only(s, S) \o Only(u, S)
    BY <1>2
  <2>4. Only(s, S) \o Append(Only(u, S), e) = Append(Only(s, S) \o Only(u, S), e)
    BY <1>0, <2>1, ConcatAppend
  <2>5. Only(Append(u, e), S) = IF e \in S THEN Append(Only(u, S), e) ELSE Only(u, S)
    BY OnlyAppend
  <2>6. Only(s \o Append(u, e), S) = Only(s, S) \o Only(Append(u, e), S)
    <3>1. CASE e \in S
      BY <2>2, <2>3, <2>4, <2>5, <3>1
    <3>2. CASE e \notin S
      BY <2>2, <2>3, <2>5, <3>2
    <3>3. QED
      BY <3>1, <3>2
  <2>7. QED
    BY <2>1, <2>6
<1> HIDE DEF P
<1>3. t \in P
  BY <1>1, <1>2, SequenceInduction
<1>4. QED
  BY <1>3 DEF P

LEMMA OnlyOnly ==
  ASSUME NEW T, NEW s \in Seq(T), NEW A, NEW B
  PROVE  Only(Only(s, A), B) = Only(s, A \cap B)
<1> DEFINE P == {u \in Seq(T) : Only(Only(u, A), B) = Only(u, A \cap B)}
<1>1. <<>> \in P
  <2>1. <<>> \in Seq(T)
    OBVIOUS
  <2>2. QED
    BY <2>1, OnlyEmpty
<1>2. ASSUME NEW u \in Seq(T), u \in P, NEW e \in T
      PROVE  Append(u, e) \in P
  <2>1. Append(u, e) \in Seq(T) /\ Only(u, A) \in Seq(T)
    BY OnlyType
  <2>2. Only(Append(u, e), A) = IF e \in A THEN Append(Only(u, A), e) ELSE Only(u, A)
    BY OnlyAppend
  <2>3. Only(Append(Only(u, A), e), B)
          = IF e \in B THEN Append(Only(Only(u, A), B), e) ELSE Only(Only(u, A), B)
    BY <2>1, OnlyAppend
  <2>4. Only(Append(u, e), A \cap B)
          = IF e \in A \cap B THEN Append(Only(u, A \cap B), e) ELSE Only(u, A \cap B)
    BY OnlyAppend
  <2>5. Only(Only(u, A), B) = Only(u, A \cap B)
    BY <1>2
  <2>6. Only(Only(Append(u, e), A), B) = Only(Append(u, e), A \cap B)
    <3>1. CASE e \in A /\ e \in B
      <4>1. Only(Only(Append(u, e), A), B) = Append(Only(u, A \cap B), e)
        BY <2>2, <2>3, <2>5, <3>1
      <4>2. QED
        BY <2>4, <3>1, <4>1
    <3>2. CASE e \in A /\ e \notin B
      <4>1. Only(Only(Append(u, e), A), B) = Only(u, A \cap B)
        BY <2>2, <2>3, <2>5, <3>2
      <4>2. QED
        BY <2>4, <3>2, <4>1
    <3>3. CASE e \notin A
      BY <2>2, <2>4, <2>5, <3>3
    <3>4. QED
      BY <3>1, <3>2, <3>3
  <2>7. QED
    BY <2>1, <2>6
<1> HIDE DEF P
<1>3. s \in P
  BY <1>1, <1>2, SequenceInduction
<1>4. QED
  BY <1>3 DEF P

LEMMA OnlyAll ==
  ASSUME NEW T, NEW s \in Seq(T), NEW S, ToSet(s) \subseteq S
  PROVE  Only(s, S) = s
<1> DEFINE P == {u \in Seq(T) : ToSet(u) \subseteq S => Only(u, S) = u}
<1>1. <<>> \in P
  <2>1. <<>> \in Seq(T)
    OBVIOUS
  <2>2. QED
    BY <2>1, OnlyEmpty
<1>2. ASSUME NEW u \in Seq(T), u \in P, NEW e \in T
      PROVE  Append(u, e) \in P
  <2>1. ToSet(Append(u, e)) = ToSet(u) \cup {e}
    BY ToSetAppend
  <2>2. Only(Append(u, e), S) = IF e \in S THEN Append(Only(u, S), e) ELSE Only(u, S)
    BY OnlyAppend
  <2>3. Append(u, e) \in Seq(T)
    OBVIOUS
  <2>4. QED
    BY <1>2, <2>1, <2>2, <2>3
<1> HIDE DEF P
<1>3. s \in P
  BY <1>1, <1>2, SequenceInduction
<1>4. QED
  BY <1>3 DEF P

LEMMA OnlyNone ==
  ASSUME NEW T, NEW s \in Seq(T), NEW S, ToSet(s) \cap S = {}
  PROVE  Only(s, S) = <<>>
<1>1. Only(s, S) \in Seq(T) /\ ToSet(Only(s, S)) = {}
  BY OnlyType, OnlyElements
<1>2. Only(s, S) \in Seq({})
  BY <1>1, ToSetFacts
<1>3. \A t \in Seq({}) : t = <<>>
  <2>1. TAKE t \in Seq({})
  <2>2. PICK n \in Nat : n = Len(t)
    BY LenProperties
  <2>3. n = 0
    <3>1. \A i \in 1 .. n : FALSE
      BY <2>2, ElementOfSeq
    <3>2. 1 \in 1 .. n \/ n = 0
      OBVIOUS
    <3>3. QED
      BY <3>1, <3>2
  <2>4. QED
    BY <2>2, <2>3, EmptySeq
<1>4. QED
  BY <1>2, <1>3

LEMMA OnlyDistinct ==
  ASSUME NEW T, NEW s \in Seq(T), Distinct(s), NEW S
  PROVE  Distinct(Only(s, S))
<1> DEFINE P == {u \in Seq(T) : Distinct(u) => Distinct(Only(u, S))}
<1>1. <<>> \in P
  <2>1. <<>> \in Seq(T)
    OBVIOUS
  <2>2. QED
    BY <2>1, OnlyEmpty
<1>2. ASSUME NEW u \in Seq(T), u \in P, NEW e \in T
      PROVE  Append(u, e) \in P
  <2>1. Append(u, e) \in Seq(T)
    OBVIOUS
  <2>2. ASSUME Distinct(Append(u, e))
        PROVE  Distinct(Only(Append(u, e), S))
    <3>1. <<e>> \in Seq(T) /\ Append(u, e) = u \o <<e>> /\ ToSet(<<e>>) = {e}
      BY AppendIsConcat DEF ToSet
    <3>2. Distinct(u \o <<e>>)
      BY <2>2, <3>1
    <3>3. Distinct(u) /\ ToSet(u) \cap ToSet(<<e>>) = {}
      BY <3>1, <3>2, DistinctParts
    <3>4. Distinct(Only(u, S)) /\ Only(u, S) \in Seq(T)
      BY <1>2, <3>3, OnlyType
    <3>5. e \notin ToSet(Only(u, S))
      BY <3>1, <3>3, OnlyElements
    <3>6. Distinct(Append(Only(u, S), e))
      BY <3>4, <3>5, DistinctAppend
    <3>7. QED
      BY <3>4, <3>6, OnlyAppend
  <2>3. QED
    BY <2>1, <2>2
<1> HIDE DEF P
<1>3. s \in P
  BY <1>1, <1>2, SequenceInduction
<1>4. QED
  BY <1>3 DEF P
-----------------------------------------------------------------------------
(* The types, and with them that a block is never filled to its last byte.   *)

LEMMA EmptyFits == Empty \in Block
<1>1. 0 \in 0 .. BlockSize - 1 /\ <<>> \in Seq(Messages)
  BY AsyncAssumption
<1>2. QED
  BY <1>1 DEF Empty, Block

LEMMA PutFits ==
  ASSUME NEW b \in Block, NEW m \in Messages
  PROVE  Put(b, m) \in Block
<1>1. CASE Avail(b) > Size[m]
  <2>1. Append(b.data, m) \in Seq(Messages)
    BY DEF Block
  <2>2. b.length + Size[m] \in 0 .. BlockSize - 1
    <3>1. Size[m] \in Nat /\ BlockSize \in Nat /\ b.length \in 0 .. BlockSize - 1
      BY AsyncAssumption DEF Block
    <3>2. QED
      BY <1>1, <3>1 DEF Avail
  <2>3. QED
    BY <1>1, <2>1, <2>2 DEF Put, Block
<1>2. CASE ~ (Avail(b) > Size[m])
  BY <1>2 DEF Put
<1>3. QED
  BY <1>1, <1>2

LEMMA LinesFacts ==
  ASSUME NEW bs \in Seq(Block)
  PROVE  /\ [i \in DOMAIN bs |-> bs[i].data] \in Seq(Seq(Messages))
         /\ Lines(bs) \in Seq(Messages)
<1>1. PICK n \in Nat : n = Len(bs)
  BY LenProperties
<1>2. DOMAIN bs = 1 .. n
  BY <1>1, LenProperties
<1>3. \A i \in 1 .. n : bs[i].data \in Seq(Messages)
  <2>1. TAKE i \in 1 .. n
  <2>2. bs[i] \in Block
    BY <1>1, ElementOfSeq
  <2>3. QED
    BY <2>2 DEF Block
<1>4. [i \in DOMAIN bs |-> bs[i].data] \in [1 .. n -> Seq(Messages)]
  BY <1>2, <1>3
<1>5. [i \in DOMAIN bs |-> bs[i].data] \in Seq(Seq(Messages))
  BY <1>4, SeqDef
<1>6. QED
  BY <1>5, FlattenType DEF Lines

LEMMA Associates ==
  \A x, y, z \in Seq(Messages) : (x \o y) \o z = x \o (y \o z)
BY ConcatAssociative, SMTT(30)

LEMMA ConcatFacts ==
  /\ \A x, y \in Seq(Messages) : x \o y \in Seq(Messages)
  /\ \A x, y, z \in Seq(Messages) : (x \o y) \o z = x \o (y \o z)
  /\ \A x, y \in Seq(Messages), e \in Messages : x \o Append(y, e) = Append(x \o y, e)
  /\ \A x \in Seq(Messages) : x \o <<>> = x /\ <<>> \o x = x
<1>2. \A x, y \in Seq(Messages), e \in Messages : x \o Append(y, e) = Append(x \o y, e)
  BY ConcatAppend
<1>3. \A x \in Seq(Messages) : x \o <<>> = x /\ <<>> \o x = x
  BY ConcatEmptySeq
<1>4. QED
  BY Associates, <1>2, <1>3, SMTT(30)

LEMMA LinesEmpty == Lines(<<>>) = <<>>
<1>1. [i \in DOMAIN <<>> |-> <<>>[i].data] = <<>>
  OBVIOUS
<1>2. QED
  BY <1>1, FlattenEmpty DEF Lines

LEMMA LinesAppend ==
  ASSUME NEW bs \in Seq(Block), NEW b \in Block
  PROVE  Lines(Append(bs, b)) = Lines(bs) \o b.data
<1> DEFINE data == [i \in DOMAIN bs |-> bs[i].data]
           cs   == Append(bs, b)
           all  == [i \in DOMAIN cs |-> cs[i].data]
<1>1. PICK n \in Nat : n = Len(bs)
  BY LenProperties
<1>2. data \in Seq(Seq(Messages)) /\ b.data \in Seq(Messages)
  BY LinesFacts DEF Block
<1>3. cs \in Seq(Block)
  OBVIOUS
<1>4. all \in Seq(Seq(Messages))
  BY <1>3, LinesFacts
<1>5. /\ Len(cs) = n + 1 /\ DOMAIN cs = 1 .. n + 1 /\ DOMAIN bs = 1 .. n
      /\ \A i \in 1 .. n : cs[i] = bs[i]
      /\ cs[n + 1] = b
  BY <1>1, <1>3, AppendProperties, LenProperties
<1> HIDE DEF cs
<1>6. /\ Len(data) = n /\ Len(all) = n + 1
      /\ \A i \in 1 .. n : all[i] = data[i]
      /\ all[n + 1] = b.data
  <2>1. \A i \in 1 .. n : i \in 1 .. n + 1
    OBVIOUS
  <2>2. Len(data) = n /\ Len(all) = n + 1
    BY <1>2, <1>4, <1>5
  <2>3. \A i \in 1 .. n : all[i] = data[i]
    BY <1>5, <2>1
  <2>4. n + 1 \in 1 .. n + 1
    OBVIOUS
  <2>5. QED
    BY <1>5, <2>2, <2>3, <2>4
<1> HIDE DEF data, all
<1>7. all = Append(data, b.data)
  <2> DEFINE ext == Append(data, b.data)
  <2>1. /\ ext \in Seq(Seq(Messages)) /\ Len(ext) = n + 1
        /\ \A i \in 1 .. n : ext[i] = data[i]
        /\ ext[n + 1] = b.data
    BY <1>2, <1>6, AppendProperties
  <2> HIDE DEF ext
  <2>2. ASSUME NEW i \in 1 .. n + 1
        PROVE  all[i] = ext[i]
    <3>1. i \in 1 .. n \/ i = n + 1
      OBVIOUS
    <3>2. QED
      BY <1>6, <2>1, <3>1
  <2>3. all = ext
    BY <1>4, <1>6, <2>1, <2>2, SeqEqual
  <2>4. QED
    BY <2>3 DEF ext
<1>8. FlattenSeq(all) = FlattenSeq(data) \o b.data
  BY <1>2, <1>7, FlattenAppend
<1>9. QED
  BY <1>8 DEF Lines, data, all, cs

LEMMA LinesConcat ==
  ASSUME NEW bs \in Seq(Block), NEW cs \in Seq(Block)
  PROVE  Lines(bs \o cs) = Lines(bs) \o Lines(cs)
<1> DEFINE P == {ds \in Seq(Block) : Lines(bs \o ds) = Lines(bs) \o Lines(ds)}
<1>1. <<>> \in P
  <2>1. <<>> \in Seq(Block) /\ bs \o <<>> = bs
    BY ConcatEmptySeq
  <2>2. Lines(bs) \o <<>> = Lines(bs)
    BY LinesFacts, ConcatEmptySeq
  <2>3. QED
    BY <2>1, <2>2, LinesEmpty
<1>2. ASSUME NEW ds \in Seq(Block), ds \in P, NEW b \in Block
      PROVE  Append(ds, b) \in P
  <2>1. Append(ds, b) \in Seq(Block) /\ b.data \in Seq(Messages)
    BY DEF Block
  <2>2. Lines(bs \o Append(ds, b)) = Lines(bs \o ds) \o b.data
    <3> DEFINE es == bs \o ds
    <3>1. es \in Seq(Block) /\ bs \o Append(ds, b) = Append(es, b)
      BY ConcatAppend
    <3> HIDE DEF es
    <3>2. Lines(Append(es, b)) = Lines(es) \o b.data
      BY <3>1, LinesAppend
    <3>3. QED
      BY <3>1, <3>2 DEF es
  <2>3. Lines(bs \o ds) = Lines(bs) \o Lines(ds)
    BY <1>2
  <2>4. (Lines(bs) \o Lines(ds)) \o b.data = Lines(bs) \o (Lines(ds) \o b.data)
    <3>1. Lines(bs) \in Seq(Messages) /\ Lines(ds) \in Seq(Messages)
      BY LinesFacts
    <3>2. QED
      BY <2>1, <3>1, ConcatFacts, ZenonT(60)
  <2>5. Lines(Append(ds, b)) = Lines(ds) \o b.data
    BY LinesAppend
  <2>6. QED
    BY <2>1, <2>2, <2>3, <2>4, <2>5
<1> HIDE DEF P
<1>3. cs \in P
  BY <1>1, <1>2, SequenceInduction
<1>4. QED
  BY <1>3 DEF P

LEMMA TypeInit == Init => TypeOK
<1> SUFFICES ASSUME Init PROVE TypeOK
  OBVIOUS
<1>1. running \in BOOLEAN
  BY DEF Init
<1>2. <<>> \in Seq(Block) /\ <<>> \in Seq(Messages) /\ <<>> \in Seq(Messages \cup {Notice})
  OBVIOUS
<1>3. 1 \in 0 .. LatchModulus - 1 /\ 0 \in 0 .. MaxStarts /\ 0 \in 0 .. Len(written)
  BY AsyncAssumption DEF Init
<1>4. QED
  BY <1>1, <1>2, <1>3, EmptyFits DEF Init, TypeOK

LEMMA TypeAppend ==
  ASSUME TypeOK, NEW m \in Messages, AppendLine(m)
  PROVE  TypeOK'
<1>1. current \in Block /\ next \in {Empty, None} /\ blocks \in Seq(Block) /\ log \in Seq(Messages)
  BY DEF TypeOK
<1>2. log' \in Seq(Messages)
  <2>1. log' = Append(log, m)
    BY DEF AppendLine, AppendFits, AppendRolls
  <2>2. QED
    BY <1>1, <2>1
<1>3. current' \in Block /\ next' \in {Empty, None} /\ blocks' \in Seq(Block)
  <2>1. CASE AppendFits(m)
    BY <1>1, <2>1, PutFits DEF AppendFits
  <2>2. CASE AppendRolls(m)
    <3>1. PICK b \in Block : current' = Put(b, m)
      BY <1>1, <2>2, EmptyFits DEF AppendRolls
    <3>2. QED
      BY <1>1, <2>2, <3>1, PutFits DEF AppendRolls
  <2>3. QED
    BY <2>1, <2>2 DEF AppendLine
<1>4. UNCHANGED <<thread, control, latch>>
  BY DEF AppendLine, AppendFits, AppendRolls
<1>5. QED
  BY <1>2, <1>3, <1>4 DEF TypeOK, thread, control

LEMMA TypeOwner ==
  ASSUME TypeOK, Start \/ StartReturns \/ Stop \/ StopReturns
  PROVE  TypeOK'
<1>1. running' \in BOOLEAN
  BY DEF TypeOK, Start, StartReturns, Stop, StopReturns
<1>2. owner' \in {"idle", "await", "join"} /\ starts' \in 0 .. MaxStarts
  BY AsyncAssumption DEF TypeOK, Start, StartReturns, Stop, StopReturns, control
<1>3. pc' \in {pc, "begin"}
  BY DEF Start, StartReturns, Stop, StopReturns, thread
<1>4. UNCHANGED <<buffers, new1, new2, toWrite, written, flushed, dropped, latch, log>>
  BY DEF Start, StartReturns, Stop, StopReturns, thread
<1>5. QED
  BY <1>1, <1>2, <1>3, <1>4 DEF TypeOK, buffers

LEMMA TypeRun ==
  ASSUME TypeOK, Begin \/ BeginThrows \/ Loop \/ Finish \/ Recycle
  PROVE  TypeOK'
<1>1. UNCHANGED <<buffers, written, dropped, running, owner, starts, log>>
  BY DEF Begin, BeginThrows, Loop, Finish, Recycle, control
<1>2. latch' \in 0 .. LatchModulus - 1
  <2>1. CASE Begin
    <3>1. latch \in Int /\ LatchModulus \in Nat /\ LatchModulus > 0
      BY AsyncAssumption DEF TypeOK
    <3>2. (latch - 1) % LatchModulus \in 0 .. LatchModulus - 1
      BY <3>1
    <3>3. QED
      BY <2>1, <3>2 DEF Begin
  <2>2. CASE ~ Begin
    BY <2>2 DEF TypeOK, BeginThrows, Loop, Finish, Recycle
  <2>3. QED
    BY <2>1, <2>2
<1>3. /\ pc' \in {"loop", "aborted", "swap", "done"}
      /\ new1' \in {Empty, None} /\ new2' \in {Empty, None}
      /\ toWrite' \in {toWrite, <<>>}
      /\ flushed' \in {flushed, Len(written)}
  BY DEF TypeOK, Begin, BeginThrows, Loop, Finish, Recycle
<1>4. toWrite' \in Seq(Block)
  <2>1. toWrite \in Seq(Block) /\ <<>> \in Seq(Block)
    BY DEF TypeOK
  <2>2. QED
    BY <1>3, <2>1
<1>5. flushed' \in 0 .. Len(written')
  <2>1. Len(written) \in Nat /\ written' = written
    BY <1>1, LenProperties DEF TypeOK
  <2>2. QED
    BY <1>3, <2>1 DEF TypeOK
<1>6. pc' \in {"none", "begin", "loop", "swap", "output", "recycle", "done", "aborted"}
  BY <1>3
<1>7. QED
  BY <1>1, <1>2, <1>3, <1>4, <1>5, <1>6 DEF TypeOK, buffers

LEMMA TypeSwap ==
  ASSUME TypeOK, AsyncInv, Swap
  PROVE  TypeOK'
<1>1. new1 = Empty /\ new2 = Empty
  BY DEF AsyncInv, SparesThere, Swap
<1>2. current' \in Block /\ next' \in {Empty, None} /\ blocks' \in Seq(Block)
  BY <1>1, EmptyFits DEF TypeOK, Swap
<1>3. new1' \in {Empty, None} /\ new2' \in {Empty, None} /\ toWrite' \in Seq(Block)
  BY <1>1 DEF TypeOK, Swap
<1>4. UNCHANGED <<written, flushed, dropped, control, latch, log>> /\ pc' = "output"
  BY DEF Swap
<1>5. QED
  BY <1>2, <1>3, <1>4 DEF TypeOK, control

(* What the thread does with its blocks: the first of them are written, the  *)
(* others dropped.                                                           *)
Writes(kept, rest, notice) ==
  /\ toWrite = kept \o rest
  /\ written' = (written \o notice) \o Lines(kept)
  /\ dropped' = dropped \cup ToSet(Lines(rest))
  /\ toWrite' = kept

LEMMA OutputWrites ==
  ASSUME TypeOK, Output
  PROVE  \E kept, rest \in Seq(Block), notice \in {<<>>, <<Notice>>} :
           Writes(kept, rest, notice)
<1> DEFINE kept   == IF Len(toWrite) > MaxBlocks THEN SubSeq(toWrite, 1, 2) ELSE toWrite
           rest   == SubSeq(toWrite, Len(kept) + 1, Len(toWrite))
           notice == IF Len(toWrite) > MaxBlocks THEN <<Notice>> ELSE <<>>
<1>1. /\ written' = (written \o notice) \o Lines(kept)
      /\ dropped' = dropped \cup ToSet(Lines(rest))
      /\ toWrite' = kept
  BY DEF Output
<1>2. PICK n \in Nat : n = Len(toWrite)
  BY LenProperties DEF TypeOK
<1>3. toWrite \in Seq(Block) /\ \A i \in 1 .. n : toWrite[i] \in Block
  BY <1>2, ElementOfSeq DEF TypeOK
<1>4. kept \in Seq(Block) /\ rest \in Seq(Block) /\ toWrite = kept \o rest
  <2>1. CASE n > MaxBlocks
    <3>1. n >= 2
      BY <2>1, AsyncAssumption
    <3>2. kept = SubSeq(toWrite, 1, 2)
      BY <1>2, <2>1
    <3>3. kept \in Seq(Block) /\ Len(kept) = 2
      BY <1>2, <1>3, <3>1, <3>2, FirstTwo
    <3>4. rest = SubSeq(toWrite, 3, n)
      <4> HIDE DEF kept
      <4>1. Len(kept) + 1 = 3
        BY <3>3
      <4>2. QED
        BY <1>2, <4>1
    <3>5. rest \in Seq(Block)
      <4>1. \A i \in 3 .. n : toWrite[i] \in Block
        BY <1>3
      <4>2. 3 \in Int /\ n \in Int
        OBVIOUS
      <4>3. SubSeq(toWrite, 3, n) \in Seq(Block)
        BY <4>1, <4>2, SubSeqProperties
      <4>4. QED
        BY <3>4, <4>3
    <3>6. SubSeq(toWrite, 1, 2) \o SubSeq(toWrite, 3, n) = toWrite
      <4>1. 1 \in 1 .. n + 1 /\ 2 \in 1 - 1 .. n /\ n \in 2 .. n /\ 2 + 1 = 3
        BY <3>1
      <4>2. SubSeq(toWrite, 1, 2) \o SubSeq(toWrite, 2 + 1, n) = SubSeq(toWrite, 1, n)
        BY <1>2, <1>3, <4>1, ConcatAdjacentSubSeq
      <4>3. SubSeq(toWrite, 1, n) = toWrite
        BY <1>2, <1>3, SubSeqFull
      <4>4. QED
        BY <4>1, <4>2, <4>3
    <3>7. QED
      BY <3>2, <3>3, <3>4, <3>5, <3>6
  <2>2. CASE ~ (n > MaxBlocks)
    <3>1. kept = toWrite
      BY <1>2, <2>2
    <3>2. rest = SubSeq(toWrite, n + 1, n)
      BY <1>2, <3>1
    <3>3. SubSeq(toWrite, n + 1, n) = <<>>
      <4>1. n + 1 \in Int /\ n \in Int /\ n < n + 1
        OBVIOUS
      <4>2. QED
        BY <4>1, SubSeqEmpty
    <3>4. <<>> \in Seq(Block) /\ toWrite \o <<>> = toWrite
      BY <1>3, ConcatEmptySeq
    <3>5. QED
      BY <1>3, <3>1, <3>2, <3>3, <3>4
  <2>3. QED
    BY <2>1, <2>2
<1>5. notice \in {<<>>, <<Notice>>}
  OBVIOUS
<1> HIDE DEF kept, rest, notice
<1>6. Writes(kept, rest, notice)
  BY <1>1, <1>4 DEF Writes
<1>7. QED
  BY <1>4, <1>5, <1>6

LEMMA TypeOutput ==
  ASSUME TypeOK, Output
  PROVE  TypeOK'
<1>1. PICK kept, rest \in Seq(Block), notice \in {<<>>, <<Notice>>} : Writes(kept, rest, notice)
  BY OutputWrites
<1> DEFINE T == Messages \cup {Notice}
<1>2. notice \in Seq(T) /\ written \in Seq(T)
  <2>1. <<>> \in Seq(T) /\ <<Notice>> \in Seq(T)
    OBVIOUS
  <2>2. QED
    BY <2>1 DEF TypeOK
<1>3. Lines(kept) \in Seq(Messages) /\ Lines(rest) \in Seq(Messages)
  BY LinesFacts
<1>4. Lines(kept) \in Seq(T)
  BY <1>3, SeqMonotonic
<1>5. written' \in Seq(T) /\ Len(written') >= Len(written)
  <2>1. \A x, y \in Seq(T) : x \o y \in Seq(T) /\ Len(x \o y) >= Len(x)
    <3>1. TAKE x, y \in Seq(T)
    <3>2. x \o y \in Seq(T) /\ Len(x \o y) = Len(x) + Len(y)
      BY ConcatProperties
    <3>3. Len(x) \in Nat /\ Len(y) \in Nat
      BY LenProperties
    <3>4. QED
      BY <3>2, <3>3
  <2>2. \A x \in Seq(T) : Len(x) \in Nat
    BY LenProperties
  <2> DEFINE v == written \o notice
             w == v \o Lines(kept)
  <2>3. v \in Seq(T) /\ Len(v) >= Len(written)
    BY <1>2, <2>1
  <2> HIDE DEF v
  <2>4. w \in Seq(T) /\ Len(w) >= Len(v)
    BY <1>4, <2>1, <2>3
  <2> HIDE DEF w
  <2>5. Len(w) >= Len(written)
    BY <1>2, <2>2, <2>3, <2>4
  <2>6. written' = w
    BY <1>1 DEF Writes, v, w
  <2>7. QED
    BY <2>4, <2>5, <2>6
<1>6. dropped' \subseteq Messages /\ toWrite' \in Seq(Block)
  BY <1>1, <1>3, ToSetFacts DEF Writes, TypeOK
<1>7. /\ UNCHANGED <<buffers, new1, new2, flushed, control, latch, log>>
      /\ pc' = "recycle"
  BY DEF Output
<1>8. flushed' \in 0 .. Len(written')
  <2>1. Len(written) \in Nat /\ Len(written') \in Nat
    BY <1>2, <1>5, LenProperties
  <2>2. flushed \in 0 .. Len(written) /\ flushed' = flushed
    BY <1>7 DEF TypeOK
  <2>3. QED
    BY <1>5, <2>1, <2>2
<1>9. QED
  BY <1>5, <1>6, <1>7, <1>8 DEF TypeOK, buffers, control

LEMMA TypeStep == TypeOK /\ AsyncInv /\ [Next]_vars => TypeOK'
<1>1. ASSUME TypeOK, UNCHANGED vars
      PROVE  TypeOK'
  BY <1>1 DEF vars, buffers, thread, control, TypeOK
<1>2. QED
  BY <1>1, TypeAppend, TypeOwner, TypeRun, TypeSwap, TypeOutput DEF Next, Run

(* Every variable keeps its type.  For the blocks this says that append()   *)
(* never fills one to its last byte, whatever the lengths of the lines.     *)
THEOREM TypeInvariance == Spec => []TypeOK
<1>1. Init => TypeOK /\ AsyncInv
  BY TypeInit, AsyncInit
<1>2. TypeOK /\ AsyncInv /\ [Next]_vars => (TypeOK /\ AsyncInv)'
  BY TypeStep, AsyncStep
<1>3. QED
  BY <1>1, <1>2, PTL DEF Spec
-----------------------------------------------------------------------------
(* The order of the lines.                                                   *)

(* start() creates a thread only when the one before has ended. *)
EndedBeforeStart ==
  /\ owner = "await" => running
  /\ owner = "idle" /\ ~running => pc \in {"none", "done"}

(* No line is given to append() twice, and only such lines are dropped. *)
LoggedOnce == Distinct(log) /\ dropped \subseteq ToSet(log)

OrderInv == EndedBeforeStart /\ LoggedOnce /\ WrittenInOrder

(* What WrittenInOrder says is in the file or on the way there. *)
Filed    == Only(written, Messages)
Underway == (Filed \o Lines(Unwritten)) \o Lines(blocks)

LEMMA PartsTypes ==
  ASSUME TypeOK
  PROVE  /\ Filed \in Seq(Messages)
         /\ Unwritten \in Seq(Block) /\ Lines(Unwritten) \in Seq(Messages)
         /\ Lines(blocks) \in Seq(Messages)
         /\ Underway \in Seq(Messages)
         /\ current.data \in Seq(Messages)
         /\ WrittenInOrder <=> Underway \o current.data = Only(log, Kept)
<1>1. Filed \in Seq(Messages)
  <2>1. written \in Seq(Messages \cup {Notice})
    BY DEF TypeOK
  <2>2. ToSet(Filed) \subseteq Messages /\ Filed \in Seq(Messages \cup {Notice})
    BY <2>1, OnlyType, OnlyElements DEF Filed
  <2>3. Filed \in Seq(ToSet(Filed))
    BY <2>2, ToSetFacts
  <2>4. QED
    BY <2>2, <2>3, SeqMonotonic
<1>2. Unwritten \in Seq(Block)
  <2>1. <<>> \in Seq(Block)
    OBVIOUS
  <2>2. QED
    BY <2>1 DEF TypeOK, Unwritten
<1>3. Lines(Unwritten) \in Seq(Messages) /\ Lines(blocks) \in Seq(Messages)
  BY <1>2, LinesFacts DEF TypeOK
<1>4. Underway \in Seq(Messages)
  <2>1. Filed \o Lines(Unwritten) \in Seq(Messages)
    BY <1>1, <1>3, ConcatFacts
  <2>2. QED
    BY <1>3, <2>1, ConcatFacts DEF Underway
<1>5. current.data \in Seq(Messages)
  BY DEF TypeOK, Block
<1>6. WrittenInOrder <=> Underway \o current.data = Only(log, Kept)
  BY DEF WrittenInOrder, Underway, Filed
<1>7. QED
  BY <1>1, <1>2, <1>3, <1>4, <1>5, <1>6

LEMMA OrderInit == Init => OrderInv
<1> SUFFICES ASSUME Init PROVE OrderInv
  OBVIOUS
<1>1. EndedBeforeStart
  BY DEF Init, EndedBeforeStart
<1>2. Distinct(<<>>)
  <2>1. Len(<<>>) = 0
    BY EmptySeq
  <2>2. QED
    BY <2>1 DEF Distinct
<1>3. LoggedOnce
  BY <1>2 DEF Init, LoggedOnce
<1>4. /\ Only(written, Messages) = <<>> /\ Only(log, Kept) = <<>>
      /\ Lines(Unwritten) = <<>> /\ Lines(blocks) = <<>> /\ current.data = <<>>
  BY OnlyEmpty, LinesEmpty DEF Init, Unwritten, Empty
<1>5. <<>> \o <<>> = <<>>
  OBVIOUS
<1>6. WrittenInOrder
  BY <1>4, <1>5 DEF WrittenInOrder
<1>7. QED
  BY <1>1, <1>3, <1>6 DEF OrderInv

LEMMA StoresLine ==
  ASSUME NEW b \in Block, NEW m \in Messages
  PROVE  /\ Avail(b) > Size[m] => Size[m] < BlockSize /\ Put(b, m).data = Append(b.data, m)
         /\ ~ (Avail(b) > Size[m]) => Put(b, m).data = b.data
         /\ Avail(Empty) = BlockSize
<1>1. BlockSize \in Nat /\ Size[m] \in Nat /\ b.length \in 0 .. BlockSize - 1
  BY AsyncAssumption DEF Block
<1>2. Avail(b) > Size[m] => Size[m] < BlockSize
  BY <1>1 DEF Avail
<1>3. Avail(Empty) = BlockSize
  BY <1>1 DEF Avail, Empty
<1>4. QED
  BY <1>2, <1>3 DEF Put

LEMMA OrderAppendLine ==
  ASSUME TypeOK, OrderInv, NEW m \in Messages, AppendLine(m)
  PROVE  LoggedOnce' /\ WrittenInOrder'
<1>1. /\ log \in Seq(Messages) /\ current \in Block /\ blocks \in Seq(Block)
      /\ next \in {Empty, None}
  BY DEF TypeOK
<1>2. /\ log' = Append(log, m) /\ m \notin ToSet(log)
      /\ UNCHANGED <<written, dropped, toWrite, pc>>
  BY DEF AppendLine, AppendFits, AppendRolls, thread
<1>3. Kept' = Kept /\ Filed' = Filed /\ Unwritten' = Unwritten
  BY <1>2 DEF Kept, Filed, Unwritten
<1>4. LoggedOnce'
  <2>1. Distinct(log) /\ dropped \subseteq ToSet(log)
    BY DEF OrderInv, LoggedOnce
  <2>2. Distinct(Append(log, m))
    BY <1>1, <1>2, <2>1, DistinctAppend
  <2>3. ToSet(Append(log, m)) = ToSet(log) \cup {m}
    BY <1>1, ToSetAppend
  <2>4. QED
    BY <1>2, <2>1, <2>2, <2>3 DEF LoggedOnce
<1>5. m \in Kept <=> Size[m] < BlockSize
  BY <1>2 DEF Kept, OrderInv, LoggedOnce
<1>6. Only(log', Kept') = IF Size[m] < BlockSize THEN Append(Only(log, Kept), m)
                                                 ELSE Only(log, Kept)
  BY <1>1, <1>2, <1>3, <1>5, OnlyAppend
<1>7. /\ Underway \in Seq(Messages) /\ current.data \in Seq(Messages)
      /\ Underway \o current.data = Only(log, Kept)
  BY PartsTypes DEF OrderInv
<1>8. CASE AppendFits(m)
  <2>1. Size[m] < BlockSize /\ current'.data = Append(current.data, m) /\ blocks' = blocks
    BY <1>1, <1>8, StoresLine DEF AppendFits
  <2>2. Underway' = Underway
    BY <1>3, <2>1 DEF Underway
  <2>3. Underway \o Append(current.data, m) = Append(Underway \o current.data, m)
    BY <1>7, ConcatFacts, ZenonT(60)
  <2>4. Underway' \o current'.data = Only(log', Kept')
    BY <1>6, <1>7, <2>1, <2>2, <2>3
  <2>5. QED
    BY <1>4, <2>4 DEF WrittenInOrder, Underway, Filed
<1>9. CASE AppendRolls(m)
  <2>1. blocks' = Append(blocks, current) /\ current' = Put(Empty, m)
    BY <1>1, <1>9 DEF AppendRolls
  <2>2. Underway' = Underway \o current.data
    <3>1. Lines(blocks') = Lines(blocks) \o current.data
      BY <1>1, <2>1, LinesAppend
    <3> DEFINE x == Filed \o Lines(Unwritten)
    <3>2. x \in Seq(Messages) /\ Lines(blocks) \in Seq(Messages)
      <4>1. Filed \in Seq(Messages) /\ Lines(Unwritten) \in Seq(Messages)
        BY PartsTypes
      <4>2. QED
        BY <4>1, PartsTypes
    <3>3. Underway' = x \o (Lines(blocks) \o current.data)
      BY <1>3, <3>1 DEF Underway
    <3>4. Underway = x \o Lines(blocks)
      BY DEF Underway
    <3> HIDE DEF x
    <3>5. x \o (Lines(blocks) \o current.data) = (x \o Lines(blocks)) \o current.data
      BY <1>7, <3>2, ConcatFacts, ZenonT(60)
    <3>6. QED
      BY <3>3, <3>4, <3>5
  <2> DEFINE all == Underway \o current.data
  <2>3. all \in Seq(Messages) /\ <<>> \in Seq(Messages)
    <3>1. <<>> \in Seq(Messages)
      OBVIOUS
    <3>2. Underway \o current.data \in Seq(Messages)
      BY <1>7, ConcatFacts
    <3>3. QED
      BY <3>1, <3>2
  <2>4. Underway' = all /\ all = Only(log, Kept)
    BY <1>7, <2>2
  <2> HIDE DEF all
  <2>5. Empty.data = <<>>
    BY DEF Empty
  <2>6. CASE Size[m] < BlockSize
    <3>1. current'.data = Append(<<>>, m)
      <4>1. Size[m] \in Nat /\ BlockSize \in Nat
        BY AsyncAssumption
      <4>2. Avail(Empty) > Size[m]
        BY <1>1, <2>6, <4>1, StoresLine
      <4>3. QED
        BY <2>1, <2>5, <4>2, EmptyFits, StoresLine
    <3>2. all \o Append(<<>>, m) = Append(all \o <<>>, m) /\ all \o <<>> = all
      BY <2>3, ConcatFacts
    <3>3. Underway' \o current'.data = Only(log', Kept')
      BY <1>6, <2>4, <2>6, <3>1, <3>2
    <3>4. QED
      BY <1>4, <3>3 DEF WrittenInOrder, Underway, Filed
  <2>7. CASE ~ (Size[m] < BlockSize)
    <3>1. current'.data = <<>>
      <4>1. Size[m] \in Nat /\ BlockSize \in Nat
        BY AsyncAssumption
      <4>2. ~ (Avail(Empty) > Size[m])
        BY <1>1, <2>7, <4>1, StoresLine
      <4>3. QED
        BY <2>1, <2>5, <4>2, EmptyFits, StoresLine
    <3>2. all \o <<>> = all
      BY <2>3, ConcatFacts
    <3>3. Underway' \o current'.data = Only(log', Kept')
      BY <1>6, <2>4, <2>7, <3>1, <3>2
    <3>4. QED
      BY <1>4, <3>3 DEF WrittenInOrder, Underway, Filed
  <2>8. QED
    BY <2>6, <2>7
<1>10. QED
  BY <1>8, <1>9 DEF AppendLine

LEMMA OrderSwap ==
  ASSUME TypeOK, AsyncInv, OrderInv, Swap
  PROVE  LoggedOnce' /\ WrittenInOrder'
<1>1. /\ blocks \in Seq(Block) /\ current \in Block
      /\ Filed \in Seq(Messages) /\ Lines(blocks) \in Seq(Messages)
      /\ current.data \in Seq(Messages)
      /\ Underway \o current.data = Only(log, Kept)
  BY PartsTypes DEF TypeOK, OrderInv
<1>2. /\ UNCHANGED <<written, dropped, log>>
      /\ toWrite' = Append(blocks, current) /\ blocks' = <<>> /\ current' = Empty
      /\ pc = "swap" /\ pc' = "output"
  BY DEF Swap, AsyncInv, SparesThere
<1>3. LoggedOnce' /\ Kept' = Kept /\ Filed' = Filed
  BY <1>2 DEF OrderInv, LoggedOnce, Distinct, Kept, Filed
<1>4. Underway = Filed \o Lines(blocks)
  <2>1. Unwritten = <<>>
    BY <1>2 DEF Unwritten
  <2>2. Filed \o <<>> = Filed
    BY <1>1, ConcatFacts
  <2>3. QED
    BY <2>1, <2>2, LinesEmpty DEF Underway
<1>5. Lines(Unwritten') = Lines(blocks) \o current.data
  BY <1>1, <1>2, LinesAppend DEF Unwritten
<1> DEFINE x == Lines(blocks) \o current.data
<1>6. x \in Seq(Messages) /\ Filed \o x \in Seq(Messages)
  <2>1. x \in Seq(Messages)
    BY <1>1, ConcatFacts
  <2> HIDE DEF x
  <2>2. QED
    BY <1>1, <2>1, ConcatFacts
<1>7. Filed \o x = Underway \o current.data
  BY <1>1, <1>4, ConcatFacts, ZenonT(60)
<1> HIDE DEF x
<1>8. Underway' \o current'.data = Filed \o x
  <2>1. Underway' = (Filed \o x) \o <<>>
    BY <1>2, <1>3, <1>5, LinesEmpty DEF Underway, x
  <2>2. Underway' = Filed \o x
    BY <1>6, <2>1, ConcatFacts
  <2>3. current'.data = <<>>
    BY <1>2 DEF Empty
  <2>4. QED
    BY <1>6, <2>2, <2>3, ConcatFacts
<1>9. Underway' \o current'.data = Only(log', Kept')
  BY <1>1, <1>2, <1>3, <1>7, <1>8
<1>10. QED
  BY <1>3, <1>9 DEF WrittenInOrder, Underway, Filed

(* What is taken out of a sequence without a repetition: a part of it. *)
LEMMA WithoutPart ==
  ASSUME NEW a \in Seq(Messages), NEW b \in Seq(Messages), NEW c \in Seq(Messages),
         Distinct((a \o b) \o c)
  PROVE  Only((a \o b) \o c, Messages \ ToSet(b)) = a \o c
<1> DEFINE N == Messages \ ToSet(b)
<1>1. a \o b \in Seq(Messages)
  BY ConcatFacts
<1>2. Distinct(a \o b) /\ ToSet(a \o b) \cap ToSet(c) = {}
  BY <1>1, DistinctParts
<1>3. ToSet(a) \cap ToSet(b) = {}
  BY <1>2, DistinctParts
<1>4. ToSet(b) \cap ToSet(c) = {}
  BY <1>2, ToSetConcat
<1>5. ToSet(a) \subseteq N /\ ToSet(c) \subseteq N /\ ToSet(b) \cap N = {}
  BY <1>3, <1>4, ToSetFacts
<1> HIDE DEF N
<1>6. Only(a, N) = a /\ Only(c, N) = c /\ Only(b, N) = <<>>
  BY <1>5, OnlyAll, OnlyNone
<1>7. Only((a \o b) \o c, N) = Only(a \o b, N) \o Only(c, N)
  <2> DEFINE d == a \o b
  <2>1. d \in Seq(Messages)
    BY <1>1
  <2> HIDE DEF d
  <2>2. Only(d \o c, N) = Only(d, N) \o Only(c, N)
    BY <2>1, OnlyConcat, SMTT(30)
  <2>3. QED
    BY <2>2 DEF d
<1>8. Only(a \o b, N) = Only(a, N) \o Only(b, N)
  BY OnlyConcat
<1>9. a \o <<>> = a
  BY ConcatFacts
<1>10. Only((a \o b) \o c, N) = a \o c
  BY <1>6, <1>7, <1>8, <1>9
<1>11. QED
  BY <1>10 DEF N

LEMMA OrderOutput ==
  ASSUME TypeOK, OrderInv, Output
  PROVE  LoggedOnce' /\ WrittenInOrder'
<1>1. PICK kept, rest \in Seq(Block), notice \in {<<>>, <<Notice>>} : Writes(kept, rest, notice)
  BY OutputWrites
<1>2. /\ pc = "output" /\ pc' = "recycle"
      /\ UNCHANGED <<log, blocks, current>>
  BY DEF Output, buffers
<1>3. /\ Filed \in Seq(Messages) /\ Lines(blocks) \in Seq(Messages)
      /\ current.data \in Seq(Messages) /\ log \in Seq(Messages)
      /\ Underway \o current.data = Only(log, Kept)
  BY PartsTypes DEF TypeOK, OrderInv
<1>4. Lines(kept) \in Seq(Messages) /\ Lines(rest) \in Seq(Messages)
  BY LinesFacts
<1> DEFINE after  == Lines(blocks) \o current.data
           before == Filed \o Lines(kept)
           gone   == Lines(rest)
<1>5. after \in Seq(Messages) /\ before \in Seq(Messages) /\ gone \in Seq(Messages)
  BY <1>3, <1>4, ConcatFacts
<1>6. Underway \o current.data = (before \o gone) \o after
  <2>1. Lines(Unwritten) = Lines(kept) \o Lines(rest)
    BY <1>1, <1>2, LinesConcat DEF Unwritten, Writes
  <2>2. Filed \o (Lines(kept) \o Lines(rest)) = before \o gone
    BY <1>3, <1>4, Associates, ZenonT(60)
  <2>3. Underway = (before \o gone) \o Lines(blocks)
    BY <2>1, <2>2 DEF Underway
  <2> DEFINE y == before \o gone
  <2>4. y \in Seq(Messages)
    <3> HIDE DEF before, gone
    <3> QED
      BY <1>5, ConcatFacts
  <2>5. Underway = y \o Lines(blocks)
    BY <2>3
  <2> HIDE DEF y
  <2>6. Underway \o current.data = y \o after
    <3>1. Lines(blocks) \in Seq(Messages) /\ current.data \in Seq(Messages)
      BY <1>3
    <3>2. (y \o Lines(blocks)) \o current.data = y \o (Lines(blocks) \o current.data)
      BY <2>4, <3>1, Associates
    <3>3. QED
      BY <2>5, <3>2 DEF after
  <2>7. QED
    BY <2>6 DEF y
<1>7. Filed' = before
  <2> DEFINE T == Messages \cup {Notice}
             v == written \o notice
  <2>1. <<Notice>> \in Seq(T) /\ <<>> \in Seq(T)
    OBVIOUS
  <2>2. notice \in Seq(T) /\ written \in Seq(T)
    BY <2>1 DEF TypeOK
  <2>3. v \in Seq(T)
    BY <2>2
  <2>4. Lines(kept) \in Seq(T)
    BY <1>4, SeqMonotonic
  <2>5. Only(v, Messages) = Filed \o Only(notice, Messages)
    BY <2>2, OnlyConcat DEF Filed
  <2>6. Only(notice, Messages) = <<>>
    <3>1. ToSet(<<Notice>>) = {Notice}
      BY DEF ToSet
    <3>2. ToSet(notice) \cap Messages = {}
      BY <3>1, ToSetEmpty, AsyncAssumption
    <3>3. QED
      BY <2>2, <3>2, OnlyNone
  <2>7. Only(Lines(kept), Messages) = Lines(kept)
    <3>1. ToSet(Lines(kept)) \subseteq Messages
      BY <1>4, ToSetFacts
    <3>2. QED
      BY <1>4, <3>1, OnlyAll
  <2>8. written' = v \o Lines(kept)
    BY <1>1 DEF Writes
  <2> HIDE DEF v
  <2>9. Only(v \o Lines(kept), Messages) = Only(v, Messages) \o Only(Lines(kept), Messages)
    BY <2>3, <2>4, OnlyConcat
  <2>10. Filed \o <<>> = Filed
    BY <1>3, ConcatFacts
  <2>11. QED
    BY <2>5, <2>6, <2>7, <2>8, <2>9, <2>10 DEF Filed
<1> HIDE DEF before, after, gone
<1>8. Distinct(log) /\ dropped \subseteq ToSet(log)
  BY DEF OrderInv, LoggedOnce
<1>9. Only((before \o gone) \o after, Messages \ ToSet(gone)) = before \o after
  <2>1. Distinct((before \o gone) \o after)
    BY <1>3, <1>6, <1>8, OnlyDistinct
  <2>2. QED
    BY <1>5, <2>1, WithoutPart
<1>10. dropped' = dropped \cup ToSet(gone)
  BY <1>1 DEF Writes, gone
<1>11. Kept' = Kept \cap (Messages \ ToSet(gone))
  BY <1>10 DEF Kept
<1>12. Only(log', Kept') = before \o after
  <2>1. Only(Only(log, Kept), Messages \ ToSet(gone)) = Only(log, Kept')
    BY <1>3, <1>11, OnlyOnly
  <2>2. QED
    BY <1>2, <1>3, <1>6, <1>9, <2>1
<1>13. Underway' \o current'.data = before \o after
  <2>1. Lines(Unwritten') = <<>>
    BY <1>2, LinesEmpty DEF Unwritten
  <2>2. Filed' \o <<>> = before
    BY <1>5, <1>7, ConcatFacts
  <2>3. Underway' = before \o Lines(blocks)
    BY <1>2, <2>1, <2>2 DEF Underway
  <2>4. (before \o Lines(blocks)) \o current.data = before \o (Lines(blocks) \o current.data)
    <3>1. before \in Seq(Messages) /\ Lines(blocks) \in Seq(Messages) /\ current.data \in Seq(Messages)
      BY <1>3, <1>5
    <3>2. QED
      BY <3>1, Associates
  <2>5. QED
    BY <1>2, <2>3, <2>4 DEF after
<1>14. LoggedOnce'
  <2>1. ToSet(gone) \subseteq ToSet(log)
    <3>1. ToSet((before \o gone) \o after) = ToSet(log) \cap Kept
      BY <1>3, <1>6, OnlyElements
    <3>2. before \o gone \in Seq(Messages) /\ ToSet(before \o gone) = ToSet(before) \cup ToSet(gone)
      BY <1>5, ToSetConcat, ConcatFacts
    <3> DEFINE z == before \o gone
    <3>3. z \in Seq(Messages) /\ ToSet(gone) \subseteq ToSet(z)
      BY <3>2
    <3> HIDE DEF z
    <3>4. ToSet(z \o after) = ToSet(z) \cup ToSet(after)
      BY <1>5, <3>3, ToSetConcat
    <3>5. QED
      BY <3>1, <3>3, <3>4 DEF z
  <2>2. QED
    BY <1>2, <1>8, <1>10, <2>1 DEF LoggedOnce, Distinct
<1>15. QED
  BY <1>12, <1>13, <1>14 DEF WrittenInOrder, Underway, Filed

LEMMA EndedStep ==
  ASSUME EndedBeforeStart, TypeOK, [Next]_vars
  PROVE  EndedBeforeStart'
<1> USE DEF EndedBeforeStart
<1>1. CASE UNCHANGED <<pc, running, owner>>
  BY <1>1
<1>2. CASE Start
  BY <1>2 DEF Start
<1>3. CASE StartReturns \/ Stop \/ StopReturns
  BY <1>3 DEF StartReturns, Stop, StopReturns, thread
<1>4. CASE Run
  <2>1. pc \notin {"none", "done"} /\ UNCHANGED <<running, owner>>
    BY <1>4 DEF Run, Begin, BeginThrows, Loop, Swap, Output, Recycle, Finish, control
  <2>2. QED
    BY <2>1
<1>5. ASSUME NEW m \in Messages, AppendLine(m)
      PROVE  UNCHANGED <<pc, running, owner>>
  BY <1>5 DEF AppendLine, AppendFits, AppendRolls, thread, control
<1>6. ASSUME UNCHANGED vars
      PROVE  UNCHANGED <<pc, running, owner>>
  BY <1>6 DEF vars, thread, control
<1>7. QED
  BY <1>1, <1>2, <1>3, <1>4, <1>5, <1>6 DEF Next

(* A step that touches neither the file nor the blocks on the way to it. *)
LEMMA OrderKept ==
  ASSUME LoggedOnce, WrittenInOrder,
         UNCHANGED <<written, blocks, current, log, dropped>>,
         Unwritten' = Unwritten
  PROVE  LoggedOnce' /\ WrittenInOrder'
<1>1. Kept' = Kept
  BY DEF Kept
<1>2. LoggedOnce'
  BY DEF LoggedOnce, Distinct
<1>3. WrittenInOrder'
  BY <1>1 DEF WrittenInOrder
<1>4. QED
  BY <1>2, <1>3

LEMMA OrderStep == TypeOK /\ AsyncInv /\ OrderInv /\ [Next]_vars => OrderInv'
<1> SUFFICES ASSUME TypeOK, AsyncInv, OrderInv, [Next]_vars
             PROVE  OrderInv'
  OBVIOUS
<1>1. EndedBeforeStart'
  BY EndedStep DEF OrderInv
<1>2. LoggedOnce /\ WrittenInOrder
  BY DEF OrderInv
<1>3. CASE Start \/ StartReturns \/ Stop \/ StopReturns
  <2>1. UNCHANGED <<written, blocks, current, log, dropped, toWrite>>
    BY <1>3 DEF Start, StartReturns, Stop, StopReturns, buffers, thread
  <2>2. pc' = pc \/ (pc \in {"none", "done"} /\ pc' = "begin")
    BY <1>3 DEF Start, StartReturns, Stop, StopReturns, thread, OrderInv, EndedBeforeStart
  <2>3. Unwritten' = Unwritten
    BY <2>1, <2>2 DEF Unwritten
  <2>4. QED
    BY <1>1, <1>2, <2>1, <2>3, OrderKept DEF OrderInv
<1>4. CASE Begin \/ BeginThrows \/ Loop \/ Recycle \/ Finish
  <2>1. UNCHANGED <<written, blocks, current, log, dropped>>
    BY <1>4 DEF Begin, BeginThrows, Loop, Recycle, Finish, buffers
  <2>2. pc # "output" /\ pc' # "output"
    BY <1>4 DEF Begin, BeginThrows, Loop, Recycle, Finish
  <2>3. Unwritten' = Unwritten
    BY <2>2 DEF Unwritten
  <2>4. QED
    BY <1>1, <1>2, <2>1, <2>3, OrderKept DEF OrderInv
<1>5. CASE UNCHANGED vars
  <2>1. UNCHANGED <<written, blocks, current, log, dropped, toWrite, pc>>
    BY <1>5 DEF vars, buffers, thread
  <2>2. Unwritten' = Unwritten
    BY <2>1 DEF Unwritten
  <2>3. QED
    BY <1>1, <1>2, <2>1, <2>2, OrderKept DEF OrderInv
<1>6. CASE \E m \in Messages : AppendLine(m)
  BY <1>1, <1>6, OrderAppendLine DEF OrderInv
<1>7. CASE Swap
  BY <1>1, <1>7, OrderSwap DEF OrderInv
<1>8. CASE Output
  BY <1>1, <1>8, OrderOutput DEF OrderInv
<1>9. QED
  BY <1>3, <1>4, <1>5, <1>6, <1>7, <1>8 DEF Next, Run

(* Every line that fits a block is in the file, or on the way there, exactly *)
(* once and in the order of append(), unless its block has been dropped: no  *)
(* exchange, drop or reuse of blocks loses, repeats or reorders a line, for  *)
(* any number of lines and blocks and any stops and starts.                  *)
THEOREM WrittenInOrderInvariance == Spec => []WrittenInOrder
<1>1. Init => TypeOK /\ AsyncInv /\ OrderInv
  BY TypeInit, AsyncInit, OrderInit
<1>2. TypeOK /\ AsyncInv /\ OrderInv /\ [Next]_vars => (TypeOK /\ AsyncInv /\ OrderInv)'
  BY TypeStep, AsyncStep, OrderStep
<1>3. OrderInv => WrittenInOrder
  BY DEF OrderInv
<1>4. QED
  BY <1>1, <1>2, <1>3, PTL DEF Spec
=============================================================================
