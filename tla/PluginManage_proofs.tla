------------------------- MODULE PluginManage_proofs -------------------------
(***************************************************************************)
(* Proofs about PluginManage, for any libraries, identifiers, types and    *)
(* versions, and any depth of nested loads.                                *)
(***************************************************************************)
EXTENDS PluginManage, FiniteSetTheorems, SequenceTheorems, TLAPS

Entry == [type : Types, library : Paths \cup {None}]
Request == [id : Ids, type : Types, object : Objects]
Call == [path : Paths, called : BOOLEAN, result : BOOLEAN]

(* All of TypeOK but that no library is closed more often than opened.     *)
PlainTypes ==
  /\ registered \in [Types -> Versions \cup {None}]
  /\ hosted \subseteq Request
  /\ requests \in Seq(Request)
  /\ info \in [Ids -> Entry \cup {None}]
  /\ count \in 0 .. CountModulus - 1
  /\ handles \in [Paths -> Int]
  /\ stack \in Seq(Call)
  /\ objects \in [Objects -> Paths \cup {None}]
  /\ held \subseteq Objects
  /\ crashed \in BOOLEAN
  /\ leaked \in [Paths -> 0 .. MaxLeaks]

(* Who needs the library p: the plugins loaded from it, and the calls of    *)
(* loadPlugin() that wait for its importPlugin().  The dlopens that a       *)
(* throwing getId() has lost come on top.                                   *)
Loaders(p) == {id \in Ids : info[id] # None /\ info[id].library = p}
Waiting(p) == {i \in 1 .. Len(stack) : stack[i].path = p}

Balanced ==
  \A p \in Paths :
    handles[p] = Cardinality(Loaders(p)) + Cardinality(Waiting(p)) + leaked[p]

HandlesInv == PlainTypes /\ Balanced

-----------------------------------------------------------------------------
LEMMA PluginFacts ==
  /\ \A p \in Paths : Plugin[p].id \in Ids /\ Plugin[p].type \in Types
                      /\ Plugin[p].version \in Nat
                      /\ Plugin[p].macro \in BOOLEAN
  /\ None \notin Paths /\ None \notin Entry /\ None \notin Versions
  /\ PreRegistered.type \in Types /\ PreRegistered.range \in Versions
  /\ CountModulus \in Nat \ {0} /\ IsFiniteSet(Ids) /\ MaxLeaks \in Nat
  BY PluginAssumption DEF Entry

LEMMA Counts ==
  ASSUME PlainTypes
  PROVE  /\ \A p : IsFiniteSet(Loaders(p)) /\ Cardinality(Loaders(p)) \in Nat
         /\ \A p : IsFiniteSet(Waiting(p)) /\ Cardinality(Waiting(p)) \in Nat
         /\ \A p \in Paths : leaked[p] \in Nat
         /\ Len(stack) \in Nat
<1>1. Len(stack) \in Nat
  BY DEF PlainTypes
<1>2. ASSUME NEW p PROVE IsFiniteSet(Loaders(p)) /\ Cardinality(Loaders(p)) \in Nat
  <2>1. Loaders(p) \in SUBSET Ids
    BY DEF Loaders
  <2>2. QED
    BY <2>1, PluginFacts, FS_Subset, FS_CardinalityType
<1>3. ASSUME NEW p PROVE IsFiniteSet(Waiting(p)) /\ Cardinality(Waiting(p)) \in Nat
  <2>1. Waiting(p) \in SUBSET (1 .. Len(stack)) /\ IsFiniteSet(1 .. Len(stack))
    BY <1>1, FS_Interval DEF Waiting
  <2>2. QED
    BY <2>1, FS_Subset, FS_CardinalityType
<1>4. \A p \in Paths : leaked[p] \in Nat
  BY PluginFacts DEF PlainTypes
<1>5. QED
  BY <1>1, <1>2, <1>3, <1>4

(* A call of loadPlugin() begins to wait, and ends.                        *)
LEMMA PushCall ==
  ASSUME PlainTypes, NEW c \in Call, stack' = Append(stack, c)
  PROVE  /\ stack' \in Seq(Call)
         /\ \A p : Cardinality(Waiting(p)') =
                     IF p = c.path THEN Cardinality(Waiting(p)) + 1 ELSE Cardinality(Waiting(p))
<1>1. stack \in Seq(Call)
  BY DEF PlainTypes
<1>2. PICK n \in Nat : n = Len(stack)
  BY Counts
<1>3. /\ stack' \in Seq(Call) /\ Len(stack') = n + 1 /\ stack'[n + 1] = c
      /\ \A i \in 1 .. n : stack'[i] = stack[i]
  BY <1>1, <1>2, AppendProperties
<1>4. ASSUME NEW p
      PROVE  Cardinality(Waiting(p)') =
               IF p = c.path THEN Cardinality(Waiting(p)) + 1 ELSE Cardinality(Waiting(p))
  <2>1. n + 1 \notin Waiting(p)
    BY <1>2 DEF Waiting
  <2>2. CASE p = c.path
    <3>1. Waiting(p)' = Waiting(p) \cup {n + 1}
      BY <1>2, <1>3, <2>2 DEF Waiting
    <3>2. QED
      BY <2>1, <2>2, <3>1, Counts, FS_AddElement
  <2>3. CASE p # c.path
    <3>1. Waiting(p)' = Waiting(p)
      BY <1>2, <1>3, <2>3 DEF Waiting
    <3>2. QED
      BY <2>3, <3>1
  <2>4. QED
    BY <2>2, <2>3
<1>5. QED
  BY <1>3, <1>4

LEMMA FrameFacts ==
  ASSUME PlainTypes, ~Idle
  PROVE  Len(stack) \in Nat \ {0} /\ Frame \in Call /\ Frame.path \in Paths
         /\ Plugin[Frame.path].id \in Ids
<1>1. stack \in Seq(Call) /\ stack # <<>>
  BY DEF PlainTypes, Idle
<1>2. Len(stack) \in Nat \ {0}
  BY <1>1
<1>3. Frame \in Call
  BY <1>1, <1>2 DEF Frame
<1>4. QED
  BY <1>2, <1>3, PluginFacts DEF Call

LEMMA PopCall ==
  ASSUME PlainTypes, ~Idle, stack' = Pop
  PROVE  /\ stack' \in Seq(Call)
         /\ \A p : Cardinality(Waiting(p)') =
                     IF p = Frame.path THEN Cardinality(Waiting(p)) - 1 ELSE Cardinality(Waiting(p))
<1>1. stack \in Seq(Call)
  BY DEF PlainTypes
<1>2. PICK n \in Nat \ {0} : n = Len(stack)
  BY FrameFacts
<1>3. /\ stack' \in Seq(Call) /\ Len(stack') = n - 1
      /\ \A i \in 1 .. n - 1 : stack'[i] = stack[i]
  <2>1. \A i \in 1 .. n - 1 : stack[i] \in Call
    BY <1>1, <1>2
  <2>2. 1 \in Int /\ n - 1 \in Int
    OBVIOUS
  <2>3. stack' = SubSeq(stack, 1, n - 1)
    BY <1>2 DEF Pop
  <2>4. /\ stack' \in Seq(Call)
        /\ Len(stack') = IF 1 <= n - 1 THEN n - 1 - 1 + 1 ELSE 0
        /\ \A i \in 1 .. n - 1 - 1 + 1 : stack'[i] = stack[1 + i - 1]
    BY <2>1, <2>2, <2>3, SubSeqProperties
  <2>5. QED
    BY <2>4
<1>4. ASSUME NEW p
      PROVE  Cardinality(Waiting(p)') =
               IF p = Frame.path THEN Cardinality(Waiting(p)) - 1 ELSE Cardinality(Waiting(p))
  <2>1. CASE p = Frame.path
    <3>1. Waiting(p)' = Waiting(p) \ {n} /\ n \in Waiting(p)
      BY <1>2, <1>3, <2>1 DEF Waiting, Frame
    <3>2. QED
      BY <2>1, <3>1, Counts, FS_RemoveElement
  <2>2. CASE p # Frame.path
    <3>1. Waiting(p)' = Waiting(p)
      BY <1>2, <1>3, <2>2 DEF Waiting, Frame
    <3>2. QED
      BY <2>2, <3>1
  <2>3. QED
    BY <2>1, <2>2
<1>5. QED
  BY <1>3, <1>4

(* The result of importProvider() is noted in the call on top.              *)
LEMMA ImportedCall ==
  ASSUME PlainTypes, ~Idle, NEW result \in BOOLEAN, Imported(result)
  PROVE  stack' \in Seq(Call) /\ \A p : Waiting(p)' = Waiting(p)
<1>1. stack \in Seq(Call) /\ Frame \in Call
  BY FrameFacts DEF PlainTypes
<1>2. PICK n \in Nat \ {0} : n = Len(stack)
  BY FrameFacts
<1>3. stack' = [stack EXCEPT ![n] = [stack[n] EXCEPT !.called = TRUE, !.result = result]]
  BY <1>2 DEF Imported
<1>4. [stack[n] EXCEPT !.called = TRUE, !.result = result] \in Call
  BY <1>1, <1>2 DEF Frame, Call
<1>5. stack' \in Seq(Call) /\ Len(stack') = n
  BY <1>1, <1>2, <1>3, <1>4
<1>6. \A i \in 1 .. n : stack'[i].path = stack[i].path
  BY <1>1, <1>2, <1>3 DEF Call
<1>7. QED
  BY <1>2, <1>5, <1>6 DEF Waiting

LEMMA DropTypes ==
  ASSUME PlainTypes, NEW os, NEW h, Drop(os, h)
  PROVE  objects' \in [Objects -> Paths \cup {None}] /\ crashed' \in BOOLEAN
<1>1. objects' \in [Objects -> Paths \cup {None}]
  BY DEF PlainTypes, Drop
<1>2. crashed' \in BOOLEAN
  BY Zenon DEF Drop
<1>3. QED
  BY <1>1, <1>2

LEMMA CountTypes ==
  \A n \in Int : n % CountModulus \in 0 .. CountModulus - 1
  BY PluginFacts

LEMMA MadeByInit ==
  [t \in Types |-> IF t = PreRegistered.type THEN PreRegistered.range ELSE None]
    \in [Types -> Versions \cup {None}]
  BY PluginFacts

(* What Close() does to the handles, and what it means for the plugins.      *)
LEMMA CloseTypes ==
  ASSUME NEW h \in [Paths -> Int], NEW p \in Paths \cup {None}
  PROVE  /\ Close(h, p) \in [Paths -> Int]
         /\ \A q \in Paths : Close(h, p)[q] = IF q = p THEN h[q] - 1 ELSE h[q]
  BY PluginFacts DEF Close

(* libraries_info_ forgets one plugin.                                      *)
LEMMA ForgetPlugin ==
  ASSUME PlainTypes, NEW id \in Ids, info[id] # None, info' = [info EXCEPT ![id] = None]
  PROVE  \A p \in Paths : Cardinality(Loaders(p)') =
           IF p = info[id].library THEN Cardinality(Loaders(p)) - 1 ELSE Cardinality(Loaders(p))
<1> SUFFICES ASSUME NEW p \in Paths
             PROVE  Cardinality(Loaders(p)') =
                      IF p = info[id].library THEN Cardinality(Loaders(p)) - 1
                                              ELSE Cardinality(Loaders(p))
  OBVIOUS
<1>1. CASE p = info[id].library
  <2>1. Loaders(p)' = Loaders(p) \ {id} /\ id \in Loaders(p)
    BY <1>1 DEF Loaders, PlainTypes
  <2>2. QED
    BY <1>1, <2>1, Counts, FS_RemoveElement
<1>2. CASE p # info[id].library
  <2>1. Loaders(p)' = Loaders(p)
    BY <1>2 DEF Loaders, PlainTypes
  <2>2. QED
    BY <1>2, <2>1
<1>3. QED
  BY <1>1, <1>2

LEMMA StoredEntry ==
  ASSUME PlainTypes, NEW id \in Ids, info[id] # None, NEW q \in Paths,
         info' = [info EXCEPT ![id].library = q]
  PROVE  /\ info' \in [Ids -> Entry \cup {None}]
         /\ info'[id] # None /\ info'[id].library = q
         /\ \A i \in Ids \ {id} : info'[i] = info[i]
<1>1. /\ info[id] \in Entry
      /\ [info[id] EXCEPT !.library = q] \in Entry
      /\ [info[id] EXCEPT !.library = q].library = q
  BY DEF PlainTypes, Entry
<1>2. QED
  BY <1>1, PluginFacts DEF PlainTypes

(* An entry of libraries_info_ is given another library, after which it is   *)
(* needed instead of the one before.                                        *)
LEMMA StoreLibrary ==
  ASSUME PlainTypes, NEW id \in Ids, info[id] # None, NEW q \in Paths,
         info' = [info EXCEPT ![id].library = q]
  PROVE  /\ info' \in [Ids -> Entry \cup {None}]
         /\ \A p \in Paths : Cardinality(Loaders(p)') =
              Cardinality(Loaders(p)) - (IF p = info[id].library THEN 1 ELSE 0)
                + (IF p = q THEN 1 ELSE 0)
<1>1. /\ info' \in [Ids -> Entry \cup {None}] /\ info'[id] # None /\ info'[id].library = q
      /\ \A i \in Ids \ {id} : info'[i] = info[i]
  BY StoredEntry
<1>2. ASSUME NEW p \in Paths
      PROVE  Cardinality(Loaders(p)') =
               Cardinality(Loaders(p)) - (IF p = info[id].library THEN 1 ELSE 0)
                 + (IF p = q THEN 1 ELSE 0)
  <2>1. IsFiniteSet(Loaders(p)) /\ Cardinality(Loaders(p)) \in Nat
    BY Counts
  <2>2. Loaders(p) \ {id} = Loaders(p)' \ {id}
    BY <1>1 DEF Loaders
  <2>3. id \in Loaders(p) <=> p = info[id].library
    BY DEF Loaders
  <2>4. id \in Loaders(p)' <=> p = q
    BY <1>1 DEF Loaders
  <2>5. /\ IsFiniteSet(Loaders(p) \ {id})
        /\ Cardinality(Loaders(p) \ {id}) =
             Cardinality(Loaders(p)) - (IF p = info[id].library THEN 1 ELSE 0)
    BY <2>1, <2>3, FS_RemoveElement
  <2>6. CASE p = q
    <3>1. Loaders(p)' = (Loaders(p) \ {id}) \cup {id}
      BY <2>2, <2>4, <2>6
    <3>2. Cardinality(Loaders(p)') = Cardinality(Loaders(p) \ {id}) + 1
      BY <2>5, <3>1, FS_AddElement, Zenon
    <3>3. QED
      BY <2>1, <2>5, <2>6, <3>2
  <2>7. CASE p # q
    <3>1. Loaders(p)' = Loaders(p) \ {id}
      BY <2>2, <2>4, <2>7
    <3>2. QED
      BY <2>1, <2>5, <2>7, <3>1
  <2>8. QED
    BY <2>6, <2>7
<1>3. QED
  BY <1>1, <1>2

-----------------------------------------------------------------------------
LEMMA HandlesInit == Init => HandlesInv
<1> SUFFICES ASSUME Init PROVE HandlesInv
  OBVIOUS
<1>1. PlainTypes
  <2>1. crashed \in BOOLEAN
    BY Zenon DEF Init
  <2>2. QED
    BY <2>1, PluginFacts, MadeByInit DEF Init, PlainTypes
<1>2. ASSUME NEW p \in Paths
      PROVE  handles[p] = Cardinality(Loaders(p)) + Cardinality(Waiting(p)) + leaked[p]
  <2>1. Loaders(p) = {} /\ Waiting(p) = {}
    BY DEF Init, Loaders, Waiting
  <2>2. QED
    BY <2>1, FS_EmptySet DEF Init
<1>3. QED
  BY <1>1, <1>2 DEF HandlesInv, Balanced

(* The steps of a load.                                                     *)

LEMMA BeginSteps ==
  ASSUME HandlesInv, NEW p \in Paths, LoadIncomplete(p) \/ LoadThrows(p) \/ BeginLoad(p)
  PROVE  HandlesInv'
<1>1. PlainTypes /\ Balanced
  BY DEF HandlesInv
<1>2. CASE LoadIncomplete(p)
  <2>1. handles' = handles
    BY <1>1, <1>2, PluginFacts DEF LoadIncomplete, Open, Close, PlainTypes
  <2>2. QED
    BY <1>1, <1>2, <2>1
       DEF LoadIncomplete, HandlesInv, PlainTypes, Balanced, Loaders, Waiting
<1>3. CASE BeginLoad(p)
  <2> DEFINE c == [path |-> p, called |-> FALSE, result |-> FALSE]
  <2>1. c \in Call /\ c.path = p
    BY Zenon DEF Call
  <2>2. stack' = Append(stack, c)
    BY <1>3 DEF BeginLoad
  <2> HIDE DEF c
  <2>3. /\ stack' \in Seq(Call)
        /\ \A q : Cardinality(Waiting(q)') =
                    IF q = p THEN Cardinality(Waiting(q)) + 1 ELSE Cardinality(Waiting(q))
    BY <1>1, <2>1, <2>2, PushCall
  <2>4. /\ handles' \in [Paths -> Int]
        /\ \A q \in Paths : handles'[q] = IF q = p THEN handles[q] + 1 ELSE handles[q]
    BY <1>1, <1>3 DEF BeginLoad, Open, PlainTypes
  <2>5. UNCHANGED <<registered, hosted, requests, info, count, objects, held, crashed, leaked>>
    BY <1>3 DEF BeginLoad
  <2>6. PlainTypes'
    BY <1>1, <2>3, <2>4, <2>5 DEF PlainTypes
  <2>7. Balanced'
    <3>1. \A q : Loaders(q)' = Loaders(q)
      BY <2>5 DEF Loaders
    <3>2. ASSUME NEW q \in Paths
          PROVE  handles'[q] = Cardinality(Loaders(q)') + Cardinality(Waiting(q)') + leaked'[q]
      <4>1. handles[q] = Cardinality(Loaders(q)) + Cardinality(Waiting(q)) + leaked[q]
        BY <1>1 DEF Balanced
      <4>2. Cardinality(Loaders(q)) \in Nat /\ Cardinality(Waiting(q)) \in Nat
            /\ leaked[q] \in Nat
        BY <1>1, Counts
      <4>3. QED
        BY <2>3, <2>4, <2>5, <3>1, <4>1, <4>2
    <3>3. QED
      BY <3>2, Zenon DEF Balanced
  <2>8. QED
    BY <2>6, <2>7 DEF HandlesInv
<1>4. CASE LoadThrows(p)
  <2>1. PICK n \in Nat : n = leaked[p] /\ n < MaxLeaks
    BY <1>1, <1>4, Counts DEF LoadThrows
  <2>2. /\ leaked' \in [Paths -> 0 .. MaxLeaks]
        /\ \A q \in Paths : leaked'[q] = IF q = p THEN leaked[q] + 1 ELSE leaked[q]
    BY <1>1, <1>4, <2>1, PluginFacts DEF LoadThrows, PlainTypes
  <2>3. /\ handles' \in [Paths -> Int]
        /\ \A q \in Paths : handles'[q] = IF q = p THEN handles[q] + 1 ELSE handles[q]
    BY <1>1, <1>4 DEF LoadThrows, Open, PlainTypes
  <2>4. UNCHANGED <<registered, hosted, requests, info, count, stack, objects, held, crashed>>
    BY <1>4 DEF LoadThrows
  <2>5. PlainTypes'
    BY <1>1, <2>2, <2>3, <2>4 DEF PlainTypes
  <2>6. \A q : Loaders(q)' = Loaders(q) /\ Waiting(q)' = Waiting(q)
    BY <2>4 DEF Loaders, Waiting
  <2>7. ASSUME NEW q \in Paths
        PROVE  handles'[q] = Cardinality(Loaders(q)') + Cardinality(Waiting(q)') + leaked'[q]
    <3>1. handles[q] = Cardinality(Loaders(q)) + Cardinality(Waiting(q)) + leaked[q]
      BY <1>1 DEF Balanced
    <3>2. Cardinality(Loaders(q)) \in Nat /\ Cardinality(Waiting(q)) \in Nat
          /\ leaked[q] \in Nat
      BY <1>1, Counts
    <3>3. QED
      BY <2>2, <2>3, <2>6, <3>1, <3>2
  <2>8. Balanced'
    BY <2>7, Zenon DEF Balanced
  <2>9. QED
    BY <2>5, <2>8 DEF HandlesInv
<1>5. QED
  BY <1>2, <1>3, <1>4

(* What a step has to do with the handles, the entries and the calls.       *)
LEMMA StaysBalanced ==
  ASSUME HandlesInv, leaked' = leaked,
         \A p \in Paths : /\ Cardinality(Loaders(p)') \in Int /\ Cardinality(Waiting(p)') \in Int
                          /\ handles'[p] = handles[p]
                               + (Cardinality(Loaders(p)') - Cardinality(Loaders(p)))
                               + (Cardinality(Waiting(p)') - Cardinality(Waiting(p)))
  PROVE  Balanced'
<1> SUFFICES ASSUME NEW p \in Paths
             PROVE  handles'[p] = Cardinality(Loaders(p)') + Cardinality(Waiting(p)') + leaked'[p]
  BY Zenon DEF Balanced
<1>1. handles[p] = Cardinality(Loaders(p)) + Cardinality(Waiting(p)) + leaked[p]
  BY DEF HandlesInv, Balanced
<1>2. Cardinality(Loaders(p)) \in Nat /\ Cardinality(Waiting(p)) \in Nat /\ leaked[p] \in Nat
  BY Counts DEF HandlesInv
<1>3. QED
  BY <1>1, <1>2

LEMMA ImportSteps ==
  ASSUME HandlesInv, NEW o \in Objects, ImportRejected(o) \/ ImportAccepted(o)
  PROVE  HandlesInv'
<1>1. PlainTypes /\ Balanced /\ ~Idle
  BY DEF HandlesInv, ImportRejected, ImportAccepted, MayImport
<1>2. CASE ImportRejected(o)
  <2>1. stack' \in Seq(Call) /\ \A p : Waiting(p)' = Waiting(p)
    <3>1. Imported(FALSE)
      BY <1>2 DEF ImportRejected
    <3>2. QED
      BY <1>1, <3>1, ImportedCall
  <2>2. UNCHANGED <<registered, hosted, requests, info, count, handles, objects, held, crashed,
                    leaked>>
    BY <1>2 DEF ImportRejected
  <2>3. QED
    BY <1>1, <2>1, <2>2 DEF HandlesInv, PlainTypes, Balanced, Loaders
<1>3. CASE ImportAccepted(o)
  <2>1. stack' \in Seq(Call) /\ \A p : Waiting(p)' = Waiting(p)
    <3>1. Imported(TRUE)
      BY <1>3 DEF ImportAccepted
    <3>2. QED
      BY <1>1, <3>1, ImportedCall
  <2>2. PICK path \in Paths : path = Frame.path
    BY <1>1, FrameFacts
  <2> DEFINE id == Plugin[path].id
             type == Plugin[path].type
             request == [id |-> id, type |-> type, object |-> o]
             entry == [type |-> type, library |-> None]
  <2>3. id \in Ids /\ type \in Types
    BY PluginFacts
  <2>4. /\ info[id] = None /\ info' = [info EXCEPT ![id] = entry]
        /\ requests' = Append(requests, request)
        /\ objects' = [objects EXCEPT ![o] = path]
        /\ UNCHANGED <<registered, hosted, count, handles, held, crashed, leaked>>
    BY <1>3, <2>2 DEF ImportAccepted
  <2>5. request \in Request /\ entry \in Entry /\ entry.library = None
    BY <2>3 DEF Request, Entry
  <2> HIDE DEF request, entry, id, type
  <2>6. requests' \in Seq(Request) /\ info' \in [Ids -> Entry \cup {None}]
        /\ objects' \in [Objects -> Paths \cup {None}]
    <3>1. requests \in Seq(Request) /\ info \in [Ids -> Entry \cup {None}]
          /\ objects \in [Objects -> Paths \cup {None}]
      BY <1>1 DEF PlainTypes
    <3>2. requests' \in Seq(Request)
      BY <2>4, <2>5, <3>1
    <3>3. info' \in [Ids -> Entry \cup {None}]
      BY <2>4, <2>5, <3>1
    <3>4. objects' \in [Objects -> Paths \cup {None}]
      BY <2>4, <3>1
    <3>5. QED
      BY <3>2, <3>3, <3>4
  <2>7. \A p \in Paths : Loaders(p)' = Loaders(p)
    BY <1>1, <2>3, <2>4, <2>5, PluginFacts DEF Loaders, PlainTypes
  <2>8. PlainTypes'
    BY <1>1, <2>1, <2>4, <2>6 DEF PlainTypes
  <2>9. Balanced'
    BY <1>1, <2>1, <2>4, <2>7 DEF Balanced
  <2>10. QED
    BY <2>8, <2>9 DEF HandlesInv
<1>4. QED
  BY <1>2, <1>3

LEMMA ReturnSteps ==
  ASSUME HandlesInv, NEW ok \in BOOLEAN, LoadFails(ok) \/ ImportThrows \/ LoadCancels
  PROVE  HandlesInv'
<1>1. PlainTypes /\ ~Idle /\ stack' = Pop /\ handles' = Close(handles, Frame.path)
      /\ UNCHANGED <<registered, hosted, info, count, held, crashed, leaked>>
  BY DEF HandlesInv, LoadFails, ImportThrows, LoadCancels, MayReturn
<1>2. Frame.path \in Paths
  BY <1>1, FrameFacts
<1>3. /\ stack' \in Seq(Call)
      /\ \A p : Cardinality(Waiting(p)') =
                  IF p = Frame.path THEN Cardinality(Waiting(p)) - 1 ELSE Cardinality(Waiting(p))
  BY <1>1, PopCall
<1>4. /\ handles' \in [Paths -> Int]
      /\ \A p \in Paths : handles'[p] = IF p = Frame.path THEN handles[p] - 1 ELSE handles[p]
  <2>1. handles \in [Paths -> Int] /\ Frame.path \in Paths \cup {None}
    BY <1>1, <1>2 DEF PlainTypes
  <2>2. QED
    BY <1>1, <2>1, CloseTypes
<1>5. requests' \in Seq(Request) /\ objects' \in [Objects -> Paths \cup {None}]
  <2>1. CASE LoadFails(ok)
    BY <1>1, <2>1 DEF LoadFails, PlainTypes
  <2>2. CASE LoadCancels
    BY <1>1, <2>2 DEF LoadCancels, PlainTypes
  <2>3. CASE ImportThrows
    BY <1>1, <2>3 DEF ImportThrows, PlainTypes
  <2>4. QED
    BY <2>1, <2>2, <2>3
<1>6. PlainTypes'
  BY <1>1, <1>3, <1>4, <1>5 DEF PlainTypes
<1>7. \A p : Loaders(p)' = Loaders(p)
  BY <1>1 DEF Loaders
<1>8. Balanced'
  <2> SUFFICES ASSUME NEW p \in Paths
               PROVE  /\ Cardinality(Loaders(p)') \in Int /\ Cardinality(Waiting(p)') \in Int
                      /\ handles'[p] = handles[p]
                           + (Cardinality(Loaders(p)') - Cardinality(Loaders(p)))
                           + (Cardinality(Waiting(p)') - Cardinality(Waiting(p)))
    BY <1>1, StaysBalanced
  <2>1. Cardinality(Loaders(p)) \in Nat /\ Cardinality(Waiting(p)) \in Nat /\ handles[p] \in Int
    BY <1>1, Counts DEF PlainTypes
  <2>2. QED
    BY <1>3, <1>4, <1>7, <2>1
<1>9. QED
  BY <1>6, <1>8 DEF HandlesInv

LEMMA SuccessStep ==
  ASSUME HandlesInv, LoadSucceeds
  PROVE  HandlesInv'
<1>1. PlainTypes /\ ~Idle /\ stack' = Pop
  BY DEF HandlesInv, LoadSucceeds, MayReturn
<1>2. PICK path \in Paths : path = Frame.path
  BY <1>1, FrameFacts
<1>3. PICK id \in Ids : id = Plugin[path].id
  BY PluginFacts
<1>4. /\ info[id] # None /\ info' = [info EXCEPT ![id].library = path]
      /\ handles' = Close(handles, info[id].library)
      /\ hosted' = hosted \cup {requests[i] : i \in Confirmed}
      /\ requests' = <<>> /\ count' = (count + 1) % CountModulus
      /\ UNCHANGED <<registered, held, leaked>>
  BY <1>2, <1>3 DEF LoadSucceeds
<1>5. PICK h, os : Drop(os, h)
  BY DEF LoadSucceeds
<1>6. objects' \in [Objects -> Paths \cup {None}] /\ crashed' \in BOOLEAN
  BY <1>1, <1>5, DropTypes
<1>7. /\ stack' \in Seq(Call)
      /\ \A p : Cardinality(Waiting(p)') =
                  IF p = path THEN Cardinality(Waiting(p)) - 1 ELSE Cardinality(Waiting(p))
  BY <1>1, <1>2, PopCall
<1>8. info[id].library \in Paths \cup {None}
  BY <1>1, <1>4 DEF PlainTypes, Entry
<1>9. /\ handles' \in [Paths -> Int]
      /\ \A p \in Paths : handles'[p] = IF p = info[id].library THEN handles[p] - 1 ELSE handles[p]
  <2>1. handles \in [Paths -> Int]
    BY <1>1 DEF PlainTypes
  <2>2. QED
    BY <1>4, <1>8, <2>1, CloseTypes
<1>10. /\ info' \in [Ids -> Entry \cup {None}]
       /\ \A p \in Paths : Cardinality(Loaders(p)') =
              Cardinality(Loaders(p)) - (IF p = info[id].library THEN 1 ELSE 0)
                + (IF p = path THEN 1 ELSE 0)
  BY <1>1, <1>4, StoreLibrary
<1>11. hosted' \subseteq Request /\ requests' \in Seq(Request) /\ count' \in 0 .. CountModulus - 1
  <2>1. \A i \in Confirmed : requests[i] \in Request
    BY <1>1 DEF Confirmed, PlainTypes
  <2>2. count + 1 \in Int
    BY <1>1, PluginFacts DEF PlainTypes
  <2>3. count' \in 0 .. CountModulus - 1
    BY <1>4, <2>2, CountTypes
  <2>4. hosted' \subseteq Request
    BY <1>1, <1>4, <2>1 DEF PlainTypes
  <2>5. requests' \in Seq(Request)
    BY <1>4
  <2>6. QED
    BY <2>3, <2>4, <2>5
<1>12. PlainTypes'
  BY <1>1, <1>4, <1>6, <1>7, <1>9, <1>10, <1>11 DEF PlainTypes
<1>13. Balanced'
  <2> SUFFICES ASSUME NEW p \in Paths
               PROVE  /\ Cardinality(Loaders(p)') \in Int /\ Cardinality(Waiting(p)') \in Int
                      /\ handles'[p] = handles[p]
                           + (Cardinality(Loaders(p)') - Cardinality(Loaders(p)))
                           + (Cardinality(Waiting(p)') - Cardinality(Waiting(p)))
    BY <1>4, StaysBalanced
  <2>1. Cardinality(Loaders(p)) \in Nat /\ Cardinality(Waiting(p)) \in Nat /\ handles[p] \in Int
    BY <1>1, Counts DEF PlainTypes
  <2>2. QED
    BY <1>7, <1>9, <1>10, <2>1
<1>14. QED
  BY <1>12, <1>13 DEF HandlesInv

(* The steps of the client.                                                 *)

LEMMA NobodyWaits ==
  ASSUME HandlesInv, Idle
  PROVE  \A p \in Paths : /\ Cardinality(Waiting(p)) = 0
                           /\ handles[p] = Cardinality(Loaders(p)) + leaked[p]
<1> TAKE p \in Paths
<1>1. Waiting(p) = {}
  BY DEF Idle, Waiting
<1>2. Cardinality(Waiting(p)) = 0
  BY <1>1, FS_EmptySet
<1>3. handles[p] = Cardinality(Loaders(p)) + Cardinality(Waiting(p)) + leaked[p]
      /\ Cardinality(Loaders(p)) \in Nat /\ leaked[p] \in Nat
  BY Counts DEF HandlesInv, Balanced
<1>4. QED
  BY <1>2, <1>3

LEMMA UnloadStep ==
  ASSUME HandlesInv, NEW id \in Ids, Unload(id)
  PROVE  HandlesInv'
<1>1. PlainTypes
  BY DEF HandlesInv
<1>2. /\ info[id] # None /\ info' = [info EXCEPT ![id] = None]
      /\ handles' = Close(handles, info[id].library)
      /\ hosted' \subseteq hosted /\ count' = (count - 1) % CountModulus
      /\ UNCHANGED <<registered, requests, stack, held, leaked>>
  BY DEF Unload
<1>3. PICK h, os : Drop(os, h)
  BY DEF Unload
<1>4. objects' \in [Objects -> Paths \cup {None}] /\ crashed' \in BOOLEAN
  BY <1>1, <1>3, DropTypes
<1>5. /\ handles' \in [Paths -> Int]
      /\ \A p \in Paths : handles'[p] = IF p = info[id].library THEN handles[p] - 1 ELSE handles[p]
  <2>1. handles \in [Paths -> Int] /\ info[id].library \in Paths \cup {None}
    BY <1>1, <1>2 DEF PlainTypes, Entry
  <2>2. QED
    BY <1>2, <2>1, CloseTypes
<1>6. \A p \in Paths : Cardinality(Loaders(p)') =
        IF p = info[id].library THEN Cardinality(Loaders(p)) - 1 ELSE Cardinality(Loaders(p))
  BY <1>1, <1>2, ForgetPlugin
<1>7. count' \in 0 .. CountModulus - 1
  <2>1. count - 1 \in Int
    BY <1>1, PluginFacts DEF PlainTypes
  <2>2. QED
    BY <1>2, <2>1, CountTypes
<1>8. PlainTypes'
  BY <1>1, <1>2, <1>4, <1>5, <1>7 DEF PlainTypes
<1>9. Balanced'
  <2> SUFFICES ASSUME NEW p \in Paths
               PROVE  /\ Cardinality(Loaders(p)') \in Int /\ Cardinality(Waiting(p)') \in Int
                      /\ handles'[p] = handles[p]
                           + (Cardinality(Loaders(p)') - Cardinality(Loaders(p)))
                           + (Cardinality(Waiting(p)') - Cardinality(Waiting(p)))
    BY <1>2, StaysBalanced
  <2>1. Cardinality(Loaders(p)) \in Nat /\ Cardinality(Waiting(p)) \in Nat /\ handles[p] \in Int
    BY <1>1, Counts DEF PlainTypes
  <2>2. Waiting(p)' = Waiting(p)
    BY <1>2 DEF Waiting
  <2>3. QED
    BY <1>5, <1>6, <2>1, <2>2
<1>10. QED
  BY <1>8, <1>9 DEF HandlesInv

(* unloadAll() and ~Manage() close every library that a plugin was loaded    *)
(* from.                                                                    *)
LEMMA ClearSteps ==
  ASSUME HandlesInv, UnloadAll \/ Destroy
  PROVE  HandlesInv'
<1>1. PlainTypes /\ Idle
  BY DEF HandlesInv, UnloadAll, Destroy
<1>2. /\ handles' = [p \in Paths |-> handles[p] - Cardinality(Loaders(p))]
      /\ info' = [id \in Ids |-> None] /\ hosted' = {} /\ count' = 0
      /\ UNCHANGED <<stack, held, leaked>>
  BY DEF UnloadAll, Destroy, Loaders
<1>3. \A p \in Paths : handles'[p] = leaked'[p] /\ leaked'[p] \in Nat
  <2> SUFFICES ASSUME NEW p \in Paths PROVE handles'[p] = leaked[p] /\ leaked[p] \in Nat
    BY <1>2
  <2>1. handles[p] = Cardinality(Loaders(p)) + leaked[p]
        /\ Cardinality(Loaders(p)) \in Nat /\ leaked[p] \in Nat
    BY <1>1, NobodyWaits, Counts
  <2>2. QED
    BY <1>2, <2>1
<1>4. handles' \in [Paths -> Int]
  BY <1>2, <1>3
<1>5. /\ objects' \in [Objects -> Paths \cup {None}] /\ crashed' \in BOOLEAN
      /\ requests' \in Seq(Request) /\ registered' \in [Types -> Versions \cup {None}]
  <2>1. CASE UnloadAll
    <3>1. PICK h, os : Drop(os, h)
      BY <2>1 DEF UnloadAll
    <3>2. QED
      BY <1>1, <2>1, <3>1, DropTypes DEF UnloadAll, PlainTypes
  <2>2. CASE Destroy
    <3>1. crashed' \in BOOLEAN
      BY <2>2, Zenon DEF Destroy
    <3>2. QED
      BY <2>2, <3>1, MadeByInit DEF Destroy
  <2>3. QED
    BY <2>1, <2>2
<1>6. PlainTypes'
  BY <1>1, <1>2, <1>4, <1>5, PluginFacts DEF PlainTypes
<1>7. Balanced'
  <2> SUFFICES ASSUME NEW p \in Paths
               PROVE  handles'[p] = Cardinality(Loaders(p)') + Cardinality(Waiting(p)') + leaked'[p]
    BY Zenon DEF Balanced
  <2>1. Loaders(p)' = {} /\ Waiting(p)' = {}
    BY <1>1, <1>2 DEF Loaders, Waiting, Idle
  <2>2. QED
    BY <1>3, <2>1, FS_EmptySet
<1>8. QED
  BY <1>6, <1>7 DEF HandlesInv

LEMMA OtherSteps ==
  ASSUME HandlesInv,
         \/ \E t \in Types, v \in Versions : RegisterType(t, v)
         \/ \E h \in hosted : Lock(h)
         \/ \E o \in Objects : Release(o)
         \/ UNCHANGED vars
  PROVE  HandlesInv'
<1>1. PlainTypes /\ Balanced
  BY DEF HandlesInv
<1>2. UNCHANGED <<hosted, requests, info, count, handles, stack, objects, crashed, leaked>>
  BY DEF RegisterType, Lock, Release, vars
<1>3. registered' \in [Types -> Versions \cup {None}]
  BY <1>1 DEF RegisterType, Lock, Release, vars, PlainTypes
<1>4. held' \subseteq Objects
  BY <1>1 DEF RegisterType, Lock, Release, vars, PlainTypes, Request
<1>5. QED
  BY <1>1, <1>2, <1>3, <1>4 DEF HandlesInv, PlainTypes, Balanced, Loaders, Waiting

LEMMA HandlesStep == HandlesInv /\ [Next]_vars => HandlesInv'
<1> SUFFICES ASSUME HandlesInv, [Next]_vars PROVE HandlesInv'
  OBVIOUS
<1>1. QED
  BY BeginSteps, ImportSteps, ReturnSteps, SuccessStep, UnloadStep, ClearSteps, OtherSteps
     DEF Next

LEMMA HandlesInvariance == Spec => []HandlesInv
  BY HandlesInit, HandlesStep, PTL DEF Spec

(* Every library is open exactly as often as a loaded plugin or a load under *)
(* way needs it, and once more for each getId() that threw (library.cc:88    *)
(* loses that handle), whatever the plugins do when they are called.         *)
THEOREM HandlesBalancedInvariance == Spec => []HandlesBalanced
<1>1. HandlesInv => HandlesBalanced
  BY DEF HandlesInv, Balanced, Loaders, Waiting, HandlesBalanced
<1>2. QED
  BY <1>1, HandlesInvariance, PTL

(* The types of the state of Manage and Host.                                *)
THEOREM TypeInvariance == Spec => []TypeOK
<1>1. HandlesInv => TypeOK
  <2> SUFFICES ASSUME HandlesInv PROVE TypeOK
    OBVIOUS
  <2>1. ASSUME NEW p \in Paths PROVE handles[p] \in Nat
    <3>1. Cardinality(Loaders(p)) \in Nat /\ Cardinality(Waiting(p)) \in Nat
          /\ leaked[p] \in Nat
      BY Counts DEF HandlesInv
    <3>2. QED
      BY <3>1 DEF HandlesInv, Balanced
  <2>2. handles \in [Paths -> Nat]
    BY <2>1 DEF HandlesInv, PlainTypes
  <2>3. QED
    BY <2>2 DEF HandlesInv, PlainTypes, Request, Entry, Call, TypeOK
<1>2. QED
  BY <1>1, HandlesInvariance, PTL

-----------------------------------------------------------------------------
(* What Host owns and what it is asked to own: every provider is at an       *)
(* address of its own, is what its library says, and was found compatible.   *)

Sound(r) ==
  /\ objects[r.object] # None
  /\ r.type = Plugin[objects[r.object]].type /\ r.id = Plugin[objects[r.object]].id
  /\ Compatible(objects[r.object])

OwnedInv ==
  /\ \A h \in hosted : Sound(h)
  /\ \A i \in 1 .. Len(requests) : Sound(requests[i])
  /\ \A g, h \in hosted : g.object = h.object => g = h
  /\ \A i, j \in 1 .. Len(requests) : requests[i].object = requests[j].object => i = j
  /\ \A h \in hosted, i \in 1 .. Len(requests) : h.object # requests[i].object

LEMMA SoundStays ==
  ASSUME NEW r, Sound(r), registered' = registered, objects'[r.object] = objects[r.object]
  PROVE  Sound(r)'
  BY DEF Sound, Compatible

(* Providers that others own are not touched when an owner drops some.       *)
LEMMA DropOthers ==
  ASSUME PlainTypes, NEW os, NEW h, Drop(os, h), NEW o \in Objects, o \notin os
  PROVE  objects'[o] = objects[o]
  BY DEF Drop, PlainTypes

LEMMA OwnedTypes ==
  ASSUME PlainTypes
  PROVE  /\ \A h \in hosted : h \in Request /\ h.object \in Objects
         /\ \A i \in 1 .. Len(requests) : requests[i] \in Request /\ requests[i].object \in Objects
<1>1. \A r \in Request : r.object \in Objects
  BY DEF Request
<1>2. hosted \subseteq Request /\ requests \in Seq(Request)
  BY DEF PlainTypes
<1>3. \A i \in 1 .. Len(requests) : requests[i] \in Request
  BY <1>2
<1>4. QED
  BY <1>1, <1>2, <1>3

LEMMA OwnedUnchanged ==
  ASSUME OwnedInv, UNCHANGED <<registered, hosted, requests, objects>>
  PROVE  OwnedInv'
  BY DEF OwnedInv, Sound, Compatible

LEMMA OwnedImport ==
  ASSUME PlainTypes, OwnedInv, NEW o \in Objects, ImportAccepted(o)
  PROVE  OwnedInv'
<1>1. ~Idle /\ objects[o] = None
  BY DEF ImportAccepted, MayImport
<1>2. PICK path \in Paths : path = Frame.path
  BY <1>1, FrameFacts
<1> DEFINE request == [id |-> Plugin[path].id, type |-> Plugin[path].type, object |-> o]
<1>3. /\ requests' = Append(requests, request)
      /\ objects' = [objects EXCEPT ![o] = path]
      /\ UNCHANGED <<registered, hosted>>
      /\ Compatible(path)
  BY <1>2 DEF ImportAccepted
<1>4. request \in Request /\ request.object = o
      /\ request.type = Plugin[path].type /\ request.id = Plugin[path].id
  BY PluginFacts DEF Request
<1> HIDE DEF request
<1>5. PICK n \in Nat : n = Len(requests)
  BY DEF PlainTypes
<1>6. /\ Len(requests') = n + 1 /\ requests'[n + 1] = request
      /\ \A i \in 1 .. n : requests'[i] = requests[i]
  <2>1. requests \in Seq(Request)
    BY DEF PlainTypes
  <2>2. QED
    BY <1>3, <1>4, <1>5, <2>1, AppendProperties
<1>7. objects'[o] = path /\ \A a \in Objects \ {o} : objects'[a] = objects[a]
  BY <1>3 DEF PlainTypes
<1>8. /\ \A h \in hosted : h.object \in Objects \ {o}
      /\ \A i \in 1 .. n : requests[i].object \in Objects \ {o}
  BY <1>1, <1>5, OwnedTypes DEF OwnedInv, Sound
<1>9. \A h \in hosted' : Sound(h)'
  BY <1>3, <1>7, <1>8, SoundStays DEF OwnedInv
<1>10. \A i \in 1 .. n + 1 : Sound(requests[i])'
  <2>1. ASSUME NEW i \in 1 .. n PROVE Sound(requests[i])'
    <3>1. Sound(requests[i]) /\ objects'[requests[i].object] = objects[requests[i].object]
      BY <1>5, <1>7, <1>8 DEF OwnedInv
    <3>2. QED
      BY <1>3, <1>6, <3>1 DEF Sound, Compatible
  <2>2. Sound(requests[n + 1])'
    BY <1>2, <1>3, <1>4, <1>6, <1>7, PluginFacts DEF Sound, Compatible
  <2>3. QED
    BY <2>1, <2>2
<1>11. \A i, j \in 1 .. n + 1 : requests'[i].object = requests'[j].object => i = j
  BY <1>4, <1>5, <1>6, <1>8 DEF OwnedInv
<1>12. \A h \in hosted', i \in 1 .. n + 1 : h.object # requests'[i].object
  BY <1>3, <1>4, <1>5, <1>6, <1>8 DEF OwnedInv
<1>13. QED
  BY <1>3, <1>6, <1>9, <1>10, <1>11, <1>12 DEF OwnedInv

LEMMA OwnedCancel ==
  ASSUME PlainTypes, OwnedInv, LoadCancels
  PROVE  OwnedInv'
<1>1. requests' = <<>> /\ UNCHANGED <<registered, hosted>>
      /\ objects' = [o \in Objects |->
           IF \E i \in 1 .. Len(requests) : requests[i].object = o THEN None ELSE objects[o]]
  BY DEF LoadCancels
<1>2. ASSUME NEW h \in hosted PROVE objects'[h.object] = objects[h.object]
  BY <1>1, OwnedTypes DEF OwnedInv
<1>3. \A h \in hosted : Sound(h)'
  BY <1>1, <1>2, SoundStays DEF OwnedInv
<1>4. QED
  BY <1>1, <1>3 DEF OwnedInv

LEMMA OwnedSuccess ==
  ASSUME PlainTypes, OwnedInv, LoadSucceeds
  PROVE  OwnedInv'
<1> DEFINE gone == {requests[i].object : i \in (1 .. Len(requests)) \ Confirmed}
<1>1. /\ requests' = <<>> /\ registered' = registered
      /\ hosted' = hosted \cup {requests[i] : i \in Confirmed}
      /\ Drop(gone, handles)
  BY DEF LoadSucceeds
<1>2. Confirmed \subseteq 1 .. Len(requests)
  BY DEF Confirmed
<1>3. ASSUME NEW h \in hosted' PROVE h.object \in Objects \ gone /\ Sound(h)
  <2>1. CASE h \in hosted
    BY <2>1, OwnedTypes DEF OwnedInv
  <2>2. CASE h \in {requests[i] : i \in Confirmed}
    <3>1. PICK i \in Confirmed : h = requests[i]
      BY <2>2
    <3>2. h.object \in Objects /\ Sound(h)
      BY <1>2, <3>1, OwnedTypes DEF OwnedInv
    <3>3. \A j \in (1 .. Len(requests)) \ Confirmed : requests[j].object # h.object
      BY <1>2, <3>1 DEF OwnedInv
    <3>4. QED
      BY <3>2, <3>3
  <2>3. QED
    BY <1>1, <2>1, <2>2
<1>4. ASSUME NEW h \in hosted' PROVE Sound(h)'
  <2>1. objects'[h.object] = objects[h.object]
    BY <1>1, <1>3, DropOthers
  <2>2. QED
    BY <1>1, <1>3, <2>1, SoundStays
<1>5. \A g, h \in hosted' : g.object = h.object => g = h
  BY <1>1, <1>2 DEF OwnedInv
<1>6. QED
  BY <1>1, <1>4, <1>5 DEF OwnedInv

LEMMA OwnedUnload ==
  ASSUME PlainTypes, OwnedInv, NEW lost \in SUBSET hosted,
         hosted' = hosted \ lost, UNCHANGED <<registered, requests>>,
         NEW libraries, Drop({h.object : h \in lost}, libraries)
  PROVE  OwnedInv'
<1>1. ASSUME NEW h \in hosted' PROVE Sound(h)'
  <2>1. h.object \in Objects \ {g.object : g \in lost}
    BY OwnedTypes DEF OwnedInv
  <2>2. objects'[h.object] = objects[h.object]
    BY <2>1, DropOthers
  <2>3. QED
    BY <2>2, SoundStays DEF OwnedInv
<1>2. ASSUME NEW i \in 1 .. Len(requests) PROVE Sound(requests[i])'
  <2>1. requests[i].object \in Objects \ {g.object : g \in lost}
    BY OwnedTypes DEF OwnedInv
  <2>2. objects'[requests[i].object] = objects[requests[i].object]
    BY <2>1, DropOthers
  <2>3. QED
    BY <2>2 DEF OwnedInv, Sound, Compatible
<1>3. QED
  BY <1>1, <1>2 DEF OwnedInv

LEMMA OwnedRegister ==
  ASSUME PlainTypes, OwnedInv, NEW t \in Types, NEW v \in Versions, RegisterType(t, v)
  PROVE  OwnedInv'
<1>1. /\ registered[t] = None /\ registered' = [registered EXCEPT ![t] = v]
      /\ UNCHANGED <<hosted, requests, objects>>
  BY DEF RegisterType
<1>2. ASSUME NEW p \in Paths, Compatible(p) PROVE Compatible(p)'
  <2>1. Plugin[p].type \in Types \ {t}
    BY <1>1, <1>2, PluginFacts DEF Compatible
  <2>2. registered'[Plugin[p].type] = registered[Plugin[p].type]
    BY <1>1, <2>1 DEF PlainTypes
  <2>3. QED
    BY <1>2, <2>2 DEF Compatible
<1>3. ASSUME NEW r \in Request, Sound(r) PROVE objects[r.object] \in Paths
  BY <1>3 DEF Sound, PlainTypes, Request
<1>4. ASSUME NEW h \in hosted PROVE Sound(h)'
  <2>1. Sound(h) /\ objects[h.object] \in Paths
    BY <1>3, OwnedTypes DEF OwnedInv
  <2>2. Compatible(objects[h.object])'
    <3>1. PICK p \in Paths : p = objects[h.object]
      BY <2>1
    <3>2. Compatible(p)'
      BY <1>2, <2>1, <3>1 DEF Sound
    <3>3. QED
      BY <1>1, <3>1, <3>2 DEF Compatible
  <2>3. QED
    BY <1>1, <2>1, <2>2 DEF Sound
<1>5. ASSUME NEW i \in 1 .. Len(requests) PROVE Sound(requests[i])'
  <2>1. Sound(requests[i]) /\ objects[requests[i].object] \in Paths
    BY <1>3, OwnedTypes DEF OwnedInv
  <2>2. Compatible(objects[requests[i].object])'
    <3>1. PICK p \in Paths : p = objects[requests[i].object]
      BY <2>1
    <3>2. Compatible(p)'
      BY <1>2, <2>1, <3>1 DEF Sound
    <3>3. QED
      BY <1>1, <3>1, <3>2 DEF Compatible
  <2>3. QED
    BY <1>1, <2>1, <2>2 DEF Sound
<1>6. QED
  BY <1>1, <1>4, <1>5 DEF OwnedInv

LEMMA OwnedStep ==
  ASSUME PlainTypes, OwnedInv, [Next]_vars
  PROVE  OwnedInv'
<1>1. ASSUME NEW p \in Paths, LoadIncomplete(p) \/ LoadThrows(p) \/ BeginLoad(p)
      PROVE  OwnedInv'
  BY <1>1, OwnedUnchanged DEF LoadIncomplete, LoadThrows, BeginLoad
<1>2. ASSUME NEW o \in Objects, ImportRejected(o) PROVE OwnedInv'
  BY <1>2, OwnedUnchanged DEF ImportRejected
<1>3. ASSUME NEW ok \in BOOLEAN, LoadFails(ok) PROVE OwnedInv'
  BY <1>3, OwnedUnchanged DEF LoadFails
<1>4. ASSUME NEW id \in Ids, Unload(id) PROVE OwnedInv'
  <2> DEFINE lost == {h \in hosted : Key(h) = <<info[id].type, id>>}
  <2>1. /\ lost \in SUBSET hosted
        /\ hosted' = hosted \ lost /\ UNCHANGED <<registered, requests>>
        /\ Drop({h.object : h \in lost}, handles)
    BY <1>4 DEF Unload
  <2> HIDE DEF lost
  <2>2. QED
    BY <2>1, OwnedUnload
<1>5. CASE UnloadAll
  <2>1. /\ hosted' = hosted \ hosted /\ UNCHANGED <<registered, requests>>
        /\ Drop({h.object : h \in hosted}, handles)
    BY <1>5 DEF UnloadAll
  <2>2. QED
    BY <2>1, OwnedUnload
<1>6. CASE Destroy
  BY <1>6 DEF Destroy, OwnedInv
<1>7. ASSUME NEW h \in hosted, Lock(h) PROVE OwnedInv'
  BY <1>7, OwnedUnchanged DEF Lock
<1>8. ASSUME NEW o \in Objects, Release(o) PROVE OwnedInv'
  BY <1>8, OwnedUnchanged DEF Release
<1>9. CASE UNCHANGED vars
  BY <1>9, OwnedUnchanged DEF vars
<1>10. CASE ImportThrows
  BY <1>10, OwnedUnchanged DEF ImportThrows
<1>11. QED
  BY <1>1, <1>2, <1>3, <1>4, <1>5, <1>6, <1>7, <1>8, <1>9, <1>10, OwnedImport, OwnedCancel,
     OwnedSuccess, OwnedRegister
     DEF Next

LEMMA OwnedInvariance == Spec => [](HandlesInv /\ OwnedInv)
<1>1. Init => OwnedInv
  BY DEF Init, OwnedInv
<1>2. HandlesInv /\ OwnedInv /\ [Next]_vars => OwnedInv'
  BY OwnedStep DEF HandlesInv
<1>3. QED
  BY <1>1, <1>2, HandlesInit, HandlesStep, PTL DEF Spec

(* What isCompatible() said of a provider is true for as long as Host owns   *)
(* it, whatever is registered, loaded and unloaded in the meantime.          *)
THEOREM HostedCompatibleInvariance == Spec => []HostedCompatible
<1>1. HandlesInv /\ OwnedInv => HostedCompatible
  BY DEF OwnedInv, Sound, HostedCompatible
<1>2. QED
  BY <1>1, OwnedInvariance, PTL

-----------------------------------------------------------------------------
(* Plugins that use the connector macro.  There is one load at a time and     *)
(* its only request for addition is that of the plugin that is being loaded,  *)
(* so the entries without a library and the requests belong together.        *)

AllMacro == \A p \in Paths : Plugin[p].macro

Accepted == ~Idle /\ Frame.called /\ Frame.result

MacroInv ==
  /\ Len(stack) <= 1
  /\ ~Accepted => requests = <<>>
  /\ Accepted => /\ Len(requests) = 1
                 /\ objects[requests[1].object] = Frame.path
                 /\ info[requests[1].id] = [type |-> requests[1].type, library |-> None]
  /\ \A id \in Ids : info[id] # None =>
       IF info[id].library = None THEN Accepted /\ id = requests[1].id
       ELSE info[id].type = Plugin[info[id].library].type
  /\ \A h \in hosted : info[h.id] # None /\ info[h.id].library = objects[h.object]
  /\ ~crashed

FullInv == HandlesInv /\ OwnedInv /\ MacroInv

LEMMA EnoughHandles ==
  ASSUME HandlesInv, NEW p \in Paths, Loaders(p) # {} \/ Waiting(p) # {}
  PROVE  handles[p] > 0
<1>1. /\ IsFiniteSet(Loaders(p)) /\ Cardinality(Loaders(p)) \in Nat
      /\ IsFiniteSet(Waiting(p)) /\ Cardinality(Waiting(p)) \in Nat
  BY Counts DEF HandlesInv
<1>2. Cardinality(Loaders(p)) # 0 \/ Cardinality(Waiting(p)) # 0
  BY <1>1, FS_EmptySet
<1>3. leaked[p] \in Nat
  BY Counts DEF HandlesInv
<1>4. QED
  BY <1>1, <1>2, <1>3 DEF HandlesInv, Balanced

(* The library of every provider that Host owns is open.                     *)
LEMMA HostedMapped ==
  ASSUME FullInv, NEW h \in hosted
  PROVE  objects[h.object] \in Paths /\ handles[objects[h.object]] > 0
<1>1. h.object \in Objects /\ h.id \in Ids /\ objects[h.object] # None
  BY OwnedTypes DEF FullInv, HandlesInv, OwnedInv, Sound, Request
<1>2. PICK p \in Paths : p = objects[h.object]
  BY <1>1 DEF FullInv, HandlesInv, PlainTypes
<1>3. h.id \in Loaders(p)
  BY <1>1, <1>2 DEF FullInv, MacroInv, Loaders
<1>4. QED
  BY <1>2, <1>3, EnoughHandles DEF FullInv

LEMMA SafeDrop ==
  ASSUME FullInv, NEW lost \in SUBSET hosted, Drop({h.object : h \in lost}, handles)
  PROVE  ~crashed'
<1>1. \A o \in {h.object : h \in lost} \ held : handles[objects[o]] # 0
  BY HostedMapped DEF FullInv, HandlesInv, PlainTypes
<1>2. QED
  BY <1>1 DEF Drop, FullInv, MacroInv

LEMMA OneFrame ==
  ASSUME FullInv, ~Idle
  PROVE  Len(stack) = 1 /\ Frame = stack[1]
<1>1. PICK n \in Nat \ {0} : n = Len(stack)
  BY FrameFacts DEF FullInv, HandlesInv
<1>2. n <= 1
  BY <1>1 DEF FullInv, MacroInv
<1>3. n = 1
  BY <1>2
<1>4. QED
  BY <1>1, <1>3 DEF Frame

LEMMA PopEmpties ==
  ASSUME FullInv, ~Idle, stack' = Pop
  PROVE  Idle' /\ ~Accepted' /\ Len(stack') = 0
<1>1. Len(stack) - 1 = 0
  BY OneFrame
<1>2. stack' = SubSeq(stack, 1, 0)
  BY <1>1 DEF Pop
<1>3. stack' = <<>>
  BY <1>2, SubSeqEmpty
<1>4. QED
  BY <1>3 DEF Idle, Accepted

(* The request under way is that of the plugin on the stack.                 *)
LEMMA TheRequest ==
  ASSUME FullInv, Accepted
  PROVE  /\ Frame.path \in Paths
         /\ requests[1] \in Request /\ requests[1].object \in Objects
         /\ requests[1].id = Plugin[Frame.path].id /\ requests[1].type = Plugin[Frame.path].type
         /\ Compatible(Frame.path)
         /\ info[Plugin[Frame.path].id] =
              [type |-> Plugin[Frame.path].type, library |-> None]
         /\ info[Plugin[Frame.path].id] # None
<1>1. Len(requests) = 1 /\ objects[requests[1].object] = Frame.path
      /\ info[requests[1].id] = [type |-> requests[1].type, library |-> None]
  BY DEF FullInv, MacroInv
<1>2. Frame.path \in Paths
  BY FrameFacts DEF FullInv, HandlesInv, Accepted
<1>3. Sound(requests[1])
  BY <1>1 DEF FullInv, OwnedInv
<1>4. requests[1] \in Request /\ requests[1].object \in Objects
  BY <1>1, OwnedTypes DEF FullInv, HandlesInv
<1>5. /\ requests[1].id = Plugin[Frame.path].id /\ requests[1].type = Plugin[Frame.path].type
      /\ Compatible(Frame.path)
  BY <1>1, <1>3 DEF Sound
<1>6. [type |-> requests[1].type, library |-> None] \in Entry
  BY <1>4 DEF Request, Entry
<1>7. QED
  BY <1>1, <1>2, <1>4, <1>5, <1>6, PluginFacts

(* With the macro a load that imported its provider can only succeed, and one *)
(* that did not can only fail.                                               *)
LEMMA MacroReturns ==
  ASSUME AllMacro, FullInv
  PROVE  /\ MayReturn(TRUE) => Accepted
         /\ \A ok \in BOOLEAN : LoadFails(ok) => ~Accepted
         /\ ImportThrows => ~Accepted
         /\ ~LoadCancels
         /\ LoadSucceeds => Accepted
         /\ \A o \in Objects : MayImport(o) => ~Accepted
<1>1. ~Idle => Frame.path \in Paths /\ Plugin[Frame.path].macro
  BY FrameFacts DEF FullInv, HandlesInv, AllMacro
<1>2. MayReturn(TRUE) => Accepted
  BY <1>1, Zenon DEF MayReturn, Accepted
<1>3. ASSUME NEW ok \in BOOLEAN, LoadFails(ok) PROVE ~Accepted
  <2>1. CASE ok
    <3>1. requests = <<>>
      BY <1>3, <2>1 DEF LoadFails
    <3>2. QED
      BY <3>1 DEF FullInv, MacroInv
  <2>2. CASE ~ok
    BY <1>1, <1>3, <2>2, Zenon DEF LoadFails, MayReturn, Accepted
  <2>3. QED
    BY <2>1, <2>2
<1>4. ~LoadCancels
  BY <1>2, TheRequest DEF LoadCancels
<1>5. LoadSucceeds => Accepted
  BY <1>2 DEF LoadSucceeds
<1>6. ASSUME NEW o \in Objects, MayImport(o) PROVE ~Accepted
  BY <1>1, <1>6, Zenon DEF MayImport, Accepted
<1>7. ImportThrows => ~Accepted
  BY <1>1, Zenon DEF ImportThrows, Accepted
<1>8. QED
  BY <1>2, <1>3, <1>4, <1>5, <1>6, <1>7

(* Steps that leave the entries, the requests and the providers alone.       *)
LEMMA MacroQuiet ==
  ASSUME FullInv, ~Accepted, ~Accepted', Len(stack') <= 1,
         UNCHANGED <<requests, info, hosted, objects, crashed>>
  PROVE  MacroInv'
<1>1. /\ requests = <<>> /\ ~crashed
      /\ \A id \in Ids : info[id] # None =>
           info[id].library # None /\ info[id].type = Plugin[info[id].library].type
      /\ \A h \in hosted : info[h.id] # None /\ info[h.id].library = objects[h.object]
  BY DEF FullInv, MacroInv
<1>2. QED
  BY <1>1 DEF MacroInv

LEMMA ImportedFrame ==
  ASSUME FullInv, ~Idle, NEW result \in BOOLEAN, Imported(result)
  PROVE  /\ Len(stack') = 1 /\ ~Idle'
         /\ Frame'.path = Frame.path /\ Frame'.called = TRUE /\ Frame'.result = result
<1>1. Len(stack) = 1 /\ Frame = stack[1] /\ stack[1] \in Call /\ stack \in Seq(Call)
  BY OneFrame, FrameFacts DEF FullInv, HandlesInv, PlainTypes
<1>2. stack' = [stack EXCEPT ![1] = [stack[1] EXCEPT !.called = TRUE, !.result = result]]
  BY <1>1 DEF Imported
<1>3. [stack[1] EXCEPT !.called = TRUE, !.result = result] \in Call
  BY <1>1 DEF Call
<1>4. Len(stack') = 1
      /\ stack'[1] = [stack[1] EXCEPT !.called = TRUE, !.result = result]
  BY <1>1, <1>2, <1>3
<1>5. QED
  BY <1>1, <1>4 DEF Idle, Frame, Call

LEMMA MacroBegin ==
  ASSUME AllMacro, FullInv, NEW p \in Paths,
         LoadIncomplete(p) \/ LoadThrows(p) \/ BeginLoad(p)
  PROVE  MacroInv'
<1>1. CASE LoadIncomplete(p) \/ LoadThrows(p)
  BY <1>1 DEF LoadIncomplete, LoadThrows, FullInv, MacroInv, Accepted, Idle, Frame
<1>2. CASE BeginLoad(p)
  <2>1. Idle
    BY <1>2, FrameFacts DEF BeginLoad, MayLoad, AllMacro, FullInv, HandlesInv
  <2> DEFINE c == [path |-> p, called |-> FALSE, result |-> FALSE]
  <2>2. stack' = <<c>>
    BY <1>2, <2>1 DEF BeginLoad, Idle
  <2>3. Len(stack') = 1 /\ ~Accepted'
    BY <2>2 DEF Accepted, Frame
  <2>4. QED
    BY <1>2, <2>1, <2>3, MacroQuiet DEF BeginLoad, Accepted
<1>3. QED
  BY <1>1, <1>2

LEMMA MacroRejected ==
  ASSUME AllMacro, FullInv, NEW o \in Objects, ImportRejected(o)
  PROVE  MacroInv'
<1>1. MayImport(o) /\ ~Idle /\ Imported(FALSE)
      /\ UNCHANGED <<requests, info, hosted, objects, crashed>>
  BY DEF ImportRejected, MayImport
<1>2. ~Accepted
  BY <1>1, MacroReturns
<1>3. Len(stack') = 1 /\ Frame'.result = FALSE
  BY <1>1, ImportedFrame
<1>4. QED
  BY <1>1, <1>2, <1>3, MacroQuiet DEF Accepted

LEMMA MacroAccepted ==
  ASSUME AllMacro, FullInv, NEW o \in Objects, ImportAccepted(o)
  PROVE  MacroInv'
<1>1. MayImport(o) /\ ~Idle /\ Imported(TRUE) /\ UNCHANGED <<hosted, crashed>> /\ objects[o] = None
  BY DEF ImportAccepted, MayImport
<1>2. PICK p \in Paths : p = Frame.path
  BY <1>1, FrameFacts DEF FullInv, HandlesInv
<1>3. PICK id \in Ids, type \in Types : id = Plugin[p].id /\ type = Plugin[p].type
  BY PluginFacts
<1>4. PICK request \in Request : request = [id |-> id, type |-> type, object |-> o]
  BY DEF Request
<1>5. PICK entry \in Entry : entry = [type |-> type, library |-> None]
  BY DEF Entry
<1>6. /\ info[id] = None /\ info' = [info EXCEPT ![id] = entry]
      /\ requests' = Append(requests, request)
      /\ objects' = [objects EXCEPT ![o] = p]
  BY <1>2, <1>3, <1>4, <1>5 DEF ImportAccepted
<1>7. Len(stack') = 1 /\ Accepted' /\ Frame'.path = p
  <2>1. Len(stack') = 1 /\ ~Idle' /\ Frame'.path = p /\ Frame'.called = TRUE /\ Frame'.result = TRUE
    BY <1>1, <1>2, ImportedFrame
  <2>2. QED
    BY <2>1 DEF Accepted
<1>8. requests = <<>>
  BY <1>1, MacroReturns DEF FullInv, MacroInv
<1>9. requests' = <<request>>
  BY <1>6, <1>8
<1>10. /\ Len(requests') = 1 /\ requests'[1] = request
       /\ request.id = id /\ request.type = type /\ request.object = o
  BY <1>4, <1>9
<1>11. /\ info'[id] = entry /\ entry # None /\ entry.library = None
       /\ \A i \in Ids \ {id} : info'[i] = info[i]
  BY <1>5, <1>6, PluginFacts DEF FullInv, HandlesInv, PlainTypes
<1>12. objects'[o] = p /\ \A a \in Objects \ {o} : objects'[a] = objects[a]
  BY <1>6 DEF FullInv, HandlesInv, PlainTypes
<1>13. /\ objects'[requests'[1].object] = Frame'.path
       /\ info'[requests'[1].id] = [type |-> requests'[1].type, library |-> None]
  BY <1>5, <1>7, <1>10, <1>11, <1>12
<1>14. ASSUME NEW i \in Ids, info'[i] # None
       PROVE  IF info'[i].library = None THEN i = requests'[1].id
              ELSE info'[i].type = Plugin[info'[i].library].type
  <2>1. CASE i = id
    BY <1>10, <1>11, <2>1
  <2>2. CASE i # id
    <3>1. info'[i] = info[i] /\ info[i] # None
      BY <1>11, <1>14, <2>2
    <3>2. info[i].library # None /\ info[i].type = Plugin[info[i].library].type
      BY <1>1, <3>1, MacroReturns DEF FullInv, MacroInv
    <3>3. QED
      BY <3>1, <3>2
  <2>3. QED
    BY <2>1, <2>2
<1>15. ASSUME NEW h \in hosted'
       PROVE  info'[h.id] # None /\ info'[h.id].library = objects'[h.object]
  <2>1. h \in hosted
    BY <1>1, <1>15
  <2>2. h.id \in Ids /\ h.object \in Objects /\ objects[h.object] # None
    BY <2>1, OwnedTypes DEF FullInv, HandlesInv, OwnedInv, Sound, Request
  <2>3. info[h.id] # None /\ info[h.id].library = objects[h.object]
    BY <2>1 DEF FullInv, MacroInv
  <2>4. h.id # id /\ h.object # o
    BY <1>1, <1>6, <2>2, <2>3
  <2>5. QED
    BY <1>11, <1>12, <2>2, <2>3, <2>4
<1>16. ~crashed'
  BY <1>1 DEF FullInv, MacroInv
<1>17. QED
  BY <1>7, <1>10, <1>13, <1>14, <1>15, <1>16 DEF MacroInv

LEMMA MacroFails ==
  ASSUME AllMacro, FullInv, NEW ok \in BOOLEAN, LoadFails(ok) \/ ImportThrows
  PROVE  MacroInv'
<1>1. ~Idle /\ stack' = Pop /\ UNCHANGED <<requests, info, hosted, objects, crashed>>
  BY DEF LoadFails, ImportThrows, MayReturn
<1>2. ~Accepted /\ ~Accepted' /\ Len(stack') <= 1
  BY <1>1, MacroReturns, PopEmpties
<1>3. QED
  BY <1>1, <1>2, MacroQuiet

LEMMA MacroSucceeds ==
  ASSUME AllMacro, FullInv, LoadSucceeds
  PROVE  MacroInv'
<1>1. Accepted /\ ~Idle /\ stack' = Pop
  BY MacroReturns DEF LoadSucceeds, MayReturn
<1>2. PICK p \in Paths : p = Frame.path
  BY <1>1, TheRequest
<1>3. PICK id \in Ids : id = Plugin[p].id
  BY PluginFacts
<1>4. PICK request \in Request : request = requests[1]
  BY <1>1, TheRequest
<1>5. /\ request.id = id /\ request.object \in Objects
      /\ request.type = Plugin[p].type /\ objects[request.object] = p
      /\ info[id] = [type |-> Plugin[p].type, library |-> None] /\ info[id] # None
      /\ Len(requests) = 1
  BY <1>1, <1>2, <1>3, <1>4, TheRequest DEF FullInv, MacroInv
<1>6. /\ hosted' = hosted \cup {requests[i] : i \in Confirmed}
      /\ Drop({requests[i].object : i \in (1 .. Len(requests)) \ Confirmed}, handles)
      /\ info' = [info EXCEPT ![id].library = p]
      /\ requests' = <<>>
  BY <1>2, <1>3 DEF LoadSucceeds
<1>7. Confirmed = {1}
  <2>1. ASSUME NEW h \in hosted PROVE Key(h) # Key(requests[1])
    <3>1. h.id \in Ids /\ info[h.id].library = objects[h.object] /\ objects[h.object] # None
      BY OwnedTypes DEF FullInv, HandlesInv, OwnedInv, MacroInv, Sound, Request
    <3>2. h.id # id
      BY <1>5, <3>1
    <3>3. QED
      BY <1>4, <1>5, <3>2 DEF Key
  <2>2. 1 .. Len(requests) = {1}
    BY <1>5
  <2>3. QED
    BY <2>1, <2>2 DEF Confirmed
<1>8. hosted' = hosted \cup {request} /\ Drop({}, handles)
  <2>1. {requests[i] : i \in {1}} = {request}
    BY <1>4
  <2>2. (1 .. Len(requests)) \ {1} = {}
    BY <1>5
  <2>3. {requests[i].object : i \in {}} = {}
    OBVIOUS
  <2>4. QED
    BY <1>6, <1>7, <2>1, <2>2, <2>3
<1>9. objects' = objects /\ ~crashed'
  <2>1. objects' = objects
    BY <1>8 DEF Drop, FullInv, HandlesInv, PlainTypes
  <2>2. ~crashed'
    BY <1>8 DEF Drop, FullInv, MacroInv
  <2>3. QED
    BY <2>1, <2>2
<1>10. /\ info'[id] # None /\ info'[id].library = p /\ info'[id].type = Plugin[p].type
       /\ \A i \in Ids \ {id} : info'[i] = info[i]
  <2>1. /\ info'[id] = [info[id] EXCEPT !.library = p]
        /\ \A i \in Ids \ {id} : info'[i] = info[i]
    BY <1>6 DEF FullInv, HandlesInv, PlainTypes
  <2>2. [info[id] EXCEPT !.library = p] = [type |-> Plugin[p].type, library |-> p]
    BY <1>5
  <2>3. [type |-> Plugin[p].type, library |-> p] \in Entry
    BY PluginFacts DEF Entry
  <2>4. QED
    BY <2>1, <2>2, <2>3, PluginFacts
<1>11. ~Accepted' /\ Len(stack') = 0
  BY <1>1, PopEmpties
<1>12. ASSUME NEW i \in Ids, info'[i] # None
       PROVE  info'[i].library # None /\ info'[i].type = Plugin[info'[i].library].type
  <2>1. CASE i = id
    BY <1>10, <2>1, PluginFacts
  <2>2. CASE i # id
    <3>1. info'[i] = info[i] /\ info[i] # None /\ i # requests[1].id
      BY <1>4, <1>5, <1>10, <1>12, <2>2
    <3>2. info[i].library # None /\ info[i].type = Plugin[info[i].library].type
      BY <3>1 DEF FullInv, MacroInv
    <3>3. QED
      BY <3>1, <3>2
  <2>3. QED
    BY <2>1, <2>2
<1>13. ASSUME NEW h \in hosted'
       PROVE  info'[h.id] # None /\ info'[h.id].library = objects'[h.object]
  <2>1. CASE h = request
    BY <1>5, <1>9, <1>10, <2>1
  <2>2. CASE h \in hosted
    <3>1. h.id \in Ids /\ info[h.id] # None
          /\ info[h.id].library = objects[h.object] /\ objects[h.object] # None
      BY <2>2, OwnedTypes DEF FullInv, HandlesInv, OwnedInv, MacroInv, Sound, Request
    <3>2. h.id # id
      BY <1>5, <3>1
    <3>3. QED
      BY <1>9, <1>10, <3>1, <3>2
  <2>3. QED
    BY <1>8, <2>1, <2>2
<1>14. QED
  BY <1>6, <1>9, <1>11, <1>12, <1>13 DEF MacroInv

LEMMA MacroUnload ==
  ASSUME FullInv, NEW id \in Ids, Unload(id)
  PROVE  MacroInv'
<1>1. ~Accepted /\ requests = <<>>
  BY DEF Unload, Accepted, FullInv, MacroInv
<1>2. PICK lost : lost = {h \in hosted : Key(h) = <<info[id].type, id>>}
  OBVIOUS
<1>3. /\ lost \in SUBSET hosted /\ hosted' = hosted \ lost
      /\ Drop({h.object : h \in lost}, handles)
      /\ info' = [info EXCEPT ![id] = None] /\ UNCHANGED <<requests, stack>>
      /\ info[id] # None
  BY <1>2 DEF Unload
<1>4. ~crashed'
  BY <1>3, SafeDrop
<1>5. info'[id] = None /\ \A i \in Ids \ {id} : info'[i] = info[i]
  BY <1>3 DEF FullInv, HandlesInv, PlainTypes
<1>6. ASSUME NEW h \in hosted'
      PROVE  info'[h.id] # None /\ info'[h.id].library = objects'[h.object]
  <2>1. h \in hosted /\ h \notin lost
    BY <1>3
  <2>2. /\ h.id \in Ids /\ h.object \in Objects /\ objects[h.object] # None
        /\ h.type = Plugin[objects[h.object]].type
        /\ info[h.id] # None /\ info[h.id].library = objects[h.object]
    BY <2>1, OwnedTypes DEF FullInv, HandlesInv, OwnedInv, MacroInv, Sound, Request
  <2>3. info[h.id].type = h.type
    BY <2>2 DEF FullInv, MacroInv
  <2>4. h.id # id
    BY <1>2, <2>1, <2>3 DEF Key
  <2>5. h.object \notin {g.object : g \in lost}
    BY <1>3, <2>1 DEF FullInv, OwnedInv
  <2>6. objects'[h.object] = objects[h.object]
    BY <1>3, <2>2, <2>5, DropOthers DEF FullInv, HandlesInv
  <2>7. QED
    BY <1>5, <2>2, <2>4, <2>6
<1>7. ASSUME NEW i \in Ids, info'[i] # None
      PROVE  info'[i].library # None /\ info'[i].type = Plugin[info'[i].library].type
  <2>1. info'[i] = info[i] /\ info[i] # None
    BY <1>5, <1>7
  <2>2. QED
    BY <1>1, <2>1 DEF FullInv, MacroInv
<1>8. ~Accepted' /\ Len(stack') <= 1
  BY <1>1, <1>3 DEF Accepted, Idle, Frame, FullInv, MacroInv
<1>9. QED
  BY <1>1, <1>3, <1>4, <1>6, <1>7, <1>8 DEF MacroInv

LEMMA MacroClear ==
  ASSUME FullInv, UnloadAll \/ Destroy
  PROVE  MacroInv'
<1>1. /\ Idle /\ hosted' = {} /\ info' = [id \in Ids |-> None] /\ stack' = stack
  BY DEF UnloadAll, Destroy
<1>2. requests' = <<>>
  BY <1>1 DEF UnloadAll, Destroy, FullInv, MacroInv, Accepted
<1>3. ~crashed'
  <2>1. CASE UnloadAll
    BY <2>1, SafeDrop DEF UnloadAll
  <2>2. CASE Destroy
    <3>1. \A h \in hosted : handles[objects[h.object]] # 0
      BY HostedMapped DEF FullInv, HandlesInv, PlainTypes
    <3>2. QED
      BY <2>2, <3>1 DEF Destroy, FullInv, MacroInv
  <2>3. QED
    BY <2>1, <2>2
<1>4. QED
  BY <1>1, <1>2, <1>3 DEF MacroInv, Accepted, Idle

LEMMA MacroStep ==
  ASSUME AllMacro, FullInv, [Next]_vars
  PROVE  MacroInv'
<1>1. CASE \/ \E t \in Types, v \in Versions : RegisterType(t, v)
           \/ \E h \in hosted : Lock(h)
           \/ \E o \in Objects : Release(o)
           \/ UNCHANGED vars
  <2>1. UNCHANGED <<hosted, requests, info, stack, objects, crashed>>
    BY <1>1 DEF RegisterType, Lock, Release, vars
  <2>2. QED
    BY <2>1 DEF FullInv, MacroInv, Accepted, Idle, Frame
<1>2. ~LoadCancels
  BY MacroReturns
<1>3. QED
  BY <1>1, <1>2, MacroBegin, MacroRejected, MacroAccepted, MacroFails, MacroSucceeds,
     MacroUnload, MacroClear
     DEF Next

LEMMA FullInvariance ==
  ASSUME AllMacro
  PROVE  Spec => []FullInv
<1>1. Init => MacroInv
  BY DEF Init, MacroInv, Accepted, Idle
<1>2. Init => OwnedInv
  BY DEF Init, OwnedInv
<1>3. FullInv /\ [Next]_vars => FullInv'
  <2> SUFFICES ASSUME FullInv, [Next]_vars PROVE FullInv'
    OBVIOUS
  <2>1. HandlesInv'
    BY HandlesStep DEF FullInv
  <2>2. OwnedInv'
    BY OwnedStep DEF FullInv, HandlesInv
  <2>3. QED
    BY <2>1, <2>2, MacroStep DEF FullInv
<1>4. Init => FullInv
  BY <1>1, <1>2, HandlesInit DEF FullInv
<1>5. QED
  BY <1>3, <1>4, PTL DEF Spec

(* With plugins made by the connector macro, the code of every provider that *)
(* Host owns stays mapped, Host owns it once, and no destructor runs after   *)
(* dlclose() has taken its code away.                                        *)
THEOREM ProvidersMappedInvariance ==
  ASSUME AllMacro
  PROVE  Spec => []ProvidersMapped
<1>1. FullInv => ProvidersMapped
  <2> SUFFICES ASSUME FullInv PROVE ProvidersMapped
    OBVIOUS
  <2>1. ASSUME NEW i \in 1 .. Len(requests)
        PROVE  /\ i = 1 /\ Accepted
               /\ objects[requests[i].object] # None /\ handles[objects[requests[i].object]] > 0
    <3>1. Accepted
      BY DEF FullInv, MacroInv
    <3>2. Len(requests) = 1 /\ objects[requests[1].object] = Frame.path
      BY <3>1 DEF FullInv, MacroInv
    <3>3. i = 1
      BY <3>2
    <3>4. Frame.path \in Paths /\ Len(stack) = 1 /\ Frame = stack[1]
      BY <3>1, TheRequest, OneFrame DEF Accepted
    <3>5. 1 \in Waiting(Frame.path)
      BY <3>4 DEF Waiting
    <3>6. handles[Frame.path] > 0
      BY <3>4, <3>5, EnoughHandles DEF FullInv
    <3>7. QED
      BY <3>1, <3>2, <3>3, <3>4, <3>6, PluginFacts
  <2>2. ~crashed
    BY DEF FullInv, MacroInv
  <2>3. ASSUME NEW h \in hosted
        PROVE  objects[h.object] # None /\ handles[objects[h.object]] > 0
    BY HostedMapped, PluginFacts
  <2>4. /\ \A g, h \in hosted : g.object = h.object => g = h
        /\ \A h \in hosted, i \in 1 .. Len(requests) : h.object # requests[i].object
        /\ \A i, j \in 1 .. Len(requests) : requests[i].object = requests[j].object => i = j
    BY DEF FullInv, OwnedInv
  <2>5. QED
    BY <2>1, <2>2, <2>3, <2>4 DEF ProvidersMapped
<1>2. QED
  BY <1>1, FullInvariance, PTL

-----------------------------------------------------------------------------
(* The refinement.  A plugin is loaded when its entry has a library, and      *)
(* plugin_cnt_ counts those, as long as it does not wrap.                    *)

LoadedIds == {id \in Ids : info[id] # None /\ info[id].library # None}

Counted == count = Cardinality(LoadedIds)

LEMMA LoadedFacts ==
  ASSUME PlainTypes
  PROVE  /\ IsFiniteSet(LoadedIds) /\ Cardinality(LoadedIds) \in Nat
         /\ Cardinality(LoadedIds) <= Cardinality(Ids) /\ Cardinality(Ids) \in Nat
<1>1. LoadedIds \in SUBSET Ids
  BY DEF LoadedIds
<1>2. QED
  BY <1>1, PluginFacts, FS_Subset, FS_CardinalityType

(* What the entries and the providers become in a load and in an unload.     *)
LEMMA LoadEffect ==
  ASSUME AllMacro, FullInv, LoadSucceeds
  PROVE  \E p \in Paths :
           /\ info[Plugin[p].id] # None /\ info[Plugin[p].id].library = None
           /\ Compatible(p)
           /\ info' = [info EXCEPT ![Plugin[p].id].library = p]
           /\ Visible' = Visible \cup {<<Plugin[p].type, Plugin[p].id>>}
           /\ count' = (count + 1) % CountModulus /\ registered' = registered
<1>1. Accepted /\ MacroInv'
  BY MacroReturns, MacroSucceeds DEF FullInv
<1>2. PICK p \in Paths : p = Frame.path
  BY <1>1, TheRequest
<1>3. /\ info[Plugin[p].id] # None /\ info[Plugin[p].id].library = None
      /\ Compatible(p) /\ Key(requests[1]) = <<Plugin[p].type, Plugin[p].id>>
  BY <1>1, <1>2, TheRequest DEF Key
<1>4. /\ hosted' = hosted \cup {requests[i] : i \in Confirmed}
      /\ info' = [info EXCEPT ![Plugin[p].id].library = p]
      /\ count' = (count + 1) % CountModulus /\ registered' = registered
  BY <1>2 DEF LoadSucceeds
<1>5. Confirmed = {1}
  <2>1. ASSUME NEW h \in hosted PROVE Key(h) # Key(requests[1])
    <3>1. h.id \in Ids /\ info[h.id].library = objects[h.object] /\ objects[h.object] # None
      BY OwnedTypes DEF FullInv, HandlesInv, OwnedInv, MacroInv, Sound, Request
    <3>2. h.id # Plugin[p].id
      BY <1>3, <3>1
    <3>3. QED
      BY <1>3, <3>2 DEF Key
  <2>2. Len(requests) = 1
    BY <1>1 DEF FullInv, MacroInv
  <2>3. 1 .. Len(requests) = {1}
    BY <2>2
  <2>4. QED
    BY <2>1, <2>3 DEF Confirmed
<1>6. Visible' = Visible \cup {Key(requests[1])}
  BY <1>4, <1>5 DEF Visible, Key
<1>7. QED
  BY <1>2, <1>3, <1>4, <1>6

LEMMA UnloadEffect ==
  ASSUME FullInv, NEW id \in Ids, Unload(id)
  PROVE  /\ info[id] # None /\ info[id].library # None
         /\ info[id].type = Plugin[info[id].library].type
         /\ info' = [info EXCEPT ![id] = None]
         /\ Visible' = Visible \ {<<info[id].type, id>>}
         /\ count' = (count - 1) % CountModulus /\ registered' = registered
<1>1. /\ Idle /\ info[id] # None
      /\ hosted' = hosted \ {h \in hosted : Key(h) = <<info[id].type, id>>}
      /\ info' = [info EXCEPT ![id] = None]
      /\ count' = (count - 1) % CountModulus /\ registered' = registered
  BY DEF Unload
<1>2. info[id].library # None /\ info[id].type = Plugin[info[id].library].type
  BY <1>1 DEF FullInv, MacroInv, Accepted
<1>3. Visible' = Visible \ {<<info[id].type, id>>}
  BY <1>1 DEF Visible, Key
<1>4. QED
  BY <1>1, <1>2, <1>3

LEMMA CountedStep ==
  ASSUME AllMacro, Cardinality(Ids) < CountModulus, FullInv, Counted, [Next]_vars
  PROVE  Counted'
<1>1. PICK n \in Nat : n = Cardinality(LoadedIds) /\ n <= Cardinality(Ids)
  BY LoadedFacts DEF FullInv, HandlesInv
<1>2. PICK m \in Nat : m = CountModulus /\ n < m /\ Cardinality(Ids) < m
  BY <1>1, LoadedFacts, PluginFacts DEF FullInv, HandlesInv
<1>3. IsFiniteSet(LoadedIds)
  BY LoadedFacts DEF FullInv, HandlesInv
<1>4. CASE LoadSucceeds
  <2>1. PICK p \in Paths :
           /\ info[Plugin[p].id] # None /\ info[Plugin[p].id].library = None
           /\ info' = [info EXCEPT ![Plugin[p].id].library = p]
           /\ count' = (count + 1) % CountModulus
    BY <1>4, LoadEffect
  <2>2. PICK id \in Ids : id = Plugin[p].id
    BY PluginFacts
  <2>3. PlainTypes'
    BY <1>4, SuccessStep DEF FullInv, HandlesInv
  <2>4. /\ info'[id] # None /\ info'[id].library = p
        /\ \A i \in Ids \ {id} : info'[i] = info[i]
    BY <2>1, <2>2, StoredEntry DEF FullInv, HandlesInv
  <2>5. LoadedIds' = LoadedIds \cup {id} /\ id \notin LoadedIds
    BY <2>1, <2>2, <2>4, PluginFacts DEF LoadedIds
  <2>6. Cardinality(LoadedIds') = n + 1
    BY <1>1, <1>3, <2>5, FS_AddElement
  <2>7. n + 1 <= Cardinality(Ids)
    <3>1. LoadedIds' \in SUBSET Ids
      BY DEF LoadedIds
    <3>2. QED
      BY <2>6, <3>1, PluginFacts, FS_Subset
  <2>8. (n + 1) % m = n + 1
    <3>1. n + 1 < m
      BY <1>1, <1>2, <2>7, LoadedFacts DEF FullInv, HandlesInv
    <3>2. QED
      BY <3>1
  <2>9. QED
    BY <1>1, <1>2, <2>1, <2>6, <2>8 DEF Counted
<1>5. ASSUME NEW id \in Ids, Unload(id) PROVE Counted'
  <2>1. /\ info[id] # None /\ info[id].library # None
        /\ info' = [info EXCEPT ![id] = None]
        /\ count' = (count - 1) % CountModulus
    BY <1>5, UnloadEffect
  <2>2. LoadedIds' = LoadedIds \ {id} /\ id \in LoadedIds
    BY <2>1 DEF LoadedIds, FullInv, HandlesInv, PlainTypes
  <2>3. Cardinality(LoadedIds') = n - 1
    BY <1>1, <1>3, <2>2, FS_RemoveElement
  <2>4. n # 0
    BY <1>1, <1>3, <2>2, FS_EmptySet
  <2>5. (n - 1) % m = n - 1
    BY <1>2, <2>4
  <2>6. QED
    BY <1>1, <1>2, <2>1, <2>3, <2>5 DEF Counted
<1>6. CASE UnloadAll \/ Destroy
  <2>1. count' = 0 /\ info' = [id \in Ids |-> None]
    BY <1>6 DEF UnloadAll, Destroy
  <2>2. LoadedIds' = {}
    BY <2>1 DEF LoadedIds
  <2>3. QED
    BY <2>1, <2>2, FS_EmptySet DEF Counted
<1>7. ASSUME NEW o \in Objects, ImportAccepted(o) PROVE Counted'
  <2>1. PICK id \in Ids, type \in Types :
          info[id] = None /\ info' = [info EXCEPT ![id] = [type |-> type, library |-> None]]
    BY <1>7, FrameFacts, PluginFacts DEF ImportAccepted, MayImport, FullInv, HandlesInv
  <2>2. LoadedIds' = LoadedIds
    BY <2>1 DEF LoadedIds, FullInv, HandlesInv, PlainTypes
  <2>3. count' = count
    BY <1>7 DEF ImportAccepted
  <2>4. QED
    BY <2>2, <2>3 DEF Counted
<1>8. ASSUME UNCHANGED <<info, count>> PROVE Counted'
  BY <1>8 DEF Counted, LoadedIds
<1>9. ~LoadCancels
  BY MacroReturns
<1>10. QED
  BY <1>4, <1>5, <1>6, <1>7, <1>8, <1>9
     DEF Next, LoadIncomplete, LoadThrows, BeginLoad, ImportRejected, LoadFails, ImportThrows,
         RegisterType, Lock, Release, vars

LEMMA RegistryStep ==
  ASSUME AllMacro, Cardinality(Ids) < CountModulus, FullInv, Counted, Counted', PlainTypes',
         [Next]_vars
  PROVE  [Registry!Next]_(Registry!vars)
<1>1. CASE LoadSucceeds
  <2>1. PICK p \in Paths :
           /\ info[Plugin[p].id] # None /\ info[Plugin[p].id].library = None
           /\ Compatible(p)
           /\ info' = [info EXCEPT ![Plugin[p].id].library = p]
           /\ Visible' = Visible \cup {<<Plugin[p].type, Plugin[p].id>>}
           /\ count' = (count + 1) % CountModulus /\ registered' = registered
    BY <1>1, LoadEffect
  <2>2. PICK id \in Ids : id = Plugin[p].id
    BY PluginFacts
  <2>3. /\ info'[id] # None /\ info'[id].library = p
        /\ \A i \in Ids \ {id} : info'[i] = info[i]
    BY <2>1, <2>2, StoredEntry DEF FullInv, HandlesInv
  <2>4. Loaded[id] = None /\ Loaded' = [Loaded EXCEPT ![id] = p]
    BY <2>1, <2>2, <2>3 DEF Loaded
  <2>5. Registry!Accepts(p)
    <3>1. PICK v \in Versions : v = registered[Plugin[p].type] /\ v # None
      BY <2>1, PluginFacts DEF Compatible, FullInv, HandlesInv, PlainTypes
    <3>2. v.lowest \in Nat /\ v.current \in Nat /\ Plugin[p].version \in Nat
      BY PluginAssumption, PluginFacts
    <3>3. v.lowest <= Plugin[p].version /\ Plugin[p].version <= v.current
      BY <2>1, <3>1 DEF Compatible
    <3>4. Plugin[p].version \in v.lowest .. v.current
      BY <3>2, <3>3
    <3>5. QED
      BY <3>1, <3>4 DEF Registry!Accepts
  <2>6. count' = count + 1
    <3>1. LoadedIds' = LoadedIds \cup {id} /\ id \notin LoadedIds
      BY <2>1, <2>2, <2>3, PluginFacts DEF LoadedIds
    <3>2. QED
      BY <3>1, LoadedFacts, FS_AddElement DEF Counted, FullInv, HandlesInv
  <2>7. Registry!Load(p)
    BY <2>1, <2>2, <2>4, <2>5, <2>6 DEF Registry!Load
  <2>8. QED
    BY <2>7 DEF Registry!Next
<1>2. ASSUME NEW id \in Ids, Unload(id) PROVE Registry!Next
  <2>1. /\ info[id] # None /\ info[id].library # None
        /\ info[id].type = Plugin[info[id].library].type
        /\ info' = [info EXCEPT ![id] = None]
        /\ Visible' = Visible \ {<<info[id].type, id>>}
        /\ registered' = registered
    BY <1>2, UnloadEffect
  <2>2. info'[id] = None /\ \A i \in Ids \ {id} : info'[i] = info[i]
    BY <2>1 DEF FullInv, HandlesInv, PlainTypes
  <2>3. Loaded[id] = info[id].library /\ Loaded' = [Loaded EXCEPT ![id] = None]
    <3>1. Loaded[id] = info[id].library
      BY <2>1 DEF Loaded
    <3>2. Loaded' = [Loaded EXCEPT ![id] = None]
      BY <2>2 DEF Loaded
    <3>3. QED
      BY <3>1, <3>2
  <2>4. count' = count - 1
    <3>1. LoadedIds' = LoadedIds \ {id} /\ id \in LoadedIds
      BY <2>1, <2>2 DEF LoadedIds
    <3>2. QED
      BY <3>1, LoadedFacts, FS_RemoveElement DEF Counted, FullInv, HandlesInv
  <2>5. Registry!Unload(id)
    BY <2>1, <2>3, <2>4 DEF Registry!Unload
  <2>6. QED
    BY <2>5 DEF Registry!Next
<1>3. CASE UnloadAll
  <2>1. /\ hosted' = {} /\ info' = [id \in Ids |-> None] /\ count' = 0
        /\ registered' = registered
    BY <1>3 DEF UnloadAll
  <2>2. Loaded' = [id \in Ids |-> None] /\ Visible' = {}
    BY <2>1 DEF Loaded, Visible
  <2>3. Registry!UnloadAll
    BY <2>1, <2>2 DEF Registry!UnloadAll
  <2>4. QED
    BY <2>3 DEF Registry!Next
<1>4. CASE Destroy
  <2>1. hosted' = {} /\ info' = [id \in Ids |-> None] /\ count' = 0
    BY <1>4 DEF Destroy
  <2>2. Loaded' = [id \in Ids |-> None] /\ Visible' = {}
    BY <2>1 DEF Loaded, Visible
  <2>3. registered' \in [Types -> Versions \cup {None}]
    BY DEF PlainTypes
  <2>4. Registry!Renew
    BY <2>1, <2>2, <2>3 DEF Registry!Renew, Registry!Init
  <2>5. QED
    BY <2>4 DEF Registry!Next
<1>5. ASSUME NEW t \in Types, NEW v \in Versions, RegisterType(t, v) PROVE Registry!Next
  <2>1. /\ registered[t] = None /\ registered' = [registered EXCEPT ![t] = v]
        /\ UNCHANGED <<hosted, info, count>>
    BY <1>5 DEF RegisterType
  <2>2. Loaded' = Loaded /\ Visible' = Visible
    BY <2>1 DEF Loaded, Visible, Key
  <2>3. Registry!Register(t, v)
    BY <2>1, <2>2 DEF Registry!Register
  <2>4. QED
    BY <2>3 DEF Registry!Next
<1>6. ASSUME NEW o \in Objects, ImportAccepted(o) PROVE UNCHANGED Registry!vars
  <2>1. PICK id \in Ids, type \in Types :
          info[id] = None /\ info' = [info EXCEPT ![id] = [type |-> type, library |-> None]]
    BY <1>6, FrameFacts, PluginFacts DEF ImportAccepted, MayImport, FullInv, HandlesInv
  <2>2. Loaded' = Loaded
    BY <2>1 DEF Loaded, FullInv, HandlesInv, PlainTypes
  <2>3. UNCHANGED <<registered, hosted, count>>
    BY <1>6 DEF ImportAccepted
  <2>4. QED
    BY <2>2, <2>3 DEF Registry!vars, Visible, Key
<1>7. ASSUME UNCHANGED <<registered, hosted, info, count>> PROVE UNCHANGED Registry!vars
  BY <1>7 DEF Registry!vars, Loaded, Visible, Key
<1>8. ~LoadCancels
  BY MacroReturns
<1>9. QED
  BY <1>1, <1>2, <1>3, <1>4, <1>5, <1>6, <1>7, <1>8
     DEF Next, LoadIncomplete, LoadThrows, BeginLoad, ImportRejected, LoadFails, ImportThrows,
         Lock, Release, vars

(* With plugins made by the connector macro, and fewer identifiers than      *)
(* plugin_cnt_ can count, Manage is the registry of PluginRegistry.tla: a    *)
(* load is one step that counts the plugin and shows its provider, or none.  *)
THEOREM ManageImplementsRegistry ==
  ASSUME AllMacro, Cardinality(Ids) < CountModulus
  PROVE  Spec => ImplementsRegistry
<1>1. Init => Registry!Init /\ Counted
  <2> SUFFICES ASSUME Init PROVE Registry!Init /\ Counted
    OBVIOUS
  <2>1. Loaded = [id \in Ids |-> None] /\ Visible = {} /\ LoadedIds = {} /\ count = 0
    BY DEF Init, Loaded, Visible, LoadedIds
  <2>2. registered \in [Types -> Versions \cup {None}]
    BY MadeByInit DEF Init
  <2>3. QED
    BY <2>1, <2>2, FS_EmptySet DEF Registry!Init, Counted
<1>2. FullInv /\ Counted /\ [Next]_vars => Counted'
  BY CountedStep
<1>3. FullInv /\ FullInv' /\ Counted /\ Counted' /\ [Next]_vars
        => [Registry!Next]_(Registry!vars)
  BY RegistryStep DEF FullInv, HandlesInv
<1>4. QED
  BY <1>1, <1>2, <1>3, FullInvariance, PTL DEF Spec, ImplementsRegistry, Registry!Spec
=============================================================================
