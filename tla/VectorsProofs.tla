---------------------------- MODULE VectorsProofs ----------------------------
(***************************************************************************)
(* Vectors keep their type, implement the stack and stray only as stated,  *)
(* for every capacity, every set of items and every length.                *)
(***************************************************************************)
EXTENDS Vectors, SequenceTheorems, TLAPS

\* A fresh block has slots to spare.
LEMMA FreshSlack == Capacity * NodeWords > Capacity
<1>1. \A c \in Nat \ {0}, w \in Nat \ {0, 1} : c * w > c
  <2> SUFFICES ASSUME NEW c \in Nat \ {0}, NEW w \in Nat \ {0, 1} PROVE c * w > c
    OBVIOUS
  <2>1. c * w = c + c * (w - 1) /\ w - 1 \in Nat \ {0}
    OBVIOUS
  <2>2. c * (w - 1) > 0
    BY <2>1
  <2> QED
    BY <2>1, <2>2
<1> QED
  BY <1>1, VectorsAssumption

\* The invariant holds of a new vector.
LEMMA InitIInv == Init => IInv
<1> SUFFICES ASSUME Init PROVE IInv
  OBVIOUS
<1>1. Capacity \in Nat \ {0} /\ Capacity * NodeWords \in Nat
  BY VectorsAssumption
<1>2. DOMAIN data = 0..(Capacity * NodeWords - 1) /\ data = [i \in DOMAIN data |-> data[i]]
  BY DEF Init
<1>3. len = 0 /\ cap = Capacity /\ answer = Null /\ strayed = FALSE
  BY DEF Init
<1>4. /\ cap \in Nat /\ cap >= Capacity /\ len \in 0..cap
      /\ \A i \in 0..(len - 1) : data[i] \in Items
  BY <1>1, <1>3
<1>5. Slots = Block /\ data = [i \in Slots |-> data[i]]
  BY <1>2, <1>3 DEF Slots, Block
<1> QED
  BY <1>3, <1>4, <1>5 DEF IInv

\* Every slot below the capacity is in the block.
LEMMA CapacityInBlock == IInv => 0..(cap - 1) \subseteq Slots
BY FreshSlack, VectorsAssumption DEF IInv, Block

\* A push leaves the elements where they are and adds one; it stays inside.
LEMMA PushEffect ==
  ASSUME IInv, NEW x \in Items, VecPush(x)
  PROVE  /\ IInv'
         /\ \A i \in 0..(len - 1) : data'[i] = data[i]
         /\ data'[len] = x
         /\ len' = len + 1
         /\ strayed' = strayed
<1> DEFINE block == IF len = cap THEN RoomFor(2 * cap) ELSE data
<1>1. /\ cap' = (IF len = cap THEN 2 * cap ELSE cap)
      /\ data' = [block EXCEPT ![len] = x]
      /\ strayed' = (strayed \/ len \notin DOMAIN block)
      /\ len' = len + 1 /\ answer' = answer
  BY DEF VecPush
<1>2. cap \in Nat \ {0} /\ len \in 0..cap /\ Capacity \in Nat \ {0} /\ cap >= Capacity
  BY VectorsAssumption DEF IInv
<1>3. /\ block = [i \in DOMAIN block |-> block[i]]
      /\ len \in DOMAIN block
      /\ \A i \in 0..(len - 1) : i \in DOMAIN block /\ block[i] = data[i]
      /\ DOMAIN block = Block'
  <2>1. CASE len = cap
    <3>1. block = [i \in 0..(2 * cap - 1) |-> IF i \in Slots THEN data[i] ELSE Junk]
      BY <2>1 DEF RoomFor
    <3>2. \A i \in 0..(len - 1) : i \in Slots /\ i \in 0..(2 * cap - 1)
      BY <1>2, <2>1, CapacityInBlock
    <3>3. Block' = 0..(2 * cap - 1)
      BY <1>1, <1>2, <2>1 DEF Block
    <3> QED
      BY <1>2, <2>1, <3>1, <3>2, <3>3
  <2>2. CASE len # cap
    <3>1. block = data /\ Block' = Block
      BY <1>1, <2>2 DEF Block
    <3>2. \A i \in 0..len : i \in Slots
      BY <1>2, <2>2, CapacityInBlock
    <3> QED
      BY <1>2, <3>1, <3>2 DEF IInv, Slots
  <2> QED
    BY <2>1, <2>2
<1> HIDE DEF block
<1>4. /\ DOMAIN data' = Block' /\ data' = [i \in DOMAIN data' |-> data'[i]]
      /\ data'[len] = x
      /\ \A i \in 0..(len - 1) : data'[i] = data[i]
  <2>1. data' = [block EXCEPT ![len] = x]
    BY <1>1
  <2>2. /\ DOMAIN data' = DOMAIN block /\ data'[len] = x
        /\ data' = [i \in DOMAIN block |-> data'[i]]
        /\ \A i \in DOMAIN block : i # len => data'[i] = block[i]
    BY <1>3, <2>1
  <2>3. \A i \in 0..(len - 1) : i # len
    BY <1>2
  <2> QED
    BY <1>3, <2>2, <2>3
<1>5. cap' \in Nat /\ cap' >= Capacity /\ len' \in 0..cap'
  BY <1>1, <1>2
<1>6. \A i \in 0..(len' - 1) : data'[i] \in Items
  <2>0. \A i \in 0..(len - 1) : data[i] \in Items
    BY DEF IInv
  <2> SUFFICES ASSUME NEW i \in 0..(len' - 1) PROVE data'[i] \in Items
    OBVIOUS
  <2>1. i \in 0..(len - 1) \/ i = len
    BY <1>1, <1>2
  <2> QED
    BY <2>0, <2>1, <1>4
<1>7. strayed' = strayed
  BY <1>1, <1>3 DEF IInv
<1>8. Slots' = Block' /\ data' = [i \in Slots' |-> data'[i]]
  BY <1>4 DEF Slots
<1>9. answer' \in Items \cup {Null} /\ strayed' \in BOOLEAN
  BY <1>1, <1>7 DEF IInv
<1>10. IInv'
  BY <1>5, <1>6, <1>8, <1>9 DEF IInv
<1> QED
  BY <1>1, <1>4, <1>7, <1>10

\* A pop answers the last element and leaves the others; outside the block it
\* only writes when the vector is full and has grown.
LEMMA PopEffect ==
  ASSUME IInv, VecPop
  PROVE  /\ IInv'
         /\ \A i \in 0..(len - 2) : data'[i] = data[i]
         /\ answer' = data[len - 1]
         /\ len > 0 /\ len' = len - 1
         /\ strayed' # strayed => len = cap /\ cap > Capacity
<1>1. /\ len > 0 /\ answer' = data[len - 1] /\ len' = len - 1 /\ cap' = cap
      /\ data' = [data EXCEPT ![len] = Null]
      /\ strayed' = (strayed \/ len \notin Slots)
  BY DEF VecPop
<1>2. cap \in Nat \ {0} /\ len \in 1..cap /\ Capacity \in Nat \ {0} /\ cap >= Capacity
  BY <1>1, VectorsAssumption DEF IInv
<1>3. /\ DOMAIN data' = DOMAIN data /\ data' = [i \in DOMAIN data' |-> data'[i]]
      /\ \A i \in DOMAIN data : i # len => data'[i] = data[i]
  BY <1>1 DEF IInv, Slots
<1>4. \A i \in 0..(len - 1) : i \in DOMAIN data /\ i # len
  BY <1>2, CapacityInBlock DEF Slots
<1>5. \A i \in 0..(len - 2) : i \in 0..(len - 1)
  BY <1>2
<1>6. len \notin Slots => len = cap /\ cap > Capacity
  <2> SUFFICES ASSUME len \notin Slots PROVE len = cap /\ cap > Capacity
    OBVIOUS
  <2>1. len = cap
    BY <1>2, CapacityInBlock
  <2>2. ASSUME cap = Capacity PROVE FALSE
    <3>1. Slots = 0..(Capacity * NodeWords - 1) /\ Capacity * NodeWords \in Nat
      BY <2>2, VectorsAssumption DEF IInv, Block
    <3> QED
      BY <1>2, <2>1, <2>2, <3>1, FreshSlack
  <2> QED
    BY <1>2, <2>1, <2>2
<1>7. answer' \in Items
  <2>1. \A i \in 0..(len - 1) : data[i] \in Items
    BY DEF IInv
  <2> QED
    BY <1>1, <1>2, <2>1
<1>8. \A i \in 0..(len' - 1) : data'[i] \in Items
  BY <1>1, <1>3, <1>4, <1>5 DEF IInv
<1>9. len' \in 0..cap' /\ Block' = Block
  BY <1>1, <1>2 DEF Block
<1>10. Slots' = Block' /\ data' = [i \in Slots' |-> data'[i]]
  BY <1>3, <1>9 DEF Slots, IInv
<1>11. cap' \in Nat /\ cap' >= Capacity /\ strayed' \in BOOLEAN
  BY <1>1, <1>2 DEF IInv
<1>12. IInv'
  BY <1>7, <1>8, <1>9, <1>10, <1>11 DEF IInv
<1>13. \A i \in 0..(len - 2) : data'[i] = data[i]
  BY <1>3, <1>4, <1>5
<1>14. strayed' # strayed => len \notin Slots
  BY <1>1 DEF IInv
<1> QED
  BY <1>1, <1>6, <1>12, <1>13, <1>14

\* Asking for an element changes none, and answers Null outside the length.
LEMMA AtEffect ==
  ASSUME IInv, NEW idx \in Int, VecAt(idx)
  PROVE  /\ IInv' /\ len' = len /\ data' = data /\ strayed' = strayed
         /\ answer' = IF idx \in 0..(len - 1) THEN data[idx] ELSE Null
<1>1. /\ answer' = (IF idx < 0 \/ len <= idx THEN Null ELSE data[idx])
      /\ len' = len /\ cap' = cap /\ data' = data /\ strayed' = strayed
  BY DEF VecAt
<1>2. len \in Nat /\ \A i \in 0..(len - 1) : data[i] \in Items
  <2>1. cap \in Nat /\ len \in 0..cap
    BY DEF IInv
  <2> QED
    BY <2>1 DEF IInv
<1>3. answer' = IF idx \in 0..(len - 1) THEN data[idx] ELSE Null
  BY <1>1, <1>2
<1>4. answer' \in Items \cup {Null}
  BY <1>2, <1>3
<1> QED
  BY <1>1, <1>3, <1>4 DEF IInv, Slots, Block

\* The invariant is inductive.
LEMMA StepIInv == IInv /\ [Next]_vars => IInv'
<1> SUFFICES ASSUME IInv, [Next]_vars PROVE IInv'
  OBVIOUS
<1>1. ASSUME NEW x \in Items, VecPush(x) PROVE IInv'
  BY <1>1, PushEffect
<1>2. CASE VecPop
  BY <1>2, PopEffect
<1>3. CASE VecPopEmpty
  BY <1>3 DEF VecPopEmpty, IInv, Slots, Block
<1>4. ASSUME NEW idx \in Positions, VecAt(idx) PROVE IInv'
  BY <1>4, AtEffect, VectorsAssumption DEF Positions
<1>5. CASE UNCHANGED vars
  BY <1>5 DEF vars, IInv, Slots, Block
<1> QED
  BY <1>1, <1>2, <1>3, <1>4, <1>5 DEF Next

\* The invariant holds of every vector, however it has been used.
THEOREM Invariance == Spec => []IInv
BY InitIInv, StepIInv, PTL DEF Spec

\* The length stays within the capacity, the capacity within the block, and what
\* is answered is an item or Null.
THEOREM TypeCorrect == Spec => []TypeOK
<1>1. IInv => TypeOK
  BY CapacityInBlock DEF IInv, TypeOK
<1> QED
  BY <1>1, Invariance, PTL

\* Only a vec_pop of a full vector that has grown writes outside its block.
THEOREM Strays == Spec => StraysOnlyWhenFull
<1>1. IInv /\ [Next]_vars =>
        [strayed' # strayed => len' < len /\ len = cap /\ cap > Capacity]_vars
  <2> SUFFICES ASSUME IInv, Next, strayed' # strayed
               PROVE  len' < len /\ len = cap /\ cap > Capacity
    BY DEF vars
  <2>1. len \in Nat
    <3>1. cap \in Nat /\ len \in 0..cap
      BY DEF IInv
    <3> QED
      BY <3>1
  <2>2. ASSUME NEW x \in Items, VecPush(x) PROVE FALSE
    BY <2>2, PushEffect
  <2>3. CASE VecPop
    <3>1. len' = len - 1 /\ len = cap /\ cap > Capacity
      BY <2>3, PopEffect
    <3> QED
      BY <2>1, <3>1
  <2>4. ~VecPopEmpty
    BY DEF VecPopEmpty
  <2>5. ASSUME NEW idx \in Positions, VecAt(idx) PROVE FALSE
    BY <2>5 DEF VecAt
  <2> QED
    BY <2>2, <2>3, <2>4, <2>5 DEF Next
<1> QED
  BY <1>1, Invariance, PTL DEF Spec, StraysOnlyWhenFull

-----------------------------------------------------------------------------
(* The vector implements the stack.                                        *)

\* What a vector holds, in a block d with n elements.
Holds(d, n) == [i \in 1..n |-> d[i - 1]]

\* It is a sequence of items.
LEMMA HoldsSeq ==
  ASSUME NEW d, NEW n \in Nat, \A i \in 0..(n - 1) : d[i] \in Items
  PROVE  /\ Holds(d, n) \in Seq(Items) /\ Len(Holds(d, n)) = n
         /\ \A i \in 1..n : Holds(d, n)[i] = d[i - 1]
<1>1. \A i \in 1..n : i - 1 \in 0..(n - 1)
  OBVIOUS
<1>2. Holds(d, n) \in [1..n -> Items]
  BY <1>1 DEF Holds
<1>3. Holds(d, n) \in Seq(Items)
  BY <1>2
<1> QED
  BY <1>3, LenProperties DEF Holds

\* Writing behind the elements appends.
LEMMA HoldsAppend ==
  ASSUME NEW d, NEW e, NEW n \in Nat, NEW x \in Items,
         \A i \in 0..(n - 1) : d[i] \in Items /\ e[i] = d[i], e[n] = x
  PROVE  Holds(e, n + 1) = Append(Holds(d, n), x)
<1>1. \A i \in 0..(n + 1 - 1) : e[i] \in Items
  <2> SUFFICES ASSUME NEW i \in 0..(n + 1 - 1) PROVE e[i] \in Items
    OBVIOUS
  <2>1. i \in 0..(n - 1) \/ i = n
    OBVIOUS
  <2> QED
    BY <2>1
<1>2. /\ Holds(e, n + 1) \in Seq(Items) /\ Len(Holds(e, n + 1)) = n + 1
      /\ \A i \in 1..(n + 1) : Holds(e, n + 1)[i] = e[i - 1]
  BY <1>1, HoldsSeq, n + 1 \in Nat
<1>3. /\ Holds(d, n) \in Seq(Items) /\ Len(Holds(d, n)) = n
      /\ \A i \in 1..n : Holds(d, n)[i] = d[i - 1]
  BY HoldsSeq
<1>4. /\ Append(Holds(d, n), x) \in Seq(Items) /\ Len(Append(Holds(d, n), x)) = n + 1
      /\ \A i \in 1..n : Append(Holds(d, n), x)[i] = Holds(d, n)[i]
      /\ Append(Holds(d, n), x)[n + 1] = x
  BY <1>3, AppendProperties
<1>5. ASSUME NEW i \in 1..(n + 1)
      PROVE  Holds(e, n + 1)[i] = Append(Holds(d, n), x)[i]
  <2>1. CASE i = n + 1
    BY <1>2, <1>4, <2>1
  <2>2. CASE i # n + 1
    <3>1. i \in 1..n /\ i - 1 \in 0..(n - 1)
      BY <2>2
    <3> QED
      BY <1>2, <1>3, <1>4, <3>1
  <2> QED
    BY <2>1, <2>2
<1> QED
  BY <1>2, <1>4, <1>5, SeqEqual

\* A length lowered by one takes the last element off.
LEMMA HoldsFront ==
  ASSUME NEW d, NEW e, NEW n \in Nat \ {0},
         \A i \in 0..(n - 1) : d[i] \in Items, \A i \in 0..(n - 2) : e[i] = d[i]
  PROVE  /\ Holds(e, n - 1) = Seen!Front(Holds(d, n))
         /\ Seen!Last(Holds(d, n)) = d[n - 1]
         /\ Holds(d, n) # <<>>
<1>1. /\ Holds(d, n) \in Seq(Items) /\ Len(Holds(d, n)) = n
      /\ \A i \in 1..n : Holds(d, n)[i] = d[i - 1]
  BY HoldsSeq
<1>2. \A i \in 0..(n - 1 - 1) : e[i] = d[i] /\ e[i] \in Items
  OBVIOUS
<1>3. /\ Holds(e, n - 1) \in Seq(Items) /\ Len(Holds(e, n - 1)) = n - 1
      /\ \A i \in 1..(n - 1) : Holds(e, n - 1)[i] = e[i - 1]
  BY <1>2, HoldsSeq, n - 1 \in Nat
<1> DEFINE f == SubSeq(Holds(d, n), 1, n - 1)
<1>4. f \in Seq(Items) /\ Len(f) = n - 1 /\ \A i \in 1..(n - 1) : f[i] = Holds(d, n)[i]
  <2>1. CASE n = 1
    BY <1>1, <2>1, SubSeqProperties
  <2>2. CASE n # 1
    BY <1>1, <2>2, SubSeqProperties
  <2> QED
    BY <2>1, <2>2
<1> HIDE DEF f
<1>5. \A i \in 1..(n - 1) : f[i] = Holds(e, n - 1)[i]
  BY <1>1, <1>2, <1>3, <1>4
<1>6. Holds(e, n - 1) = f
  BY <1>3, <1>4, <1>5, SeqEqual
<1>7. Holds(d, n) # <<>>
  BY <1>1, EmptySeq
<1> QED
  BY <1>1, <1>6, <1>7 DEF Seen!Front, Seen!Last, f

\* A new vector is the empty stack.
LEMMA InitStack == Init => Seen!Init
<1> SUFFICES ASSUME Init PROVE Seen!Init
  OBVIOUS
<1>1. len = 0 /\ answer = Null
  BY DEF Init
<1>2. Holds(data, len) \in Seq(Items) /\ Len(Holds(data, len)) = 0
  BY <1>1, HoldsSeq
<1>3. Holds(data, len) = <<>>
  BY <1>2, EmptySeq
<1> QED
  BY <1>1, <1>3 DEF Seen!Init, Holds

\* Each operation does what the stack's does.
LEMMA StepStack == IInv /\ [Next]_vars => [Seen!Next]_(Seen!vars)
<1> SUFFICES ASSUME IInv, [Next]_vars PROVE [Seen!Next]_(Seen!vars)
  OBVIOUS
<1> DEFINE items == Holds(data, len)
<1>1. len \in Nat /\ \A i \in 0..(len - 1) : data[i] \in Items
  <2>1. cap \in Nat /\ len \in 0..cap
    BY DEF IInv
  <2> QED
    BY <2>1 DEF IInv
<1>2. /\ items \in Seq(Items) /\ Len(items) = len
      /\ \A i \in 1..len : items[i] = data[i - 1]
  BY <1>1, HoldsSeq
<1>3. ASSUME NEW x \in Items, VecPush(x) PROVE Seen!Push(x)
  <2>1. /\ \A i \in 0..(len - 1) : data'[i] = data[i]
        /\ data'[len] = x /\ len' = len + 1
    BY <1>3, PushEffect
  <2>2. items' = Append(items, x)
    BY <1>1, <2>1, HoldsAppend
  <2>3. answer' = answer
    BY <1>3 DEF VecPush
  <2> QED
    BY <2>2, <2>3 DEF Seen!Push, Holds
<1>4. CASE VecPop
  <2>1. /\ \A i \in 0..(len - 2) : data'[i] = data[i]
        /\ answer' = data[len - 1] /\ len > 0 /\ len' = len - 1
    BY <1>4, PopEffect
  <2>2. /\ items' = Seen!Front(items) /\ Seen!Last(items) = data[len - 1]
        /\ items # <<>>
    <3>1. len \in Nat \ {0}
      BY <1>1, <2>1
    <3>2. /\ Holds(data', len - 1) = Seen!Front(Holds(data, len))
          /\ Seen!Last(Holds(data, len)) = data[len - 1]
          /\ Holds(data, len) # <<>>
      BY <1>1, <2>1, <3>1, HoldsFront
    <3>3. items' = Holds(data', len - 1)
      BY <2>1
    <3> QED
      BY <3>2, <3>3
  <2>3. Seen!Pop
    BY <2>1, <2>2 DEF Seen!Pop, Holds
  <2> QED
    BY <2>3 DEF Seen!Next
<1>5. CASE VecPopEmpty
  <2>1. len = 0 /\ answer' = Null /\ len' = len /\ data' = data
    BY <1>5 DEF VecPopEmpty
  <2>2. items = <<>> /\ items' = items
    BY <1>2, <2>1, EmptySeq
  <2>3. Seen!Pop
    BY <2>1, <2>2 DEF Seen!Pop, Holds
  <2> QED
    BY <2>3 DEF Seen!Next
<1>6. ASSUME NEW idx \in Positions, VecAt(idx) PROVE Seen!At(idx)
  <2>1. idx \in Int
    BY VectorsAssumption DEF Positions
  <2>2. /\ len' = len /\ data' = data
        /\ answer' = IF idx \in 0..(len - 1) THEN data[idx] ELSE Null
    BY <1>6, <2>1, AtEffect
  <2>3. DOMAIN items = 1..len
    BY DEF Holds
  <2>4. answer' = IF idx + 1 \in DOMAIN items THEN items[idx + 1] ELSE Null
    <3>1. CASE idx \in 0..(len - 1)
      <4>1. idx + 1 \in 1..len /\ idx + 1 - 1 = idx
        BY <1>1, <2>1, <3>1
      <4> QED
        BY <1>2, <2>2, <2>3, <3>1, <4>1
    <3>2. CASE idx \notin 0..(len - 1)
      BY <1>1, <2>1, <2>2, <2>3, <3>2
    <3> QED
      BY <3>1, <3>2
  <2>5. items' = items
    BY <2>2
  <2> QED
    BY <2>4, <2>5 DEF Seen!At, Holds
<1>7. CASE UNCHANGED vars
  BY <1>7 DEF vars, Seen!vars
<1>8. (\E x \in Items : VecPush(x)) => Seen!Next
  BY <1>3 DEF Seen!Next
<1>9. (\E idx \in Positions : VecAt(idx)) => Seen!Next
  BY <1>6 DEF Seen!Next
<1> QED
  BY <1>4, <1>5, <1>7, <1>8, <1>9 DEF Next

\* A vector is a stack: growing, moving the block and clearing slots change
\* nothing it holds, and no undefined slot is ever answered.
THEOREM Refinement == Spec => ImplementsStack
BY InitStack, StepStack, Invariance, PTL DEF Spec, ImplementsStack, Seen!Spec
=============================================================================
