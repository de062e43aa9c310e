------------------------------- MODULE Vectors -------------------------------
(***************************************************************************)
(* A vector of containers.c in memory: its length, its capacity and the    *)
(* slots of its block, which realloc may leave undefined.                  *)
(***************************************************************************)
EXTENDS Integers, Sequences

CONSTANTS Items, Null,
          Junk,        \* what a slot holds that nothing was written to
          Capacity,    \* of a new vector
          NodeWords,   \* slots vec_new allocates for every slot of capacity
          MaxLen       \* bound of the instance

ASSUME VectorsAssumption ==
  /\ Capacity \in Nat \ {0} /\ NodeWords \in Nat \ {0, 1} /\ MaxLen \in Nat
  /\ Null \notin Items /\ Junk \notin Items \cup {Null}

VARIABLES len, cap,
          data,     \* the slots of the block, numbered from 0
          answer,   \* what the last vec_pop or vec_at returned
          strayed   \* a write has gone outside the block

vars == <<len, cap, data, answer, strayed>>

Positions == -1..MaxLen

Slots == DOMAIN data

Init == /\ len = 0 /\ cap = Capacity
        /\ data = [i \in 0..(Capacity * NodeWords - 1) |-> Null]
        /\ answer = Null
        /\ strayed = FALSE

\* Mutant: realloc gets the old capacity.
RoomForNoGrowth(n) == data

\* realloc keeps the slots that fit and defines no new one.
RoomFor(n) == [i \in 0..(n - 1) |-> IF i \in Slots THEN data[i] ELSE Junk]

VecPush(x) ==
  LET full == len = cap
      block == IF full THEN RoomFor(2 * cap) ELSE data
  IN  /\ len < MaxLen
      /\ cap' = IF full THEN 2 * cap ELSE cap
      /\ data' = [block EXCEPT ![len] = x]
      /\ strayed' = (strayed \/ len \notin DOMAIN block)
      /\ len' = len + 1
      /\ UNCHANGED answer

\* Mutant: the slot is cleared before it is read.
VecPopCleared == /\ len > 0
                 /\ len' = len - 1
                 /\ data' = [data EXCEPT ![len - 1] = Null]
                 /\ answer' = data'[len - 1]
                 /\ UNCHANGED <<cap, strayed>>

\* The slot that is cleared is the one behind the element returned.
VecPop == /\ len > 0
          /\ answer' = data[len - 1]
          /\ data' = [data EXCEPT ![len] = Null]
          /\ strayed' = (strayed \/ len \notin Slots)
          /\ len' = len - 1
          /\ UNCHANGED cap

VecPopEmpty == /\ len = 0
               /\ answer' = Null
               /\ UNCHANGED <<len, cap, data, strayed>>

\* Mutant: the capacity is taken for the length.
VecAtCap(idx) == /\ answer' = IF idx < 0 \/ cap <= idx THEN Null ELSE data[idx]
                 /\ UNCHANGED <<len, cap, data, strayed>>

VecAt(idx) == /\ answer' = IF idx < 0 \/ len <= idx THEN Null ELSE data[idx]
              /\ UNCHANGED <<len, cap, data, strayed>>

Next == \/ \E x \in Items : VecPush(x)
        \/ VecPop \/ VecPopEmpty
        \/ \E idx \in Positions : VecAt(idx)

Spec == Init /\ [][Next]_vars

-----------------------------------------------------------------------------

\* The capacity is that of the block or less, and never exceeded.
TypeOK == /\ cap \in Nat /\ len \in 0..cap
          /\ 0..(cap - 1) \subseteq Slots
          /\ answer \in Items \cup {Null}
          /\ strayed \in BOOLEAN

Seen == INSTANCE Stack WITH items <- [i \in 1..len |-> data[i - 1]]

\* The vector implements the stack: nothing it holds changes when the block is
\* moved or a slot is cleared, and no undefined slot is ever answered.
ImplementsStack == Seen!Spec

\* Only a vec_pop of a vector that has grown and is full writes outside its block.
StraysOnlyWhenFull ==
  [][strayed' # strayed => len' < len /\ len = cap /\ cap > Capacity]_vars

-----------------------------------------------------------------------------
(* What makes them inductive: the block has a slot for all of the capacity  *)
(* and for no more once the vector has grown, and what is below the length  *)
(* was pushed.                                                              *)

Block == IF cap = Capacity THEN 0..(Capacity * NodeWords - 1) ELSE 0..(cap - 1)

IInv == /\ cap \in Nat /\ cap >= Capacity
        /\ len \in 0..cap
        /\ Slots = Block
        /\ data = [i \in Slots |-> data[i]]
        /\ \A i \in 0..(len - 1) : data[i] \in Items
        /\ answer \in Items \cup {Null}
        /\ strayed \in BOOLEAN
=============================================================================
