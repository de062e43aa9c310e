-------------------------------- MODULE Stack --------------------------------
(***************************************************************************)
(* What a vector promises its users (the lists of break and continue       *)
(* labels, the maps and lists of the other passes): a sequence that grows  *)
(* and shrinks at its end and answers Null where it has nothing.           *)
(***************************************************************************)
EXTENDS Integers, SequencesExt

CONSTANTS Items, Null,
          Positions    \* what may be asked for, counting from zero

VARIABLES items, answer

vars == <<items, answer>>

Init == items = <<>> /\ answer = Null

Push(x) == items' = Append(items, x) /\ UNCHANGED answer

Pop == IF items = <<>> THEN answer' = Null /\ UNCHANGED items
       ELSE answer' = Last(items) /\ items' = Front(items)

At(idx) == /\ answer' = IF idx + 1 \in DOMAIN items THEN items[idx + 1] ELSE Null
           /\ UNCHANGED items

Next == (\E x \in Items : Push(x)) \/ Pop \/ (\E idx \in Positions : At(idx))

Spec == Init /\ [][Next]_vars
=============================================================================
