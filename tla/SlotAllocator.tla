---------------------------- MODULE SlotAllocator ----------------------------
(***************************************************************************)
(* What the semantic pass promises the code generator about a stack frame, *)
(* with no scopes, statements or labels in it: storage is granted in slots *)
(* that never overlap while they are live, a granted slot never moves, and *)
(* the frame only grows while a function is analysed, so that its final    *)
(* size covers every slot ever granted.  SemaFunc implements it.           *)
(***************************************************************************)
EXTENDS Integers

VARIABLES live,    \* the granted slots: records [owner, low, high], bytes low+1 .. high below rbp
          frame    \* the frame size promised so far for the current function

vars == <<live, frame>>

-----------------------------------------------------------------------------

Apart(s, t) == s.high <= t.low \/ t.high <= s.low

NoOverlap(slots) == \A s, t \in slots : s # t => Apart(s, t)

InFrame(slots, size) == \A s \in slots : 0 <= s.low /\ s.high <= size

Init == live = {} /\ frame = 0

\* A new function starts with the slots of its parameters.
Begin == /\ live = {}
         /\ NoOverlap(live')
         /\ InFrame(live', frame')

\* More slots are granted; those already live stay where they are.
Grant == /\ live \subseteq live'
         /\ NoOverlap(live')
         /\ frame <= frame'
         /\ InFrame(live', frame')

\* Some slots die; the frame keeps the size they needed.
Release == /\ live' \subseteq live
           /\ frame' = frame

Next == Begin \/ Grant \/ Release

Spec == Init /\ [][Next]_vars

=============================================================================
