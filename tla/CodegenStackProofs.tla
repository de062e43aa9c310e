------------------------- MODULE CodegenStackProofs -------------------------
(***************************************************************************)
(* Proofs about CodegenStack, for trees of any size and nesting and every  *)
(* bound of the instance: the stack discipline of the emitted code, the    *)
(* labels, and the agreement of rax with the stack where it is tested.     *)
(***************************************************************************)
EXTENDS CodegenStack, SequenceTheorems, FunctionTheorems, FiniteSetTheorems, TLAPS

-----------------------------------------------------------------------------
(* What the emission of one node does, step by step.                       *)

\* The labels behind which the value of an expression is on the stack and in
\* rax; behind every other label there is nothing of the node on the stack.
Valued(l) == l.base \in {"Land", "Lor"} \/ (l.base = "cond" /\ l.suffix = "_end")

LabelHeight(l) == IF Valued(l) THEN Word ELSE 0

\* A label is reached at its height, h being the bytes the node has on the stack
\* and g whether rax and the word at rsp are zero together.
LabelAt(l, h, g) == h = LabelHeight(l) /\ (Valued(l) => g)

\* A step from height h, with d of it in stack_depth, to height hh and dd.  Nothing
\* is asked of the height behind a jump, where only a label makes code reachable.
StepOK(kind, s, h, d, g, hh, dd, gg) ==
  \/ s.op \in {"expr", "lval", "push"} /\ hh = h + Word /\ dd = d
  \/ s.op \in {"stmt", "init"} /\ kind = "stmt" /\ h = 0 /\ hh = 0 /\ d = 0 /\ dd = 0 /\ ~gg
  \/ s.op = "pop" /\ hh = h - Word /\ dd = d /\ ~gg
  \/ s.op \in {"one", "top"} /\ hh = h /\ dd = d
  \/ s.op = "other" /\ hh = h /\ dd = d /\ ~gg
  \/ s.op = "call" /\ h = 0 /\ d = 0 /\ hh = 0 /\ dd = 0 /\ ~gg
  \/ s.op \in {"test", "load"} /\ g /\ hh = h /\ dd = d
  \/ s.op \in {"use", "pass", "number"} /\ hh = h /\ dd = d /\ (gg => g)
  \/ s.op = "track" /\ hh = h /\ dd = d + Word /\ (gg => g)
  \/ s.op = "untrack" /\ hh = h /\ dd = d - Word /\ (gg => g)
  \/ s.op = "jumpif" /\ hh = h /\ dd = d /\ (gg => g) /\ LabelAt(s.label, h, g)
  \/ s.op = "jump" /\ dd = d /\ (s.label.base # "f" => LabelAt(s.label, h, g))
  \/ s.op = "place" /\ hh = h /\ dd = d /\ (gg => Valued(s.label)) /\ LabelAt(s.label, h, g)

\* The steps that generate a child.
Children == {"expr", "lval", "stmt", "init"}

\* A child is generated with the words on the stack that stack_depth includes and those
\* held for the node.
ChildAt(steps, k, h, d) == steps[k].op \in Children => h = d + Word * Cardinality(Held(steps, k))

Net(kind) == IF kind = "stmt" THEN 0 ELSE Word

\* Heights before each step of a node's emission and behind the last, and the places
\* where rax and the word at rsp are zero together: from nothing to the value of an
\* expression, or to nothing again.
Plans(kind, steps, p) ==
  LET n == Len(steps)
  IN  /\ p.h \in [1..(n + 1) -> Nat] /\ p.d \in [1..(n + 1) -> Nat]
      /\ p.h[1] = 0 /\ p.d[1] = 0 /\ 1 \notin p.g
      /\ p.h[n + 1] = Net(kind) /\ p.d[n + 1] = 0 /\ (kind # "stmt" => n + 1 \in p.g)
      /\ \A k \in 1..n : StepOK(kind, steps[k], p.h[k], p.d[k], k \in p.g,
                                p.h[k + 1], p.d[k + 1], k + 1 \in p.g)
      /\ \A k \in 1..n : ChildAt(steps, k, p.h[k], p.d[k])

Planned(kind, steps) == \E p : Plans(kind, steps, p)

Plan(c) == CHOOSE p : Plans(c.kind, c.steps, p)

-----------------------------------------------------------------------------
(* The inductive invariant.                                                *)

\* The label bases numbered by label_num, and those numbered by the semantic pass.
Counted == {"cond", "Land", "Lor", "end_if", "else"}
Titled == {"while", "dowhile", "for", "switch", "case", "default"}

LabelSuffixes == {"none", "_else", "_end", "_true", "_return", "_cont"}
Ops == {"expr", "lval", "stmt", "init", "push", "pop", "one", "top", "other", "test", "use", "load",
        "track", "untrack", "call", "number", "pass", "jumpif", "jump", "place"}

LabelT == [base : Counted \cup Titled \cup {"f", "none"}, suffix : LabelSuffixes, num : Nat]
StepT == [op : Ops, label : LabelT]
CallT == [kind : {"stmt", "expr", "lval"}, steps : Seq(StepT), pc : Nat,
          base : Nat \cup {Dead}, depth : Nat, breaks : LabelT, continues : LabelT]

Jumps(s) == s.op \in {"jump", "jumpif"}

Owns(c, l) == \E k \in DOMAIN c.steps : c.steps[k] = Place(l)

\* The number of a label has been given out.
Known(l) == (l.base \in Counted => l.num < label_num) /\ (l.base \in Titled => l.num < names)

CallsOK ==
  /\ calls \in Seq(CallT)
  /\ calls # <<>> => phase = "body" /\ calls[1].kind = "stmt"
  /\ phase = "body" => todo > 0
  /\ \A i \in DOMAIN calls : Planned(calls[i].kind, calls[i].steps)

\* Every call was made at a step of the call around it that asks for one of its
\* kind, with the stack and stack_depth at the heights of that step.
Nested ==
  /\ \A i \in 1..(Len(calls) - 1) :
       LET c == calls[i]
           e == calls[i + 1]
           k == c.pc - 1
       IN  /\ k \in DOMAIN c.steps
           /\ e.kind = IF c.steps[k].op \in {"stmt", "init"} THEN "stmt" ELSE c.steps[k].op
           /\ e.base # Dead => c.base # Dead /\ e.base = c.base + Plan(c).h[k]
           /\ e.depth = c.depth + Plan(c).d[k]
  /\ \A i, j \in DOMAIN calls : i < j /\ calls[j].base # Dead =>
       calls[i].base # Dead /\ calls[i].base <= calls[j].base
  /\ \A i \in DOMAIN calls : calls[i].kind = "stmt" =>
       calls[i].base \in {Dead, offset} /\ calls[i].depth = offset

\* Where the emitted code stands.
Here ==
  IF calls = <<>> THEN phase = "body" => rsp \in {Dead, offset}
  ELSE LET c == Last(calls)
           p == Plan(c)
       IN  /\ rsp # Dead => /\ c.base # Dead /\ rsp = c.base + p.h[c.pc]
                            /\ c.pc \in p.g => agrees # "no"
           /\ stack_depth = c.depth + p.d[c.pc]

\* The labels a node places are its own; its jumps go to them, to the end of the
\* function, or to where a loop or switch around it puts break and continue.
StepLabels ==
  \A i \in DOMAIN calls : \A k \in DOMAIN calls[i].steps :
    LET s == calls[i].steps[k]
    IN  /\ Jumps(s) \/ s.op = "place" <=> s.label # NoLabel
        /\ Known(s.label)
        /\ s.op = "place" => s.label.base \in Counted \cup Titled
        /\ Jumps(s) => s.label = ReturnLabel \/ \E j \in 1..i : Owns(calls[j], s.label)

LabelsOwned ==
  /\ \A i, j \in DOMAIN calls : \A l \in LabelT :
       i # j /\ Owns(calls[i], l) /\ Names(calls[j], l) =>
         i < j /\ calls[i].kind = "stmt" /\ calls[j].kind = "stmt"
  /\ \A i \in DOMAIN calls : \A k, m \in DOMAIN calls[i].steps :
       LET s == calls[i].steps
       IN  s[k].op = "place" /\ s[m].op = "place" /\ s[k].label = s[m].label => k = m
  /\ \A i \in DOMAIN calls : \A l \in {calls[i].breaks, calls[i].continues} :
       l # NoLabel => calls[i].kind = "stmt" /\ l.base \in Titled /\ Owns(calls[i], l)

\* A jump that has been emitted goes to a label of an active call, and found the
\* stack where that call expects it.
Lands(a) ==
  /\ a \in [label : LabelT, rsp : Nat, agrees : {"no", "truth", "same"}]
  /\ Valued(a.label) => a.agrees # "no"
  /\ \E i \in DOMAIN calls : Owns(calls[i], a.label)
  /\ \A i \in DOMAIN calls : Owns(calls[i], a.label) =>
       calls[i].base # Dead /\ a.rsp = calls[i].base + LabelHeight(a.label)

ArrivalsOK == \A a \in arrivals : Lands(a)

\* What a call has placed are the labels behind it, and not one of those ahead.
PlacedOK ==
  /\ placed \subseteq LabelT
  /\ \A l \in placed : Known(l)
  /\ \A i \in DOMAIN calls : \A k \in DOMAIN calls[i].steps :
       calls[i].steps[k].op = "place" => (calls[i].steps[k].label \in placed <=> k < calls[i].pc)

IInv == /\ TypeOK /\ CallsOK /\ Nested /\ Here
        /\ StepLabels /\ LabelsOwned /\ ArrivalsOK /\ PlacedOK

-----------------------------------------------------------------------------
(* The emission of every node has a plan.                                  *)

LEMMA PlanMade ==
  ASSUME NEW kind, NEW steps, NEW n \in Nat, Len(steps) = n,
         NEW h \in [1..(n + 1) -> Nat], NEW d \in [1..(n + 1) -> Nat], NEW g,
         h[1] = 0, d[1] = 0, 1 \notin g,
         h[n + 1] = Net(kind), d[n + 1] = 0, kind # "stmt" => n + 1 \in g,
         \A k \in 1..n : StepOK(kind, steps[k], h[k], d[k], k \in g,
                                h[k + 1], d[k + 1], k + 1 \in g),
         \A k \in 1..n : ChildAt(steps, k, h[k], d[k])
  PROVE  Planned(kind, steps)
<1> DEFINE p == [h |-> h, d |-> d, g |-> g]
<1>1. Plans(kind, steps, p)
  BY DEF Plans
<1> QED
  BY <1>1 DEF Planned

\* A node that holds nothing generates its children with stack_depth true.
LEMMA EvenChildren ==
  ASSUME NEW steps, ~Holding(steps), NEW n \in Nat, NEW h \in [1..(n + 1) -> Nat], NEW d,
         \A k \in 1..n : steps[k].op \in Children => h[k] = d[k]
  PROVE  \A k \in 1..n : ChildAt(steps, k, h[k], d[k])
<1> SUFFICES ASSUME NEW k \in 1..n, steps[k].op \in Children
             PROVE  h[k] = d[k] + Word * Cardinality(Held(steps, k))
  BY DEF ChildAt
<1>1. Held(steps, k) = {}
  BY DEF Held
<1>2. Cardinality(Held(steps, k)) = 0
  BY <1>1, FS_EmptySet
<1>3. k \in 1..(n + 1)
  OBVIOUS
<1>4. h[k] \in Nat /\ h[k] = d[k]
  BY <1>3
<1> QED
  BY <1>2, <1>4 DEF Word

\* A node that holds its first child's word while the second is generated.
LEMMA SecondOfTwo ==
  ASSUME NEW steps, Holding(steps), steps[1] \in {Expr, Lval},
         NEW n \in Nat, \A k \in 1..n : steps[k].op \in Children => k \in {1, 2},
         NEW h, NEW d, h[1] = 0, d[1] = 0, h[2] = Word, d[2] = 0
  PROVE  \A k \in 1..n : ChildAt(steps, k, h[k], d[k])
<1>1. Held(steps, 1) = {}
  BY DEF Held
<1>2. Held(steps, 2) = {1}
  BY DEF Held
<1>3. Cardinality(Held(steps, 1)) = 0 /\ Cardinality(Held(steps, 2)) = 1
  BY <1>1, <1>2, FS_EmptySet, FS_Singleton
<1>4. \A k \in {1, 2} : h[k] = d[k] + Word * Cardinality(Held(steps, k))
  BY <1>3 DEF Word
<1> QED
  BY <1>4 DEF ChildAt

\* Lvalues.
LEMMA LvalPlans ==
  \A steps \in Lvals : Planned("lval", steps)
<1>1. Planned("lval", Leaf)
  <2> DEFINE h == <<0, 8>>
             d == <<0, 0>>
             g == {2}
  <2>1. /\ Len(Leaf) = 1 /\ h \in [1..(1 + 1) -> Nat] /\ d \in [1..(1 + 1) -> Nat]
        /\ h[1] = 0 /\ d[1] = 0 /\ 1 \notin g
        /\ h[1 + 1] = Net("lval") /\ d[1 + 1] = 0 /\ 1 + 1 \in g
    BY DEF Leaf, Net, Word
  <2>2. \A k \in 1..1 : StepOK("lval", Leaf[k], h[k], d[k], k \in g,
                               h[k + 1], d[k + 1], k + 1 \in g)
    BY DEF Leaf, StepOK, Word, Step, Push
  <2>3. ~Holding(Leaf)
    BY DEF Leaf, Step, Push, Call, Expr, Pop, Top, Lval, Holding, Contains, Binary, BinaryAssign
  <2>4. \A k \in 1..1 : Leaf[k].op \in Children => h[k] = d[k]
    BY DEF Leaf, Step, Push, Children
  <2> HIDE DEF h, d, g
  <2>5. \A k \in 1..1 : ChildAt(Leaf, k, h[k], d[k])
    BY <2>1, <2>3, <2>4, EvenChildren
  <2> QED
    BY <2>1, <2>2, <2>5, PlanMade
<1>2. Planned("lval", LvalDeref)
  <2> DEFINE h == <<0, 8>>
             d == <<0, 0>>
             g == {2}
  <2>1. /\ Len(LvalDeref) = 1 /\ h \in [1..(1 + 1) -> Nat] /\ d \in [1..(1 + 1) -> Nat]
        /\ h[1] = 0 /\ d[1] = 0 /\ 1 \notin g
        /\ h[1 + 1] = Net("lval") /\ d[1 + 1] = 0 /\ 1 + 1 \in g
    BY DEF LvalDeref, Net, Word
  <2>2. \A k \in 1..1 : StepOK("lval", LvalDeref[k], h[k], d[k], k \in g,
                               h[k + 1], d[k + 1], k + 1 \in g)
    BY DEF LvalDeref, StepOK, Word, Step, Expr
  <2>3. ~Holding(LvalDeref)
    BY DEF LvalDeref, Step, Expr, Call, Pop, Top, Lval, Holding, Contains, Binary, BinaryAssign
  <2>4. \A k \in 1..1 : LvalDeref[k].op \in Children => h[k] = d[k]
    BY DEF LvalDeref, Step, Expr, Children
  <2> HIDE DEF h, d, g
  <2>5. \A k \in 1..1 : ChildAt(LvalDeref, k, h[k], d[k])
    BY <2>1, <2>3, <2>4, EvenChildren
  <2> QED
    BY <2>1, <2>2, <2>5, PlanMade
<1>3. Planned("lval", LvalAttr)
  <2> DEFINE h == <<0, 8, 0, 8>>
             d == <<0, 0, 0, 0>>
             g == {4}
  <2>1. /\ Len(LvalAttr) = 3 /\ h \in [1..(3 + 1) -> Nat] /\ d \in [1..(3 + 1) -> Nat]
        /\ h[1] = 0 /\ d[1] = 0 /\ 1 \notin g
        /\ h[3 + 1] = Net("lval") /\ d[3 + 1] = 0 /\ 3 + 1 \in g
    BY DEF LvalAttr, Net, Word
  <2>2. \A k \in 1..3 : StepOK("lval", LvalAttr[k], h[k], d[k], k \in g,
                               h[k + 1], d[k + 1], k + 1 \in g)
    BY DEF LvalAttr, StepOK, Word, Step, Lval, Pop, Push
  <2>3. ~Holding(LvalAttr)
    BY DEF LvalAttr, Step, Lval, Pop, Push, Call, Expr, Top, Holding, Contains, Binary, BinaryAssign
  <2>4. \A k \in 1..3 : LvalAttr[k].op \in Children => h[k] = d[k]
    BY DEF LvalAttr, Step, Lval, Pop, Push, Children
  <2> HIDE DEF h, d, g
  <2>5. \A k \in 1..3 : ChildAt(LvalAttr, k, h[k], d[k])
    BY <2>1, <2>3, <2>4, EvenChildren
  <2> QED
    BY <2>1, <2>2, <2>5, PlanMade
<1> QED
  BY <1>1, <1>2, <1>3 DEF Lvals

\* Expressions of a fixed shape and without labels.
LEMMA ExprPlans ==
  \A steps \in {Leaf, Comma, Assign, Deref, AddrOf, Attr, Cast, Not, Complement,
                PreIncr, PostIncr, Shift, ShiftAssign, Binary, BinaryAssign} :
    Planned("expr", steps)
<1>1. Planned("expr", Leaf)
  <2> DEFINE h == <<0, 8>>
             d == <<0, 0>>
             g == {2}
  <2>1. /\ Len(Leaf) = 1 /\ h \in [1..(1 + 1) -> Nat] /\ d \in [1..(1 + 1) -> Nat]
        /\ h[1] = 0 /\ d[1] = 0 /\ 1 \notin g
        /\ h[1 + 1] = Net("expr") /\ d[1 + 1] = 0 /\ 1 + 1 \in g
    BY DEF Leaf, Net, Word
  <2>2. \A k \in 1..1 : StepOK("expr", Leaf[k], h[k], d[k], k \in g,
                               h[k + 1], d[k + 1], k + 1 \in g)
    BY DEF Leaf, StepOK, Word, Step, Push
  <2>3. ~Holding(Leaf)
    BY DEF Leaf, Step, Push, Call, Expr, Pop, Top, Lval, Holding, Contains, Binary, BinaryAssign
  <2>4. \A k \in 1..1 : Leaf[k].op \in Children => h[k] = d[k]
    BY DEF Leaf, Step, Push, Children
  <2> HIDE DEF h, d, g
  <2>5. \A k \in 1..1 : ChildAt(Leaf, k, h[k], d[k])
    BY <2>1, <2>3, <2>4, EvenChildren
  <2> QED
    BY <2>1, <2>2, <2>5, PlanMade
<1>2. Planned("expr", Comma)
  <2> DEFINE h == <<0, 8, 0, 8>>
             d == <<0, 0, 0, 0>>
             g == {4}
  <2>1. /\ Len(Comma) = 3 /\ h \in [1..(3 + 1) -> Nat] /\ d \in [1..(3 + 1) -> Nat]
        /\ h[1] = 0 /\ d[1] = 0 /\ 1 \notin g
        /\ h[3 + 1] = Net("expr") /\ d[3 + 1] = 0 /\ 3 + 1 \in g
    BY DEF Comma, Net, Word
  <2>2. \A k \in 1..3 : StepOK("expr", Comma[k], h[k], d[k], k \in g,
                               h[k + 1], d[k + 1], k + 1 \in g)
    BY DEF Comma, StepOK, Word, Step, Expr, Pop
  <2>3. ~Holding(Comma)
    BY DEF Comma, Step, Expr, Pop, Call, Top, Lval, Holding, Contains, Binary, BinaryAssign
  <2>4. \A k \in 1..3 : Comma[k].op \in Children => h[k] = d[k]
    BY DEF Comma, Step, Expr, Pop, Children
  <2> HIDE DEF h, d, g
  <2>5. \A k \in 1..3 : ChildAt(Comma, k, h[k], d[k])
    BY <2>1, <2>3, <2>4, EvenChildren
  <2> QED
    BY <2>1, <2>2, <2>5, PlanMade
<1>3. Planned("expr", Assign)
  <2> DEFINE h == <<0, 8, 8, 16, 16, 8, 8>>
             d == <<0, 0, 8, 8, 0, 0, 0>>
             g == {7}
  <2>1. /\ Len(Assign) = 6 /\ h \in [1..(6 + 1) -> Nat] /\ d \in [1..(6 + 1) -> Nat]
        /\ h[1] = 0 /\ d[1] = 0 /\ 1 \notin g
        /\ h[6 + 1] = Net("expr") /\ d[6 + 1] = 0 /\ 6 + 1 \in g
    BY DEF Assign, Net, Word
  <2>2. \A k \in 1..6 : StepOK("expr", Assign[k], h[k], d[k], k \in g,
                               h[k + 1], d[k + 1], k + 1 \in g)
    BY DEF Assign, StepOK, Word, Step, Lval, Track, Expr, Untrack, Pop, Top
  <2>3. ~Holding(Assign)
    BY DEF Assign, Step, Lval, Track, Expr, Untrack, Pop, Top, Call, Holding, Contains, Binary, BinaryAssign
  <2>4. \A k \in 1..6 : Assign[k].op \in Children => h[k] = d[k]
    BY DEF Assign, Step, Lval, Track, Expr, Untrack, Pop, Top, Children
  <2> HIDE DEF h, d, g
  <2>5. \A k \in 1..6 : ChildAt(Assign, k, h[k], d[k])
    BY <2>1, <2>3, <2>4, EvenChildren
  <2> QED
    BY <2>1, <2>2, <2>5, PlanMade
<1>4. Planned("expr", Deref)
  <2> DEFINE h == <<0, 8, 8, 8>>
             d == <<0, 0, 0, 0>>
             g == {2, 3, 4}
  <2>1. /\ Len(Deref) = 3 /\ h \in [1..(3 + 1) -> Nat] /\ d \in [1..(3 + 1) -> Nat]
        /\ h[1] = 0 /\ d[1] = 0 /\ 1 \notin g
        /\ h[3 + 1] = Net("expr") /\ d[3 + 1] = 0 /\ 3 + 1 \in g
    BY DEF Deref, Net, Word
  <2>2. \A k \in 1..3 : StepOK("expr", Deref[k], h[k], d[k], k \in g,
                               h[k + 1], d[k + 1], k + 1 \in g)
    BY DEF Deref, StepOK, Word, Step, Expr, Load, Top
  <2>3. ~Holding(Deref)
    BY DEF Deref, Step, Expr, Load, Top, Call, Pop, Lval, Holding, Contains, Binary, BinaryAssign
  <2>4. \A k \in 1..3 : Deref[k].op \in Children => h[k] = d[k]
    BY DEF Deref, Step, Expr, Load, Top, Children
  <2> HIDE DEF h, d, g
  <2>5. \A k \in 1..3 : ChildAt(Deref, k, h[k], d[k])
    BY <2>1, <2>3, <2>4, EvenChildren
  <2> QED
    BY <2>1, <2>2, <2>5, PlanMade
<1>5. Planned("expr", AddrOf)
  <2> DEFINE h == <<0, 8>>
             d == <<0, 0>>
             g == {2}
  <2>1. /\ Len(AddrOf) = 1 /\ h \in [1..(1 + 1) -> Nat] /\ d \in [1..(1 + 1) -> Nat]
        /\ h[1] = 0 /\ d[1] = 0 /\ 1 \notin g
        /\ h[1 + 1] = Net("expr") /\ d[1 + 1] = 0 /\ 1 + 1 \in g
    BY DEF AddrOf, Net, Word
  <2>2. \A k \in 1..1 : StepOK("expr", AddrOf[k], h[k], d[k], k \in g,
                               h[k + 1], d[k + 1], k + 1 \in g)
    BY DEF AddrOf, StepOK, Word, Step, Lval
  <2>3. ~Holding(AddrOf)
    BY DEF AddrOf, Step, Lval, Call, Expr, Pop, Top, Holding, Contains, Binary, BinaryAssign
  <2>4. \A k \in 1..1 : AddrOf[k].op \in Children => h[k] = d[k]
    BY DEF AddrOf, Step, Lval, Children
  <2> HIDE DEF h, d, g
  <2>5. \A k \in 1..1 : ChildAt(AddrOf, k, h[k], d[k])
    BY <2>1, <2>3, <2>4, EvenChildren
  <2> QED
    BY <2>1, <2>2, <2>5, PlanMade
<1>6. Planned("expr", Attr)
  <2> DEFINE h == <<0, 8, 8, 8>>
             d == <<0, 0, 0, 0>>
             g == {2, 3, 4}
  <2>1. /\ Len(Attr) = 3 /\ h \in [1..(3 + 1) -> Nat] /\ d \in [1..(3 + 1) -> Nat]
        /\ h[1] = 0 /\ d[1] = 0 /\ 1 \notin g
        /\ h[3 + 1] = Net("expr") /\ d[3 + 1] = 0 /\ 3 + 1 \in g
    BY DEF Attr, Net, Word
  <2>2. \A k \in 1..3 : StepOK("expr", Attr[k], h[k], d[k], k \in g,
                               h[k + 1], d[k + 1], k + 1 \in g)
    BY DEF Attr, StepOK, Word, Step, Lval, Load, Top
  <2>3. ~Holding(Attr)
    BY DEF Attr, Step, Lval, Load, Top, Call, Expr, Pop, Holding, Contains, Binary, BinaryAssign
  <2>4. \A k \in 1..3 : Attr[k].op \in Children => h[k] = d[k]
    BY DEF Attr, Step, Lval, Load, Top, Children
  <2> HIDE DEF h, d, g
  <2>5. \A k \in 1..3 : ChildAt(Attr, k, h[k], d[k])
    BY <2>1, <2>3, <2>4, EvenChildren
  <2> QED
    BY <2>1, <2>2, <2>5, PlanMade
<1>7. Planned("expr", Cast)
  <2> DEFINE h == <<0, 8>>
             d == <<0, 0>>
             g == {2}
  <2>1. /\ Len(Cast) = 1 /\ h \in [1..(1 + 1) -> Nat] /\ d \in [1..(1 + 1) -> Nat]
        /\ h[1] = 0 /\ d[1] = 0 /\ 1 \notin g
        /\ h[1 + 1] = Net("expr") /\ d[1 + 1] = 0 /\ 1 + 1 \in g
    BY DEF Cast, Net, Word
  <2>2. \A k \in 1..1 : StepOK("expr", Cast[k], h[k], d[k], k \in g,
                               h[k + 1], d[k + 1], k + 1 \in g)
    BY DEF Cast, StepOK, Word, Step, Expr
  <2>3. ~Holding(Cast)
    BY DEF Cast, Step, Expr, Call, Pop, Top, Lval, Holding, Contains, Binary, BinaryAssign
  <2>4. \A k \in 1..1 : Cast[k].op \in Children => h[k] = d[k]
    BY DEF Cast, Step, Expr, Children
  <2> HIDE DEF h, d, g
  <2>5. \A k \in 1..1 : ChildAt(Cast, k, h[k], d[k])
    BY <2>1, <2>3, <2>4, EvenChildren
  <2> QED
    BY <2>1, <2>2, <2>5, PlanMade
<1>8. Planned("expr", Not)
  <2> DEFINE h == <<0, 8, 8, 8>>
             d == <<0, 0, 0, 0>>
             g == {2, 3, 4}
  <2>1. /\ Len(Not) = 3 /\ h \in [1..(3 + 1) -> Nat] /\ d \in [1..(3 + 1) -> Nat]
        /\ h[1] = 0 /\ d[1] = 0 /\ 1 \notin g
        /\ h[3 + 1] = Net("expr") /\ d[3 + 1] = 0 /\ 3 + 1 \in g
    BY DEF Not, Net, Word
  <2>2. \A k \in 1..3 : StepOK("expr", Not[k], h[k], d[k], k \in g,
                               h[k + 1], d[k + 1], k + 1 \in g)
    BY DEF Not, StepOK, Word, Step, Expr, Test, Top
  <2>3. ~Holding(Not)
    BY DEF Not, Step, Expr, Test, Top, Call, Pop, Lval, Holding, Contains, Binary, BinaryAssign
  <2>4. \A k \in 1..3 : Not[k].op \in Children => h[k] = d[k]
    BY DEF Not, Step, Expr, Test, Top, Children
  <2> HIDE DEF h, d, g
  <2>5. \A k \in 1..3 : ChildAt(Not, k, h[k], d[k])
    BY <2>1, <2>3, <2>4, EvenChildren
  <2> QED
    BY <2>1, <2>2, <2>5, PlanMade
<1>9. Planned("expr", Complement)
  <2> DEFINE h == <<0, 8, 8, 8>>
             d == <<0, 0, 0, 0>>
             g == {4}
  <2>1. /\ Len(Complement) = 3 /\ h \in [1..(3 + 1) -> Nat] /\ d \in [1..(3 + 1) -> Nat]
        /\ h[1] = 0 /\ d[1] = 0 /\ 1 \notin g
        /\ h[3 + 1] = Net("expr") /\ d[3 + 1] = 0 /\ 3 + 1 \in g
    BY DEF Complement, Net, Word
  <2>2. \A k \in 1..3 : StepOK("expr", Complement[k], h[k], d[k], k \in g,
                               h[k + 1], d[k + 1], k + 1 \in g)
    BY DEF Complement, StepOK, Word, Step, Expr, Use, Top
  <2>3. ~Holding(Complement)
    BY DEF Complement, Step, Expr, Use, Top, Call, Pop, Lval, Holding, Contains, Binary, BinaryAssign
  <2>4. \A k \in 1..3 : Complement[k].op \in Children => h[k] = d[k]
    BY DEF Complement, Step, Expr, Use, Top, Children
  <2> HIDE DEF h, d, g
  <2>5. \A k \in 1..3 : ChildAt(Complement, k, h[k], d[k])
    BY <2>1, <2>3, <2>4, EvenChildren
  <2> QED
    BY <2>1, <2>2, <2>5, PlanMade
<1>10. Planned("expr", PreIncr)
  <2> DEFINE h == <<0, 8, 8, 8>>
             d == <<0, 0, 0, 0>>
             g == {2, 3, 4}
  <2>1. /\ Len(PreIncr) = 3 /\ h \in [1..(3 + 1) -> Nat] /\ d \in [1..(3 + 1) -> Nat]
        /\ h[1] = 0 /\ d[1] = 0 /\ 1 \notin g
        /\ h[3 + 1] = Net("expr") /\ d[3 + 1] = 0 /\ 3 + 1 \in g
    BY DEF PreIncr, Net, Word
  <2>2. \A k \in 1..3 : StepOK("expr", PreIncr[k], h[k], d[k], k \in g,
                               h[k + 1], d[k + 1], k + 1 \in g)
    BY DEF PreIncr, StepOK, Word, Step, Lval, Load, Top
  <2>3. ~Holding(PreIncr)
    BY DEF PreIncr, Step, Lval, Load, Top, Call, Expr, Pop, Holding, Contains, Binary, BinaryAssign
  <2>4. \A k \in 1..3 : PreIncr[k].op \in Children => h[k] = d[k]
    BY DEF PreIncr, Step, Lval, Load, Top, Children
  <2> HIDE DEF h, d, g
  <2>5. \A k \in 1..3 : ChildAt(PreIncr, k, h[k], d[k])
    BY <2>1, <2>3, <2>4, EvenChildren
  <2> QED
    BY <2>1, <2>2, <2>5, PlanMade
<1>11. Planned("expr", PostIncr)
  <2> DEFINE h == <<0, 8, 8, 8, 8>>
             d == <<0, 0, 0, 0, 0>>
             g == {2, 3, 5}
  <2>1. /\ Len(PostIncr) = 4 /\ h \in [1..(4 + 1) -> Nat] /\ d \in [1..(4 + 1) -> Nat]
        /\ h[1] = 0 /\ d[1] = 0 /\ 1 \notin g
        /\ h[4 + 1] = Net("expr") /\ d[4 + 1] = 0 /\ 4 + 1 \in g
    BY DEF PostIncr, Net, Word
  <2>2. \A k \in 1..4 : StepOK("expr", PostIncr[k], h[k], d[k], k \in g,
                               h[k + 1], d[k + 1], k + 1 \in g)
    BY DEF PostIncr, StepOK, Word, Step, Lval, Load, Other, Top
  <2>3. ~Holding(PostIncr)
    BY DEF PostIncr, Step, Lval, Load, Other, Top, Call, Expr, Pop, Holding, Contains, Binary, BinaryAssign
  <2>4. \A k \in 1..4 : PostIncr[k].op \in Children => h[k] = d[k]
    BY DEF PostIncr, Step, Lval, Load, Other, Top, Children
  <2> HIDE DEF h, d, g
  <2>5. \A k \in 1..4 : ChildAt(PostIncr, k, h[k], d[k])
    BY <2>1, <2>3, <2>4, EvenChildren
  <2> QED
    BY <2>1, <2>2, <2>5, PlanMade
<1>12. Planned("expr", Shift)
  <2> DEFINE h == <<0, 8, 8, 16, 16, 8, 8>>
             d == <<0, 0, 8, 8, 0, 0, 0>>
             g == {7}
  <2>1. /\ Len(Shift) = 6 /\ h \in [1..(6 + 1) -> Nat] /\ d \in [1..(6 + 1) -> Nat]
        /\ h[1] = 0 /\ d[1] = 0 /\ 1 \notin g
        /\ h[6 + 1] = Net("expr") /\ d[6 + 1] = 0 /\ 6 + 1 \in g
    BY DEF Shift, Net, Word
  <2>2. \A k \in 1..6 : StepOK("expr", Shift[k], h[k], d[k], k \in g,
                               h[k + 1], d[k + 1], k + 1 \in g)
    BY DEF Shift, StepOK, Word, Step, Expr, Track, Untrack, Pop, Top
  <2>3. ~Holding(Shift)
    BY DEF Shift, Step, Expr, Track, Untrack, Pop, Top, Call, Lval, Holding, Contains, Binary, BinaryAssign
  <2>4. \A k \in 1..6 : Shift[k].op \in Children => h[k] = d[k]
    BY DEF Shift, Step, Expr, Track, Untrack, Pop, Top, Children
  <2> HIDE DEF h, d, g
  <2>5. \A k \in 1..6 : ChildAt(Shift, k, h[k], d[k])
    BY <2>1, <2>3, <2>4, EvenChildren
  <2> QED
    BY <2>1, <2>2, <2>5, PlanMade
<1>13. Planned("expr", ShiftAssign)
  <2> DEFINE h == <<0, 8, 8, 16, 16, 8, 8>>
             d == <<0, 0, 8, 8, 0, 0, 0>>
             g == {7}
  <2>1. /\ Len(ShiftAssign) = 6 /\ h \in [1..(6 + 1) -> Nat] /\ d \in [1..(6 + 1) -> Nat]
        /\ h[1] = 0 /\ d[1] = 0 /\ 1 \notin g
        /\ h[6 + 1] = Net("expr") /\ d[6 + 1] = 0 /\ 6 + 1 \in g
    BY DEF ShiftAssign, Net, Word
  <2>2. \A k \in 1..6 : StepOK("expr", ShiftAssign[k], h[k], d[k], k \in g,
                               h[k + 1], d[k + 1], k + 1 \in g)
    BY DEF ShiftAssign, StepOK, Word, Step, Lval, Track, Expr, Untrack, Pop, Top
  <2>3. ~Holding(ShiftAssign)
    BY DEF ShiftAssign, Step, Lval, Track, Expr, Untrack, Pop, Top, Call, Holding, Contains, Binary, BinaryAssign
  <2>4. \A k \in 1..6 : ShiftAssign[k].op \in Children => h[k] = d[k]
    BY DEF ShiftAssign, Step, Lval, Track, Expr, Untrack, Pop, Top, Children
  <2> HIDE DEF h, d, g
  <2>5. \A k \in 1..6 : ChildAt(ShiftAssign, k, h[k], d[k])
    BY <2>1, <2>3, <2>4, EvenChildren
  <2> QED
    BY <2>1, <2>2, <2>5, PlanMade
<1>14. Planned("expr", Binary)
  <2> DEFINE h == <<0, 8, 16, 8, 8>>
             d == <<0, 0, 0, 0, 0>>
             g == {5}
  <2>1. /\ Len(Binary) = 4 /\ h \in [1..(4 + 1) -> Nat] /\ d \in [1..(4 + 1) -> Nat]
        /\ h[1] = 0 /\ d[1] = 0 /\ 1 \notin g
        /\ h[4 + 1] = Net("expr") /\ d[4 + 1] = 0 /\ 4 + 1 \in g
    BY DEF Binary, Net, Word
  <2>2. \A k \in 1..4 : StepOK("expr", Binary[k], h[k], d[k], k \in g,
                               h[k + 1], d[k + 1], k + 1 \in g)
    BY DEF Binary, StepOK, Word, Step, Expr, Pop, Top
  <2>3. Holding(Binary) /\ Binary[1] \in {Expr, Lval}
    BY DEF Holding, Binary
  <2>4. \A k \in 1..4 : Binary[k].op \in Children => k \in {1, 2}
    BY DEF Binary, Expr, Pop, Top, Step, Children
  <2>5. h[1] = 0 /\ d[1] = 0 /\ h[2] = Word /\ d[2] = 0
    BY DEF Word
  <2> HIDE DEF h, d, g
  <2>6. \A k \in 1..4 : ChildAt(Binary, k, h[k], d[k])
    BY <2>3, <2>4, <2>5, SecondOfTwo
  <2> QED
    BY <2>1, <2>2, <2>6, PlanMade
<1>15. Planned("expr", BinaryAssign)
  <2> DEFINE h == <<0, 8, 16, 8, 8>>
             d == <<0, 0, 0, 0, 0>>
             g == {5}
  <2>1. /\ Len(BinaryAssign) = 4 /\ h \in [1..(4 + 1) -> Nat] /\ d \in [1..(4 + 1) -> Nat]
        /\ h[1] = 0 /\ d[1] = 0 /\ 1 \notin g
        /\ h[4 + 1] = Net("expr") /\ d[4 + 1] = 0 /\ 4 + 1 \in g
    BY DEF BinaryAssign, Net, Word
  <2>2. \A k \in 1..4 : StepOK("expr", BinaryAssign[k], h[k], d[k], k \in g,
                               h[k + 1], d[k + 1], k + 1 \in g)
    BY DEF BinaryAssign, StepOK, Word, Step, Lval, Expr, Pop, Top
  <2>3. Holding(BinaryAssign) /\ BinaryAssign[1] \in {Expr, Lval}
    BY DEF Holding, BinaryAssign
  <2>4. \A k \in 1..4 : BinaryAssign[k].op \in Children => k \in {1, 2}
    BY DEF BinaryAssign, Lval, Expr, Pop, Top, Step, Children
  <2>5. h[1] = 0 /\ d[1] = 0 /\ h[2] = Word /\ d[2] = 0
    BY DEF Word
  <2> HIDE DEF h, d, g
  <2>6. \A k \in 1..4 : ChildAt(BinaryAssign, k, h[k], d[k])
    BY <2>3, <2>4, <2>5, SecondOfTwo
  <2> QED
    BY <2>1, <2>2, <2>6, PlanMade
<1> QED
  BY <1>1, <1>2, <1>3, <1>4, <1>5, <1>6, <1>7, <1>8, <1>9, <1>10, <1>11, <1>12, <1>13, <1>14, <1>15

\* Expressions with labels.
LEMMA NumberedExprPlans ==
  ASSUME NEW n
  PROVE  \A steps \in NumberedExprs(n) : Planned("expr", steps)
<1>1. Planned("expr", Cond(n))
  <2> DEFINE h == <<0, 8, 0, 0, 8, 0, 0, 8, 8>>
             d == <<0, 0, 0, 0, 0, 0, 0, 0, 0>>
             g == {5, 8, 9}
  <2>1. /\ Len(Cond(n)) = 8 /\ h \in [1..(8 + 1) -> Nat] /\ d \in [1..(8 + 1) -> Nat]
        /\ h[1] = 0 /\ d[1] = 0 /\ 1 \notin g
        /\ h[8 + 1] = Net("expr") /\ d[8 + 1] = 0 /\ 8 + 1 \in g
    BY DEF Cond, Net, Word
  <2>2. \A k \in 1..8 : StepOK("expr", Cond(n)[k], h[k], d[k], k \in g,
                               h[k + 1], d[k + 1], k + 1 \in g)
    BY DEF Cond, StepOK, Word, Step, Expr, Pop, JumpIf, Jump, Place, LabelAt,
           LabelHeight, Valued, Label
  <2>3. ~Holding(Cond(n))
    BY DEF Cond, Step, Expr, Pop, JumpIf, Jump, Place, Label, Call, Top, Lval, Holding, Contains, Binary, BinaryAssign
  <2>4. \A k \in 1..8 : Cond(n)[k].op \in Children => h[k] = d[k]
    BY DEF Cond, Step, Expr, Pop, JumpIf, Jump, Place, Label, Children
  <2> HIDE DEF h, d, g
  <2>5. \A k \in 1..8 : ChildAt(Cond(n), k, h[k], d[k])
    BY <2>1, <2>3, <2>4, EvenChildren
  <2> QED
    BY <2>1, <2>2, <2>5, PlanMade
<1>2. Planned("expr", LogAnd(n))
  <2> DEFINE h == <<0, 8, 8, 8, 0, 8, 8, 8, 8, 8>>
             d == <<0, 0, 0, 0, 0, 0, 0, 0, 0, 0>>
             g == {2, 3, 6, 7, 9, 10}
  <2>1. /\ Len(LogAnd(n)) = 9 /\ h \in [1..(9 + 1) -> Nat] /\ d \in [1..(9 + 1) -> Nat]
        /\ h[1] = 0 /\ d[1] = 0 /\ 1 \notin g
        /\ h[9 + 1] = Net("expr") /\ d[9 + 1] = 0 /\ 9 + 1 \in g
    BY DEF LogAnd, Net, Word
  <2>2. \A k \in 1..9 : StepOK("expr", LogAnd(n)[k], h[k], d[k], k \in g,
                               h[k + 1], d[k + 1], k + 1 \in g)
    BY DEF LogAnd, StepOK, Word, Step, Expr, Test, JumpIf, Pop, SetOne, Place, LabelAt,
           LabelHeight, Valued, Label
  <2>3. ~Holding(LogAnd(n))
    BY DEF LogAnd, Step, Expr, Test, JumpIf, Pop, SetOne, Place, Label, Call, Top, Lval, Holding, Contains, Binary, BinaryAssign
  <2>4. \A k \in 1..9 : LogAnd(n)[k].op \in Children => h[k] = d[k]
    BY DEF LogAnd, Step, Expr, Test, JumpIf, Pop, SetOne, Place, Label, Children
  <2> HIDE DEF h, d, g
  <2>5. \A k \in 1..9 : ChildAt(LogAnd(n), k, h[k], d[k])
    BY <2>1, <2>3, <2>4, EvenChildren
  <2> QED
    BY <2>1, <2>2, <2>5, PlanMade
<1>3. Planned("expr", LogOr(n))
  <2> DEFINE h == <<0, 8, 8, 8, 0, 8, 8, 8, 8, 8, 8>>
             d == <<0, 0, 0, 0, 0, 0, 0, 0, 0, 0, 0>>
             g == {2, 3, 6, 7, 8, 10, 11}
  <2>1. /\ Len(LogOr(n)) = 10 /\ h \in [1..(10 + 1) -> Nat] /\ d \in [1..(10 + 1) -> Nat]
        /\ h[1] = 0 /\ d[1] = 0 /\ 1 \notin g
        /\ h[10 + 1] = Net("expr") /\ d[10 + 1] = 0 /\ 10 + 1 \in g
    BY DEF LogOr, Net, Word
  <2>2. \A k \in 1..10 : StepOK("expr", LogOr(n)[k], h[k], d[k], k \in g,
                                h[k + 1], d[k + 1], k + 1 \in g)
    BY DEF LogOr, StepOK, Word, Step, Expr, Test, JumpIf, Pop, Place, SetOne, LabelAt,
           LabelHeight, Valued, Label
  <2>3. ~Holding(LogOr(n))
    BY DEF LogOr, Step, Expr, Test, JumpIf, Pop, Place, SetOne, Label, Call, Top, Lval, Holding, Contains, Binary, BinaryAssign
  <2>4. \A k \in 1..10 : LogOr(n)[k].op \in Children => h[k] = d[k]
    BY DEF LogOr, Step, Expr, Test, JumpIf, Pop, Place, SetOne, Label, Children
  <2> HIDE DEF h, d, g
  <2>5. \A k \in 1..10 : ChildAt(LogOr(n), k, h[k], d[k])
    BY <2>1, <2>3, <2>4, EvenChildren
  <2> QED
    BY <2>1, <2>2, <2>5, PlanMade
<1> QED
  BY <1>1, <1>2, <1>3 DEF NumberedExprs

\* Statements of a fixed shape.
LEMMA StmtPlans ==
  \A steps \in {ExprStmt, VarDecl, VarDeclBare, Return, ReturnVoid} : Planned("stmt", steps)
<1>1. Planned("stmt", ExprStmt)
  <2> DEFINE h == <<0, 8, 0>>
             d == <<0, 0, 0>>
             g == {}
  <2>1. /\ Len(ExprStmt) = 2 /\ h \in [1..(2 + 1) -> Nat] /\ d \in [1..(2 + 1) -> Nat]
        /\ h[1] = 0 /\ d[1] = 0 /\ 1 \notin g
        /\ h[2 + 1] = Net("stmt") /\ d[2 + 1] = 0
    BY DEF ExprStmt, Net, Word
  <2>2. \A k \in 1..2 : StepOK("stmt", ExprStmt[k], h[k], d[k], k \in g,
                               h[k + 1], d[k + 1], k + 1 \in g)
    BY DEF ExprStmt, StepOK, Word, Step, Expr, Pop
  <2>3. ~Holding(ExprStmt)
    BY DEF ExprStmt, Step, Expr, Pop, Call, Top, Lval, Holding, Contains, Binary, BinaryAssign
  <2>4. \A k \in 1..2 : ExprStmt[k].op \in Children => h[k] = d[k]
    BY DEF ExprStmt, Step, Expr, Pop, Children
  <2> HIDE DEF h, d, g
  <2>5. \A k \in 1..2 : ChildAt(ExprStmt, k, h[k], d[k])
    BY <2>1, <2>3, <2>4, EvenChildren
  <2> QED
    BY <2>1, <2>2, <2>5, PlanMade
<1>2. Planned("stmt", VarDecl)
  <2> DEFINE h == <<0, 8, 8, 16, 16, 8, 0>>
             d == <<0, 0, 8, 8, 0, 0, 0>>
             g == {}
  <2>1. /\ Len(VarDecl) = 6 /\ h \in [1..(6 + 1) -> Nat] /\ d \in [1..(6 + 1) -> Nat]
        /\ h[1] = 0 /\ d[1] = 0 /\ 1 \notin g
        /\ h[6 + 1] = Net("stmt") /\ d[6 + 1] = 0
    BY DEF VarDecl, Net, Word
  <2>2. \A k \in 1..6 : StepOK("stmt", VarDecl[k], h[k], d[k], k \in g,
                               h[k + 1], d[k + 1], k + 1 \in g)
    BY DEF VarDecl, StepOK, Word, Step, Push, Track, Expr, Untrack, Pop
  <2>3. ~Holding(VarDecl)
    BY DEF VarDecl, Step, Push, Track, Expr, Untrack, Pop, Call, Top, Lval, Holding, Contains, Binary, BinaryAssign
  <2>4. \A k \in 1..6 : VarDecl[k].op \in Children => h[k] = d[k]
    BY DEF VarDecl, Step, Push, Track, Expr, Untrack, Pop, Children
  <2> HIDE DEF h, d, g
  <2>5. \A k \in 1..6 : ChildAt(VarDecl, k, h[k], d[k])
    BY <2>1, <2>3, <2>4, EvenChildren
  <2> QED
    BY <2>1, <2>2, <2>5, PlanMade
<1>3. Planned("stmt", VarDeclBare)
  <2> DEFINE p == [h |-> <<0>>, d |-> <<0>>, g |-> {}]
  <2>1. p.h \in [1..(0 + 1) -> Nat] /\ p.d \in [1..(0 + 1) -> Nat] /\ p.h[1] = 0 /\ p.d[1] = 0
    OBVIOUS
  <2>2. Len(VarDeclBare) = 0
    BY DEF VarDeclBare
  <2>3. 1 \notin p.g /\ \A k \in 1..0 : FALSE
    OBVIOUS
  <2> HIDE DEF p
  <2>4. Plans("stmt", VarDeclBare, p)
    BY <2>1, <2>2, <2>3 DEF Plans, Net
  <2> QED
    BY <2>4 DEF Planned
<1>4. Planned("stmt", Return)
  <2> DEFINE h == <<0, 8, 8, 0>>
             d == <<0, 0, 0, 0>>
             g == {}
  <2>1. /\ Len(Return) = 3 /\ h \in [1..(3 + 1) -> Nat] /\ d \in [1..(3 + 1) -> Nat]
        /\ h[1] = 0 /\ d[1] = 0 /\ 1 \notin g
        /\ h[3 + 1] = Net("stmt") /\ d[3 + 1] = 0
    BY DEF Return, Net, Word
  <2>2. \A k \in 1..3 : StepOK("stmt", Return[k], h[k], d[k], k \in g,
                               h[k + 1], d[k + 1], k + 1 \in g)
    BY DEF Return, StepOK, Word, Step, Expr, Use, Jump, ReturnLabel, Label
  <2>3. ~Holding(Return)
    BY DEF Return, Step, Expr, Use, Jump, ReturnLabel, Label, Call, Pop, Top, Lval, Holding, Contains, Binary, BinaryAssign
  <2>4. \A k \in 1..3 : Return[k].op \in Children => h[k] = d[k]
    BY DEF Return, Step, Expr, Use, Jump, ReturnLabel, Label, Children
  <2> HIDE DEF h, d, g
  <2>5. \A k \in 1..3 : ChildAt(Return, k, h[k], d[k])
    BY <2>1, <2>3, <2>4, EvenChildren
  <2> QED
    BY <2>1, <2>2, <2>5, PlanMade
<1>5. Planned("stmt", ReturnVoid)
  <2> DEFINE h == <<0, 0>>
             d == <<0, 0>>
             g == {}
  <2>1. /\ Len(ReturnVoid) = 1 /\ h \in [1..(1 + 1) -> Nat] /\ d \in [1..(1 + 1) -> Nat]
        /\ h[1] = 0 /\ d[1] = 0 /\ 1 \notin g
        /\ h[1 + 1] = Net("stmt") /\ d[1 + 1] = 0
    BY DEF ReturnVoid, Net, Word
  <2>2. \A k \in 1..1 : StepOK("stmt", ReturnVoid[k], h[k], d[k], k \in g,
                               h[k + 1], d[k + 1], k + 1 \in g)
    BY DEF ReturnVoid, StepOK, Word, Jump, ReturnLabel, Label
  <2>3. ~Holding(ReturnVoid)
    BY DEF ReturnVoid, Jump, ReturnLabel, Label, Step, Call, Expr, Pop, Top, Lval, Holding, Contains, Binary, BinaryAssign
  <2>4. \A k \in 1..1 : ReturnVoid[k].op \in Children => h[k] = d[k]
    BY DEF ReturnVoid, Jump, ReturnLabel, Label, Children
  <2> HIDE DEF h, d, g
  <2>5. \A k \in 1..1 : ChildAt(ReturnVoid, k, h[k], d[k])
    BY <2>1, <2>3, <2>4, EvenChildren
  <2> QED
    BY <2>1, <2>2, <2>5, PlanMade
<1> QED
  BY <1>1, <1>2, <1>3, <1>4, <1>5

\* Statements with labels.
LEMMA NumberedStmtPlans ==
  ASSUME NEW n
  PROVE  /\ \A steps \in NumberedStmts(n) : Planned("stmt", steps)
         /\ Planned("stmt", While(n)) /\ Planned("stmt", DoWhile(n))
<1>1. Planned("stmt", If(n))
  <2> DEFINE h == <<0, 8, 0, 0, 0, 0>>
             d == <<0, 0, 0, 0, 0, 0>>
             g == {}
  <2>1. /\ Len(If(n)) = 5 /\ h \in [1..(5 + 1) -> Nat] /\ d \in [1..(5 + 1) -> Nat]
        /\ h[1] = 0 /\ d[1] = 0 /\ 1 \notin g
        /\ h[5 + 1] = Net("stmt") /\ d[5 + 1] = 0
    BY DEF If, Net, Word
  <2>2. \A k \in 1..5 : StepOK("stmt", If(n)[k], h[k], d[k], k \in g,
                               h[k + 1], d[k + 1], k + 1 \in g)
    BY DEF If, StepOK, Word, Step, Expr, Pop, JumpIf, Stmt, Place, LabelAt,
           LabelHeight, Valued, Label
  <2>3. ~Holding(If(n))
    BY DEF If, Step, Expr, Pop, JumpIf, Stmt, Place, Label, Call, Top, Lval, Holding, Contains, Binary, BinaryAssign
  <2>4. \A k \in 1..5 : If(n)[k].op \in Children => h[k] = d[k]
    BY DEF If, Step, Expr, Pop, JumpIf, Stmt, Place, Label, Children
  <2> HIDE DEF h, d, g
  <2>5. \A k \in 1..5 : ChildAt(If(n), k, h[k], d[k])
    BY <2>1, <2>3, <2>4, EvenChildren
  <2> QED
    BY <2>1, <2>2, <2>5, PlanMade
<1>2. Planned("stmt", IfElse(n))
  <2> DEFINE h == <<0, 8, 0, 0, 0, 0, 0, 0, 0>>
             d == <<0, 0, 0, 0, 0, 0, 0, 0, 0>>
             g == {}
  <2>1. /\ Len(IfElse(n)) = 8 /\ h \in [1..(8 + 1) -> Nat] /\ d \in [1..(8 + 1) -> Nat]
        /\ h[1] = 0 /\ d[1] = 0 /\ 1 \notin g
        /\ h[8 + 1] = Net("stmt") /\ d[8 + 1] = 0
    BY DEF IfElse, Net, Word
  <2>2. \A k \in 1..8 : StepOK("stmt", IfElse(n)[k], h[k], d[k], k \in g,
                               h[k + 1], d[k + 1], k + 1 \in g)
    BY DEF IfElse, StepOK, Word, Step, Expr, Pop, JumpIf, Stmt, Jump, Place, LabelAt,
           LabelHeight, Valued, Label
  <2>3. ~Holding(IfElse(n))
    BY DEF IfElse, Step, Expr, Pop, JumpIf, Stmt, Jump, Place, Label, Call, Top, Lval, Holding, Contains, Binary, BinaryAssign
  <2>4. \A k \in 1..8 : IfElse(n)[k].op \in Children => h[k] = d[k]
    BY DEF IfElse, Step, Expr, Pop, JumpIf, Stmt, Jump, Place, Label, Children
  <2> HIDE DEF h, d, g
  <2>5. \A k \in 1..8 : ChildAt(IfElse(n), k, h[k], d[k])
    BY <2>1, <2>3, <2>4, EvenChildren
  <2> QED
    BY <2>1, <2>2, <2>5, PlanMade
<1>3. Planned("stmt", While(n))
  <2> DEFINE h == <<0, 0, 8, 0, 0, 0, 0, 0>>
             d == <<0, 0, 0, 0, 0, 0, 0, 0>>
             g == {}
  <2>1. /\ Len(While(n)) = 7 /\ h \in [1..(7 + 1) -> Nat] /\ d \in [1..(7 + 1) -> Nat]
        /\ h[1] = 0 /\ d[1] = 0 /\ 1 \notin g
        /\ h[7 + 1] = Net("stmt") /\ d[7 + 1] = 0
    BY DEF While, Net, Word
  <2>2. \A k \in 1..7 : StepOK("stmt", While(n)[k], h[k], d[k], k \in g,
                               h[k + 1], d[k + 1], k + 1 \in g)
    BY DEF While, StepOK, Word, Step, Place, Expr, Pop, JumpIf, Stmt, Jump, Start,
           Cont, End, LabelAt, LabelHeight, Valued, Label
  <2>3. ~Holding(While(n))
    BY DEF While, Step, Place, Expr, Pop, JumpIf, Stmt, Jump, Start, Cont, End, Label, Call, Top, Lval, Holding, Contains, Binary, BinaryAssign
  <2>4. \A k \in 1..7 : While(n)[k].op \in Children => h[k] = d[k]
    BY DEF While, Step, Place, Expr, Pop, JumpIf, Stmt, Jump, Start, Cont, End, Label, Children
  <2> HIDE DEF h, d, g
  <2>5. \A k \in 1..7 : ChildAt(While(n), k, h[k], d[k])
    BY <2>1, <2>3, <2>4, EvenChildren
  <2> QED
    BY <2>1, <2>2, <2>5, PlanMade
<1>4. Planned("stmt", DoWhile(n))
  <2> DEFINE h == <<0, 0, 0, 0, 8, 0, 0, 0, 0>>
             d == <<0, 0, 0, 0, 0, 0, 0, 0, 0>>
             g == {}
  <2>1. /\ Len(DoWhile(n)) = 8 /\ h \in [1..(8 + 1) -> Nat] /\ d \in [1..(8 + 1) -> Nat]
        /\ h[1] = 0 /\ d[1] = 0 /\ 1 \notin g
        /\ h[8 + 1] = Net("stmt") /\ d[8 + 1] = 0
    BY DEF DoWhile, Net, Word
  <2>2. \A k \in 1..8 : StepOK("stmt", DoWhile(n)[k], h[k], d[k], k \in g,
                               h[k + 1], d[k + 1], k + 1 \in g)
    BY DEF DoWhile, StepOK, Word, Step, Place, Stmt, Expr, Pop, JumpIf, Number, Start,
           Cont, End, LabelAt, LabelHeight, Valued, Label
  <2>3. ~Holding(DoWhile(n))
    BY DEF DoWhile, Step, Place, Stmt, Expr, Pop, JumpIf, Number, Start, Cont, End, Label, Call, Top, Lval, Holding, Contains, Binary, BinaryAssign
  <2>4. \A k \in 1..8 : DoWhile(n)[k].op \in Children => h[k] = d[k]
    BY DEF DoWhile, Step, Place, Stmt, Expr, Pop, JumpIf, Number, Start, Cont, End, Label, Children
  <2> HIDE DEF h, d, g
  <2>5. \A k \in 1..8 : ChildAt(DoWhile(n), k, h[k], d[k])
    BY <2>1, <2>3, <2>4, EvenChildren
  <2> QED
    BY <2>1, <2>2, <2>5, PlanMade
<1> QED
  BY <1>1, <1>2, <1>3, <1>4 DEF NumberedStmts

\* A for statement with any of its clauses.
LEMMA ForPlan ==
  ASSUME NEW clauses, NEW n
  PROVE  Planned("stmt", For(clauses, n))
<1>1. Planned("stmt", For(clauses, n))
  <2> DEFINE h == <<0, 0, 0, IF "cond" \in clauses THEN 8 ELSE 0, 0, 0, 0, 0, IF "step" \in clauses THEN 8 ELSE 0, 0, 0, 0>>
             d == <<0, 0, 0, 0, 0, 0, 0, 0, 0, 0, 0, 0>>
             g == {}
  <2>1. /\ Len(For(clauses, n)) = 11 /\ h \in [1..(11 + 1) -> Nat] /\ d \in [1..(11 + 1) -> Nat]
        /\ h[1] = 0 /\ d[1] = 0 /\ 1 \notin g
        /\ h[11 + 1] = Net("stmt") /\ d[11 + 1] = 0
    BY DEF For, Net, Word
  <2>2. \A k \in 1..11 : StepOK("stmt", For(clauses, n)[k], h[k], d[k], k \in g,
                                h[k + 1], d[k + 1], k + 1 \in g)
    BY DEF For, StepOK, Word, Step, When, Pass, ForInit, Place, Expr, Pop, JumpIf,
           Stmt, Jump, Start, Cont, End, LabelAt, LabelHeight, Valued, Label
  <2>3. ~Holding(For(clauses, n))
    BY DEF For, Step, When, Pass, ForInit, Place, Expr, Pop, JumpIf, Stmt, Jump, Start, Cont, End, Label, Call, Top, Lval, Holding, Contains, Binary, BinaryAssign
  <2>4. \A k \in 1..11 : For(clauses, n)[k].op \in Children => h[k] = d[k]
    BY DEF For, Step, When, Pass, ForInit, Place, Expr, Pop, JumpIf, Stmt, Jump, Start, Cont, End, Label, Children
  <2> HIDE DEF h, d, g
  <2>5. \A k \in 1..11 : ChildAt(For(clauses, n), k, h[k], d[k])
    BY <2>1, <2>3, <2>4, EvenChildren
  <2> QED
    BY <2>1, <2>2, <2>5, PlanMade
<1> QED
  BY <1>1

-----------------------------------------------------------------------------
(* Nodes of any number of children.                                        *)

LEMMA EachOne ==
  ASSUME NEW n \in Nat, NEW x
  PROVE  Each(n, <<x>>) = [k \in 1..n |-> x]
<1>1. Len(<<x>>) = 1 /\ n * 1 = n
  OBVIOUS
<1>2. \A k \in 1..n : <<x>>[((k - 1) % 1) + 1] = x
  <2>1. \A k \in 1..n : (k - 1) % 1 = 0
    OBVIOUS
  <2> QED
    BY <2>1
<1> QED
  BY <1>1, <1>2 DEF Each

LEMMA BlockPlan ==
  ASSUME NEW n \in Nat
  PROVE  Planned("stmt", Block(n))
<1> DEFINE steps == Block(n)
           h == [k \in 1..(n + 1) |-> 0]
<1>1. steps = [k \in 1..n |-> Stmt]
  <2>1. Each(n, <<Stmt>>) = [k \in 1..n |-> Stmt]
    BY EachOne
  <2> QED
    BY <2>1 DEF Block
<1>0. Len(steps) = n
  BY <1>1
<1>2. h \in [1..(n + 1) -> Nat] /\ h[1] = 0 /\ h[n + 1] = Net("stmt")
  BY DEF Net
<1>3. \A k \in 1..n : StepOK("stmt", steps[k], h[k], h[k], k \in {}, h[k + 1], h[k + 1], k + 1 \in {})
  BY <1>1 DEF StepOK, Stmt, Step
<1> HIDE DEF steps, h
<1>5. ~Holding(steps)
  BY <1>0, <1>1 DEF Holding, Contains, Binary, BinaryAssign, Stmt, Expr, Lval, Call, Step
<1>6. \A k \in 1..n : ChildAt(steps, k, h[k], h[k])
  BY <1>2, <1>5, EvenChildren
<1>4. Planned("stmt", steps)
  <2> DEFINE g == {}
  <2>1. 1 \notin g /\ h[n + 1] = 0
    BY <1>2 DEF Net
  <2>2. \A k \in 1..n : StepOK("stmt", steps[k], h[k], h[k], k \in g, h[k + 1], h[k + 1], k + 1 \in g)
    BY <1>3
  <2> HIDE DEF g
  <2> QED
    BY <1>0, <1>2, <1>6, <2>1, <2>2, PlanMade
<1> QED
  BY <1>4 DEF steps

\* What an array initialiser has on the stack before the step with number r of an
\* element, the first being 0, and how much of it stack_depth includes.
ElementHeight(r) == CASE r = 0 -> 0 [] r \in {1, 2, 3, 6} -> Word [] OTHER -> 2 * Word
ElementDepth(r) == IF r \in {3, 4} THEN Word ELSE 0

LEMMA VarDeclArrayPlan ==
  ASSUME NEW n \in Nat
  PROVE  Planned("stmt", VarDeclArray(n))
<1> DEFINE steps == VarDeclArray(n)
           elem == <<Push, Top, Track, Expr, Untrack, Pop, Pop>>
           h == [k \in 1..(n * 7 + 1) |-> ElementHeight((k - 1) % 7)]
           d == [k \in 1..(n * 7 + 1) |-> ElementDepth((k - 1) % 7)]
<1>1. Len(elem) = 7 /\ n * 7 \in Nat
  OBVIOUS
<1>2. steps = [k \in 1..(n * 7) |-> elem[((k - 1) % 7) + 1]]
  BY <1>1 DEF VarDeclArray, Each
<1>3. Len(steps) = n * 7
  BY <1>1, <1>2
<1>4. \A r \in 0..6 : ElementHeight(r) \in Nat /\ ElementDepth(r) \in Nat
  BY DEF ElementHeight, ElementDepth, Word
<1>5. \A k \in 1..(n * 7 + 1) : (k - 1) % 7 \in 0..6
  OBVIOUS
<1>6. h \in [1..(n * 7 + 1) -> Nat] /\ d \in [1..(n * 7 + 1) -> Nat]
  BY <1>4, <1>5
<1>7. h[1] = 0 /\ d[1] = 0 /\ h[n * 7 + 1] = Net("stmt") /\ d[n * 7 + 1] = 0
  <2>1. 1 \in 1..(n * 7 + 1) /\ n * 7 + 1 \in 1..(n * 7 + 1)
    BY <1>1
  <2>2. (1 - 1) % 7 = 0 /\ (n * 7 + 1 - 1) % 7 = 0
    OBVIOUS
  <2>3. ElementHeight(0) = 0 /\ ElementDepth(0) = 0
    BY DEF ElementHeight, ElementDepth
  <2>4. h[1] = 0 /\ d[1] = 0
    BY <2>1, <2>2, <2>3
  <2>5. h[n * 7 + 1] = 0 /\ d[n * 7 + 1] = 0
    BY <2>1, <2>2, <2>3
  <2> QED
    BY <2>4, <2>5 DEF Net
<1>8. ASSUME NEW k \in 1..(n * 7)
      PROVE  StepOK("stmt", steps[k], h[k], d[k], k \in {}, h[k + 1], d[k + 1], k + 1 \in {})
  <2> DEFINE r == (k - 1) % 7
             q == IF r = 6 THEN 0 ELSE r + 1
  <2>1. r \in 0..6 /\ (k + 1 - 1) % 7 = q
    OBVIOUS
  <2>2. k \in 1..(n * 7 + 1) /\ k + 1 \in 1..(n * 7 + 1)
    BY <1>1
  <2>3. /\ steps[k] = elem[r + 1]
        /\ h[k] = ElementHeight(r) /\ d[k] = ElementDepth(r)
        /\ h[k + 1] = ElementHeight(q) /\ d[k + 1] = ElementDepth(q)
    BY <1>2, <2>1, <2>2
  <2> HIDE DEF r, h, d, steps
  <2>4. \A i \in 0..6 :
          StepOK("stmt", elem[i + 1], ElementHeight(i), ElementDepth(i), k \in {},
                 ElementHeight(IF i = 6 THEN 0 ELSE i + 1),
                 ElementDepth(IF i = 6 THEN 0 ELSE i + 1), k + 1 \in {})
    BY DEF StepOK, ElementHeight, ElementDepth, Word, Push, Top, Track, Expr, Untrack, Pop, Step
  <2> QED
    BY <2>1, <2>3, <2>4
<1>9. ~Holding(steps)
  <2>1. ASSUME NEW k \in 1..(n * 7)
        PROVE  steps[k] # Call /\ steps[1] = Push
    <3>1. ((k - 1) % 7) + 1 \in 1..7 /\ 1 \in 1..(n * 7) /\ ((1 - 1) % 7) + 1 = 1
      OBVIOUS
    <3>2. \A i \in 1..7 : elem[i] # Call
      BY DEF Push, Top, Track, Expr, Untrack, Pop, Call, Step
    <3>3. steps[k] = elem[((k - 1) % 7) + 1] /\ steps[1] = elem[1]
      BY <1>2, <3>1
    <3> QED
      BY <3>1, <3>2, <3>3
  <2>2. ~Contains(steps, Call)
    BY <1>3, <2>1 DEF Contains
  <2>3. steps \notin {Binary, BinaryAssign}
    BY <1>3, <2>1 DEF Binary, BinaryAssign, Push, Expr, Lval, Step
  <2> QED
    BY <2>2, <2>3 DEF Holding
<1>10. \A k \in 1..(n * 7) : steps[k].op \in Children => h[k] = d[k]
  <2> SUFFICES ASSUME NEW k \in 1..(n * 7), steps[k].op \in Children
               PROVE  h[k] = d[k]
    OBVIOUS
  <2> DEFINE r == (k - 1) % 7
  <2>1. r \in 0..6 /\ k \in 1..(n * 7 + 1)
    BY <1>1
  <2>2. steps[k] = elem[r + 1] /\ h[k] = ElementHeight(r) /\ d[k] = ElementDepth(r)
    BY <1>2, <2>1
  <2> HIDE DEF r, h, d, steps
  <2>3. \A i \in 0..6 : elem[i + 1].op \in Children => ElementHeight(i) = ElementDepth(i)
    BY DEF ElementHeight, ElementDepth, Children, Push, Top, Track, Expr, Untrack, Pop, Step
  <2> QED
    BY <2>1, <2>2, <2>3
<1> HIDE DEF steps, h, d
<1>11. \A k \in 1..(n * 7) : ChildAt(steps, k, h[k], d[k])
  BY <1>1, <1>6, <1>9, <1>10, EvenChildren
<1> QED
  BY <1>1, <1>3, <1>6, <1>7, <1>8, <1>11, PlanMade DEF steps

LEMMA CallSteps ==
  ASSUME NEW S, NEW m \in Nat, NEW n \in Nat, NEW arg,
         Each(n, arg) \in Seq(S), Len(Each(n, arg)) = m, Pop \in S, Call \in S, Push \in S
  PROVE  /\ CallWith(arg, n) \in Seq(S)
         /\ Len(CallWith(arg, n)) = m + n + 2
         /\ \A k \in 1..m : CallWith(arg, n)[k] = Each(n, arg)[k]
         /\ \A k \in (m + 1)..(m + n) : CallWith(arg, n)[k] = Pop
         /\ CallWith(arg, n)[m + n + 1] = Call
         /\ CallWith(arg, n)[m + n + 2] = Push
<1> DEFINE args == Each(n, arg)
           pops == Each(n, <<Pop>>)
           last == <<Call, Push>>
<1>1. m \in Nat
  OBVIOUS
<1>5. args \in Seq(S) /\ Len(args) = m
  OBVIOUS
<1>6. pops = [k \in 1..n |-> Pop] /\ pops \in Seq(S) /\ Len(pops) = n
  <2>1. pops = [k \in 1..n |-> Pop]
    BY EachOne
  <2>2. Pop \in S
    OBVIOUS
  <2> HIDE DEF pops
  <2> QED
    BY <2>1, <2>2
<1>7. last \in Seq(S) /\ Len(last) = 2 /\ last[1] = Call /\ last[2] = Push
  OBVIOUS
<1> HIDE DEF args, pops, last
<1> DEFINE front == args \o pops
<1>8. /\ front \in Seq(S) /\ Len(front) = m + n
      /\ \A k \in 1..(m + n) : front[k] = IF k <= m THEN args[k] ELSE pops[k - m]
  BY <1>5, <1>6, ConcatProperties
<1> HIDE DEF front
<1> DEFINE all == front \o last
<1>9. /\ all \in Seq(S) /\ Len(all) = m + n + 2
      /\ \A k \in 1..(m + n + 2) : all[k] = IF k <= m + n THEN front[k] ELSE last[k - (m + n)]
  <2>1. /\ all \in Seq(S) /\ Len(all) = Len(front) + Len(last)
        /\ \A k \in 1..(Len(front) + Len(last)) :
              all[k] = IF k <= Len(front) THEN front[k] ELSE last[k - Len(front)]
    <3>1. front \in Seq(S) /\ last \in Seq(S)
      BY <1>7, <1>8
    <3> QED
      BY <3>1, ConcatProperties, Zenon
  <2> HIDE DEF all
  <2> QED
    BY <1>7, <1>8, <2>1
<1>10. CallWith(arg, n) = all
  BY DEF CallWith, all, front, args, pops, last
<1> HIDE DEF all
<1>11. \A k \in 1..m : all[k] = args[k]
  BY <1>1, <1>8, <1>9
<1>12. \A k \in (m + 1)..(m + n) : all[k] = Pop
  <2>1. ASSUME NEW k \in (m + 1)..(m + n)
        PROVE  all[k] = Pop
    <3>1. k \in 1..(m + n) /\ k - m \in 1..n /\ ~(k <= m) /\ k \in 1..(m + n + 2)
      BY <1>1
    <3>2. all[k] = pops[k - m]
      BY <1>8, <1>9, <3>1
    <3> QED
      BY <1>6, <3>1, <3>2
  <2> QED
    BY <2>1
<1>13. all[m + n + 1] = Call /\ all[m + n + 2] = Push
  <2>1. /\ m + n + 1 \in 1..(m + n + 2) /\ ~(m + n + 1 <= m + n) /\ (m + n + 1) - (m + n) = 1
        /\ m + n + 2 \in 1..(m + n + 2) /\ ~(m + n + 2 <= m + n) /\ (m + n + 2) - (m + n) = 2
    BY <1>1
  <2>2. all[m + n + 1] = last[(m + n + 1) - (m + n)] /\ all[m + n + 2] = last[(m + n + 2) - (m + n)]
    BY <1>9, <2>1
  <2> QED
    BY <1>7, <2>1, <2>2
<1> QED
  BY <1>9, <1>10, <1>11, <1>12, <1>13 DEF args

LEMMA CallPlan ==
  ASSUME NEW n \in Nat
  PROVE  Planned("expr", CallOf(n))
<1> DEFINE steps == CallOf(n)
           len == n + n + 2
           h == [k \in 1..(len + 1) |-> IF k <= n + 1 THEN Word * (k - 1)
                                        ELSE IF k <= n + n + 1 THEN Word * (n + n + 1 - k)
                                        ELSE IF k = len THEN 0 ELSE Word]
           d == [k \in 1..(len + 1) |-> 0]
           g == {len + 1}
<1>1. /\ Len(steps) = len
      /\ \A k \in 1..n : steps[k] = Expr
      /\ \A k \in (n + 1)..(n + n) : steps[k] = Pop
      /\ steps[n + n + 1] = Call /\ steps[n + n + 2] = Push
  <2> DEFINE S == {Expr, Pop, Call, Push}
             arg == <<Expr>>
  <2>1. Expr \in S /\ Pop \in S /\ Call \in S /\ Push \in S
    OBVIOUS
  <2>2. Each(n, arg) = [k \in 1..n |-> Expr]
    BY EachOne
  <2> HIDE DEF S, arg
  <2>3. Each(n, arg) \in Seq(S) /\ Len(Each(n, arg)) = n
    BY <2>1, <2>2
  <2>4. /\ Len(CallWith(arg, n)) = n + n + 2
        /\ \A k \in 1..n : CallWith(arg, n)[k] = Each(n, arg)[k]
        /\ \A k \in (n + 1)..(n + n) : CallWith(arg, n)[k] = Pop
        /\ CallWith(arg, n)[n + n + 1] = Call
        /\ CallWith(arg, n)[n + n + 2] = Push
    BY <2>1, <2>3, CallSteps
  <2> QED
    BY <2>2, <2>4 DEF CallOf, arg
<1>2. h \in [1..(len + 1) -> Nat] /\ d \in [1..(len + 1) -> Nat] /\ len \in Nat
  BY DEF Word
<1>3. /\ h[1] = 0 /\ d[1] = 0 /\ 1 \notin g
      /\ h[len + 1] = Net("expr") /\ d[len + 1] = 0 /\ len + 1 \in g
  BY DEF Word, Net
<1>4. ASSUME NEW k \in 1..len
      PROVE  StepOK("expr", steps[k], h[k], d[k], k \in g, h[k + 1], d[k + 1], k + 1 \in g)
  <2>1. k \in 1..(len + 1) /\ k + 1 \in 1..(len + 1) /\ d[k] = 0 /\ d[k + 1] = 0
    OBVIOUS
  <2>2. CASE k \in 1..n
    <3>1. h[k] = Word * (k - 1) /\ h[k + 1] = Word * k /\ steps[k] = Expr
      BY <1>1, <2>1, <2>2
    <3>2. Word * k = Word * (k - 1) + Word
      BY DEF Word
    <3> QED
      BY <2>1, <3>1, <3>2 DEF StepOK, Expr, Step
  <2>3. CASE k \in (n + 1)..(n + n)
    <3>1. h[k] = Word * (n + n + 1 - k) /\ h[k + 1] = Word * (n + n - k) /\ steps[k] = Pop
      BY <1>1, <2>1, <2>3 DEF Word
    <3>2. Word * (n + n - k) = Word * (n + n + 1 - k) - Word /\ k + 1 \notin g
      BY <2>3 DEF Word
    <3> QED
      BY <2>1, <3>1, <3>2 DEF StepOK, Pop, Step
  <2>4. CASE k = n + n + 1
    <3>1. h[k] = 0 /\ h[k + 1] = 0 /\ steps[k] = Call /\ k + 1 \notin g
      BY <1>1, <2>1, <2>4 DEF Word
    <3> QED
      BY <2>1, <3>1 DEF StepOK, Call, Step
  <2>5. CASE k = n + n + 2
    <3>1. h[k] = 0 /\ h[k + 1] = Word /\ steps[k] = Push
      BY <1>1, <2>1, <2>5 DEF Word
    <3> QED
      BY <2>1, <3>1 DEF StepOK, Push, Step, Word
  <2> QED
    BY <2>2, <2>3, <2>4, <2>5
<1>5. Len(steps) = len
  BY <1>1
<1>7. Holding(steps)
  BY <1>1, <1>5 DEF Holding, Contains
<1>8. ASSUME NEW k \in 1..len
      PROVE  ChildAt(steps, k, h[k], d[k])
  <2> SUFFICES ASSUME steps[k].op \in Children
               PROVE  h[k] = d[k] + Word * Cardinality(Held(steps, k))
    BY DEF ChildAt
  <2> HIDE DEF steps
  <2>1. k \in 1..n
    <3>1. Pop.op \notin Children /\ Call.op \notin Children /\ Push.op \notin Children
      BY DEF Pop, Call, Push, Step, Children
    <3> QED
      BY <1>1, <3>1
  <2>2. Held(steps, k) = 1..(k - 1)
    BY <1>1, <1>7, <2>1 DEF Held
  <2>3. Cardinality(Held(steps, k)) = k - 1
    BY <2>1, <2>2, FS_Interval
  <2>4. k \in 1..(len + 1) /\ h[k] = Word * (k - 1) /\ d[k] = 0
    BY <2>1
  <2> QED
    BY <2>1, <2>3, <2>4 DEF Word
<1> HIDE DEF steps, len, h, d, g
<1>6. Planned("expr", steps)
  BY <1>2, <1>3, <1>4, <1>5, <1>8, PlanMade
<1> QED
  BY <1>6 DEF steps

\* Every third step from the first.
LEMMA Thirds ==
  ASSUME NEW q \in Nat
  PROVE  Cardinality({j \in 1..(3 * q) : (j - 1) % 3 = 0}) = q
<1> DEFINE T == {j \in 1..(3 * q) : (j - 1) % 3 = 0}
           f == [i \in 1..q |-> 3 * i - 2]
<1>1. f \in [1..q -> T]
  <2>1. \A i \in 1..q : 3 * i - 2 \in 1..(3 * q) /\ (3 * i - 2 - 1) % 3 = 0
    OBVIOUS
  <2> QED
    BY <2>1
<1>2. \A i, j \in 1..q : f[i] = f[j] => i = j
  OBVIOUS
<1>3. \A t \in T : \E i \in 1..q : f[i] = t
  <2> SUFFICES ASSUME NEW t \in T
               PROVE  \E i \in 1..q : f[i] = t
    OBVIOUS
  <2>1. t \in 1..(3 * q) /\ (t - 1) % 3 = 0
    OBVIOUS
  <2>2. (t + 2) \div 3 \in 1..q /\ 3 * ((t + 2) \div 3) - 2 = t
    BY <2>1
  <2> QED
    BY <2>2
<1> HIDE DEF f, T
<1>4. f \in Bijection(1..q, T)
  BY <1>1, <1>2, <1>3, Fun_IsBij
<1>5. ExistsBijection(1..q, T)
  BY <1>4 DEF ExistsBijection
<1>6. IsFiniteSet(1..q) /\ Cardinality(1..q) = q
  BY FS_Interval
<1>7. Cardinality(T) = Cardinality(1..q)
  BY <1>5, <1>6, FS_Bijection
<1> QED
  BY <1>6, <1>7 DEF T

LEMMA WideningCallPlan ==
  ASSUME NEW n \in Nat
  PROVE  Planned("expr", WideningCall(n))
<1> DEFINE steps == WideningCall(n)
           arg == <<Expr, Use, Top>>
           m == n * 3
           len == m + n + 2
           h == [k \in 1..(len + 1) |-> IF k <= m + 1 THEN Word * ((k + 1) \div 3)
                                        ELSE IF k <= m + n + 1 THEN Word * (m + n + 1 - k)
                                        ELSE IF k = len THEN 0 ELSE Word]
           d == [k \in 1..(len + 1) |-> 0]
           g == {len + 1}
<1>1. /\ Len(steps) = len
      /\ \A k \in 1..m : steps[k] = arg[((k - 1) % 3) + 1]
      /\ \A k \in (m + 1)..(m + n) : steps[k] = Pop
      /\ steps[m + n + 1] = Call /\ steps[m + n + 2] = Push
  <2> DEFINE S == {Expr, Use, Top, Pop, Call, Push}
  <2>1. arg[1] \in S /\ arg[2] \in S /\ arg[3] \in S /\ Pop \in S /\ Call \in S /\ Push \in S
    OBVIOUS
  <2>2. Len(arg) = 3 /\ m \in Nat
    OBVIOUS
  <2>3. \A k \in 1..m : ((k - 1) % 3) + 1 \in {1, 2, 3}
    OBVIOUS
  <2> HIDE DEF S, arg
  <2>4. Each(n, arg) = [k \in 1..m |-> arg[((k - 1) % 3) + 1]]
    BY <2>2 DEF Each
  <2>5. \A k \in 1..m : arg[((k - 1) % 3) + 1] \in S
    BY <2>1, <2>3
  <2> HIDE DEF m
  <2>6. Each(n, arg) \in Seq(S) /\ Len(Each(n, arg)) = m
    BY <2>2, <2>4, <2>5
  <2>7. /\ Len(CallWith(arg, n)) = m + n + 2
        /\ \A k \in 1..m : CallWith(arg, n)[k] = Each(n, arg)[k]
        /\ \A k \in (m + 1)..(m + n) : CallWith(arg, n)[k] = Pop
        /\ CallWith(arg, n)[m + n + 1] = Call
        /\ CallWith(arg, n)[m + n + 2] = Push
    BY <2>1, <2>2, <2>6, CallSteps
  <2> QED
    BY <2>4, <2>7 DEF WideningCall, arg
<1>2. h \in [1..(len + 1) -> Nat] /\ d \in [1..(len + 1) -> Nat] /\ len \in Nat /\ m \in Nat
  BY DEF Word
<1>3. /\ h[1] = 0 /\ d[1] = 0 /\ 1 \notin g
      /\ h[len + 1] = Net("expr") /\ d[len + 1] = 0 /\ len + 1 \in g
  BY DEF Word, Net
<1>4. ASSUME NEW k \in 1..len
      PROVE  StepOK("expr", steps[k], h[k], d[k], k \in g, h[k + 1], d[k + 1], k + 1 \in g)
  <2>1. k \in 1..(len + 1) /\ k + 1 \in 1..(len + 1) /\ d[k] = 0 /\ d[k + 1] = 0
    BY <1>2
  <2>2. CASE k \in 1..m
    <3> DEFINE r == (k - 1) % 3
    <3>1. h[k] = Word * ((k + 1) \div 3) /\ h[k + 1] = Word * ((k + 2) \div 3)
      BY <1>2, <2>1, <2>2
    <3>2. steps[k] = arg[r + 1] /\ r \in 0..2
      BY <1>1, <2>2
    <3>3. (k + 2) \div 3 = IF r = 0 THEN ((k + 1) \div 3) + 1 ELSE (k + 1) \div 3
      OBVIOUS
    <3>4. k + 1 \notin g
      BY <1>2, <2>2
    <3>5. (k + 1) \div 3 \in Nat
      OBVIOUS
    <3> HIDE DEF r, g, h, d, steps
    <3>6. CASE r = 0
      BY <2>1, <3>1, <3>2, <3>3, <3>5, <3>6 DEF StepOK, Expr, Step, Word
    <3>7. CASE r = 1
      BY <2>1, <3>1, <3>2, <3>3, <3>4, <3>7 DEF StepOK, Use, Step
    <3>8. CASE r = 2
      BY <2>1, <3>1, <3>2, <3>3, <3>8 DEF StepOK, Top, Step
    <3> QED
      BY <3>2, <3>6, <3>7, <3>8
  <2>3. CASE k \in (m + 1)..(m + n)
    <3>1. h[k + 1] = Word * (m + n - k) /\ steps[k] = Pop /\ k + 1 \notin g
      BY <1>1, <1>2, <2>1, <2>3 DEF Word
    <3>2. h[k] = Word * (m + n + 1 - k)
      <4>1. CASE k = m + 1
        <5>1. (k + 1) \div 3 = n
          BY <4>1
        <5> QED
          BY <1>2, <2>1, <4>1, <5>1
      <4>2. CASE k # m + 1
        BY <1>2, <2>1, <2>3, <4>2
      <4> QED
        BY <4>1, <4>2
    <3>3. Word * (m + n - k) = Word * (m + n + 1 - k) - Word
      BY <1>2, <2>3 DEF Word
    <3> QED
      BY <2>1, <3>1, <3>2, <3>3 DEF StepOK, Pop, Step
  <2>4. CASE k = m + n + 1
    <3>1. h[k] = 0
      <4>1. CASE n = 0
        BY <2>1, <2>4, <4>1 DEF Word
      <4>2. CASE n # 0
        BY <1>2, <2>1, <2>4, <4>2 DEF Word
      <4> QED
        BY <4>1, <4>2
    <3>2. h[k + 1] = 0 /\ steps[k] = Call /\ k + 1 \notin g
      BY <1>1, <1>2, <2>1, <2>4 DEF Word
    <3> QED
      BY <2>1, <3>1, <3>2 DEF StepOK, Call, Step
  <2>5. CASE k = m + n + 2
    <3>1. h[k] = 0 /\ h[k + 1] = Word /\ steps[k] = Push
      BY <1>1, <1>2, <2>1, <2>5 DEF Word
    <3> QED
      BY <2>1, <3>1 DEF StepOK, Push, Step, Word
  <2> QED
    BY <1>2, <2>2, <2>3, <2>4, <2>5
<1>5. Len(steps) = len
  BY <1>1
<1>7. Holding(steps)
  BY <1>1, <1>2, <1>5 DEF Holding, Contains
<1>8. ASSUME NEW k \in 1..len
      PROVE  ChildAt(steps, k, h[k], d[k])
  <2> SUFFICES ASSUME steps[k].op \in Children
               PROVE  h[k] = d[k] + Word * Cardinality(Held(steps, k))
    BY DEF ChildAt
  <2>1. \A i \in 1..3 : arg[i].op \in Children <=> i = 1
    BY DEF Expr, Use, Top, Step, Children
  <2>2. \A i \in 1..3 : arg[i] \in {Expr, Lval} <=> i = 1
    BY DEF Expr, Lval, Use, Top, Step
  <2> HIDE DEF steps
  <2>3. k \in 1..m
    <3>1. Pop.op \notin Children /\ Call.op \notin Children /\ Push.op \notin Children
      BY DEF Pop, Call, Push, Step, Children
    <3>2. k \in 1..m \/ k \in (m + 1)..(m + n) \/ k = m + n + 1 \/ k = m + n + 2
      BY <1>2
    <3> QED
      BY <1>1, <3>1, <3>2
  <2>4. (k - 1) % 3 = 0
    <3>1. ((k - 1) % 3) + 1 \in 1..3 /\ steps[k] = arg[((k - 1) % 3) + 1]
      BY <1>1, <2>3
    <3> QED
      BY <2>1, <3>1
  <2> DEFINE q == (k - 1) \div 3
  <2>5. q \in Nat /\ k = 3 * q + 1 /\ (k + 1) \div 3 = q
    BY <2>3, <2>4
  <2>6. \A j \in 1..(3 * q) : steps[j] \in {Expr, Lval} <=> (j - 1) % 3 = 0
    <3> SUFFICES ASSUME NEW j \in 1..(3 * q)
                 PROVE  steps[j] \in {Expr, Lval} <=> (j - 1) % 3 = 0
      OBVIOUS
    <3>1. j \in 1..m /\ ((j - 1) % 3) + 1 \in 1..3
      BY <1>2, <2>3, <2>5
    <3>2. steps[j] = arg[((j - 1) % 3) + 1]
      BY <1>1, <3>1
    <3> QED
      BY <2>2, <3>1, <3>2
  <2>7. Held(steps, k) = {j \in 1..(3 * q) : (j - 1) % 3 = 0}
    <3>1. k - 1 = 3 * q
      BY <2>5
    <3> QED
      BY <1>7, <2>6, <3>1 DEF Held
  <2>8. Cardinality(Held(steps, k)) = q
    BY <2>5, <2>7, Thirds
  <2>9. h[k] = Word * q /\ d[k] = 0
    <3>1. k \in 1..(len + 1) /\ k <= m + 1
      BY <1>2, <2>3
    <3> QED
      BY <2>5, <3>1
  <2> QED
    BY <2>5, <2>8, <2>9 DEF Word
<1> HIDE DEF steps, m, len, h, d, g
<1>6. Planned("expr", steps)
  BY <1>2, <1>3, <1>4, <1>5, <1>8, PlanMade
<1> QED
  BY <1>6 DEF steps

LEMMA Joined ==
  ASSUME NEW S, NEW a \in Seq(S), NEW b \in Seq(S)
  PROVE  /\ a \o b \in Seq(S) /\ Len(a \o b) = Len(a) + Len(b)
         /\ \A k \in 1..Len(a) : (a \o b)[k] = a[k]
         /\ \A k \in 1..Len(b) : (a \o b)[Len(a) + k] = b[k]
<1> DEFINE c == a \o b
<1>1. /\ c \in Seq(S) /\ Len(c) = Len(a) + Len(b)
      /\ \A k \in 1..(Len(a) + Len(b)) : c[k] = IF k <= Len(a) THEN a[k] ELSE b[k - Len(a)]
  BY ConcatProperties, Zenon
<1>2. Len(a) \in Nat /\ Len(b) \in Nat
  BY LenProperties
<1> HIDE DEF c
<1>3. \A k \in 1..Len(a) : c[k] = a[k]
  BY <1>1, <1>2
<1>4. ASSUME NEW k \in 1..Len(b)
      PROVE  c[Len(a) + k] = b[k]
  <2>1. /\ Len(a) + k \in 1..(Len(a) + Len(b)) /\ ~(Len(a) + k <= Len(a))
        /\ (Len(a) + k) - Len(a) = k
    BY <1>2
  <2> QED
    BY <1>1, <2>1
<1> QED
  BY <1>1, <1>3, <1>4 DEF c

\* The steps without a label.
Bare == {Expr, Lval, Stmt, ForInit, Push, Pop, SetOne, Top, Other, Test, Use, Load, Track, Untrack,
         Call, Number, Pass}

LEMMA StepTypes ==
  /\ NoLabel \in LabelT
  /\ Bare \subseteq StepT
  /\ {Expr, Pop, Pass, Stmt} \subseteq StepT
  /\ \A s \in Bare : s.op \notin {"jump", "jumpif", "place"} /\ s.label = NoLabel
  /\ \A l \in LabelT : JumpIf(l) \in StepT /\ Jump(l) \in StepT /\ Place(l) \in StepT
<1>1. NoLabel \in LabelT
  BY DEF NoLabel, Label, LabelT, LabelSuffixes
<1>2. \A o \in Ops : Step(o) \in StepT
  BY <1>1 DEF Step, StepT
<1>3. Bare \subseteq StepT
  BY <1>2 DEF Bare, Expr, Lval, Stmt, ForInit, Push, Pop, SetOne, Top, Other, Test, Use, Load, Track,
              Untrack, Call, Number, Pass, Ops
<1>4. {Expr, Pop, Pass, Stmt} \subseteq StepT
  BY <1>3 DEF Bare
<1>5. \A s \in Bare : s.op \notin {"jump", "jumpif", "place"} /\ s.label = NoLabel
  BY DEF Bare, Expr, Lval, Stmt, ForInit, Push, Pop, SetOne, Top, Other, Test, Use, Load, Track,
         Untrack, Call, Number, Pass, Step
<1>6. \A l \in LabelT : JumpIf(l) \in StepT /\ Jump(l) \in StepT /\ Place(l) \in StepT
  BY DEF JumpIf, Jump, Place, StepT, Ops
<1> QED
  BY <1>1, <1>3, <1>4, <1>5, <1>6

\* The parts of a switch statement: the tests and the jump behind them, the items and
\* the end.
ItemLabel(items, n, i) == Label(items[i], "none", n + i)

LEMMA SwitchSteps ==
  ASSUME NEW m \in Nat, NEW items \in [1..m -> {"case", "default", "stmt"}], NEW n \in Nat
  PROVE  LET s == Switch(items, n)
         IN  /\ s \in Seq(StepT) /\ Len(s) = m + m + 4
             /\ s[1] = Expr /\ s[2] = Pop
             /\ \A i \in 1..m : s[2 + i] = When(items[i] = "case", JumpIf(ItemLabel(items, n, i)))
             /\ \/ s[m + 3] = Jump(End("switch", n))
                \/ \E i \in 1..m : items[i] = "default" /\ s[m + 3] = Jump(ItemLabel(items, n, i))
             /\ \A i \in 1..m : s[m + 3 + i] = IF items[i] = "stmt" THEN Stmt
                                               ELSE Place(ItemLabel(items, n, i))
             /\ s[m + m + 4] = Place(End("switch", n))
<1> DEFINE label(i) == Label(items[i], "none", n + i)
           Default(i) == items[i] = "default" /\ \A j \in 1..(i - 1) : items[j] # "default"
           fallback == IF \E i \in DOMAIN items : Default(i)
                       THEN label(CHOOSE i \in DOMAIN items : Default(i))
                       ELSE End("switch", n)
           start == <<Expr, Pop>>
           tests == [i \in DOMAIN items |-> When(items[i] = "case", JumpIf(label(i)))]
           leap == <<Jump(fallback)>>
           parts == [i \in DOMAIN items |-> IF items[i] = "stmt" THEN Stmt ELSE Place(label(i))]
           end == <<Place(End("switch", n))>>
<1>1. Switch(items, n) = start \o tests \o leap \o parts \o end
  BY DEF Switch
<1>2. \A i \in 1..m : items[i] # "stmt" => label(i) \in LabelT
  BY DEF Label, LabelT, Titled, LabelSuffixes
<1>3. End("switch", n) \in LabelT
  BY DEF End, Label, LabelT, Titled, LabelSuffixes
<1>4. fallback \in LabelT /\ (\/ fallback = End("switch", n)
                               \/ \E i \in 1..m : items[i] = "default" /\ fallback = label(i))
  <2>1. CASE \E i \in DOMAIN items : Default(i)
    <3> DEFINE i == CHOOSE i \in DOMAIN items : Default(i)
    <3>1. i \in DOMAIN items /\ items[i] = "default" /\ fallback = label(i)
      BY <2>1, Zenon
    <3>2. DOMAIN items = 1..m /\ "default" # "stmt"
      OBVIOUS
    <3> HIDE DEF i
    <3> QED
      BY <1>2, <3>1, <3>2
  <2>2. CASE ~(\E i \in DOMAIN items : Default(i))
    BY <1>3, <2>2
  <2> QED
    BY <2>1, <2>2
<1>6. {Expr, Pop, Pass, Stmt} \subseteq StepT
  BY StepTypes
<1>7. \A l \in LabelT : JumpIf(l) \in StepT /\ Jump(l) \in StepT /\ Place(l) \in StepT
  BY StepTypes
<1> HIDE DEF fallback, Default
<1>8. start \in Seq(StepT) /\ Len(start) = 2 /\ start[1] = Expr /\ start[2] = Pop
  BY <1>6
<1>9. leap \in Seq(StepT) /\ Len(leap) = 1 /\ leap[1] = Jump(fallback)
  BY <1>4, <1>7
<1>10. end \in Seq(StepT) /\ Len(end) = 1 /\ end[1] = Place(End("switch", n))
  BY <1>3, <1>7
<1>11. /\ tests \in Seq(StepT) /\ Len(tests) = m
       /\ \A i \in 1..m : tests[i] = When(items[i] = "case", JumpIf(ItemLabel(items, n, i)))
  <2>1. \A i \in 1..m : When(items[i] = "case", JumpIf(label(i))) \in StepT
    BY <1>2, <1>6, <1>7 DEF When
  <2> QED
    BY <2>1 DEF ItemLabel
<1>12. /\ parts \in Seq(StepT) /\ Len(parts) = m
       /\ \A i \in 1..m : parts[i] = IF items[i] = "stmt" THEN Stmt ELSE Place(ItemLabel(items, n, i))
  <2>1. \A i \in 1..m : (IF items[i] = "stmt" THEN Stmt ELSE Place(label(i))) \in StepT
    BY <1>2, <1>6, <1>7
  <2> QED
    BY <2>1 DEF ItemLabel
<1> HIDE DEF start, tests, leap, parts, end
<1> DEFINE two == start \o tests
           three == two \o leap
           four == three \o parts
           five == four \o end
<1>13. /\ two \in Seq(StepT) /\ Len(two) = m + 2
       /\ \A k \in 1..2 : two[k] = start[k]
       /\ \A k \in 1..m : two[2 + k] = tests[k]
  <2>1. start \in Seq(StepT) /\ tests \in Seq(StepT)
    BY <1>8, <1>11
  <2>2. /\ two \in Seq(StepT) /\ Len(two) = Len(start) + Len(tests)
        /\ \A k \in 1..Len(start) : two[k] = start[k]
        /\ \A k \in 1..Len(tests) : two[Len(start) + k] = tests[k]
    BY <2>1, Joined
  <2> HIDE DEF two
  <2> QED
    BY <1>8, <1>11, <2>2
<1> HIDE DEF two
<1>14. /\ three \in Seq(StepT) /\ Len(three) = m + 3
       /\ \A k \in 1..(m + 2) : three[k] = two[k]
       /\ \A k \in 1..1 : three[m + 2 + k] = leap[k]
  <2>1. two \in Seq(StepT) /\ leap \in Seq(StepT)
    BY <1>9, <1>13
  <2>2. /\ three \in Seq(StepT) /\ Len(three) = Len(two) + Len(leap)
        /\ \A k \in 1..Len(two) : three[k] = two[k]
        /\ \A k \in 1..Len(leap) : three[Len(two) + k] = leap[k]
    BY <2>1, Joined
  <2> HIDE DEF three
  <2> QED
    BY <1>9, <1>13, <2>2
<1> HIDE DEF three
<1>15. /\ four \in Seq(StepT) /\ Len(four) = m + m + 3
       /\ \A k \in 1..(m + 3) : four[k] = three[k]
       /\ \A k \in 1..m : four[m + 3 + k] = parts[k]
  <2>1. three \in Seq(StepT) /\ parts \in Seq(StepT)
    BY <1>12, <1>14
  <2>2. /\ four \in Seq(StepT) /\ Len(four) = Len(three) + Len(parts)
        /\ \A k \in 1..Len(three) : four[k] = three[k]
        /\ \A k \in 1..Len(parts) : four[Len(three) + k] = parts[k]
    BY <2>1, Joined
  <2> HIDE DEF four
  <2> QED
    BY <1>12, <1>14, <2>2
<1> HIDE DEF four
<1>16. /\ five \in Seq(StepT) /\ Len(five) = m + m + 4
       /\ \A k \in 1..(m + m + 3) : five[k] = four[k]
       /\ \A k \in 1..1 : five[m + m + 3 + k] = end[k]
  <2>1. four \in Seq(StepT) /\ end \in Seq(StepT)
    BY <1>10, <1>15
  <2>2. /\ five \in Seq(StepT) /\ Len(five) = Len(four) + Len(end)
        /\ \A k \in 1..Len(four) : five[k] = four[k]
        /\ \A k \in 1..Len(end) : five[Len(four) + k] = end[k]
    BY <2>1, Joined
  <2> HIDE DEF five
  <2> QED
    BY <1>10, <1>15, <2>2
<1>17. Switch(items, n) = five
  BY <1>1 DEF five, four, three, two
<1> HIDE DEF five
<1>18. five[1] = Expr /\ five[2] = Pop
  BY <1>8, <1>13, <1>14, <1>15, <1>16
<1>19. \A i \in 1..m : five[2 + i] = tests[i]
  <2>1. \A i \in 1..m : 2 + i \in 1..(m + 2) /\ 2 + i \in 1..(m + 3) /\ 2 + i \in 1..(m + m + 3)
    OBVIOUS
  <2> QED
    BY <2>1, <1>13, <1>14, <1>15, <1>16
<1>20. five[m + 3] = Jump(fallback)
  BY <1>9, <1>14, <1>15, <1>16
<1>21. \A i \in 1..m : five[m + 3 + i] = parts[i]
  BY <1>15, <1>16
<1>22. five[m + m + 4] = Place(End("switch", n))
  BY <1>10, <1>16
<1>23. \/ five[m + 3] = Jump(End("switch", n))
       \/ \E i \in 1..m : items[i] = "default" /\ five[m + 3] = Jump(ItemLabel(items, n, i))
  BY <1>4, <1>20 DEF ItemLabel
<1>24. \A i \in 1..m : five[2 + i] = When(items[i] = "case", JumpIf(ItemLabel(items, n, i)))
  BY <1>11, <1>19
<1>25. \A i \in 1..m : five[m + 3 + i] = IF items[i] = "stmt" THEN Stmt
                                         ELSE Place(ItemLabel(items, n, i))
  BY <1>12, <1>21
<1> QED
  BY <1>16, <1>17, <1>18, <1>22, <1>23, <1>24, <1>25

LEMMA SwitchPlan ==
  ASSUME NEW m \in Nat, NEW items \in [1..m -> {"case", "default", "stmt"}], NEW n \in Nat
  PROVE  Planned("stmt", Switch(items, n))
<1> DEFINE s == Switch(items, n)
           len == m + m + 4
           h == [k \in 1..(len + 1) |-> IF k = 2 THEN 8 ELSE 0]
           d == [k \in 1..(len + 1) |-> 0]
           g == {}
<1>1. /\ Len(s) = len
      /\ s[1] = Expr /\ s[2] = Pop
      /\ \A i \in 1..m : s[2 + i] = When(items[i] = "case", JumpIf(ItemLabel(items, n, i)))
      /\ \/ s[m + 3] = Jump(End("switch", n))
         \/ \E i \in 1..m : items[i] = "default" /\ s[m + 3] = Jump(ItemLabel(items, n, i))
      /\ \A i \in 1..m : s[m + 3 + i] = IF items[i] = "stmt" THEN Stmt
                                        ELSE Place(ItemLabel(items, n, i))
      /\ s[m + m + 4] = Place(End("switch", n))
  BY SwitchSteps, Zenon
<1>2. h \in [1..(len + 1) -> Nat] /\ d \in [1..(len + 1) -> Nat] /\ len \in Nat
  OBVIOUS
<1>3. h[1] = 0 /\ d[1] = 0 /\ 1 \notin g /\ h[len + 1] = Net("stmt") /\ d[len + 1] = 0
  BY DEF Net
<1>4. \A i \in 1..m : ~Valued(ItemLabel(items, n, i))
  BY DEF Valued, ItemLabel, Label
<1>5. ~Valued(End("switch", n))
  BY DEF Valued, End, Label
<1> HIDE DEF s
<1>12. ASSUME NEW k \in 3..len
       PROVE  \/ s[k] = Pass \/ s[k] = Stmt
              \/ \E l : ~Valued(l) /\ s[k] \in {JumpIf(l), Jump(l), Place(l)}
  <2>1. CASE k \in 3..(m + 2)
    <3>1. k - 2 \in 1..m /\ 2 + (k - 2) = k
      BY <2>1
    <3>2. s[k] = When(items[k - 2] = "case", JumpIf(ItemLabel(items, n, k - 2)))
      BY <1>1, <3>1
    <3> QED
      BY <1>4, <3>1, <3>2 DEF When
  <2>2. CASE k = m + 3
    BY <1>1, <1>4, <1>5, <2>2
  <2>3. CASE k \in (m + 4)..(m + m + 3)
    <3>1. k - (m + 3) \in 1..m /\ m + 3 + (k - (m + 3)) = k
      BY <2>3
    <3>2. s[k] = IF items[k - (m + 3)] = "stmt" THEN Stmt ELSE Place(ItemLabel(items, n, k - (m + 3)))
      BY <1>1, <3>1
    <3> QED
      BY <1>4, <3>1, <3>2
  <2>4. CASE k = m + m + 4
    BY <1>1, <1>5, <2>4
  <2> QED
    BY <2>1, <2>2, <2>3, <2>4
<1>6. ASSUME NEW k \in 1..len
      PROVE  StepOK("stmt", s[k], h[k], d[k], k \in g, h[k + 1], d[k + 1], k + 1 \in g)
  <2>1. k \in 1..(len + 1) /\ k + 1 \in 1..(len + 1) /\ d[k] = 0 /\ d[k + 1] = 0
    BY <1>2
  <2>2. CASE k = 1
    BY <1>1, <2>1, <2>2 DEF StepOK, Expr, Step, Word
  <2>3. CASE k = 2
    BY <1>1, <2>1, <2>3 DEF StepOK, Pop, Step, Word
  <2>4. CASE k \in 3..len
    <3>1. h[k] = 0 /\ h[k + 1] = 0
      BY <2>1, <2>4
    <3> HIDE DEF h, d, g
    <3>3. k \notin g /\ k + 1 \notin g
      BY DEF g
    <3> QED
      BY <1>12, <2>1, <2>4, <3>1, <3>3 DEF StepOK, Pass, Stmt, Step, JumpIf, Jump, Place, LabelAt, LabelHeight
  <2> QED
    BY <2>2, <2>3, <2>4
<1>7. Len(s) = len
  BY <1>1
<1>9. ~Holding(s)
  <2>1. s \notin {Binary, BinaryAssign}
    BY <1>1 DEF Binary, BinaryAssign, Expr, Lval, Pop, Step
  <2>2. \A k \in 1..len : s[k] # Call
    <3>1. \A k \in 3..len : s[k] # Call
      BY <1>12 DEF Pass, Stmt, Step, JumpIf, Jump, Place, Call
    <3>2. s[1] # Call /\ s[2] # Call
      BY <1>1 DEF Expr, Pop, Call, Step
    <3> QED
      BY <1>2, <3>1, <3>2
  <2> QED
    BY <1>7, <2>1, <2>2 DEF Holding, Contains
<1>10. \A k \in 1..len : s[k].op \in Children => h[k] = d[k]
  <2>1. \A k \in 1..len : h[k] = IF k = 2 THEN 8 ELSE 0
    BY <1>2
  <2>2. \A k \in 1..len : d[k] = 0
    BY <1>2
  <2>3. s[2].op \notin Children
    BY <1>1 DEF Pop, Step, Children
  <2> QED
    BY <2>1, <2>2, <2>3
<1> HIDE DEF len, h, d, g
<1>11. \A k \in 1..len : ChildAt(s, k, h[k], d[k])
  BY <1>2, <1>9, <1>10, EvenChildren
<1>8. Planned("stmt", s)
  BY <1>2, <1>3, <1>6, <1>7, <1>11, PlanMade
<1> QED
  BY <1>8 DEF s

-----------------------------------------------------------------------------
(* The labels of every node's emission.                                    *)

\* A node places the labels in own, each of them once, and jumps to no others but
\* those in outer.
Tidy(steps, own, outer) ==
  /\ steps \in Seq(StepT)
  /\ \A k \in DOMAIN steps :
       /\ steps[k].label # NoLabel <=> Jumps(steps[k]) \/ steps[k].op = "place"
       /\ Jumps(steps[k]) => steps[k].label \in own \cup outer
       /\ steps[k].op = "place" => steps[k].label \in own
  /\ \A l \in own : \E k \in DOMAIN steps : steps[k] = Place(l)
  /\ \A k, m \in DOMAIN steps :
       steps[k].op = "place" /\ steps[m].op = "place" /\ steps[k].label = steps[m].label => k = m

LEMMA BareTidy ==
  ASSUME NEW steps \in Seq(Bare)
  PROVE  Tidy(steps, {}, {})
<1>1. steps \in Seq(StepT)
  BY StepTypes
<1>2. \A k \in DOMAIN steps : steps[k] \in Bare
  BY ElementOfSeq
<1>3. \A k \in DOMAIN steps :
        steps[k].op \notin {"jump", "jumpif", "place"} /\ steps[k].label = NoLabel
  BY <1>2, StepTypes
<1> QED
  BY <1>1, <1>3 DEF Tidy, Jumps

LEMMA TidyLvals ==
  \A steps \in Lvals : Tidy(steps, {}, {})
<1>1. Leaf \in Seq(Bare) /\ LvalDeref \in Seq(Bare) /\ LvalAttr \in Seq(Bare)
  BY DEF Leaf, LvalDeref, LvalAttr, Bare
<1> QED
  BY <1>1, BareTidy DEF Lvals

LEMMA TidyExprs ==
  \A steps \in Exprs : Tidy(steps, {}, {})
<1>1. /\ Leaf \in Seq(Bare) /\ Comma \in Seq(Bare) /\ Assign \in Seq(Bare)
      /\ Deref \in Seq(Bare) /\ AddrOf \in Seq(Bare) /\ Attr \in Seq(Bare)
      /\ Cast \in Seq(Bare) /\ Not \in Seq(Bare) /\ Complement \in Seq(Bare)
      /\ PreIncr \in Seq(Bare) /\ PostIncr \in Seq(Bare) /\ Shift \in Seq(Bare)
      /\ ShiftAssign \in Seq(Bare) /\ Binary \in Seq(Bare) /\ BinaryAssign \in Seq(Bare)
  BY DEF Leaf, Comma, Assign, Deref, AddrOf, Attr, Cast, Not, Complement,
         PreIncr, PostIncr, Shift, ShiftAssign, Binary, BinaryAssign, Bare
<1>2. Pop \in Bare /\ Call \in Bare /\ Push \in Bare
  BY DEF Bare
<1>3. ASSUME NEW n \in Nat
      PROVE  CallOf(n) \in Seq(Bare)
  <2>1. Expr \in Bare
    BY DEF Bare
  <2>2. Each(n, <<Expr>>) = [k \in 1..n |-> Expr]
    BY EachOne
  <2>3. Each(n, <<Expr>>) \in Seq(Bare) /\ Len(Each(n, <<Expr>>)) = n
    BY <2>1, <2>2
  <2>4. CallWith(<<Expr>>, n) \in Seq(Bare)
    BY <1>2, <2>3, CallSteps
  <2> QED
    BY <2>4 DEF CallOf
<1>4. ASSUME NEW n \in Nat
      PROVE  WideningCall(n) \in Seq(Bare)
  <2> DEFINE arg == <<Expr, Use, Top>>
  <2>1. arg[1] \in Bare /\ arg[2] \in Bare /\ arg[3] \in Bare /\ Len(arg) = 3
    BY DEF Bare
  <2>2. n * 3 \in Nat /\ \A k \in 1..(n * 3) : ((k - 1) % 3) + 1 \in {1, 2, 3}
    OBVIOUS
  <2> HIDE DEF arg
  <2>5. \A k \in 1..(n * 3) : arg[((k - 1) % 3) + 1] \in Bare
    BY <2>1, <2>2
  <2>6. Each(n, arg) = [k \in 1..(n * 3) |-> arg[((k - 1) % 3) + 1]]
    BY <2>1 DEF Each
  <2>3. Each(n, arg) \in Seq(Bare) /\ Len(Each(n, arg)) = n * 3
    BY <2>2, <2>5, <2>6
  <2>4. CallWith(arg, n) \in Seq(Bare)
    BY <1>2, <2>2, <2>3, CallSteps
  <2> QED
    BY <2>4 DEF WideningCall, arg
<1>5. MaxArgs \in Nat
  BY CodegenAssumption
<1>6. ASSUME NEW steps \in Exprs
      PROVE  steps \in Seq(Bare)
  <2>1. CASE steps \in {Leaf, Comma, Assign, Deref, AddrOf, Attr, Cast, Not, Complement,
                        PreIncr, PostIncr, Shift, ShiftAssign, Binary, BinaryAssign}
    BY <1>1, <2>1, Zenon
  <2>2. ASSUME NEW args \in 0..MaxArgs, steps = CallOf(args)
        PROVE  steps \in Seq(Bare)
    BY <1>3, <1>5, <2>2
  <2>3. ASSUME NEW args \in 1..MaxArgs, steps = WideningCall(args)
        PROVE  steps \in Seq(Bare)
    BY <1>4, <1>5, <2>3
  <2> QED
    BY <2>1, <2>2, <2>3 DEF Exprs
<1> QED
  BY <1>6, BareTidy

LEMMA TidyStmts ==
  /\ \A steps \in Inits : Tidy(steps, {}, {})
  /\ \A steps \in {ExprStmt, VarDecl, VarDeclBare} : Tidy(steps, {}, {})
  /\ \A n \in Nat : Tidy(Block(n), {}, {}) /\ Tidy(VarDeclArray(n), {}, {})
<1>1. ExprStmt \in Seq(Bare) /\ VarDecl \in Seq(Bare) /\ VarDeclBare \in Seq(Bare)
  BY DEF ExprStmt, VarDecl, VarDeclBare, Bare
<1>2. ASSUME NEW n \in Nat
      PROVE  Block(n) \in Seq(Bare)
  <2>1. Stmt \in Bare
    BY DEF Bare
  <2>2. Each(n, <<Stmt>>) = [k \in 1..n |-> Stmt]
    BY EachOne
  <2> QED
    BY <2>1, <2>2 DEF Block
<1>3. ASSUME NEW n \in Nat
      PROVE  VarDeclArray(n) \in Seq(Bare)
  <2> DEFINE elem == <<Push, Top, Track, Expr, Untrack, Pop, Pop>>
  <2>1. (\A i \in 1..7 : elem[i] \in Bare) /\ Len(elem) = 7
    BY DEF Bare
  <2>2. n * 7 \in Nat /\ \A k \in 1..(n * 7) : ((k - 1) % 7) + 1 \in 1..7
    OBVIOUS
  <2> HIDE DEF elem
  <2>5. \A k \in 1..(n * 7) : elem[((k - 1) % 7) + 1] \in Bare
    BY <2>1, <2>2
  <2>6. Each(n, elem) = [k \in 1..(n * 7) |-> elem[((k - 1) % 7) + 1]]
    BY <2>1 DEF Each
  <2>3. Each(n, elem) \in Seq(Bare)
    BY <2>2, <2>5, <2>6
  <2> QED
    BY <2>3 DEF VarDeclArray, elem
<1> QED
  BY <1>1, <1>2, <1>3, BareTidy DEF Inits

LEMMA TidyMade ==
  ASSUME NEW s \in Seq(StepT), NEW n, Len(s) = n, NEW own,
         \A k \in 1..n : /\ s[k].label # NoLabel <=> Jumps(s[k]) \/ s[k].op = "place"
                         /\ Jumps(s[k]) => s[k].label \in own
                         /\ s[k].op = "place" => s[k].label \in own,
         \A l \in own : \E k \in 1..n : s[k] = Place(l),
         \A k, m \in 1..n :
           s[k].op = "place" /\ s[m].op = "place" /\ s[k].label = s[m].label => k = m
  PROVE  Tidy(s, own, {})
<1>1. DOMAIN s = 1..n
  OBVIOUS
<1> QED
  BY <1>1, Zenon DEF Tidy

LEMMA TidyNumbered ==
  ASSUME NEW n \in Nat
  PROVE  /\ Tidy(Cond(n), {Label("cond", "_else", n), Label("cond", "_end", n)}, {})
         /\ Tidy(LogAnd(n), {Label("Land", "_end", n)}, {})
         /\ Tidy(LogOr(n), {Label("Lor", "_true", n), Label("Lor", "_end", n)}, {})
         /\ Tidy(If(n), {Label("end_if", "none", n)}, {})
         /\ Tidy(IfElse(n), {Label("else", "none", n), Label("end_if", "none", n)}, {})
<1>1. Tidy(Cond(n), {Label("cond", "_else", n), Label("cond", "_end", n)}, {})
  <2> DEFINE s == Cond(n)
             own == {Label("cond", "_else", n), Label("cond", "_end", n)}
  <2>1. own \subseteq LabelT
    BY DEF Label, LabelT, Counted, LabelSuffixes
  <2>2. Len(s) = 8
    BY DEF Cond
  <2>3. \A k \in 1..8 : s[k] \in StepT
    BY <2>1, StepTypes DEF Cond, Bare
  <2>4. \A k \in 1..8 :
          /\ s[k].label # NoLabel <=> Jumps(s[k]) \/ s[k].op = "place"
          /\ Jumps(s[k]) => s[k].label \in own
          /\ s[k].op = "place" => s[k].label \in own
    BY DEF Cond, Jumps, Expr, Stmt, Pop, SetOne, Test, Step, JumpIf, Jump, Place, Label,
           NoLabel
  <2>5. \A l \in own : \E k \in 1..8 : s[k] = Place(l)
    BY DEF Cond
  <2>6. \A k, m \in 1..8 :
          s[k].op = "place" /\ s[m].op = "place" /\ s[k].label = s[m].label => k = m
    BY DEF Cond, Jumps, Expr, Stmt, Pop, SetOne, Test, Step, JumpIf, Jump, Place, Label,
           NoLabel
  <2>7. s \in Seq(StepT)
    BY <2>2, <2>3 DEF Cond
  <2> HIDE DEF s, own
  <2>8. Tidy(s, own, {})
    BY <2>2, <2>4, <2>5, <2>6, <2>7, TidyMade
  <2> QED
    BY <2>8 DEF s, own
<1>2. Tidy(LogAnd(n), {Label("Land", "_end", n)}, {})
  <2> DEFINE s == LogAnd(n)
             own == {Label("Land", "_end", n)}
  <2>1. own \subseteq LabelT
    BY DEF Label, LabelT, Counted, LabelSuffixes
  <2>2. Len(s) = 9
    BY DEF LogAnd
  <2>3. \A k \in 1..9 : s[k] \in StepT
    BY <2>1, StepTypes DEF LogAnd, Bare
  <2>4. \A k \in 1..9 :
          /\ s[k].label # NoLabel <=> Jumps(s[k]) \/ s[k].op = "place"
          /\ Jumps(s[k]) => s[k].label \in own
          /\ s[k].op = "place" => s[k].label \in own
    BY DEF LogAnd, Jumps, Expr, Stmt, Pop, SetOne, Test, Step, JumpIf, Jump, Place, Label,
           NoLabel
  <2>5. \A l \in own : \E k \in 1..9 : s[k] = Place(l)
    BY DEF LogAnd
  <2>6. \A k, m \in 1..9 :
          s[k].op = "place" /\ s[m].op = "place" /\ s[k].label = s[m].label => k = m
    BY DEF LogAnd, Jumps, Expr, Stmt, Pop, SetOne, Test, Step, JumpIf, Jump, Place, Label,
           NoLabel
  <2>7. s \in Seq(StepT)
    BY <2>2, <2>3 DEF LogAnd
  <2> HIDE DEF s, own
  <2>8. Tidy(s, own, {})
    BY <2>2, <2>4, <2>5, <2>6, <2>7, TidyMade
  <2> QED
    BY <2>8 DEF s, own
<1>3. Tidy(LogOr(n), {Label("Lor", "_true", n), Label("Lor", "_end", n)}, {})
  <2> DEFINE s == LogOr(n)
             own == {Label("Lor", "_true", n), Label("Lor", "_end", n)}
  <2>1. own \subseteq LabelT
    BY DEF Label, LabelT, Counted, LabelSuffixes
  <2>2. Len(s) = 10
    BY DEF LogOr
  <2>3. \A k \in 1..10 : s[k] \in StepT
    BY <2>1, StepTypes DEF LogOr, Bare
  <2>4. \A k \in 1..10 :
          /\ s[k].label # NoLabel <=> Jumps(s[k]) \/ s[k].op = "place"
          /\ Jumps(s[k]) => s[k].label \in own
          /\ s[k].op = "place" => s[k].label \in own
    BY DEF LogOr, Jumps, Expr, Stmt, Pop, SetOne, Test, Step, JumpIf, Jump, Place, Label,
           NoLabel
  <2>5. \A l \in own : \E k \in 1..10 : s[k] = Place(l)
    BY DEF LogOr
  <2>6. \A k, m \in 1..10 :
          s[k].op = "place" /\ s[m].op = "place" /\ s[k].label = s[m].label => k = m
    BY DEF LogOr, Jumps, Expr, Stmt, Pop, SetOne, Test, Step, JumpIf, Jump, Place, Label,
           NoLabel
  <2>7. s \in Seq(StepT)
    BY <2>2, <2>3 DEF LogOr
  <2> HIDE DEF s, own
  <2>8. Tidy(s, own, {})
    BY <2>2, <2>4, <2>5, <2>6, <2>7, TidyMade
  <2> QED
    BY <2>8 DEF s, own
<1>4. Tidy(If(n), {Label("end_if", "none", n)}, {})
  <2> DEFINE s == If(n)
             own == {Label("end_if", "none", n)}
  <2>1. own \subseteq LabelT
    BY DEF Label, LabelT, Counted, LabelSuffixes
  <2>2. Len(s) = 5
    BY DEF If
  <2>3. \A k \in 1..5 : s[k] \in StepT
    BY <2>1, StepTypes DEF If, Bare
  <2>4. \A k \in 1..5 :
          /\ s[k].label # NoLabel <=> Jumps(s[k]) \/ s[k].op = "place"
          /\ Jumps(s[k]) => s[k].label \in own
          /\ s[k].op = "place" => s[k].label \in own
    BY DEF If, Jumps, Expr, Stmt, Pop, SetOne, Test, Step, JumpIf, Jump, Place, Label,
           NoLabel
  <2>5. \A l \in own : \E k \in 1..5 : s[k] = Place(l)
    BY DEF If
  <2>6. \A k, m \in 1..5 :
          s[k].op = "place" /\ s[m].op = "place" /\ s[k].label = s[m].label => k = m
    BY DEF If, Jumps, Expr, Stmt, Pop, SetOne, Test, Step, JumpIf, Jump, Place, Label,
           NoLabel
  <2>7. s \in Seq(StepT)
    BY <2>2, <2>3 DEF If
  <2> HIDE DEF s, own
  <2>8. Tidy(s, own, {})
    BY <2>2, <2>4, <2>5, <2>6, <2>7, TidyMade
  <2> QED
    BY <2>8 DEF s, own
<1>5. Tidy(IfElse(n), {Label("else", "none", n), Label("end_if", "none", n)}, {})
  <2> DEFINE s == IfElse(n)
             own == {Label("else", "none", n), Label("end_if", "none", n)}
  <2>1. own \subseteq LabelT
    BY DEF Label, LabelT, Counted, LabelSuffixes
  <2>2. Len(s) = 8
    BY DEF IfElse
  <2>3. \A k \in 1..8 : s[k] \in StepT
    BY <2>1, StepTypes DEF IfElse, Bare
  <2>4. \A k \in 1..8 :
          /\ s[k].label # NoLabel <=> Jumps(s[k]) \/ s[k].op = "place"
          /\ Jumps(s[k]) => s[k].label \in own
          /\ s[k].op = "place" => s[k].label \in own
    BY DEF IfElse, Jumps, Expr, Stmt, Pop, SetOne, Test, Step, JumpIf, Jump, Place, Label,
           NoLabel
  <2>5. \A l \in own : \E k \in 1..8 : s[k] = Place(l)
    BY DEF IfElse
  <2>6. \A k, m \in 1..8 :
          s[k].op = "place" /\ s[m].op = "place" /\ s[k].label = s[m].label => k = m
    BY DEF IfElse, Jumps, Expr, Stmt, Pop, SetOne, Test, Step, JumpIf, Jump, Place, Label,
           NoLabel
  <2>7. s \in Seq(StepT)
    BY <2>2, <2>3 DEF IfElse
  <2> HIDE DEF s, own
  <2>8. Tidy(s, own, {})
    BY <2>2, <2>4, <2>5, <2>6, <2>7, TidyMade
  <2> QED
    BY <2>8 DEF s, own
<1> QED
  BY <1>1, <1>2, <1>3, <1>4, <1>5

LEMMA TidyLoops ==
  ASSUME NEW n \in Nat, NEW clauses
  PROVE  /\ Tidy(While(n), {Cont("while", n), End("while", n)}, {})
         /\ Tidy(DoWhile(n), {Start("dowhile", n), Cont("dowhile", n), End("dowhile", n)}, {})
         /\ Tidy(For(clauses, n), {Start("for", n), Cont("for", n), End("for", n)}, {})
<1>1. Tidy(While(n), {Cont("while", n), End("while", n)}, {})
  <2> DEFINE s == While(n)
             own == {Cont("while", n), End("while", n)}
  <2>1. own \subseteq LabelT
    BY DEF Cont, End, Start, Label, LabelT, Titled, LabelSuffixes
  <2>2. Len(s) = 7
    BY DEF While
  <2>3. \A k \in 1..7 : s[k] \in StepT
    BY <2>1, StepTypes DEF While, Bare
  <2>4. \A k \in 1..7 :
          /\ s[k].label # NoLabel <=> Jumps(s[k]) \/ s[k].op = "place"
          /\ Jumps(s[k]) => s[k].label \in own
          /\ s[k].op = "place" => s[k].label \in own
    BY DEF While, Jumps, Expr, Stmt, Pop, SetOne, Test, Step, JumpIf, Jump, Place, Label,
           NoLabel, Cont, End, Start, Number, ForInit, Pass, When
  <2>5. \A l \in own : \E k \in 1..7 : s[k] = Place(l)
    BY DEF While
  <2>6. \A k, m \in 1..7 :
          s[k].op = "place" /\ s[m].op = "place" /\ s[k].label = s[m].label => k = m
    BY DEF While, Jumps, Expr, Stmt, Pop, SetOne, Test, Step, JumpIf, Jump, Place, Label,
           NoLabel, Cont, End, Start, Number, ForInit, Pass, When
  <2>7. s \in Seq(StepT)
    BY <2>2, <2>3 DEF While
  <2> HIDE DEF s, own
  <2>8. Tidy(s, own, {})
    BY <2>2, <2>4, <2>5, <2>6, <2>7, TidyMade
  <2> QED
    BY <2>8 DEF s, own
<1>2. Tidy(DoWhile(n), {Start("dowhile", n), Cont("dowhile", n), End("dowhile", n)}, {})
  <2> DEFINE s == DoWhile(n)
             own == {Start("dowhile", n), Cont("dowhile", n), End("dowhile", n)}
  <2>1. own \subseteq LabelT
    BY DEF Cont, End, Start, Label, LabelT, Titled, LabelSuffixes
  <2>2. Len(s) = 8
    BY DEF DoWhile
  <2>3. \A k \in 1..8 : s[k] \in StepT
    BY <2>1, StepTypes DEF DoWhile, Bare
  <2>4. \A k \in 1..8 :
          /\ s[k].label # NoLabel <=> Jumps(s[k]) \/ s[k].op = "place"
          /\ Jumps(s[k]) => s[k].label \in own
          /\ s[k].op = "place" => s[k].label \in own
    BY DEF DoWhile, Jumps, Expr, Stmt, Pop, SetOne, Test, Step, JumpIf, Jump, Place, Label,
           NoLabel, Cont, End, Start, Number, ForInit, Pass, When
  <2>5. \A l \in own : \E k \in 1..8 : s[k] = Place(l)
    BY DEF DoWhile
  <2>6. \A k, m \in 1..8 :
          s[k].op = "place" /\ s[m].op = "place" /\ s[k].label = s[m].label => k = m
    BY DEF DoWhile, Jumps, Expr, Stmt, Pop, SetOne, Test, Step, JumpIf, Jump, Place, Label,
           NoLabel, Cont, End, Start, Number, ForInit, Pass, When
  <2>7. s \in Seq(StepT)
    BY <2>2, <2>3 DEF DoWhile
  <2> HIDE DEF s, own
  <2>8. Tidy(s, own, {})
    BY <2>2, <2>4, <2>5, <2>6, <2>7, TidyMade
  <2> QED
    BY <2>8 DEF s, own
<1>3. Tidy(For(clauses, n), {Start("for", n), Cont("for", n), End("for", n)}, {})
  <2> DEFINE s == For(clauses, n)
             own == {Start("for", n), Cont("for", n), End("for", n)}
  <2>1. own \subseteq LabelT
    BY DEF Cont, End, Start, Label, LabelT, Titled, LabelSuffixes
  <2>2. Len(s) = 11
    BY DEF For
  <2>3. \A k \in 1..11 : s[k] \in StepT
    BY <2>1, StepTypes DEF For, When, Bare
  <2>4. \A k \in 1..11 :
          /\ s[k].label # NoLabel <=> Jumps(s[k]) \/ s[k].op = "place"
          /\ Jumps(s[k]) => s[k].label \in own
          /\ s[k].op = "place" => s[k].label \in own
    BY DEF For, Jumps, Expr, Stmt, Pop, SetOne, Test, Step, JumpIf, Jump, Place, Label,
           NoLabel, Cont, End, Start, Number, ForInit, Pass, When
  <2>5. \A l \in own : \E k \in 1..11 : s[k] = Place(l)
    BY DEF For
  <2>6. \A k, m \in 1..11 :
          s[k].op = "place" /\ s[m].op = "place" /\ s[k].label = s[m].label => k = m
    BY DEF For, Jumps, Expr, Stmt, Pop, SetOne, Test, Step, JumpIf, Jump, Place, Label,
           NoLabel, Cont, End, Start, Number, ForInit, Pass, When
  <2>7. s \in Seq(StepT)
    BY <2>2, <2>3 DEF For
  <2> HIDE DEF s, own
  <2>8. Tidy(s, own, {})
    BY <2>2, <2>4, <2>5, <2>6, <2>7, TidyMade
  <2> QED
    BY <2>8 DEF s, own
<1> QED
  BY <1>1, <1>2, <1>3


\* The labels a switch statement places.
SwitchLabels(items, n) ==
  {End("switch", n)} \cup {ItemLabel(items, n, i) : i \in {j \in DOMAIN items : items[j] # "stmt"}}

LEMMA TidySwitch ==
  ASSUME NEW m \in Nat, NEW items \in [1..m -> {"case", "default", "stmt"}], NEW n \in Nat
  PROVE  /\ Tidy(Switch(items, n), SwitchLabels(items, n), {})
         /\ \A l \in SwitchLabels(items, n) : l \in LabelT /\ l.base \in Titled /\ l.num \in n..(n + m)
<1> DEFINE s == Switch(items, n)
           own == SwitchLabels(items, n)
           len == m + m + 4
           at(i) == ItemLabel(items, n, i)
           end == End("switch", n)
<1>1. /\ s \in Seq(StepT) /\ Len(s) = len
      /\ s[1] = Expr /\ s[2] = Pop
      /\ \A i \in 1..m : s[2 + i] = When(items[i] = "case", JumpIf(at(i)))
      /\ \/ s[m + 3] = Jump(end)
         \/ \E i \in 1..m : items[i] = "default" /\ s[m + 3] = Jump(at(i))
      /\ \A i \in 1..m : s[m + 3 + i] = IF items[i] = "stmt" THEN Stmt ELSE Place(at(i))
      /\ s[m + m + 4] = Place(end)
  BY SwitchSteps
<1>2. end \in LabelT /\ end.base \in Titled /\ end.num = n /\ end # NoLabel
  BY DEF End, Label, LabelT, Titled, LabelSuffixes, NoLabel
<1>3. ASSUME NEW i \in 1..m, items[i] # "stmt"
      PROVE  at(i) \in LabelT /\ at(i).base \in Titled /\ at(i).num = n + i /\ at(i) # NoLabel
  BY <1>3 DEF ItemLabel, Label, LabelT, Titled, LabelSuffixes, NoLabel
<1>4. end \in own /\ \A i \in 1..m : items[i] # "stmt" => at(i) \in own
  BY DEF SwitchLabels
<1>5. \A l \in own : l = end \/ \E i \in 1..m : items[i] # "stmt" /\ l = at(i)
  BY DEF SwitchLabels
<1>6. \A l \in own : l \in LabelT /\ l.base \in Titled /\ l.num \in n..(n + m)
  <2>1. n \in n..(n + m) /\ \A i \in 1..m : n + i \in n..(n + m)
    OBVIOUS
  <2> QED
    BY <1>2, <1>3, <1>5, <2>1
<1>7. \A l \in own : l # NoLabel
  BY <1>2, <1>3, <1>5
<1> HIDE DEF s, own, at, end
<1>8. ASSUME NEW k \in 1..len
      PROVE  \/ s[k] \in {Expr, Pop, Pass, Stmt}
             \/ \E l \in own : s[k] = JumpIf(l) \/ s[k] = Jump(l)
             \/ k = len /\ s[k] = Place(end)
             \/ \E i \in 1..m : k = m + 3 + i /\ items[i] # "stmt" /\ s[k] = Place(at(i))
  <2>1. CASE k \in {1, 2}
    BY <1>1, <2>1
  <2>2. CASE k \in 3..(m + 2)
    <3>1. k - 2 \in 1..m /\ 2 + (k - 2) = k
      BY <2>2
    <3>2. s[k] = When(items[k - 2] = "case", JumpIf(at(k - 2)))
      BY <1>1, <3>1
    <3>3. CASE items[k - 2] = "case"
      <4>1. at(k - 2) \in own
        BY <1>4, <3>1, <3>3
      <4> QED
        BY <3>2, <3>3, <4>1 DEF When
    <3>4. CASE items[k - 2] # "case"
      BY <3>2, <3>4 DEF When
    <3> QED
      BY <3>3, <3>4
  <2>3. CASE k = m + 3
    <3>1. \E l \in own : s[m + 3] = Jump(l)
      BY <1>1, <1>4
    <3> QED
      BY <2>3, <3>1
  <2>4. CASE k \in (m + 4)..(m + m + 3)
    <3>1. k - (m + 3) \in 1..m /\ m + 3 + (k - (m + 3)) = k
      BY <2>4
    <3>2. s[k] = IF items[k - (m + 3)] = "stmt" THEN Stmt ELSE Place(at(k - (m + 3)))
      BY <1>1, <3>1
    <3> QED
      BY <3>1, <3>2
  <2>5. CASE k = len
    BY <1>1, <2>5
  <2> QED
    BY <2>1, <2>2, <2>3, <2>4, <2>5
<1>9. \A l : /\ JumpIf(l).op = "jumpif" /\ JumpIf(l).label = l
             /\ Jump(l).op = "jump" /\ Jump(l).label = l
             /\ Place(l).op = "place" /\ Place(l).label = l
  BY DEF JumpIf, Jump, Place
<1>10. \A x \in {Expr, Pop, Pass, Stmt} : x.op \notin {"jumpif", "jump", "place"} /\ x.label = NoLabel
  BY DEF Expr, Pop, Pass, Stmt, Step
<1>11. ASSUME NEW k \in 1..len, s[k].op = "place"
       PROVE  \/ k = len /\ s[k].label = end
              \/ \E i \in 1..m : k = m + 3 + i /\ items[i] # "stmt" /\ s[k].label = at(i)
  BY <1>8, <1>9, <1>10, <1>11
<1>12. \A k \in 1..len :
         /\ s[k].label # NoLabel <=> Jumps(s[k]) \/ s[k].op = "place"
         /\ Jumps(s[k]) => s[k].label \in own
         /\ s[k].op = "place" => s[k].label \in own
  <2>1. ASSUME NEW k \in 1..len
        PROVE  \/ s[k].op \notin {"jumpif", "jump", "place"} /\ s[k].label = NoLabel
               \/ s[k].op \in {"jumpif", "jump"} /\ s[k].label \in own
               \/ s[k].op = "place" /\ s[k].label \in own
    BY <1>4, <1>8, <1>9, <1>10
  <2> QED
    BY <1>7, <2>1 DEF Jumps
<1>13. \A l \in own : \E k \in 1..len : s[k] = Place(l)
  <2>1. ASSUME NEW i \in 1..m, items[i] # "stmt"
        PROVE  m + 3 + i \in 1..len /\ s[m + 3 + i] = Place(at(i))
    BY <1>1, <2>1
  <2>2. len \in 1..len /\ s[len] = Place(end)
    BY <1>1
  <2> QED
    BY <1>5, <2>1, <2>2
<1>14. ASSUME NEW k \in 1..len, NEW j \in 1..len,
              s[k].op = "place", s[j].op = "place", s[k].label = s[j].label
       PROVE  k = j
  <2>1. \/ k = len /\ s[k].label.num = n
        \/ \E i \in 1..m : k = m + 3 + i /\ s[k].label.num = n + i
    BY <1>2, <1>3, <1>11, <1>14
  <2>2. \/ j = len /\ s[j].label.num = n
        \/ \E i \in 1..m : j = m + 3 + i /\ s[j].label.num = n + i
    BY <1>2, <1>3, <1>11, <1>14
  <2>3. \A i \in 1..m : n + i # n
    OBVIOUS
  <2>4. \A i, ii \in 1..m : n + i = n + ii => i = ii
    OBVIOUS
  <2> QED
    BY <1>14, <2>1, <2>2, <2>3, <2>4
<1>15. Tidy(s, own, {})
  <2>1. s \in Seq(StepT) /\ Len(s) = len
    BY <1>1
  <2> HIDE DEF len
  <2> QED
    BY <1>12, <1>13, <1>14, <2>1, TidyMade
<1> QED
  BY <1>6, <1>15 DEF s, own

\* What only jumps: break, continue, and return without a value or with one.
LEMMA JumpTidy ==
  ASSUME NEW l \in LabelT, l # NoLabel
  PROVE  /\ Tidy(<<Jump(l)>>, {}, {l})
         /\ Tidy(<<Expr, Use, Jump(l)>>, {}, {l})
<1>1. <<Jump(l)>> \in Seq(StepT) /\ <<Expr, Use, Jump(l)>> \in Seq(StepT)
  BY StepTypes DEF Bare
<1>2. Tidy(<<Jump(l)>>, {}, {l})
  BY <1>1 DEF Tidy, Jump, Jumps
<1>3. Tidy(<<Expr, Use, Jump(l)>>, {}, {l})
  BY <1>1 DEF Tidy, Jump, Jumps, Expr, Use, Step
<1> QED
  BY <1>2, <1>3

LEMMA JumpPlan ==
  ASSUME NEW l, ~Valued(l)
  PROVE  Planned("stmt", <<Jump(l)>>)
<1> DEFINE s == <<Jump(l)>>
           h == <<0, 0>>
           g == {}
<1>1. /\ Len(s) = 1 /\ h \in [1..(1 + 1) -> Nat]
      /\ h[1] = 0 /\ 1 \notin g /\ h[1 + 1] = 0 /\ h[1 + 1] = Net("stmt")
  BY DEF Net
<1>2. \A k \in 1..1 : StepOK("stmt", s[k], h[k], h[k], k \in g, h[k + 1], h[k + 1], k + 1 \in g)
  BY DEF StepOK, Jump, LabelAt, LabelHeight
<1>4. ~Holding(s) /\ \A k \in 1..1 : s[k].op \notin Children
  BY DEF Holding, Contains, Binary, BinaryAssign, Call, Step, Jump, Children
<1> HIDE DEF s, h, g
<1>5. \A k \in 1..1 : ChildAt(s, k, h[k], h[k])
  BY <1>1, <1>4, EvenChildren
<1>3. Planned("stmt", s)
  BY <1>1, <1>2, <1>5, PlanMade
<1> QED
  BY <1>3 DEF s

-----------------------------------------------------------------------------
(* The call at the top, and how a step moves it.                           *)

LEMMA PlanFacts ==
  ASSUME NEW c, c.steps \in Seq(StepT), Planned(c.kind, c.steps)
  PROVE  /\ Len(c.steps) \in Nat /\ DOMAIN c.steps = 1..Len(c.steps)
         /\ Plans(c.kind, c.steps, Plan(c))
<1>1. Plans(c.kind, c.steps, Plan(c))
  BY DEF Planned, Plan
<1> QED
  BY <1>1, LenProperties

\* Calls that differ in how far they are.
Same(c, d) ==
  /\ d.kind = c.kind /\ d.steps = c.steps
  /\ d.base = c.base /\ d.depth = c.depth
  /\ d.breaks = c.breaks /\ d.continues = c.continues

LEMMA SameFacts ==
  ASSUME NEW c, NEW d, Same(c, d)
  PROVE  /\ Plan(d) = Plan(c)
         /\ Planned(d.kind, d.steps) <=> Planned(c.kind, c.steps)
         /\ \A l : Owns(d, l) <=> Owns(c, l)
         /\ \A l : Names(d, l) <=> Names(c, l)
<1>1. d.kind = c.kind /\ d.steps = c.steps
  BY DEF Same
<1>2. Plan(d) = Plan(c)
  BY <1>1 DEF Plan
<1>3. Planned(d.kind, d.steps) <=> Planned(c.kind, c.steps)
  BY <1>1
<1> QED
  BY <1>1, <1>2, <1>3 DEF Owns, Names

\* Everything the invariant says of the call at the top.
Active == calls[Len(calls)]
Pos == Active.pc

LEMMA ActiveFacts ==
  ASSUME IInv, Running
  PROVE  /\ Len(calls) \in Nat \ {0} /\ DOMAIN calls = 1..Len(calls) /\ Last(calls) = Active /\ Active \in CallT
         /\ Len(Active.steps) \in Nat /\ DOMAIN Active.steps = 1..Len(Active.steps) /\ Pos \in 1..Len(Active.steps)
         /\ Current = Active.steps[Pos] /\ Active.steps[Pos] \in StepT
         /\ Plan(Active).h[Pos] \in Nat /\ Plan(Active).h[Pos + 1] \in Nat /\ Plan(Active).d[Pos] \in Nat /\ Plan(Active).d[Pos + 1] \in Nat
         /\ StepOK(Active.kind, Active.steps[Pos], Plan(Active).h[Pos], Plan(Active).d[Pos], Pos \in Plan(Active).g, Plan(Active).h[Pos + 1], Plan(Active).d[Pos + 1], Pos + 1 \in Plan(Active).g)
         /\ rsp # Dead => Active.base \in Nat /\ Active.base # Dead /\ rsp = Active.base + Plan(Active).h[Pos]
                          /\ (Pos \in Plan(Active).g => agrees # "no")
         /\ Active.depth \in Nat /\ stack_depth = Active.depth + Plan(Active).d[Pos]
         /\ phase = "body" /\ todo > 0
<1>1. Len(calls) \in Nat \ {0} /\ DOMAIN calls = 1..Len(calls) /\ Last(calls) = Active /\ Active \in CallT
  <2>1. calls \in Seq(CallT) /\ calls # <<>>
    BY DEF IInv, CallsOK, Running
  <2>2. Len(calls) \in Nat \ {0} /\ DOMAIN calls = 1..Len(calls) /\ Last(calls) = calls[Len(calls)]
    BY <2>1, LenProperties, EmptySeq DEF Last, Active
  <2> QED
    BY <2>1, <2>2, ElementOfSeq DEF Active
<1>2. Planned(Active.kind, Active.steps) /\ Active.steps \in Seq(StepT)
  BY <1>1 DEF IInv, CallsOK, CallT, Active
<1>3. Len(Active.steps) \in Nat /\ DOMAIN Active.steps = 1..Len(Active.steps) /\ Plans(Active.kind, Active.steps, Plan(Active))
  BY <1>2, PlanFacts
<1>4. Pos \in 1..Len(Active.steps) /\ Current = Active.steps[Pos]
  <2>1. Pos <= Len(Active.steps) /\ Current = Active.steps[Pos]
    BY <1>1 DEF Running, Current, Pos
  <2>2. Pos \in 1..(Len(Active.steps) + 1)
    BY <1>1 DEF IInv, TypeOK, Active, Pos
  <2> QED
    BY <1>3, <2>1, <2>2
<1>5. Active.steps[Pos] \in StepT
  BY <1>2, <1>4, ElementOfSeq
<1>6. Pos \in 1..(Len(Active.steps) + 1) /\ Pos + 1 \in 1..(Len(Active.steps) + 1)
  BY <1>3, <1>4
<1>7. Plan(Active).h[Pos] \in Nat /\ Plan(Active).h[Pos + 1] \in Nat /\ Plan(Active).d[Pos] \in Nat /\ Plan(Active).d[Pos + 1] \in Nat
  BY <1>3, <1>6 DEF Plans
<1>8. StepOK(Active.kind, Active.steps[Pos], Plan(Active).h[Pos], Plan(Active).d[Pos], Pos \in Plan(Active).g, Plan(Active).h[Pos + 1], Plan(Active).d[Pos + 1], Pos + 1 \in Plan(Active).g)
  BY <1>3, <1>4 DEF Plans
<1>9. /\ rsp # Dead => Active.base # Dead /\ rsp = Active.base + Plan(Active).h[Pos] /\ (Pos \in Plan(Active).g => agrees # "no")
      /\ stack_depth = Active.depth + Plan(Active).d[Pos]
  BY <1>1 DEF IInv, Here, Running, Pos
<1>10. Active.base \in Nat \cup {Dead} /\ Active.depth \in Nat
  BY <1>1 DEF CallT
<1>11. phase = "body" /\ todo > 0
  BY DEF IInv, CallsOK, Running
<1> QED
  BY <1>1, <1>3, <1>4, <1>5, <1>7, <1>8, <1>9, <1>10, <1>11

LEMMA AdvancedFacts ==
  ASSUME IInv, Running, NEW n, n = Len(calls), NEW new, new = Advanced
  PROVE  /\ new \in Seq(CallT) /\ Len(new) = n /\ DOMAIN new = 1..n /\ new # <<>>
         /\ Last(new) = new[n]
         /\ \A i \in 1..n : Same(calls[i], new[i])
         /\ \A i \in 1..(n - 1) : new[i].pc = calls[i].pc
         /\ new[n].pc = calls[n].pc + 1
<1>1. /\ n \in Nat \ {0} /\ DOMAIN calls = 1..n /\ calls[n] \in CallT
      /\ calls[n].pc \in 1..Len(calls[n].steps) /\ Len(calls[n].steps) \in Nat
  BY ActiveFacts DEF Active, Pos
<1>2. calls \in Seq(CallT)
  BY DEF IInv, CallsOK
<1>3. new = [calls EXCEPT ![n] = [calls[n] EXCEPT !.pc = @ + 1]]
  BY <1>1 DEF Advanced
<1>4. [calls[n] EXCEPT !.pc = @ + 1] \in CallT
  BY <1>1 DEF CallT
<1>5. new \in Seq(CallT) /\ Len(new) = n /\ DOMAIN new = 1..n
  BY <1>1, <1>2, <1>3, <1>4, ExceptSeq
<1>6. new # <<>> /\ Last(new) = new[n]
  BY <1>1, <1>5, EmptySeq DEF Last
<1>7. \A i \in 1..(n - 1) : new[i] = calls[i]
  BY <1>1, <1>3
<1>8. new[n] = [calls[n] EXCEPT !.pc = @ + 1]
  BY <1>1, <1>3
<1>9. Same(calls[n], new[n]) /\ new[n].pc = calls[n].pc + 1
  BY <1>1, <1>8 DEF Same, CallT
<1>10. \A i \in 1..(n - 1) : Same(calls[i], new[i]) /\ new[i].pc = calls[i].pc
  BY <1>7 DEF Same
<1> QED
  BY <1>1, <1>5, <1>6, <1>9, <1>10

\* The numbers given out only grow.
NumbersGrow ==
  label_num' \in Nat /\ names' \in Nat /\ label_num <= label_num' /\ names <= names'

LEMMA KnownGrows ==
  ASSUME IInv, NumbersGrow, NEW l \in LabelT, Known(l)
  PROVE  Known(l)'
<1>1. label_num \in Nat /\ names \in Nat
  BY DEF IInv, TypeOK
<1>2. l.num \in Nat
  BY DEF LabelT
<1>3. /\ l.num < label_num => l.num < label_num'
      /\ l.num < names => l.num < names'
  BY <1>1, <1>2 DEF NumbersGrow
<1> QED
  BY <1>3 DEF Known

LEMMA Skeleton ==
  ASSUME IInv
  PROVE  /\ Len(calls) \in Nat /\ DOMAIN calls = 1..Len(calls)
         /\ \A i \in 1..Len(calls) : calls[i] \in CallT
         /\ \A i \in 1..Len(calls) : /\ calls[i].steps \in Seq(StepT)
                                     /\ Len(calls[i].steps) \in Nat
                                     /\ DOMAIN calls[i].steps = 1..Len(calls[i].steps)
         /\ \A i \in 1..Len(calls) : \A k \in DOMAIN calls[i].steps :
              calls[i].steps[k] \in StepT /\ calls[i].steps[k].label \in LabelT
<1>1. calls \in Seq(CallT)
  BY DEF IInv, CallsOK
<1>2. Len(calls) \in Nat /\ DOMAIN calls = 1..Len(calls)
  BY <1>1, LenProperties
<1>3. \A i \in 1..Len(calls) : calls[i] \in CallT
  BY <1>1, <1>2, ElementOfSeq
<1>4. \A i \in 1..Len(calls) : calls[i].steps \in Seq(StepT)
  BY <1>3 DEF CallT
<1>5. \A i \in 1..Len(calls) : Len(calls[i].steps) \in Nat /\ DOMAIN calls[i].steps = 1..Len(calls[i].steps)
  BY <1>4, LenProperties
<1>6. \A i \in 1..Len(calls) : \A k \in DOMAIN calls[i].steps : calls[i].steps[k] \in StepT
  BY <1>4, <1>5, ElementOfSeq
<1>7. \A s \in StepT : s.label \in LabelT
  BY DEF StepT
<1> QED
  BY <1>2, <1>3, <1>4, <1>5, <1>6, <1>7

\* A step that makes no call disturbs no label.
LEMMA LabelsKept ==
  ASSUME IInv, NumbersGrow, NEW m \in Nat, m <= Len(calls), DOMAIN calls' = 1..m,
         \A i \in 1..m : Same(calls[i], calls'[i]), m # 0 => todo' = todo
  PROVE  StepLabels' /\ LabelsOwned'
<1>1. Len(calls) \in Nat /\ DOMAIN calls = 1..Len(calls) /\ \A i \in 1..m : i \in 1..Len(calls)
  BY Skeleton
<1>2. \A i \in 1..m : /\ calls'[i].steps = calls[i].steps /\ calls'[i].kind = calls[i].kind
                      /\ calls'[i].breaks = calls[i].breaks /\ calls'[i].continues = calls[i].continues
  BY DEF Same
<1>3. \A i \in 1..m : \A l : /\ Owns(calls'[i], l) <=> Owns(calls[i], l)
                             /\ Names(calls'[i], l) <=> Names(calls[i], l)
  BY SameFacts
<1>4. ASSUME NEW i \in 1..m, NEW k \in DOMAIN calls[i].steps, NEW s, s = calls[i].steps[k]
      PROVE  /\ Jumps(s) \/ s.op = "place" <=> s.label # NoLabel
             /\ Known(s.label)'
             /\ s.op = "place" => s.label.base \in Counted \cup Titled
             /\ Jumps(s) => s.label = ReturnLabel' \/ \E j \in 1..i : Owns(calls'[j], s.label)
  <2>1. i \in DOMAIN calls
    BY <1>1
  <2>2. /\ Jumps(s) \/ s.op = "place" <=> s.label # NoLabel
        /\ Known(s.label)
        /\ s.op = "place" => s.label.base \in Counted \cup Titled
        /\ Jumps(s) => s.label = ReturnLabel \/ \E j \in 1..i : Owns(calls[j], s.label)
    BY <1>4, <2>1 DEF IInv, StepLabels
  <2>3. s.label \in LabelT
    BY <1>1, <1>4, <2>1, Skeleton
  <2>4. ReturnLabel' = ReturnLabel
    BY DEF ReturnLabel
  <2>5. \A j \in 1..i : j \in 1..m
    OBVIOUS
  <2>6. Known(s.label)'
    BY <2>2, <2>3, KnownGrows
  <2>7. Jumps(s) => s.label = ReturnLabel' \/ \E j \in 1..i : Owns(calls'[j], s.label)
    BY <1>3, <2>2, <2>4, <2>5
  <2> QED
    BY <2>2, <2>6, <2>7
<1>5. StepLabels'
  <2>1. \A i \in DOMAIN calls' : i \in 1..m /\ calls'[i].steps = calls[i].steps
    BY <1>2
  <2> QED
    BY <1>4, <2>1 DEF StepLabels, Known
<1>6. ASSUME NEW i \in 1..m, NEW j \in 1..m, NEW l \in LabelT,
             i # j, Owns(calls'[i], l), Names(calls'[j], l)
      PROVE  i < j /\ calls'[i].kind = "stmt" /\ calls'[j].kind = "stmt"
  <2>1. Owns(calls[i], l) /\ Names(calls[j], l) /\ i \in DOMAIN calls /\ j \in DOMAIN calls
    BY <1>1, <1>3, <1>6
  <2>2. i < j /\ calls[i].kind = "stmt" /\ calls[j].kind = "stmt"
    BY <1>6, <2>1 DEF IInv, LabelsOwned
  <2> QED
    BY <1>2, <2>2
<1>7. ASSUME NEW i \in 1..m
      PROVE  /\ \A k, q \in DOMAIN calls'[i].steps :
                  LET s == calls'[i].steps
                  IN  s[k].op = "place" /\ s[q].op = "place" /\ s[k].label = s[q].label => k = q
             /\ \A l \in {calls'[i].breaks, calls'[i].continues} :
                  l # NoLabel => calls'[i].kind = "stmt" /\ l.base \in Titled /\ Owns(calls'[i], l)
  <2>1. i \in DOMAIN calls
    BY <1>1
  <2>2. \A k, q \in DOMAIN calls[i].steps :
          LET s == calls[i].steps
          IN  s[k].op = "place" /\ s[q].op = "place" /\ s[k].label = s[q].label => k = q
    BY <2>1 DEF IInv, LabelsOwned
  <2>3. \A l \in {calls[i].breaks, calls[i].continues} :
          l # NoLabel => calls[i].kind = "stmt" /\ l.base \in Titled /\ Owns(calls[i], l)
    BY <2>1 DEF IInv, LabelsOwned
  <2> QED
    BY <1>2, <1>3, <2>2, <2>3
<1>8. LabelsOwned'
  BY <1>6, <1>7 DEF LabelsOwned
<1> QED
  BY <1>5, <1>8

\* An instruction moves the call at the top to its next step.
LEMMA CallsKept ==
  ASSUME IInv, Running, calls' = Advanced, UNCHANGED <<phase, todo, offset>>
  PROVE  /\ CallsOK' /\ Nested'
         /\ \A i \in DOMAIN calls' : calls'[i].pc \in 1..(Len(calls'[i].steps) + 1)
<1> DEFINE n == Len(calls)
<1>1. /\ calls' \in Seq(CallT) /\ DOMAIN calls' = 1..n /\ Len(calls') = n /\ calls' # <<>>
      /\ \A i \in 1..n : Same(calls[i], calls'[i])
      /\ \A i \in 1..(n - 1) : calls'[i].pc = calls[i].pc
      /\ calls'[n].pc = calls[n].pc + 1
  BY AdvancedFacts
<1>2. /\ n \in Nat \ {0} /\ DOMAIN calls = 1..n
      /\ calls[n].pc \in 1..Len(calls[n].steps) /\ Len(calls[n].steps) \in Nat
  BY ActiveFacts DEF Active, Pos
<1> HIDE DEF n
<1>3. \A i \in 1..n : /\ calls'[i].steps = calls[i].steps /\ calls'[i].kind = calls[i].kind
                      /\ calls'[i].base = calls[i].base /\ calls'[i].depth = calls[i].depth
                      /\ Plan(calls'[i]) = Plan(calls[i])
  BY <1>1, SameFacts DEF Same
<1>4. CallsOK'
  <2>1. \A i \in 1..n : Planned(calls[i].kind, calls[i].steps)
    BY <1>2 DEF IInv, CallsOK
  <2>2. calls[1].kind = "stmt" /\ phase = "body" /\ todo > 0
    BY DEF IInv, CallsOK, Running
  <2>3. 1 \in 1..n
    BY <1>2
  <2> QED
    BY <1>1, <1>3, <2>1, <2>2, <2>3 DEF CallsOK
<1>5. Nested'
  <2>1. ASSUME NEW i \in 1..(n - 1)
        PROVE  LET c == calls'[i]
                   e == calls'[i + 1]
                   k == c.pc - 1
               IN  /\ k \in DOMAIN c.steps
                   /\ e.kind = IF c.steps[k].op \in {"stmt", "init"} THEN "stmt" ELSE c.steps[k].op
                   /\ e.base # Dead => c.base # Dead /\ e.base = c.base + Plan(c).h[k]
                   /\ e.depth = c.depth + Plan(c).d[k]
    <3>1. i \in 1..n /\ i + 1 \in 1..n /\ i \in 1..(Len(calls) - 1)
      BY <1>2 DEF n
    <3>2. LET c == calls[i]
              e == calls[i + 1]
              k == c.pc - 1
          IN  /\ k \in DOMAIN c.steps
              /\ e.kind = IF c.steps[k].op \in {"stmt", "init"} THEN "stmt" ELSE c.steps[k].op
              /\ e.base # Dead => c.base # Dead /\ e.base = c.base + Plan(c).h[k]
              /\ e.depth = c.depth + Plan(c).d[k]
      BY <3>1 DEF IInv, Nested
    <3> QED
      BY <1>1, <1>3, <3>1, <3>2
  <2>2. \A i, j \in 1..n : i < j /\ calls'[j].base # Dead =>
          calls'[i].base # Dead /\ calls'[i].base <= calls'[j].base
    BY <1>2, <1>3 DEF IInv, Nested
  <2>3. \A i \in 1..n : calls'[i].kind = "stmt" =>
          calls'[i].base \in {Dead, offset'} /\ calls'[i].depth = offset'
    BY <1>2, <1>3 DEF IInv, Nested
  <2> QED
    BY <1>1, <2>1, <2>2, <2>3 DEF Nested
<1>6. ASSUME NEW i \in 1..n
      PROVE  calls'[i].pc \in 1..(Len(calls'[i].steps) + 1)
  <2>1. CASE i = n
    BY <1>1, <1>2, <1>3, <2>1
  <2>2. CASE i # n
    <3>1. i \in 1..(n - 1)
      BY <1>2, <2>2
    <3>2. calls[i].pc \in 1..(Len(calls[i].steps) + 1)
      BY <1>2 DEF IInv, TypeOK
    <3> QED
      BY <1>1, <1>3, <3>1, <3>2
  <2> QED
    BY <2>1, <2>2
<1> QED
  BY <1>1, <1>4, <1>5, <1>6

LEMMA LandsKept ==
  ASSUME IInv, NEW m, DOMAIN calls = 1..m, DOMAIN calls' = 1..m,
         \A i \in 1..m : Same(calls[i], calls'[i]), NEW a, Lands(a)
  PROVE  Lands(a)'
<1>1. \A i \in 1..m : calls'[i].base = calls[i].base
  BY DEF Same
<1>2. \A i \in 1..m : Owns(calls'[i], a.label) <=> Owns(calls[i], a.label)
  BY SameFacts
<1> QED
  BY <1>1, <1>2 DEF Lands

LEMMA PlacedKept ==
  ASSUME IInv, Running, calls' = Advanced, NumbersGrow, Current.op # "place", placed' = placed
  PROVE  PlacedOK'
<1> DEFINE n == Len(calls)
<1>1. /\ DOMAIN calls' = 1..n
      /\ \A i \in 1..n : Same(calls[i], calls'[i])
      /\ \A i \in 1..(n - 1) : calls'[i].pc = calls[i].pc
      /\ calls'[n].pc = calls[n].pc + 1
  BY AdvancedFacts
<1>2. /\ n \in Nat \ {0} /\ DOMAIN calls = 1..n
      /\ calls[n].pc \in 1..Len(calls[n].steps) /\ Len(calls[n].steps) \in Nat
      /\ DOMAIN calls[n].steps = 1..Len(calls[n].steps)
      /\ Current = calls[n].steps[calls[n].pc]
  BY ActiveFacts DEF Active, Pos
<1> HIDE DEF n
<1>3. \A i \in 1..n : calls'[i].steps = calls[i].steps
  BY <1>1 DEF Same
<1>4. placed' \subseteq LabelT /\ \A l \in placed' : Known(l)'
  <2>1. placed \subseteq LabelT /\ \A l \in placed : Known(l)
    BY DEF IInv, PlacedOK
  <2>2. \A l \in LabelT : Known(l) => Known(l)'
    BY KnownGrows
  <2> QED
    BY <2>1, <2>2
<1>5. ASSUME NEW i \in 1..n, NEW k \in DOMAIN calls[i].steps, calls[i].steps[k].op = "place"
      PROVE  calls[i].steps[k].label \in placed' <=> k < calls'[i].pc
  <2>1. calls[i].steps[k].label \in placed <=> k < calls[i].pc
    BY <1>2, <1>5 DEF IInv, PlacedOK
  <2>2. CASE i = n
    <3>1. k # calls[n].pc
      BY <1>2, <1>5, <2>2
    <3>2. k < calls[n].pc <=> k < calls[n].pc + 1
      BY <1>2, <2>2, <3>1
    <3> QED
      BY <1>1, <2>1, <2>2, <3>2
  <2>3. CASE i # n
    <3>1. i \in 1..(n - 1)
      BY <1>2, <2>3
    <3> QED
      BY <1>1, <2>1, <3>1
  <2> QED
    BY <2>2, <2>3
<1>6. \A i \in DOMAIN calls' : \A k \in DOMAIN calls'[i].steps :
        calls'[i].steps[k].op = "place" => (calls'[i].steps[k].label \in placed' <=> k < calls'[i].pc)
  BY <1>1, <1>3, <1>5
<1> QED
  BY <1>4, <1>6 DEF PlacedOK

LEMMA HereKept ==
  ASSUME IInv, Running, calls' = Advanced,
         rsp' # Dead => /\ Active.base \in Nat
                        /\ rsp' = Active.base + Plan(Active).h[Pos + 1]
                        /\ Pos + 1 \in Plan(Active).g => agrees' # "no",
         stack_depth' = Active.depth + Plan(Active).d[Pos + 1]
  PROVE  Here' /\ rsp' \in Nat \cup {Dead} /\ stack_depth' \in Nat
<1>1. /\ calls' # <<>> /\ Last(calls') = calls'[Len(calls)]
      /\ Same(Active, calls'[Len(calls)]) /\ calls'[Len(calls)].pc = Pos + 1
  <2>1. Len(calls) \in 1..Len(calls)
    BY ActiveFacts
  <2> QED
    BY <2>1, AdvancedFacts DEF Active, Pos
<1> DEFINE c == calls'[Len(calls)]
<1>2. c.base = Active.base /\ c.depth = Active.depth /\ Plan(c) = Plan(Active)
  BY <1>1, SameFacts DEF Same
<1>3. /\ Plan(Active).h[Pos + 1] \in Nat /\ Plan(Active).d[Pos + 1] \in Nat
      /\ Active.depth \in Nat
  BY ActiveFacts
<1>4. rsp' \in Nat \cup {Dead} /\ stack_depth' \in Nat
  BY <1>3
<1>5. rsp' # Dead => /\ c.base # Dead /\ rsp' = c.base + Plan(c).h[c.pc]
                     /\ c.pc \in Plan(c).g => agrees' # "no"
  BY <1>1, <1>2 DEF Dead
<1>6. stack_depth' = c.depth + Plan(c).d[c.pc]
  BY <1>1, <1>2
<1> QED
  BY <1>1, <1>4, <1>5, <1>6 DEF Here

\* An instruction that places no label keeps the invariant, if it leaves rsp, rax and
\* stack_depth as the plan of the call says and jumps to where a call expects it.
LEMMA Stepped ==
  ASSUME IInv, Running, calls' = Advanced, Current.op # "place",
         UNCHANGED <<phase, todo, offset, names, placed>>,
         label_num' \in Nat, label_num <= label_num',
         agrees' \in {"no", "truth", "same"},
         rsp' # Dead => /\ Active.base \in Nat
                        /\ rsp' = Active.base + Plan(Active).h[Pos + 1]
                        /\ Pos + 1 \in Plan(Active).g => agrees' # "no",
         stack_depth' = Active.depth + Plan(Active).d[Pos + 1],
         \A a \in arrivals' : Lands(a)
  PROVE  IInv'
<1>1. NumbersGrow
  BY DEF NumbersGrow, IInv, TypeOK
<1>2. CallsOK' /\ Nested' /\ \A i \in DOMAIN calls' : calls'[i].pc \in 1..(Len(calls'[i].steps) + 1)
  BY CallsKept
<1>3. Here' /\ rsp' \in Nat \cup {Dead} /\ stack_depth' \in Nat
  BY HereKept
<1>4. /\ Len(calls) \in Nat /\ Len(calls) <= Len(calls)
      /\ DOMAIN calls = 1..Len(calls) /\ DOMAIN calls' = 1..Len(calls)
      /\ \A i \in 1..Len(calls) : Same(calls[i], calls'[i])
  BY Skeleton, AdvancedFacts
<1>5. StepLabels' /\ LabelsOwned'
  BY <1>1, <1>4, LabelsKept
<1>6. ArrivalsOK'
  <2>1. \A a : Lands(a) => Lands(a)'
    BY <1>4, LandsKept
  <2> QED
    BY <2>1 DEF ArrivalsOK
<1>7. PlacedOK'
  BY <1>1, PlacedKept
<1>8. TypeOK'
  BY <1>1, <1>2, <1>3 DEF TypeOK, IInv, NumbersGrow
<1> QED
  BY <1>2, <1>3, <1>5, <1>6, <1>7, <1>8 DEF IInv

LEMMA ActiveStep ==
  ASSUME IInv, Running
  PROVE  /\ Plan(Active).h[Pos] \in Nat /\ Plan(Active).d[Pos] \in Nat
         /\ StepOK(Active.kind, Current, Plan(Active).h[Pos], Plan(Active).d[Pos],
                   Pos \in Plan(Active).g, Plan(Active).h[Pos + 1], Plan(Active).d[Pos + 1],
                   Pos + 1 \in Plan(Active).g)
BY ActiveFacts

-----------------------------------------------------------------------------
(* The instructions keep the invariant.                                    *)

LEMMA Emitted ==
  ASSUME IInv, NEW bytes \in Int, NEW relation \in {"no", "truth", "same"},
         Running, Current.op # "place", Emit(bytes, relation),
         Plan(Active).h[Pos + 1] = Plan(Active).h[Pos] + bytes,
         Plan(Active).d[Pos + 1] = Plan(Active).d[Pos],
         rsp # Dead /\ Pos + 1 \in Plan(Active).g => relation # "no"
  PROVE  IInv'
<1>1. /\ calls' = Advanced /\ rsp' = Moved(bytes) /\ agrees' = relation
      /\ UNCHANGED <<phase, todo, offset, stack_depth, label_num, names, placed, arrivals>>
  BY DEF Emit, Quiet, numbers, labels
<1>2. /\ rsp # Dead => /\ Active.base \in Nat /\ rsp = Active.base + Plan(Active).h[Pos]
      /\ stack_depth = Active.depth + Plan(Active).d[Pos]
      /\ Plan(Active).h[Pos] \in Nat
  BY ActiveFacts
<1>3. rsp' # Dead => /\ Active.base \in Nat
                     /\ rsp' = Active.base + Plan(Active).h[Pos + 1]
                     /\ Pos + 1 \in Plan(Active).g => agrees' # "no"
  BY <1>1, <1>2 DEF Moved
<1>4. stack_depth' = Active.depth + Plan(Active).d[Pos + 1]
  BY <1>1, <1>2
<1>5. \A a \in arrivals' : Lands(a)
  BY <1>1 DEF IInv, ArrivalsOK
<1>6. label_num' \in Nat /\ label_num <= label_num'
  BY <1>1 DEF IInv, TypeOK
<1> QED
  BY <1>1, <1>3, <1>4, <1>5, <1>6, Stepped

LEMMA EmitPushInv ==
  ASSUME IInv, EmitPush
  PROVE  IInv'
<1>1. Running /\ Current.op = "push" /\ Emit(Word, "same")
  BY DEF EmitPush, At
<1>2. /\ Plan(Active).h[Pos + 1] = Plan(Active).h[Pos] + (Word)
      /\ Plan(Active).d[Pos + 1] = Plan(Active).d[Pos]
  BY <1>1, ActiveStep DEF StepOK, Word
<1>3. Word \in Int /\ "no" # "truth" /\ "no" # "same"
  BY DEF Word
<1> QED
  BY <1>1, <1>2, <1>3, Emitted

LEMMA EmitPopInv ==
  ASSUME IInv, EmitPop
  PROVE  IInv'
<1>1. Running /\ Current.op = "pop" /\ Emit(-Word, "no")
  BY DEF EmitPop, At
<1>2. /\ Plan(Active).h[Pos + 1] = Plan(Active).h[Pos] + (-Word)
      /\ Plan(Active).d[Pos + 1] = Plan(Active).d[Pos]
      /\ Pos + 1 \notin Plan(Active).g
  BY <1>1, ActiveStep DEF StepOK, Word
<1>3. -Word \in Int /\ "no" # "truth" /\ "no" # "same"
  BY DEF Word
<1> QED
  BY <1>1, <1>2, <1>3, Emitted

LEMMA EmitOneInv ==
  ASSUME IInv, EmitOne
  PROVE  IInv'
<1>1. Running /\ Current.op = "one" /\ Emit(0, "truth")
  BY DEF EmitOne, At
<1>2. /\ Plan(Active).h[Pos + 1] = Plan(Active).h[Pos] + (0)
      /\ Plan(Active).d[Pos + 1] = Plan(Active).d[Pos]
  BY <1>1, ActiveStep DEF StepOK, Word
<1>3. 0 \in Int /\ "no" # "truth" /\ "no" # "same"
  BY DEF Word
<1> QED
  BY <1>1, <1>2, <1>3, Emitted

LEMMA EmitTopInv ==
  ASSUME IInv, EmitTop
  PROVE  IInv'
<1>1. Running /\ Current.op = "top" /\ Emit(0, "same")
  BY DEF EmitTop, At
<1>2. /\ Plan(Active).h[Pos + 1] = Plan(Active).h[Pos] + (0)
      /\ Plan(Active).d[Pos + 1] = Plan(Active).d[Pos]
  BY <1>1, ActiveStep DEF StepOK, Word
<1>3. 0 \in Int /\ "no" # "truth" /\ "no" # "same"
  BY DEF Word
<1> QED
  BY <1>1, <1>2, <1>3, Emitted

LEMMA EmitOtherInv ==
  ASSUME IInv, EmitOther
  PROVE  IInv'
<1>1. Running /\ Current.op = "other" /\ Emit(0, "no")
  BY DEF EmitOther, At
<1>2. /\ Plan(Active).h[Pos + 1] = Plan(Active).h[Pos] + (0)
      /\ Plan(Active).d[Pos + 1] = Plan(Active).d[Pos]
      /\ Pos + 1 \notin Plan(Active).g
  BY <1>1, ActiveStep DEF StepOK, Word
<1>3. 0 \in Int /\ "no" # "truth" /\ "no" # "same"
  BY DEF Word
<1> QED
  BY <1>1, <1>2, <1>3, Emitted

LEMMA EmitCallInv ==
  ASSUME IInv, EmitCall
  PROVE  IInv'
<1>1. Running /\ Current.op = "call" /\ Emit(0, "no")
  BY DEF EmitCall, At
<1>2. /\ Plan(Active).h[Pos + 1] = Plan(Active).h[Pos] + (0)
      /\ Plan(Active).d[Pos + 1] = Plan(Active).d[Pos]
      /\ Pos + 1 \notin Plan(Active).g
  BY <1>1, ActiveStep DEF StepOK, Word
<1>3. 0 \in Int /\ "no" # "truth" /\ "no" # "same"
  BY DEF Word
<1> QED
  BY <1>1, <1>2, <1>3, Emitted

LEMMA EmitReadInv ==
  ASSUME IInv, EmitRead
  PROVE  IInv'
<1>1. Running /\ Current.op \in {"test", "use", "load", "pass"} /\ Emit(0, agrees)
  BY DEF EmitRead, At
<1>2. /\ Plan(Active).h[Pos + 1] = Plan(Active).h[Pos] + 0
      /\ Plan(Active).d[Pos + 1] = Plan(Active).d[Pos]
      /\ Pos + 1 \in Plan(Active).g => Pos \in Plan(Active).g
  BY <1>1, ActiveStep DEF StepOK
<1>3. rsp # Dead /\ Pos \in Plan(Active).g => agrees # "no"
  BY <1>1, ActiveFacts
<1>4. agrees \in {"no", "truth", "same"}
  BY DEF IInv, TypeOK
<1> QED
  BY <1>1, <1>2, <1>3, <1>4, Emitted

LEMMA TrackDepthInv ==
  ASSUME IInv, TrackDepth
  PROVE  IInv'
<1>1. /\ Running /\ Current.op \in {"track", "untrack"} /\ calls' = Advanced
      /\ stack_depth' = stack_depth + (IF Current.op = "track" THEN Word ELSE -Word)
      /\ UNCHANGED <<phase, todo, offset, rsp, agrees, label_num, names, placed, arrivals>>
  BY DEF TrackDepth, At, emitted, numbers, labels
<1>2. /\ Plan(Active).h[Pos + 1] = Plan(Active).h[Pos]
      /\ Plan(Active).d[Pos + 1] = Plan(Active).d[Pos] + (IF Current.op = "track" THEN Word ELSE -Word)
      /\ Pos + 1 \in Plan(Active).g => Pos \in Plan(Active).g
  BY <1>1, ActiveFacts DEF StepOK, Word
<1>3. /\ rsp # Dead => /\ Active.base \in Nat /\ rsp = Active.base + Plan(Active).h[Pos]
                       /\ Pos \in Plan(Active).g => agrees # "no"
      /\ stack_depth = Active.depth + Plan(Active).d[Pos]
      /\ Plan(Active).d[Pos] \in Nat /\ Active.depth \in Nat
  BY <1>1, ActiveFacts
<1>4. stack_depth' = Active.depth + Plan(Active).d[Pos + 1]
  BY <1>1, <1>2, <1>3 DEF Word
<1>5. \A a \in arrivals' : Lands(a)
  BY <1>1 DEF IInv, ArrivalsOK
<1>6. label_num' \in Nat /\ label_num <= label_num' /\ agrees' \in {"no", "truth", "same"}
  BY <1>1 DEF IInv, TypeOK
<1>7. Current.op # "place"
  BY <1>1
<1> QED
  BY <1>1, <1>2, <1>3, <1>4, <1>5, <1>6, <1>7, Stepped

LEMMA SkipNumberInv ==
  ASSUME IInv, SkipNumber
  PROVE  IInv'
<1>1. /\ Running /\ Current.op = "number" /\ calls' = Advanced /\ label_num' = label_num + 1
      /\ UNCHANGED <<phase, todo, offset, rsp, agrees, stack_depth, names, placed, arrivals>>
  BY DEF SkipNumber, At, emitted, labels
<1>2. /\ Plan(Active).h[Pos + 1] = Plan(Active).h[Pos]
      /\ Plan(Active).d[Pos + 1] = Plan(Active).d[Pos]
      /\ Pos + 1 \in Plan(Active).g => Pos \in Plan(Active).g
  BY <1>1, ActiveFacts DEF StepOK
<1>3. /\ rsp # Dead => /\ Active.base \in Nat /\ rsp = Active.base + Plan(Active).h[Pos]
                       /\ Pos \in Plan(Active).g => agrees # "no"
      /\ stack_depth = Active.depth + Plan(Active).d[Pos]
  BY <1>1, ActiveFacts
<1>4. \A a \in arrivals' : Lands(a)
  BY <1>1 DEF IInv, ArrivalsOK
<1>5. label_num' \in Nat /\ label_num <= label_num' /\ agrees' \in {"no", "truth", "same"}
  BY <1>1 DEF IInv, TypeOK
<1>6. Current.op # "place"
  BY <1>1
<1> QED
  BY <1>1, <1>2, <1>3, <1>4, <1>5, <1>6, Stepped


\* A node that owns a label places it.
LEMMA OwnerPlaces ==
  ASSUME IInv, NEW i \in 1..Len(calls), NEW l, Owns(calls[i], l)
  PROVE  /\ \E k \in DOMAIN calls[i].steps : calls[i].steps[k] = Place(l)
         /\ l \in LabelT /\ l.base \in Counted \cup Titled /\ l # NoLabel /\ Known(l)
         /\ Names(calls[i], l)
<1>1. PICK k \in DOMAIN calls[i].steps : calls[i].steps[k] = Place(l)
  BY DEF Owns
<1>2. Place(l).op = "place" /\ Place(l).label = l
  BY DEF Place
<1>3. i \in DOMAIN calls /\ calls[i].steps[k].label \in LabelT
  BY Skeleton
<1>4. l.base \in Counted \cup Titled /\ l # NoLabel /\ Known(l)
  BY <1>1, <1>2, <1>3 DEF IInv, StepLabels
<1> QED
  BY <1>1, <1>2, <1>3, <1>4 DEF Names

LEMMA PlacerOwns ==
  ASSUME IInv, NEW i \in 1..Len(calls), NEW k \in DOMAIN calls[i].steps,
         calls[i].steps[k].op = "place"
  PROVE  Owns(calls[i], calls[i].steps[k].label)
<1>1. calls[i].steps[k] \in StepT
  BY Skeleton
<1>2. calls[i].steps[k] = Place(calls[i].steps[k].label)
  BY <1>1 DEF StepT, Place
<1> QED
  BY <1>2 DEF Owns

\* The label of a jump or of a place finds the stack as its owner expects it.
LEMMA Target ==
  ASSUME IInv, Running, rsp # Dead,
         Current.op = "place" \/ (Jumps(Current) /\ Current.label # ReturnLabel)
  PROVE  Lands([label |-> Current.label, rsp |-> rsp, agrees |-> agrees])
<1> DEFINE n == Len(calls)
           l == Current.label
<1>1. /\ n \in Nat \ {0} /\ DOMAIN calls = 1..n /\ n \in 1..n
      /\ Pos \in DOMAIN calls[n].steps /\ Current = calls[n].steps[Pos] /\ Current \in StepT
      /\ calls[n].base \in Nat /\ calls[n].base # Dead
      /\ rsp = calls[n].base + Plan(Active).h[Pos]
      /\ Pos \in Plan(Active).g => agrees # "no"
      /\ Plan(Active).h[Pos] \in Nat
  BY ActiveFacts DEF Active
<1>2. l \in LabelT /\ Names(calls[n], l)
  BY <1>1 DEF Names, StepT
<1> HIDE DEF n
<1>3. \E i \in 1..n : Owns(calls[i], l)
  <2>1. CASE Current.op = "place"
    BY <1>1, <2>1, PlacerOwns DEF n
  <2>2. CASE Jumps(Current)
    BY <1>1, <2>2 DEF IInv, StepLabels, Jumps
  <2> QED
    BY <2>1, <2>2
<1>4. l.base # "f"
  <2>1. l.base \in Counted \cup Titled
    BY <1>3, OwnerPlaces DEF n
  <2> QED
    BY <2>1 DEF Counted, Titled
<1>5. LabelAt(l, Plan(Active).h[Pos], Pos \in Plan(Active).g)
  BY <1>4, ActiveStep DEF StepOK, Jumps
<1>6. Plan(Active).h[Pos] = LabelHeight(l) /\ (Valued(l) => agrees # "no")
  BY <1>1, <1>5 DEF LabelAt
<1>7. ASSUME NEW i \in 1..n, Owns(calls[i], l)
      PROVE  calls[i].base # Dead /\ rsp = calls[i].base + LabelHeight(l)
  <2>1. CASE i = n
    BY <1>1, <1>6, <2>1
  <2>2. CASE i # n
    <3>1. i < n /\ calls[i].kind = "stmt" /\ calls[n].kind = "stmt"
      BY <1>1, <1>2, <1>7, <2>2 DEF IInv, LabelsOwned
    <3>2. calls[i].base \in {Dead, offset} /\ calls[n].base \in {Dead, offset}
      BY <1>1, <3>1 DEF IInv, Nested
    <3>3. calls[i].base # Dead
      BY <1>1, <3>1 DEF IInv, Nested
    <3> QED
      BY <1>1, <1>6, <3>2, <3>3
  <2> QED
    BY <2>1, <2>2
<1>8. rsp \in Nat /\ agrees \in {"no", "truth", "same"}
  BY DEF IInv, TypeOK
<1> DEFINE a == [label |-> l, rsp |-> rsp, agrees |-> agrees]
<1>9. /\ a \in [label : LabelT, rsp : Nat, agrees : {"no", "truth", "same"}]
      /\ a.label = l /\ a.rsp = rsp /\ a.agrees = agrees
  BY <1>2, <1>8
<1> HIDE DEF a, l
<1>10. Lands(a)
  BY <1>1, <1>3, <1>6, <1>7, <1>9 DEF Lands
<1> QED
  BY <1>10 DEF a, l

LEMMA ArrivalLands ==
  ASSUME IInv, Running, Current.op = "place" \/ Jumps(Current)
  PROVE  \A a \in arrivals \cup Arrival(Current.label) : Lands(a)
<1>1. \A a \in arrivals : Lands(a)
  BY DEF IInv, ArrivalsOK
<1>2. ASSUME NEW a \in Arrival(Current.label)
      PROVE  Lands(a)
  <2>1. /\ rsp # Dead /\ Current.label # ReturnLabel
        /\ a = [label |-> Current.label, rsp |-> rsp, agrees |-> agrees]
    BY DEF Arrival
  <2> QED
    BY <2>1, Target
<1> QED
  BY <1>1, <1>2

LEMMA EmitJumpInv ==
  ASSUME IInv, EmitJump
  PROVE  IInv'
<1>1. /\ Running /\ Current.op \in {"jump", "jumpif"} /\ calls' = Advanced
      /\ arrivals' = arrivals \cup Arrival(Current.label)
      /\ rsp' = IF Current.op = "jump" THEN Dead ELSE rsp
      /\ UNCHANGED <<phase, todo, offset, agrees, stack_depth, label_num, names, placed>>
  BY DEF EmitJump, At, Quiet, numbers
<1>2. /\ Plan(Active).d[Pos + 1] = Plan(Active).d[Pos]
      /\ Current.op = "jumpif" => /\ Plan(Active).h[Pos + 1] = Plan(Active).h[Pos]
                                  /\ Pos + 1 \in Plan(Active).g => Pos \in Plan(Active).g
  BY <1>1, ActiveStep DEF StepOK
<1>3. /\ rsp # Dead => /\ Active.base \in Nat /\ rsp = Active.base + Plan(Active).h[Pos]
                       /\ Pos \in Plan(Active).g => agrees # "no"
      /\ stack_depth = Active.depth + Plan(Active).d[Pos]
  BY <1>1, ActiveFacts
<1>4. \A a \in arrivals' : Lands(a)
  BY <1>1, ArrivalLands DEF Jumps
<1>5. label_num' \in Nat /\ label_num <= label_num' /\ agrees' \in {"no", "truth", "same"}
  BY <1>1 DEF IInv, TypeOK
<1>6. Current.op # "place"
  BY <1>1
<1>7. rsp' # Dead => /\ Active.base \in Nat
                     /\ rsp' = Active.base + Plan(Active).h[Pos + 1]
                     /\ Pos + 1 \in Plan(Active).g => agrees' # "no"
  BY <1>1, <1>2, <1>3
<1>8. stack_depth' = Active.depth + Plan(Active).d[Pos + 1]
  BY <1>1, <1>2, <1>3
<1> QED
  BY <1>1, <1>4, <1>5, <1>6, <1>7, <1>8, Stepped

LEMMA EmitLabelInv ==
  ASSUME IInv, EmitLabel
  PROVE  IInv'
<1> DEFINE n == Len(calls)
           l == Current.label
           here == {a \in arrivals' : a.label = l}
<1>1. /\ Running /\ Current.op = "place" /\ calls' = Advanced
      /\ placed' = placed \cup {l}
      /\ arrivals' = arrivals \cup Arrival(l)
      /\ rsp' = IF here = {} THEN Dead ELSE (CHOOSE a \in here : TRUE).rsp
      /\ agrees' = Weakest({a.agrees : a \in here})
      /\ UNCHANGED <<phase, todo, offset, stack_depth, label_num, names>>
  BY DEF EmitLabel, At, Quiet, numbers
<1>2. /\ n \in Nat \ {0} /\ DOMAIN calls = 1..n /\ n \in 1..n /\ calls[n] = Active
      /\ Pos \in DOMAIN calls[n].steps /\ Current = calls[n].steps[Pos]
      /\ calls[n].pc = Pos /\ Pos \in Nat
  BY <1>1, ActiveFacts DEF Active, Pos
<1>3. Owns(calls[n], l)
  BY <1>1, <1>2, PlacerOwns
<1>4. l \in LabelT /\ Known(l)
  BY <1>2, <1>3, OwnerPlaces
<1>5. \A a \in arrivals' : Lands(a)
  BY <1>1, ArrivalLands
<1>6. ASSUME NEW a \in here
      PROVE  /\ calls[n].base # Dead /\ a.rsp = calls[n].base + LabelHeight(l)
             /\ Valued(l) => a.agrees # "no"
             /\ a.agrees \in {"no", "truth", "same"}
  BY <1>2, <1>3, <1>5 DEF Lands
<1>7. /\ Plan(Active).h[Pos + 1] = Plan(Active).h[Pos]
      /\ Plan(Active).d[Pos + 1] = Plan(Active).d[Pos]
      /\ Pos + 1 \in Plan(Active).g => Valued(l)
      /\ Plan(Active).h[Pos] = LabelHeight(l)
  BY <1>1, ActiveStep DEF StepOK, LabelAt
<1>8. agrees' \in {"no", "truth", "same"}
  BY <1>1 DEF Weakest
<1>9. rsp' # Dead => /\ Active.base \in Nat
                     /\ rsp' = Active.base + Plan(Active).h[Pos + 1]
                     /\ Pos + 1 \in Plan(Active).g => agrees' # "no"
  <2> SUFFICES ASSUME here # {}
               PROVE  /\ Active.base \in Nat
                      /\ rsp' = Active.base + Plan(Active).h[Pos + 1]
                      /\ Pos + 1 \in Plan(Active).g => agrees' # "no"
    BY <1>1
  <2>1. (CHOOSE a \in here : TRUE) \in here
    OBVIOUS
  <2> HIDE DEF here, l
  <2>2. Active.base # Dead /\ rsp' = Active.base + Plan(Active).h[Pos + 1]
    BY <1>1, <1>2, <1>6, <1>7, <2>1
  <2>3. Active.base \in Nat
    BY <1>1, <2>2, ActiveFacts DEF CallT
  <2>4. Valued(l) => agrees' # "no"
    BY <1>1, <1>6 DEF Weakest
  <2> QED
    BY <1>7, <2>2, <2>3, <2>4
<1>10. stack_depth' = Active.depth + Plan(Active).d[Pos + 1]
  BY <1>1, <1>7, ActiveFacts
<1>11. NumbersGrow
  BY <1>1 DEF NumbersGrow, IInv, TypeOK
<1>12. CallsOK' /\ Nested' /\ \A i \in DOMAIN calls' : calls'[i].pc \in 1..(Len(calls'[i].steps) + 1)
  BY <1>1, CallsKept
<1>13. Here' /\ rsp' \in Nat \cup {Dead} /\ stack_depth' \in Nat
  BY <1>1, <1>9, <1>10, HereKept
<1>14. /\ DOMAIN calls' = 1..n
       /\ \A i \in 1..n : Same(calls[i], calls'[i])
       /\ \A i \in 1..(n - 1) : calls'[i].pc = calls[i].pc
       /\ calls'[n].pc = calls[n].pc + 1
  BY <1>1, AdvancedFacts
<1> HIDE DEF n, l, here
<1>15. StepLabels' /\ LabelsOwned'
  <2>1. n \in Nat /\ n <= Len(calls)
    BY <1>2 DEF n
  <2> QED
    BY <1>1, <1>11, <1>14, <2>1, LabelsKept
<1>16. ArrivalsOK'
  <2>1. \A a : Lands(a) => Lands(a)'
    BY <1>2, <1>14, LandsKept
  <2> QED
    BY <1>5, <2>1 DEF ArrivalsOK
<1>17. placed' \subseteq LabelT /\ \A x \in placed' : Known(x)'
  <2>1. placed \subseteq LabelT /\ \A x \in placed : Known(x)
    BY DEF IInv, PlacedOK
  <2>2. \A x \in LabelT : Known(x) => Known(x)'
    BY <1>11, KnownGrows
  <2> QED
    BY <1>1, <1>4, <2>1, <2>2
<1>18. ASSUME NEW i \in 1..n, NEW k \in DOMAIN calls[i].steps, calls[i].steps[k].op = "place"
       PROVE  calls[i].steps[k].label \in placed' <=> k < calls'[i].pc
  <2>1. calls[i].steps[k].label \in placed <=> k < calls[i].pc
    BY <1>2, <1>18 DEF IInv, PlacedOK
  <2>2. CASE i = n
    <3>1. k \in Nat
      BY <1>2, <2>2, Skeleton
    <3>2. calls[i].steps[k].label = l => k = Pos
      BY <1>1, <1>2, <1>18, <2>2 DEF IInv, LabelsOwned, l
    <3>3. k = Pos => calls[i].steps[k].label = l
      BY <1>2, <2>2 DEF l
    <3> QED
      BY <1>1, <1>2, <1>14, <2>1, <2>2, <3>1, <3>2, <3>3
  <2>3. CASE i # n
    <3>1. calls[i].steps[k].label # l
      <4>1. ASSUME calls[i].steps[k].label = l
            PROVE  FALSE
        <5>1. Owns(calls[i], l)
          BY <1>18, <4>1, PlacerOwns DEF n
        <5>2. Names(calls[i], l) /\ Names(calls[n], l)
          BY <1>2, <1>3, <5>1, OwnerPlaces DEF n
        <5>3. i < n /\ n < i
          BY <1>2, <1>3, <1>4, <2>3, <5>1, <5>2 DEF IInv, LabelsOwned
        <5> QED
          BY <1>2, <5>3
      <4> QED
        BY <4>1
    <3>2. i \in 1..(n - 1)
      BY <1>2, <2>3
    <3> QED
      BY <1>1, <1>14, <2>1, <3>1, <3>2
  <2> QED
    BY <2>2, <2>3
<1>19. PlacedOK'
  <2>1. \A i \in 1..n : calls'[i].steps = calls[i].steps
    BY <1>14 DEF Same
  <2>2. \A i \in DOMAIN calls' : \A k \in DOMAIN calls'[i].steps :
          calls'[i].steps[k].op = "place" => (calls'[i].steps[k].label \in placed' <=> k < calls'[i].pc)
    BY <1>14, <1>18, <2>1
  <2> QED
    BY <1>17, <2>2 DEF PlacedOK
<1>20. TypeOK'
  BY <1>1, <1>8, <1>11, <1>12, <1>13 DEF TypeOK, IInv, NumbersGrow
<1> QED
  BY <1>12, <1>13, <1>15, <1>16, <1>19, <1>20 DEF IInv

-----------------------------------------------------------------------------
(* Leaving a call.                                                         *)

LEMMA Finished ==
  ASSUME IInv, calls # <<>>, ~Running
  PROVE  /\ Len(calls) \in Nat \ {0} /\ DOMAIN calls = 1..Len(calls) /\ Active \in CallT
         /\ rsp # Dead => /\ Active.base \in Nat /\ rsp = Active.base + Net(Active.kind)
                          /\ Active.kind # "stmt" => agrees # "no"
         /\ stack_depth = Active.depth
         /\ Active.pc = Len(Active.steps) + 1
<1>1. Len(calls) \in Nat \ {0} /\ DOMAIN calls = 1..Len(calls) /\ Last(calls) = Active
  <2>1. calls \in Seq(CallT)
    BY DEF IInv, CallsOK
  <2> QED
    BY <2>1, LenProperties, EmptySeq DEF Last, Active
<1>2. Active \in CallT /\ Active.steps \in Seq(StepT) /\ Planned(Active.kind, Active.steps)
  BY <1>1, Skeleton DEF IInv, CallsOK, Active
<1>3. Len(Active.steps) \in Nat /\ Plans(Active.kind, Active.steps, Plan(Active))
  BY <1>2, PlanFacts
<1>4. Active.pc = Len(Active.steps) + 1
  <2>1. Active.pc \in 1..(Len(Active.steps) + 1)
    BY <1>1 DEF IInv, TypeOK, Active
  <2>2. ~(Active.pc <= Len(Active.steps))
    BY <1>1 DEF Running
  <2> QED
    BY <1>3, <2>1, <2>2
<1>5. /\ Plan(Active).h[Active.pc] = Net(Active.kind) /\ Plan(Active).d[Active.pc] = 0
      /\ Active.kind # "stmt" => Active.pc \in Plan(Active).g
  BY <1>3, <1>4 DEF Plans
<1>6. /\ rsp # Dead => /\ Active.base # Dead /\ rsp = Active.base + Plan(Active).h[Active.pc]
                       /\ Active.pc \in Plan(Active).g => agrees # "no"
      /\ stack_depth = Active.depth + Plan(Active).d[Active.pc]
  BY <1>1 DEF IInv, Here
<1>7. Active.base \in Nat \cup {Dead} /\ Active.depth \in Nat
  BY <1>2 DEF CallT
<1> QED
  BY <1>1, <1>2, <1>4, <1>5, <1>6, <1>7

LEMMA LeaveInv ==
  ASSUME IInv, Leave
  PROVE  IInv'
<1> DEFINE n == Len(calls)
           e == Active
           c == calls[n - 1]
           k == c.pc - 1
<1>1. /\ calls # <<>> /\ ~Running /\ calls' = Front(calls)
      /\ arrivals' = {a \in arrivals : \E i \in DOMAIN calls' : Names(calls[i], a.label)}
      /\ UNCHANGED <<phase, todo, offset, rsp, agrees, stack_depth, label_num, names, placed>>
  <2>1. /\ calls # <<>> /\ ~Running /\ calls' = Front(calls)
        /\ UNCHANGED <<phase, todo, offset, rsp, agrees, stack_depth, label_num, names, placed>>
    BY DEF Leave, emitted, numbers
  <2>2. arrivals' = {a \in arrivals : \E i \in DOMAIN calls' : Names(calls[i], a.label)}
    BY Zenon DEF Leave
  <2> QED
    BY <2>1, <2>2
<1>2. /\ n \in Nat \ {0} /\ DOMAIN calls = 1..n /\ e \in CallT /\ e = calls[n]
      /\ rsp # Dead => /\ e.base \in Nat /\ rsp = e.base + Net(e.kind)
                       /\ e.kind # "stmt" => agrees # "no"
      /\ stack_depth = e.depth
  BY <1>1, Finished DEF Active
<1>3. /\ calls' \in Seq(CallT) /\ Len(calls') = n - 1 /\ DOMAIN calls' = 1..(n - 1)
      /\ \A i \in 1..(n - 1) : calls'[i] = calls[i]
  <2>1. calls \in Seq(CallT)
    BY DEF IInv, CallsOK
  <2>2. calls' = SubSeq(calls, 1, n - 1)
    BY <1>1 DEF Front
  <2> HIDE DEF n
  <2>3. calls' \in Seq(CallT) /\ Len(calls') = n - 1
    BY <1>2, <2>1, <2>2, SubSeqProperties DEF n
  <2>4. \A i \in 1..(n - 1) : calls'[i] = calls[i]
    BY <1>2, <2>1, <2>2 DEF n
  <2> QED
    BY <2>3, <2>4, LenProperties
<1>4. NumbersGrow
  BY <1>1 DEF NumbersGrow, IInv, TypeOK
<1> HIDE DEF n
<1>5. StepLabels' /\ LabelsOwned'
  <2>1. n - 1 \in Nat /\ n - 1 <= Len(calls)
    BY <1>2 DEF n
  <2>2. \A i \in 1..(n - 1) : Same(calls[i], calls'[i])
    BY <1>3 DEF Same
  <2> QED
    BY <1>1, <1>3, <1>4, <2>1, <2>2, LabelsKept
<1>6. \A i \in 1..(n - 1) : i \in 1..n
  BY <1>2
<1>7. CallsOK'
  <2>1. \A i \in 1..(n - 1) : Planned(calls[i].kind, calls[i].steps)
    BY <1>2, <1>6 DEF IInv, CallsOK
  <2>2. calls[1].kind = "stmt" /\ phase = "body" /\ todo > 0
    BY <1>1 DEF IInv, CallsOK
  <2>3. calls' # <<>> => 1 \in 1..(n - 1)
    BY <1>2, <1>3, EmptySeq
  <2> QED
    BY <1>1, <1>3, <2>1, <2>2, <2>3 DEF CallsOK
<1>8. Nested'
  <2>1. ASSUME NEW i \in 1..((n - 1) - 1)
        PROVE  LET cc == calls'[i]
                   ee == calls'[i + 1]
                   kk == cc.pc - 1
               IN  /\ kk \in DOMAIN cc.steps
                   /\ ee.kind = IF cc.steps[kk].op \in {"stmt", "init"} THEN "stmt" ELSE cc.steps[kk].op
                   /\ ee.base # Dead => cc.base # Dead /\ ee.base = cc.base + Plan(cc).h[kk]
                   /\ ee.depth = cc.depth + Plan(cc).d[kk]
    <3>1. i \in 1..(n - 1) /\ i + 1 \in 1..(n - 1) /\ i \in 1..(Len(calls) - 1)
      BY <1>2 DEF n
    <3>2. calls'[i] = calls[i] /\ calls'[i + 1] = calls[i + 1]
      BY <1>3, <3>1
    <3> QED
      BY <3>1, <3>2 DEF IInv, Nested
  <2>2. \A i, j \in 1..(n - 1) : i < j /\ calls'[j].base # Dead =>
          calls'[i].base # Dead /\ calls'[i].base <= calls'[j].base
    BY <1>2, <1>3, <1>6 DEF IInv, Nested
  <2>3. \A i \in 1..(n - 1) : calls'[i].kind = "stmt" =>
          calls'[i].base \in {Dead, offset'} /\ calls'[i].depth = offset'
    BY <1>1, <1>2, <1>3, <1>6 DEF IInv, Nested
  <2> QED
    BY <1>3, <2>1, <2>2, <2>3 DEF Nested
<1>9. Here'
  <2>1. CASE n = 1
    <3>1. calls' = <<>>
      BY <1>3, <2>1, EmptySeq
    <3>2. e.kind = "stmt"
      BY <1>1, <1>2, <2>1 DEF IInv, CallsOK
    <3>3. e.base \in {Dead, offset} /\ offset \in Nat
      BY <1>2, <3>2 DEF IInv, Nested, TypeOK
    <3>4. rsp \in {Dead, offset}
      BY <1>2, <3>2, <3>3 DEF Net, Dead
    <3> QED
      BY <1>1, <3>1, <3>4 DEF Here
  <2>2. CASE n # 1
    <3>1. n - 1 \in 1..(n - 1) /\ n - 1 \in 1..(Len(calls) - 1) /\ (n - 1) + 1 = n /\ n - 1 \in 1..n
      BY <1>2, <2>2 DEF n
    <3>2. /\ k \in DOMAIN c.steps
          /\ e.kind = IF c.steps[k].op \in {"stmt", "init"} THEN "stmt" ELSE c.steps[k].op
          /\ e.base # Dead => c.base # Dead /\ e.base = c.base + Plan(c).h[k]
          /\ e.depth = c.depth + Plan(c).d[k]
      <4>1. LET ee == calls[(n - 1) + 1]
            IN  /\ k \in DOMAIN c.steps
                /\ ee.kind = IF c.steps[k].op \in {"stmt", "init"} THEN "stmt" ELSE c.steps[k].op
                /\ ee.base # Dead => c.base # Dead /\ ee.base = c.base + Plan(c).h[k]
                /\ ee.depth = c.depth + Plan(c).d[k]
        BY <3>1 DEF IInv, Nested
      <4> QED
        BY <1>2, <3>1, <4>1
    <3>3. c \in CallT /\ c.steps \in Seq(StepT) /\ Planned(c.kind, c.steps)
      BY <1>2, <3>1, Skeleton DEF IInv, CallsOK, n
    <3>4. Len(c.steps) \in Nat /\ DOMAIN c.steps = 1..Len(c.steps) /\ Plans(c.kind, c.steps, Plan(c))
      BY <3>3, PlanFacts
    <3>5. /\ calls' # <<>> /\ Last(calls') = c
      BY <1>3, <3>1, EmptySeq DEF Last
    <3>6. c.base \in Nat \cup {Dead} /\ c.depth \in Nat /\ c.pc \in Nat /\ e.kind \in {"stmt", "expr", "lval"}
      BY <1>2, <3>3 DEF CallT
    <3> HIDE DEF c, e
    <3>7. k + 1 = c.pc /\ k \in 1..Len(c.steps) /\ k \in 1..(Len(c.steps) + 1)
      BY <3>2, <3>4, <3>6
    <3> HIDE DEF k
    <3>8. /\ Plan(c).h[k] \in Nat /\ Plan(c).d[k] \in Nat
          /\ StepOK(c.kind, c.steps[k], Plan(c).h[k], Plan(c).d[k], k \in Plan(c).g,
                    Plan(c).h[k + 1], Plan(c).d[k + 1], k + 1 \in Plan(c).g)
      BY <3>4, <3>7 DEF Plans
    <3>9. /\ Plan(c).h[k + 1] = Plan(c).h[k] + Net(e.kind) /\ Plan(c).d[k + 1] = Plan(c).d[k]
          /\ e.kind = "stmt" => k + 1 \notin Plan(c).g
      <4>1. CASE c.steps[k].op \in {"stmt", "init"}
        BY <3>2, <3>8, <4>1 DEF StepOK, Net
      <4>2. CASE c.steps[k].op \notin {"stmt", "init"}
        <5>1. c.steps[k].op \in {"expr", "lval"} /\ e.kind # "stmt"
          BY <3>2, <3>6, <4>2
        <5> QED
          BY <3>8, <5>1 DEF StepOK, Net
      <4> QED
        BY <4>1, <4>2
    <3>10. rsp # Dead => /\ c.base # Dead /\ rsp = c.base + Plan(c).h[c.pc]
                         /\ c.pc \in Plan(c).g => agrees # "no"
      <4>1. Net(e.kind) \in Nat
        BY DEF Net, Word
      <4>2. Plan(c).h[c.pc] = Plan(c).h[k + 1] /\ (c.pc \in Plan(c).g <=> k + 1 \in Plan(c).g)
        BY <3>7
      <4>3. ASSUME rsp # Dead
            PROVE  c.base \in Nat /\ rsp = c.base + Plan(c).h[k] + Net(e.kind)
        BY <1>2, <3>2, <3>6, <4>3 DEF Dead
      <4>4. rsp # Dead /\ k + 1 \in Plan(c).g => agrees # "no"
        BY <1>2, <3>9
      <4> QED
        BY <3>8, <3>9, <4>1, <4>2, <4>3, <4>4 DEF Dead
    <3>11. stack_depth = c.depth + Plan(c).d[c.pc]
      BY <1>2, <3>2, <3>7, <3>9
    <3> QED
      BY <1>1, <3>5, <3>10, <3>11 DEF Here
  <2> QED
    BY <2>1, <2>2
<1>10. ArrivalsOK'
  <2>1. ASSUME NEW a \in arrivals'
        PROVE  Lands(a)'
    <3>1. Lands(a)
      BY <1>1 DEF IInv, ArrivalsOK
    <3>2. PICK i \in 1..(n - 1) : Names(calls[i], a.label)
      BY <1>1, <1>3
    <3>3. PICK j \in 1..n : Owns(calls[j], a.label)
      BY <1>2, <3>1 DEF Lands
    <3>4. j # n
      <4>1. ASSUME j = n
            PROVE  FALSE
        <5>1. a.label \in LabelT
          BY <3>1 DEF Lands
        <5>2. j < i
          BY <1>2, <1>6, <3>2, <3>3, <4>1, <5>1 DEF IInv, LabelsOwned
        <5> QED
          BY <1>2, <4>1, <5>2
      <4> QED
        BY <4>1
    <3>5. j \in 1..(n - 1)
      BY <1>2, <3>4
    <3> QED
      BY <1>2, <1>3, <1>6, <3>1, <3>3, <3>5 DEF Lands
  <2> QED
    BY <2>1 DEF ArrivalsOK
<1>11. PlacedOK'
  <2>1. placed' \subseteq LabelT /\ \A l \in placed' : Known(l)'
    <3>1. \A l \in LabelT : Known(l) => Known(l)'
      BY <1>4, KnownGrows
    <3> QED
      BY <1>1, <3>1 DEF IInv, PlacedOK
  <2>2. \A i \in DOMAIN calls' : \A q \in DOMAIN calls'[i].steps :
          calls'[i].steps[q].op = "place" => (calls'[i].steps[q].label \in placed' <=> q < calls'[i].pc)
    BY <1>1, <1>2, <1>3, <1>6 DEF IInv, PlacedOK
  <2> QED
    BY <2>1, <2>2 DEF PlacedOK
<1>12. TypeOK'
  BY <1>1, <1>2, <1>3, <1>6 DEF TypeOK, IInv
<1> QED
  BY <1>5, <1>7, <1>8, <1>9, <1>10, <1>11, <1>12 DEF IInv

-----------------------------------------------------------------------------
(* Making a call.                                                          *)

\* The labels a new call places have numbers not given out before.
FreshLabel(l) ==
  /\ l \in LabelT
  /\ \/ l.base \in Counted /\ label_num <= l.num /\ l.num < label_num'
     \/ l.base \in Titled /\ names <= l.num /\ l.num < names'

LEMMA FreshUnknown ==
  ASSUME IInv, NEW l, FreshLabel(l)
  PROVE  l \in LabelT /\ ~Known(l) /\ l # NoLabel /\ l.base \in Counted \cup Titled
<1>1. label_num \in Nat /\ names \in Nat
  BY DEF IInv, TypeOK
<1>2. l.num \in Nat
  BY DEF FreshLabel, LabelT
<1>3. \A b \in Counted : b \notin Titled
  BY DEF Counted, Titled
<1>4. l # NoLabel
  BY DEF FreshLabel, Counted, Titled, NoLabel, Label
<1> QED
  BY <1>1, <1>2, <1>3, <1>4 DEF FreshLabel, Known

LEMMA FreshKnown ==
  ASSUME IInv, NumbersGrow, NEW l, FreshLabel(l)
  PROVE  Known(l)'
<1>1. label_num \in Nat /\ names \in Nat /\ label_num' \in Nat /\ names' \in Nat
  BY DEF IInv, TypeOK, NumbersGrow
<1>2. l.num \in Nat
  BY DEF FreshLabel, LabelT
<1>3. \A b \in Counted : b \notin Titled
  BY DEF Counted, Titled
<1> QED
  BY <1>1, <1>2, <1>3 DEF FreshLabel, Known

KindOf(op) == IF op \in {"stmt", "init"} THEN "stmt" ELSE op

\* What Enter does to the calls.
LEMMA EnterFacts ==
  ASSUME IInv, NEW op \in {"expr", "lval", "stmt", "init"}, NEW e \in CallT, e.pc = 1,
         e.base = rsp, e.depth = IF calls = <<>> THEN offset ELSE stack_depth, Enter(op, e)
  PROVE  LET m == Len(calls)
         IN  /\ m \in Nat /\ DOMAIN calls = 1..m
             /\ calls' \in Seq(CallT) /\ Len(calls') = m + 1 /\ DOMAIN calls' = 1..(m + 1)
             /\ calls' # <<>> /\ Last(calls') = e /\ calls'[m + 1] = e
             /\ \A i \in 1..m : Same(calls[i], calls'[i])
             /\ \A i \in 1..(m - 1) : calls'[i].pc = calls[i].pc
             /\ m # 0 => Running /\ Current.op = op /\ calls'[m].pc = calls[m].pc + 1
             /\ m = 0 => calls = <<>> /\ op = "stmt"
             /\ phase = "body" /\ phase' = phase /\ stack_depth' = e.depth
             /\ UNCHANGED <<todo, offset, rsp, agrees, placed, arrivals>>
<1> DEFINE m == Len(calls)
<1>1. calls \in Seq(CallT) /\ m \in Nat /\ DOMAIN calls = 1..m
  BY Skeleton DEF IInv, CallsOK
<1>2. UNCHANGED <<phase, todo, offset, rsp, agrees, placed, arrivals>>
  BY DEF Enter, emitted, labels
<1>3. ASSUME At(op), calls' = Append(Advanced, e), UNCHANGED stack_depth
      PROVE  /\ calls' \in Seq(CallT) /\ Len(calls') = m + 1 /\ calls' # <<>> /\ calls'[m + 1] = e
             /\ \A i \in 1..m : Same(calls[i], calls'[i])
             /\ \A i \in 1..(m - 1) : calls'[i].pc = calls[i].pc
             /\ Running /\ Current.op = op /\ calls'[m].pc = calls[m].pc + 1 /\ m # 0
             /\ phase = "body" /\ stack_depth' = e.depth
  <2>1. Running /\ Current.op = op
    BY <1>3 DEF At
  <2>2. m \in Nat \ {0} /\ phase = "body"
    BY <2>1, ActiveFacts
  <2> DEFINE new == Advanced
  <2>3. /\ new \in Seq(CallT) /\ Len(new) = m
        /\ \A i \in 1..m : Same(calls[i], new[i])
        /\ \A i \in 1..(m - 1) : new[i].pc = calls[i].pc
        /\ new[m].pc = calls[m].pc + 1
    <3>1. new = Advanced /\ m = Len(calls)
      OBVIOUS
    <3> HIDE DEF new, m
    <3> QED
      BY <2>1, <3>1, AdvancedFacts
  <2> HIDE DEF new, m
  <2>4. /\ calls' \in Seq(CallT) /\ calls' # <<>> /\ Len(calls') = m + 1
        /\ \A i \in 1..m : calls'[i] = new[i]
        /\ calls'[m + 1] = e
    <3>1. calls' = Append(new, e)
      BY <1>3 DEF new
    <3> QED
      BY <2>3, <3>1, AppendProperties
  <2>5. m \in 1..m /\ \A i \in 1..(m - 1) : i \in 1..m
    BY <2>2
  <2>6. calls # <<>>
    BY <2>1 DEF Running
  <2>7. \A i \in 1..m : Same(calls[i], calls'[i])
    BY <2>3, <2>4
  <2>8. calls'[m].pc = calls[m].pc + 1 /\ \A i \in 1..(m - 1) : calls'[i].pc = calls[i].pc
    BY <2>3, <2>4, <2>5
  <2>9. m # 0 /\ stack_depth' = e.depth
    BY <1>3, <2>2, <2>6
  <2> QED
    BY <2>1, <2>2, <2>4, <2>7, <2>8, <2>9
<1>4. ASSUME op = "stmt", phase = "body", calls = <<>>, calls' = <<e>>, stack_depth' = offset
      PROVE  /\ calls' \in Seq(CallT) /\ Len(calls') = m + 1 /\ calls' # <<>> /\ calls'[m + 1] = e
             /\ m = 0 /\ stack_depth' = e.depth
  <2>1. m = 0
    BY <1>4, EmptySeq
  <2> QED
    BY <1>4, <2>1
<1>5. \/ At(op) /\ calls' = Append(Advanced, e) /\ UNCHANGED stack_depth
      \/ op = "stmt" /\ phase = "body" /\ calls = <<>> /\ calls' = <<e>> /\ stack_depth' = offset
  BY DEF Enter
<1> HIDE DEF m
<1>6. \/ /\ calls' \in Seq(CallT) /\ Len(calls') = m + 1 /\ calls' # <<>> /\ calls'[m + 1] = e
         /\ \A i \in 1..m : Same(calls[i], calls'[i])
         /\ \A i \in 1..(m - 1) : calls'[i].pc = calls[i].pc
         /\ Running /\ Current.op = op /\ calls'[m].pc = calls[m].pc + 1 /\ m # 0
         /\ phase = "body" /\ stack_depth' = e.depth
      \/ /\ calls' \in Seq(CallT) /\ Len(calls') = m + 1 /\ calls' # <<>> /\ calls'[m + 1] = e
         /\ m = 0 /\ stack_depth' = e.depth /\ calls = <<>> /\ op = "stmt" /\ phase = "body"
  BY <1>3, <1>4, <1>5
<1>7. DOMAIN calls' = 1..(m + 1) /\ Last(calls') = calls'[m + 1]
  BY <1>6, LenProperties DEF Last
<1>8. m = 0 => 1..m = {} /\ 1..(m - 1) = {}
  OBVIOUS
<1> QED
  BY <1>1, <1>2, <1>6, <1>7, <1>8 DEF m

LEMMA EnterStack ==
  ASSUME IInv, NEW op \in {"expr", "lval", "stmt", "init"}, NEW e \in CallT, e.pc = 1,
         e.base = rsp, e.depth = IF calls = <<>> THEN offset ELSE stack_depth, Enter(op, e),
         e.kind = KindOf(op), Planned(e.kind, e.steps)
  PROVE  CallsOK' /\ Nested' /\ Here' /\ stack_depth' \in Nat
<1> DEFINE m == Len(calls)
<1>1. /\ m \in Nat /\ DOMAIN calls = 1..m
      /\ calls' \in Seq(CallT) /\ Len(calls') = m + 1 /\ DOMAIN calls' = 1..(m + 1)
      /\ calls' # <<>> /\ Last(calls') = e /\ calls'[m + 1] = e
      /\ \A i \in 1..m : Same(calls[i], calls'[i])
      /\ \A i \in 1..(m - 1) : calls'[i].pc = calls[i].pc
      /\ m # 0 => Running /\ Current.op = op /\ calls'[m].pc = calls[m].pc + 1
      /\ m = 0 => calls = <<>> /\ op = "stmt"
      /\ phase = "body" /\ phase' = phase /\ stack_depth' = e.depth
      /\ UNCHANGED <<todo, offset, rsp, agrees, placed, arrivals>>
  BY EnterFacts
<1>2. m # 0 => /\ calls[m].steps[calls[m].pc] = Current /\ calls[m].pc \in DOMAIN calls[m].steps
               /\ calls[m].pc \in Nat
               /\ rsp # Dead => calls[m].base \in Nat /\ rsp = calls[m].base + Plan(calls[m]).h[calls[m].pc]
               /\ stack_depth = calls[m].depth + Plan(calls[m]).d[calls[m].pc]
               /\ Plan(calls[m]).h[calls[m].pc] \in Nat
               /\ op \in {"stmt", "init"} => /\ calls[m].kind = "stmt"
                                             /\ Plan(calls[m]).h[calls[m].pc] = 0
                                             /\ Plan(calls[m]).d[calls[m].pc] = 0
  <2> SUFFICES ASSUME m # 0
               PROVE  /\ Active.steps[Pos] = Current /\ Pos \in DOMAIN Active.steps /\ Pos \in Nat
                      /\ rsp # Dead => Active.base \in Nat /\ rsp = Active.base + Plan(Active).h[Pos]
                      /\ stack_depth = Active.depth + Plan(Active).d[Pos]
                      /\ Plan(Active).h[Pos] \in Nat
                      /\ op \in {"stmt", "init"} => /\ Active.kind = "stmt"
                                                    /\ Plan(Active).h[Pos] = 0
                                                    /\ Plan(Active).d[Pos] = 0
    BY DEF Active, Pos
  <2>1. Running /\ Current.op = op
    BY <1>1
  <2>2. op \in {"stmt", "init"} => /\ Active.kind = "stmt"
                                   /\ Plan(Active).h[Pos] = 0
                                   /\ Plan(Active).d[Pos] = 0
    BY <2>1, ActiveStep DEF StepOK
  <2> QED
    BY <2>1, <2>2, ActiveFacts
<1>3. m # 0 => calls # <<>>
  BY <1>1 DEF Running
<1>4. /\ offset \in Nat
      /\ \A i \in 1..m : Planned(calls[i].kind, calls[i].steps)
      /\ calls # <<>> => calls[1].kind = "stmt"
      /\ phase = "body" => todo > 0
  BY <1>1 DEF IInv, CallsOK, TypeOK
<1>5. /\ \A i, j \in 1..m : i < j /\ calls[j].base # Dead =>
           calls[i].base # Dead /\ calls[i].base <= calls[j].base
      /\ \A i \in 1..m : calls[i].kind = "stmt" =>
           calls[i].base \in {Dead, offset} /\ calls[i].depth = offset
  BY <1>1 DEF IInv, Nested
<1>6. \A i \in 1..m : calls[i].base \in Nat \cup {Dead} /\ calls[i].depth \in Nat
  BY <1>1, Skeleton DEF CallT
<1>7. m = 0 => rsp \in {Dead, offset}
  BY <1>1 DEF IInv, Here
<1> HIDE DEF m
<1>8. \A i \in 1..m : /\ calls'[i].steps = calls[i].steps /\ calls'[i].kind = calls[i].kind
                      /\ calls'[i].base = calls[i].base /\ calls'[i].depth = calls[i].depth
                      /\ Plan(calls'[i]) = Plan(calls[i])
  BY <1>1, SameFacts DEF Same
<1>9. m # 0 => m \in 1..m
  BY <1>1
<1>10. \A i \in 1..(m + 1) : i \in 1..m \/ i = m + 1
  BY <1>1
<1>11. CallsOK'
  <2>1. \A i \in 1..(m + 1) : Planned(calls'[i].kind, calls'[i].steps)
    BY <1>1, <1>4, <1>8, <1>10
  <2>2. calls'[1].kind = "stmt"
    <3>1. CASE m = 0
      BY <1>1, <3>1 DEF KindOf
    <3>2. CASE m # 0
      <4>1. 1 \in 1..m
        BY <1>1, <3>2
      <4> QED
        BY <1>3, <1>4, <1>8, <3>2, <4>1
    <3> QED
      BY <3>1, <3>2
  <2> QED
    BY <1>1, <1>4, <2>1, <2>2 DEF CallsOK
<1>12. /\ e.base # Dead /\ m # 0 => /\ calls[m].base \in Nat /\ calls[m].base # Dead
                                    /\ e.base = calls[m].base + Plan(calls[m]).h[calls[m].pc]
                                    /\ calls[m].base <= e.base
       /\ e.depth \in Nat
       /\ m # 0 => e.depth = calls[m].depth + Plan(calls[m]).d[calls[m].pc]
       /\ e.kind = "stmt" => e.base \in {Dead, offset} /\ e.depth = offset
  <2>1. e.depth \in Nat
    BY DEF CallT
  <2>2. CASE m = 0
    BY <1>1, <1>7, <2>1, <2>2
  <2>3. CASE m # 0
    <3>1. e.kind = "stmt" => op \in {"stmt", "init"}
      BY DEF KindOf
    <3>2. e.kind = "stmt" => e.base \in {Dead, offset} /\ e.depth = offset
      BY <1>2, <1>3, <1>4, <1>5, <1>6, <1>9, <2>3, <3>1
    <3> QED
      BY <1>2, <1>3, <2>1, <2>3, <3>2 DEF Dead
  <2> QED
    BY <2>2, <2>3
<1>13. Nested'
  <2>1. ASSUME NEW i \in 1..((m + 1) - 1)
        PROVE  LET cc == calls'[i]
                   ee == calls'[i + 1]
                   kk == cc.pc - 1
               IN  /\ kk \in DOMAIN cc.steps
                   /\ ee.kind = IF cc.steps[kk].op \in {"stmt", "init"} THEN "stmt" ELSE cc.steps[kk].op
                   /\ ee.base # Dead => cc.base # Dead /\ ee.base = cc.base + Plan(cc).h[kk]
                   /\ ee.depth = cc.depth + Plan(cc).d[kk]
    <3>1. CASE i = m
      <4>1. m # 0 /\ i \in 1..m /\ m \in 1..m
        BY <1>1, <3>1
      <4>2. calls'[m].pc - 1 = calls[m].pc /\ calls'[m + 1] = e
        BY <1>1, <1>2, <4>1
      <4>3. calls'[m].steps = calls[m].steps /\ calls'[m].steps[calls[m].pc].op = op
        BY <1>1, <1>2, <1>8, <4>1
      <4>4. e.kind = IF calls'[m].steps[calls[m].pc].op \in {"stmt", "init"} THEN "stmt"
                     ELSE calls'[m].steps[calls[m].pc].op
        BY <4>3 DEF KindOf
      <4>5. /\ calls[m].pc \in DOMAIN calls'[m].steps
            /\ calls'[m].base = calls[m].base /\ calls'[m].depth = calls[m].depth
            /\ Plan(calls'[m]) = Plan(calls[m])
        BY <1>2, <1>8, <4>1
      <4>6. e.base # Dead => calls'[m].base # Dead
                             /\ e.base = calls'[m].base + Plan(calls'[m]).h[calls[m].pc]
        BY <1>12, <4>1, <4>5
      <4>7. e.depth = calls'[m].depth + Plan(calls'[m]).d[calls[m].pc]
        BY <1>12, <4>1, <4>5
      <4> QED
        BY <3>1, <4>2, <4>4, <4>5, <4>6, <4>7
    <3>2. CASE i # m
      <4>0. m = Len(calls) /\ m \in Nat
        BY <1>1 DEF m
      <4>1. i \in 1..m /\ i + 1 \in 1..m /\ i \in 1..(m - 1) /\ i \in 1..(Len(calls) - 1)
        BY <3>2, <4>0
      <4>2. LET cc == calls[i]
                ee == calls[i + 1]
                kk == cc.pc - 1
            IN  /\ kk \in DOMAIN cc.steps
                /\ ee.kind = IF cc.steps[kk].op \in {"stmt", "init"} THEN "stmt" ELSE cc.steps[kk].op
                /\ ee.base # Dead => cc.base # Dead /\ ee.base = cc.base + Plan(cc).h[kk]
                /\ ee.depth = cc.depth + Plan(cc).d[kk]
        BY <4>1 DEF IInv, Nested
      <4> QED
        BY <1>1, <1>8, <4>1, <4>2
    <3> QED
      BY <3>1, <3>2
  <2>2. ASSUME NEW i \in 1..(m + 1), NEW j \in 1..(m + 1), i < j, calls'[j].base # Dead
        PROVE  calls'[i].base # Dead /\ calls'[i].base <= calls'[j].base
    <3>1. i \in 1..m
      BY <1>1, <2>2
    <3>2. CASE j \in 1..m
      BY <1>5, <1>8, <2>2, <3>1, <3>2
    <3>3. CASE j = m + 1
      <4>1. m # 0 /\ m \in 1..m /\ calls'[j] = e /\ e.base \in Nat
        BY <1>1, <1>9, <2>2, <3>1, <3>3 DEF CallT
      <4>2. calls[m].base # Dead /\ calls[m].base \in Nat /\ calls[m].base <= e.base
        BY <1>12, <2>2, <4>1
      <4>3. calls[i].base # Dead /\ calls[i].base <= calls[m].base
        <5>1. CASE i = m
          BY <4>2, <5>1
        <5>2. CASE i # m
          BY <1>1, <1>5, <3>1, <4>1, <4>2, <5>2
        <5> QED
          BY <5>1, <5>2
      <4>4. calls[i].base \in Nat
        BY <1>6, <3>1, <4>3
      <4> QED
        BY <1>8, <3>1, <4>1, <4>2, <4>3, <4>4
    <3> QED
      BY <1>10, <3>2, <3>3
  <2>3. \A i \in 1..(m + 1) : calls'[i].kind = "stmt" =>
          calls'[i].base \in {Dead, offset'} /\ calls'[i].depth = offset'
    BY <1>1, <1>5, <1>8, <1>10, <1>12
  <2> QED
    BY <1>1, <2>1, <2>2, <2>3 DEF Nested
<1>14. Here'
  <2>1. e.steps \in Seq(StepT)
    BY DEF CallT
  <2>2. Plans(e.kind, e.steps, Plan(e))
    BY <2>1, PlanFacts
  <2>3. Plan(e).h[1] = 0 /\ Plan(e).d[1] = 0 /\ 1 \notin Plan(e).g
    BY <2>2 DEF Plans
  <2>4. e.base \in Nat \cup {Dead} /\ e.depth \in Nat
    BY DEF CallT
  <2> QED
    BY <1>1, <2>3, <2>4 DEF Here
<1> QED
  BY <1>1, <1>11, <1>12, <1>13, <1>14

\* The labels of a new call: those it places are new; the others it jumps to are the
\* end of the function or belong to a statement around it.
Entry(e, own, outer) ==
  /\ Tidy(e.steps, own, outer)
  /\ \A l \in own : FreshLabel(l)
  /\ \A l \in outer : /\ e.kind = "stmt"
                      /\ \/ l = ReturnLabel
                         \/ \E j \in DOMAIN calls : calls[j].kind = "stmt" /\ Owns(calls[j], l)
  /\ \A l \in {e.breaks, e.continues} : l # NoLabel => e.kind = "stmt" /\ l.base \in Titled /\ l \in own

LEMMA EntryFacts ==
  ASSUME IInv, NEW e, NEW own, NEW outer, Entry(e, own, outer), NEW l
  PROVE  /\ Owns(e, l) <=> l \in own
         /\ Names(e, l) /\ l # NoLabel => l \in own \cup outer
         /\ l \in own => FreshLabel(l) /\ ~Known(l) /\ l # NoLabel /\ l.base \in Counted \cup Titled
         /\ l \in outer => l = ReturnLabel \/ Known(l)
<1>1. Tidy(e.steps, own, outer)
  BY DEF Entry
<1>2. Place(l).op = "place" /\ Place(l).label = l
  BY DEF Place
<1>3. Owns(e, l) <=> l \in own
  BY <1>1, <1>2 DEF Tidy, Owns
<1>4. Names(e, l) /\ l # NoLabel => l \in own \cup outer
  BY <1>1 DEF Tidy, Names
<1>5. l \in own => FreshLabel(l)
  BY DEF Entry
<1>6. l \in own => ~Known(l) /\ l # NoLabel /\ l.base \in Counted \cup Titled
  BY <1>5, FreshUnknown
<1>7. ASSUME l \in outer, l # ReturnLabel
      PROVE  Known(l)
  <2>1. PICK j \in DOMAIN calls : Owns(calls[j], l)
    BY <1>7 DEF Entry
  <2>2. j \in 1..Len(calls)
    BY <2>1, Skeleton
  <2> QED
    BY <2>1, <2>2, OwnerPlaces
<1> QED
  BY <1>3, <1>4, <1>5, <1>6, <1>7

LEMMA EnterLabels ==
  ASSUME IInv, NumbersGrow, todo' = todo, NEW e \in CallT, NEW own, NEW outer, Entry(e, own, outer),
         NEW m, m = Len(calls), DOMAIN calls' = 1..(m + 1), calls'[m + 1] = e,
         \A i \in 1..m : Same(calls[i], calls'[i])
  PROVE  StepLabels' /\ LabelsOwned'
<1>1. m \in Nat /\ DOMAIN calls = 1..m
  BY Skeleton
<1>2. \A i \in 1..m : /\ calls'[i].steps = calls[i].steps /\ calls'[i].kind = calls[i].kind
                      /\ calls'[i].breaks = calls[i].breaks /\ calls'[i].continues = calls[i].continues
  BY DEF Same
<1>3. \A i \in 1..m : \A l : /\ Owns(calls'[i], l) <=> Owns(calls[i], l)
                             /\ Names(calls'[i], l) <=> Names(calls[i], l)
  BY SameFacts
<1>4. \A i \in 1..(m + 1) : i \in 1..m \/ i = m + 1
  BY <1>1
<1>5. ReturnLabel' = ReturnLabel
  BY DEF ReturnLabel
<1>6. ASSUME NEW i \in 1..m, NEW k \in DOMAIN calls[i].steps, NEW s, s = calls[i].steps[k]
      PROVE  /\ Jumps(s) \/ s.op = "place" <=> s.label # NoLabel
             /\ Known(s.label) /\ Known(s.label)'
             /\ s.op = "place" => s.label.base \in Counted \cup Titled
             /\ Jumps(s) => s.label = ReturnLabel' \/ \E j \in 1..i : Owns(calls'[j], s.label)
  <2>1. i \in DOMAIN calls
    BY <1>1
  <2>2. /\ Jumps(s) \/ s.op = "place" <=> s.label # NoLabel
        /\ Known(s.label)
        /\ s.op = "place" => s.label.base \in Counted \cup Titled
        /\ Jumps(s) => s.label = ReturnLabel \/ \E j \in 1..i : Owns(calls[j], s.label)
    BY <1>6, <2>1 DEF IInv, StepLabels
  <2>3. s.label \in LabelT
    BY <1>1, <1>6, <2>1, Skeleton
  <2>4. \A j \in 1..i : j \in 1..m
    BY <1>1
  <2>5. Known(s.label)'
    BY <2>2, <2>3, KnownGrows
  <2>6. Jumps(s) => s.label = ReturnLabel' \/ \E j \in 1..i : Owns(calls'[j], s.label)
    BY <1>3, <1>5, <2>2, <2>4
  <2> QED
    BY <2>2, <2>5, <2>6
<1>7. ASSUME NEW i, i = m + 1, NEW k \in DOMAIN e.steps, NEW s, s = e.steps[k]
      PROVE  /\ Jumps(s) \/ s.op = "place" <=> s.label # NoLabel
             /\ Known(s.label)'
             /\ s.op = "place" => s.label.base \in Counted \cup Titled
             /\ Jumps(s) => s.label = ReturnLabel' \/ \E j \in 1..i : Owns(calls'[j], s.label)
  <2>1. Tidy(e.steps, own, outer)
    BY DEF Entry
  <2>2. /\ Jumps(s) \/ s.op = "place" <=> s.label # NoLabel
        /\ Jumps(s) => s.label \in own \cup outer
        /\ s.op = "place" => s.label \in own
    BY <1>7, <2>1 DEF Tidy
  <2>3. /\ s.label \in own => FreshLabel(s.label) /\ s.label.base \in Counted \cup Titled
        /\ s.label \in own => Owns(e, s.label)
        /\ s.label \in outer => s.label = ReturnLabel \/ Known(s.label)
    BY EntryFacts
  <2>4. s.label \in LabelT
    <3>1. e.steps \in Seq(StepT)
      BY DEF CallT
    <3>2. s \in StepT
      BY <1>7, <3>1, ElementOfSeq
    <3> QED
      BY <3>2 DEF StepT
  <2>5. Known(s.label)'
    <3>1. CASE s.label \in own
      BY <2>3, <3>1, FreshKnown
    <3>2. CASE s.label = ReturnLabel \/ s.label = NoLabel
      BY <3>2 DEF Known, ReturnLabel, NoLabel, Label, Counted, Titled
    <3>3. CASE Known(s.label)
      BY <2>4, <3>3, KnownGrows
    <3> QED
      BY <2>2, <2>3, <3>1, <3>2, <3>3
  <2>6. ASSUME s.label \in own
        PROVE  \E j \in 1..i : Owns(calls'[j], s.label)
    <3>1. m + 1 \in 1..i
      BY <1>1, <1>7
    <3> QED
      BY <2>3, <2>6, <3>1
  <2>7. ASSUME s.label \in outer, s.label # ReturnLabel
        PROVE  \E j \in 1..i : Owns(calls'[j], s.label)
    <3>1. PICK j \in 1..m : Owns(calls[j], s.label)
      BY <1>1, <2>7 DEF Entry
    <3>2. j \in 1..i
      BY <1>1, <1>7
    <3> QED
      BY <1>3, <3>1, <3>2
  <2> QED
    BY <1>5, <2>2, <2>3, <2>5, <2>6, <2>7
<1>8. StepLabels'
  <2>1. \A i \in DOMAIN calls' : \/ i \in 1..m /\ calls'[i].steps = calls[i].steps
                                 \/ i = m + 1 /\ calls'[i].steps = e.steps
    BY <1>2, <1>4
  <2> QED
    BY <1>6, <1>7, <2>1 DEF StepLabels, Known
<1>9. ASSUME NEW i \in 1..m, NEW l, Names(calls[i], l)
      PROVE  Known(l)
  BY <1>6, <1>9 DEF Names
<1>10. ASSUME NEW i \in 1..m, NEW l, Owns(calls[i], l)
       PROVE  l # NoLabel /\ l.base \in Counted \cup Titled /\ Known(l) /\ Names(calls[i], l)
  BY <1>10, OwnerPlaces
<1>11. ASSUME NEW i \in 1..(m + 1), NEW j \in 1..(m + 1), NEW l \in LabelT,
              i # j, Owns(calls'[i], l), Names(calls'[j], l)
       PROVE  i < j /\ calls'[i].kind = "stmt" /\ calls'[j].kind = "stmt"
  <2>1. CASE i \in 1..m /\ j \in 1..m
    <3>1. Owns(calls[i], l) /\ Names(calls[j], l) /\ i \in DOMAIN calls /\ j \in DOMAIN calls
      BY <1>1, <1>3, <1>11, <2>1
    <3>2. i < j /\ calls[i].kind = "stmt" /\ calls[j].kind = "stmt"
      BY <1>11, <3>1 DEF IInv, LabelsOwned
    <3> QED
      BY <1>2, <2>1, <3>2
  <2>2. CASE i = m + 1 /\ j \in 1..m
    <3>1. Owns(e, l) /\ Names(calls[j], l)
      BY <1>3, <1>11, <2>2
    <3>2. ~Known(l)
      BY <3>1, EntryFacts
    <3> QED
      BY <1>9, <2>2, <3>1, <3>2
  <2>3. CASE i \in 1..m /\ j = m + 1
    <3>1. Owns(calls[i], l) /\ Names(e, l)
      BY <1>3, <1>11, <2>3
    <3>2. l # NoLabel /\ l.base \in Counted \cup Titled /\ Known(l)
      BY <1>10, <2>3, <3>1
    <3>3. l \in outer
      BY <3>1, <3>2, EntryFacts
    <3>4. l # ReturnLabel
      BY <3>2 DEF ReturnLabel, Label, Counted, Titled
    <3>5. e.kind = "stmt" /\ \E q \in DOMAIN calls : calls[q].kind = "stmt" /\ Owns(calls[q], l)
      BY <3>3, <3>4 DEF Entry
    <3>6. PICK q \in 1..m : calls[q].kind = "stmt" /\ Owns(calls[q], l)
      BY <1>1, <3>5
    <3>7. calls[i].kind = "stmt"
      <4>1. CASE i = q
        BY <3>6, <4>1
      <4>2. CASE i # q
        <5>1. Names(calls[q], l) /\ i \in DOMAIN calls /\ q \in DOMAIN calls
          BY <1>1, <1>10, <2>3, <3>6
        <5> QED
          BY <3>1, <4>2, <5>1 DEF IInv, LabelsOwned
      <4> QED
        BY <4>1, <4>2
    <3>8. i < j
      BY <1>1, <2>3
    <3> QED
      BY <1>2, <2>3, <3>5, <3>7, <3>8
  <2> QED
    BY <1>4, <1>11, <2>1, <2>2, <2>3
<1>12. ASSUME NEW i \in 1..(m + 1)
       PROVE  /\ \A k, q \in DOMAIN calls'[i].steps :
                   LET s == calls'[i].steps
                   IN  s[k].op = "place" /\ s[q].op = "place" /\ s[k].label = s[q].label => k = q
              /\ \A l \in {calls'[i].breaks, calls'[i].continues} :
                   l # NoLabel => calls'[i].kind = "stmt" /\ l.base \in Titled /\ Owns(calls'[i], l)
  <2>1. CASE i \in 1..m
    <3>1. i \in DOMAIN calls
      BY <1>1, <2>1
    <3>2. \A k, q \in DOMAIN calls[i].steps :
            LET s == calls[i].steps
            IN  s[k].op = "place" /\ s[q].op = "place" /\ s[k].label = s[q].label => k = q
      BY <3>1 DEF IInv, LabelsOwned
    <3>3. \A l \in {calls[i].breaks, calls[i].continues} :
            l # NoLabel => calls[i].kind = "stmt" /\ l.base \in Titled /\ Owns(calls[i], l)
      BY <3>1 DEF IInv, LabelsOwned
    <3> QED
      BY <1>2, <1>3, <2>1, <3>2, <3>3
  <2>2. CASE i = m + 1
    <3>1. \A k, q \in DOMAIN e.steps :
            LET s == e.steps
            IN  s[k].op = "place" /\ s[q].op = "place" /\ s[k].label = s[q].label => k = q
      BY DEF Entry, Tidy
    <3>2. \A l \in {e.breaks, e.continues} :
            l # NoLabel => e.kind = "stmt" /\ l.base \in Titled /\ l \in own
      BY DEF Entry
    <3>3. \A l \in own : Owns(e, l)
      BY EntryFacts
    <3> QED
      BY <2>2, <3>1, <3>2, <3>3
  <2> QED
    BY <1>4, <2>1, <2>2
<1>13. LabelsOwned'
  BY <1>11, <1>12 DEF LabelsOwned
<1> QED
  BY <1>8, <1>13

LEMMA Entered ==
  ASSUME IInv, NumbersGrow, NEW op \in {"expr", "lval", "stmt", "init"},
         NEW e \in CallT, e.pc = 1, e.base = rsp,
         e.depth = IF calls = <<>> THEN offset ELSE stack_depth, Enter(op, e),
         e.kind = KindOf(op), Planned(e.kind, e.steps),
         NEW own, NEW outer, Entry(e, own, outer)
  PROVE  IInv'
<1> DEFINE m == Len(calls)
<1>1. /\ m \in Nat /\ DOMAIN calls = 1..m
      /\ calls' \in Seq(CallT) /\ DOMAIN calls' = 1..(m + 1) /\ calls'[m + 1] = e
      /\ \A i \in 1..m : Same(calls[i], calls'[i])
      /\ \A i \in 1..(m - 1) : calls'[i].pc = calls[i].pc
      /\ m # 0 => Running /\ Current.op = op /\ calls'[m].pc = calls[m].pc + 1
      /\ phase' = phase
      /\ UNCHANGED <<todo, offset, rsp, agrees, placed, arrivals>>
  BY EnterFacts
<1>2. CallsOK' /\ Nested' /\ Here' /\ stack_depth' \in Nat
  BY EnterStack
<1>3. StepLabels' /\ LabelsOwned'
  BY <1>1, EnterLabels
<1>4. m # 0 => /\ calls[m].pc \in 1..Len(calls[m].steps) /\ Len(calls[m].steps) \in Nat
               /\ calls[m].steps[calls[m].pc].op = op
  BY <1>1, ActiveFacts DEF Active, Pos
<1> HIDE DEF m
<1>5. \A i \in 1..m : calls'[i].steps = calls[i].steps /\ calls'[i].base = calls[i].base
  BY <1>1 DEF Same
<1>6. \A i \in 1..(m + 1) : i \in 1..m \/ i = m + 1
  BY <1>1
<1>7. \A i \in 1..m : i = m \/ i \in 1..(m - 1)
  BY <1>1
<1>8. ArrivalsOK'
  <2>1. ASSUME NEW a \in arrivals'
        PROVE  Lands(a)'
    <3>1. Lands(a)
      BY <1>1 DEF IInv, ArrivalsOK
    <3>2. \A i \in 1..m : Owns(calls'[i], a.label) <=> Owns(calls[i], a.label)
      BY <1>1, SameFacts
    <3>3. PICK j \in 1..m : Owns(calls[j], a.label)
      BY <1>1, <3>1 DEF Lands
    <3>4. Known(a.label)
      BY <3>3, OwnerPlaces DEF m
    <3>5. ~Owns(e, a.label)
      BY <3>4, EntryFacts
    <3>6. \A i \in DOMAIN calls' : Owns(calls'[i], a.label) =>
            calls'[i].base # Dead /\ a.rsp = calls'[i].base + LabelHeight(a.label)
      BY <1>1, <1>5, <1>6, <3>1, <3>2, <3>5 DEF Lands
    <3>7. \E i \in DOMAIN calls' : Owns(calls'[i], a.label)
      <4>1. j \in DOMAIN calls'
        BY <1>1
      <4> QED
        BY <3>2, <3>3, <4>1
    <3> QED
      BY <3>1, <3>6, <3>7 DEF Lands
  <2> QED
    BY <2>1 DEF ArrivalsOK
<1>9. placed' \subseteq LabelT /\ \A l \in placed' : Known(l)'
  <2>1. \A l \in LabelT : Known(l) => Known(l)'
    BY KnownGrows
  <2> QED
    BY <1>1, <2>1 DEF IInv, PlacedOK
<1>10. ASSUME NEW i \in 1..m, NEW k \in DOMAIN calls[i].steps, calls[i].steps[k].op = "place"
       PROVE  calls[i].steps[k].label \in placed' <=> k < calls'[i].pc
  <2>1. calls[i].steps[k].label \in placed <=> k < calls[i].pc
    BY <1>1, <1>10 DEF IInv, PlacedOK
  <2>2. CASE i = m
    <3>1. m # 0 /\ k \in Nat
      BY <1>1, <2>2, Skeleton DEF m
    <3>2. k # calls[m].pc
      BY <1>4, <1>10, <2>2, <3>1
    <3>3. k < calls[m].pc <=> k < calls[m].pc + 1
      BY <1>4, <3>1, <3>2
    <3> QED
      BY <1>1, <2>1, <2>2, <3>1, <3>3
  <2>3. CASE i # m
    BY <1>1, <1>7, <2>1, <2>3
  <2> QED
    BY <2>2, <2>3
<1>11. ASSUME NEW k \in DOMAIN e.steps, e.steps[k].op = "place"
       PROVE  e.steps[k].label \notin placed' /\ ~(k < e.pc)
  <2>1. e.steps[k].label \in own
    BY <1>11 DEF Entry, Tidy
  <2>2. ~Known(e.steps[k].label)
    BY <2>1, EntryFacts
  <2>3. e.steps[k].label \notin placed
    BY <2>2 DEF IInv, PlacedOK
  <2>4. k \in Nat /\ k >= 1
    <3>1. e.steps \in Seq(StepT)
      BY DEF CallT
    <3>2. DOMAIN e.steps = 1..Len(e.steps) /\ Len(e.steps) \in Nat
      BY <3>1, LenProperties
    <3> QED
      BY <3>2
  <2> QED
    BY <1>1, <2>3, <2>4
<1>12. PlacedOK'
  <2>1. \A i \in DOMAIN calls' : \A k \in DOMAIN calls'[i].steps :
          calls'[i].steps[k].op = "place" => (calls'[i].steps[k].label \in placed' <=> k < calls'[i].pc)
    BY <1>1, <1>5, <1>6, <1>10, <1>11
  <2> QED
    BY <1>9, <2>1 DEF PlacedOK
<1>13. ASSUME NEW i \in 1..(m + 1)
       PROVE  calls'[i].pc \in 1..(Len(calls'[i].steps) + 1)
  <2>1. CASE i = m + 1
    <3>1. e.steps \in Seq(StepT)
      BY DEF CallT
    <3>2. Len(e.steps) \in Nat
      BY <3>1, LenProperties
    <3> QED
      BY <1>1, <2>1, <3>2
  <2>2. CASE i \in 1..m /\ i = m
    BY <1>1, <1>4, <1>5, <2>2
  <2>3. CASE i \in 1..(m - 1)
    <3>1. i \in 1..m /\ i \in DOMAIN calls
      BY <1>1, <2>3
    <3>2. calls[i].pc \in 1..(Len(calls[i].steps) + 1)
      BY <3>1 DEF IInv, TypeOK
    <3> QED
      BY <1>1, <1>5, <2>3, <3>1, <3>2
  <2> QED
    BY <1>6, <1>7, <2>1, <2>2, <2>3
<1>14. TypeOK'
  BY <1>1, <1>2, <1>13 DEF TypeOK, IInv, NumbersGrow
<1> QED
  BY <1>2, <1>3, <1>8, <1>12, <1>14 DEF IInv

LEMMA FrameFacts ==
  ASSUME IInv, NEW kind \in {"stmt", "expr", "lval"}, NEW steps \in Seq(StepT),
         NEW breaks \in LabelT, NEW continues \in LabelT,
         NEW e, e = Frame(kind, steps, breaks, continues)
  PROVE  /\ e \in CallT /\ e.pc = 1 /\ e.base = rsp /\ e.kind = kind /\ e.steps = steps
         /\ e.depth = IF calls = <<>> THEN offset ELSE stack_depth
         /\ e.breaks = breaks /\ e.continues = continues
<1>1. rsp \in Nat \cup {Dead} /\ offset \in Nat /\ stack_depth \in Nat
  BY DEF IInv, TypeOK
<1> DEFINE depth == IF calls = <<>> THEN offset ELSE stack_depth
<1>2. depth \in Nat
  BY <1>1
<1>3. e = [kind |-> kind, steps |-> steps, pc |-> 1, base |-> rsp, depth |-> depth,
           breaks |-> breaks, continues |-> continues]
  BY DEF Frame
<1> HIDE DEF depth
<1>4. e \in CallT /\ e.pc = 1 /\ e.base = rsp /\ e.kind = kind /\ e.steps = steps
      /\ e.depth = depth /\ e.breaks = breaks /\ e.continues = continues
  BY <1>1, <1>2, <1>3 DEF CallT
<1> QED
  BY <1>4 DEF depth

\* A call for a node that is no target of break or continue.
LEMMA PlainEntered ==
  ASSUME IInv, NumbersGrow, NEW op \in {"expr", "lval", "stmt", "init"}, NEW steps,
         Enter(op, Plain(KindOf(op), steps)), Planned(KindOf(op), steps),
         NEW own, NEW outer, Tidy(steps, own, outer),
         \A l \in own : FreshLabel(l),
         \A l \in outer : /\ KindOf(op) = "stmt"
                          /\ \/ l = ReturnLabel
                             \/ \E j \in DOMAIN calls : calls[j].kind = "stmt" /\ Owns(calls[j], l)
  PROVE  IInv'
<1> DEFINE e == Plain(KindOf(op), steps)
<1>1. steps \in Seq(StepT)
  BY DEF Tidy
<1>2. KindOf(op) \in {"stmt", "expr", "lval"}
  BY DEF KindOf
<1>3. e = Frame(KindOf(op), steps, NoLabel, NoLabel)
  BY DEF Plain
<1> HIDE DEF e
<1>4. /\ e \in CallT /\ e.pc = 1 /\ e.base = rsp /\ e.kind = KindOf(op) /\ e.steps = steps
      /\ e.depth = IF calls = <<>> THEN offset ELSE stack_depth
      /\ e.breaks = NoLabel /\ e.continues = NoLabel
  BY <1>1, <1>2, <1>3, StepTypes, FrameFacts
<1>5. Entry(e, own, outer)
  BY <1>4 DEF Entry
<1>6. Enter(op, e) /\ Planned(e.kind, e.steps)
  BY <1>4 DEF e
<1> QED
  BY <1>4, <1>5, <1>6, Entered

LEMMA Unnumbered ==
  ASSUME IInv, UNCHANGED numbers
  PROVE  NumbersGrow
BY DEF NumbersGrow, numbers, IInv, TypeOK

LEMMA LabelTaken ==
  ASSUME IInv, TakeLabel
  PROVE  /\ NumbersGrow /\ label_num \in Nat
         /\ \A l \in LabelT : l.base \in Counted /\ l.num = label_num => FreshLabel(l)
<1>1. label_num \in Nat /\ names \in Nat /\ label_num' = label_num + 1 /\ names' = names
  BY DEF IInv, TypeOK, TakeLabel
<1> QED
  BY <1>1 DEF NumbersGrow, FreshLabel

LEMMA GenLvalInv ==
  ASSUME IInv, NEW steps \in Lvals, GenLval(steps)
  PROVE  IInv'
<1>1. Enter("lval", Plain("lval", steps)) /\ NumbersGrow
  BY Unnumbered DEF GenLval
<1>2. KindOf("lval") = "lval"
  BY DEF KindOf
<1>3. Planned("lval", steps) /\ Tidy(steps, {}, {})
  BY LvalPlans, TidyLvals
<1> QED
  BY <1>1, <1>2, <1>3, PlainEntered

LEMMA ExprsPlanned ==
  \A steps \in Exprs : Planned("expr", steps)
<1>1. \A args \in 0..MaxArgs : args \in Nat
  BY CodegenAssumption
<1>2. \A args \in 1..MaxArgs : args \in Nat
  BY CodegenAssumption
<1>3. \A args \in 0..MaxArgs : Planned("expr", CallOf(args))
  BY <1>1, CallPlan
<1>4. \A args \in 1..MaxArgs : Planned("expr", WideningCall(args))
  BY <1>2, WideningCallPlan
<1> QED
  BY <1>3, <1>4, ExprPlans DEF Exprs

LEMMA GenExprInv ==
  ASSUME IInv, NEW steps \in Shapes, GenExpr(steps)
  PROVE  IInv'
<1>1. Enter("expr", Plain("expr", steps)) /\ NumbersGrow
  BY Unnumbered DEF GenExpr
<1>2. KindOf("expr") = "expr"
  BY DEF KindOf
<1>3. steps \in Exprs
  BY ShapesAssumption
<1>4. Planned("expr", steps) /\ Tidy(steps, {}, {})
  BY <1>3, ExprsPlanned, TidyExprs
<1> QED
  BY <1>1, <1>2, <1>4, PlainEntered

LEMMA GenNumberedExprInv ==
  ASSUME IInv, NEW steps \in NumberedExprs(label_num), GenNumberedExpr(steps)
  PROVE  IInv'
<1>1. Enter("expr", Plain("expr", steps)) /\ TakeLabel
  BY DEF GenNumberedExpr
<1>2. KindOf("expr") = "expr"
  BY DEF KindOf
<1>3. /\ NumbersGrow /\ label_num \in Nat
      /\ \A l \in LabelT : l.base \in Counted /\ l.num = label_num => FreshLabel(l)
  BY <1>1, LabelTaken
<1>4. Planned("expr", steps)
  BY NumberedExprPlans
<1>5. steps \in {Cond(label_num), LogAnd(label_num), LogOr(label_num)}
  BY DEF NumberedExprs
<1>6. \A base \in {"cond", "Land", "Lor"}, suffix \in {"_else", "_end", "_true"} :
        FreshLabel(Label(base, suffix, label_num))
  BY <1>3 DEF Label, LabelT, Counted, LabelSuffixes
<1>7. CASE steps = Cond(label_num)
  <2>1. Tidy(steps, {Label("cond", "_else", label_num), Label("cond", "_end", label_num)}, {})
    BY <1>3, <1>7, TidyNumbered
  <2>2. \A l \in {Label("cond", "_else", label_num), Label("cond", "_end", label_num)} : FreshLabel(l)
    BY <1>6
  <2> QED
    BY <1>1, <1>2, <1>3, <1>4, <2>1, <2>2, PlainEntered
<1>8. CASE steps = LogAnd(label_num)
  <2>1. Tidy(steps, {Label("Land", "_end", label_num)}, {})
    BY <1>3, <1>8, TidyNumbered
  <2>2. \A l \in {Label("Land", "_end", label_num)} : FreshLabel(l)
    BY <1>6
  <2> QED
    BY <1>1, <1>2, <1>3, <1>4, <2>1, <2>2, PlainEntered
<1>9. CASE steps = LogOr(label_num)
  <2>1. Tidy(steps, {Label("Lor", "_true", label_num), Label("Lor", "_end", label_num)}, {})
    BY <1>3, <1>9, TidyNumbered
  <2>2. \A l \in {Label("Lor", "_true", label_num), Label("Lor", "_end", label_num)} : FreshLabel(l)
    BY <1>6
  <2> QED
    BY <1>1, <1>2, <1>3, <1>4, <2>1, <2>2, PlainEntered
<1> QED
  BY <1>5, <1>7, <1>8, <1>9

LEMMA GenNumberedStmtInv ==
  ASSUME IInv, NEW steps \in NumberedStmts(label_num), GenNumberedStmt(steps)
  PROVE  IInv'
<1>1. Enter("stmt", Plain("stmt", steps)) /\ TakeLabel
  BY DEF GenNumberedStmt
<1>2. KindOf("stmt") = "stmt"
  BY DEF KindOf
<1>3. /\ NumbersGrow /\ label_num \in Nat
      /\ \A l \in LabelT : l.base \in Counted /\ l.num = label_num => FreshLabel(l)
  BY <1>1, LabelTaken
<1>4. Planned("stmt", steps)
  BY NumberedStmtPlans
<1>5. steps \in {If(label_num), IfElse(label_num)}
  BY DEF NumberedStmts
<1>6. \A base \in {"else", "end_if"} : FreshLabel(Label(base, "none", label_num))
  BY <1>3 DEF Label, LabelT, Counted, LabelSuffixes
<1>7. CASE steps = If(label_num)
  <2>1. Tidy(steps, {Label("end_if", "none", label_num)}, {})
    BY <1>3, <1>7, TidyNumbered
  <2>2. \A l \in {Label("end_if", "none", label_num)} : FreshLabel(l)
    BY <1>6
  <2> QED
    BY <1>1, <1>2, <1>3, <1>4, <2>1, <2>2, PlainEntered
<1>8. CASE steps = IfElse(label_num)
  <2>1. Tidy(steps, {Label("else", "none", label_num), Label("end_if", "none", label_num)}, {})
    BY <1>3, <1>8, TidyNumbered
  <2>2. \A l \in {Label("else", "none", label_num), Label("end_if", "none", label_num)} : FreshLabel(l)
    BY <1>6
  <2> QED
    BY <1>1, <1>2, <1>3, <1>4, <2>1, <2>2, PlainEntered
<1> QED
  BY <1>5, <1>7, <1>8

LEMMA GenInitInv ==
  ASSUME IInv, NEW steps \in Inits, GenInit(steps)
  PROVE  IInv'
<1>1. Enter("init", Plain("stmt", steps)) /\ NumbersGrow
  BY Unnumbered DEF GenInit
<1>2. KindOf("init") = "stmt"
  BY DEF KindOf
<1>3. 0..MaxParts \subseteq Nat
  BY CodegenAssumption
<1>4. Planned("stmt", steps)
  BY <1>3, StmtPlans, VarDeclArrayPlan DEF Inits
<1>5. Tidy(steps, {}, {})
  BY TidyStmts
<1> QED
  BY <1>1, <1>2, <1>4, <1>5, PlainEntered

LEMMA GenStmtInv ==
  ASSUME IInv, NEW steps \in Stmts, GenStmt(steps)
  PROVE  IInv'
<1>1. Enter("stmt", Plain("stmt", steps)) /\ NumbersGrow
  BY Unnumbered DEF GenStmt
<1>2. KindOf("stmt") = "stmt"
  BY DEF KindOf
<1>3. CASE steps \in {ExprStmt, VarDecl, VarDeclBare}
  <2>1. Planned("stmt", steps) /\ Tidy(steps, {}, {})
    BY <1>3, StmtPlans, TidyStmts
  <2> QED
    BY <1>1, <1>2, <2>1, PlainEntered
<1>4. CASE steps \in {Return, ReturnVoid}
  <2>1. Planned("stmt", steps)
    BY <1>4, StmtPlans
  <2>2. ReturnLabel \in LabelT /\ ReturnLabel # NoLabel
    <3>1. todo \in Nat
      BY DEF IInv, TypeOK
    <3> QED
      BY <3>1 DEF ReturnLabel, NoLabel, Label, LabelT, LabelSuffixes
  <2>3. Tidy(steps, {}, {ReturnLabel})
    BY <1>4, <2>2, JumpTidy DEF Return, ReturnVoid
  <2>4. \A l \in {ReturnLabel} : l = ReturnLabel
    OBVIOUS
  <2> QED
    BY <1>1, <1>2, <2>1, <2>3, <2>4, PlainEntered
<1>5. CASE \E n \in 0..MaxParts : steps = VarDeclArray(n) \/ steps = Block(n)
  <2>1. PICK n \in 0..MaxParts : steps = VarDeclArray(n) \/ steps = Block(n)
    BY <1>5
  <2>2. n \in Nat
    BY CodegenAssumption
  <2>3. Planned("stmt", steps) /\ Tidy(steps, {}, {})
    BY <2>1, <2>2, VarDeclArrayPlan, BlockPlan, TidyStmts
  <2> QED
    BY <1>1, <1>2, <2>3, PlainEntered
<1> QED
  BY <1>3, <1>4, <1>5 DEF Stmts

\* A call for a loop or a switch.
LEMMA TargetEntered ==
  ASSUME IInv, NumbersGrow, NEW steps, NEW breaks \in LabelT, NEW continues \in LabelT,
         Enter("stmt", Frame("stmt", steps, breaks, continues)), Planned("stmt", steps),
         NEW own, Tidy(steps, own, {}), \A l \in own : FreshLabel(l),
         \A l \in {breaks, continues} : l # NoLabel => l.base \in Titled /\ l \in own
  PROVE  IInv'
<1> DEFINE e == Frame("stmt", steps, breaks, continues)
<1>1. steps \in Seq(StepT)
  BY DEF Tidy
<1>2. /\ e \in CallT /\ e.pc = 1 /\ e.base = rsp /\ e.kind = "stmt" /\ e.steps = steps
      /\ e.depth = IF calls = <<>> THEN offset ELSE stack_depth
      /\ e.breaks = breaks /\ e.continues = continues
  BY <1>1, FrameFacts
<1>3. Enter("stmt", e)
  OBVIOUS
<1> HIDE DEF e
<1>4. Entry(e, own, {})
  BY <1>2 DEF Entry
<1>5. e.kind = KindOf("stmt") /\ Planned(e.kind, e.steps)
  BY <1>2 DEF KindOf
<1> QED
  BY <1>2, <1>3, <1>4, <1>5, Entered

LEMMA NamesTaken ==
  ASSUME IInv, NEW n \in Nat, names' = names + 1 + n, label_num' = label_num
  PROVE  /\ NumbersGrow /\ names \in Nat
         /\ \A l \in LabelT : l.base \in Titled /\ l.num \in names..(names + n) => FreshLabel(l)
<1>1. label_num \in Nat /\ names \in Nat
  BY DEF IInv, TypeOK
<1> QED
  BY <1>1 DEF NumbersGrow, FreshLabel

LEMMA GenLoopInv ==
  ASSUME IInv, NEW base \in {"while", "dowhile", "for"}, NEW steps, GenLoop(base, steps),
         Planned("stmt", steps), NEW own, Tidy(steps, own, {}),
         own \subseteq {Start(base, names), Cont(base, names), End(base, names)},
         {Cont(base, names), End(base, names)} \subseteq own
  PROVE  IInv'
<1>1. /\ Enter("stmt", Frame("stmt", steps, End(base, names), Cont(base, names)))
      /\ names' = names + 1 /\ label_num' = label_num
  BY DEF GenLoop
<1>2. names \in Nat
  BY DEF IInv, TypeOK
<1>3. names' = names + 1 + 0
  BY <1>1, <1>2
<1>4. /\ NumbersGrow
      /\ \A l \in LabelT : l.base \in Titled /\ l.num \in names..(names + 0) => FreshLabel(l)
  BY <1>1, <1>3, NamesTaken
<1>5. \A l \in {Start(base, names), Cont(base, names), End(base, names)} :
        l \in LabelT /\ l.base \in Titled /\ l.num = names
  BY <1>2 DEF Start, Cont, End, Label, LabelT, Titled, LabelSuffixes
<1>6. names \in names..(names + 0)
  BY <1>2
<1>7. \A l \in own : FreshLabel(l)
  BY <1>4, <1>5, <1>6
<1>8. \A l \in {End(base, names), Cont(base, names)} : l.base \in Titled /\ l \in own
  BY <1>5
<1> QED
  BY <1>1, <1>4, <1>5, <1>7, <1>8, TargetEntered

LEMMA LoopsInv ==
  ASSUME IInv,
         \/ GenLoop("while", While(names))
         \/ GenLoop("dowhile", DoWhile(names))
         \/ \E clauses \in SUBSET {"init", "cond", "step"} : GenLoop("for", For(clauses, names))
  PROVE  IInv'
<1>1. names \in Nat
  BY DEF IInv, TypeOK
<1>2. CASE GenLoop("while", While(names))
  <2>1. /\ Planned("stmt", While(names))
        /\ Tidy(While(names), {Cont("while", names), End("while", names)}, {})
    BY <1>1, NumberedStmtPlans, TidyLoops
  <2> QED
    BY <1>2, <2>1, GenLoopInv
<1>3. CASE GenLoop("dowhile", DoWhile(names))
  <2>1. /\ Planned("stmt", DoWhile(names))
        /\ Tidy(DoWhile(names), {Start("dowhile", names), Cont("dowhile", names), End("dowhile", names)}, {})
    BY <1>1, NumberedStmtPlans, TidyLoops
  <2> QED
    BY <1>3, <2>1, GenLoopInv
<1>4. ASSUME NEW clauses \in SUBSET {"init", "cond", "step"}, GenLoop("for", For(clauses, names))
      PROVE  IInv'
  <2>1. /\ Planned("stmt", For(clauses, names))
        /\ Tidy(For(clauses, names), {Start("for", names), Cont("for", names), End("for", names)}, {})
    BY <1>1, ForPlan, TidyLoops
  <2> QED
    BY <1>4, <2>1, GenLoopInv
<1> QED
  BY <1>2, <1>3, <1>4

LEMMA GenSwitchInv ==
  ASSUME IInv, NEW items \in SwitchItems, GenSwitch(items)
  PROVE  IInv'
<1>1. /\ Enter("stmt", Frame("stmt", Switch(items, names), End("switch", names), NoLabel))
      /\ names' = names + 1 + Len(items) /\ label_num' = label_num
  BY DEF GenSwitch
<1>2. PICK m \in 0..MaxParts : items \in [1..m -> {"case", "default", "stmt"}]
  BY DEF SwitchItems
<1>3. m \in Nat
  BY CodegenAssumption
<1>4. Len(items) = m
  BY <1>2, <1>3
<1>5. /\ NumbersGrow /\ names \in Nat
      /\ \A l \in LabelT : l.base \in Titled /\ l.num \in names..(names + m) => FreshLabel(l)
  BY <1>1, <1>3, <1>4, NamesTaken
<1> DEFINE own == SwitchLabels(items, names)
<1>6. /\ Planned("stmt", Switch(items, names))
      /\ Tidy(Switch(items, names), own, {})
      /\ \A l \in own : l \in LabelT /\ l.base \in Titled /\ l.num \in names..(names + m)
  BY <1>2, <1>3, <1>5, SwitchPlan, TidySwitch
<1>7. End("switch", names) \in own
  BY DEF SwitchLabels
<1> HIDE DEF own
<1>8. \A l \in own : FreshLabel(l)
  BY <1>5, <1>6
<1>9. End("switch", names) \in LabelT /\ NoLabel \in LabelT
  BY <1>6, <1>7, StepTypes
<1>10. \A l \in {End("switch", names), NoLabel} : l # NoLabel => l.base \in Titled /\ l \in own
  BY <1>6, <1>7
<1> QED
  BY <1>1, <1>5, <1>6, <1>8, <1>9, <1>10, TargetEntered

\* A break or continue jumps to a label of a loop or switch around it.
LEMMA JumpOut ==
  ASSUME IInv, NEW i \in DOMAIN calls, NEW l \in {calls[i].breaks, calls[i].continues},
         l # NoLabel, GenStmt(<<Jump(l)>>)
  PROVE  IInv'
<1>1. Enter("stmt", Plain("stmt", <<Jump(l)>>)) /\ NumbersGrow
  BY Unnumbered DEF GenStmt
<1>2. KindOf("stmt") = "stmt"
  BY DEF KindOf
<1>3. calls[i].kind = "stmt" /\ l.base \in Titled /\ Owns(calls[i], l)
  BY DEF IInv, LabelsOwned
<1>4. l \in LabelT
  <2>1. calls[i] \in CallT
    BY Skeleton
  <2> QED
    BY <2>1 DEF CallT
<1>5. ~Valued(l)
  BY <1>3 DEF Valued, Titled
<1>6. Planned("stmt", <<Jump(l)>>) /\ Tidy(<<Jump(l)>>, {}, {l})
  BY <1>4, <1>5, JumpPlan, JumpTidy
<1>7. \A x \in {l} : \E j \in DOMAIN calls : calls[j].kind = "stmt" /\ Owns(calls[j], x)
  BY <1>3
<1> QED
  BY <1>1, <1>2, <1>6, <1>7, PlainEntered

LEMMA GenBreakInv ==
  ASSUME IInv, GenBreak
  PROVE  IInv'
<1>1. PICK i \in DOMAIN calls : calls[i].breaks # NoLabel /\ GenStmt(<<Jump(calls[i].breaks)>>)
  BY DEF GenBreak
<1> QED
  BY <1>1, JumpOut

LEMMA GenContinueInv ==
  ASSUME IInv, GenContinue
  PROVE  IInv'
<1>1. PICK i \in DOMAIN calls : calls[i].continues # NoLabel /\ GenStmt(<<Jump(calls[i].continues)>>)
  BY DEF GenContinue
<1> QED
  BY <1>1, JumpOut

-----------------------------------------------------------------------------
(* Functions.                                                              *)

\* Outside every call the labels only have to stay known.
LEMMA NoCalls ==
  ASSUME IInv, calls = <<>>, calls' = calls, UNCHANGED numbers, TypeOK', Here',
         arrivals' = {}, placed' = placed \/ placed' = placed \cup {ReturnLabel},
         phase' = "body" => todo' > 0
  PROVE  IInv'
<1>1. DOMAIN calls' = {} /\ calls' = <<>> /\ calls' \in Seq(CallT) /\ Len(calls') = 0
  BY EmptySeq DEF IInv, CallsOK
<1>2. CallsOK' /\ Nested' /\ StepLabels' /\ LabelsOwned'
  BY <1>1 DEF CallsOK, Nested, StepLabels, LabelsOwned
<1>3. ArrivalsOK'
  BY DEF ArrivalsOK
<1>4. PlacedOK'
  <2>1. placed \subseteq LabelT /\ \A l \in placed : Known(l)
    BY DEF IInv, PlacedOK
  <2>2. ReturnLabel \in LabelT
    BY DEF IInv, TypeOK, ReturnLabel, Label, LabelT, LabelSuffixes
  <2>3. Known(ReturnLabel)
    BY DEF Known, ReturnLabel, Label, Counted, Titled
  <2>4. label_num' = label_num /\ names' = names
    BY DEF numbers
  <2>5. placed' \subseteq LabelT /\ \A l \in placed' : Known(l)
    BY <2>1, <2>2, <2>3
  <2>6. \A l \in placed' : Known(l)'
    BY <2>4, <2>5 DEF Known
  <2> QED
    BY <1>1, <2>5, <2>6 DEF PlacedOK
<1> QED
  BY <1>2, <1>3, <1>4 DEF IInv

LEMMA GenFuncInv ==
  ASSUME IInv, NEW params \in 0..MaxParams, NEW varargs \in Variadic, NEW locals \in LocalBytes,
         GenFunc(params, varargs, locals)
  PROVE  IInv'
<1> DEFINE saved == IF varargs THEN VarargsBytes ELSE 0
           pushed == Word * params
<1>1. saved \in Nat /\ pushed \in Nat /\ locals \in Nat
  BY CodegenAssumption DEF VarargsBytes, Word
<1>2. /\ phase = "next" /\ todo > 0 /\ phase' = "body"
      /\ offset' = saved + pushed + locals
      /\ rsp' = saved + pushed + ((saved + pushed + locals) - pushed - saved)
      /\ agrees' = "no" /\ stack_depth' = 0 /\ arrivals' = {}
      /\ UNCHANGED <<todo, calls, numbers, placed>>
  BY DEF GenFunc
<1>3. calls = <<>>
  BY <1>2 DEF IInv, CallsOK
<1> HIDE DEF saved, pushed
<1>4. offset' \in Nat /\ rsp' = offset'
  BY <1>1, <1>2
<1>5. DOMAIN calls' = {}
  BY <1>2, <1>3, EmptySeq
<1>6. TypeOK'
  BY <1>2, <1>4, <1>5 DEF TypeOK, IInv, numbers
<1>7. Here'
  BY <1>2, <1>3, <1>4 DEF Here
<1> QED
  BY <1>2, <1>3, <1>6, <1>7, NoCalls

LEMMA FinishFuncInv ==
  ASSUME IInv, FinishFunc
  PROVE  IInv'
<1>1. /\ phase = "body" /\ calls = <<>> /\ phase' = "next" /\ todo' = todo - 1
      /\ rsp' = Dead /\ placed' = placed \cup {ReturnLabel} /\ arrivals' = {}
      /\ UNCHANGED <<offset, calls, agrees, stack_depth, numbers>>
  BY DEF FinishFunc
<1>2. todo' \in Nat
  BY <1>1 DEF IInv, TypeOK, CallsOK
<1>3. DOMAIN calls' = {}
  BY <1>1, EmptySeq
<1>4. TypeOK'
  BY <1>1, <1>2, <1>3 DEF TypeOK, IInv, numbers
<1>5. Here'
  BY <1>1 DEF Here
<1> QED
  BY <1>1, <1>4, <1>5, NoCalls

LEMMA SkipExternInv ==
  ASSUME IInv, SkipExtern
  PROVE  IInv'
<1>1. /\ phase = "next" /\ todo > 0 /\ todo' = todo - 1 /\ stack_depth' = 0
      /\ UNCHANGED <<phase, offset, calls, rsp, agrees, numbers, placed, arrivals>>
  BY DEF SkipExtern, emitted, labels
<1>2. calls = <<>>
  BY <1>1 DEF IInv, CallsOK
<1>3. todo' \in Nat
  BY <1>1 DEF IInv, TypeOK
<1>4. DOMAIN calls' = {}
  BY <1>1, <1>2, EmptySeq
<1>5. TypeOK'
  BY <1>1, <1>3, <1>4 DEF TypeOK, IInv, numbers
<1>6. Here'
  BY <1>1, <1>2 DEF Here
<1>7. arrivals' = {}
  <2>1. ASSUME NEW a \in arrivals
        PROVE  FALSE
    <3>1. \E i \in DOMAIN calls : Owns(calls[i], a.label)
      BY DEF IInv, ArrivalsOK, Lands
    <3> QED
      BY <1>2, <3>1, EmptySeq
  <2> QED
    BY <1>1, <2>1
<1> QED
  BY <1>1, <1>2, <1>5, <1>6, <1>7, NoCalls

-----------------------------------------------------------------------------
(* The invariant of the specification.                                     *)

LEMMA InitIInv == Init => IInv
<1> SUFFICES ASSUME Init
             PROVE  IInv
  OBVIOUS
<1>1. /\ phase = "next" /\ todo = MaxFuncs /\ offset = 0 /\ calls = <<>>
      /\ rsp = Dead /\ agrees = "no" /\ stack_depth = 0
      /\ label_num = 0 /\ names = 0 /\ placed = {} /\ arrivals = {}
  BY DEF Init
<1>2. MaxFuncs \in Nat
  BY CodegenAssumption
<1>3. DOMAIN calls = {} /\ Len(calls) = 0 /\ calls \in Seq(CallT)
  BY <1>1, EmptySeq
<1>4. TypeOK
  BY <1>1, <1>2, <1>3 DEF TypeOK
<1>5. CallsOK /\ Nested /\ Here
  BY <1>1, <1>3 DEF CallsOK, Nested, Here
<1>6. StepLabels /\ LabelsOwned /\ ArrivalsOK /\ PlacedOK
  BY <1>1, <1>3 DEF StepLabels, LabelsOwned, ArrivalsOK, PlacedOK
<1> QED
  BY <1>4, <1>5, <1>6 DEF IInv

LEMMA StutterIInv ==
  ASSUME IInv, UNCHANGED vars
  PROVE  IInv'
<1>1. UNCHANGED <<phase, todo, offset, calls, rsp, agrees, stack_depth, label_num, names,
                  placed, arrivals>>
  BY DEF vars, emitted, numbers, labels
<1>2. TypeOK' /\ CallsOK' /\ Nested' /\ Here'
  BY <1>1 DEF IInv, TypeOK, CallsOK, Nested, Here
<1>3. \A l : Known(l)' <=> Known(l)
  BY <1>1 DEF Known
<1>4. ReturnLabel' = ReturnLabel
  BY <1>1 DEF ReturnLabel
<1>5. StepLabels'
  BY <1>1, <1>4 DEF IInv, StepLabels, Known
<1>6. LabelsOwned'
  BY <1>1 DEF IInv, LabelsOwned
<1>7. ArrivalsOK'
  BY <1>1 DEF IInv, ArrivalsOK, Lands
<1>8. PlacedOK'
  BY <1>1, <1>3 DEF IInv, PlacedOK
<1> QED
  BY <1>2, <1>5, <1>6, <1>7, <1>8 DEF IInv

LEMMA StepIInv == IInv /\ [Next]_vars => IInv'
<1> SUFFICES ASSUME IInv, [Next]_vars
             PROVE  IInv'
  OBVIOUS
<1>1. CASE Functions
  BY <1>1, GenFuncInv, FinishFuncInv, SkipExternInv DEF Functions
<1>2. CASE Expressions
  BY <1>2, GenLvalInv, GenExprInv, GenNumberedExprInv DEF Expressions
<1>3. CASE Statements
  BY <1>3, GenInitInv, GenStmtInv, GenNumberedStmtInv, LoopsInv, GenSwitchInv,
     GenBreakInv, GenContinueInv DEF Statements
<1>4. CASE Leave
  BY <1>4, LeaveInv
<1>5. CASE Instructions
  BY <1>5, EmitPushInv, EmitPopInv, EmitOneInv, EmitTopInv, EmitOtherInv, EmitReadInv,
     EmitCallInv, TrackDepthInv, SkipNumberInv, EmitJumpInv, EmitLabelInv DEF Instructions
<1>6. CASE Stop \/ UNCHANGED vars
  BY <1>6, StutterIInv DEF Stop
<1> QED
  BY <1>1, <1>2, <1>3, <1>4, <1>5, <1>6 DEF Next

\* The inductive invariant holds of every tree the generator walks.
THEOREM Invariance == Spec => []IInv
BY InitIInv, StepIInv, PTL DEF Spec

-----------------------------------------------------------------------------
(* The properties.                                                         *)

\* The call at the top stands within the plan of its node.
LEMMA AtPlan ==
  ASSUME IInv, calls # <<>>
  PROVE  /\ Len(calls) \in Nat \ {0} /\ DOMAIN calls = 1..Len(calls)
         /\ rsp # Dead => Active.base \in Nat /\ rsp \in Nat /\ rsp >= Active.base
<1>1. rsp \in Nat \cup {Dead}
  BY DEF IInv, TypeOK
<1>2. CASE Running
  BY <1>1, <1>2, ActiveFacts DEF Dead
<1>3. CASE ~Running
  <2>1. Net(Active.kind) \in Nat
    BY DEF Net, Word
  <2> QED
    BY <1>1, <1>3, <2>1, Finished DEF Dead
<1> QED
  BY <1>2, <1>3

\* The generator's state is well-formed: rsp is never above rbp and stack_depth
\* never negative, for trees of any size (gen_func, gen_stmt, gen_expr, gen_lval).
THEOREM TypeCorrect == Spec => []TypeOK
<1>1. IInv => TypeOK
  BY DEF IInv
<1> QED
  BY Invariance, <1>1, PTL

\* What gen_expr, gen_lval and gen_stmt leave on the stack, and in stack_depth, of
\* every tree: one word or none, whichever way control takes through the code.
THEOREM EveryNodeBalanced == Spec => []Balanced
<1>1. IInv => Balanced
  <2> SUFFICES ASSUME IInv, NEW i \in DOMAIN calls, rsp # Dead, calls[i].base # Dead
               PROVE  /\ rsp >= calls[i].base
                      /\ i = Len(calls) /\ ~Running =>
                           /\ rsp = calls[i].base + (IF calls[i].kind = "stmt" THEN 0 ELSE Word)
                           /\ stack_depth = calls[i].depth
    BY DEF Balanced
  <2>1. calls # <<>>
    BY EmptySeq
  <2>2. /\ Len(calls) \in Nat \ {0} /\ DOMAIN calls = 1..Len(calls)
        /\ Active.base \in Nat /\ rsp \in Nat /\ rsp >= Active.base
    BY <2>1, AtPlan
  <2>3. rsp >= calls[i].base
    <3>1. CASE i = Len(calls)
      BY <2>2, <3>1 DEF Active
    <3>2. CASE i # Len(calls)
      <4>1. i < Len(calls) /\ Len(calls) \in DOMAIN calls /\ Active.base # Dead
        BY <2>2, <3>2 DEF Dead
      <4>2. calls[i].base <= Active.base
        BY <4>1 DEF IInv, Nested, Active
      <4>3. calls[i].base \in Nat
        BY <2>2, Skeleton DEF CallT
      <4> QED
        BY <2>2, <4>2, <4>3
    <3> QED
      BY <3>1, <3>2
  <2>4. i = Len(calls) /\ ~Running =>
          /\ rsp = calls[i].base + (IF calls[i].kind = "stmt" THEN 0 ELSE Word)
          /\ stack_depth = calls[i].depth
    BY <2>1, Finished DEF Active, Net
  <2> QED
    BY <2>3, <2>4
<1> QED
  BY Invariance, <1>1, PTL

\* Every statement of every function starts where func->offset puts the end of the
\* frame, and with stack_depth saying so (gen_func, gen_stmt).
THEOREM EveryStatementAtFrame == Spec => []StatementsAtFrame
<1>1. IInv => StatementsAtFrame
  <2> SUFFICES ASSUME IInv, NEW i \in DOMAIN calls, i = Len(calls), calls[i].kind = "stmt",
                      calls[i].pc = 1
               PROVE  stack_depth = offset /\ (rsp # Dead => rsp = offset)
    BY DEF StatementsAtFrame
  <2>1. calls # <<>>
    BY EmptySeq
  <2>2. i \in 1..Len(calls) /\ Last(calls) = calls[i]
    BY Skeleton DEF Last
  <2>3. calls[i].steps \in Seq(StepT) /\ Planned(calls[i].kind, calls[i].steps)
    BY <2>2, Skeleton DEF IInv, CallsOK
  <2>4. Plans(calls[i].kind, calls[i].steps, Plan(calls[i]))
    BY <2>3, PlanFacts
  <2>5. Plan(calls[i]).h[1] = 0 /\ Plan(calls[i]).d[1] = 0
    BY <2>4 DEF Plans
  <2>6. /\ rsp # Dead => calls[i].base # Dead /\ rsp = calls[i].base + Plan(calls[i]).h[1]
        /\ stack_depth = calls[i].depth + Plan(calls[i]).d[1]
    BY <2>1, <2>2 DEF IInv, Here
  <2>7. calls[i].base \in {Dead, offset} /\ calls[i].depth = offset /\ offset \in Nat
    BY DEF IInv, Nested, TypeOK
  <2> QED
    BY <2>5, <2>6, <2>7
<1> QED
  BY Invariance, <1>1, PTL

\* All ways to a label, the jumps to it and the code above it, find the stack at
\* one height: of && and ||, of ?:, of if, of loops, of switches.
THEOREM OneHeightPerLabel == Spec => []LabelHeights
<1>1. IInv => LabelHeights
  <2> SUFFICES ASSUME IInv, NEW a \in arrivals, NEW b \in arrivals, a.label = b.label
               PROVE  a.rsp = b.rsp
    BY DEF LabelHeights
  <2>1. Lands(a) /\ Lands(b)
    BY DEF IInv, ArrivalsOK
  <2>2. PICK i \in DOMAIN calls : Owns(calls[i], a.label)
    BY <2>1 DEF Lands
  <2>3. a.rsp = calls[i].base + LabelHeight(a.label)
    BY <2>1, <2>2 DEF Lands
  <2>4. b.rsp = calls[i].base + LabelHeight(b.label)
    BY <2>1, <2>2 DEF Lands
  <2> QED
    BY <2>3, <2>4
<1> QED
  BY Invariance, <1>1, PTL

\* Every jump of the assembly file has a target and only one: numbers from label_num
\* and from the semantic pass name no two labels alike, in any number of functions.
THEOREM OneTargetPerJump == Spec => []JumpsHaveOneTarget
<1>1. IInv => JumpsResolved
  <2> SUFFICES ASSUME IInv, NEW a \in arrivals
               PROVE  \/ a.label \in placed
                      \/ \E i \in DOMAIN calls : \E k \in calls[i].pc..Len(calls[i].steps) :
                           calls[i].steps[k] = Place(a.label)
    BY DEF JumpsResolved
  <2>1. PICK i \in DOMAIN calls : Owns(calls[i], a.label)
    BY DEF IInv, ArrivalsOK, Lands
  <2>2. PICK k \in DOMAIN calls[i].steps : calls[i].steps[k] = Place(a.label)
    BY <2>1 DEF Owns
  <2>3. calls[i].steps[k].op = "place" /\ calls[i].steps[k].label = a.label
    BY <2>2 DEF Place
  <2>4. a.label \in placed <=> k < calls[i].pc
    BY <2>1, <2>2, <2>3 DEF IInv, PlacedOK
  <2>5. calls[i].pc \in Nat /\ k \in 1..Len(calls[i].steps) /\ Len(calls[i].steps) \in Nat
    BY <2>1, <2>2, Skeleton DEF CallT
  <2>6. ~(k < calls[i].pc) => k \in calls[i].pc..Len(calls[i].steps)
    BY <2>5
  <2> QED
    BY <2>1, <2>2, <2>4, <2>6
<1>2. IInv => LabelsPlacedOnce
  <2> SUFFICES ASSUME IInv, At("place")
               PROVE  Current.label \notin placed
    BY DEF LabelsPlacedOnce
  <2>1. Running /\ Current.op = "place"
    BY DEF At
  <2>2. /\ Len(calls) \in DOMAIN calls /\ Pos \in DOMAIN calls[Len(calls)].steps
        /\ Current = calls[Len(calls)].steps[Pos] /\ Pos = calls[Len(calls)].pc /\ Pos \in Nat
    BY <2>1, ActiveFacts DEF Active, Pos
  <2> QED
    BY <2>1, <2>2 DEF IInv, PlacedOK
<1>3. IInv => JumpsHaveOneTarget
  BY <1>1, <1>2 DEF JumpsHaveOneTarget
<1> QED
  BY Invariance, <1>3, PTL

\* Where !, && and || test rax, rax and the word gen_expr pushed are zero together,
\* however the operand was computed; and where *, . and ++ load from rax it is no
\* leftover of an earlier instruction.
THEOREM EveryTestSeesTruth == Spec => []TestsSeeTruth
<1>1. IInv => TestsSeeTruth
  <2> SUFFICES ASSUME IInv, At("test") \/ At("load"), rsp # Dead
               PROVE  agrees # "no"
    BY DEF TestsSeeTruth
  <2>1. Running /\ Current.op \in {"test", "load"}
    BY DEF At
  <2>2. Pos \in Plan(Active).g
    BY <2>1, ActiveStep DEF StepOK
  <2> QED
    BY <2>1, <2>2, ActiveFacts
<1> QED
  BY Invariance, <1>1, PTL

-----------------------------------------------------------------------------
(* What the padding before a call does not see.                            *)

\* stack_depth misses the held words of a call's surroundings, and nothing else.
HeldAt(n) ==
  /\ IsFiniteSet(HeldAround(n))
  /\ calls[n].base # Dead => calls[n].base = calls[n].depth + Word * Cardinality(HeldAround(n))

HeldOK == \A n \in DOMAIN calls : HeldAt(n)

\* How a step changes the calls: not at all, by the next instruction of the last, by
\* its end, or by a call for its child.
Moves ==
  \/ calls' = calls
  \/ Running /\ calls' = Advanced
  \/ calls # <<>> /\ calls' = Front(calls)
  \/ \E e : (Running /\ calls' = Append(Advanced, e)) \/ (calls = <<>> /\ calls' = <<e>>)

LEMMA EnterMoves ==
  ASSUME NEW op, NEW e, Enter(op, e)
  PROVE  Moves
BY DEF Enter, At, Moves

LEMMA StepMoves ==
  ASSUME [Next]_vars
  PROVE  Moves
<1>1. CASE Functions
  BY <1>1 DEF Functions, GenFunc, FinishFunc, SkipExtern, Moves
<1>2. CASE Expressions
  BY <1>2, EnterMoves DEF Expressions, GenLval, GenExpr, GenNumberedExpr
<1>3. CASE Statements
  BY <1>3, EnterMoves
     DEF Statements, GenInit, GenStmt, GenNumberedStmt, GenLoop, GenSwitch, GenBreak, GenContinue
<1>4. CASE Leave
  BY <1>4 DEF Leave, Moves
<1>5. CASE Instructions
  <2>1. Running /\ calls' = Advanced
    BY <1>5 DEF Instructions, EmitPush, EmitPop, EmitOne, EmitTop, EmitOther, EmitRead, EmitCall,
                TrackDepth, SkipNumber, EmitJump, EmitLabel, Emit, At
  <2> QED
    BY <2>1 DEF Moves
<1>6. CASE Stop \/ UNCHANGED vars
  BY <1>6 DEF Stop, vars, Moves
<1> QED
  BY <1>1, <1>2, <1>3, <1>4, <1>5, <1>6 DEF Next

\* The calls around the last one stay as they are.
Around ==
  /\ Len(calls') <= Len(calls) + 1
  /\ \A i \in 1..Len(calls) : i <= Len(calls') =>
       /\ calls'[i].steps = calls[i].steps
       /\ calls'[i].base = calls[i].base /\ calls'[i].depth = calls[i].depth
  /\ \A i \in 1..(Len(calls) - 1) : i <= Len(calls') => calls'[i].pc = calls[i].pc

LEMMA MovesKeep ==
  ASSUME IInv, Moves
  PROVE  Around
<1> DEFINE n == Len(calls)
           new == Advanced
<1>1. calls \in Seq(CallT) /\ n \in Nat /\ DOMAIN calls = 1..n
  BY Skeleton DEF IInv, CallsOK
<1>2. ASSUME Running
      PROVE  /\ new \in Seq(CallT) /\ Len(new) = n
             /\ \A i \in 1..n : Same(calls[i], new[i])
             /\ \A i \in 1..(n - 1) : new[i].pc = calls[i].pc
  <2>1. new = Advanced /\ n = Len(calls)
    OBVIOUS
  <2> HIDE DEF new, n
  <2> QED
    BY <1>2, <2>1, AdvancedFacts
<1>3. \A i \in 1..(n - 1) : i \in 1..n
  BY <1>1
<1>4. CASE calls' = calls
  BY <1>1, <1>4 DEF Around
<1>5. CASE Running /\ calls' = new
  <2> HIDE DEF new
  <2> QED
    BY <1>1, <1>2, <1>3, <1>5 DEF Same, Around
<1>6. CASE calls # <<>> /\ calls' = Front(calls)
  <2>1. n \in Nat \ {0}
    BY <1>1, <1>6, EmptySeq
  <2>2. calls' = SubSeq(calls, 1, n - 1)
    BY <1>6 DEF Front
  <2> HIDE DEF n
  <2>3. Len(calls') = n - 1
    BY <1>1, <2>1, <2>2, SubSeqProperties DEF n
  <2>4. \A i \in 1..(n - 1) : calls'[i] = calls[i]
    BY <1>1, <2>1, <2>2 DEF n
  <2>5. \A i \in 1..n : i <= n - 1 => i \in 1..(n - 1)
    BY <2>1
  <2> QED
    BY <2>1, <2>3, <2>4, <2>5 DEF n, Around
<1>7. ASSUME NEW e, Running, calls' = Append(new, e)
      PROVE  /\ Len(calls') = n + 1
             /\ \A i \in 1..n : calls'[i] = new[i]
  <2> DEFINE S == CallT \cup {e}
  <2>1. new \in Seq(S) /\ e \in S
    BY <1>2, <1>7
  <2> HIDE DEF S, new
  <2> QED
    BY <1>1, <1>2, <1>7, <2>1, AppendProperties
<1>8. ASSUME NEW e, Running, calls' = Append(new, e)
      PROVE  Around
  <2> HIDE DEF new
  <2>1. Len(calls') = n + 1 /\ \A i \in 1..n : calls'[i] = new[i]
    BY <1>7, <1>8
  <2>2. \A i \in 1..n : Same(calls[i], calls'[i])
    BY <1>2, <1>8, <2>1
  <2>3. \A i \in 1..(n - 1) : calls'[i].pc = calls[i].pc
    BY <1>2, <1>3, <1>8, <2>1
  <2> QED
    BY <1>1, <2>1, <2>2, <2>3 DEF Same, Around
<1>9. ASSUME NEW e, calls = <<>>, calls' = <<e>>
      PROVE  Around
  <2>1. Len(calls') = 1 /\ n = 0
    BY <1>9
  <2> QED
    BY <2>1 DEF Around
<1> HIDE DEF n
<1> QED
  BY <1>4, <1>5, <1>6, <1>8, <1>9, Zenon DEF Moves

\* The words held by one call more.
LEMMA HeldMore ==
  ASSUME NEW cs, NEW n \in Nat \ {0}, cs[n].pc \in Nat,
         NEW outer, outer = UNION {{i} \X Held(cs[i].steps, cs[i].pc - 1) : i \in 1..(n - 1)},
         NEW all, all = UNION {{i} \X Held(cs[i].steps, cs[i].pc - 1) : i \in 1..n},
         IsFiniteSet(outer)
  PROVE  /\ IsFiniteSet(all)
         /\ Cardinality(all) \in Nat /\ Cardinality(outer) \in Nat
         /\ Cardinality(Held(cs[n].steps, cs[n].pc - 1)) \in Nat
         /\ Cardinality(all) = Cardinality(outer) + Cardinality(Held(cs[n].steps, cs[n].pc - 1))
<1> DEFINE own == Held(cs[n].steps, cs[n].pc - 1)
           last == {n} \X own
<1>1. ASSUME NEW b \in Int, b = (cs[n].pc - 1) - 1
      PROVE  IsFiniteSet(own)
  <2>1. own \subseteq 1..b
    BY <1>1 DEF Held
  <2>2. IsFiniteSet(1..b)
    BY FS_Interval
  <2> QED
    BY <2>1, <2>2, FS_Subset
<1>2. IsFiniteSet(own)
  BY <1>1
<1>3. IsFiniteSet({n}) /\ Cardinality({n}) = 1
  BY FS_Singleton
<1>4. Cardinality(own) \in Nat
  BY <1>2, FS_CardinalityType
<1>5. all = outer \cup last
  <2>1. 1..n = (1..(n - 1)) \cup {n}
    OBVIOUS
  <2> QED
    BY <2>1
<1>6. outer \cap last = {}
  <2>1. \A w \in outer : w[1] \in 1..(n - 1)
    OBVIOUS
  <2>2. \A w \in last : w[1] = n
    OBVIOUS
  <2>3. n \notin 1..(n - 1)
    OBVIOUS
  <2> QED
    BY <2>1, <2>2, <2>3
<1> HIDE DEF own
<1>7. IsFiniteSet(last) /\ Cardinality(last) = 1 * Cardinality(own)
  BY <1>2, <1>3, FS_Product
<1> HIDE DEF last
<1>8. IsFiniteSet(all) /\ Cardinality(all) = Cardinality(outer) + Cardinality(last) - Cardinality(outer \cap last)
  BY <1>5, <1>7, FS_Union
<1>9. Cardinality(outer \cap last) = 0 /\ Cardinality(outer) \in Nat /\ Cardinality(all) \in Nat
  BY <1>6, <1>8, FS_EmptySet, FS_CardinalityType
<1> QED
  BY <1>4, <1>7, <1>8, <1>9 DEF own

\* The first call of a function holds nothing.
LEMMA HeldFirst ==
  ASSUME IInv', calls' # <<>>
  PROVE  HeldAt(1)'
<1>1. 1 \in DOMAIN calls'
  BY EmptySeq, LenProperties DEF IInv, CallsOK
<1>2. HeldAround(1)' = {}
  BY DEF HeldAround
<1>3. IsFiniteSet(HeldAround(1))' /\ Cardinality(HeldAround(1))' = 0
  BY <1>2, FS_EmptySet
<1>4. calls'[1].kind = "stmt"
  BY DEF IInv, CallsOK
<1>5. calls'[1].base \in {Dead, offset'} /\ calls'[1].depth = offset' /\ offset' \in Nat
  BY <1>1, <1>4 DEF IInv, Nested, TypeOK
<1> QED
  BY <1>3, <1>5 DEF HeldAt, Word

\* A call holds, besides what the call around it holds, what the plan of that call says.
LEMMA HeldNext ==
  ASSUME IInv', NEW n \in Nat \ {0}, n + 1 \in DOMAIN calls', HeldAt(n)'
  PROVE  HeldAt(n + 1)'
<1>1. calls' \in Seq(CallT)
  BY DEF IInv, CallsOK
<1>2. n \in DOMAIN calls' /\ n \in 1..(Len(calls') - 1) /\ DOMAIN calls' = 1..Len(calls')
  BY <1>1, LenProperties
<1> DEFINE c == calls'[n]
           e == calls'[n + 1]
           k == c.pc - 1
           p == Plan(c)
           own == Held(c.steps, k)
<1>3. c \in CallT /\ e \in CallT
  BY <1>1, <1>2, ElementOfSeq
<1>4. /\ k \in DOMAIN c.steps
      /\ e.kind = IF c.steps[k].op \in {"stmt", "init"} THEN "stmt" ELSE c.steps[k].op
      /\ e.base # Dead => c.base # Dead /\ e.base = c.base + p.h[k]
      /\ e.depth = c.depth + p.d[k]
  BY <1>2 DEF IInv, Nested
<1>5. c.pc \in Nat /\ c.steps \in Seq(StepT) /\ c.depth \in Nat /\ c.base \in Nat \cup {Dead}
      /\ e.kind \in {"stmt", "expr", "lval"}
  BY <1>3 DEF CallT
<1>6. Planned(c.kind, c.steps)
  BY <1>2 DEF IInv, CallsOK
<1> HIDE DEF c, e, k, p
<1>7. Plans(c.kind, c.steps, p) /\ DOMAIN c.steps = 1..Len(c.steps)
  BY <1>5, <1>6, PlanFacts DEF p
<1>8. c.steps[k].op \in Children
  BY <1>4, <1>5 DEF Children
<1>9. p.h[k] = p.d[k] + Word * Cardinality(own)
  BY <1>4, <1>7, <1>8 DEF Plans, ChildAt
<1>10. p.h[k] \in Nat /\ p.d[k] \in Nat
  BY <1>4, <1>5, <1>7, LenProperties DEF Plans
<1> DEFINE outer == HeldAround(n)'
           all == HeldAround(n + 1)'
<1>11. /\ outer = UNION {{i} \X Held(calls'[i].steps, calls'[i].pc - 1) : i \in 1..(n - 1)}
       /\ all = UNION {{i} \X Held(calls'[i].steps, calls'[i].pc - 1) : i \in 1..n}
  <2>1. (n + 1) - 1 = n
    OBVIOUS
  <2> QED
    BY <2>1 DEF HeldAround
<1>12. IsFiniteSet(outer) /\ (c.base # Dead => c.base = c.depth + Word * Cardinality(outer))
  BY DEF HeldAt, c
<1> HIDE DEF outer, all
<1>13. /\ IsFiniteSet(all)
       /\ Cardinality(all) \in Nat /\ Cardinality(outer) \in Nat /\ Cardinality(own) \in Nat
       /\ Cardinality(all) = Cardinality(outer) + Cardinality(own)
  BY <1>5, <1>11, <1>12, HeldMore DEF c, k
<1> HIDE DEF own
<1>14. ASSUME e.base # Dead
       PROVE  e.base = e.depth + Word * Cardinality(all)
  <2>1. c.base # Dead /\ e.base = c.base + p.h[k] /\ e.depth = c.depth + p.d[k]
    BY <1>4, <1>14
  <2>2. c.base = c.depth + Word * Cardinality(outer)
    BY <1>12, <2>1
  <2>3. c.depth \in Nat
    BY <1>5
  <2> QED
    BY <1>9, <1>10, <1>13, <2>1, <2>2, <2>3 DEF Word
<1> QED
  BY <1>13, <1>14 DEF HeldAt, all, e

LEMMA StepHeld == IInv /\ HeldOK /\ IInv' /\ [Next]_vars => HeldOK'
<1> SUFFICES ASSUME IInv, HeldOK, IInv', [Next]_vars, NEW n \in DOMAIN calls'
             PROVE  HeldAt(n)'
  BY DEF HeldOK
<1>1. Around
  BY StepMoves, MovesKeep
<1>2. /\ Len(calls) \in Nat /\ DOMAIN calls = 1..Len(calls)
      /\ Len(calls') \in Nat /\ DOMAIN calls' = 1..Len(calls')
  BY LenProperties DEF IInv, CallsOK
<1>3. ASSUME NEW m \in 1..Len(calls), m <= Len(calls')
      PROVE  HeldAt(m)'
  <2>1. \A i \in 1..(m - 1) : calls'[i].steps = calls[i].steps /\ calls'[i].pc = calls[i].pc
    BY <1>1, <1>2, <1>3 DEF Around
  <2>2. HeldAround(m)' = HeldAround(m)
    BY <2>1 DEF HeldAround
  <2>3. calls'[m].base = calls[m].base /\ calls'[m].depth = calls[m].depth
    BY <1>1, <1>3 DEF Around
  <2>4. HeldAt(m)
    BY <1>2 DEF HeldOK
  <2> QED
    BY <2>2, <2>3, <2>4 DEF HeldAt
<1>4. CASE n \in 1..Len(calls)
  BY <1>2, <1>3, <1>4
<1>5. CASE n = 1
  BY <1>5, HeldFirst, EmptySeq
<1>6. CASE n \notin 1..Len(calls) /\ n # 1
  <2> DEFINE m == n - 1
  <2>1. m \in Nat \ {0} /\ m \in 1..Len(calls) /\ m <= Len(calls') /\ m + 1 = n
    BY <1>1, <1>2, <1>6 DEF Around
  <2>2. HeldAt(m)'
    BY <1>3, <2>1
  <2> HIDE DEF m
  <2>3. HeldAt(m + 1)'
    BY <2>1, <2>2, HeldNext
  <2> QED
    BY <2>1, <2>3
<1> QED
  BY <1>4, <1>5, <1>6

\* Ahead of every call, in trees of any nesting, the padding makes up for everything on
\* the stack except what binary operators and argument lists around it hold
\* (gen_expr of a call).
THEOREM PaddingMissesHeldOnly == Spec => []PaddingUpToPending
<1>1. Init => HeldOK
  BY EmptySeq DEF Init, HeldOK
<1>2. IInv /\ HeldOK => PaddingUpToPending
  <2> SUFFICES ASSUME IInv, HeldOK, At("call"), rsp # Dead
               PROVE  (rsp + Diff - Word * Pending) % 16 = 0
    BY DEF PaddingUpToPending
  <2>1. Running /\ Current.op = "call"
    BY DEF At
  <2>2. /\ Len(calls) \in DOMAIN calls
        /\ Active.base \in Nat /\ Active.base # Dead /\ rsp = Active.base + Plan(Active).h[Pos]
        /\ Active.depth \in Nat /\ stack_depth = Active.depth + Plan(Active).d[Pos]
    BY <2>1, ActiveFacts
  <2>3. Plan(Active).h[Pos] = 0 /\ Plan(Active).d[Pos] = 0
    BY <2>1, ActiveStep DEF StepOK
  <2>4. /\ IsFiniteSet(HeldAround(Len(calls)))
        /\ Active.base = Active.depth + Word * Pending
    BY <2>2 DEF HeldOK, HeldAt, Pending, Active
  <2>5. Pending \in Nat
    BY <2>4, FS_CardinalityType DEF Pending
  <2>6. stack_depth \in Nat /\ rsp = stack_depth + Word * Pending
    BY <2>2, <2>3, <2>4, <2>5 DEF Word
  <2>7. rsp + Diff - Word * Pending = stack_depth + Diff
    BY <2>5, <2>6 DEF Word, Diff
  <2>8. (stack_depth + Diff) % 16 = 0
    BY <2>6 DEF Diff
  <2> QED
    BY <2>7, <2>8
<1>3. Spec => [](IInv /\ HeldOK)
  BY InitIInv, StepIInv, StepHeld, <1>1, PTL DEF Spec
<1> QED
  BY <1>2, <1>3, PTL

=============================================================================
