--------------------------- MODULE SemaFuncProofs ---------------------------
(***************************************************************************)
(* Proofs about SemaFunc, for every choice of names, sizes, enumerators    *)
(* and bounds: its type invariant, the label stacks, the disjointness of   *)
(* the frame slots and the implementation of SlotAllocator.                *)
(***************************************************************************)
EXTENDS SemaFunc, FiniteSetTheorems, SequenceTheorems, TLAPS

-----------------------------------------------------------------------------
(* Counting calls.                                                         *)

\* The count of a longer prefix: one more exactly if the added call counts.
LEMMA CountStep ==
  ASSUME NEW s, NEW i \in Nat, NEW K
  PROVE  /\ CountTo(s, 0, K) = 0
         /\ CountTo(s, i, K) \in Nat
         /\ CountTo(s, i + 1, K) = CountTo(s, i, K)
                                   + (IF s[i + 1].kind \in K THEN 1 ELSE 0)
<1> DEFINE Counts(n) == {j \in 1..n : s[j].kind \in K}
<1>1. ASSUME NEW n \in Nat
      PROVE  /\ IsFiniteSet(Counts(n))
             /\ CountTo(s, n, K) = Cardinality(Counts(n))
             /\ CountTo(s, n, K) \in Nat
  <2>1. IsFiniteSet(1..n)
    BY FS_Interval
  <2>2. Counts(n) \subseteq 1..n
    OBVIOUS
  <2>3. IsFiniteSet(Counts(n))
    BY <2>1, <2>2, FS_Subset
  <2> QED
    BY <2>3, FS_CardinalityType DEF CountTo
<1>2. Counts(0) = {} /\ i + 1 \notin Counts(i)
  OBVIOUS
<1>3. Counts(i + 1) = IF s[i + 1].kind \in K THEN Counts(i) \cup {i + 1} ELSE Counts(i)
  OBVIOUS
<1> HIDE DEF Counts
<1>4. CountTo(s, 0, K) = 0
  BY <1>1, <1>2, FS_EmptySet
<1>5. Cardinality(Counts(i) \cup {i + 1}) = Cardinality(Counts(i)) + 1
  BY <1>1, <1>2, FS_AddElement
<1> QED
  BY <1>1, <1>3, <1>4, <1>5, i + 1 \in Nat

\* The same step, counted from its end.
LEMMA CountStepBack ==
  ASSUME NEW s, NEW n \in Nat \ {0}, NEW K
  PROVE  /\ CountTo(s, n - 1, K) \in Nat
         /\ CountTo(s, n, K) = CountTo(s, n - 1, K) + (IF s[n].kind \in K THEN 1 ELSE 0)
<1>1. PICK m \in Nat : n = m + 1
  <2>1. n - 1 \in Nat /\ n = (n - 1) + 1
    OBVIOUS
  <2> QED
    BY <2>1
<1>2. n - 1 = m
  BY <1>1
<1>3. /\ CountTo(s, m, K) \in Nat
      /\ CountTo(s, m + 1, K) = CountTo(s, m, K) + (IF s[m + 1].kind \in K THEN 1 ELSE 0)
  BY CountStep
<1> QED
  BY <1>1, <1>2, <1>3

\* The count depends on the kinds in the prefix alone.
LEMMA CountSame ==
  ASSUME NEW s, NEW t, NEW i \in Nat, NEW K,
         \A j \in 1..i : s[j].kind = t[j].kind
  PROVE  CountTo(s, i, K) = CountTo(t, i, K)
<1>1. {j \in 1..i : s[j].kind \in K} = {j \in 1..i : t[j].kind \in K}
  OBVIOUS
<1> QED
  BY <1>1 DEF CountTo

\* Counts grow with the prefix, and a counted call is at least the first one.
LEMMA CountMonotonic ==
  ASSUME NEW s, NEW i \in Nat, NEW j \in Nat, i <= j, NEW K
  PROVE  /\ CountTo(s, i, K) <= CountTo(s, j, K)
         /\ i > 0 /\ s[i].kind \in K => CountTo(s, i, K) >= 1
<1> DEFINE Counts(n) == {k \in 1..n : s[k].kind \in K}
<1>1. IsFiniteSet(Counts(j))
  <2>1. IsFiniteSet(1..j)
    BY FS_Interval
  <2>2. Counts(j) \subseteq 1..j
    OBVIOUS
  <2> QED
    BY <2>1, <2>2, FS_Subset
<1>2. Counts(i) \subseteq Counts(j)
  OBVIOUS
<1>3. Cardinality(Counts(i)) <= Cardinality(Counts(j))
  BY <1>1, <1>2, FS_Subset
<1>4. ASSUME i > 0, s[i].kind \in K PROVE CountTo(s, i, K) >= 1
  <2>1. (i - 1) + 1 = i /\ i - 1 \in Nat
    BY <1>4
  <2> QED
    BY <1>4, <2>1, CountStep, CountTo(s, (i - 1) + 1, K) = CountTo(s, i - 1, K) + 1
<1> QED
  BY <1>3, <1>4 DEF CountTo

-----------------------------------------------------------------------------
(* Sequences used as stacks.                                               *)

\* Taking the last element off leaves the others where they are.
LEMMA FrontLast ==
  ASSUME NEW S, NEW s \in Seq(S), s # <<>>
  PROVE  /\ Len(s) \in Nat \ {0}
         /\ Front(s) \in Seq(S) /\ Len(Front(s)) = Len(s) - 1
         /\ \A i \in 1..(Len(s) - 1) : Front(s)[i] = s[i]
         /\ Last(s) \in S /\ Last(s) = s[Len(s)]
<1>1. Len(s) \in Nat \ {0}
  BY EmptySeq
<1>2. \A i \in 1..(Len(s) - 1) : s[i] \in S
  BY <1>1, ElementOfSeq
<1>3. /\ SubSeq(s, 1, Len(s) - 1) \in Seq(S)
      /\ Len(SubSeq(s, 1, Len(s) - 1)) = Len(s) - 1
      /\ \A i \in 1..(Len(s) - 1) : SubSeq(s, 1, Len(s) - 1)[i] = s[i]
  <2>1. 1 \in Int /\ Len(s) - 1 \in Int
    BY <1>1
  <2> DEFINE f == SubSeq(s, 1, Len(s) - 1)
  <2>2. /\ f \in Seq(S)
        /\ Len(f) = IF 1 <= Len(s) - 1 THEN (Len(s) - 1) - 1 + 1 ELSE 0
        /\ \A i \in 1..((Len(s) - 1) - 1 + 1) : f[i] = s[1 + i - 1]
    BY <1>2, <2>1, SubSeqProperties
  <2> HIDE DEF f
  <2>3. Len(f) = Len(s) - 1
    <3>1. CASE Len(s) = 1
      BY <2>2, <3>1
    <3>2. CASE Len(s) > 1
      BY <1>1, <2>2, <3>2
    <3> QED
      BY <1>1, <3>1, <3>2
  <2>4. ASSUME NEW i \in 1..(Len(s) - 1) PROVE f[i] = s[i]
    <3>1. i \in 1..((Len(s) - 1) - 1 + 1) /\ 1 + i - 1 = i
      BY <1>1
    <3>2. f[i] = s[1 + i - 1]
      BY <2>2, <3>1
    <3> QED
      BY <3>1, <3>2
  <2> QED
    BY <2>2, <2>3, <2>4 DEF f
<1> QED
  BY <1>1, <1>3, ElementOfSeq DEF Front, Last

\* A label stack follows the calls whatever happens to their other fields.
LEMMA FollowsSame ==
  ASSUME NEW s \in Seq(Activation), NEW t \in Seq(Activation), Len(s) = Len(t),
         \A i \in 1..Len(s) : s[i].kind = t[i].kind /\ s[i].label = t[i].label,
         NEW labels, NEW K, Follows(labels, s, K)
  PROVE  Follows(labels, t, K)
<1>1. \A i \in 0..Len(s) : CountTo(s, i, K) = CountTo(t, i, K)
  BY CountSame
<1> QED
  BY <1>1 DEF Follows

\* It follows a new call when its label, if it counts, is pushed.
LEMMA FollowsPush ==
  ASSUME NEW s \in Seq(Activation), NEW a \in Activation,
         NEW labels \in Seq(Label), NEW K, Follows(labels, s, K),
         a.kind \in K => a.label \in Label,
         NEW more, more = IF a.kind \in K THEN Append(labels, a.label) ELSE labels
  PROVE  Follows(more, Append(s, a), K)
<1> DEFINE t == Append(s, a)
<1>1. /\ t \in Seq(Activation) /\ Len(t) = Len(s) + 1 /\ Len(s) \in Nat
      /\ \A i \in 1..Len(s) : t[i] = s[i]
      /\ t[Len(s) + 1] = a
  BY AppendProperties
<1> HIDE DEF t
<1>2. ASSUME NEW i \in 0..Len(s) PROVE CountTo(t, i, K) = CountTo(s, i, K)
  <2>1. i \in Nat /\ \A j \in 1..i : t[j].kind = s[j].kind
    BY <1>1
  <2> QED
    BY <2>1, CountSame
<1>3. CountTo(t, Len(t), K) = CountTo(s, Len(s), K) + IF a.kind \in K THEN 1 ELSE 0
  <2>1. CountTo(t, Len(s) + 1, K)
          = CountTo(t, Len(s), K) + IF t[Len(s) + 1].kind \in K THEN 1 ELSE 0
    <3>1. Len(s) \in Nat
      BY <1>1
    <3> QED
      BY <3>1, CountStep
  <2> QED
    BY <1>1, <1>2, <2>1
<1>4. /\ Len(labels) = CountTo(s, Len(s), K)
      /\ Len(more) = CountTo(t, Len(t), K)
      /\ \A i \in 1..Len(labels) : more[i] = labels[i]
      /\ a.kind \in K => more[Len(labels) + 1] = a.label
  <2>1. Len(labels) = CountTo(s, Len(s), K)
    BY DEF Follows
  <2>2. CASE a.kind \in K
    BY <1>3, <2>1, <2>2, AppendProperties
  <2>3. CASE a.kind \notin K
    BY <1>3, <2>1, <2>3, LenProperties
  <2> QED
    BY <2>1, <2>2, <2>3
<1>5. ASSUME NEW i \in 1..Len(t), t[i].kind \in K
      PROVE  more[CountTo(t, i, K)] = t[i].label
  <2>1. CASE i = Len(t)
    BY <1>1, <1>3, <1>4, <1>5, <2>1
  <2>2. CASE i <= Len(s)
    <3>1. i \in Nat /\ i > 0 /\ s[i].kind \in K /\ t[i] = s[i]
      BY <1>1, <1>5, <2>2
    <3>2. CountTo(s, i, K) <= CountTo(s, Len(s), K) /\ CountTo(s, i, K) >= 1
      BY <1>1, <2>2, <3>1, CountMonotonic
    <3>3. CountTo(s, i, K) \in Nat
      BY <3>1, CountStep
    <3>4. labels[CountTo(s, i, K)] = s[i].label
      BY <1>1, <2>2, <3>1 DEF Follows
    <3> QED
      BY <1>1, <1>2, <1>4, <2>2, <3>1, <3>2, <3>3, <3>4
  <2>3. i = Len(t) \/ i <= Len(s)
    BY <1>1
  <2> QED
    BY <2>1, <2>2, <2>3
<1>6. Follows(more, t, K)
  BY <1>4, <1>5, LenProperties, <1>1 DEF Follows
<1> QED
  BY <1>6 DEF t

\* It follows the return of a call when that call's label is popped.
LEMMA FollowsPop ==
  ASSUME NEW s \in Seq(Activation), s # <<>>,
         NEW labels \in Seq(Label), NEW K, Follows(labels, s, K),
         NEW fewer, fewer = IF Last(s).kind \in K THEN Front(labels) ELSE labels
  PROVE  /\ Follows(fewer, Front(s), K)
         /\ Last(s).kind \in K => labels # <<>>
<1> DEFINE t == Front(s)
<1>1. /\ t \in Seq(Activation) /\ Len(t) = Len(s) - 1 /\ Len(s) \in Nat \ {0}
      /\ \A i \in 1..Len(t) : t[i] = s[i]
      /\ Last(s) = s[Len(s)]
  BY FrontLast
<1> HIDE DEF t
<1>2. ASSUME NEW i \in 0..Len(t) PROVE CountTo(t, i, K) = CountTo(s, i, K)
  <2>1. i \in Nat /\ \A j \in 1..i : t[j].kind = s[j].kind
    BY <1>1
  <2> QED
    BY <2>1, CountSame
<1>3. /\ CountTo(s, Len(t), K) \in Nat
      /\ CountTo(s, Len(s), K) = CountTo(s, Len(t), K)
                                 + IF Last(s).kind \in K THEN 1 ELSE 0
  <2>1. Len(t) \in Nat /\ Len(s) = Len(t) + 1
    BY <1>1
  <2> QED
    BY <1>1, <2>1, CountStep
<1>4. Last(s).kind \in K => labels # <<>>
  BY <1>3 DEF Follows
<1>5. /\ Len(fewer) = CountTo(t, Len(t), K)
      /\ \A i \in 1..Len(fewer) : fewer[i] = labels[i]
  <2>1. Len(labels) = CountTo(s, Len(s), K) /\ CountTo(t, Len(t), K) = CountTo(s, Len(t), K)
    BY <1>1, <1>2 DEF Follows
  <2>2. CASE Last(s).kind \in K
    <3>1. /\ Len(Front(labels)) = Len(labels) - 1 /\ Len(labels) \in Nat
          /\ \A i \in 1..(Len(labels) - 1) : Front(labels)[i] = labels[i]
      BY <1>4, <2>2, FrontLast
    <3> QED
      BY <1>3, <2>1, <2>2, <3>1
  <2>3. CASE Last(s).kind \notin K
    BY <1>3, <2>1, <2>3
  <2> QED
    BY <2>2, <2>3
<1>6. ASSUME NEW i \in 1..Len(t), t[i].kind \in K
      PROVE  fewer[CountTo(t, i, K)] = t[i].label
  <2>1. CountTo(t, i, K) \in 1..Len(fewer)
    <3>1. i \in Nat /\ i > 0 /\ Len(t) \in Nat /\ i <= Len(t)
      BY <1>1
    <3>2. CountTo(t, i, K) <= CountTo(t, Len(t), K) /\ CountTo(t, i, K) >= 1
      BY <1>6, <3>1, CountMonotonic
    <3>3. CountTo(t, i, K) \in Nat
      BY <3>1, CountStep
    <3> QED
      BY <1>5, <3>2, <3>3
  <2>2. labels[CountTo(s, i, K)] = s[i].label
    BY <1>1, <1>6 DEF Follows
  <2> QED
    BY <1>1, <1>2, <1>5, <1>6, <2>1, <2>2
<1>7. Follows(fewer, t, K)
  BY <1>1, <1>5, <1>6 DEF Follows
<1> QED
  BY <1>4, <1>7 DEF t

-----------------------------------------------------------------------------
(* What a step can do to the calls, the scopes and the marks.              *)

\* Two sequences of calls that differ at most in what is left to analyse.
Alike(s, t) == /\ Len(s) = Len(t)
               /\ \A i \in 1..Len(s) : /\ s[i].kind = t[i].kind
                                       /\ s[i].label = t[i].label
                                       /\ s[i].saved = t[i].saved

Quiet == /\ calls' \in Seq(Activation) /\ Alike(calls, calls')
         /\ phase' \in {phase, "exit"}
         /\ UNCHANGED <<local_vars, space, targets, offset>>

Push(a) ==
  /\ phase = "body" /\ phase' = "body"
  /\ Counted \in Seq(Activation) /\ Alike(calls, Counted)
  /\ calls' = Append(Counted, a)
  /\ local_vars' = IF a.kind \in Scoping THEN Append(local_vars, <<>>) ELSE local_vars
  /\ a.kind \in Restoring => a.saved = scoped_stack_space
  /\ a.kind \in Breakable => a.label \in Label
  /\ break_labels' = IF a.kind \in Breakable THEN Append(break_labels, a.label)
                     ELSE break_labels
  /\ continue_labels' = IF a.kind \in Loops THEN Append(continue_labels, a.label)
                        ELSE continue_labels
  /\ UNCHANGED space

Pop ==
  /\ phase = "body" /\ phase' = "body"
  /\ Len(calls) > 1
  /\ calls' = Front(calls)
  /\ local_vars' = IF Last(calls).kind \in Scoping THEN Front(local_vars) ELSE local_vars
  /\ scoped_stack_space' = IF Last(calls).kind \in Restoring THEN Last(calls).saved
                           ELSE scoped_stack_space
  /\ max_scoped_stack_space' = max_scoped_stack_space
  /\ break_labels' = IF Last(calls).kind \in Breakable THEN Front(break_labels)
                     ELSE break_labels
  /\ continue_labels' = IF Last(calls).kind \in Loops THEN Front(continue_labels)
                        ELSE continue_labels

\* Accounting for a statement in its parent only lowers the parent's count.
LEMMA CountedAlike ==
  ASSUME TypeOK, CallsNested, Ready
  PROVE  Counted \in Seq(Activation) /\ Alike(calls, Counted)
<1>1. calls \in Seq(Activation) /\ calls # <<>>
  BY DEF TypeOK, CallsNested, Ready
<1>2. Len(calls) \in 1..Len(calls) /\ Last(calls) = calls[Len(calls)] /\ Last(calls) \in Activation
  BY <1>1, FrontLast
<1>3. CASE Listing(Last(calls))
  BY <1>1, <1>3 DEF Counted, Alike
<1>4. CASE ~Listing(Last(calls))
  <2> DEFINE e == [Last(calls) EXCEPT !.left = @ - 1]
  <2>1. e \in Activation
    BY <1>2, <1>4 DEF Ready, Activation
  <2>2. Counted = [calls EXCEPT ![Len(calls)] = e]
    BY <1>1, <1>2, <1>4 DEF Counted
  <2>3. /\ e.kind = Last(calls).kind /\ e.label = Last(calls).label
        /\ e.saved = Last(calls).saved
    BY <1>2 DEF Activation
  <2> HIDE DEF e
  <2>4. /\ Counted \in Seq(Activation) /\ Len(Counted) = Len(calls)
        /\ \A j \in 1..Len(calls) : Counted[j] = IF j = Len(calls) THEN e ELSE calls[j]
    BY <1>1, <1>2, <2>1, <2>2, ExceptSeq
  <2> QED
    BY <1>2, <2>3, <2>4 DEF Alike
<1> QED
  BY <1>3, <1>4

\* A call that is opened is pushed over the calls that stay open.
LEMMA OpenedPushed ==
  ASSUME TypeOK, CallsNested, Ready,
         NEW kind \in Kinds, NEW label \in Label \cup {NoLabel},
         NEW saved \in Nat, NEW left \in Nat,
         NEW a, a = [kind |-> kind, label |-> label, saved |-> saved, left |-> left]
  PROVE  /\ a \in Activation
         /\ Opened(kind, label, saved, left) = Append(Counted, a)
         /\ Counted \in Seq(Activation) /\ Alike(calls, Counted)
BY CountedAlike DEF Opened, Activation

\* Every step of the pass has one of six effects on them.
LEMMA Effects ==
  ASSUME TypeOK, CallsNested, [Next]_vars
  PROVE  \/ Quiet
         \/ \E a \in Activation : Push(a)
         \/ Pop
         \/ \E n \in Names, size \in Sizes, es \in EnumLists : VarDecl(n, size, es)
         \/ \E ps \in ParamLists, varargs \in BOOLEAN : SemaFunc(ps, varargs)
         \/ FinishFunc
<1> USE DEF space, targets, naming
<1>1. /\ calls \in Seq(Activation) /\ jump_id \in Nat /\ scoped_stack_space \in Nat
      /\ Alike(calls, calls)
  BY DEF TypeOK, Alike
<1>2. ASSUME Exit PROVE Quiet
  BY <1>1, <1>2 DEF Exit, Quiet
<1>3. ASSUME UNCHANGED vars PROVE Quiet
  BY <1>1, <1>3 DEF vars, Quiet
<1>4. CASE Reject
  BY <1>2, <1>4 DEF Reject
<1>5. CASE Functions
  <2>1. CASE ExternDecl
    BY <1>1, <2>1 DEF ExternDecl, Quiet
  <2> QED
    BY <1>2, <1>5, <2>1 DEF Functions, DuplicateParams
<1>6. CASE Declarations
  BY <1>2, <1>6 DEF Declarations, DuplicateDecl
<1>7. CASE Enter
  <2>1. CASE EnterBlock
    <3> DEFINE a == [kind |-> "block", label |-> NoLabel,
                     saved |-> scoped_stack_space, left |-> 0]
    <3>1. a \in Activation /\ Opened("block", NoLabel, scoped_stack_space, 0) = Append(Counted, a)
          /\ Counted \in Seq(Activation) /\ Alike(calls, Counted)
      BY <1>1, <2>1, OpenedPushed DEF EnterBlock, MayOpen, Kinds
    <3>2. Push(a)
      BY <2>1, <3>1 DEF EnterBlock, MayOpen, Ready, Push, Breakable, Loops, Scoping, Restoring
    <3> QED
      BY <3>1, <3>2
  <2>2. ASSUME NEW else \in {0, 1}, EnterIf(else) PROVE \E a \in Activation : Push(a)
    <3> DEFINE a == [kind |-> "if", label |-> NoLabel, saved |-> 0, left |-> 1 + else]
    <3>1. a \in Activation /\ Opened("if", NoLabel, 0, 1 + else) = Append(Counted, a)
          /\ Counted \in Seq(Activation) /\ Alike(calls, Counted)
      BY <1>1, <2>2, OpenedPushed DEF EnterIf, MayOpen, Kinds
    <3>2. Push(a)
      BY <2>2, <3>1 DEF EnterIf, MayOpen, Ready, Push, Breakable, Loops, Scoping, Restoring
    <3> QED
      BY <3>1, <3>2
  <2>3. ASSUME NEW kind \in {"while", "dowhile"}, EnterLoop(kind)
        PROVE  \E a \in Activation : Push(a)
    <3> DEFINE a == [kind |-> kind, label |-> NewLabel(kind), saved |-> 0, left |-> 1]
    <3>1. NewLabel(kind) \in Label
      BY <1>1 DEF NewLabel, Label, LabelPrefixes, Breakable, Loops
    <3>2. a \in Activation /\ Opened(kind, NewLabel(kind), 0, 1) = Append(Counted, a)
          /\ Counted \in Seq(Activation) /\ Alike(calls, Counted)
      BY <2>3, <3>1, OpenedPushed DEF EnterLoop, MayOpen, Kinds
    <3>3. Push(a)
      BY <2>3, <3>1, <3>2 DEF EnterLoop, MayOpen, Ready, Push, Breakable, Loops, Scoping, Restoring
    <3> QED
      BY <3>2, <3>3
  <2>4. ASSUME NEW init \in {0, 1}, EnterFor(init) PROVE \E a \in Activation : Push(a)
    <3> DEFINE a == [kind |-> "for", label |-> NewLabel("for"),
                     saved |-> scoped_stack_space, left |-> 1 + init]
    <3>1. NewLabel("for") \in Label
      BY <1>1 DEF NewLabel, Label, LabelPrefixes, Breakable, Loops
    <3>2. a \in Activation
          /\ Opened("for", NewLabel("for"), scoped_stack_space, 1 + init) = Append(Counted, a)
          /\ Counted \in Seq(Activation) /\ Alike(calls, Counted)
      BY <1>1, <2>4, <3>1, OpenedPushed DEF EnterFor, MayOpen, Kinds
    <3>3. Push(a)
      BY <2>4, <3>1, <3>2 DEF EnterFor, MayOpen, Ready, Push, Breakable, Loops, Scoping, Restoring
    <3> QED
      BY <3>2, <3>3
  <2>5. CASE EnterSwitch
    <3> DEFINE a == [kind |-> "switch", label |-> NewLabel("switch"), saved |-> 0, left |-> 0]
    <3>1. NewLabel("switch") \in Label
      BY <1>1 DEF NewLabel, Label, LabelPrefixes, Breakable, Loops
    <3>2. a \in Activation /\ Opened("switch", NewLabel("switch"), 0, 0) = Append(Counted, a)
          /\ Counted \in Seq(Activation) /\ Alike(calls, Counted)
      BY <2>5, <3>1, OpenedPushed DEF EnterSwitch, MayOpen, Kinds
    <3>3. Push(a)
      BY <2>5, <3>1, <3>2 DEF EnterSwitch, MayOpen, Ready, Push, Breakable, Loops, Scoping, Restoring
    <3> QED
      BY <3>2, <3>3
  <2> QED
    BY <1>7, <2>1, <2>2, <2>3, <2>4, <2>5 DEF Enter
<1>8. CASE Leave
  <2> USE DEF MayLeave, Pop, Scoping, Restoring, Breakable, Loops
  <2>1. CASE LeaveBlock
    BY <2>1 DEF LeaveBlock, Reverted
  <2>2. CASE LeaveIf
    BY <2>2 DEF LeaveIf
  <2>3. CASE LeaveLoop
    BY <2>3 DEF LeaveLoop
  <2>4. CASE LeaveFor
    BY <2>4 DEF LeaveFor, Reverted
  <2>5. CASE LeaveSwitch
    BY <2>5 DEF LeaveSwitch
  <2> QED
    BY <1>8, <2>1, <2>2, <2>3, <2>4, <2>5 DEF Leave
<1>9. CASE Simple
  <2>1. CASE SimpleStmt
    BY <2>1, CountedAlike DEF SimpleStmt, Quiet
  <2>2. ASSUME NEW prefix, CaseLabel(prefix) PROVE Quiet
    BY <1>1, <2>2 DEF CaseLabel, Quiet
  <2>3. ASSUME NEW labels, Jump(labels) PROVE Quiet
    BY <2>3, CountedAlike DEF Jump, Quiet
  <2> QED
    BY <1>2, <1>9, <2>1, <2>2, <2>3 DEF Simple, MisplacedCase, MisplacedJump
<1>10. CASE Stop
  BY <1>3, <1>10 DEF Stop
<1> QED
  BY <1>3, <1>4, <1>5, <1>6, <1>7, <1>8, <1>9, <1>10 DEF Next

-----------------------------------------------------------------------------
(* The type invariant.                                                     *)

\* The entries that declarations and parameter lists make.
LEMMA EntryTypes ==
  /\ \A n \in Names, v \in Nat, size \in Nat, kind \in {"var", "param", "enum"} :
       [name |-> n, kind |-> kind, val |-> v, size |-> size] \in Entry
  /\ \A es \in EnumLists : /\ Enumerators(es) \in Seq(Entry)
                           /\ \A i \in DOMAIN Enumerators(es) :
                                Enumerators(es)[i].val = 0 /\ Enumerators(es)[i].kind = "enum"
<1>1. \A n \in Names, v \in Nat, size \in Nat, kind \in {"var", "param", "enum"} :
        [name |-> n, kind |-> kind, val |-> v, size |-> size] \in Entry
  BY DEF Entry
<1>2. ASSUME NEW es \in EnumLists
      PROVE  /\ Enumerators(es) \in Seq(Entry)
             /\ \A i \in DOMAIN Enumerators(es) :
                  Enumerators(es)[i].val = 0 /\ Enumerators(es)[i].kind = "enum"
  <2>1. es \in Seq(Names)
    BY SemaAssumption
  <2>2. DOMAIN es = 1..Len(es) /\ Len(es) \in Nat /\ \A i \in 1..Len(es) : es[i] \in Names
    BY <2>1
  <2>3. \A i \in 1..Len(es) :
          [name |-> es[i], kind |-> "enum", val |-> 0, size |-> 0] \in Entry
    BY <1>1, <2>2
  <2>4. Enumerators(es) \in [1..Len(es) -> Entry]
    BY <2>2, <2>3 DEF Enumerators
  <2> QED
    BY <2>2, <2>4 DEF Enumerators
<1> QED
  BY <1>1, <1>2

\* The numbering of labels and the counters of main keep their types, and every
\* label given has a number below the next one.
LEMMA NamingType ==
  ASSUME TypeOK, CallsNested, LabelsUsedUp, [Next]_vars
  PROVE  /\ jump_id' \in Nat /\ labelled' \in Seq(Label) /\ offset' \in Nat
         /\ todo' \in Nat /\ phase' \in {"next", "body", "exit"}
         /\ LabelsUsedUp'
<1> USE DEF space, targets, naming, TypeOK
<1>1. ASSUME UNCHANGED naming PROVE LabelsUsedUp'
  BY <1>1 DEF LabelsUsedUp
<1>2. ASSUME NEW prefix \in LabelPrefixes, GenLoopLabel(prefix)
      PROVE  jump_id' \in Nat /\ labelled' \in Seq(Label) /\ LabelsUsedUp'
  <2>1. NewLabel(prefix) \in Label /\ NewLabel(prefix).id = jump_id
    BY DEF NewLabel, Label
  <2>2. /\ labelled' \in Seq(Label) /\ Len(labelled') = Len(labelled) + 1
        /\ \A i \in 1..Len(labelled) : labelled'[i] = labelled[i]
        /\ labelled'[Len(labelled) + 1] = NewLabel(prefix)
    BY <1>2, <2>1, AppendProperties DEF GenLoopLabel
  <2>3. ASSUME NEW i \in DOMAIN labelled' PROVE labelled'[i].id < jump_id'
    <3>1. i \in 1..Len(labelled) \/ i = Len(labelled) + 1
      BY <2>2
    <3>2. CASE i \in 1..Len(labelled)
      <4>1. labelled[i] \in Label /\ labelled[i].id < jump_id
        BY <3>2 DEF LabelsUsedUp
      <4> QED
        BY <1>2, <2>2, <3>2, <4>1 DEF GenLoopLabel, Label
    <3>3. CASE i = Len(labelled) + 1
      BY <1>2, <2>1, <2>2, <3>3 DEF GenLoopLabel
    <3> QED
      BY <3>1, <3>2, <3>3
  <2> QED
    BY <1>2, <2>2, <2>3 DEF GenLoopLabel, LabelsUsedUp
<1>3. ASSUME Exit \/ UNCHANGED vars
      PROVE  /\ UNCHANGED <<naming, offset, todo>> /\ phase' \in {"next", "body", "exit"}
  BY <1>3 DEF Exit, vars
<1>4. CASE Functions
  <2>1. ASSUME NEW ps, NEW varargs, SemaFunc(ps, varargs)
        PROVE  UNCHANGED <<naming, offset, todo>> /\ phase' = "body"
    BY <2>1 DEF SemaFunc
  <2>2. CASE ExternDecl
    BY <1>1, <2>2 DEF ExternDecl
  <2>3. CASE FinishFunc
    BY <1>1, <2>3 DEF FinishFunc, FrameNeeded, CallsNested
  <2>4. ASSUME NEW ps, DuplicateParams(ps) PROVE Exit
    BY <2>4 DEF DuplicateParams
  <2> QED
    BY <1>1, <1>3, <1>4, <2>1, <2>2, <2>3, <2>4 DEF Functions
<1>5. CASE Declarations
  <2>1. ASSUME NEW n, NEW size, NEW es, VarDecl(n, size, es)
        PROVE  UNCHANGED <<naming, offset, todo, phase>>
    BY <2>1 DEF VarDecl
  <2>2. ASSUME NEW n, NEW es, DuplicateDecl(n, es) PROVE Exit
    BY <2>2 DEF DuplicateDecl
  <2> QED
    BY <1>1, <1>3, <1>5, <2>1, <2>2 DEF Declarations
<1>6. CASE Enter
  <2>1. CASE EnterBlock
    BY <1>1, <2>1 DEF EnterBlock
  <2>2. ASSUME NEW else, EnterIf(else) PROVE UNCHANGED <<naming, offset, todo, phase>>
    BY <2>2 DEF EnterIf
  <2>3. ASSUME NEW kind \in {"while", "dowhile"}, EnterLoop(kind)
        PROVE  GenLoopLabel(kind) /\ UNCHANGED <<offset, todo, phase>>
    BY <2>3 DEF EnterLoop
  <2>4. ASSUME NEW init, EnterFor(init)
        PROVE  GenLoopLabel("for") /\ UNCHANGED <<offset, todo, phase>>
    BY <2>4 DEF EnterFor
  <2>5. CASE EnterSwitch
    BY <1>2, <2>5 DEF EnterSwitch, LabelPrefixes, Breakable
  <2> QED
    BY <1>1, <1>2, <1>6, <2>1, <2>2, <2>3, <2>4, <2>5 DEF Enter, LabelPrefixes, Breakable, Loops
<1>7. CASE Leave
  <2>1. UNCHANGED <<naming, offset, todo, phase>>
    BY <1>7 DEF Leave, LeaveBlock, LeaveIf, LeaveLoop, LeaveFor, LeaveSwitch
  <2> QED
    BY <1>1, <2>1
<1>8. CASE Simple
  <2>1. ASSUME NEW labels, Jump(labels) PROVE UNCHANGED <<naming, offset, todo, phase>>
    BY <2>1 DEF Jump
  <2>2. CASE SimpleStmt
    BY <1>1, <2>2 DEF SimpleStmt
  <2>3. ASSUME NEW prefix \in {"case", "default"}, CaseLabel(prefix)
        PROVE  GenLoopLabel(prefix) /\ UNCHANGED <<offset, todo, phase>>
    BY <2>3 DEF CaseLabel
  <2>4. ASSUME NEW labels, MisplacedCase \/ MisplacedJump(labels) PROVE Exit
    BY <2>4 DEF MisplacedCase, MisplacedJump
  <2> QED
    BY <1>1, <1>2, <1>3, <1>8, <2>1, <2>2, <2>3, <2>4 DEF Simple, LabelPrefixes
<1> QED
  BY <1>1, <1>3, <1>4, <1>5, <1>6, <1>7, <1>8 DEF Next, Reject, Stop

\* The scope a declaration leaves: its enumerators and then the variable, all of
\* it after what was there.
LEMMA Declares ==
  ASSUME TypeOK, CallsNested, ScopesNested,
         NEW n \in Names, NEW size \in Sizes, NEW es \in EnumLists, VarDecl(n, size, es)
  PROVE  LET D == Len(local_vars)
             old == local_vars[D]
             new == local_vars'[D]
             m == Len(old) + Len(es)
         IN  /\ D \in Nat \ {0}
             /\ local_vars' \in Seq(Seq(Entry)) /\ Len(local_vars') = D
             /\ \A d \in 1..D : d # D => local_vars'[d] = local_vars[d]
             /\ m \in Nat /\ Len(old) \in Nat /\ Len(new) = m + 1
             /\ \A k \in 1..Len(old) : new[k] = old[k]
             /\ \A k \in (Len(old) + 1)..m : new[k].val = 0 /\ new[k].kind = "enum"
             /\ new[m + 1] = [name |-> n, kind |-> "var",
                              val |-> scoped_stack_space + size, size |-> size]
<1> DEFINE D == Len(local_vars)
           old == local_vars[D]
           m == Len(old) + Len(es)
           var == [name |-> n, kind |-> "var",
                   val |-> scoped_stack_space + size, size |-> size]
           mid == old \o Enumerators(es)
           new == Append(mid, var)
<1>1. calls \in Seq(Activation) /\ calls # <<>> /\ local_vars \in Seq(Seq(Entry))
      /\ scoped_stack_space \in Nat /\ size \in Nat
  BY SemaAssumption DEF TypeOK, CallsNested, VarDecl, Ready
<1>2. D \in Nat \ {0}
  <2>1. Len(calls) \in Nat
    BY <1>1
  <2>2. CountTo(calls, Len(calls), Scoping) \in Nat
    BY <2>1, CountStep
  <2> QED
    BY <1>1, <2>1, <2>2 DEF ScopesNested
<1>3. old \in Seq(Entry)
  <2>1. D \in 1..Len(local_vars)
    BY <1>2
  <2> HIDE DEF D
  <2> QED
    BY <1>1, <2>1, ElementOfSeq
<1>4. var \in Entry
  BY <1>1 DEF Entry
<1>5. /\ Enumerators(es) \in Seq(Entry) /\ Len(Enumerators(es)) = Len(es) /\ Len(es) \in Nat
      /\ \A i \in 1..Len(es) : Enumerators(es)[i].val = 0 /\ Enumerators(es)[i].kind = "enum"
  <2>1. es \in Seq(Names)
    BY SemaAssumption
  <2>2. DOMAIN Enumerators(es) = 1..Len(es) /\ Len(es) \in Nat
    BY <2>1 DEF Enumerators
  <2>3. Enumerators(es) \in Seq(Entry)
    BY EntryTypes
  <2>4. Len(Enumerators(es)) = Len(es)
    BY <2>2, <2>3, LenProperties
  <2> QED
    BY <2>2, <2>3, <2>4, EntryTypes
<1>6. /\ mid \in Seq(Entry) /\ Len(mid) = m
      /\ \A k \in 1..m : mid[k] = IF k <= Len(old) THEN old[k]
                                  ELSE Enumerators(es)[k - Len(old)]
  <2> DEFINE E == Enumerators(es)
  <2>1. /\ old \o E \in Seq(Entry) /\ Len(old \o E) = Len(old) + Len(E)
        /\ \A k \in 1..Len(old) + Len(E) :
             (old \o E)[k] = IF k <= Len(old) THEN old[k] ELSE E[k - Len(old)]
    <3> HIDE DEF old, E
    <3>1. old \in Seq(Entry) /\ E \in Seq(Entry)
      BY <1>3, <1>5 DEF E
    <3> QED
      BY <3>1, ConcatProperties
  <2> HIDE DEF old
  <2> QED
    BY <1>5, <2>1
<1>7. /\ new \in Seq(Entry) /\ Len(new) = m + 1
      /\ \A k \in 1..m : new[k] = mid[k]
      /\ new[m + 1] = var
  <2> HIDE DEF mid, var, m
  <2> QED
    BY <1>4, <1>6, AppendProperties
<1>8. local_vars' = [local_vars EXCEPT ![D] = new]
  BY DEF VarDecl, Grown
<1>9. /\ local_vars' \in Seq(Seq(Entry)) /\ Len(local_vars') = D
      /\ \A d \in 1..D : local_vars'[d] = IF d = D THEN new ELSE local_vars[d]
  <2> HIDE DEF new
  <2> QED
    BY <1>1, <1>2, <1>7, <1>8, ExceptSeq
<1>10. \A k \in 1..Len(old) : new[k] = old[k]
  BY <1>3, <1>5, <1>6, <1>7
<1>11. ASSUME NEW k \in (Len(old) + 1)..m PROVE new[k].val = 0 /\ new[k].kind = "enum"
  <2>1. k \in 1..m /\ ~(k <= Len(old)) /\ k - Len(old) \in 1..Len(es)
    BY <1>3, <1>5
  <2>2. new[k] = Enumerators(es)[k - Len(old)]
    BY <1>6, <1>7, <2>1
  <2> QED
    BY <1>5, <2>1, <2>2
<1>12. m \in Nat /\ Len(old) \in Nat /\ local_vars'[D] = new
  <2>1. Len(old) \in Nat
    BY <1>3
  <2>2. D \in 1..D
    BY <1>2
  <2> HIDE DEF new, old, D
  <2> QED
    BY <1>5, <1>9, <2>1, <2>2
<1> HIDE DEF new, mid
<1> QED
  BY <1>2, <1>7, <1>9, <1>10, <1>11, <1>12

\* The parameters that sema_func enters, one register's slot above the other.
LEMMA ParamEntries ==
  ASSUME NEW ps \in ParamLists, NEW varargs \in BOOLEAN, SemaFunc(ps, varargs)
  PROVE  LET base == IF varargs THEN VarargsBytes ELSE 0
         IN  /\ base \in Nat /\ Len(ps) \in Nat
             /\ local_vars' = <<local_vars'[1], <<>>>>
             /\ local_vars' \in Seq(Seq(Entry)) /\ Len(local_vars'[1]) = Len(ps)
             /\ \A i \in 1..Len(ps) :
                  /\ local_vars'[1][i].kind = "param"
                  /\ local_vars'[1][i].val = base + 8 * i
                  /\ local_vars'[1][i].size \in Nat
             /\ scoped_stack_space' = base + 8 * Len(ps)
             /\ max_scoped_stack_space' = base + 8 * Len(ps)
<1> DEFINE base == IF varargs THEN VarargsBytes ELSE 0
           params == [i \in DOMAIN ps |->
                       [name |-> ps[i].name, kind |-> "param",
                        val |-> ParamSlot(base, i), size |-> ps[i].size]]
<1>1. base \in Nat
  BY DEF VarargsBytes
<1>2. PICK n \in 0..MaxParams : ps \in [1..n -> [name : Names, size : ParamSizes]]
  BY DEF ParamLists
<1>3. MaxParams \in Nat /\ ParamSizes \subseteq Nat
  BY SemaAssumption
<1>4. n \in Nat /\ Len(ps) = n /\ DOMAIN ps = 1..n
  BY <1>2, <1>3
<1>5. ASSUME NEW i \in 1..n
      PROVE  /\ params[i] \in Entry /\ params[i].kind = "param"
             /\ params[i].val = base + 8 * i /\ params[i].size \in Nat
  <2>1. ps[i].name \in Names /\ ps[i].size \in Nat
    BY <1>2, <1>3
  <2>2. base + 8 * i \in Nat
    BY <1>1, <1>4
  <2>3. params[i] = [name |-> ps[i].name, kind |-> "param",
                     val |-> base + 8 * i, size |-> ps[i].size]
    BY <1>4 DEF ParamSlot, RegisterBytes
  <2> HIDE DEF params, base
  <2> QED
    BY <2>1, <2>2, <2>3 DEF Entry
<1>6. params \in Seq(Entry) /\ Len(params) = n
  <2>1. DOMAIN params = 1..n
    BY <1>4
  <2>2. params \in [1..n -> Entry]
    BY <1>5, <2>1
  <2> QED
    BY <1>4, <2>2
<1>7. /\ local_vars' = <<params, <<>>>>
      /\ scoped_stack_space' = ParamSlot(base, Len(ps))
      /\ max_scoped_stack_space' = ParamSlot(base, Len(ps))
  BY DEF SemaFunc
<1> HIDE DEF params
<1>9. local_vars' \in Seq(Seq(Entry)) /\ local_vars'[1] = params
  BY <1>6, <1>7
<1> QED
  BY <1>1, <1>4, <1>5, <1>6, <1>7, <1>9 DEF ParamSlot, RegisterBytes

-----------------------------------------------------------------------------
(* Counting and positions after each effect.                               *)

\* Accounting for a statement changes no count.
LEMMA CountAlike ==
  ASSUME NEW s \in Seq(Activation), NEW t \in Seq(Activation), Alike(s, t), NEW K,
         NEW i \in 0..Len(s)
  PROVE  CountTo(t, i, K) = CountTo(s, i, K)
<1>1. i \in Nat /\ \A j \in 1..i : t[j].kind = s[j].kind
  BY DEF Alike
<1> QED
  BY <1>1, CountSame

\* A pushed call is counted last.
LEMMA CountPush ==
  ASSUME NEW s \in Seq(Activation), NEW a \in Activation, NEW K
  PROVE  /\ \A i \in 0..Len(s) : CountTo(Append(s, a), i, K) = CountTo(s, i, K)
         /\ CountTo(Append(s, a), Len(s) + 1, K)
              = CountTo(s, Len(s), K) + IF a.kind \in K THEN 1 ELSE 0
<1> DEFINE t == Append(s, a)
<1>1. /\ Len(s) \in Nat /\ \A i \in 1..Len(s) : t[i] = s[i]
      /\ t[Len(s) + 1] = a
  BY AppendProperties
<1> HIDE DEF t
<1>2. ASSUME NEW i \in 0..Len(s) PROVE CountTo(t, i, K) = CountTo(s, i, K)
  <2>1. i \in Nat /\ \A j \in 1..i : t[j].kind = s[j].kind
    BY <1>1
  <2> QED
    BY <2>1, CountSame
<1>3. CountTo(t, Len(s) + 1, K)
        = CountTo(t, Len(s), K) + IF t[Len(s) + 1].kind \in K THEN 1 ELSE 0
  <2>1. Len(s) \in Nat
    BY <1>1
  <2> QED
    BY <2>1, CountStep
<1>4. CountTo(t, Len(s) + 1, K) = CountTo(s, Len(s), K) + IF a.kind \in K THEN 1 ELSE 0
  BY <1>1, <1>2, <1>3
<1> QED
  BY <1>2, <1>4 DEF t

\* A popped call was counted last.
LEMMA CountPop ==
  ASSUME NEW s \in Seq(Activation), s # <<>>, NEW K
  PROVE  /\ \A i \in 0..(Len(s) - 1) : CountTo(Front(s), i, K) = CountTo(s, i, K)
         /\ CountTo(s, Len(s), K)
              = CountTo(s, Len(s) - 1, K) + IF Last(s).kind \in K THEN 1 ELSE 0
<1> DEFINE t == Front(s)
<1>1. /\ Len(s) \in Nat \ {0} /\ \A i \in 1..(Len(s) - 1) : t[i] = s[i]
      /\ Last(s) = s[Len(s)]
  BY FrontLast
<1> HIDE DEF t
<1>2. ASSUME NEW i \in 0..(Len(s) - 1) PROVE CountTo(t, i, K) = CountTo(s, i, K)
  <2>1. i \in Nat /\ \A j \in 1..i : t[j].kind = s[j].kind
    BY <1>1
  <2> QED
    BY <2>1, CountSame
<1>3. CountTo(s, Len(s), K)
        = CountTo(s, Len(s) - 1, K) + IF Last(s).kind \in K THEN 1 ELSE 0
  BY <1>1, CountStepBack
<1> QED
  BY <1>2, <1>3 DEF t

\* A position is a scope and a place in it.
LEMMA PositionPairs ==
  ASSUME NEW scopes \in Seq(Seq(Entry)), NEW p
  PROVE  p \in Positions(scopes) <=>
           \E d \in 1..Len(scopes) : \E k \in 1..Len(scopes[d]) : p = <<d, k>>
<1>1. \A d \in 1..Len(scopes) : DOMAIN scopes[d] = 1..Len(scopes[d])
  BY ElementOfSeq, LenProperties
<1>2. ASSUME NEW d \in 1..Len(scopes), NEW k \in 1..Len(scopes[d]), p = <<d, k>>
      PROVE  p \in Positions(scopes)
  <2>1. d \in DOMAIN scopes /\ k \in DOMAIN scopes[d]
    BY <1>1
  <2>2. <<d, k>> \in {<<d, j>> : j \in DOMAIN scopes[d]}
    BY <2>1
  <2> QED
    BY <1>2, <2>1, <2>2 DEF Positions
<1>3. ASSUME p \in Positions(scopes)
      PROVE  \E d \in 1..Len(scopes) : \E k \in 1..Len(scopes[d]) : p = <<d, k>>
  BY <1>1, <1>3 DEF Positions
<1> QED
  BY <1>2, <1>3

\* Entries that stay where they are stay apart.
LEMMA ApartKept ==
  ASSUME NEW s, NEW t, EntriesApart(s),
         \A p \in Positions(t) : p \in Positions(s) /\ At(t, p) = At(s, p)
  PROVE  EntriesApart(t)
BY DEF EntriesApart, SlotAt

\* Opening and leaving a scope keep the entries apart and the marks above them.
LEMMA ScopeOpened ==
  ASSUME NEW scopes \in Seq(Seq(Entry))
  PROVE  LET t == Append(scopes, <<>>)
         IN  /\ t \in Seq(Seq(Entry)) /\ Len(t) = Len(scopes) + 1 /\ Len(scopes) \in Nat
             /\ EntriesApart(scopes) => EntriesApart(t)
             /\ \A n \in 0..Len(scopes) : \A mark :
                  Below(scopes, n, mark) => Below(t, n, mark)
             /\ \A mark : Below(scopes, Len(scopes), mark) => Below(t, Len(t), mark)
<1> DEFINE t == Append(scopes, <<>>)
<1>1. <<>> \in Seq(Entry) /\ Len(<<>>) = 0
  BY EmptySeq
<1>2. /\ t \in Seq(Seq(Entry)) /\ Len(t) = Len(scopes) + 1 /\ Len(scopes) \in Nat
      /\ \A d \in 1..Len(scopes) : t[d] = scopes[d]
      /\ t[Len(scopes) + 1] = <<>>
  BY <1>1, AppendProperties
<1> HIDE DEF t
<1>3. \A d \in 1..Len(t) : d \in 1..Len(scopes) \/ t[d] = <<>>
  BY <1>2
<1>4. ASSUME NEW p \in Positions(t) PROVE p \in Positions(scopes) /\ At(t, p) = At(scopes, p)
  <2>1. PICK d \in 1..Len(t) : \E k \in 1..Len(t[d]) : p = <<d, k>>
    BY <1>2, PositionPairs
  <2>2. PICK k \in 1..Len(t[d]) : p = <<d, k>>
    BY <2>1
  <2>3. d \in 1..Len(scopes) /\ t[d] = scopes[d]
    BY <1>1, <1>2, <1>3, <2>2
  <2> QED
    BY <2>2, <2>3, PositionPairs DEF At
<1>5. ASSUME NEW n \in 0..Len(scopes), NEW mark, Below(scopes, n, mark)
      PROVE  Below(t, n, mark)
  <2>1. Len(scopes) \in Nat /\ \A d \in 1..Len(scopes) : t[d] = scopes[d]
    BY <1>2
  <2>2. \A d \in 1..n : d \in 1..Len(scopes)
    BY <2>1
  <2> QED
    BY <1>5, <2>1, <2>2, Zenon DEF Below
<1>6. ASSUME NEW mark, Below(scopes, Len(scopes), mark) PROVE Below(t, Len(t), mark)
  <2>1. DOMAIN <<>> = {}
    OBVIOUS
  <2> QED
    BY <1>2, <1>3, <1>6, <2>1 DEF Below
<1>7. EntriesApart(scopes) => EntriesApart(t)
  BY <1>4, ApartKept
<1> QED
  BY <1>2, <1>5, <1>6, <1>7 DEF t

\* Dropping the innermost scope keeps what held of the scopes that stay.
LEMMA ScopeLeft ==
  ASSUME NEW scopes \in Seq(Seq(Entry)), scopes # <<>>
  PROVE  LET t == Front(scopes)
         IN  /\ t \in Seq(Seq(Entry)) /\ Len(t) = Len(scopes) - 1 /\ Len(t) \in Nat
             /\ EntriesApart(scopes) => EntriesApart(t)
             /\ \A n \in 0..Len(t) : \A mark : Below(scopes, n, mark) => Below(t, n, mark)
<1> DEFINE t == Front(scopes)
<1>1. /\ t \in Seq(Seq(Entry)) /\ Len(t) = Len(scopes) - 1 /\ Len(scopes) \in Nat \ {0}
      /\ \A d \in 1..Len(t) : t[d] = scopes[d]
  BY FrontLast
<1> HIDE DEF t
<1>2. ASSUME NEW p \in Positions(t) PROVE p \in Positions(scopes) /\ At(t, p) = At(scopes, p)
  <2>1. PICK d \in 1..Len(t) : \E k \in 1..Len(t[d]) : p = <<d, k>>
    <3>1. t \in Seq(Seq(Entry))
      BY <1>1
    <3> QED
      BY <3>1, PositionPairs
  <2>2. PICK k \in 1..Len(t[d]) : p = <<d, k>>
    BY <2>1
  <2>3. d \in 1..Len(scopes) /\ t[d] = scopes[d]
    BY <1>1
  <2> QED
    BY <2>2, <2>3, PositionPairs DEF At
<1>3. ASSUME NEW n \in 0..Len(t), NEW mark, Below(scopes, n, mark)
      PROVE  Below(t, n, mark)
  <2>1. \A d \in 1..n : t[d] = scopes[d]
    BY <1>1
  <2> QED
    BY <1>3, <2>1, Zenon DEF Below
<1>4. EntriesApart(scopes) => EntriesApart(t)
  BY <1>2, ApartKept
<1> QED
  BY <1>1, <1>3, <1>4 DEF t

\* The parameters' slots do not overlap as long as they fit a register.
LEMMA ParamsApart ==
  ASSUME NEW ps \in ParamLists, NEW varargs \in BOOLEAN, SemaFunc(ps, varargs)
  PROVE  /\ EntriesApart(local_vars')
         /\ Below(local_vars', 2, scoped_stack_space')
         /\ Len(local_vars') = 2 /\ local_vars' \in Seq(Seq(Entry))
         /\ scoped_stack_space' \in Nat /\ max_scoped_stack_space' = scoped_stack_space'
<1> DEFINE base == IF varargs THEN VarargsBytes ELSE 0
           scopes == local_vars'
<1>1. /\ base \in Nat /\ Len(ps) \in Nat /\ scopes = <<scopes[1], <<>>>>
      /\ scopes \in Seq(Seq(Entry)) /\ Len(scopes[1]) = Len(ps)
      /\ \A i \in 1..Len(ps) : /\ scopes[1][i].kind = "param"
                               /\ scopes[1][i].val = base + 8 * i
                               /\ scopes[1][i].size \in Nat
      /\ scoped_stack_space' = base + 8 * Len(ps)
      /\ max_scoped_stack_space' = base + 8 * Len(ps)
  BY ParamEntries
<1> HIDE DEF base, scopes
<1>2. Len(scopes) = 2 /\ scopes[2] = <<>> /\ Len(scopes[2]) = 0 /\ DOMAIN scopes[2] = {}
  BY <1>1
<1>3. DOMAIN scopes[1] = 1..Len(ps)
  <2>1. scopes \in Seq(Seq(Entry)) /\ 1 \in 1..Len(scopes)
    BY <1>1, <1>2
  <2>2. scopes[1] \in Seq(Entry)
    BY <2>1, ElementOfSeq
  <2> QED
    BY <1>1, <2>2, LenProperties
<1>4. \A d \in 1..2 : d = 1 \/ d = 2
  OBVIOUS
<1>5. ASSUME NEW i \in 1..Len(ps) PROVE base + 8 * i <= base + 8 * Len(ps)
  BY <1>1
<1>6. Below(scopes, 2, scoped_stack_space')
  BY <1>1, <1>2, <1>3, <1>4, <1>5 DEF Below
<1>7. ASSUME NEW p \in Positions(scopes)
      PROVE  \E i \in 1..Len(ps) : p = <<1, i>>
  <2>1. PICK d \in 1..Len(scopes) : \E k \in 1..Len(scopes[d]) : p = <<d, k>>
    BY <1>1, PositionPairs
  <2>2. d = 1
    BY <1>2, <1>4, <2>1
  <2> QED
    BY <1>1, <2>1, <2>2
<1>8. ASSUME NEW p \in Positions(scopes), NEW q \in Positions(scopes), p # q,
             Stored(At(scopes, p)), Stored(At(scopes, q))
      PROVE  /\ At(scopes, p).size <= At(scopes, p).val
             /\ Slots!Apart(SlotAt(scopes, p), SlotAt(scopes, q))
  <2>1. PICK i \in 1..Len(ps) : p = <<1, i>>
    BY <1>7
  <2>2. PICK j \in 1..Len(ps) : q = <<1, j>>
    BY <1>7
  <2>3. /\ At(scopes, p) = scopes[1][i] /\ At(scopes, q) = scopes[1][j]
        /\ i # j
    BY <1>8, <2>1, <2>2 DEF At
  <2> DEFINE a == scopes[1][i]
             b == scopes[1][j]
  <2>4. /\ a.val = base + 8 * i /\ b.val = base + 8 * j
        /\ a.size \in Nat /\ b.size \in Nat /\ a.size <= 8 /\ b.size <= 8
    BY <1>1, <1>8, <2>3 DEF Stored, RegisterBytes
  <2> HIDE DEF a, b
  <2>5. a.val <= b.val - b.size \/ b.val <= a.val - a.size
    <3>1. CASE i < j
      BY <1>1, <2>4, <3>1
    <3>2. CASE j < i
      BY <1>1, <2>4, <3>2
    <3> QED
      BY <1>1, <2>3, <3>1, <3>2
  <2>6. a.size <= a.val
    BY <1>1, <2>4
  <2> QED
    BY <2>3, <2>5, <2>6 DEF a, b, Slots!Apart, SlotAt
<1>9. ASSUME NEW p \in Positions(scopes), Stored(At(scopes, p))
      PROVE  At(scopes, p).size <= At(scopes, p).val
  <2>1. PICK i \in 1..Len(ps) : p = <<1, i>>
    BY <1>7
  <2>2. At(scopes, p) = scopes[1][i]
    BY <2>1 DEF At
  <2>3. /\ At(scopes, p).val = base + 8 * i
        /\ At(scopes, p).size \in Nat /\ At(scopes, p).size <= 8
    BY <1>1, <1>9, <2>2 DEF Stored, RegisterBytes
  <2> QED
    BY <1>1, <2>3
<1>10. EntriesApart(scopes)
  BY <1>8, <1>9 DEF EntriesApart
<1>11. scoped_stack_space' \in Nat
  BY <1>1
<1> QED
  BY <1>1, <1>2, <1>6, <1>10, <1>11 DEF scopes

\* A declared variable is granted bytes above every slot of the scopes open.
LEMMA DeclaredApart ==
  ASSUME TypeOK, CallsNested, ScopesNested, MarksHold, EntriesApart(local_vars),
         NEW n \in Names, NEW size \in Sizes, NEW es \in EnumLists, VarDecl(n, size, es)
  PROVE  /\ EntriesApart(local_vars')
         /\ Below(local_vars', Len(local_vars), scoped_stack_space')
         /\ \A m \in 0..(Len(local_vars) - 1) : \A mark :
              Below(local_vars, m, mark) => Below(local_vars', m, mark)
         /\ \A p \in Positions(local_vars) :
              p \in Positions(local_vars') /\ At(local_vars', p) = At(local_vars, p)
<1> DEFINE D == Len(local_vars)
           old == local_vars
           new == local_vars'
           last == Len(old[D]) + Len(es) + 1
           grown == scoped_stack_space + size
<1>1. /\ D \in Nat \ {0} /\ new \in Seq(Seq(Entry)) /\ Len(new) = D
      /\ \A d \in 1..D : d # D => new[d] = old[d]
      /\ Len(old[D]) \in Nat /\ last - 1 \in Nat /\ Len(new[D]) = last
      /\ \A k \in 1..Len(old[D]) : new[D][k] = old[D][k]
      /\ \A k \in (Len(old[D]) + 1)..(last - 1) : new[D][k].val = 0 /\ new[D][k].kind = "enum"
      /\ new[D][last] = [name |-> n, kind |-> "var", val |-> grown, size |-> size]
  <2>1. last - 1 = Len(old[D]) + Len(es) /\ last = (Len(old[D]) + Len(es)) + 1
    BY Declares
  <2> HIDE DEF last
  <2> QED
    BY <2>1, Declares
<1>2. /\ old \in Seq(Seq(Entry)) /\ scoped_stack_space \in Nat /\ size \in Nat
      /\ scoped_stack_space' = grown /\ grown \in Nat /\ scoped_stack_space <= grown
      /\ Below(old, D, scoped_stack_space)
  BY SemaAssumption DEF TypeOK, CallsNested, MarksHold, VarDecl, Ready, Grown
<1> HIDE DEF old, new, D, last, grown
<1>3. \A d \in 1..D : old[d] \in Seq(Entry) /\ new[d] \in Seq(Entry) /\ DOMAIN old[d] = 1..Len(old[d])
      /\ DOMAIN new[d] = 1..Len(new[d])
  <2>1. \A d \in 1..D : old[d] \in Seq(Entry) /\ new[d] \in Seq(Entry)
    BY <1>1, <1>2, ElementOfSeq DEF D, old
  <2> QED
    BY <2>1, LenProperties
\* Every position of the new scopes is an old one, an enumerator or the variable.
<1>4. ASSUME NEW d \in 1..D, NEW k \in 1..Len(new[d])
      PROVE  \/ k \in 1..Len(old[d]) /\ new[d][k] = old[d][k]
             \/ new[d][k].kind = "enum" /\ new[d][k].val = 0
             \/ d = D /\ k = last
  <2>1. CASE d # D
    BY <1>1, <2>1
  <2>2. CASE d = D
    <3>1. k \in 1..Len(old[D]) \/ k \in (Len(old[D]) + 1)..(last - 1) \/ k = last
      BY <1>1, <2>2
    <3> QED
      BY <1>1, <2>2, <3>1
  <2> QED
    BY <2>1, <2>2
<1>5. ASSUME NEW d \in 1..D, NEW k \in 1..Len(old[d])
      PROVE  old[d][k] \in Entry /\ old[d][k].val \in Nat /\ old[d][k].size \in Nat
             /\ old[d][k].val <= scoped_stack_space
  <2>1. old[d][k] \in Entry
    BY <1>3, ElementOfSeq
  <2>2. old[d][k].val <= scoped_stack_space
    BY <1>2, <1>3 DEF Below
  <2> QED
    BY <2>1, <2>2 DEF Entry
<1>6. ASSUME NEW d \in 1..D, NEW k \in 1..Len(new[d]) PROVE new[d][k].val <= grown
  <2>1. CASE k \in 1..Len(old[d]) /\ new[d][k] = old[d][k]
    <3>1. old[d][k].val \in Nat /\ old[d][k].val <= scoped_stack_space
      BY <1>5, <2>1
    <3> QED
      BY <1>2, <2>1, <3>1
  <2>2. CASE new[d][k].val = 0
    BY <1>2, <2>2
  <2>3. CASE d = D /\ k = last
    BY <1>1, <1>2, <2>3
  <2> QED
    BY <1>4, <2>1, <2>2, <2>3
<1>7. Below(new, D, grown)
  BY <1>3, <1>6 DEF Below
<1>8. ASSUME NEW m \in 0..(D - 1), NEW mark, Below(old, m, mark) PROVE Below(new, m, mark)
  <2>1. \A d \in 1..m : new[d] = old[d]
    BY <1>1
  <2> QED
    BY <1>8, <2>1, Zenon DEF Below
<1>9. ASSUME NEW p \in Positions(new), Stored(At(new, p))
      PROVE  \/ p \in Positions(old) /\ At(new, p) = At(old, p)
                /\ At(old, p).val \in Nat /\ At(old, p).val <= scoped_stack_space
             \/ p = <<D, last>> /\ At(new, p).val = grown /\ At(new, p).size = size
  <2>0. PICK d \in 1..D : \E k \in 1..Len(new[d]) : p = <<d, k>>
    BY <1>1, PositionPairs
  <2>1. PICK k \in 1..Len(new[d]) : p = <<d, k>>
    BY <2>0
  <2>2. At(new, p) = new[d][k] /\ At(old, p) = old[d][k]
    BY <2>1 DEF At
  <2>3. CASE k \in 1..Len(old[d]) /\ new[d][k] = old[d][k]
    <3>1. p \in Positions(old)
      BY <1>2, <2>1, <2>3, PositionPairs DEF old, D
    <3> QED
      BY <1>5, <2>2, <2>3, <3>1
  <2>4. CASE d = D /\ k = last
    BY <1>1, <2>1, <2>2, <2>4
  <2> QED
    BY <1>4, <1>9, <2>2, <2>3, <2>4 DEF Stored
<1>10. EntriesApart(old)
  BY DEF old
<1>11. ASSUME NEW p \in Positions(new), Stored(At(new, p))
       PROVE  At(new, p).size <= At(new, p).val
  <2>1. CASE p \in Positions(old) /\ At(new, p) = At(old, p)
    BY <1>10, <1>11, <2>1 DEF EntriesApart
  <2>2. CASE At(new, p).val = grown /\ At(new, p).size = size
    BY <1>2, <2>2 DEF grown
  <2> QED
    BY <1>9, <1>11, <2>1, <2>2
<1>12. ASSUME NEW p \in Positions(new), Stored(At(new, p)),
              NEW q \in Positions(new), Stored(At(new, q)), p # q
       PROVE  Slots!Apart(SlotAt(new, p), SlotAt(new, q))
  <2> DEFINE Old(r) == /\ r \in Positions(old) /\ At(new, r) = At(old, r)
                       /\ At(old, r).val \in Nat /\ At(old, r).val <= scoped_stack_space
             Var(r) == r = <<D, last>> /\ At(new, r).val = grown /\ At(new, r).size = size
  <2>1. (Old(p) \/ Var(p)) /\ (Old(q) \/ Var(q))
    BY <1>9, <1>12
  <2>2. CASE Old(p) /\ Old(q)
    BY <1>10, <1>12, <2>2 DEF EntriesApart, SlotAt
  <2>3. CASE Old(p) /\ Var(q)
    <3>1. At(new, p).val <= At(new, q).val - At(new, q).size
      BY <1>2, <2>3 DEF grown
    <3> QED
      BY <3>1 DEF Slots!Apart, SlotAt
  <2>4. CASE Var(p) /\ Old(q)
    <3>1. At(new, q).val <= At(new, p).val - At(new, p).size
      BY <1>2, <2>4 DEF grown
    <3> QED
      BY <3>1 DEF Slots!Apart, SlotAt
  <2>5. CASE Var(p) /\ Var(q)
    BY <1>12, <2>5
  <2> QED
    BY <2>1, <2>2, <2>3, <2>4, <2>5
<1>13. EntriesApart(new)
  BY <1>11, <1>12 DEF EntriesApart
<1>14. ASSUME NEW p \in Positions(old)
       PROVE  p \in Positions(new) /\ At(new, p) = At(old, p)
  <2>1. PICK d \in 1..D : \E k \in 1..Len(old[d]) : p = <<d, k>>
    BY <1>2, PositionPairs DEF D, old
  <2>2. PICK k \in 1..Len(old[d]) : p = <<d, k>>
    BY <2>1
  <2>3. k \in 1..Len(new[d]) /\ new[d][k] = old[d][k]
    <3>1. CASE d = D
      <4>1. k \in 1..last
        BY <1>1, <2>2, <3>1 DEF last
      <4> QED
        BY <1>1, <3>1, <4>1
    <3>2. CASE d # D
      BY <1>1, <3>2
    <3> QED
      BY <3>1, <3>2
  <2> QED
    BY <1>1, <2>2, <2>3, PositionPairs DEF At
<1> QED
  BY <1>2, <1>7, <1>8, <1>13, <1>14 DEF new, old, D

-----------------------------------------------------------------------------
(* The inductive invariant.                                                *)

\* It holds when main has parsed the program and analysed nothing yet.
LEMMA InitIInv == Init => IInv
<1> SUFFICES ASSUME Init PROVE IInv
  OBVIOUS
<1> USE DEF Init
<1>1. MaxFuncs \in Nat
  BY SemaAssumption
<1>2. /\ <<>> \in Seq(Activation) /\ <<>> \in Seq(Seq(Entry)) /\ <<>> \in Seq(Label)
      /\ Len(<<>>) = 0 /\ DOMAIN <<>> = {}
  BY EmptySeq
<1>3. TypeOK
  BY <1>1, <1>2 DEF TypeOK
<1>4. CallsNested /\ ScopesNested /\ MarksHold /\ LabelsUsedUp
  BY <1>2 DEF CallsNested, ScopesNested, MarksHold, LabelsUsedUp
<1>5. JumpTargets
  <2>1. ASSUME NEW K PROVE Follows(<<>>, <<>>, K)
    <3>1. CountTo(<<>>, 0, K) = 0
      BY CountStep, 0 \in Nat
    <3> QED
      BY <1>2, <3>1 DEF Follows
  <2> QED
    BY <2>1 DEF JumpTargets
<1> QED
  BY <1>3, <1>4, <1>5 DEF IInv

\* Every effect keeps the calls, scopes, marks and label stacks well-formed.
LEMMA QuietKeeps ==
  ASSUME IInv, [Next]_vars, Quiet, phase' = "body" => phase = "body" /\ todo' > 0,
         phase' = "next" => phase = "next"
  PROVE  /\ calls' \in Seq(Activation)
         /\ CallsNested' /\ JumpTargets' /\ ScopesNested' /\ MarksHold'
         /\ (calls # <<>> => EntriesApart(local_vars))'
<1>1. /\ calls \in Seq(Activation) /\ calls' \in Seq(Activation) /\ Alike(calls, calls')
      /\ Len(calls) = Len(calls') /\ Len(calls) \in Nat
      /\ UNCHANGED <<local_vars, scoped_stack_space, max_scoped_stack_space,
                     break_labels, continue_labels>>
  BY DEF IInv, TypeOK, Quiet, Alike, space, targets
<1>2. \A i \in 1..Len(calls) : /\ calls'[i].kind = calls[i].kind
                               /\ calls'[i].label = calls[i].label
                               /\ calls'[i].saved = calls[i].saved
  BY <1>1 DEF Alike
<1>3. calls' = <<>> <=> calls = <<>>
  BY <1>1
<1>4. \A i \in 0..Len(calls) : CountTo(calls', i, Scoping) = CountTo(calls, i, Scoping)
  BY <1>1, CountAlike
<1>5. CallsNested'
  <2>1. calls' # <<>> => calls'[1].kind = "block"
    BY <1>1, <1>2, <1>3 DEF IInv, CallsNested
  <2>2. ASSUME NEW i \in DOMAIN calls'
        PROVE /\ calls'[i].kind \in Breakable => calls'[i].label \in Label
              /\ calls'[i].kind \in Restoring => calls'[i].saved <= max_scoped_stack_space'
    BY <1>1, <1>2 DEF IInv, CallsNested
  <2> QED
    BY <1>3, <2>1, <2>2 DEF IInv, CallsNested
<1>6. JumpTargets'
  BY <1>1, <1>2, FollowsSame DEF IInv, JumpTargets
<1>7. ScopesNested'
  BY <1>1, <1>3, <1>4 DEF IInv, ScopesNested
<1>8. MarksHold'
  <2>1. ASSUME calls' # <<>>, NEW i \in DOMAIN calls', calls'[i].kind \in Restoring
        PROVE  Below(local_vars', CountTo(calls', i, Scoping), calls'[i].saved)
    <3>1. i \in DOMAIN calls /\ calls[i].kind \in Restoring /\ calls # <<>>
          /\ CountTo(calls', i, Scoping) = CountTo(calls, i, Scoping)
          /\ calls'[i].saved = calls[i].saved
      BY <1>1, <1>2, <1>3, <1>4, <2>1
    <3> QED
      BY <1>1, <3>1 DEF IInv, MarksHold
  <2>2. calls' # <<>> => Below(local_vars', Len(local_vars'), scoped_stack_space')
    BY <1>1, <1>3 DEF IInv, MarksHold
  <2> QED
    BY <2>1, <2>2 DEF MarksHold
<1> QED
  BY <1>1, <1>3, <1>5, <1>6, <1>7, <1>8 DEF IInv

\* Opening a construct: a block or for marks the allocation reached so far, and
\* the slots of all scopes already open lie below it.
LEMMA PushKeeps ==
  ASSUME IInv, NEW a \in Activation, Push(a), todo' > 0
  PROVE  /\ calls' \in Seq(Activation) /\ local_vars' \in Seq(Seq(Entry))
         /\ break_labels' \in Seq(Label) /\ continue_labels' \in Seq(Label)
         /\ CallsNested' /\ JumpTargets' /\ ScopesNested' /\ MarksHold'
         /\ (calls # <<>> => EntriesApart(local_vars))'
<1> DEFINE s == Counted
<1>1. /\ calls \in Seq(Activation) /\ s \in Seq(Activation) /\ Alike(calls, s)
      /\ Len(calls) = Len(s) /\ Len(calls) \in Nat \ {0}
      /\ local_vars \in Seq(Seq(Entry))
      /\ break_labels \in Seq(Label) /\ continue_labels \in Seq(Label)
      /\ scoped_stack_space \in Nat /\ max_scoped_stack_space \in Nat
      /\ scoped_stack_space <= max_scoped_stack_space
      /\ UNCHANGED <<scoped_stack_space, max_scoped_stack_space>>
  BY DEF IInv, TypeOK, CallsNested, Push, Alike, space
<1>2. calls' = Append(s, a) /\ phase' = "body"
  BY DEF Push
<1> HIDE DEF s
<1>3. /\ calls' \in Seq(Activation) /\ Len(calls') = Len(calls) + 1
      /\ \A i \in 1..Len(calls) : /\ calls'[i].kind = calls[i].kind
                                  /\ calls'[i].label = calls[i].label
                                  /\ calls'[i].saved = calls[i].saved
      /\ calls'[Len(calls) + 1] = a
  <2>1. /\ calls' \in Seq(Activation) /\ Len(calls') = Len(s) + 1
        /\ \A i \in 1..Len(s) : calls'[i] = s[i]
        /\ calls'[Len(s) + 1] = a
    BY <1>1, <1>2, AppendProperties
  <2> QED
    BY <1>1, <2>1 DEF Alike
<1>4. /\ \A i \in 0..Len(calls) : CountTo(calls', i, Scoping) = CountTo(calls, i, Scoping)
      /\ CountTo(calls', Len(calls'), Scoping)
           = CountTo(calls, Len(calls), Scoping) + (IF a.kind \in Scoping THEN 1 ELSE 0)
  <2>1. \A i \in 0..Len(calls) : CountTo(s, i, Scoping) = CountTo(calls, i, Scoping)
    BY <1>1, CountAlike
  <2>2. /\ \A i \in 0..Len(s) : CountTo(calls', i, Scoping) = CountTo(s, i, Scoping)
        /\ CountTo(calls', Len(s) + 1, Scoping)
             = CountTo(s, Len(s), Scoping) + (IF a.kind \in Scoping THEN 1 ELSE 0)
    <3>1. s \in Seq(Activation)
      BY <1>1
    <3>2. /\ \A i \in 0..Len(s) : CountTo(Append(s, a), i, Scoping) = CountTo(s, i, Scoping)
          /\ CountTo(Append(s, a), Len(s) + 1, Scoping)
               = CountTo(s, Len(s), Scoping) + (IF a.kind \in Scoping THEN 1 ELSE 0)
      BY <3>1, CountPush
    <3> QED
      BY <1>2, <3>2
  <2>3. Len(calls') = Len(s) + 1 /\ Len(s) \in 0..Len(calls)
    BY <1>1, <1>3
  <2> QED
    BY <1>1, <2>1, <2>2, <2>3
<1>5. /\ a.kind \in Breakable => a.label \in Label
      /\ a.kind \in Restoring => a.saved = scoped_stack_space
      /\ break_labels' = IF a.kind \in Breakable THEN Append(break_labels, a.label)
                         ELSE break_labels
      /\ continue_labels' = IF a.kind \in Loops THEN Append(continue_labels, a.label)
                            ELSE continue_labels
      /\ a.kind \in Loops => a.kind \in Breakable
  BY DEF Push, Breakable
<1>6. break_labels' \in Seq(Label) /\ continue_labels' \in Seq(Label)
  BY <1>1, <1>5, AppendProperties
<1>7. JumpTargets'
  <2>1. Follows(break_labels, s, Breakable) /\ Follows(continue_labels, s, Loops)
    BY <1>1, FollowsSame DEF IInv, JumpTargets, Alike
  <2>2. Follows(break_labels', Append(s, a), Breakable)
    BY <1>1, <1>5, <2>1, FollowsPush
  <2>3. Follows(continue_labels', Append(s, a), Loops)
    BY <1>1, <1>5, <2>1, FollowsPush
  <2> QED
    BY <1>2, <2>2, <2>3 DEF JumpTargets
<1>8. CallsNested'
  <2>1. calls' # <<>> /\ calls'[1].kind = "block"
    BY <1>1, <1>3 DEF IInv, CallsNested
  <2>2. ASSUME NEW i \in DOMAIN calls'
        PROVE  /\ calls'[i].kind \in Breakable => calls'[i].label \in Label
               /\ calls'[i].kind \in Restoring => calls'[i].saved <= max_scoped_stack_space'
    <3>1. CASE i \in 1..Len(calls)
      BY <1>1, <1>3, <3>1 DEF IInv, CallsNested
    <3>2. CASE i = Len(calls) + 1
      BY <1>1, <1>3, <1>5, <3>2
    <3> QED
      BY <1>1, <1>3, <3>1, <3>2
  <2> QED
    BY <1>2, <2>1, <2>2 DEF CallsNested
<1>9. /\ CountTo(calls, Len(calls), Scoping) \in Nat
      /\ Len(local_vars) = 1 + CountTo(calls, Len(calls), Scoping)
      /\ Len(local_vars) \in Nat
      /\ EntriesApart(local_vars)
      /\ Below(local_vars, Len(local_vars), scoped_stack_space)
  BY <1>1, CountStep DEF IInv, ScopesNested, MarksHold
\* The scopes after the step: those marked stay below their marks.
<1>10. /\ local_vars' \in Seq(Seq(Entry)) /\ EntriesApart(local_vars')
       /\ Len(local_vars') = Len(local_vars) + (IF a.kind \in Scoping THEN 1 ELSE 0)
       /\ Below(local_vars', Len(local_vars'), scoped_stack_space)
       /\ \A n \in 0..Len(local_vars) : \A mark :
            Below(local_vars, n, mark) => Below(local_vars', n, mark)
  <2>1. CASE a.kind \in Scoping
    <3>1. local_vars' = Append(local_vars, <<>>)
      BY <2>1 DEF Push
    <3> QED
      BY <1>1, <1>9, <2>1, <3>1, ScopeOpened
  <2>2. CASE a.kind \notin Scoping
    <3>1. local_vars' = local_vars
      BY <2>2 DEF Push
    <3> QED
      BY <1>1, <1>9, <2>2, <3>1
  <2> QED
    BY <2>1, <2>2
<1>11. ScopesNested'
  BY <1>4, <1>9, <1>10 DEF ScopesNested
<1>12. MarksHold'
  <2>1. ASSUME NEW i \in DOMAIN calls', calls'[i].kind \in Restoring
        PROVE  Below(local_vars', CountTo(calls', i, Scoping), calls'[i].saved)
    <3>1. CASE i \in 1..Len(calls)
      <4>1. Below(local_vars, CountTo(calls, i, Scoping), calls[i].saved)
        BY <1>1, <1>3, <2>1, <3>1 DEF IInv, MarksHold
      <4>2. CountTo(calls, i, Scoping) \in 0..Len(local_vars)
        <5>1. i \in Nat /\ Len(calls) \in Nat /\ i <= Len(calls)
          BY <1>1, <3>1
        <5>2. CountTo(calls, i, Scoping) \in Nat
              /\ CountTo(calls, i, Scoping) <= CountTo(calls, Len(calls), Scoping)
          BY <5>1, CountStep, CountMonotonic
        <5> QED
          BY <1>9, <5>2
      <4>3. CountTo(calls', i, Scoping) = CountTo(calls, i, Scoping)
            /\ calls'[i].saved = calls[i].saved
        BY <1>3, <1>4, <3>1
      <4> QED
        BY <1>10, <4>1, <4>2, <4>3
    <3>2. CASE i = Len(calls) + 1
      <4>1. a.kind \in Scoping /\ a.kind \in Restoring /\ calls'[i] = a
        BY <1>3, <2>1, <3>2 DEF Restoring, Scoping
      <4>2. CountTo(calls', i, Scoping) = Len(local_vars)
        BY <1>3, <1>4, <1>9, <3>2, <4>1
      <4>3. Len(local_vars) \in 0..Len(local_vars)
        BY <1>9
      <4> QED
        BY <1>5, <1>9, <1>10, <4>1, <4>2, <4>3
    <3> QED
      BY <1>1, <1>3, <3>1, <3>2
  <2> QED
    BY <1>1, <1>10, <2>1 DEF MarksHold
<1> QED
  BY <1>3, <1>6, <1>7, <1>8, <1>10, <1>11, <1>12

\* Leaving a construct: the mark it reverts to covers the scopes that stay open.
LEMMA PopKeeps ==
  ASSUME IInv, Pop, todo' > 0
  PROVE  /\ calls' \in Seq(Activation) /\ local_vars' \in Seq(Seq(Entry))
         /\ break_labels' \in Seq(Label) /\ continue_labels' \in Seq(Label)
         /\ scoped_stack_space' \in Nat /\ max_scoped_stack_space' = max_scoped_stack_space
         /\ scoped_stack_space' <= max_scoped_stack_space
         /\ CallsNested' /\ JumpTargets' /\ ScopesNested' /\ MarksHold'
         /\ (calls # <<>> => EntriesApart(local_vars))'
<1> DEFINE top == Last(calls)
           N == Len(calls)
<1>1. /\ calls \in Seq(Activation) /\ calls # <<>> /\ N \in Nat /\ N > 1
      /\ local_vars \in Seq(Seq(Entry))
      /\ break_labels \in Seq(Label) /\ continue_labels \in Seq(Label)
      /\ scoped_stack_space \in Nat /\ max_scoped_stack_space \in Nat
      /\ scoped_stack_space <= max_scoped_stack_space
      /\ max_scoped_stack_space' = max_scoped_stack_space
  BY DEF IInv, TypeOK, CallsNested, Pop
<1>2. /\ calls' \in Seq(Activation) /\ Len(calls') = N - 1
      /\ \A i \in 1..(N - 1) : calls'[i] = calls[i]
      /\ top = calls[N] /\ top \in Activation
  BY <1>1, FrontLast DEF Pop
<1>3. /\ \A i \in 0..(N - 1) : CountTo(calls', i, Scoping) = CountTo(calls, i, Scoping)
      /\ CountTo(calls, N, Scoping)
           = CountTo(calls, N - 1, Scoping) + (IF top.kind \in Scoping THEN 1 ELSE 0)
      /\ CountTo(calls, N, Scoping) \in Nat /\ CountTo(calls, N - 1, Scoping) \in Nat
  <2>1. /\ \A i \in 0..(N - 1) : CountTo(Front(calls), i, Scoping) = CountTo(calls, i, Scoping)
        /\ CountTo(calls, N, Scoping)
             = CountTo(calls, N - 1, Scoping) + (IF top.kind \in Scoping THEN 1 ELSE 0)
    BY <1>1, CountPop
  <2>2. N \in Nat /\ N - 1 \in Nat
    BY <1>1
  <2>3. CountTo(calls, N, Scoping) \in Nat
    BY <2>2, CountStep
  <2>4. CountTo(calls, N - 1, Scoping) \in Nat
    BY <2>2, CountStep
  <2> QED
    BY <2>1, <2>3, <2>4 DEF Pop
<1>4. /\ Len(local_vars) = 1 + CountTo(calls, N, Scoping)
      /\ EntriesApart(local_vars)
      /\ Below(local_vars, Len(local_vars), scoped_stack_space)
      /\ \A i \in 1..N : calls[i].kind \in Restoring =>
           Below(local_vars, CountTo(calls, i, Scoping), calls[i].saved)
      /\ \A i \in 1..N : /\ calls[i].kind \in Breakable => calls[i].label \in Label
                         /\ calls[i].kind \in Restoring => calls[i].saved <= max_scoped_stack_space
      /\ calls[1].kind = "block"
  BY <1>1 DEF IInv, ScopesNested, MarksHold, CallsNested
<1>5. /\ break_labels' = IF top.kind \in Breakable THEN Front(break_labels) ELSE break_labels
      /\ continue_labels' = IF top.kind \in Loops THEN Front(continue_labels)
                            ELSE continue_labels
      /\ Follows(break_labels, calls, Breakable) /\ Follows(continue_labels, calls, Loops)
  BY DEF Pop, IInv, JumpTargets
<1>6. /\ Follows(break_labels', Front(calls), Breakable)
      /\ top.kind \in Breakable => break_labels # <<>>
  BY <1>1, <1>5, FollowsPop
<1>7. /\ Follows(continue_labels', Front(calls), Loops)
      /\ top.kind \in Loops => continue_labels # <<>>
  BY <1>1, <1>5, FollowsPop
<1>8. break_labels' \in Seq(Label) /\ continue_labels' \in Seq(Label)
  BY <1>1, <1>5, <1>6, <1>7, FrontLast
<1>9. JumpTargets'
  BY <1>6, <1>7 DEF JumpTargets, Pop
<1>10. CallsNested'
  <2>1. calls' # <<>> /\ calls'[1].kind = "block" /\ phase' = "body"
    BY <1>1, <1>2, <1>4 DEF Pop
  <2>2. ASSUME NEW i \in DOMAIN calls'
        PROVE  /\ calls'[i].kind \in Breakable => calls'[i].label \in Label
               /\ calls'[i].kind \in Restoring => calls'[i].saved <= max_scoped_stack_space'
    <3>1. DOMAIN calls' = 1..Len(calls')
      BY <1>2, LenProperties
    <3>2. i \in 1..N /\ calls'[i] = calls[i]
      BY <1>1, <1>2, <3>1
    <3> QED
      BY <1>1, <1>4, <3>2
  <2> QED
    BY <2>1, <2>2 DEF CallsNested
\* The scopes after the step.
<1>11. /\ local_vars' \in Seq(Seq(Entry)) /\ EntriesApart(local_vars')
       /\ Len(local_vars') = 1 + CountTo(calls, N - 1, Scoping)
       /\ \A n \in 0..Len(local_vars') : \A mark :
            Below(local_vars, n, mark) => Below(local_vars', n, mark)
  <2>1. CASE top.kind \in Scoping
    <3>1. local_vars' = Front(local_vars) /\ local_vars # <<>>
      BY <1>3, <1>4, <2>1 DEF Pop
    <3>2. /\ local_vars' \in Seq(Seq(Entry)) /\ Len(local_vars') = Len(local_vars) - 1
          /\ EntriesApart(local_vars')
          /\ \A n \in 0..Len(local_vars') : \A mark :
               Below(local_vars, n, mark) => Below(local_vars', n, mark)
      BY <1>1, <1>4, <3>1, ScopeLeft
    <3> QED
      BY <1>3, <1>4, <2>1, <3>2
  <2>2. CASE top.kind \notin Scoping
    <3>1. local_vars' = local_vars
      BY <2>2 DEF Pop
    <3> QED
      BY <1>1, <1>3, <1>4, <2>2, <3>1
  <2> QED
    BY <2>1, <2>2
<1>12. ScopesNested'
  <2>1. CountTo(calls', Len(calls'), Scoping) = CountTo(calls, N - 1, Scoping)
    BY <1>1, <1>2, <1>3
  <2> QED
    BY <1>11, <2>1 DEF ScopesNested
<1>13. /\ scoped_stack_space' \in Nat /\ scoped_stack_space' <= max_scoped_stack_space
       /\ Below(local_vars', Len(local_vars'), scoped_stack_space')
  <2>0. Len(local_vars') \in 0..Len(local_vars')
    BY <1>3, <1>11
  <2>1. CASE top.kind \in Restoring
    <3>1. scoped_stack_space' = top.saved /\ top.kind \in Scoping
      BY <2>1 DEF Pop, Restoring, Scoping
    <3>2. Len(local_vars') = CountTo(calls, N, Scoping)
      BY <1>3, <1>11, <3>1
    <3>3. Below(local_vars, Len(local_vars'), top.saved) /\ top.saved <= max_scoped_stack_space
      BY <1>1, <1>2, <1>4, <2>1, <3>2
    <3>4. top.saved \in Nat
      BY <1>2 DEF Activation
    <3> QED
      BY <1>11, <2>0, <3>1, <3>3, <3>4
  <2>2. CASE top.kind \notin Restoring
    <3>1. scoped_stack_space' = scoped_stack_space
      BY <2>2 DEF Pop
    <3>2. Len(local_vars') <= Len(local_vars)
      BY <1>3, <1>4, <1>11
    <3>3. Below(local_vars, Len(local_vars'), scoped_stack_space)
      BY <1>3, <1>4, <1>11, <3>2 DEF Below
    <3> QED
      BY <1>1, <1>11, <2>0, <3>1, <3>3
  <2> QED
    BY <2>1, <2>2
<1>14. MarksHold'
  <2>1. ASSUME NEW i \in DOMAIN calls', calls'[i].kind \in Restoring
        PROVE  Below(local_vars', CountTo(calls', i, Scoping), calls'[i].saved)
    <3>1. i \in Nat /\ N - 1 \in Nat /\ i <= N - 1 /\ i \in 1..N /\ i \in 0..(N - 1)
          /\ calls'[i] = calls[i]
      <4>1. DOMAIN calls' = 1..Len(calls')
        BY <1>2, LenProperties
      <4> QED
        BY <1>1, <1>2, <4>1
    <3>2. /\ CountTo(calls, i, Scoping) \in Nat
          /\ CountTo(calls, i, Scoping) <= CountTo(calls, N - 1, Scoping)
      BY <3>1, CountStep, CountMonotonic
    <3>3. CountTo(calls, i, Scoping) \in 0..Len(local_vars')
      BY <1>3, <1>11, <3>2
    <3>4. Below(local_vars, CountTo(calls, i, Scoping), calls[i].saved)
      BY <1>4, <2>1, <3>1
    <3> QED
      BY <1>3, <1>11, <3>1, <3>3, <3>4
  <2> QED
    BY <1>13, <2>1 DEF MarksHold
<1> QED
  BY <1>1, <1>2, <1>8, <1>9, <1>10, <1>11, <1>12, <1>13, <1>14

\* The one call of a function's outermost block opens a scope and no target.
LEMMA SingleBlock ==
  ASSUME NEW a, a.kind = "block"
  PROVE  /\ CountTo(<<a>>, 1, Scoping) = 1
         /\ CountTo(<<a>>, 1, Breakable) = 0 /\ CountTo(<<a>>, 1, Loops) = 0
         /\ Follows(<<>>, <<a>>, Breakable) /\ Follows(<<>>, <<a>>, Loops)
<1>1. <<a>>[1].kind = "block" /\ DOMAIN <<a>> = {1} /\ Len(<<a>>) = 1 /\ Len(<<>>) = 0
  OBVIOUS
<1>2. ASSUME NEW K
      PROVE  CountTo(<<a>>, 1, K) = IF "block" \in K THEN 1 ELSE 0
  <2>1. CountTo(<<a>>, 0, K) = 0 /\ CountTo(<<a>>, 0 + 1, K) = CountTo(<<a>>, 0, K)
                                   + (IF <<a>>[0 + 1].kind \in K THEN 1 ELSE 0)
    BY 0 \in Nat, CountStep
  <2>2. 0 + 1 = 1
    OBVIOUS
  <2> QED
    BY <1>1, <2>1, <2>2
<1>3. "block" \in Scoping /\ "block" \notin Breakable /\ "block" \notin Loops
  BY DEF Scoping, Breakable, Loops
<1>4. ASSUME NEW K, "block" \notin K PROVE Follows(<<>>, <<a>>, K)
  <2>1. CountTo(<<a>>, 1, K) = 0
    BY <1>2, <1>4
  <2>2. <<a>>[1].kind \notin K
    BY <1>1, <1>4
  <2> QED
    BY <1>1, <2>1, <2>2 DEF Follows
<1> QED
  BY <1>2, <1>3, <1>4

\* Entering a function: the parameters are below the mark of its block.
LEMMA StartKeeps ==
  ASSUME IInv, NEW ps \in ParamLists, NEW varargs \in BOOLEAN, SemaFunc(ps, varargs)
  PROVE  /\ calls' \in Seq(Activation) /\ local_vars' \in Seq(Seq(Entry))
         /\ break_labels' \in Seq(Label) /\ continue_labels' \in Seq(Label)
         /\ scoped_stack_space' \in Nat /\ max_scoped_stack_space' = scoped_stack_space'
         /\ CallsNested' /\ JumpTargets' /\ ScopesNested' /\ MarksHold'
         /\ (calls # <<>> => EntriesApart(local_vars))'
<1> DEFINE used == scoped_stack_space'
           a == [kind |-> "block", label |-> NoLabel, saved |-> used, left |-> 0]
<1>1. /\ EntriesApart(local_vars') /\ Below(local_vars', 2, used)
      /\ Len(local_vars') = 2 /\ local_vars' \in Seq(Seq(Entry))
      /\ used \in Nat /\ max_scoped_stack_space' = used
  BY ParamsApart
<1>2. /\ calls' = <<a>> /\ break_labels' = <<>> /\ continue_labels' = <<>>
      /\ phase' = "body" /\ todo' = todo /\ todo > 0
  BY DEF SemaFunc
<1>3. /\ a \in Activation /\ a.kind = "block" /\ a.saved = used /\ "block" \notin Breakable
  BY <1>1 DEF Activation, Kinds, Breakable, Loops
<1> HIDE DEF a, used
<1>4. /\ calls' \in Seq(Activation) /\ DOMAIN calls' = {1} /\ Len(calls') = 1 /\ calls'[1] = a
      /\ calls' # <<>>
  BY <1>2, <1>3
<1>5. break_labels' \in Seq(Label) /\ continue_labels' \in Seq(Label)
  BY <1>2, EmptySeq
<1>6. JumpTargets' /\ CountTo(calls', 1, Scoping) = 1
  BY <1>2, <1>3, SingleBlock DEF JumpTargets
<1>7. ScopesNested'
  BY <1>1, <1>4, <1>6 DEF ScopesNested
<1>8. CallsNested'
  <2>1. used <= used
    BY <1>1
  <2> QED
    BY <1>1, <1>2, <1>3, <1>4, <2>1 DEF CallsNested
<1>9. MarksHold'
  <2>1. Below(local_vars', 1, used)
    BY <1>1 DEF Below
  <2>2. Below(local_vars', Len(local_vars'), used)
    BY <1>1
  <2>3. \A i \in DOMAIN calls' : i = 1
    BY <1>4
  <2> QED
    BY <1>3, <1>4, <1>6, <2>1, <2>2, <2>3 DEF MarksHold, used
<1> QED
  BY <1>1, <1>4, <1>5, <1>6, <1>7, <1>8, <1>9 DEF used

\* Leaving a function: the label stacks are empty again.
LEMMA FinishKeeps ==
  ASSUME IInv, FinishFunc
  PROVE  /\ calls' \in Seq(Activation) /\ local_vars' \in Seq(Seq(Entry))
         /\ scoped_stack_space' \in Nat /\ scoped_stack_space' <= max_scoped_stack_space
         /\ UNCHANGED <<max_scoped_stack_space, break_labels, continue_labels>>
         /\ CallsNested' /\ JumpTargets' /\ ScopesNested' /\ MarksHold'
         /\ (calls # <<>> => EntriesApart(local_vars))'
<1>1. /\ calls \in Seq(Activation) /\ Len(calls) = 1 /\ calls # <<>>
      /\ local_vars \in Seq(Seq(Entry))
      /\ break_labels \in Seq(Label) /\ continue_labels \in Seq(Label)
      /\ calls[1].kind = "block"
  BY DEF IInv, TypeOK, CallsNested, FinishFunc
<1>2. calls' = <<>> /\ calls' \in Seq(Activation) /\ phase' = "next"
      /\ UNCHANGED <<max_scoped_stack_space, break_labels, continue_labels>>
      /\ scoped_stack_space' = calls[1].saved /\ local_vars' = Front(local_vars)
  BY DEF FinishFunc, targets
<1>3. calls[1] \in Activation /\ calls = <<calls[1]>>
  BY <1>1, ElementOfSeq
<1>4. /\ CountTo(calls, 1, Scoping) = 1
      /\ CountTo(calls, 1, Breakable) = 0 /\ CountTo(calls, 1, Loops) = 0
  BY <1>1, <1>3, SingleBlock
<1>5. Len(local_vars) = 2
  BY <1>1, <1>4 DEF IInv, ScopesNested
<1>6. local_vars' \in Seq(Seq(Entry))
  <2>1. local_vars # <<>> /\ local_vars \in Seq(Seq(Entry))
    BY <1>1, <1>5
  <2>2. Front(local_vars) \in Seq(Seq(Entry))
    BY <2>1, FrontLast
  <2> QED
    BY <1>2, <2>2
<1>7. scoped_stack_space' \in Nat /\ scoped_stack_space' <= max_scoped_stack_space
  <2>1. calls[1].saved \in Nat
    BY <1>3 DEF Activation
  <2>2. calls[1].saved <= max_scoped_stack_space
    BY <1>1 DEF IInv, CallsNested, Restoring
  <2> QED
    BY <1>2, <2>1, <2>2
<1>8. JumpTargets'
  <2>1. Len(break_labels) = 0 /\ Len(continue_labels) = 0
    BY <1>1, <1>4 DEF IInv, JumpTargets, Follows
  <2>2. ASSUME NEW K PROVE CountTo(<<>>, 0, K) = 0
    BY CountStep, 0 \in Nat
  <2>3. Len(<<>>) = 0 /\ DOMAIN <<>> = {}
    OBVIOUS
  <2> QED
    BY <1>2, <2>1, <2>2, <2>3 DEF JumpTargets, Follows
<1>9. CallsNested'
  BY <1>2 DEF CallsNested
<1> QED
  BY <1>2, <1>6, <1>7, <1>8, <1>9 DEF ScopesNested, MarksHold

\* A declaration leaves the calls as they are and its slot above every other.
LEMMA DeclKeeps ==
  ASSUME IInv, todo' > 0,
         NEW n \in Names, NEW size \in Sizes, NEW es \in EnumLists, VarDecl(n, size, es)
  PROVE  /\ calls' \in Seq(Activation) /\ local_vars' \in Seq(Seq(Entry))
         /\ scoped_stack_space' \in Nat /\ max_scoped_stack_space' \in Nat
         /\ scoped_stack_space' <= max_scoped_stack_space'
         /\ UNCHANGED <<break_labels, continue_labels>>
         /\ CallsNested' /\ JumpTargets' /\ ScopesNested' /\ MarksHold'
         /\ (calls # <<>> => EntriesApart(local_vars))'
<1>1. /\ calls \in Seq(Activation) /\ calls # <<>> /\ EntriesApart(local_vars)
      /\ calls' = Counted /\ Counted \in Seq(Activation) /\ Alike(calls, Counted)
      /\ UNCHANGED <<phase, break_labels, continue_labels>> /\ phase = "body"
  BY CountedAlike DEF IInv, TypeOK, CallsNested, VarDecl, Ready, targets
<1>2. /\ Len(calls') = Len(calls) /\ Len(calls) \in Nat \ {0}
      /\ \A i \in 1..Len(calls) : /\ calls'[i].kind = calls[i].kind
                                  /\ calls'[i].label = calls[i].label
                                  /\ calls'[i].saved = calls[i].saved
  BY <1>1 DEF Alike
<1>3. /\ scoped_stack_space \in Nat /\ size \in Nat /\ max_scoped_stack_space \in Nat
      /\ scoped_stack_space <= max_scoped_stack_space
      /\ scoped_stack_space' = scoped_stack_space + size
      /\ max_scoped_stack_space' = Raised(scoped_stack_space + size)
  BY SemaAssumption DEF IInv, TypeOK, VarDecl, Grown
<1>4. /\ scoped_stack_space' \in Nat /\ max_scoped_stack_space' \in Nat
      /\ scoped_stack_space' <= max_scoped_stack_space'
      /\ max_scoped_stack_space <= max_scoped_stack_space'
  BY <1>3 DEF Raised
<1>5. /\ EntriesApart(local_vars')
      /\ Below(local_vars', Len(local_vars), scoped_stack_space')
      /\ \A m \in 0..(Len(local_vars) - 1) : \A mark :
           Below(local_vars, m, mark) => Below(local_vars', m, mark)
  BY <1>1, DeclaredApart DEF IInv
<1>6. local_vars' \in Seq(Seq(Entry)) /\ Len(local_vars') = Len(local_vars)
      /\ Len(local_vars) \in Nat \ {0}
  BY Declares DEF IInv
<1>7. ASSUME NEW i \in 0..Len(calls)
      PROVE  /\ CountTo(calls', i, Scoping) = CountTo(calls, i, Scoping)
             /\ CountTo(calls, i, Scoping) \in Nat
             /\ CountTo(calls, i, Scoping) <= CountTo(calls, Len(calls), Scoping)
  <2>1. i \in Nat /\ Len(calls) \in Nat /\ i <= Len(calls)
    BY <1>2
  <2>2. CountTo(calls, i, Scoping) \in Nat
    BY <2>1, CountStep
  <2>3. CountTo(calls, i, Scoping) <= CountTo(calls, Len(calls), Scoping)
    BY <2>1, CountMonotonic
  <2>4. CountTo(calls', i, Scoping) = CountTo(calls, i, Scoping)
    BY <1>1, CountAlike
  <2> QED
    BY <2>2, <2>3, <2>4
<1>8. Len(local_vars) = 1 + CountTo(calls, Len(calls), Scoping)
  BY <1>1 DEF IInv, ScopesNested
<1>9. ScopesNested'
  <2>1. CountTo(calls', Len(calls'), Scoping) = CountTo(calls, Len(calls), Scoping)
    BY <1>2, <1>7
  <2> QED
    BY <1>6, <1>8, <2>1 DEF ScopesNested
<1>10. JumpTargets'
  BY <1>1, FollowsSame DEF IInv, JumpTargets, Alike
<1>11. CallsNested'
  <2>1. calls' # <<>> /\ calls'[1].kind = "block"
    BY <1>1, <1>2 DEF IInv, CallsNested
  <2>2. ASSUME NEW i \in DOMAIN calls'
        PROVE  /\ calls'[i].kind \in Breakable => calls'[i].label \in Label
               /\ calls'[i].kind \in Restoring => calls'[i].saved <= max_scoped_stack_space'
    <3>1. i \in 1..Len(calls) /\ i \in DOMAIN calls
      BY <1>1, <1>2, LenProperties
    <3>2. calls[i] \in Activation
      BY <1>1, <3>1, ElementOfSeq
    <3>3. calls[i].saved \in Nat
      BY <3>2 DEF Activation
    <3> QED
      BY <1>2, <1>3, <1>4, <3>1, <3>3 DEF IInv, CallsNested
  <2> QED
    BY <1>1, <2>1, <2>2 DEF CallsNested
<1>12. MarksHold'
  <2>1. ASSUME NEW i \in DOMAIN calls', calls'[i].kind \in Restoring
        PROVE  Below(local_vars', CountTo(calls', i, Scoping), calls'[i].saved)
    <3>1. i \in 1..Len(calls) /\ i \in DOMAIN calls /\ i \in 0..Len(calls)
      BY <1>1, <1>2, LenProperties
    <3>2. Below(local_vars, CountTo(calls, i, Scoping), calls[i].saved)
      BY <1>1, <1>2, <2>1, <3>1 DEF IInv, MarksHold
    <3>3. CountTo(calls, i, Scoping) \in 0..(Len(local_vars) - 1)
      <4>1. CountTo(calls, Len(calls), Scoping) \in Nat
        BY <1>2, <1>7
      <4> QED
        BY <1>7, <1>8, <3>1, <4>1
    <3> QED
      BY <1>2, <1>5, <1>7, <3>1, <3>2, <3>3
  <2> QED
    BY <1>5, <1>6, <2>1 DEF MarksHold
<1> QED
  BY <1>1, <1>4, <1>5, <1>6, <1>9, <1>10, <1>11, <1>12

\* While a function is analysed it stays among those to analyse.
LEMMA BodyCounted ==
  ASSUME IInv, [Next]_vars, phase' = "body"
  PROVE  todo' > 0 /\ (phase = "body" => todo' = todo)
<1> USE DEF space, targets, naming
<1>1. phase = "body" => todo > 0
  BY DEF IInv, CallsNested
<1>2. CASE UNCHANGED vars
  BY <1>1, <1>2 DEF vars
<1>3. CASE Functions
  BY <1>3 DEF Functions, SemaFunc, DuplicateParams, ExternDecl, FinishFunc, Exit, IInv, TypeOK
<1>4. CASE Declarations
  BY <1>1, <1>4 DEF Declarations, VarDecl, DuplicateDecl, Ready, Exit
<1>5. CASE Enter
  BY <1>1, <1>5 DEF Enter, EnterBlock, EnterIf, EnterLoop, EnterFor, EnterSwitch, MayOpen, Ready
<1>6. CASE Leave
  BY <1>1, <1>6 DEF Leave, LeaveBlock, LeaveIf, LeaveLoop, LeaveFor, LeaveSwitch, MayLeave
<1>7. CASE Simple
  BY <1>1, <1>7 DEF Simple, SimpleStmt, CaseLabel, MisplacedCase, Jump, MisplacedJump, Ready, Exit
<1>8. CASE Reject
  BY <1>8 DEF Reject, Exit
<1> QED
  BY <1>2, <1>3, <1>4, <1>5, <1>6, <1>7, <1>8 DEF Next, Stop

\* The invariant is inductive.
LEMMA StepIInv == IInv /\ [Next]_vars => IInv'
<1> SUFFICES ASSUME IInv, [Next]_vars PROVE IInv'
  OBVIOUS
<1>1. /\ TypeOK /\ CallsNested /\ LabelsUsedUp
      /\ calls \in Seq(Activation) /\ local_vars \in Seq(Seq(Entry))
      /\ break_labels \in Seq(Label) /\ continue_labels \in Seq(Label)
      /\ scoped_stack_space \in Nat /\ max_scoped_stack_space \in Nat
      /\ scoped_stack_space <= max_scoped_stack_space
  BY DEF IInv, TypeOK
<1>2. /\ jump_id' \in Nat /\ labelled' \in Seq(Label) /\ offset' \in Nat
      /\ todo' \in Nat /\ phase' \in {"next", "body", "exit"} /\ LabelsUsedUp'
  BY <1>1, NamingType
<1>3. phase' = "body" => todo' > 0
  BY BodyCounted
<1> DEFINE Rest == /\ CallsNested' /\ JumpTargets' /\ ScopesNested' /\ MarksHold'
                   /\ (calls # <<>> => EntriesApart(local_vars))'
           Types == /\ calls' \in Seq(Activation) /\ local_vars' \in Seq(Seq(Entry))
                    /\ scoped_stack_space' \in Nat /\ max_scoped_stack_space' \in Nat
                    /\ scoped_stack_space' <= max_scoped_stack_space'
                    /\ break_labels' \in Seq(Label) /\ continue_labels' \in Seq(Label)
<1>4. ASSUME Quiet PROVE Types /\ Rest
  <2>1. /\ phase' = "body" => phase = "body"
        /\ phase' = "next" => phase = "next"
    BY <1>4 DEF Quiet
  <2>2. calls' \in Seq(Activation) /\ Rest
    BY <1>3, <1>4, <2>1, QuietKeeps
  <2> QED
    BY <1>1, <1>4, <2>2 DEF Quiet, space, targets
<1>5. ASSUME NEW a \in Activation, Push(a) PROVE Types /\ Rest
  <2>1. todo' > 0
    BY <1>3, <1>5 DEF Push
  <2> QED
    BY <1>1, <1>5, <2>1, PushKeeps DEF Push, space
<1>6. ASSUME Pop PROVE Types /\ Rest
  <2>1. todo' > 0
    BY <1>3, <1>6 DEF Pop
  <2> QED
    BY <1>1, <1>6, <2>1, PopKeeps
<1>7. ASSUME NEW n \in Names, NEW size \in Sizes, NEW es \in EnumLists, VarDecl(n, size, es)
      PROVE  Types /\ Rest
  <2>1. todo' > 0
    BY <1>3, <1>7 DEF VarDecl, Ready
  <2> QED
    BY <1>1, <1>7, <2>1, DeclKeeps
<1>8. ASSUME NEW ps \in ParamLists, NEW varargs \in BOOLEAN, SemaFunc(ps, varargs)
      PROVE  Types /\ Rest
  <2>1. /\ Rest /\ calls' \in Seq(Activation) /\ local_vars' \in Seq(Seq(Entry))
        /\ break_labels' \in Seq(Label) /\ continue_labels' \in Seq(Label)
        /\ scoped_stack_space' \in Nat /\ max_scoped_stack_space' = scoped_stack_space'
    BY <1>8, StartKeeps
  <2> QED
    BY <2>1
<1>9. ASSUME FinishFunc PROVE Types /\ Rest
  <2>1. /\ Rest /\ calls' \in Seq(Activation) /\ local_vars' \in Seq(Seq(Entry))
        /\ scoped_stack_space' \in Nat /\ scoped_stack_space' <= max_scoped_stack_space
        /\ UNCHANGED <<max_scoped_stack_space, break_labels, continue_labels>>
    BY <1>9, FinishKeeps
  <2> QED
    BY <1>1, <2>1
<1>10. \/ Quiet
       \/ \E a \in Activation : Push(a)
       \/ Pop
       \/ \E n \in Names, size \in Sizes, es \in EnumLists : VarDecl(n, size, es)
       \/ \E ps \in ParamLists, varargs \in BOOLEAN : SemaFunc(ps, varargs)
       \/ FinishFunc
  BY <1>1, Effects
<1>11. Types /\ Rest
  <2> HIDE DEF Types, Rest
  <2> QED
    BY <1>4, <1>5, <1>6, <1>7, <1>8, <1>9, <1>10
<1> QED
  BY <1>2, <1>11 DEF IInv, TypeOK

\* The invariant holds of every program: of every state of the pass.
THEOREM Invariance == Spec => []IInv
<1>1. Init => IInv
  BY InitIInv
<1>2. IInv /\ [Next]_vars => IInv'
  BY StepIInv
<1> QED
  BY <1>1, <1>2, PTL DEF Spec

-----------------------------------------------------------------------------
(* What follows from it.                                                   *)

\* The pass never leaves its state space, and the running allocation never
\* exceeds the maximum that becomes func->offset.
THEOREM TypeCorrect == Spec => []TypeOK
<1>1. IInv => TypeOK
  BY DEF IInv
<1> QED
  BY <1>1, Invariance, PTL

\* A break or continue takes the label of the innermost construct it may leave,
\* and the label stacks are empty between functions.
THEOREM JumpsNested == Spec => []JumpTargets
<1>1. IInv => JumpTargets
  BY DEF IInv
<1> QED
  BY <1>1, Invariance, PTL

\* Each construct that opened a scope drops that one when it is left.
THEOREM ScopesBalanced == Spec => []ScopesNested
<1>1. IInv => ScopesNested
  BY DEF IInv
<1> QED
  BY <1>1, Invariance, PTL

\* Labels that were given are never given again, in this function or another.
LEMMA StepLabels ==
  ASSUME IInv, LabelsUnique, [Next]_vars
  PROVE  LabelsUnique'
<1>1. /\ labelled \in Seq(Label) /\ LabelsUsedUp /\ jump_id \in Nat
  BY DEF IInv, TypeOK
<1>2. ASSUME NEW prefix \in LabelPrefixes, GenLoopLabel(prefix) PROVE LabelsUnique'
  <2>1. NewLabel(prefix) \in Label /\ NewLabel(prefix).id = jump_id
    BY <1>1 DEF NewLabel, Label
  <2>2. /\ labelled' \in Seq(Label) /\ Len(labelled') = Len(labelled) + 1 /\ Len(labelled) \in Nat
        /\ \A i \in 1..Len(labelled) : labelled'[i] = labelled[i]
        /\ labelled'[Len(labelled) + 1] = NewLabel(prefix)
    BY <1>1, <1>2, <2>1, AppendProperties DEF GenLoopLabel
  <2>3. ASSUME NEW i \in 1..Len(labelled) PROVE labelled[i] # NewLabel(prefix)
    <3>1. labelled[i].id < jump_id
      BY <1>1 DEF LabelsUsedUp
    <3> QED
      BY <1>1, <2>1, <3>1
  <2>4. \A i \in DOMAIN labelled' : i \in 1..Len(labelled) \/ i = Len(labelled) + 1
    BY <2>2
  <2> QED
    BY <2>2, <2>3, <2>4 DEF LabelsUnique
<1>3. ASSUME UNCHANGED labelled PROVE LabelsUnique'
  BY <1>3 DEF LabelsUnique
<1>4. CASE Enter
  <2>1. ASSUME NEW kind \in {"while", "dowhile"}, EnterLoop(kind) PROVE LabelsUnique'
    BY <1>2, <2>1 DEF EnterLoop, LabelPrefixes, Breakable, Loops
  <2>2. ASSUME NEW init, EnterFor(init) PROVE LabelsUnique'
    BY <1>2, <2>2 DEF EnterFor, LabelPrefixes, Breakable, Loops
  <2>3. CASE EnterSwitch
    BY <1>2, <2>3 DEF EnterSwitch, LabelPrefixes, Breakable
  <2>4. CASE EnterBlock
    BY <1>3, <2>4 DEF EnterBlock, naming
  <2>5. ASSUME NEW else, EnterIf(else) PROVE LabelsUnique'
    BY <1>3, <2>5 DEF EnterIf, naming
  <2> QED
    BY <1>4, <2>1, <2>2, <2>3, <2>4, <2>5 DEF Enter
<1>5. CASE Simple
  <2>1. ASSUME NEW prefix \in {"case", "default"}, CaseLabel(prefix) PROVE LabelsUnique'
    BY <1>2, <2>1 DEF CaseLabel, LabelPrefixes
  <2>2. ASSUME NEW labels, Jump(labels) \/ MisplacedJump(labels) PROVE LabelsUnique'
    BY <1>3, <2>2 DEF Jump, MisplacedJump, Exit, naming
  <2>3. CASE SimpleStmt \/ MisplacedCase
    BY <1>3, <2>3 DEF SimpleStmt, MisplacedCase, Exit, naming
  <2> QED
    BY <1>5, <2>1, <2>2, <2>3 DEF Simple
<1>6. CASE Functions
  BY <1>3, <1>6 DEF Functions, SemaFunc, DuplicateParams, ExternDecl, FinishFunc, Exit, naming
<1>7. CASE Declarations
  BY <1>3, <1>7 DEF Declarations, VarDecl, DuplicateDecl, Exit, naming
<1>8. CASE Leave
  BY <1>3, <1>8 DEF Leave, LeaveBlock, LeaveIf, LeaveLoop, LeaveFor, LeaveSwitch, naming
<1>9. CASE Reject \/ UNCHANGED vars
  BY <1>3, <1>9 DEF Reject, Exit, vars, naming
<1> QED
  BY <1>4, <1>5, <1>6, <1>7, <1>8, <1>9 DEF Next, Stop

\* No two nodes of a program share a label, however many functions it has.
THEOREM LabelsNeverShared == Spec => []LabelsUnique
<1>1. Init => LabelsUnique
  BY DEF Init, LabelsUnique
<1>2. IInv /\ LabelsUnique /\ [Next]_vars => LabelsUnique'
  BY StepLabels
<1> QED
  BY <1>1, <1>2, Invariance, PTL DEF Spec

\* Entries that are apart and below a mark are slots that do not overlap, in any
\* frame that reaches the mark.
LEMMA SlotsOfEntries ==
  ASSUME NEW scopes \in Seq(Seq(Entry)), EntriesApart(scopes),
         NEW mark \in Nat, Below(scopes, Len(scopes), mark),
         NEW size \in Nat, mark <= size
  PROVE  /\ Slots!NoOverlap(LiveSlots(scopes))
         /\ Slots!InFrame(LiveSlots(scopes), size)
<1>1. ASSUME NEW s \in LiveSlots(scopes)
      PROVE  \E p \in Positions(scopes) : s = SlotAt(scopes, p) /\ Stored(At(scopes, p))
  BY DEF LiveSlots
<1>2. ASSUME NEW p \in Positions(scopes), Stored(At(scopes, p))
      PROVE  /\ At(scopes, p).val \in Nat /\ At(scopes, p).size \in Nat
             /\ At(scopes, p).size <= At(scopes, p).val /\ At(scopes, p).val <= mark
  <2>1. PICK d \in 1..Len(scopes) : \E k \in 1..Len(scopes[d]) : p = <<d, k>>
    BY PositionPairs
  <2>2. PICK k \in 1..Len(scopes[d]) : p = <<d, k>>
    BY <2>1
  <2>3. scopes[d] \in Seq(Entry) /\ scopes[d][k] \in Entry /\ At(scopes, p) = scopes[d][k]
    <3>1. scopes[d] \in Seq(Entry)
      BY ElementOfSeq
    <3> QED
      BY <2>2, <3>1, ElementOfSeq DEF At
  <2>4. scopes[d][k].val <= mark
    <3>1. k \in DOMAIN scopes[d]
      BY <2>3, LenProperties
    <3> QED
      BY <3>1 DEF Below
  <2>5. At(scopes, p).size <= At(scopes, p).val
    BY <1>2 DEF EntriesApart
  <2> QED
    BY <2>3, <2>4, <2>5 DEF Entry
<1>3. ASSUME NEW s \in LiveSlots(scopes), NEW t \in LiveSlots(scopes), s # t
      PROVE  Slots!Apart(s, t)
  <2>1. PICK p \in Positions(scopes) : s = SlotAt(scopes, p) /\ Stored(At(scopes, p))
    BY <1>1
  <2>2. PICK q \in Positions(scopes) : t = SlotAt(scopes, q) /\ Stored(At(scopes, q))
    BY <1>1
  <2> QED
    BY <1>3, <2>1, <2>2 DEF EntriesApart
<1>4. ASSUME NEW s \in LiveSlots(scopes) PROVE 0 <= s.low /\ s.high <= size
  <2>1. PICK p \in Positions(scopes) : s = SlotAt(scopes, p) /\ Stored(At(scopes, p))
    BY <1>1
  <2>2. /\ s.low = At(scopes, p).val - At(scopes, p).size
        /\ s.high = At(scopes, p).val
    BY <2>1 DEF SlotAt
  <2> QED
    BY <1>2, <2>1, <2>2
<1> QED
  BY <1>3, <1>4 DEF Slots!NoOverlap, Slots!InFrame

\* The inductive invariant contains the slot discipline.
LEMMA IInvSlots == IInv => SlotsDisjoint
<1> SUFFICES ASSUME IInv, calls # <<>>
             PROVE  /\ Slots!NoOverlap(LiveSlots(local_vars))
                    /\ Slots!InFrame(LiveSlots(local_vars), max_scoped_stack_space)
  BY DEF SlotsDisjoint
<1>1. /\ local_vars \in Seq(Seq(Entry)) /\ EntriesApart(local_vars)
      /\ scoped_stack_space \in Nat /\ max_scoped_stack_space \in Nat
      /\ scoped_stack_space <= max_scoped_stack_space
      /\ Below(local_vars, Len(local_vars), scoped_stack_space)
  BY DEF IInv, TypeOK, MarksHold
<1> QED
  BY <1>1, SlotsOfEntries

\* The frame slots of all variables in scope are disjoint and within the frame,
\* in every program, at every point of its analysis.
THEOREM SlotsNeverOverlap == Spec => []SlotsDisjoint
BY Invariance, IInvSlots, PTL

-----------------------------------------------------------------------------
(* The pass implements the slot allocator.                                 *)

\* Slots follow their entries: where positions and entries stay, so do slots.
LEMMA SlotsKept ==
  ASSUME NEW s, NEW t,
         \A p \in Positions(s) : p \in Positions(t) /\ At(t, p) = At(s, p)
  PROVE  LiveSlots(s) \subseteq LiveSlots(t)
BY DEF LiveSlots, SlotAt

\* Opening a scope adds no slot, and leaving one adds none either.
LEMMA ScopeSlots ==
  ASSUME NEW scopes \in Seq(Seq(Entry))
  PROVE  /\ LiveSlots(Append(scopes, <<>>)) = LiveSlots(scopes)
         /\ scopes # <<>> => LiveSlots(Front(scopes)) \subseteq LiveSlots(scopes)
<1>1. ASSUME NEW s \in Seq(Seq(Entry)), NEW t \in Seq(Seq(Entry)),
             \A d \in 1..Len(s) : s[d] = <<>> \/ (d \in 1..Len(t) /\ t[d] = s[d])
      PROVE  LiveSlots(s) \subseteq LiveSlots(t)
  <2>1. ASSUME NEW p \in Positions(s) PROVE p \in Positions(t) /\ At(t, p) = At(s, p)
    <3>1. PICK d \in 1..Len(s) : \E k \in 1..Len(s[d]) : p = <<d, k>>
      BY PositionPairs
    <3>2. PICK k \in 1..Len(s[d]) : p = <<d, k>>
      BY <3>1
    <3>3. s[d] # <<>>
      BY <3>2, EmptySeq
    <3>4. d \in 1..Len(t) /\ t[d] = s[d]
      BY <1>1, <3>3
    <3> QED
      BY <3>2, <3>4, PositionPairs DEF At
  <2> QED
    BY <2>1, SlotsKept
<1>2. <<>> \in Seq(Entry)
  BY EmptySeq
<1>3. LiveSlots(Append(scopes, <<>>)) = LiveSlots(scopes)
  <2> DEFINE t == Append(scopes, <<>>)
  <2>1. /\ t \in Seq(Seq(Entry)) /\ Len(t) = Len(scopes) + 1 /\ Len(scopes) \in Nat
        /\ \A d \in 1..Len(scopes) : t[d] = scopes[d]
        /\ t[Len(scopes) + 1] = <<>>
    BY <1>2, AppendProperties
  <2> HIDE DEF t
  <2>2. LiveSlots(scopes) \subseteq LiveSlots(t)
    <3>1. t \in Seq(Seq(Entry)) /\ \A d \in 1..Len(scopes) : d \in 1..Len(t) /\ t[d] = scopes[d]
      BY <2>1
    <3> QED
      BY <1>1, <3>1
  <2>3. LiveSlots(t) \subseteq LiveSlots(scopes)
    <3>1. t \in Seq(Seq(Entry))
          /\ \A d \in 1..Len(t) : t[d] = <<>> \/ (d \in 1..Len(scopes) /\ scopes[d] = t[d])
      BY <2>1
    <3> QED
      BY <1>1, <3>1
  <2> QED
    BY <2>2, <2>3 DEF t
<1>4. ASSUME scopes # <<>> PROVE LiveSlots(Front(scopes)) \subseteq LiveSlots(scopes)
  <2> DEFINE t == Front(scopes)
  <2>1. /\ t \in Seq(Seq(Entry)) /\ Len(t) = Len(scopes) - 1 /\ Len(scopes) \in Nat
        /\ \A d \in 1..(Len(scopes) - 1) : t[d] = scopes[d]
    BY <1>4, FrontLast
  <2> HIDE DEF t
  <2>2. t \in Seq(Seq(Entry)) /\ \A d \in 1..Len(t) : d \in 1..Len(scopes) /\ scopes[d] = t[d]
    BY <2>1
  <2>3. LiveSlots(t) \subseteq LiveSlots(scopes)
    BY <1>1, <2>2
  <2> QED
    BY <2>3 DEF t
<1> QED
  BY <1>3, <1>4


\* Every step of the pass is a step of the allocator or changes no slot.
LEMMA StepSlots ==
  ASSUME IInv, IInv', [Next]_vars
  PROVE  [Slots!Next]_(Slots!vars)
<1>1. /\ TypeOK /\ CallsNested /\ calls \in Seq(Activation)
      /\ local_vars \in Seq(Seq(Entry))
      /\ scoped_stack_space \in Nat /\ max_scoped_stack_space \in Nat
      /\ SlotsDisjoint'
      /\ phase = "body" => calls # <<>>
      /\ phase = "next" => calls = <<>>
      /\ phase' = "body" => calls' # <<>>
  <2>1. SlotsDisjoint'
    BY IInvSlots, PTL
  <2> QED
    BY <2>1 DEF IInv, TypeOK, CallsNested
<1>2. CASE Quiet
  <2>1. calls' = <<>> <=> calls = <<>>
    BY <1>1, <1>2 DEF Quiet, Alike
  <2> QED
    BY <1>2, <2>1 DEF Quiet, Slots!vars, space
<1>3. CASE \E a \in Activation : Push(a)
  <2>1. PICK a \in Activation : Push(a)
    BY <1>3
  <2>2. calls # <<>> /\ calls' # <<>> /\ max_scoped_stack_space' = max_scoped_stack_space
    BY <1>1, <2>1 DEF Push, space
  <2>3. LiveSlots(local_vars') = LiveSlots(local_vars)
    BY <1>1, <2>1, ScopeSlots DEF Push
  <2> QED
    BY <2>2, <2>3 DEF Slots!vars
<1>4. CASE Pop
  <2>1. calls # <<>> /\ calls' # <<>> /\ max_scoped_stack_space' = max_scoped_stack_space
    BY <1>1, <1>4 DEF Pop
  <2>2. local_vars # <<>>
    <3>1. Len(calls) \in Nat /\ CountTo(calls, Len(calls), Scoping) \in Nat
      <4>1. Len(calls) \in Nat
        BY <1>1
      <4> QED
        BY <4>1, CountStep
    <3> QED
      BY <2>1, <3>1 DEF IInv, ScopesNested
  <2>3. LiveSlots(local_vars') \subseteq LiveSlots(local_vars)
    BY <1>1, <1>4, <2>2, ScopeSlots DEF Pop
  <2> QED
    BY <2>1, <2>3 DEF Slots!Next, Slots!Release
<1>5. CASE \E n \in Names, size \in Sizes, es \in EnumLists : VarDecl(n, size, es)
  <2>1. PICK n \in Names, size \in Sizes, es \in EnumLists : VarDecl(n, size, es)
    BY <1>5
  <2>2. calls # <<>> /\ calls' # <<>>
    BY <1>1, <2>1 DEF VarDecl, Ready
  <2>3. LiveSlots(local_vars) \subseteq LiveSlots(local_vars')
    BY <2>1, <2>2, DeclaredApart, SlotsKept DEF IInv
  <2>4. max_scoped_stack_space <= max_scoped_stack_space'
    <3>1. size \in Nat
      BY SemaAssumption
    <3> QED
      BY <1>1, <2>1, <3>1 DEF VarDecl, Raised, Grown
  <2> QED
    BY <1>1, <2>2, <2>3, <2>4 DEF Slots!Next, Slots!Grant, SlotsDisjoint
<1>6. CASE \E ps \in ParamLists, varargs \in BOOLEAN : SemaFunc(ps, varargs)
  <2>1. calls = <<>> /\ calls' # <<>>
    BY <1>1, <1>6 DEF SemaFunc
  <2> QED
    BY <1>1, <2>1 DEF Slots!Next, Slots!Begin, SlotsDisjoint
<1>7. CASE FinishFunc
  <2>1. /\ calls # <<>> /\ calls' = <<>>
        /\ offset' = max_scoped_stack_space
    BY <1>1, <1>7 DEF FinishFunc, FrameNeeded
  <2> QED
    BY <2>1 DEF Slots!Next, Slots!Release
<1>8. \/ Quiet
      \/ \E a \in Activation : Push(a)
      \/ Pop
      \/ \E n \in Names, size \in Sizes, es \in EnumLists : VarDecl(n, size, es)
      \/ \E ps \in ParamLists, varargs \in BOOLEAN : SemaFunc(ps, varargs)
      \/ FinishFunc
  BY <1>1, Effects
<1> QED
  BY <1>2, <1>3, <1>4, <1>5, <1>6, <1>7, <1>8

\* The semantic pass implements the abstract slot allocator: variables do not
\* move while in scope, and func->offset covers every slot of its function.
THEOREM Refinement == Spec => ImplementsSlots
<1>1. Init => Slots!Init
  BY DEF Init, Slots!Init
<1>2. IInv /\ IInv' /\ [Next]_vars => [Slots!Next]_(Slots!vars)
  BY StepSlots
<1> QED
  BY <1>1, <1>2, Invariance, PTL DEF Spec, ImplementsSlots, Slots!Spec

=============================================================================
