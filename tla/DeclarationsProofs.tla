------------------------- MODULE DeclarationsProofs -------------------------
(***************************************************************************)
(* Proofs about Declarations, for every set of names and types, every list *)
(* of builtins and a file of any length.                                   *)
(***************************************************************************)
EXTENDS Declarations, SequenceTheorems, WellFoundedInduction, TLAPS

-----------------------------------------------------------------------------
(* The comparison of types, and of lists of parameters, is an equivalence. *)

LEMMA EqTypeEquivalence ==
  ASSUME NEW t, NEW u, NEW v
  PROVE  /\ EqType(t, t)
         /\ EqType(t, u) => EqType(u, t)
         /\ EqType(t, u) /\ EqType(u, v) => EqType(t, v)
BY DEF EqType

\* Accepting any two pointers or arrays for each other keeps it one.
LEMMA TypeSigMatchEquivalence ==
  ASSUME NEW t, NEW u, NEW v
  PROVE  /\ TypeSigMatch(t, t)
         /\ TypeSigMatch(t, u) => TypeSigMatch(u, t)
         /\ TypeSigMatch(t, u) /\ TypeSigMatch(u, v) => TypeSigMatch(t, v)
BY DEF TypeSigMatch, IsPointerCompat, EqType

LEMMA MatchedReflexive ==
  ASSUME NEW ps
  PROVE  Matched(ps, ps)
BY TypeSigMatchEquivalence DEF Matched

LEMMA MatchedSymmetric ==
  ASSUME NEW ps \in Seq(Type), NEW qs \in Seq(Type), Matched(ps, qs)
  PROVE  Matched(qs, ps)
<1>1. DOMAIN ps = 1..Len(ps) /\ DOMAIN qs = 1..Len(qs)
  BY LenProperties
<1> QED
  BY <1>1, TypeSigMatchEquivalence DEF Matched

LEMMA MatchedTransitive ==
  ASSUME NEW ps \in Seq(Type), NEW qs \in Seq(Type), NEW rs \in Seq(Type),
         Matched(ps, qs), Matched(qs, rs)
  PROVE  Matched(ps, rs)
<1>1. DOMAIN ps = 1..Len(ps) /\ DOMAIN qs = 1..Len(qs)
  BY LenProperties
<1> QED
  BY <1>1, TypeSigMatchEquivalence DEF Matched

-----------------------------------------------------------------------------
(* Maps.                                                                   *)

Latest(map, n, i) == /\ i \in DOMAIN map
                     /\ map[i].name = n
                     /\ \A j \in (i + 1)..Len(map) : map[j].name # n

\* A name that is bound has a latest binding.
LEMMA LatestExists ==
  ASSUME NEW S, NEW map \in Seq(S), NEW n, Bound(map, n)
  PROVE  \E i \in DOMAIN map : Latest(map, n, i)
<1> DEFINE len == Len(map)
           T == {k \in Nat : k < len /\ map[len - k].name = n}
<1>1. len \in Nat /\ DOMAIN map = 1..len
  BY LenProperties
<1>2. PICK b \in 1..len : map[b].name = n
  BY <1>1 DEF Bound
<1>3. len - b \in Nat /\ len - b < len /\ len - (len - b) = b
  BY <1>1, <1>2
<1>4. len - b \in T
  BY <1>2, <1>3
<1>5. T \subseteq Nat /\ T # {}
  BY <1>4
<1>6. PICK k \in T : \A m \in T : ~(<<m, k>> \in OpToRel(<, Nat))
  BY <1>5, WFMin, NatLessThanWellFounded, Zenon
<1>7. k \in Nat /\ k < len /\ map[len - k].name = n
  OBVIOUS
<1>8. \A m \in T : ~(m < k)
  BY <1>6, <1>7 DEF OpToRel
<1>9. ASSUME NEW j \in (len - k + 1)..len, map[j].name = n
      PROVE  FALSE
  <2>1. len - j \in Nat /\ len - j < len /\ len - j < k /\ len - (len - j) = j
    BY <1>1, <1>7
  <2>2. len - j \in T
    BY <2>1, <1>9
  <2> QED
    BY <2>1, <2>2, <1>8
<1>10. len - k \in DOMAIN map
  BY <1>1, <1>7
<1> QED
  BY <1>7, <1>9, <1>10 DEF Latest

\* Find answers it,
LEMMA FindIsLatest ==
  ASSUME NEW S, NEW map \in Seq(S), NEW n, Bound(map, n)
  PROVE  \E i \in DOMAIN map : Latest(map, n, i) /\ Find(map, n) = map[i]
<1> DEFINE k == CHOOSE i \in DOMAIN map :
                  /\ map[i].name = n
                  /\ \A j \in (i + 1)..Len(map) : map[j].name # n
<1>1. \E i \in DOMAIN map : /\ map[i].name = n
                            /\ \A j \in (i + 1)..Len(map) : map[j].name # n
  BY LatestExists, Zenon DEF Latest
<1>2. k \in DOMAIN map /\ map[k].name = n /\ \A j \in (k + 1)..Len(map) : map[j].name # n
  BY <1>1, Zenon
<1>3. Find(map, n) = map[k]
  BY Zenon DEF Find
<1> QED
  BY <1>2, <1>3, Zenon DEF Latest

\* which is one only.
LEMMA FindUnique ==
  ASSUME NEW S, NEW map \in Seq(S), NEW n, NEW i \in DOMAIN map, Latest(map, n, i)
  PROVE  Bound(map, n) /\ Find(map, n) = map[i]
<1>1. Len(map) \in Nat /\ DOMAIN map = 1..Len(map)
  BY LenProperties
<1>2. Bound(map, n)
  BY DEF Bound, Latest
<1>3. PICK k \in DOMAIN map : Latest(map, n, k) /\ Find(map, n) = map[k]
  BY <1>2, FindIsLatest
<1>4. k = i
  BY <1>1, <1>3 DEF Latest
<1> QED
  BY <1>2, <1>3, <1>4

LEMMA FindType ==
  ASSUME NEW S, NEW map \in Seq(S), NEW n, Bound(map, n)
  PROVE  Find(map, n) \in S /\ Find(map, n).name = n
<1>1. PICK i \in DOMAIN map : Latest(map, n, i) /\ Find(map, n) = map[i]
  BY FindIsLatest
<1>2. map[i] \in S
  BY LenProperties, ElementOfSeq
<1> QED
  BY <1>1, <1>2 DEF Latest

\* A binding added at the end hides those of its name and no other.
LEMMA FindAppend ==
  ASSUME NEW S, NEW map \in Seq(S), NEW f \in S
  PROVE  /\ Bound(Append(map, f), f.name) /\ Find(Append(map, f), f.name) = f
         /\ \A n : n # f.name /\ Bound(map, n) =>
              Bound(Append(map, f), n) /\ Find(Append(map, f), n) = Find(map, n)
<1> DEFINE new == Append(map, f)
           len == Len(map)
<1>1. /\ new \in Seq(S) /\ Len(new) = len + 1
      /\ \A i \in 1..len : new[i] = map[i]
      /\ new[len + 1] = f
  BY AppendProperties
<1>2. len \in Nat /\ DOMAIN map = 1..len
  BY LenProperties
<1>3. DOMAIN new = 1..(len + 1)
  BY <1>1, LenProperties
<1> HIDE DEF new, len
<1>4. len + 1 \in DOMAIN new /\ Latest(new, f.name, len + 1)
  BY <1>1, <1>2, <1>3 DEF Latest
<1>5. Bound(new, f.name) /\ Find(new, f.name) = f
  BY <1>1, <1>4, FindUnique
<1>6. ASSUME NEW n, n # f.name, Bound(map, n)
      PROVE  Bound(new, n) /\ Find(new, n) = Find(map, n)
  <2>1. PICK i \in DOMAIN map : Latest(map, n, i) /\ Find(map, n) = map[i]
    BY <1>6, FindIsLatest
  <2>2. i \in DOMAIN new /\ new[i] = map[i]
    BY <1>1, <1>2, <1>3
  <2>3. Latest(new, n, i)
    <3>1. \A j \in (i + 1)..(len + 1) : new[j].name # n
      BY <1>1, <1>2, <1>6, <2>1 DEF Latest, len
    <3> QED
      BY <1>1, <2>1, <2>2, <3>1 DEF Latest
  <2> QED
    BY <1>1, <2>1, <2>2, <2>3, FindUnique
<1> QED
  BY <1>5, <1>6 DEF new

-----------------------------------------------------------------------------
(* The inductive invariant.                                                *)

\* Nothing is bound, checked or resolved before the file is parsed.
ParsedFirst ==
  phase = "parse" => /\ done = 0 /\ func_env = Builtins
                     /\ checked = {} /\ resolved = {} /\ emitted = {}

\* A function has seen no more globals than there are.
SeenDeclared == \A i \in DOMAIN functions : functions[i].seen <= Len(global_vars)

\* The binding of a name stands for every accepted declaration of it: it agrees
\* with each, and it is a definition if one of them is. (An error in a body leaves
\* its function bound and not accepted: nothing is said of func_env then.)
BindingStands ==
  phase # "exit" =>
    \A i \in DOMAIN All :
      /\ Bound(func_env, All[i].name)
      /\ Matched(Find(func_env, All[i].name).params, All[i].params)
      /\ ~All[i].is_extern => ~Find(func_env, All[i].name).is_extern

\* A call agrees with the binding its name has now.
CallsStand ==
  phase # "exit" =>
    \A c \in checked :
      Bound(func_env, c.name) /\ Matched(Find(func_env, c.name).params, c.params)

\* No two declarations of a variable conflict, the order of the two regardless.
GlobalsAgree ==
  phase \in {"funcs", "body", "gen"} =>
    \A i, j \in DOMAIN global_vars : i # j => ~Conflict(global_vars[i], global_vars[j])

EmittedStored ==
  phase = "gen" => emitted = {i \in DOMAIN global_vars : StoredVar(global_vars[i])}

ReferencesSeen == \A r \in resolved : r.at <= Len(global_vars)

IInv == /\ TypeOK /\ ParsedFirst /\ SeenDeclared
        /\ DeclarationsAgree /\ BindingStands /\ CallsStand
        /\ GlobalsAgree /\ ReferencesSeen /\ ReferencesAgree /\ EmittedStored

-----------------------------------------------------------------------------
(* Type correctness.                                                       *)

LEMMA ParamsType ==
  ASSUME NEW params \in ParamLists
  PROVE  params \in Seq(Type)
<1>1. PICK n \in 0..MaxParams : params \in [1..n -> Types]
  BY DEF ParamLists
<1>2. n \in Nat
  BY <1>1, DeclarationsAssumption
<1>3. params \in [1..n -> Type]
  BY <1>1, DeclarationsAssumption
<1> QED
  BY <1>2, <1>3

\* The declaration sema_func is called with, and what its body sees.
LEMMA CurrentType ==
  ASSUME TypeOK, done < Len(functions)
  PROVE  /\ Current \in FuncDecl
         /\ done + 1 \in 1..Len(functions)
         /\ done + 1 \in DOMAIN functions
<1>1. functions \in Seq(FuncDecl) /\ done \in 0..Len(functions)
  BY DEF TypeOK
<1>2. Len(functions) \in Nat /\ DOMAIN functions = 1..Len(functions)
  BY <1>1, LenProperties
<1>3. done + 1 \in 1..Len(functions)
  BY <1>1, <1>2
<1>4. functions[done + 1] \in FuncDecl
  BY <1>1, <1>3, ElementOfSeq
<1> QED
  BY <1>2, <1>3, <1>4 DEF Current

LEMMA VisiblePrefix ==
  ASSUME TypeOK, SeenDeclared, done < Len(functions)
  PROVE  /\ Visible \in Seq(VarDecl)
         /\ Len(Visible) = Current.seen
         /\ Current.seen \in Nat /\ Current.seen <= Len(global_vars)
         /\ \A i \in 1..Current.seen : Visible[i] = global_vars[i]
<1> DEFINE seen == Current.seen
<1>1. seen \in Nat /\ seen <= Len(global_vars)
  <2>1. Current \in FuncDecl /\ done + 1 \in DOMAIN functions
    BY CurrentType
  <2> QED
    BY <2>1 DEF SeenDeclared, FuncDecl, Current
<1>2. global_vars \in Seq(VarDecl)
  BY DEF TypeOK
<1>3. Len(global_vars) \in Nat
  BY <1>2, LenProperties
<1>4. \A i \in 1..seen : global_vars[i] \in VarDecl
  BY <1>1, <1>2, <1>3, ElementOfSeq
<1> HIDE DEF seen
<1>5. /\ SubSeq(global_vars, 1, seen) \in Seq(VarDecl)
      /\ Len(SubSeq(global_vars, 1, seen)) = IF 1 <= seen THEN seen - 1 + 1 ELSE 0
      /\ \A i \in 1..(seen - 1 + 1) : SubSeq(global_vars, 1, seen)[i] = global_vars[1 + i - 1]
  BY <1>1, <1>4, SubSeqProperties
<1>6. Len(SubSeq(global_vars, 1, seen)) = seen
  BY <1>1, <1>5
<1>7. \A i \in 1..seen : SubSeq(global_vars, 1, seen)[i] = global_vars[i]
  BY <1>1, <1>5
<1> QED
  BY <1>1, <1>5, <1>6, <1>7 DEF Visible, seen

\* A reference that is accepted is to a declaration the function has seen.
LEMMA ReferenceFound ==
  ASSUME TypeOK, SeenDeclared, NEW n, SemaVar(n)
  PROVE  /\ Current.seen \in Nat /\ Current.seen <= Len(global_vars)
         /\ \E i \in 1..Current.seen : Find(Visible, n) = global_vars[i]
         /\ Find(Visible, n) \in VarDecl
<1>1. done < Len(functions)
  BY DEF TypeOK, SemaVar
<1>2. /\ Visible \in Seq(VarDecl) /\ Len(Visible) = Current.seen
      /\ Current.seen \in Nat /\ Current.seen <= Len(global_vars)
      /\ \A i \in 1..Current.seen : Visible[i] = global_vars[i]
  BY <1>1, VisiblePrefix
<1>3. Bound(Visible, n)
  BY DEF SemaVar
<1>4. PICK i \in DOMAIN Visible : Find(Visible, n) = Visible[i]
  BY <1>2, <1>3, FindIsLatest
<1>5. DOMAIN Visible = 1..Current.seen
  BY <1>2, LenProperties
<1> QED
  BY <1>2, <1>3, <1>4, <1>5, FindType

LEMMA StepTypeOK ==
  ASSUME TypeOK, SeenDeclared, [Next]_vars
  PROVE  TypeOK'
<1>1. /\ functions \in Seq(FuncDecl) /\ global_vars \in Seq(VarDecl)
      /\ func_env \in Seq(FuncDecl) /\ done \in 0..Len(functions)
      /\ Len(functions) \in Nat /\ Len(global_vars) \in Nat
      /\ DOMAIN global_vars = 1..Len(global_vars)
  BY LenProperties DEF TypeOK
<1>2. CASE UNCHANGED vars
  BY <1>2 DEF TypeOK, vars
<1>3. CASE Exit
  BY <1>3 DEF TypeOK, Exit
<1>4. ASSUME NEW n \in VarNames, NEW type \in Types, NEW is_extern \in BOOLEAN,
             ParseVar(n, type, is_extern)
      PROVE  TypeOK'
  <2> DEFINE new == [name |-> n, type |-> type, is_extern |-> is_extern]
  <2>1. new \in VarDecl
    BY DeclarationsAssumption DEF VarDecl
  <2>2. global_vars' = Append(global_vars, new)
    BY <1>4 DEF ParseVar
  <2>3. global_vars' \in Seq(VarDecl) /\ Len(global_vars') = Len(global_vars) + 1
    BY <1>1, <2>1, <2>2, AppendProperties
  <2>4. DOMAIN global_vars' = 1..(Len(global_vars) + 1)
    BY <2>3, LenProperties
  <2>5. DOMAIN global_vars \subseteq DOMAIN global_vars'
    BY <1>1, <2>4
  <2> QED
    BY <1>4, <2>3, <2>5 DEF TypeOK, ParseVar
<1>5. ASSUME NEW n \in FuncNames, NEW params \in ParamLists, NEW is_varargs \in BOOLEAN,
             NEW is_extern \in BOOLEAN, ParseFunc(n, params, is_varargs, is_extern)
      PROVE  TypeOK'
  <2> DEFINE new == [name |-> n, params |-> params, is_varargs |-> is_varargs,
                     is_extern |-> is_extern, seen |-> Len(global_vars)]
  <2>1. new \in FuncDecl
    BY <1>1, ParamsType DEF FuncDecl
  <2>2. functions' = Append(functions, new)
    BY <1>5 DEF ParseFunc
  <2> HIDE DEF new
  <2>3. functions' \in Seq(FuncDecl) /\ Len(functions') = Len(functions) + 1
    BY <1>1, <2>1, <2>2, AppendProperties
  <2>4. done' = done /\ done \in 0..Len(functions') /\ phase' = "parse"
    BY <1>1, <1>5, <2>3 DEF ParseFunc
  <2> QED
    BY <1>5, <2>3, <2>4 DEF TypeOK, ParseFunc
<1>6. CASE SemaGlobals
  BY <1>6 DEF TypeOK, SemaGlobals
<1>7. CASE SemaExtern
  <2>1. Current \in FuncDecl /\ done + 1 \in 1..Len(functions)
    BY <1>7, CurrentType DEF SemaExtern
  <2>2. func_env' \in Seq(FuncDecl)
    BY <1>1, <1>7, <2>1, AppendProperties DEF SemaExtern, ExternEntered
  <2> QED
    BY <1>1, <1>7, <2>1, <2>2 DEF TypeOK, SemaExtern
<1>8. CASE SemaFunc
  <2>1. Current \in FuncDecl
    BY <1>8, CurrentType DEF SemaFunc
  <2>2. func_env' \in Seq(FuncDecl)
    BY <1>1, <1>8, <2>1, AppendProperties DEF SemaFunc
  <2> QED
    BY <1>8, <2>2 DEF TypeOK, SemaFunc
<1>9. ASSUME NEW n \in FuncNames, NEW argc \in 0..MaxParams, SemaCall(n, argc)
      PROVE  TypeOK'
  <2>1. Find(func_env, n) \in FuncDecl
    BY <1>1, <1>9, FindType DEF SemaCall
  <2>2. Find(func_env, n).params \in Seq(Type)
    BY <2>1 DEF FuncDecl
  <2>3. checked' \subseteq [name : FuncNames, params : Seq(Type)]
    BY <1>9, <2>2 DEF SemaCall, TypeOK
  <2> QED
    BY <1>9, <2>3 DEF TypeOK, SemaCall
<1>10. ASSUME NEW n \in VarNames, SemaVar(n)
       PROVE  TypeOK'
  <2>1. Current.seen \in Nat /\ Find(Visible, n) \in VarDecl
    BY <1>10, ReferenceFound
  <2>2. resolved' \subseteq [at : Nat, decl : VarDecl]
    BY <1>10, <2>1 DEF SemaVar, TypeOK
  <2> QED
    BY <1>10, <2>2 DEF TypeOK, SemaVar
<1>11. CASE FinishFunc
  <2>1. done + 1 \in 0..Len(functions)
    BY <1>1, <1>11 DEF TypeOK, FinishFunc
  <2> QED
    BY <1>11, <2>1 DEF TypeOK, FinishFunc
<1>12. CASE GenGlobals
  BY <1>12 DEF TypeOK, GenGlobals
<1> QED
  BY <1>2, <1>3, <1>4, <1>5, <1>6, <1>7, <1>8, <1>9, <1>10, <1>11, <1>12
  DEF Next, Parse, Sema, Stop, ParseError, GlobalsClash, SemaClash, SemaError

-----------------------------------------------------------------------------
(* What a step does to the accepted declarations and to the bindings.      *)

PastLen == IF phase = "body" THEN done + 1 ELSE done

\* The builtins and the first k functions.
LEMMA Accumulated ==
  ASSUME NEW fs \in Seq(FuncDecl), NEW k \in 0..Len(fs)
  PROVE  LET all == Builtins \o SubSeq(fs, 1, k)
             b == Len(Builtins)
         IN  /\ b \in Nat
             /\ all \in Seq(FuncDecl)
             /\ DOMAIN all = 1..(b + k)
             /\ \A i \in 1..(b + k) : all[i] = IF i <= b THEN Builtins[i] ELSE fs[i - b]
<1> DEFINE past == SubSeq(fs, 1, k)
           all == Builtins \o past
           b == Len(Builtins)
<1>1. Builtins \in Seq(FuncDecl) /\ b \in Nat /\ Len(fs) \in Nat
  BY DeclarationsAssumption, LenProperties
<1>2. \A i \in 1..k : fs[i] \in FuncDecl
  BY <1>1, ElementOfSeq
<1>3. /\ past \in Seq(FuncDecl) /\ Len(past) = k
      /\ \A i \in 1..k : past[i] = fs[i]
  <2>1. /\ past \in Seq(FuncDecl) /\ Len(past) = IF 1 <= k THEN k - 1 + 1 ELSE 0
        /\ \A i \in 1..(k - 1 + 1) : past[i] = fs[1 + i - 1]
    BY <1>1, <1>2, SubSeqProperties
  <2> HIDE DEF past
  <2> QED
    BY <1>1, <2>1
<1> HIDE DEF past
<1>4. /\ all \in Seq(FuncDecl) /\ Len(all) = b + k
      /\ \A i \in 1..(b + k) : all[i] = IF i <= b THEN Builtins[i] ELSE past[i - b]
  BY <1>1, <1>3, ConcatProperties
<1>5. DOMAIN all = 1..(b + k)
  BY <1>4, LenProperties
<1>6. \A i \in 1..(b + k) : ~(i <= b) => i - b \in 1..k
  BY <1>1
<1> QED
  BY <1>1, <1>3, <1>4, <1>5, <1>6 DEF past

LEMMA AllIs ==
  ASSUME TypeOK
  PROVE  LET b == Len(Builtins)
         IN  /\ b \in Nat /\ PastLen \in 0..Len(functions)
             /\ All \in Seq(FuncDecl)
             /\ DOMAIN All = 1..(b + PastLen)
             /\ \A i \in 1..(b + PastLen) :
                  All[i] = IF i <= b THEN Builtins[i] ELSE functions[i - b]
<1>1. functions \in Seq(FuncDecl) /\ PastLen \in 0..Len(functions)
  BY LenProperties DEF TypeOK, PastLen
<1>2. All = Builtins \o SubSeq(functions, 1, PastLen)
  BY DEF All, Past, PastLen
<1> QED
  BY <1>1, <1>2, Accumulated

\* The same of the next state.
LEMMA AllIsNext ==
  ASSUME TypeOK'
  PROVE  LET b == Len(Builtins)
         IN  /\ b \in Nat /\ PastLen' \in 0..Len(functions')
             /\ DOMAIN All' = 1..(b + PastLen')
             /\ \A i \in 1..(b + PastLen') :
                  All'[i] = IF i <= b THEN Builtins[i] ELSE functions'[i - b]
<1>1. functions' \in Seq(FuncDecl) /\ PastLen' \in 0..Len(functions')
  <2>1. /\ functions' \in Seq(FuncDecl) /\ done' \in 0..Len(functions')
        /\ phase' = "body" => done' < Len(functions')
    BY DEF TypeOK
  <2>2. Len(functions') \in Nat
    BY <2>1, LenProperties
  <2>3. PastLen' = IF phase' = "body" THEN done' + 1 ELSE done'
    BY DEF PastLen
  <2>4. PastLen' \in 0..Len(functions')
    <3>1. \A l \in Nat : \A d \in 0..l : d < l => d + 1 \in 0..l
      OBVIOUS
    <3>2. done' \in 0..Len(functions')
      BY <2>1
    <3>3. CASE phase' = "body"
      BY <2>1, <2>2, <2>3, <3>1, <3>2, <3>3, Zenon
    <3>4. CASE phase' # "body"
      BY <2>3, <3>2, <3>4, Zenon
    <3> QED
      BY <3>3, <3>4
  <2> QED
    BY <2>1, <2>4
<1>2. All' = Builtins \o SubSeq(functions', 1, PastLen')
  BY DEF All, Past, PastLen
<1> QED
  BY <1>1, <1>2, Accumulated

Accepts == SemaExtern \/ SemaFunc

\* A step of sema_func adds the current declaration at the end,
LEMMA AcceptsOne ==
  ASSUME TypeOK, TypeOK', Accepts
  PROVE  \E len \in Nat : /\ DOMAIN All = 1..len /\ DOMAIN All' = 1..(len + 1)
                          /\ \A i \in 1..len : All'[i] = All[i]
                          /\ All'[len + 1] = Current
<1> DEFINE b == Len(Builtins)
<1>1. PastLen = done /\ PastLen' = done + 1 /\ functions' = functions
  BY DEF Accepts, SemaExtern, SemaFunc, PastLen
<1>2. done \in Nat
  BY LenProperties DEF TypeOK
<1>3. /\ b \in Nat
      /\ DOMAIN All = 1..(b + done)
      /\ \A i \in 1..(b + done) : All[i] = IF i <= b THEN Builtins[i] ELSE functions[i - b]
  BY <1>1, AllIs
<1>4. /\ DOMAIN All' = 1..(b + (done + 1))
      /\ \A i \in 1..(b + (done + 1)) :
           All'[i] = IF i <= b THEN Builtins[i] ELSE functions[i - b]
  BY <1>1, AllIsNext
<1> HIDE DEF b
<1>5. ASSUME NEW i \in 1..(b + done)
      PROVE  All'[i] = All[i]
  <2>1. i \in 1..(b + (done + 1))
    BY <1>2, <1>3
  <2> QED
    BY <1>3, <1>4, <2>1
<1>6. All'[b + done + 1] = Current
  BY <1>2, <1>3, <1>4 DEF Current
<1>7. DOMAIN All' = 1..(b + done + 1)
  BY <1>2, <1>3, <1>4
<1>8. b + done \in Nat /\ DOMAIN All = 1..(b + done)
  BY <1>2, <1>3
<1> QED
  BY <1>5, <1>6, <1>7, <1>8

\* and no other step adds any.
LEMMA OthersAddNone ==
  ASSUME TypeOK, TypeOK', ParsedFirst, [Next]_vars, ~Accepts
  PROVE  /\ func_env' = func_env
         /\ DOMAIN All' \subseteq DOMAIN All
         /\ \A i \in DOMAIN All' : All'[i] = All[i]
<1>1. /\ func_env' = func_env
      /\ PastLen' = PastLen \/ (phase = "body" /\ PastLen = done + 1 /\ PastLen' = done)
      /\ functions' = functions \/ (PastLen = 0 /\ PastLen' = 0)
  BY DEF Next, Parse, Sema, Stop, ParseVar, ParseFunc, ParseError, Exit, SemaGlobals,
         GlobalsClash, Accepts, SemaClash, SemaCall, SemaVar, SemaError, FinishFunc,
         GenGlobals, PastLen, ParsedFirst, vars
<1> DEFINE b == Len(Builtins)
<1>2. /\ b \in Nat /\ PastLen \in 0..Len(functions)
      /\ DOMAIN All = 1..(b + PastLen)
      /\ \A i \in 1..(b + PastLen) : All[i] = IF i <= b THEN Builtins[i] ELSE functions[i - b]
  BY AllIs
<1>3. /\ PastLen' \in 0..Len(functions')
      /\ DOMAIN All' = 1..(b + PastLen')
      /\ \A i \in 1..(b + PastLen') :
           All'[i] = IF i <= b THEN Builtins[i] ELSE functions'[i - b]
  BY AllIsNext
<1>4. PastLen \in Nat /\ PastLen' \in Nat /\ done \in Nat
  BY <1>2, <1>3, LenProperties DEF TypeOK
<1> HIDE DEF b
<1>5. PastLen' <= PastLen
  BY <1>1, <1>4
<1>6. DOMAIN All' \subseteq DOMAIN All
  <2>1. \A x, y, z \in Nat : x <= y => 1..(z + x) \subseteq 1..(z + y)
    OBVIOUS
  <2>2. 1..(b + PastLen') \subseteq 1..(b + PastLen)
    BY <1>2, <1>4, <1>5, <2>1, Zenon
  <2> QED
    BY <1>2, <1>3, <2>2, Zenon
<1>7. \A i \in DOMAIN All' : All'[i] = All[i]
  <2>1. CASE functions' = functions
    BY <1>2, <1>3, <1>4, <1>5, <2>1
  <2>2. CASE PastLen = 0 /\ PastLen' = 0
    BY <1>2, <1>3, <2>2
  <2> QED
    BY <1>1, <2>1, <2>2
<1> QED
  BY <1>1, <1>6, <1>7

\* A binding gives way only to one that agrees with it, and that is a definition
\* if the one before was; and the declaration accepted agrees with its binding.
LEMMA Rebinding ==
  ASSUME TypeOK, Accepts
  PROVE  /\ \A n : Bound(func_env, n) =>
              /\ Bound(func_env', n)
              /\ Matched(Find(func_env', n).params, Find(func_env, n).params)
              /\ ~Find(func_env, n).is_extern => ~Find(func_env', n).is_extern
         /\ Bound(func_env', Current.name)
         /\ Matched(Find(func_env', Current.name).params, Current.params)
         /\ ~Current.is_extern => ~Find(func_env', Current.name).is_extern
<1> DEFINE c == Current
           f == Find(func_env, c.name)
<1>1. func_env \in Seq(FuncDecl)
  BY DEF TypeOK
<1>2. c \in FuncDecl /\ c.params \in Seq(Type)
  BY CurrentType DEF Accepts, SemaExtern, SemaFunc, FuncDecl
<1>3. Bound(func_env, c.name) => Matched(c.params, f.params)
  BY DEF Accepts, SemaExtern, SemaFunc, Accepted, Compatible
<1>4. CASE func_env' = func_env
  <2>1. Bound(func_env, c.name) /\ c.is_extern
    <3>1. CASE SemaExtern
      <4>1. ASSUME ~Bound(func_env, c.name)
            PROVE  FALSE
        <5>1. func_env' = Append(func_env, c)
          BY <3>1, <4>1 DEF SemaExtern, ExternEntered
        <5> QED
          BY <1>1, <1>2, <1>4, <4>1, <5>1, FindAppend
      <4> QED
        BY <3>1, <4>1 DEF SemaExtern
    <3>2. CASE SemaFunc
      <4>1. func_env' = Append(func_env, c)
        BY <3>2 DEF SemaFunc
      <4> HIDE DEF c
      <4>2. Len(func_env) \in Nat /\ Len(Append(func_env, c)) = Len(func_env) + 1
        BY <1>1, <1>2, AppendProperties, LenProperties
      <4> QED
        BY <1>4, <4>1, <4>2
    <3> QED
      BY <3>1, <3>2 DEF Accepts
  <2>2. f \in FuncDecl
    BY <1>1, <2>1, FindType
  <2>3. f.params \in Seq(Type)
    BY <2>2 DEF FuncDecl
  <2>4. Matched(f.params, c.params)
    BY <1>2, <1>3, <2>1, <2>3, MatchedSymmetric
  <2> QED
    BY <1>4, <2>1, <2>4, MatchedReflexive
<1>5. CASE func_env' # func_env
  <2>1. func_env' = Append(func_env, c)
    BY <1>5 DEF Accepts, SemaExtern, SemaFunc, ExternEntered
  <2>2. Bound(func_env, c.name) => (~f.is_extern => ~c.is_extern)
    BY <1>5 DEF Accepts, SemaExtern, SemaFunc, ExternEntered
  <2> HIDE DEF c
  <2>3. /\ Bound(func_env', c.name) /\ Find(func_env', c.name) = c
        /\ \A n : n # c.name /\ Bound(func_env, n) =>
             Bound(func_env', n) /\ Find(func_env', n) = Find(func_env, n)
    BY <1>1, <1>2, <2>1, FindAppend
  <2>4. ASSUME NEW n, Bound(func_env, n)
        PROVE  /\ Bound(func_env', n)
               /\ Matched(Find(func_env', n).params, Find(func_env, n).params)
               /\ ~Find(func_env, n).is_extern => ~Find(func_env', n).is_extern
    <3>1. CASE n = c.name
      BY <1>3, <2>2, <2>3, <2>4, <3>1
    <3>2. CASE n # c.name
      BY <2>3, <2>4, <3>2, MatchedReflexive
    <3> QED
      BY <3>1, <3>2
  <2> QED
    BY <2>3, <2>4, MatchedReflexive DEF c
<1> QED
  BY <1>4, <1>5

-----------------------------------------------------------------------------
(* Each part of the invariant is kept.                                     *)

LEMMA StepParsedFirst ==
  ASSUME ParsedFirst, [Next]_vars
  PROVE  ParsedFirst'
BY DEF ParsedFirst, Next, Parse, Sema, Stop, ParseVar, ParseFunc, ParseError, Exit,
       SemaGlobals, GlobalsClash, SemaExtern, SemaFunc, SemaClash, SemaCall, SemaVar,
       SemaError, FinishFunc, GenGlobals, vars

LEMMA StepSeenDeclared ==
  ASSUME TypeOK, SeenDeclared, [Next]_vars
  PROVE  SeenDeclared'
<1>1. /\ functions \in Seq(FuncDecl) /\ global_vars \in Seq(VarDecl)
      /\ Len(functions) \in Nat /\ Len(global_vars) \in Nat
      /\ DOMAIN functions = 1..Len(functions)
  BY LenProperties DEF TypeOK
<1>2. \A i \in 1..Len(functions) : functions[i].seen \in Nat
  <2>1. \A i \in 1..Len(functions) : functions[i] \in FuncDecl
    BY <1>1, ElementOfSeq
  <2> QED
    BY <2>1 DEF FuncDecl
<1>3. ASSUME NEW n \in VarNames, NEW type \in Types, NEW is_extern \in BOOLEAN,
             ParseVar(n, type, is_extern)
      PROVE  SeenDeclared'
  <2>1. [name |-> n, type |-> type, is_extern |-> is_extern] \in VarDecl
    BY DeclarationsAssumption DEF VarDecl
  <2>2. Len(global_vars') = Len(global_vars) + 1 /\ functions' = functions
    BY <1>1, <1>3, <2>1, AppendProperties DEF ParseVar
  <2> QED
    BY <1>1, <1>2, <2>2 DEF SeenDeclared
<1>4. ASSUME NEW n \in FuncNames, NEW params \in ParamLists, NEW is_varargs \in BOOLEAN,
             NEW is_extern \in BOOLEAN, ParseFunc(n, params, is_varargs, is_extern)
      PROVE  SeenDeclared'
  <2> DEFINE new == [name |-> n, params |-> params, is_varargs |-> is_varargs,
                     is_extern |-> is_extern, seen |-> Len(global_vars)]
  <2>1. new \in FuncDecl /\ new.seen = Len(global_vars)
    BY <1>1, ParamsType DEF FuncDecl
  <2>2. functions' = Append(functions, new) /\ global_vars' = global_vars
    BY <1>4 DEF ParseFunc
  <2> HIDE DEF new
  <2>3. /\ functions' \in Seq(FuncDecl) /\ Len(functions') = Len(functions) + 1
        /\ \A i \in 1..Len(functions) : functions'[i] = functions[i]
        /\ functions'[Len(functions) + 1] = new
    BY <1>1, <2>1, <2>2, AppendProperties
  <2>4. DOMAIN functions' = 1..(Len(functions) + 1)
    BY <2>3, LenProperties
  <2> QED
    BY <1>1, <2>1, <2>2, <2>3, <2>4 DEF SeenDeclared
<1>5. CASE UNCHANGED <<functions, global_vars>>
  BY <1>5 DEF SeenDeclared
<1> QED
  BY <1>3, <1>4, <1>5
  DEF Next, Parse, Sema, Stop, ParseError, Exit, SemaGlobals, GlobalsClash, SemaExtern,
      SemaFunc, SemaClash, SemaCall, SemaVar, SemaError, FinishFunc, GenGlobals, vars

\* What sema_func accepts agrees with every declaration accepted before, because it
\* agrees with the binding that stands for them.
LEMMA AcceptedAgrees ==
  ASSUME TypeOK, BindingStands, Accepts,
         NEW i \in DOMAIN All, All[i].name = Current.name
  PROVE  /\ Matched(Current.params, All[i].params)
         /\ Current.is_extern \/ All[i].is_extern
<1> DEFINE f == Find(func_env, Current.name)
<1>1. /\ Bound(func_env, Current.name)
      /\ Matched(f.params, All[i].params)
      /\ ~All[i].is_extern => ~f.is_extern
  BY DEF BindingStands, Accepts, SemaExtern, SemaFunc
<1>2. Matched(Current.params, f.params) /\ (Current.is_extern \/ f.is_extern)
  BY <1>1 DEF Accepts, SemaExtern, SemaFunc, Accepted, Compatible
<1>3. Current \in FuncDecl
  BY CurrentType DEF Accepts, SemaExtern, SemaFunc
<1>4. All \in Seq(FuncDecl) /\ All[i] \in FuncDecl
  BY AllIs, LenProperties, ElementOfSeq
<1>5. f \in FuncDecl
  BY <1>1, FindType DEF TypeOK
<1> HIDE DEF f
<1>6. Current.params \in Seq(Type) /\ All[i].params \in Seq(Type) /\ f.params \in Seq(Type)
  BY <1>3, <1>4, <1>5 DEF FuncDecl
<1>7. Matched(Current.params, All[i].params)
  BY <1>1, <1>2, <1>6, MatchedTransitive
<1> QED
  BY <1>1, <1>2, <1>7

LEMMA StepDeclarationsAgree ==
  ASSUME TypeOK, TypeOK', ParsedFirst, BindingStands, DeclarationsAgree, [Next]_vars
  PROVE  DeclarationsAgree'
<1>1. CASE ~Accepts
  <2>1. /\ DOMAIN All' \subseteq DOMAIN All
        /\ \A i \in DOMAIN All' : All'[i] = All[i]
    BY <1>1, OthersAddNone
  <2> QED
    BY <2>1 DEF DeclarationsAgree, SignaturesAgree, DefinedOnce
<1>2. CASE Accepts
  <2>1. PICK len \in Nat : /\ DOMAIN All = 1..len /\ DOMAIN All' = 1..(len + 1)
                           /\ \A i \in 1..len : All'[i] = All[i]
                           /\ All'[len + 1] = Current
    BY <1>2, AcceptsOne
  <2>2. \A i \in 1..len : All[i] \in FuncDecl
    BY <2>1, AllIs, LenProperties, ElementOfSeq
  <2>3. Current \in FuncDecl
    BY <1>2, CurrentType DEF Accepts, SemaExtern, SemaFunc
  <2>4. ASSUME NEW i \in 1..len, All[i].name = Current.name
        PROVE  /\ Matched(Current.params, All[i].params)
               /\ Matched(All[i].params, Current.params)
               /\ Current.is_extern \/ All[i].is_extern
    <3>1. /\ Matched(Current.params, All[i].params)
          /\ Current.is_extern \/ All[i].is_extern
      BY <1>2, <2>1, <2>4, AcceptedAgrees
    <3>2. Current.params \in Seq(Type) /\ All[i].params \in Seq(Type)
      BY <2>2, <2>3 DEF FuncDecl
    <3> QED
      BY <3>1, <3>2, MatchedSymmetric
  <2>5. SignaturesAgree'
    <3>1. ASSUME NEW i \in 1..(len + 1), NEW j \in 1..(len + 1), All'[i].name = All'[j].name
          PROVE  Matched(All'[i].params, All'[j].params)
      <4>1. CASE i \in 1..len /\ j \in 1..len
        BY <2>1, <3>1, <4>1 DEF DeclarationsAgree, SignaturesAgree
      <4>2. CASE i \in 1..len /\ j = len + 1
        BY <2>1, <2>4, <3>1, <4>2
      <4>3. CASE i = len + 1 /\ j \in 1..len
        BY <2>1, <2>4, <3>1, <4>3
      <4>4. CASE i = len + 1 /\ j = len + 1
        BY <4>4, MatchedReflexive
      <4> QED
        BY <4>1, <4>2, <4>3, <4>4
    <3> QED
      BY <2>1, <3>1 DEF SignaturesAgree
  <2>6. DefinedOnce'
    <3>1. ASSUME NEW i \in 1..(len + 1), NEW j \in 1..(len + 1), i # j,
                 All'[i].name = All'[j].name
          PROVE  All'[i].is_extern \/ All'[j].is_extern
      <4>1. CASE i \in 1..len /\ j \in 1..len
        BY <2>1, <3>1, <4>1 DEF DeclarationsAgree, DefinedOnce
      <4>2. CASE i \in 1..len /\ j = len + 1
        BY <2>1, <2>4, <3>1, <4>2
      <4>3. CASE i = len + 1 /\ j \in 1..len
        BY <2>1, <2>4, <3>1, <4>3
      <4> QED
        BY <3>1, <4>1, <4>2, <4>3
    <3> QED
      BY <2>1, <3>1 DEF DefinedOnce
  <2> QED
    BY <2>5, <2>6 DEF DeclarationsAgree
<1> QED
  BY <1>1, <1>2

LEMMA StepBindingStands ==
  ASSUME TypeOK, TypeOK', ParsedFirst, BindingStands, [Next]_vars
  PROVE  BindingStands'
<1> SUFFICES ASSUME phase' # "exit", NEW i \in DOMAIN All'
             PROVE  /\ Bound(func_env', All'[i].name)
                    /\ Matched(Find(func_env', All'[i].name).params, All'[i].params)
                    /\ ~All'[i].is_extern => ~Find(func_env', All'[i].name).is_extern
  BY DEF BindingStands
<1>1. phase # "exit"
  BY DEF Next, Parse, Sema, Stop, ParseVar, ParseFunc, ParseError, Exit, SemaGlobals,
         GlobalsClash, SemaExtern, SemaFunc, SemaClash, SemaCall, SemaVar, SemaError,
         FinishFunc, GenGlobals, vars
<1>2. CASE ~Accepts
  <2>1. func_env' = func_env /\ i \in DOMAIN All /\ All'[i] = All[i]
    BY <1>2, OthersAddNone
  <2> QED
    BY <1>1, <2>1 DEF BindingStands
<1>3. CASE Accepts
  <2>1. PICK len \in Nat : /\ DOMAIN All = 1..len /\ DOMAIN All' = 1..(len + 1)
                           /\ \A j \in 1..len : All'[j] = All[j]
                           /\ All'[len + 1] = Current
    BY <1>3, AcceptsOne
  <2>2. CASE i = len + 1
    <3>1. All'[len + 1] = Current
      BY <2>1
    <3>2. /\ Bound(func_env', Current.name)
          /\ Matched(Find(func_env', Current.name).params, Current.params)
          /\ ~Current.is_extern => ~Find(func_env', Current.name).is_extern
      BY <1>3, Rebinding
    <3> QED
      BY <2>2, <3>1, <3>2
  <2>3. CASE i \in 1..len
    <3> DEFINE n == All[i].name
               f == Find(func_env, n)
               g == Find(func_env', n)
    <3>1. i \in DOMAIN All /\ All'[i] = All[i]
      BY <2>1, <2>3
    <3>2. Bound(func_env, n) /\ Matched(f.params, All[i].params)
          /\ (~All[i].is_extern => ~f.is_extern)
      BY <1>1, <3>1 DEF BindingStands
    <3>3. Bound(func_env', n) /\ Matched(g.params, f.params)
          /\ (~f.is_extern => ~g.is_extern)
      BY <1>3, <3>2, Rebinding
    <3>4. f \in FuncDecl /\ g \in FuncDecl
      BY <3>2, <3>3, FindType DEF TypeOK
    <3>5. All[i] \in FuncDecl
      BY <3>1, AllIs, LenProperties, ElementOfSeq
    <3> HIDE DEF f, g
    <3>6. f.params \in Seq(Type) /\ g.params \in Seq(Type) /\ All[i].params \in Seq(Type)
      BY <3>4, <3>5 DEF FuncDecl
    <3>7. Matched(g.params, All[i].params)
      BY <3>2, <3>3, <3>6, MatchedTransitive
    <3> QED
      BY <3>1, <3>2, <3>3, <3>7 DEF g
  <2> QED
    BY <2>1, <2>2, <2>3
<1> QED
  BY <1>2, <1>3

LEMMA StepCallsStand ==
  ASSUME TypeOK, TypeOK', ParsedFirst, CallsStand, [Next]_vars
  PROVE  CallsStand'
<1> SUFFICES ASSUME phase' # "exit", NEW c \in checked'
             PROVE  Bound(func_env', c.name) /\ Matched(Find(func_env', c.name).params, c.params)
  BY DEF CallsStand
<1>1. phase # "exit"
  BY DEF Next, Parse, Sema, Stop, ParseVar, ParseFunc, ParseError, Exit, SemaGlobals,
         GlobalsClash, SemaExtern, SemaFunc, SemaClash, SemaCall, SemaVar, SemaError,
         FinishFunc, GenGlobals, vars
<1>2. CASE c \in checked
  <2>1. Bound(func_env, c.name) /\ Matched(Find(func_env, c.name).params, c.params)
    BY <1>1, <1>2 DEF CallsStand
  <2>2. CASE ~Accepts
    <3>1. func_env' = func_env
      BY <2>2, OthersAddNone
    <3> QED
      BY <2>1, <3>1
  <2>3. CASE Accepts
    <3> DEFINE f == Find(func_env, c.name)
               g == Find(func_env', c.name)
    <3>1. Bound(func_env', c.name) /\ Matched(g.params, f.params)
      BY <2>1, <2>3, Rebinding
    <3>2. f \in FuncDecl /\ g \in FuncDecl
      BY <2>1, <3>1, FindType DEF TypeOK
    <3>3. c.params \in Seq(Type)
      BY <1>2 DEF TypeOK
    <3> HIDE DEF f, g
    <3>4. f.params \in Seq(Type) /\ g.params \in Seq(Type)
      BY <3>2 DEF FuncDecl
    <3>5. Matched(f.params, c.params)
      BY <2>1 DEF f
    <3>6. Matched(g.params, c.params)
      BY <3>1, <3>3, <3>4, <3>5, MatchedTransitive
    <3> QED
      BY <3>1, <3>6 DEF g
  <2> QED
    BY <2>2, <2>3
<1>3. CASE c \notin checked
  <2>1. PICK n \in FuncNames, argc \in 0..MaxParams : SemaCall(n, argc)
    BY <1>3 DEF Next, Parse, Sema, Stop, ParseVar, ParseFunc, ParseError, Exit, SemaGlobals,
                GlobalsClash, SemaExtern, SemaFunc, SemaClash, SemaVar, SemaError,
                FinishFunc, GenGlobals, vars
  <2>2. /\ Bound(func_env, n) /\ func_env' = func_env
        /\ checked' = checked \cup {[name |-> n, params |-> Find(func_env, n).params]}
    BY <2>1 DEF SemaCall
  <2>3. c.name = n /\ c.params = Find(func_env, n).params
    BY <1>3, <2>2
  <2> QED
    BY <2>2, <2>3, MatchedReflexive
<1> QED
  BY <1>2, <1>3

\* Outside parsing the globals stay as they are.
LEMMA GlobalsFrozen ==
  ASSUME [Next]_vars, phase # "parse"
  PROVE  global_vars' = global_vars /\ phase' # "parse"
BY DEF Next, Parse, Sema, Stop, ParseVar, ParseFunc, ParseError, Exit, SemaGlobals,
       GlobalsClash, SemaExtern, SemaFunc, SemaClash, SemaCall, SemaVar, SemaError,
       FinishFunc, GenGlobals, vars

LEMMA ConflictSymmetric ==
  ASSUME NEW g, NEW h, Conflict(g, h)
  PROVE  Conflict(h, g)
BY EqTypeEquivalence DEF Conflict

LEMMA StepGlobalsAgree ==
  ASSUME TypeOK, GlobalsAgree, [Next]_vars
  PROVE  GlobalsAgree'
<1>1. CASE SemaGlobals
  <2>1. Len(global_vars) \in Nat /\ DOMAIN global_vars = 1..Len(global_vars)
    BY LenProperties DEF TypeOK
  <2>2. \A i \in DOMAIN global_vars : \A j \in 1..(i - 1) :
          ~Conflict(global_vars[i], global_vars[j])
    BY <1>1 DEF SemaGlobals
  <2>3. ASSUME NEW i \in DOMAIN global_vars, NEW j \in DOMAIN global_vars, i # j
        PROVE  ~Conflict(global_vars[i], global_vars[j])
    <3>1. i \in Int /\ j \in Int /\ (j \in 1..(i - 1) \/ i \in 1..(j - 1))
      BY <2>1, <2>3
    <3> QED
      BY <2>2, <3>1, ConflictSymmetric
  <2>4. global_vars' = global_vars
    BY <1>1 DEF SemaGlobals
  <2> QED
    BY <2>3, <2>4 DEF GlobalsAgree
<1>2. CASE ~SemaGlobals /\ phase' \in {"funcs", "body", "gen"}
  <2>1. phase \in {"funcs", "body", "gen"}
    BY <1>2 DEF Next, Parse, Sema, Stop, ParseVar, ParseFunc, ParseError, Exit,
                GlobalsClash, SemaExtern, SemaFunc, SemaClash, SemaCall, SemaVar, SemaError,
                FinishFunc, GenGlobals, vars
  <2>2. global_vars' = global_vars
    BY <2>1, GlobalsFrozen
  <2> QED
    BY <2>1, <2>2 DEF GlobalsAgree
<1> QED
  BY <1>1, <1>2 DEF GlobalsAgree

LEMMA StepReferences ==
  ASSUME TypeOK, ParsedFirst, SeenDeclared, GlobalsAgree, ReferencesSeen, ReferencesAgree,
         [Next]_vars
  PROVE  ReferencesSeen' /\ ReferencesAgree'
<1>1. ASSUME NEW n \in VarNames, SemaVar(n)
      PROVE  ReferencesSeen' /\ ReferencesAgree'
  <2> DEFINE seen == Current.seen
             d == Find(Visible, n)
  <2>1. seen \in Nat /\ seen <= Len(global_vars) /\ \E i \in 1..seen : d = global_vars[i]
    BY <1>1, ReferenceFound
  <2>2. /\ resolved' = resolved \cup {[at |-> seen, decl |-> d]}
        /\ global_vars' = global_vars /\ phase = "body"
    BY <1>1 DEF SemaVar
  <2> HIDE DEF seen, d
  <2>3. PICK k \in 1..seen : d = global_vars[k]
    BY <2>1
  <2>4. Len(global_vars) \in Nat /\ DOMAIN global_vars = 1..Len(global_vars)
    BY LenProperties DEF TypeOK
  <2>5. k \in DOMAIN global_vars
    BY <2>1, <2>3, <2>4
  <2>6. ASSUME NEW i \in DOMAIN global_vars, global_vars[i].name = d.name
        PROVE  EqType(global_vars[i].type, d.type)
    <3>1. CASE i = k
      BY <2>3, <3>1, EqTypeEquivalence
    <3>2. CASE i # k
      <4>1. ~Conflict(global_vars[i], global_vars[k])
        BY <2>2, <2>5, <3>2 DEF GlobalsAgree
      <4> QED
        BY <2>3, <2>6, <4>1 DEF Conflict
    <3> QED
      BY <3>1, <3>2
  <2>7. ReferencesSeen'
    BY <2>1, <2>2 DEF ReferencesSeen
  <2>8. ReferencesAgree'
    BY <2>2, <2>3, <2>6 DEF ReferencesAgree
  <2> QED
    BY <2>7, <2>8
<1>2. CASE UNCHANGED <<resolved, global_vars>>
  BY <1>2 DEF ReferencesSeen, ReferencesAgree
<1>3. CASE resolved = {} /\ resolved' = {}
  BY <1>3 DEF ReferencesSeen, ReferencesAgree
<1> QED
  BY <1>1, <1>2, <1>3
  DEF Next, Parse, Sema, Stop, ParseVar, ParseFunc, ParseError, Exit, SemaGlobals,
      GlobalsClash, SemaExtern, SemaFunc, SemaClash, SemaCall, SemaError, FinishFunc,
      GenGlobals, ParsedFirst, vars

LEMMA StepEmittedStored ==
  ASSUME EmittedStored, [Next]_vars
  PROVE  EmittedStored'
<1>1. CASE GenGlobals
  BY <1>1 DEF GenGlobals, EmittedStored
<1>2. CASE ~GenGlobals
  BY <1>2 DEF EmittedStored, Next, Parse, Sema, Stop, ParseVar, ParseFunc, ParseError, Exit,
              SemaGlobals, GlobalsClash, SemaExtern, SemaFunc, SemaClash, SemaCall, SemaVar,
              SemaError, FinishFunc, vars
<1> QED
  BY <1>1, <1>2

-----------------------------------------------------------------------------
(* The theorems.                                                           *)

LEMMA InitIInv == Init => IInv
<1> SUFFICES ASSUME Init
             PROVE  IInv
  OBVIOUS
<1>1. /\ phase = "parse" /\ functions = <<>> /\ global_vars = <<>> /\ done = 0
      /\ func_env = Builtins /\ checked = {} /\ resolved = {} /\ emitted = {}
  BY DEF Init
<1>2. /\ <<>> \in Seq(FuncDecl) /\ <<>> \in Seq(VarDecl)
      /\ Len(functions) = 0 /\ DOMAIN functions = {}
  BY <1>1
<1>3. TypeOK
  BY <1>1, <1>2, DeclarationsAssumption DEF TypeOK
<1>4. DOMAIN All = DOMAIN Builtins /\ \A i \in DOMAIN All : All[i] = Builtins[i]
  <2>1. PastLen = 0 /\ DOMAIN Builtins = 1..Len(Builtins)
    BY <1>1, LenProperties, DeclarationsAssumption DEF PastLen
  <2> QED
    BY <1>3, <2>1, AllIs
<1>5. DeclarationsAgree
  BY <1>4, DeclarationsAssumption, MatchedReflexive
  DEF DeclarationsAgree, SignaturesAgree, DefinedOnce
<1>6. BindingStands
  <2>1. ASSUME NEW i \in DOMAIN Builtins
        PROVE  Bound(Builtins, Builtins[i].name) /\ Find(Builtins, Builtins[i].name) = Builtins[i]
    <3>1. Builtins \in Seq(FuncDecl)
      BY DeclarationsAssumption
    <3>2. Len(Builtins) \in Nat /\ DOMAIN Builtins = 1..Len(Builtins)
      BY <3>1, LenProperties
    <3>3. ASSUME NEW j \in (i + 1)..Len(Builtins)
          PROVE  Builtins[j].name # Builtins[i].name
      <4>1. j \in DOMAIN Builtins /\ j # i
        BY <3>2
      <4> QED
        BY <4>1, DeclarationsAssumption
    <3>4. Latest(Builtins, Builtins[i].name, i)
      BY <3>3 DEF Latest
    <3> QED
      BY <3>1, <3>4, FindUnique
  <2> QED
    BY <1>1, <1>4, <2>1, MatchedReflexive DEF BindingStands
<1> QED
  BY <1>1, <1>2, <1>3, <1>5, <1>6
  DEF IInv, ParsedFirst, SeenDeclared, CallsStand, GlobalsAgree, ReferencesSeen,
      ReferencesAgree, EmittedStored

LEMMA StepIInv == IInv /\ [Next]_vars => IInv'
<1> SUFFICES ASSUME IInv, [Next]_vars
             PROVE  IInv'
  OBVIOUS
<1>1. TypeOK'
  BY StepTypeOK DEF IInv
<1>2. ParsedFirst' /\ SeenDeclared'
  BY StepParsedFirst, StepSeenDeclared DEF IInv
<1>3. DeclarationsAgree'
  BY <1>1, StepDeclarationsAgree DEF IInv
<1>4. BindingStands' /\ CallsStand'
  BY <1>1, StepBindingStands, StepCallsStand DEF IInv
<1>5. GlobalsAgree' /\ ReferencesSeen' /\ ReferencesAgree' /\ EmittedStored'
  BY StepGlobalsAgree, StepReferences, StepEmittedStored DEF IInv
<1> QED
  BY <1>1, <1>2, <1>3, <1>4, <1>5 DEF IInv

\* The invariant holds throughout.
THEOREM Invariance == Spec => []IInv
BY InitIInv, StepIInv, PTL DEF Spec

\* The declarations, bindings and references stay well-formed, and sema_func never
\* runs ahead of the functions parsed.
THEOREM TypeCorrect == Spec => []TypeOK
<1>1. IInv => TypeOK
  BY DEF IInv
<1> QED
  BY <1>1, Invariance, PTL

\* Whatever the order of prototypes and definitions, and although sema_func compares
\* each with one binding only: all accepted declarations of a name agree on the
\* parameters, builtins included, and at most one is a definition.
THEOREM AllDeclarationsAgree == Spec => []DeclarationsAgree
<1>1. IInv => DeclarationsAgree
  BY DEF IInv
<1> QED
  BY <1>1, Invariance, PTL

\* The binding gen_expr finds for a call agrees with the one the call was checked
\* against, however often the name was bound again in between.
THEOREM CallsKeepTheirShape == Spec => []CallsStillMatch
<1>1. IInv => CallsStillMatch
  BY DEF IInv, CallsStand, CallsStillMatch, ParamsAtCall
<1> QED
  BY <1>1, Invariance, PTL

\* A body refers to a global declared before its end, with the type of every other
\* declaration of that global in the file.
THEOREM ReferencesHold == Spec => []ReferencesAgree
<1>1. IInv => ReferencesAgree
  BY DEF IInv
<1> QED
  BY <1>1, Invariance, PTL

\* No variable gets storage twice, and none that is defined goes without, enum types
\* apart.
THEOREM StorageGivenOnce == Spec => []StorageOnce
<1>1. ASSUME IInv
      PROVE  StorageOnce
  <2>1. ASSUME phase = "gen", NEW i \in emitted, NEW j \in emitted, i # j
        PROVE  global_vars[i].name # global_vars[j].name
    <3>1. /\ i \in DOMAIN global_vars /\ j \in DOMAIN global_vars
          /\ ~global_vars[i].is_extern /\ ~global_vars[j].is_extern
      BY <1>1, <2>1 DEF IInv, EmittedStored, StoredVar
    <3>2. ~Conflict(global_vars[i], global_vars[j])
      BY <1>1, <2>1, <3>1 DEF IInv, GlobalsAgree
    <3> QED
      BY <3>1, <3>2 DEF Conflict
  <2>2. ASSUME phase = "gen", NEW i \in DOMAIN global_vars, ~global_vars[i].is_extern,
               global_vars[i].type.ty # "enum"
        PROVE  i \in emitted
    BY <1>1, <2>2 DEF IInv, EmittedStored, StoredVar
  <2> QED
    BY <2>1, <2>2 DEF StorageOnce
<1> QED
  BY <1>1, Invariance, PTL
=============================================================================
