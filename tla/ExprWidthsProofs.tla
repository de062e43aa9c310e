-------------------------- MODULE ExprWidthsProofs --------------------------
(***************************************************************************)
(* Proofs about ExprWidths, for every set of types and any number of       *)
(* expressions on the stack.                                               *)
(***************************************************************************)
EXTENDS ExprWidths, SequenceTheorems, TLAPS

-----------------------------------------------------------------------------
(* The inductive invariant.                                                *)

Words == [ok : {0, 1, 4, 8}, clear : BOOLEAN]
Exprs == [type : Types, rax : Words, top : Words, lval : BOOLEAN, truth : BOOLEAN]

\* What the code for an expression owes the code around it. Only the value of an
\* object can be an lvalue, and no object is known to be non-negative.
Sure(e) ==
  /\ e.top.ok >= size(e.type)
  /\ e.rax.ok = 0 \/ (e.rax.ok >= size(e.type) /\ e.truth)
  /\ e.lval => e.top # Natural /\ ptr_of(e.type) \in Types

Typed ==
  /\ exprs \in Seq(Exprs)
  /\ phase \in {"running", "misread", "refused"}

IInv ==
  /\ Typed
  /\ \A i \in 1..Len(exprs) : Sure(exprs[i])
  /\ MisreadsOnly
  /\ RefusesOnly

-----------------------------------------------------------------------------
(* Types.                                                                  *)

\* What is known of a scalar type.
LEMMA ScalarFacts ==
  ASSUME NEW t, IsScalar(t)
  PROVE  /\ t.ty \in {"INT", "CHAR", "ENUM", "PTR"}
         /\ t.ty = "INT" <=> t = IntT
         /\ t.ty = "CHAR" <=> t = CharT
         /\ t.ty = "ENUM" <=> t = EnumT
         /\ t.ty = "PTR" <=> t = ptr_of(t.ptr_to)
         /\ coerce_pointer(t) = t
         /\ type_size(t) = scalar_size(t) /\ size(t) = scalar_size(t)
<1>1. CASE t = ptr_of(t.ptr_to)
  <2>1. t.ty = "PTR"
    BY <1>1 DEF ptr_of
  <2> QED
    BY <1>1, <2>1 DEF IntT, CharT, EnumT, coerce_pointer, type_size, size
<1>2. CASE t = IntT
  <2>1. t.ty = "INT" /\ ptr_of(t.ptr_to).ty = "PTR"
    BY <1>2 DEF IntT, ptr_of
  <2> QED
    BY <1>2, <2>1 DEF IntT, CharT, EnumT, coerce_pointer, type_size, size
<1>3. CASE t = CharT
  <2>1. t.ty = "CHAR" /\ ptr_of(t.ptr_to).ty = "PTR"
    BY <1>3 DEF CharT, ptr_of
  <2> QED
    BY <1>3, <2>1 DEF IntT, CharT, EnumT, coerce_pointer, type_size, size
<1>4. CASE t = EnumT
  <2>1. t.ty = "ENUM" /\ ptr_of(t.ptr_to).ty = "PTR"
    BY <1>4 DEF EnumT, ptr_of
  <2> QED
    BY <1>4, <2>1 DEF IntT, CharT, EnumT, coerce_pointer, type_size, size
<1> QED
  BY <1>1, <1>2, <1>3, <1>4 DEF IsScalar

\* The size of a scalar type says which it is.
LEMMA ScalarSizes ==
  ASSUME NEW t, t.ty \in {"INT", "CHAR", "ENUM", "PTR"}
  PROVE  /\ scalar_size(t) \in {1, 4, 8}
         /\ scalar_size(t) = 1 <=> t.ty = "CHAR"
         /\ scalar_size(t) = 8 <=> t.ty = "PTR"
<1>1. CASE t.ty = "CHAR"
  BY <1>1 DEF scalar_size
<1>2. CASE t.ty = "PTR"
  BY <1>2 DEF scalar_size
<1>3. CASE t.ty \in {"INT", "ENUM"}
  <2>1. t.ty # "CHAR" /\ t.ty # "PTR"
    BY <1>3
  <2> QED
    BY <1>3, <2>1 DEF scalar_size
<1> QED
  BY <1>1, <1>2, <1>3

\* What is known of an array type.
LEMMA ArrayFacts ==
  ASSUME NEW t, IsArray(t)
  PROVE  /\ t.ty = "ARRAY" /\ ~IsScalar(t)
         /\ coerce_pointer(t) = ptr_of(t.ptr_to)
         /\ size(t) = 8
         /\ type_size(t) \in Nat \ {0}
<1>1. t.ty = "ARRAY" /\ t.array_size \in Nat \ {0} /\ IsScalar(t.ptr_to)
  BY DEF IsArray, array_of
<1>2. ~IsScalar(t)
  BY <1>1, ScalarFacts
<1>3. coerce_pointer(t) = ptr_of(t.ptr_to)
  BY <1>1 DEF coerce_pointer
<1>4. ptr_of(t.ptr_to).ty = "PTR"
  BY DEF ptr_of
<1>5. size(t) = 8
  <2>1. size(t) = scalar_size(ptr_of(t.ptr_to))
    BY <1>3, <1>4 DEF size, type_size
  <2> QED
    BY <2>1, <1>4, ScalarSizes
<1>6. scalar_size(t.ptr_to) \in {1, 4, 8}
  BY <1>1, ScalarFacts, ScalarSizes
<1>7. type_size(t) = t.array_size * scalar_size(t.ptr_to)
  BY <1>1 DEF type_size
<1>8. \A n \in Nat \ {0}, k \in {1, 4, 8} : n * k \in Nat \ {0}
  OBVIOUS
<1> QED
  BY <1>1, <1>2, <1>3, <1>5, <1>6, <1>7, <1>8

\* A type is scalar, or the array type of a variable.
LEMMA TypeShapes ==
  ASSUME NEW t \in Types
  PROVE  IsScalar(t) \/ (t \in VarTypes /\ IsArray(t))
<1>1. CASE t \in VarTypes
  BY <1>1, TypesAssumption
<1>2. CASE t \in Targets
  BY <1>2, TypesAssumption
<1>3. CASE t \in {IntT, CharT, EnumT}
  BY <1>3 DEF IsScalar
<1>4. \A u : IsScalar(ptr_of(u))
  BY DEF IsScalar, ptr_of
<1> QED
  BY <1>1, <1>2, <1>3, <1>4 DEF Types

\* What a pointer or an array is made of can be the type of an expression.
LEMMA PointeeFacts ==
  ASSUME NEW t \in Types, is_pointer_compat(t)
  PROVE  /\ t.ptr_to \in Types \cup {VoidT}
         /\ ptr_of(t.ptr_to) \in Types
         /\ t.ptr_to = VoidT => t = ptr_of(VoidT)
<1>1. \A u : ptr_of(u).ptr_to = u /\ is_pointer_compat(ptr_of(u))
  BY DEF ptr_of, is_pointer_compat
<1>2. VarTypes \subseteq Types /\ CharT \in Types
  BY DEF Types
<1>3. CASE IsScalar(t)
  <2>1. t = ptr_of(t.ptr_to)
    BY <1>3, ScalarFacts DEF is_pointer_compat
  <2>2. CASE t \in VarTypes \cup Targets
    BY <2>1, <2>2, TypesAssumption
  <2>3. CASE t \in {IntT, CharT, EnumT}
    BY <2>3 DEF IntT, CharT, EnumT, is_pointer_compat
  <2>4. CASE t \in {ptr_of(CharT), ptr_of(VoidT)}
    BY <2>4, <2>1, <1>1, <1>2
  <2>5. CASE t \in {ptr_of(u) : u \in VarTypes}
    BY <2>5, <2>1, <1>1, <1>2
  <2>6. CASE t \in {ptr_of(u.ptr_to) : u \in {v \in VarTypes : v.ty = "ARRAY"}}
    <3>1. PICK u \in VarTypes : u.ty = "ARRAY" /\ t = ptr_of(u.ptr_to)
      BY <2>6
    <3>2. u.ptr_to \in Types \cup {VoidT}
      BY <3>1, TypesAssumption DEF is_pointer_compat
    <3> QED
      BY <3>1, <3>2, <2>1, <1>1
  <2> QED
    BY <2>2, <2>3, <2>4, <2>5, <2>6 DEF Types
<1>4. CASE t \in VarTypes /\ IsArray(t)
  <2>1. t.ty = "ARRAY" /\ IsScalar(t.ptr_to)
    BY <1>4, ArrayFacts DEF IsArray
  <2>2. ptr_of(t.ptr_to) \in Types
    BY <1>4, <2>1 DEF Types
  <2>3. t.ptr_to # VoidT
    BY <2>1, ScalarFacts DEF VoidT
  <2> QED
    BY <1>4, <2>2, <2>3, TypesAssumption
<1> QED
  BY <1>3, <1>4, TypeShapes

\* The kinds of types, and what they are decayed to.
LEMMA TypeFacts ==
  ASSUME NEW t \in Types
  PROVE  /\ t.ty \in {"INT", "CHAR", "ENUM", "PTR", "ARRAY"}
         /\ t.ty = "INT" <=> t = IntT
         /\ t.ty = "CHAR" <=> t = CharT
         /\ t.ty = "ENUM" <=> t = EnumT
         /\ coerce_pointer(t) \in Types
<1>1. CASE IsScalar(t)
  BY <1>1, ScalarFacts
<1>2. CASE t \in VarTypes /\ IsArray(t)
  <2>1. t.ty = "ARRAY" /\ coerce_pointer(t) = ptr_of(t.ptr_to)
    BY <1>2, ArrayFacts
  <2>2. t # IntT /\ t # CharT /\ t # EnumT
    BY <2>1 DEF IntT, CharT, EnumT
  <2>3. ptr_of(t.ptr_to) \in Types
    BY <2>1, PointeeFacts DEF is_pointer_compat
  <2> QED
    BY <2>1, <2>2, <2>3
<1> QED
  BY <1>1, <1>2, TypeShapes

\* The sizes of a value and of the object it is taken from.
LEMMA SizeFacts ==
  ASSUME NEW t \in Types
  PROVE  /\ size(t) \in {1, 4, 8}
         /\ size(t) = 1 <=> t = CharT
         /\ size(t) = 8 <=> is_pointer_compat(t)
         /\ type_size(t) \in Nat \ {0}
         /\ t.ty # "ARRAY" => type_size(t) = size(t)
<1>1. CASE IsScalar(t)
  <2>1. t.ty \in {"INT", "CHAR", "ENUM", "PTR"} /\ (t.ty = "CHAR" <=> t = CharT)
    BY <1>1, ScalarFacts
  <2>2. type_size(t) = scalar_size(t) /\ size(t) = scalar_size(t)
    BY <1>1, ScalarFacts
  <2>3. is_pointer_compat(t) <=> t.ty = "PTR"
    BY <2>1 DEF is_pointer_compat
  <2> QED
    BY <2>1, <2>2, <2>3, ScalarSizes
<1>2. CASE t \in VarTypes /\ IsArray(t)
  <2>1. t.ty = "ARRAY" /\ size(t) = 8 /\ type_size(t) \in Nat \ {0}
    BY <1>2, ArrayFacts
  <2>2. t # CharT /\ is_pointer_compat(t)
    BY <2>1 DEF CharT, is_pointer_compat
  <2> QED
    BY <2>1, <2>2
<1> QED
  BY <1>1, <1>2, TypeShapes

\* The types that expressions have by themselves.
LEMMA OwnTypes ==
  /\ {IntT, CharT, EnumT, ptr_of(CharT), ptr_of(VoidT)} \subseteq Types
  /\ size(IntT) = 4 /\ size(CharT) = 1 /\ size(EnumT) = 4
  /\ \A t : size(ptr_of(t)) = 8
<1>1. IsScalar(IntT) /\ IsScalar(CharT) /\ IsScalar(EnumT) /\ \A t : IsScalar(ptr_of(t))
  BY DEF IsScalar, ptr_of
<1>2. /\ IntT.ty = "INT" /\ CharT.ty = "CHAR" /\ EnumT.ty = "ENUM"
      /\ \A t : ptr_of(t).ty = "PTR"
  BY DEF IntT, CharT, EnumT, ptr_of
<1>3. size(IntT) = 4 /\ size(CharT) = 1 /\ size(EnumT) = 4
  BY <1>1, <1>2, ScalarFacts, ScalarSizes
<1>4. \A t : size(ptr_of(t)) = 8
  BY <1>1, <1>2, ScalarFacts, ScalarSizes
<1> QED
  BY <1>3, <1>4 DEF Types

-----------------------------------------------------------------------------
(* Words.                                                                  *)

LEMMA WordFacts ==
  ASSUME NEW n \in {0, 1, 4, 8}, NEW c \in BOOLEAN
  PROVE  Word(n, c) \in Words /\ Word(n, c).ok = n
  BY Zenon DEF Word, Words

LEMMA LiteralWords ==
  \A n \in {0, 1, 4, 8} : /\ Word(n, TRUE) \in Words /\ Word(n, TRUE).ok = n
                          /\ Word(n, FALSE) \in Words /\ Word(n, FALSE).ok = n
  BY WordFacts, Zenon

\* A complete word, which a non-negative number leaves, and an address.
LEMMA WholeWords ==
  /\ Natural \in Words /\ Natural.ok = 8
  /\ Address \in Words /\ Address.ok = 8 /\ Address # Natural
<1>1. Natural \in Words /\ Address \in Words
  BY WordFacts DEF Natural, Address
<1>2. Natural.ok = 8 /\ Address.ok = 8
  BY WordFacts DEF Natural, Address
<1>3. Natural.clear = TRUE /\ Address.clear = FALSE
  BY Zenon DEF Natural, Address, Word
<1> QED
  BY <1>1, <1>2, <1>3

\* Writing n bytes makes n bytes sure, and no more.
LEMMA WrittenWords ==
  ASSUME NEW old \in Words, NEW n \in {1, 4, 8}
  PROVE  /\ ToMemory(old, n) \in Words /\ ToMemory(old, n).ok = n
         /\ ToMemory(old, n) # Natural
         /\ ToRegister(old, n) \in Words /\ ToRegister(old, n).ok = n
         /\ ToRegister(old, n) # Natural
<1>1. old.clear \in BOOLEAN
  BY Zenon DEF Words
<1>2. /\ ToMemory(old, n) \in Words /\ ToMemory(old, n).ok = n
      /\ ToMemory(old, n) # Natural
  <2>1. CASE n = 8
    <3>1. ToMemory(old, n) = Address
      BY <2>1 DEF ToMemory
    <3> QED
      BY <3>1, <2>1, WholeWords
  <2>2. CASE n # 8
    <3>1. ToMemory(old, n) = Word(n, old.clear)
      BY <2>2 DEF ToMemory
    <3> QED
      BY <3>1, <2>2, <1>1, WordFacts, WholeWords
  <2> QED
    BY <2>1, <2>2
<1>3. CASE n = 4
  <2>1. ToRegister(old, n) = Word(4, TRUE)
    BY <1>3 DEF ToRegister
  <2>2. ToRegister(old, n) \in Words /\ ToRegister(old, n).ok = 4
    BY <2>1, LiteralWords, Zenon
  <2> QED
    BY <2>2, <1>2, <1>3, WholeWords
<1>4. CASE n # 4
  <2>1. ToRegister(old, n) = ToMemory(old, n)
    BY <1>4 DEF ToRegister
  <2> QED
    BY <2>1, <1>2
<1> QED
  BY <1>2, <1>3, <1>4

\* Loading an object of n bytes makes them sure.
LEMMA LoadedWords ==
  ASSUME NEW n \in {1, 4, 8}
  PROVE  load_rax(n) \in Words /\ load_rax(n).ok >= n /\ load_rax(n) # Natural
<1>1. CASE n = 1
  <2>1. load_rax(n) = Word(4, TRUE)
    BY <1>1 DEF load_rax
  <2>2. load_rax(n) \in Words /\ load_rax(n).ok = 4
    BY <2>1, LiteralWords, Zenon
  <2> QED
    BY <2>2, <1>1, WholeWords
<1>2. CASE n # 1
  <2>1. load_rax(n) = ToRegister(Address, n)
    BY <1>2 DEF load_rax
  <2> QED
    BY <2>1, <1>2, WrittenWords, WholeWords
<1> QED
  BY <1>1, <1>2

\* What extend_rax does to a word: nothing if there is nothing to extend, and
\* what it is for unless it would have to take a char or an array to 8 bytes.
LEMMA ExtendedWords ==
  ASSUME NEW w \in Words, NEW dst \in Sizes, NEW src \in Nat \ {0}, NEW own \in Sizes
  PROVE  /\ extend_rax(w, dst, src, own) \in Words
         /\ dst <= src \/ w = Natural => extend_rax(w, dst, src, own) = w
         /\ dst = 4 /\ w.ok >= 1 => extend_rax(w, dst, src, own).ok >= 4 \/ dst <= src
         /\ dst = 8 /\ w.ok >= 4 /\ own # 8 => extend_rax(w, dst, src, own).ok = 8 \/ dst <= src
<1> USE DEF Sizes
<1> DEFINE x == extend_rax(w, dst, src, own)
<1> SUFFICES /\ x \in Words
             /\ dst <= src \/ w = Natural => x = w
             /\ dst = 4 /\ w.ok >= 1 => x.ok >= 4 \/ dst <= src
             /\ dst = 8 /\ w.ok >= 4 /\ own # 8 => x.ok = 8 \/ dst <= src
  OBVIOUS
<1>1. CASE dst <= src \/ w = Natural
  <2>1. x = w
    BY <1>1 DEF extend_rax
  <2>2. w = Natural => w.ok = 8
    BY WholeWords
  <2> QED
    BY <2>1, <2>2, <1>1
<1>2. CASE dst > src /\ dst = 4 /\ w # Natural
  <2>1. ~(dst <= src \/ w = Natural) /\ dst # 8
    BY <1>2
  <2>2. x = w \/ x = Word(4, TRUE)
    BY <1>2, <2>1, Zenon DEF extend_rax
  <2>3. w.ok >= 1 => x = Word(4, TRUE)
    BY <1>2, <2>1, Zenon DEF extend_rax
  <2>4. x \in Words /\ (w.ok >= 1 => x.ok = 4)
    BY <2>2, <2>3, LiteralWords, Zenon
  <2> HIDE DEF x
  <2> QED
    BY <2>1, <2>4, <1>2
<1>3. CASE dst > src /\ dst = 8 /\ w # Natural
  <2>1. ~(dst <= src \/ w = Natural) /\ dst # 4
    BY <1>3
  <2>2. x = w \/ x = Word(4, FALSE) \/ x = Word(8, FALSE)
    BY <1>3, <2>1, Zenon DEF extend_rax
  <2>3. w.ok >= 4 /\ own # 8 => x = Word(8, FALSE)
    BY <1>3, <2>1, Zenon DEF extend_rax
  <2>4. x \in Words /\ (w.ok >= 4 /\ own # 8 => x.ok = 8)
    BY <2>2, <2>3, LiteralWords, Zenon
  <2> HIDE DEF x
  <2> QED
    BY <2>1, <2>4, <1>3
<1>4. CASE dst > src /\ dst = 1
  BY <1>4
<1> QED
  BY <1>1, <1>2, <1>3, <1>4

\* Both words are sure as far as either is.
LEMMA BothWords ==
  ASSUME NEW v \in Words, NEW w \in Words
  PROVE  /\ Both(v, w) \in Words
         /\ Both(v, w).ok = v.ok \/ Both(v, w).ok = w.ok
         /\ Both(v, w).ok <= v.ok /\ Both(v, w).ok <= w.ok
<1>1. v.ok \in {0, 1, 4, 8} /\ w.ok \in {0, 1, 4, 8}
  BY Zenon DEF Words
<1>2. (v.clear /\ w.clear) \in BOOLEAN
  BY Zenon
<1>3. \A n \in {0, 1, 4, 8} : LET b == Word(n, v.clear /\ w.clear) IN b \in Words /\ b.ok = n
  BY <1>2, WordFacts, Zenon
<1>4. Both(v, w) = Word(IF v.ok < w.ok THEN v.ok ELSE w.ok, v.clear /\ w.clear)
  BY Zenon DEF Both
<1>5. CASE v.ok < w.ok
  <2>1. Both(v, w) = Word(v.ok, v.clear /\ w.clear)
    BY <1>4, <1>5, Zenon
  <2>2. Both(v, w) \in Words /\ Both(v, w).ok = v.ok
    BY <2>1, <1>1, <1>3, Zenon
  <2> QED
    BY <2>2, <1>1, <1>5
<1>6. CASE ~(v.ok < w.ok)
  <2>1. Both(v, w) = Word(w.ok, v.clear /\ w.clear)
    BY <1>4, <1>6, Zenon
  <2>2. Both(v, w) \in Words /\ Both(v, w).ok = w.ok
    BY <2>1, <1>1, <1>3, Zenon
  <2> QED
    BY <2>2, <1>1, <1>6
<1> QED
  BY <1>5, <1>6

-----------------------------------------------------------------------------
(* Expressions.                                                            *)

\* Expressions are made of types, words and answers.
LEMMA ExprsMade ==
  ASSUME NEW t \in Types, NEW rax \in Words, NEW top \in Words,
         NEW l \in BOOLEAN, NEW truth \in BOOLEAN
  PROVE  [type |-> t, rax |-> rax, top |-> top, lval |-> l, truth |-> truth] \in Exprs
  BY Zenon DEF Exprs

LEMMA ExprsParts ==
  ASSUME NEW e \in Exprs
  PROVE  /\ e.type \in Types /\ e.rax \in Words /\ e.top \in Words
         /\ e.lval \in BOOLEAN /\ e.truth \in BOOLEAN
         /\ e.rax.ok \in {0, 1, 4, 8} /\ e.top.ok \in {0, 1, 4, 8}
<1>1. /\ e.type \in Types /\ e.rax \in Words /\ e.top \in Words
      /\ e.lval \in BOOLEAN /\ e.truth \in BOOLEAN
  BY Zenon DEF Exprs
<1> QED
  BY <1>1, Zenon DEF Words

LEMMA ExprTyped ==
  ASSUME NEW t \in Types, NEW rax \in Words, NEW top \in Words, NEW l \in BOOLEAN
  PROVE  Expr(t, rax, top, l) \in Exprs
<1>1. (rax.ok >= size(t)) \in BOOLEAN
  OBVIOUS
<1> QED
  BY <1>1, ExprsMade, Zenon DEF Expr

\* A value whose words are as wide as it is.
LEMMA SureValue ==
  ASSUME NEW t \in Types, NEW rax \in Words, NEW top \in Words,
         top.ok >= size(t), rax.ok >= size(t)
  PROVE  Value(t, rax, top) \in Exprs /\ Sure(Value(t, rax, top))
<1> DEFINE e == Expr(t, rax, top, FALSE)
<1>1. e \in Exprs
  BY ExprTyped, Zenon
<1>2. e.type = t /\ e.rax = rax /\ e.top = top /\ e.lval = FALSE
  BY Zenon DEF Expr
<1>3. e.truth = (rax.ok >= size(t))
  BY Zenon DEF Expr
<1> HIDE DEF e
<1>6. e.truth
  BY <1>3, Zenon
<1>4. e.top.ok >= size(e.type) /\ e.rax.ok >= size(e.type)
  BY <1>2
<1>5. ~e.lval
  BY <1>2, Zenon
<1>7. Sure(e)
  BY <1>6, <1>4, <1>5, Zenon DEF Sure
<1> QED
  BY <1>1, <1>7, Zenon DEF Value, e

\* The same for the value of an object.
LEMMA SureObject ==
  ASSUME NEW t \in Types, NEW rax \in Words, NEW top \in Words,
         top.ok >= size(t), rax.ok >= size(t), top # Natural, ptr_of(t) \in Types
  PROVE  Expr(t, rax, top, TRUE) \in Exprs /\ Sure(Expr(t, rax, top, TRUE))
<1> DEFINE e == Expr(t, rax, top, TRUE)
<1>1. e \in Exprs
  BY ExprTyped, Zenon
<1>2. e.type = t /\ e.rax = rax /\ e.top = top
  BY Zenon DEF Expr
<1>3. e.truth = (rax.ok >= size(t))
  BY Zenon DEF Expr
<1> HIDE DEF e
<1>6. e.truth
  BY <1>3, Zenon
<1>4. /\ e.top.ok >= size(e.type) /\ e.rax.ok >= size(e.type)
      /\ e.top # Natural /\ ptr_of(e.type) \in Types
  BY <1>2
<1>5. Sure(e)
  BY <1>6, <1>4, Zenon DEF Sure
<1> QED
  BY <1>1, <1>5, Zenon DEF e

\* The same words under another type: kept if the type is no wider, and sure
\* if they are kept.
LEMMA RetypedFacts ==
  ASSUME NEW e \in Exprs, Sure(e), NEW t \in Types
  PROVE  LET r == Retyped(e, t) IN
         /\ r \in Exprs /\ r.type = t /\ r.lval = FALSE
         /\ Kept(r) => Sure(r)
         /\ size(t) <= size(e.type) => Kept(r)
<1> DEFINE r == Retyped(e, t)
           Cut(w) == IF w.ok > size(t) THEN Word(size(t), w.clear) ELSE w
<1>1. size(t) \in {1, 4, 8} /\ size(e.type) \in {1, 4, 8}
  BY SizeFacts, ExprsParts
<1>2. \A w \in Words : /\ Cut(w) \in Words
                       /\ Cut(w).ok = size(t) \/ (Cut(w).ok = w.ok /\ w.ok <= size(t))
  <2> TAKE w \in Words
  <2>1. w.clear \in BOOLEAN /\ w.ok \in {0, 1, 4, 8}
    BY Zenon DEF Words
  <2>2. size(t) \in {0, 1, 4, 8}
    BY <1>1
  <2>3. CASE w.ok > size(t)
    <3>1. Cut(w) = Word(size(t), w.clear)
      BY <2>3, Zenon
    <3> QED
      BY <3>1, <2>1, <2>2, WordFacts, Zenon
  <2>4. CASE ~(w.ok > size(t))
    <3>1. Cut(w) = w /\ w.ok <= size(t)
      BY <2>4, <2>1, <1>1
    <3> QED
      BY <3>1, Zenon
  <2> QED
    BY <2>3, <2>4
<1>3. /\ r.type = t /\ r.lval = FALSE
      /\ r.rax = IF size(t) < size(e.type) THEN Cut(e.rax) ELSE e.rax
      /\ r.top = IF size(t) < size(e.type) THEN Cut(e.top) ELSE e.top
      /\ r.truth = IF size(t) = size(e.type) THEN e.truth ELSE r.rax.ok >= size(t)
  BY Zenon DEF Retyped
<1>4. e.rax \in Words /\ e.top \in Words /\ e.truth \in BOOLEAN
  BY ExprsParts
<1>5. r.rax \in Words /\ r.top \in Words
  BY <1>2, <1>3, <1>4, Zenon
<1>6. r.truth \in BOOLEAN
  <2>1. (r.rax.ok >= size(t)) \in BOOLEAN
    OBVIOUS
  <2> QED
    BY <2>1, <1>3, <1>4, Zenon
<1>7. r \in Exprs
  <2>1. r = [type |-> t, rax |-> r.rax, top |-> r.top, lval |-> FALSE, truth |-> r.truth]
    BY Zenon DEF Retyped
  <2> QED
    BY <2>1, <1>5, <1>6, ExprsMade, Zenon
<1>8. /\ e.top.ok >= size(e.type)
      /\ e.rax.ok = 0 \/ (e.rax.ok >= size(e.type) /\ e.truth)
  BY Zenon DEF Sure
<1>9. e.rax.ok \in {0, 1, 4, 8} /\ e.top.ok \in {0, 1, 4, 8}
  BY ExprsParts
<1>10. /\ size(t) < size(e.type) =>
            /\ r.rax.ok = size(t) \/ (r.rax.ok = e.rax.ok /\ e.rax.ok <= size(t))
            /\ r.top.ok = size(t) \/ (r.top.ok = e.top.ok /\ e.top.ok <= size(t))
       /\ ~(size(t) < size(e.type)) => r.rax = e.rax /\ r.top = e.top
  BY <1>2, <1>3, <1>4, Zenon
<1> HIDE DEF r, Cut
<1>11. Kept(r) <=> r.top.ok >= size(t) /\ (r.rax.ok = 0 \/ r.rax.ok >= size(t))
  BY <1>3, Zenon DEF Kept
<1>12. size(t) <= size(e.type) => Kept(r)
  BY <1>1, <1>8, <1>9, <1>10, <1>11
<1>13. ASSUME Kept(r) PROVE Sure(r)
  <2>1. r.rax.ok = 0 \/ r.truth
    <3>1. CASE size(t) = size(e.type)
      <4>1. r.truth = e.truth /\ r.rax = e.rax
        BY <3>1, <1>1, <1>3, <1>10
      <4> QED
        BY <4>1, <1>8, Zenon
    <3>2. CASE size(t) # size(e.type)
      BY <3>2, <1>3, <1>11, <1>13, Zenon
    <3> QED
      BY <3>1, <3>2
  <2>2. ~r.lval
    BY <1>3, Zenon
  <2> QED
    BY <2>1, <2>2, <1>3, <1>11, <1>13, Zenon DEF Sure
<1> QED
  BY <1>3, <1>7, <1>12, <1>13, Zenon DEF r

-----------------------------------------------------------------------------
(* Using the expressions on the stack.                                     *)

\* What MisreadsOnly has to say of the operands o of a use at the place at.
Excused(at, to, o) ==
  /\ at = "ASGN" => is_pointer(o[1].type) /\ o[2].type.ty = "ARRAY" /\ type_size(o[2].type) < 8
  /\ at \in {"ADD", "SUB"} =>
       LET ps == {e \in {o[1], o[2]} : is_pointer_compat(e.type)} IN
       \E p \in ps : /\ type_size(p.type.ptr_to) > 1
                     /\ \A e \in {o[1], o[2]} \ ps : e.top # Natural
  /\ at = "DIV" => o[1].top # Natural
  /\ at = "MOD" => o[1].type = CharT
  /\ at = "CMP" => is_pointer(o[1].type) \/ is_pointer(o[2].type)
  /\ at \notin {"MUL", "BIT", "SHIFT", "INCR", "ADDR", "SEQ", "TEST"}
  /\ at \in {"NEG", "BCOMPL"} => o[1].rax.ok = 0
  /\ at = "DEREF" => o[1].type.ptr_to.ty = "ARRAY" \/ o[1].rax.ok = 0
  /\ at \in {"LAND", "LOR"} => \/ CharT \in {o[1].type, o[2].type}
                               \/ 0 \in {o[1].rax.ok, o[2].rax.ok}
  /\ at \in {"CAST", "VARDECL", "ARGUMENT"} => size(to) > size(o[1].type)
  /\ at = "RETURN" => size(to) > size(o[1].type) \/ o[1].rax.ok = 0
  /\ at = "COND" => \E i \in {1, 2} : size(to) > size(o[i].type)
  /\ at = "VARARG" => o[1].type = CharT
  /\ at = "ELEMENT" => size(to) < 8
  /\ at = "SWITCH" => ~o[1].top.clear \/ o[1].type = CharT

LEMMA ExcusedMisread ==
  ASSUME phase' = "misread", NEW at, NEW to, NEW of, Excused(at, to, of),
         fault' = [at |-> at, to |-> to, of |-> of]
  PROVE  MisreadsOnly'
<1>1. fault'.at = at /\ fault'.to = to /\ fault'.of = of
  OBVIOUS
<1>2. OperatorsExtend'
  BY <1>1, Zenon DEF Excused, OperatorsExtend, Operand1, Operand2, Misread
<1>3. ReadsRax'
  BY <1>1, Zenon DEF Excused, ReadsRax, Operand1, Operand2, Misread
<1>4. UsedAsWide'
  BY <1>1, Zenon DEF Excused, UsedAsWide, Operand1, Misread
<1> QED
  BY <1>2, <1>3, <1>4 DEF MisreadsOnly

LEMMA NoMisread ==
  ASSUME phase' # "misread" PROVE MisreadsOnly'
<1>1. OperatorsExtend' /\ ReadsRax' /\ UsedAsWide'
  BY Zenon DEF OperatorsExtend, ReadsRax, UsedAsWide, Misread
<1> QED
  BY <1>1 DEF MisreadsOnly

\* What the code leaves: one sure expression, or none.
Made(es) == es \in Seq(Exprs) /\ \A i \in 1..Len(es) : Sure(es[i])

LEMMA MadeNone == Made(<<>>)
  BY EmptySeq DEF Made

LEMMA MadeOne ==
  ASSUME NEW e \in Exprs, Sure(e) PROVE Made(<<e>>)
<1>1. <<e>> \in Seq(Exprs) /\ Len(<<e>>) = 1 /\ <<e>>[1] = e
  OBVIOUS
<1>2. \A i \in 1..1 : i = 1
  OBVIOUS
<1> QED
  BY <1>1, <1>2, Zenon DEF Made

\* The expressions below and the one that is left are sure.
LEMMA RightUse ==
  ASSUME IInv, phase = "running", UNCHANGED <<phase, fault>>,
         NEW n \in 0..Len(exprs), NEW es, Made(es),
         exprs' = SubSeq(exprs, 1, Len(exprs) - n) \o es
  PROVE  IInv'
<1> DEFINE m == Len(exprs) - n
           below == SubSeq(exprs, 1, m)
<1>1. Len(exprs) \in Nat /\ m \in 0..Len(exprs) /\ exprs \in Seq(Exprs)
  BY LenProperties DEF IInv, Typed
<1>2. below \in Seq(Exprs) /\ Len(below) = m /\ \A i \in 1..m : below[i] = exprs[i]
  BY <1>1, SubSeqProperties
<1>3. es \in Seq(Exprs) /\ Len(es) \in Nat /\ \A i \in 1..Len(es) : Sure(es[i])
  BY LenProperties DEF Made
<1>4. /\ exprs' \in Seq(Exprs) /\ Len(exprs') = m + Len(es)
      /\ \A i \in 1..(m + Len(es)) : exprs'[i] = IF i <= m THEN below[i] ELSE es[i - m]
  <2>1. exprs' = below \o es
    OBVIOUS
  <2> HIDE DEF m, below
  <2>2. /\ below \o es \in Seq(Exprs) /\ Len(below \o es) = Len(below) + Len(es)
        /\ \A i \in 1..(Len(below) + Len(es)) :
             (below \o es)[i] = IF i <= Len(below) THEN below[i] ELSE es[i - Len(below)]
    BY <1>2, <1>3, ConcatProperties
  <2> QED
    BY <1>2, <2>1, <2>2
<1>5. ASSUME NEW i \in 1..Len(exprs') PROVE Sure(exprs'[i])
  <2> HIDE DEF m, below
  <2>1. i \in 1..(m + Len(es)) /\ i \in Nat
    BY <1>4
  <2>2. CASE i <= m
    <3>1. i \in 1..m /\ i \in 1..Len(exprs) /\ exprs'[i] = exprs[i]
      BY <2>1, <2>2, <1>1, <1>2, <1>4
    <3> QED
      BY <3>1 DEF IInv
  <2>3. CASE ~(i <= m)
    <3>1. i - m \in 1..Len(es) /\ exprs'[i] = es[i - m]
      BY <2>1, <2>3, <1>1, <1>3, <1>4
    <3> QED
      BY <3>1, <1>3
  <2> QED
    BY <2>2, <2>3
<1>6. Typed'
  BY <1>4 DEF IInv, Typed
<1>7. MisreadsOnly'
  BY NoMisread
<1>8. RefusesOnly'
  BY DEF RefusesOnly
<1> QED
  BY <1>5, <1>6, <1>7, <1>8 DEF IInv

LEMMA WrongUse ==
  ASSUME IInv, NEW at, NEW t, NEW n, Excused(at, t, Operands(n)),
         phase' = "misread", fault' = Fault(at, t, n), exprs' = <<>>
  PROVE  IInv'
<1>1. exprs' \in Seq(Exprs) /\ \A i \in 1..Len(exprs') : Sure(exprs'[i])
  BY EmptySeq
<1>2. Typed'
  BY <1>1 DEF Typed
<1>3. MisreadsOnly'
  BY ExcusedMisread DEF Fault
<1>4. RefusesOnly'
  BY DEF RefusesOnly
<1> QED
  BY <1>1, <1>2, <1>3, <1>4 DEF IInv

\* The end of a sequence, element by element.
LEMMA LastElements ==
  ASSUME NEW S, NEW s \in Seq(S), NEW k \in 1..Len(s)
  PROVE  /\ SubSeq(s, k, k) = <<s[k]>>
         /\ k > 1 => SubSeq(s, k - 1, k) = <<s[k - 1], s[k]>>
<1>1. Len(s) \in Nat /\ k \in Nat
  BY LenProperties
<1>2. SubSeq(s, k, k) = <<s[k]>>
  <2>1. /\ SubSeq(s, k, k) \in Seq(S) /\ Len(SubSeq(s, k, k)) = 1
        /\ SubSeq(s, k, k)[1] = s[k]
    <3>1. /\ SubSeq(s, k, k) \in Seq(S)
          /\ Len(SubSeq(s, k, k)) = k - k + 1
          /\ \A i \in 1..(k - k + 1) : SubSeq(s, k, k)[i] = s[k + i - 1]
      BY <1>1, SubSeqProperties
    <3>2. k - k + 1 = 1 /\ k + 1 - 1 = k
      BY <1>1
    <3> QED
      BY <3>1, <3>2
  <2>2. /\ <<s[k]>> \in Seq(S) /\ Len(<<s[k]>>) = 1 /\ <<s[k]>>[1] = s[k]
        /\ \A i \in 1..1 : i = 1
    BY <1>1, ElementOfSeq
  <2> QED
    BY <2>1, <2>2, SeqEqual
<1>3. ASSUME k > 1 PROVE SubSeq(s, k - 1, k) = <<s[k - 1], s[k]>>
  <2>1. /\ SubSeq(s, k - 1, k) \in Seq(S) /\ Len(SubSeq(s, k - 1, k)) = 2
        /\ SubSeq(s, k - 1, k)[1] = s[k - 1] /\ SubSeq(s, k - 1, k)[2] = s[k]
    <3>1. /\ SubSeq(s, k - 1, k) \in Seq(S)
          /\ Len(SubSeq(s, k - 1, k)) = k - (k - 1) + 1
          /\ \A i \in 1..(k - (k - 1) + 1) : SubSeq(s, k - 1, k)[i] = s[(k - 1) + i - 1]
      BY <1>1, <1>3, SubSeqProperties
    <3>2. k - (k - 1) + 1 = 2 /\ (k - 1) + 1 - 1 = k - 1 /\ (k - 1) + 2 - 1 = k
      BY <1>1
    <3> QED
      BY <3>1, <3>2
  <2> DEFINE two == <<s[k - 1], s[k]>>
  <2>2. /\ two \in Seq(S) /\ Len(two) = 2 /\ two[1] = s[k - 1] /\ two[2] = s[k]
        /\ \A i \in 1..2 : i = 1 \/ i = 2
    BY <1>1, <1>3, ElementOfSeq
  <2> QED
    BY <2>1, <2>2, SeqEqual
<1> QED
  BY <1>2, <1>3

\* The operands, as the actions call them.
LEMMA OperandsOne ==
  ASSUME IInv, HasOne
  PROVE  /\ 1 \in 0..Len(exprs) /\ Operands(1) = <<One>>
         /\ One \in Exprs /\ Sure(One)
<1>1. exprs \in Seq(Exprs) /\ Len(exprs) \in Nat /\ Len(exprs) >= 1
  BY LenProperties DEF IInv, Typed, HasOne
<1>2. Len(exprs) \in 1..Len(exprs)
  BY <1>1
<1>3. One \in Exprs /\ Sure(One)
  BY <1>1, <1>2, ElementOfSeq DEF One, IInv
<1>4. Operands(1) = SubSeq(exprs, Len(exprs), Len(exprs))
  BY <1>1 DEF Operands
<1>5. SubSeq(exprs, Len(exprs), Len(exprs)) = <<exprs[Len(exprs)]>>
  BY <1>1, <1>2, LastElements
<1> QED
  BY <1>1, <1>3, <1>4, <1>5 DEF One

LEMMA OperandsTwo ==
  ASSUME IInv, HasTwo
  PROVE  /\ 2 \in 0..Len(exprs) /\ Operands(2) = <<Left, One>>
         /\ One \in Exprs /\ Sure(One)
         /\ Left \in Exprs /\ Sure(Left)
<1>1. exprs \in Seq(Exprs) /\ Len(exprs) \in Nat /\ Len(exprs) >= 2
  BY LenProperties DEF IInv, Typed, HasTwo
<1>2. Len(exprs) \in 1..Len(exprs) /\ Len(exprs) - 1 \in 1..Len(exprs)
  BY <1>1
<1>3. One \in Exprs /\ Sure(One) /\ Left \in Exprs /\ Sure(Left)
  BY <1>1, <1>2, ElementOfSeq DEF One, Left, IInv
<1>4. Operands(2) = SubSeq(exprs, Len(exprs) - 1, Len(exprs))
  BY <1>1 DEF Operands
<1>5. SubSeq(exprs, Len(exprs) - 1, Len(exprs)) = <<exprs[Len(exprs) - 1], exprs[Len(exprs)]>>
  BY <1>1, <1>2, LastElements
<1> QED
  BY <1>1, <1>3, <1>4, <1>5 DEF One, Left

\* A leaf; a use of one expression; a use of two.
LEMMA PushStep ==
  ASSUME IInv, NEW e \in Exprs, Sure(e), Push(e)
  PROVE  IInv'
<1>1. /\ phase = "running" /\ UNCHANGED <<phase, fault>>
      /\ exprs' = SubSeq(exprs, 1, Len(exprs) - 0) \o <<e>>
  BY DEF Push, Use, UseAs
<1>2. 0 \in 0..Len(exprs)
  BY LenProperties DEF IInv, Typed
<1> QED
  BY <1>1, <1>2, MadeOne, RightUse

LEMMA UseOne ==
  ASSUME IInv, HasOne, NEW t, NEW right, NEW es, NEW at, UseAs(t, 1, right, es, at),
         right => Made(es), ~right => Excused(at, t, <<One>>)
  PROVE  IInv'
<1>1. CASE right /\ exprs' = SubSeq(exprs, 1, Len(exprs) - 1) \o es /\ UNCHANGED <<phase, fault>>
  <2>1. phase = "running"
    BY DEF HasOne
  <2>2. 1 \in 0..Len(exprs)
    BY OperandsOne
  <2> QED
    BY <1>1, <2>1, <2>2, RightUse
<1>2. CASE ~right /\ phase' = "misread" /\ fault' = Fault(at, t, 1) /\ exprs' = <<>>
  <2>1. Excused(at, t, Operands(1))
    BY <1>2, OperandsOne
  <2> QED
    BY <1>2, <2>1, WrongUse
<1> QED
  BY <1>1, <1>2, Zenon DEF UseAs

LEMMA UseTwo ==
  ASSUME IInv, HasTwo, NEW t, NEW right, NEW es, NEW at, UseAs(t, 2, right, es, at),
         right => Made(es), ~right => Excused(at, t, <<Left, One>>)
  PROVE  IInv'
<1>1. CASE right /\ exprs' = SubSeq(exprs, 1, Len(exprs) - 2) \o es /\ UNCHANGED <<phase, fault>>
  <2>1. phase = "running"
    BY DEF HasTwo
  <2>2. 2 \in 0..Len(exprs)
    BY OperandsTwo
  <2> QED
    BY <1>1, <2>1, <2>2, RightUse
<1>2. CASE ~right /\ phase' = "misread" /\ fault' = Fault(at, t, 2) /\ exprs' = <<>>
  <2>1. Excused(at, t, Operands(2))
    BY <1>2, OperandsTwo
  <2> QED
    BY <1>2, <2>1, WrongUse
<1> QED
  BY <1>1, <1>2, Zenon DEF UseAs

\* The compiler ends: what RefusesOnly says of the types in fault.
LEMMA RefuseStep ==
  ASSUME IInv, NEW n, NEW at, Refuse(n, at),
         LET types == {Operands(n)[i].type : i \in DOMAIN Operands(n)} IN
         \/ ptr_of(VoidT) \in types /\ at \in {"ADD", "SUB", "DEREF", "INCR"}
         \/ types \cap {CharT, EnumT} # {} /\ at \in {"ADD", "SUB", "MUL"}
  PROVE  IInv'
<1>1. phase' = "refused" /\ fault' = Fault(at, IntT, n) /\ exprs' = <<>>
  BY DEF Refuse
<1>2. exprs' \in Seq(Exprs) /\ \A i \in 1..Len(exprs') : Sure(exprs'[i])
  BY <1>1, EmptySeq
<1>3. Typed'
  BY <1>1, <1>2 DEF Typed
<1>4. MisreadsOnly'
  BY <1>1, NoMisread
<1>5. fault'.at = at /\ fault'.of = Operands(n)
  BY <1>1, Zenon DEF Fault
<1>6. RefusesOnly'
  BY <1>5, Zenon DEF RefusesOnly
<1> QED
  BY <1>2, <1>3, <1>4, <1>6 DEF IInv

-----------------------------------------------------------------------------
(* Leaves.                                                                 *)

LEMMA InitIInv == Init => IInv
<1> SUFFICES ASSUME Init PROVE IInv
  OBVIOUS
<1>1. exprs \in Seq(Exprs) /\ \A i \in 1..Len(exprs) : Sure(exprs[i])
  BY EmptySeq DEF Init
<1>2. Typed
  BY <1>1 DEF Init, Typed
<1>3. phase = "running"
  BY DEF Init
<1>4. OperatorsExtend /\ ReadsRax /\ UsedAsWide
  BY <1>3, Zenon DEF OperatorsExtend, ReadsRax, UsedAsWide, Misread
<1>5. RefusesOnly
  BY <1>3 DEF RefusesOnly
<1> QED
  BY <1>1, <1>2, <1>4, <1>5 DEF IInv, MisreadsOnly

LEMMA LiteralKeeps == IInv /\ (Num \/ Char \/ Enumerator \/ String) => IInv'
<1> SUFFICES ASSUME IInv, Num \/ Char \/ Enumerator \/ String PROVE IInv'
  OBVIOUS
<1>1. CASE Num
  <2>1. Value(IntT, Natural, Natural) \in Exprs /\ Sure(Value(IntT, Natural, Natural))
    BY OwnTypes, WholeWords, SureValue
  <2> QED
    BY <1>1, <2>1, PushStep DEF Num
<1>2. CASE Char
  <2> DEFINE rax == ToRegister(Address, 1)
  <2>1. rax \in Words /\ rax.ok >= 1
    BY WholeWords, WrittenWords
  <2> HIDE DEF rax
  <2>2. Value(CharT, rax, Natural) \in Exprs /\ Sure(Value(CharT, rax, Natural))
    BY <2>1, OwnTypes, WholeWords, SureValue
  <2> QED
    BY <1>2, <2>2, PushStep DEF Char, rax
<1>3. CASE Enumerator
  <2>1. Value(EnumT, Natural, Natural) \in Exprs /\ Sure(Value(EnumT, Natural, Natural))
    BY OwnTypes, WholeWords, SureValue
  <2> QED
    BY <1>3, <2>1, PushStep DEF Enumerator
<1>4. CASE String
  <2>1. Value(ptr_of(CharT), Address, Address) \in Exprs /\ Sure(Value(ptr_of(CharT), Address, Address))
    BY OwnTypes, WholeWords, SureValue
  <2> QED
    BY <1>4, <2>1, PushStep DEF String
<1> QED
  BY <1>1, <1>2, <1>3, <1>4

\* The word of an object that is loaded, or of the address of an array.
LEMMA LoadedFacts ==
  ASSUME NEW t \in VarTypes, NEW w \in Words, w.ok >= size(t), w # Natural
  PROVE  /\ t \in Types /\ ptr_of(t) \in Types
         /\ Loaded(t, w) \in Words /\ Loaded(t, w).ok >= size(t) /\ Loaded(t, w) # Natural
<1>1. t \in Types /\ ptr_of(t) \in Types
  BY DEF Types
<1>2. size(t) <= 8
  BY <1>1, SizeFacts
<1>3. Loaded(t, w) = Address \/ Loaded(t, w) = w
  BY DEF Loaded
<1> QED
  BY <1>1, <1>2, <1>3, WholeWords

LEMMA ObjectKeeps == IInv /\ (Local \/ Global \/ Attribute) => IInv'
<1> SUFFICES ASSUME IInv, Local \/ Global \/ Attribute PROVE IInv'
  OBVIOUS
<1>1. \A t \in VarTypes : t \in Types /\ size(t) \in {1, 4, 8}
  BY SizeFacts DEF Types
<1>2. CASE Local
  <2>1. PICK t \in VarTypes : LET w == Loaded(t, load_rax(size(t))) IN Push(Expr(t, w, w, TRUE))
    BY <1>2 DEF Local
  <2> DEFINE w == Loaded(t, load_rax(size(t)))
  <2>2. /\ t \in Types /\ ptr_of(t) \in Types
        /\ w \in Words /\ w.ok >= size(t) /\ w # Natural
    BY <1>1, LoadedWords, LoadedFacts
  <2>3. Push(Expr(t, w, w, TRUE))
    BY <2>1
  <2> HIDE DEF w
  <2>4. Expr(t, w, w, TRUE) \in Exprs /\ Sure(Expr(t, w, w, TRUE))
    BY <2>2, SureObject
  <2> QED
    BY <2>3, <2>4, PushStep
<1>3. CASE Global
  <2>1. PICK t \in VarTypes :
          LET w == Loaded(t, ToRegister(Address, size(t))) IN Push(Expr(t, w, w, TRUE))
    BY <1>3 DEF Global
  <2> DEFINE w == Loaded(t, ToRegister(Address, size(t)))
  <2>2. /\ t \in Types /\ ptr_of(t) \in Types
        /\ w \in Words /\ w.ok >= size(t) /\ w # Natural
    BY <1>1, WholeWords, WrittenWords, LoadedFacts
  <2>3. Push(Expr(t, w, w, TRUE))
    BY <2>1
  <2> HIDE DEF w
  <2>4. Expr(t, w, w, TRUE) \in Exprs /\ Sure(Expr(t, w, w, TRUE))
    BY <2>2, SureObject
  <2> QED
    BY <2>3, <2>4, PushStep
<1>4. CASE Attribute
  <2>1. PICK t \in VarTypes :
          Push(Expr(t, Loaded(t, load_rax(size(t))), Loaded(t, ToMemory(Address, size(t))), TRUE))
    BY <1>4 DEF Attribute
  <2> DEFINE v == Loaded(t, load_rax(size(t)))
             w == Loaded(t, ToMemory(Address, size(t)))
  <2>2. /\ t \in Types /\ ptr_of(t) \in Types
        /\ v \in Words /\ v.ok >= size(t)
    BY <1>1, LoadedWords, LoadedFacts
  <2>3. w \in Words /\ w.ok >= size(t) /\ w # Natural
    BY <1>1, WholeWords, WrittenWords, LoadedFacts
  <2>4. Push(Expr(t, v, w, TRUE))
    BY <2>1
  <2> HIDE DEF v, w
  <2>5. Expr(t, v, w, TRUE) \in Exprs /\ Sure(Expr(t, v, w, TRUE))
    BY <2>2, <2>3, SureObject
  <2> QED
    BY <2>4, <2>5, PushStep
<1> QED
  BY <1>2, <1>3, <1>4

LEMMA CallResultKeeps == IInv /\ CallResult => IInv'
<1> SUFFICES ASSUME IInv, CallResult PROVE IInv'
  OBVIOUS
<1>1. PICK t \in Targets : LET w == ToMemory(Address, size(t)) IN Push(Value(t, w, w))
  BY DEF CallResult
<1> DEFINE w == ToMemory(Address, size(t))
<1>2. t \in Types /\ size(t) \in {1, 4, 8}
  BY SizeFacts DEF Types
<1>3. w \in Words /\ w.ok >= size(t)
  BY <1>2, WholeWords, WrittenWords
<1>4. Push(Value(t, w, w))
  BY <1>1
<1> HIDE DEF w
<1>5. Value(t, w, w) \in Exprs /\ Sure(Value(t, w, w))
  BY <1>2, <1>3, SureValue
<1> QED
  BY <1>4, <1>5, PushStep

-----------------------------------------------------------------------------
(* Unary operators.                                                        *)

\* The topmost expression and its type.
LEMMA OneFacts ==
  ASSUME IInv, HasOne
  PROVE  /\ One \in Exprs /\ Sure(One) /\ One.type \in Types
         /\ size(One.type) \in {1, 4, 8}
         /\ One.rax \in Words /\ One.rax.ok \in {0, 1, 4, 8}
         /\ One.top \in Words /\ One.top.ok \in {0, 1, 4, 8}
         /\ One.top.ok >= size(One.type)
         /\ One.rax.ok = 0 \/ One.rax.ok >= size(One.type)
<1>1. One \in Exprs /\ Sure(One)
  BY OperandsOne
<1> QED
  BY <1>1, ExprsParts, SizeFacts DEF Sure

LEMMA AddrOfKeeps == IInv /\ AddrOf => IInv'
<1> SUFFICES ASSUME IInv, AddrOf PROVE IInv'
  OBVIOUS
<1> DEFINE p == ptr_of(One.type)
<1>1. HasOne /\ One.lval /\ UseAs(IntT, 1, TRUE, <<Value(p, Address, Address)>>, "ADDR")
  BY DEF AddrOf, Use
<1>2. p \in Types /\ size(p) = 8
  BY <1>1, OneFacts, OwnTypes DEF Sure
<1> HIDE DEF p
<1>3. Made(<<Value(p, Address, Address)>>)
  BY <1>2, WholeWords, SureValue, MadeOne
<1> QED
  BY <1>1, <1>3, UseOne

LEMMA DerefKeeps == IInv /\ Deref => IInv'
<1> SUFFICES ASSUME IInv, Deref PROVE IInv'
  OBVIOUS
<1> DEFINE t == One.type.ptr_to
           e == Expr(t, load_rax(size(t)), ToMemory(One.top, size(t)), TRUE)
           right == One.rax.ok = 8 /\ t.ty # "ARRAY"
<1>1. HasOne /\ is_pointer_compat(One.type)
  BY DEF Deref
<1>2. /\ One.type \in Types
      /\ t \in Types \cup {VoidT} /\ ptr_of(t) \in Types
      /\ t = VoidT => One.type = ptr_of(VoidT)
  BY <1>1, OneFacts, PointeeFacts
<1>3. CASE t = VoidT /\ Refuse(1, "DEREF")
  <2>1. Operands(1) = <<One>> /\ One.type = ptr_of(VoidT)
    BY <1>1, <1>2, <1>3, OperandsOne
  <2>2. ptr_of(VoidT) \in {Operands(1)[i].type : i \in DOMAIN Operands(1)}
    BY <2>1
  <2> QED
    BY <1>3, <2>2, RefuseStep
<1>4. CASE t # VoidT /\ UseAs(IntT, 1, right, <<e>>, "DEREF")
  <2>1. t \in Types /\ size(t) \in {1, 4, 8}
    BY <1>2, <1>4, SizeFacts
  <2>2. e \in Exprs /\ Sure(e)
    <3> DEFINE rax == load_rax(size(t))
               top == ToMemory(One.top, size(t))
    <3>1. rax \in Words /\ rax.ok >= size(t)
      BY <2>1, LoadedWords
    <3>2. top \in Words /\ top.ok >= size(t) /\ top # Natural
      BY <1>1, <2>1, OneFacts, WrittenWords
    <3> HIDE DEF rax, top, t
    <3>3. Expr(t, rax, top, TRUE) \in Exprs /\ Sure(Expr(t, rax, top, TRUE))
      BY <1>2, <2>1, <3>1, <3>2, SureObject
    <3> QED
      BY <3>3 DEF rax, top, t
  <2>3. ~right => t.ty = "ARRAY" \/ One.rax.ok = 0
    BY <1>1, OneFacts, SizeFacts
  <2>4. ~right => Excused("DEREF", IntT, <<One>>)
    BY <2>3 DEF Excused
  <2> HIDE DEF e, right
  <2> QED
    BY <1>1, <1>4, <2>2, <2>4, MadeOne, UseOne
<1> QED
  BY <1>3, <1>4 DEF Deref, Use

LEMMA CastKeeps == IInv /\ Cast => IInv'
<1> SUFFICES ASSUME IInv, Cast PROVE IInv'
  OBVIOUS
<1>1. PICK t \in Targets : LET e == Retyped(One, t) IN
        HasOne /\ UseAs(t, 1, Kept(e), <<e>>, "CAST")
  BY DEF Cast
<1> DEFINE e == Retyped(One, t)
<1>2. t \in Types /\ size(t) \in {1, 4, 8}
  BY SizeFacts DEF Types
<1>3. /\ e \in Exprs /\ (Kept(e) => Sure(e))
      /\ size(t) <= size(One.type) => Kept(e)
  BY <1>1, <1>2, OneFacts, RetypedFacts
<1>4. HasOne /\ UseAs(t, 1, Kept(e), <<e>>, "CAST")
  BY <1>1
<1> HIDE DEF e
<1>5. ~Kept(e) => size(t) > size(One.type)
  BY <1>1, <1>2, <1>3, OneFacts
<1>6. ~Kept(e) => Excused("CAST", t, <<One>>)
  BY <1>5 DEF Excused
<1> QED
  BY <1>3, <1>4, <1>6, MadeOne, UseOne

LEMMA NotKeeps == IInv /\ Not => IInv'
<1> SUFFICES ASSUME IInv, Not PROVE IInv'
  OBVIOUS
<1> DEFINE e == Value(One.type, Natural, Natural)
<1>1. HasOne /\ UseAs(IntT, 1, One.truth, <<e>>, "NEG")
  BY DEF Not, Use
<1>2. e \in Exprs /\ Sure(e)
  BY <1>1, OneFacts, WholeWords, SureValue
<1>3. ~One.truth => One.rax.ok = 0
  BY <1>1, OneFacts, Zenon DEF Sure
<1>4. ~One.truth => Excused("NEG", IntT, <<One>>)
  BY <1>3 DEF Excused
<1> HIDE DEF e
<1> QED
  BY <1>1, <1>2, <1>4, MadeOne, UseOne

LEMMA ComplementKeeps == IInv /\ Complement => IInv'
<1> SUFFICES ASSUME IInv, Complement PROVE IInv'
  OBVIOUS
<1> DEFINE n == size(One.type)
           rax == ToRegister(One.rax, n)
           top == ToMemory(One.top, n)
<1>1. HasOne /\ UseAs(IntT, 1, One.rax.ok >= n, <<Value(One.type, rax, top)>>, "BCOMPL")
  BY DEF Complement, Use
<1>2. rax \in Words /\ rax.ok = n /\ top \in Words /\ top.ok = n
  BY <1>1, OneFacts, WrittenWords
<1>3. ~(One.rax.ok >= n) => One.rax.ok = 0
  BY <1>1, OneFacts
<1>4. ~(One.rax.ok >= n) => Excused("BCOMPL", IntT, <<One>>)
  BY <1>3 DEF Excused
<1>5. n \in {1, 4, 8} /\ One.type \in Types
  BY <1>1, OneFacts
<1> HIDE DEF rax, top
<1>6. Value(One.type, rax, top) \in Exprs /\ Sure(Value(One.type, rax, top))
  BY <1>2, <1>5, SureValue
<1> QED
  BY <1>1, <1>4, <1>6, MadeOne, UseOne

LEMMA PreOrPostKeeps == IInv /\ PreOrPost => IInv'
<1> SUFFICES ASSUME IInv, PreOrPost PROVE IInv'
  OBVIOUS
<1> DEFINE n == size(One.type)
           rax == ToRegister(Address, n)
           top == ToMemory(Address, n)
<1>1. HasOne
  BY DEF PreOrPost
<1>2. n \in {1, 4, 8} /\ One.type \in Types
  BY <1>1, OneFacts
<1>3. rax \in Words /\ rax.ok = n /\ top \in Words /\ top.ok = n
  BY <1>2, WholeWords, WrittenWords
<1>4. CASE One.type = ptr_of(VoidT) /\ Refuse(1, "INCR")
  <2>1. Operands(1) = <<One>>
    BY <1>1, OperandsOne
  <2>2. ptr_of(VoidT) \in {Operands(1)[i].type : i \in DOMAIN Operands(1)}
    BY <1>4, <2>1
  <2> QED
    BY <1>4, <2>2, RefuseStep
<1>5. CASE UseAs(IntT, 1, TRUE, <<Value(One.type, rax, top)>>, "INCR")
  <2> HIDE DEF rax, top
  <2>1. Value(One.type, rax, top) \in Exprs /\ Sure(Value(One.type, rax, top))
    BY <1>2, <1>3, SureValue
  <2> QED
    BY <1>1, <1>5, <2>1, MadeOne, UseOne
<1> QED
  BY <1>4, <1>5 DEF PreOrPost, Use, Incremented

-----------------------------------------------------------------------------
(* Binary operators, but arithmetic.                                       *)

\* What is known of an expression on the stack.
LEMMA SureParts ==
  ASSUME NEW e \in Exprs, Sure(e)
  PROVE  /\ e.type \in Types /\ size(e.type) \in {1, 4, 8}
         /\ e.rax \in Words /\ e.rax.ok \in {0, 1, 4, 8}
         /\ e.top \in Words /\ e.top.ok \in {0, 1, 4, 8}
         /\ e.top.ok >= size(e.type)
         /\ e.rax.ok = 0 \/ e.rax.ok >= size(e.type)
  BY ExprsParts, SizeFacts DEF Sure

LEMMA TwoFacts ==
  ASSUME IInv, HasTwo
  PROVE  /\ One.type \in Types /\ size(One.type) \in {1, 4, 8}
         /\ One.rax \in Words /\ One.rax.ok \in {0, 1, 4, 8}
         /\ One.top \in Words /\ One.top.ok \in {0, 1, 4, 8}
         /\ One.top.ok >= size(One.type)
         /\ Left.type \in Types /\ size(Left.type) \in {1, 4, 8}
         /\ Left.rax \in Words /\ Left.rax.ok \in {0, 1, 4, 8}
         /\ Left.top \in Words /\ Left.top.ok \in {0, 1, 4, 8}
         /\ Left.top.ok >= size(Left.type)
<1>1. One \in Exprs /\ Sure(One) /\ Left \in Exprs /\ Sure(Left)
  BY OperandsTwo
<1> QED
  BY <1>1, SureParts

LEMMA Seq2Keeps == IInv /\ Seq2 => IInv'
<1> SUFFICES ASSUME IInv, Seq2 PROVE IInv'
  OBVIOUS
<1> DEFINE e == [One EXCEPT !.lval = FALSE]
<1>1. HasTwo /\ UseAs(IntT, 2, TRUE, <<e>>, "SEQ")
  BY DEF Seq2, Use
<1>2. One \in Exprs /\ Sure(One)
  BY <1>1, OperandsTwo
<1>3. e \in Exprs /\ Sure(e)
  <2>1. e \in Exprs
    BY <1>2, Zenon DEF Exprs
  <2>2. /\ e.type = One.type /\ e.rax = One.rax /\ e.top = One.top
        /\ e.truth = One.truth /\ e.lval = FALSE
    BY <1>2, Zenon DEF Exprs
  <2> HIDE DEF e
  <2> QED
    BY <1>2, <2>1, <2>2, Zenon DEF Sure
<1> HIDE DEF e
<1> QED
  BY <1>1, <1>3, MadeOne, UseTwo

LEMMA AssignKeeps == IInv /\ Assign => IInv'
<1> SUFFICES ASSUME IInv, Assign PROVE IInv'
  OBVIOUS
<1> DEFINE n == size(Left.type)
           w == extend_rax(One.top, n, type_size(One.type), size(One.type))
           rax == IF n < size(One.type) THEN Word(n, w.clear) ELSE w
           top == ToMemory(Address, n)
           e == Value(Left.type, rax, top)
<1>1. /\ HasTwo /\ Left.type.ty # "ARRAY" /\ assignable(Left.type, One.type)
      /\ UseAs(IntT, 2, w.ok >= n, <<e>>, "ASGN")
  BY DEF Assign, Use
<1>2. /\ One.type \in Types /\ size(One.type) \in {1, 4, 8}
      /\ One.top \in Words /\ One.top.ok \in {0, 1, 4, 8} /\ One.top.ok >= size(One.type)
      /\ Left.type \in Types /\ n \in {1, 4, 8}
  BY <1>1, TwoFacts
<1>3. type_size(One.type) \in Nat \ {0}
  BY <1>2, SizeFacts
<1>4. /\ w \in Words
      /\ n <= type_size(One.type) => w = One.top
      /\ n = 4 /\ One.top.ok >= 1 => w.ok >= 4 \/ n <= type_size(One.type)
      /\ n = 8 /\ One.top.ok >= 4 /\ size(One.type) # 8 => w.ok = 8 \/ n <= type_size(One.type)
  <2> DEFINE src == type_size(One.type)
             own == size(One.type)
  <2>1. One.top \in Words /\ n \in Sizes /\ src \in Nat \ {0} /\ own \in Sizes
    BY <1>2, <1>3 DEF Sizes
  <2> HIDE DEF n, src, own
  <2>2. LET x == extend_rax(One.top, n, src, own) IN
        /\ x \in Words
        /\ n <= src \/ One.top = Natural => x = One.top
        /\ n = 4 /\ One.top.ok >= 1 => x.ok >= 4 \/ n <= src
        /\ n = 8 /\ One.top.ok >= 4 /\ own # 8 => x.ok = 8 \/ n <= src
    BY <2>1, ExtendedWords
  <2> QED
    BY <2>2, Zenon DEF src, own
<1>5. w.clear \in BOOLEAN
  <2>1. w \in Words
    BY <1>4
  <2> HIDE DEF w
  <2> QED
    BY <2>1, Zenon DEF Words
<1>6. top \in Words /\ top.ok = n
  BY <1>2, WholeWords, WrittenWords
<1>7. ASSUME w.ok >= n PROVE e \in Exprs /\ Sure(e)
  <2>1. rax \in Words /\ rax.ok >= n
    <3>1. CASE n < size(One.type)
      <4>1. n \in {0, 1, 4, 8}
        BY <1>2
      <4>2. Word(n, w.clear) \in Words /\ Word(n, w.clear).ok = n
        BY <1>5, <4>1, WordFacts, Zenon
      <4>3. rax = Word(n, w.clear)
        BY <3>1, Zenon
      <4>4. rax \in Words /\ rax.ok = n
        BY <4>2, <4>3, Zenon
      <4> QED
        BY <4>4, <1>2
    <3>2. CASE ~(n < size(One.type))
      BY <3>2, <1>4, <1>7
    <3> QED
      BY <3>1, <3>2
  <2> HIDE DEF rax, top
  <2> QED
    BY <1>2, <1>6, <2>1, SureValue
<1>8. ASSUME ~(w.ok >= n)
      PROVE  is_pointer(Left.type) /\ One.type.ty = "ARRAY" /\ type_size(One.type) < 8
  <2>1. n = size(Left.type) /\ (n = 1 <=> Left.type = CharT) /\ (n = 8 <=> is_pointer_compat(Left.type))
    BY <1>2, SizeFacts
  <2>2. /\ size(One.type) = 8 <=> is_pointer_compat(One.type)
        /\ size(One.type) = 1 <=> One.type = CharT
        /\ One.type.ty # "ARRAY" => type_size(One.type) = size(One.type)
    BY <1>2, SizeFacts
  <2> HIDE DEF w, n
  <2>3. n > type_size(One.type)
    <3>1. CASE One.type.ty # "ARRAY"
      BY <3>1, <2>2, <1>2, <1>4, <1>8
    <3>2. CASE One.type.ty = "ARRAY"
      <4>1. size(One.type) = 8
        BY <3>2, <2>2 DEF is_pointer_compat
      <4> QED
        BY <4>1, <1>2, <1>3, <1>4, <1>8
    <3> QED
      BY <3>1, <3>2
  <2>4. n = 8
    BY <2>3, <1>2, <1>3, <1>4, <1>8
  <2>5. is_pointer(Left.type)
    BY <2>1, <2>4, <1>1 DEF is_pointer, is_pointer_compat
  <2>6. One.type = IntT \/ is_pointer_compat(One.type)
    BY <2>5, <1>1 DEF assignable, is_integer, is_pointer
  <2>7. One.type # IntT
    <3> SUFFICES ASSUME One.type = IntT PROVE FALSE
      OBVIOUS
    <3>1. size(One.type) = 4
      BY OwnTypes
    <3> QED
      BY <3>1, <2>4, <2>3, <1>2, <1>3, <1>4, <1>8
  <2>8. One.type.ty = "ARRAY"
    <3> SUFFICES ASSUME One.type.ty # "ARRAY" PROVE FALSE
      OBVIOUS
    <3> QED
      BY <2>2, <2>3, <2>4, <2>6, <2>7
  <2> QED
    BY <2>3, <2>4, <2>5, <2>8
<1>9. ~(w.ok >= n) => Excused("ASGN", IntT, <<Left, One>>)
  BY <1>8 DEF Excused
<1> HIDE DEF e, w, n
<1> QED
  BY <1>1, <1>7, <1>9, MadeOne, UseTwo

\* c ? l : r is as sure as the less sure of the two.
LEMMA MeetSure ==
  ASSUME NEW l \in Exprs, NEW r \in Exprs, Sure(l), Sure(r),
         l.type = r.type, l.lval = FALSE
  PROVE  LET e == [l EXCEPT !.rax = Both(l.rax, r.rax), !.top = Both(l.top, r.top),
                            !.truth = l.truth /\ r.truth]
         IN  e \in Exprs /\ Sure(e)
<1> DEFINE rax == Both(l.rax, r.rax)
           top == Both(l.top, r.top)
           truth == l.truth /\ r.truth
           e == [l EXCEPT !.rax = rax, !.top = top, !.truth = truth]
<1>1. /\ rax \in Words /\ (rax.ok = l.rax.ok \/ rax.ok = r.rax.ok)
      /\ rax.ok <= l.rax.ok /\ rax.ok <= r.rax.ok
      /\ top \in Words /\ (top.ok = l.top.ok \/ top.ok = r.top.ok)
  BY ExprsParts, BothWords
<1>2. truth \in BOOLEAN
  BY Zenon
<1>3. rax \in Words /\ top \in Words
  BY ExprsParts, BothWords
<1>4. e \in Exprs
  <2> HIDE DEF rax, top, truth
  <2> QED
    BY <1>2, <1>3, Zenon DEF Exprs
<1>5. /\ e.type = l.type /\ e.rax = rax /\ e.top = top
      /\ e.truth = truth /\ e.lval = FALSE
  <2> HIDE DEF rax, top, truth
  <2> QED
    BY Zenon DEF Exprs
<1>6. /\ l.top.ok >= size(l.type) /\ r.top.ok >= size(r.type)
      /\ l.rax.ok = 0 \/ (l.rax.ok >= size(l.type) /\ l.truth)
      /\ r.rax.ok = 0 \/ (r.rax.ok >= size(r.type) /\ r.truth)
  BY Zenon DEF Sure
<1>7. /\ l.rax.ok \in {0, 1, 4, 8} /\ r.rax.ok \in {0, 1, 4, 8}
      /\ l.top.ok \in {0, 1, 4, 8} /\ r.top.ok \in {0, 1, 4, 8}
  BY ExprsParts
<1>8. top.ok >= size(l.type)
  BY <1>1, <1>6, <1>7
<1>9. rax.ok = 0 \/ (l.rax.ok # 0 /\ r.rax.ok # 0)
  BY <1>1, <1>7
<1>10. rax.ok = 0 \/ rax.ok >= size(l.type)
  <2> HIDE DEF rax, top, truth
  <2>1. CASE l.rax.ok # 0 /\ r.rax.ok # 0
    <3>1. l.rax.ok >= size(l.type) /\ r.rax.ok >= size(l.type)
      BY <2>1, <1>6
    <3> QED
      BY <3>1, <1>1, <1>7
  <2> QED
    BY <2>1, <1>9
<1>11. rax.ok = 0 \/ truth
  BY <1>6, <1>9, Zenon
<1> HIDE DEF e, rax, top, truth
<1>12. Sure(e)
  BY <1>5, <1>8, <1>10, <1>11, Zenon DEF Sure
<1> QED
  BY <1>4, <1>12, Zenon DEF e, rax, top, truth

LEMMA ConditionalKeeps == IInv /\ Conditional => IInv'
<1> SUFFICES ASSUME IInv, Conditional PROVE IInv'
  OBVIOUS
<1>1. PICK t \in Types :
        LET l == Retyped(Left, t)
            r == Retyped(One, t)
        IN  HasTwo /\ UseAs(t, 2, Kept(l) /\ Kept(r),
              <<[l EXCEPT !.rax = Both(l.rax, r.rax), !.top = Both(l.top, r.top),
                          !.truth = l.truth /\ r.truth]>>, "COND")
  BY Zenon DEF Conditional
<1> DEFINE l == Retyped(Left, t)
           r == Retyped(One, t)
           right == Kept(l) /\ Kept(r)
           e == [l EXCEPT !.rax = Both(l.rax, r.rax), !.top = Both(l.top, r.top),
                          !.truth = l.truth /\ r.truth]
<1>2. HasTwo /\ UseAs(t, 2, right, <<e>>, "COND")
  BY <1>1, Zenon
<1>3. /\ One \in Exprs /\ Sure(One) /\ Left \in Exprs /\ Sure(Left)
  BY <1>2, OperandsTwo
<1>4. /\ l \in Exprs /\ l.type = t /\ l.lval = FALSE /\ (Kept(l) => Sure(l))
      /\ size(t) <= size(Left.type) => Kept(l)
  BY <1>3, RetypedFacts, Zenon
<1>5. /\ r \in Exprs /\ r.type = t /\ (Kept(r) => Sure(r))
      /\ size(t) <= size(One.type) => Kept(r)
  BY <1>3, RetypedFacts, Zenon
<1> HIDE DEF l, r
<1>6. right => e \in Exprs /\ Sure(e)
  BY <1>4, <1>5, MeetSure, Zenon
<1>7. size(t) \in {1, 4, 8} /\ size(Left.type) \in {1, 4, 8} /\ size(One.type) \in {1, 4, 8}
  BY <1>2, TwoFacts, SizeFacts
<1>8. ~right => size(t) > size(Left.type) \/ size(t) > size(One.type)
  <2>1. ~right => ~(size(t) <= size(Left.type)) \/ ~(size(t) <= size(One.type))
    BY <1>4, <1>5, Zenon
  <2> HIDE DEF right
  <2> QED
    BY <2>1, <1>7
<1> HIDE DEF right, e
<1>9. ~right => Excused("COND", t, <<Left, One>>)
  BY <1>8 DEF Excused
<1> QED
  BY <1>2, <1>6, <1>9, MadeOne, UseTwo

\* The value of && and || is that of an int, but rax is not.
LEMMA LogicalKeeps ==
  ASSUME IInv, NEW popped, NEW at \in {"LAND", "LOR"}, Logical(popped, at)
  PROVE  IInv'
<1> DEFINE top == Both(Zero(Left), Zero(One))
           right == Left.truth /\ One.truth /\ top.ok >= 4
<1>1. HasTwo
  BY Zenon DEF Logical
<1>2. PICK truth \in BOOLEAN :
        UseAs(IntT, 2, right,
              <<[type |-> IntT, rax |-> Word(0, FALSE), top |-> top, lval |-> FALSE,
                 truth |-> truth]>>, at)
  <2> DEFINE T == /\ \A e \in {Left, One} : e.type.ty = "CHAR" => e.rax.ok >= 4
                  /\ \A e \in popped : ~is_pointer(e.type)
  <2>1. T \in BOOLEAN
    BY Zenon
  <2>2. UseAs(IntT, 2, right,
              <<[type |-> IntT, rax |-> Word(0, FALSE), top |-> top, lval |-> FALSE,
                 truth |-> T]>>, at)
    BY Zenon DEF Logical, Use
  <2> HIDE DEF T
  <2> QED
    BY <2>1, <2>2, Zenon
<1> DEFINE e == [type |-> IntT, rax |-> Word(0, FALSE), top |-> top, lval |-> FALSE,
                 truth |-> truth]
<1>3. /\ One \in Exprs /\ Sure(One) /\ Left \in Exprs /\ Sure(Left)
  BY <1>1, OperandsTwo
<1>4. /\ Zero(Left) \in Words /\ (Zero(Left) = Natural \/ Zero(Left) = Left.top)
      /\ Zero(One) \in Words /\ (Zero(One) = Natural \/ Zero(One) = One.top)
  BY <1>1, TwoFacts, WholeWords DEF Zero
<1>5. /\ top \in Words
      /\ top.ok = Zero(Left).ok \/ top.ok = Zero(One).ok
  BY <1>4, BothWords
<1>6. right => e \in Exprs /\ Sure(e)
  <2> SUFFICES ASSUME right PROVE e \in Exprs /\ Sure(e)
    OBVIOUS
  <2>1. Word(0, FALSE) \in Words /\ Word(0, FALSE).ok = 0
    BY LiteralWords, Zenon
  <2>2. top \in Words /\ top.ok >= 4
    BY <1>5
  <2>3. IntT \in Types /\ size(IntT) = 4
    BY OwnTypes
  <2> HIDE DEF top
  <2>4. e \in Exprs
    BY <2>1, <2>2, <2>3, ExprsMade, Zenon
  <2>5. e.type = IntT /\ e.rax = Word(0, FALSE) /\ e.top = top /\ e.lval = FALSE
    BY Zenon
  <2> HIDE DEF e
  <2>6. Sure(e)
    BY <2>1, <2>2, <2>3, <2>5, Zenon DEF Sure
  <2> QED
    BY <2>4, <2>6
<1>7. ~right => \/ CharT \in {Left.type, One.type}
                \/ 0 \in {Left.rax.ok, One.rax.ok}
  <2> SUFFICES ASSUME Left.type # CharT, One.type # CharT, Left.rax.ok # 0, One.rax.ok # 0
               PROVE  right
    BY Zenon
  <2>1. Left.truth /\ One.truth
    BY <1>3, Zenon DEF Sure
  <2>2. size(Left.type) >= 4 /\ size(One.type) >= 4
    BY <1>1, TwoFacts, SizeFacts
  <2>3. Left.top.ok >= 4 /\ One.top.ok >= 4
    BY <1>1, <2>2, TwoFacts
  <2>4. Zero(Left).ok >= 4 /\ Zero(One).ok >= 4
    BY <1>4, <2>3, WholeWords
  <2>5. top.ok >= 4
    BY <1>5, <2>4
  <2> QED
    BY <2>1, <2>5, Zenon
<1> HIDE DEF right, e
<1>8. ~right => Excused(at, IntT, <<Left, One>>)
  BY <1>7 DEF Excused
<1>9. UseAs(IntT, 2, right, <<e>>, at)
  BY <1>2, Zenon DEF e
<1> QED
  BY <1>1, <1>6, <1>8, <1>9, MadeOne, UseTwo

LEMMA ShiftKeeps == IInv /\ Shift => IInv'
<1> SUFFICES ASSUME IInv, Shift PROVE IInv'
  OBVIOUS
<1>1. HasTwo
  BY DEF Shift
<1> DEFINE n == size(Left.type)
           rax == ToRegister(One.rax, n)
           word(assign) == IF assign THEN Address ELSE Left.top
<1>2. PICK assign \in BOOLEAN :
        UseAs(IntT, 2, One.top.ok >= 1 /\ (~assign => Left.top.ok >= n),
              <<Value(Left.type, rax, ToMemory(word(assign), n))>>, "SHIFT")
  BY Zenon DEF Shift, Use
<1> DEFINE top == ToMemory(word(assign), n)
           e == Value(Left.type, rax, top)
           right == One.top.ok >= 1 /\ (~assign => Left.top.ok >= n)
<1>3. n \in {1, 4, 8} /\ Left.type \in Types /\ One.rax \in Words /\ Left.top \in Words
  BY <1>1, TwoFacts
<1>4. word(assign) \in Words
  <2>1. word(assign) = Address \/ word(assign) = Left.top
    BY Zenon
  <2> QED
    BY <2>1, <1>3, WholeWords, Zenon
<1>5. top \in Words /\ top.ok = n
  <2> HIDE DEF word
  <2> QED
    BY <1>3, <1>4, WrittenWords
<1>6. rax \in Words /\ rax.ok = n
  BY <1>3, WrittenWords
<1>7. right
  BY <1>1, TwoFacts
<1> HIDE DEF top, rax, word
<1>8. e \in Exprs /\ Sure(e)
  BY <1>3, <1>5, <1>6, SureValue
<1>9. UseAs(IntT, 2, right, <<e>>, "SHIFT")
  BY <1>2, Zenon DEF top
<1> HIDE DEF e, right
<1> QED
  BY <1>1, <1>7, <1>8, <1>9, MadeOne, UseTwo

-----------------------------------------------------------------------------
(* Arithmetic.                                                             *)

\* The mixes of types that sema_expr lets through.
Comparison(kind, lt, rt, t) ==
  kind = "CMP" /\ t = IntT /\ {lt.ty, rt.ty} \subseteq {"INT", "CHAR", "ENUM", "PTR"}
TwoIntegers(kind, lt, rt, assign, t) ==
  /\ kind # "CMP" /\ is_integer(lt) /\ is_integer(rt)
  /\ \/ assign /\ t = lt
     \/ ~assign /\ t = binary_int_op_result(lt, rt)
IndexRight(kind, lt, rt, t) ==
  kind \in {"ADD", "SUB"} /\ is_pointer_compat(lt) /\ is_integer(rt) /\ t = coerce_pointer(lt)
IndexLeft(kind, lt, rt, assign, t) ==
  kind = "ADD" /\ ~assign /\ is_integer(lt) /\ is_pointer_compat(rt) /\ t = coerce_pointer(rt)
TwoPointers(kind, lt, rt, assign, t) ==
  kind = "SUB" /\ ~assign /\ is_pointer_compat(lt) /\ is_pointer_compat(rt) /\ t = IntT

LEMMA ArithMixes ==
  ASSUME NEW kind \in ArithKinds, NEW lt \in Types, NEW rt \in Types, NEW assign \in BOOLEAN,
         NEW t \in ArithTypes(kind, lt, rt, assign)
  PROVE  \/ Comparison(kind, lt, rt, t)
         \/ TwoIntegers(kind, lt, rt, assign, t)
         \/ IndexRight(kind, lt, rt, t)
         \/ IndexLeft(kind, lt, rt, assign, t)
         \/ TwoPointers(kind, lt, rt, assign, t)
<1>1. CASE kind = "CMP"
  <2>1. t \in IF {lt.ty, rt.ty} \subseteq {"INT", "CHAR", "ENUM", "PTR"} THEN {IntT} ELSE {}
    BY <1>1 DEF ArithTypes
  <2> QED
    BY <1>1, <2>1 DEF Comparison
<1>2. CASE kind # "CMP" /\ is_integer(lt) /\ is_integer(rt)
  <2>1. t \in {IF assign THEN lt ELSE binary_int_op_result(lt, rt)}
    BY <1>2 DEF ArithTypes, is_integer, is_pointer_compat
  <2> QED
    BY <1>2, <2>1 DEF TwoIntegers
<1>3. CASE kind # "CMP" /\ ~(is_integer(lt) /\ is_integer(rt))
  <2>1. is_integer(IntT)
    BY DEF is_integer, IntT
  <2>2. ~(is_integer(lt) /\ is_pointer_compat(lt)) /\ ~(is_integer(rt) /\ is_pointer_compat(rt))
    BY DEF is_integer, is_pointer_compat
  <2>3. CASE kind = "ADD" /\ is_pointer_compat(lt) /\ is_integer(rt)
    <3>1. t \in {coerce_pointer(lt)}
      BY <1>3, <2>2, <2>3 DEF ArithTypes
    <3> QED
      BY <2>3, <3>1 DEF IndexRight
  <2>4. CASE kind = "ADD" /\ is_integer(lt) /\ is_pointer_compat(rt) /\ ~assign
    <3>1. t \in {coerce_pointer(rt)}
      BY <1>3, <2>2, <2>4 DEF ArithTypes
    <3> QED
      BY <2>4, <3>1 DEF IndexLeft
  <2>5. CASE kind = "SUB" /\ is_pointer_compat(lt) /\ (rt = IntT \/ (assign /\ is_integer(rt)))
    <3>1. t \in {coerce_pointer(lt)}
      BY <1>3, <2>1, <2>2, <2>5 DEF ArithTypes
    <3> QED
      BY <2>1, <2>5, <3>1 DEF IndexRight
  <2>6. CASE kind = "SUB" /\ is_pointer_compat(lt) /\ is_pointer_compat(rt) /\ ~assign
    <3>1. t \in IF eq_type(lt.ptr_to, rt.ptr_to) THEN {IntT} ELSE {}
      BY <1>3, <2>1, <2>2, <2>6 DEF ArithTypes
    <3> QED
      BY <2>6, <3>1 DEF TwoPointers
  <2> QED
    BY <1>3, <2>3, <2>4, <2>5, <2>6 DEF ArithTypes
<1> QED
  BY <1>1, <1>2, <1>3

\* The result has a type with a size of its own.
LEMMA ArithTyped ==
  ASSUME NEW kind \in ArithKinds, NEW lt \in Types, NEW rt \in Types, NEW assign \in BOOLEAN,
         NEW t \in ArithTypes(kind, lt, rt, assign)
  PROVE  t \in Types /\ size(t) \in {1, 4, 8}
<1>1. t \in {IntT, CharT, lt, coerce_pointer(lt), coerce_pointer(rt)}
  BY ArithMixes
     DEF Comparison, TwoIntegers, IndexRight, IndexLeft, TwoPointers, binary_int_op_result
<1>2. t \in Types
  BY <1>1, OwnTypes, TypeFacts
<1> QED
  BY <1>2, SizeFacts

\* The compiler ends only on the types that RefusesOnly names.
LEMMA ArithRefused ==
  ASSUME NEW kind \in ArithKinds, NEW l, NEW r, l.type \in Types, r.type \in Types,
         NEW assign \in BOOLEAN, NEW t \in ArithTypes(kind, l.type, r.type, assign),
         ~Assembles(kind, t, l, r)
  PROVE  \/ ptr_of(VoidT) \in {l.type, r.type} /\ kind \in {"ADD", "SUB"}
         \/ {l.type, r.type} \cap {CharT, EnumT} # {} /\ kind \in {"ADD", "SUB", "MUL"}
<1> DEFINE lt == l.type
           rt == r.type
<1>1. \A u \in Types : /\ is_integer(u) => u \in {IntT, CharT, EnumT}
                       /\ is_pointer_compat(u) => ~is_integer(u) /\ u # IntT
                       /\ is_pointer_compat(u) /\ u.ptr_to = VoidT => u = ptr_of(VoidT)
                       /\ size(u) = 1 => u = CharT
  BY TypeFacts, PointeeFacts, SizeFacts DEF is_integer, is_pointer_compat
<1>2. CASE kind = "MUL" /\ size(t) = 1
  <2>1. t = CharT
    BY <1>1, <1>2, ArithTyped
  <2>2. TwoIntegers(kind, lt, rt, assign, t)
    BY <1>2, ArithMixes DEF Comparison, IndexRight, IndexLeft, TwoPointers
  <2>3. lt = CharT \/ lt.ty = "CHAR" \/ IntT = CharT
    BY <2>1, <2>2 DEF TwoIntegers, binary_int_op_result
  <2>4. lt = CharT
    BY <2>3, TypeFacts DEF IntT, CharT
  <2> QED
    BY <2>4, <1>2
<1>3. CASE kind \in {"ADD", "SUB"} /\ ~Scales(lt, rt)
  <2>1. CASE TwoIntegers(kind, lt, rt, assign, t)
    BY <1>1, <1>3, <2>1 DEF TwoIntegers, Scales
  <2>2. CASE IndexRight(kind, lt, rt, t)
    BY <1>1, <1>3, <2>2 DEF IndexRight, Scales
  <2>3. CASE IndexLeft(kind, lt, rt, assign, t)
    BY <1>1, <1>3, <2>3 DEF IndexLeft, Scales
  <2>4. CASE TwoPointers(kind, lt, rt, assign, t)
    BY <1>3, <2>4 DEF TwoPointers, Scales
  <2> QED
    BY <1>3, <2>1, <2>2, <2>3, <2>4, ArithMixes DEF Comparison
<1>4. CASE kind = "SUB" /\ is_pointer_compat(lt) /\ lt.ptr_to = VoidT
  BY <1>1, <1>4
<1> QED
  BY <1>2, <1>3, <1>4 DEF Assembles

\* What extending does to the word of an integer, and of an index.
LEMMA ExtendedInteger ==
  ASSUME NEW w \in Words, NEW src \in {1, 4}, NEW n \in {1, 4}, w.ok >= src
  PROVE  /\ extend_rax(w, n, src, src).ok >= n
         /\ w = Natural => extend_rax(w, n, src, src) = Natural
<1>1. n \in Sizes /\ src \in Sizes /\ src \in Nat \ {0}
  BY DEF Sizes
<1> DEFINE x == extend_rax(w, n, src, src)
<1>2. /\ n <= src \/ w = Natural => x = w
      /\ n = 4 /\ w.ok >= 1 => x.ok >= 4 \/ n <= src
  BY <1>1, ExtendedWords
<1>3. w.ok \in {0, 1, 4, 8}
  BY Zenon DEF Words
<1> HIDE DEF x
<1>4. x.ok >= n
  BY <1>2, <1>3
<1> QED
  BY <1>2, <1>4 DEF x

LEMMA ExtendedIndex ==
  ASSUME NEW w \in Words, w.ok >= 4, NEW t
  PROVE  LET x == Scaled(extend_rax(w, 8, 4, 4), t) IN
         type_size(t) = 1 \/ w = Natural => x.ok = 8
<1> DEFINE y == extend_rax(w, 8, 4, 4)
<1>1. y.ok = 8 /\ (w = Natural => y = Natural)
  <2>1. 8 \in Sizes /\ 4 \in Sizes /\ 4 \in Nat \ {0} /\ ~(8 <= 4)
    BY DEF Sizes
  <2>2. /\ 8 <= 4 \/ w = Natural => y = w
        /\ 8 = 8 /\ w.ok >= 4 /\ 4 # 8 => y.ok = 8 \/ 8 <= 4
    BY <2>1, ExtendedWords
  <2> HIDE DEF y
  <2> QED
    BY <2>1, <2>2
<1> HIDE DEF y
<1>2. type_size(t) = 1 \/ w = Natural => Scaled(y, t) = y
  BY <1>1, Zenon DEF Scaled
<1> QED
  BY <1>1, <1>2, Zenon DEF y

\* The address of a pointer or an array is not extended.
LEMMA ExtendedPointer ==
  ASSUME NEW w \in Words, NEW n \in {1, 4, 8}
  PROVE  extend_rax(w, n, 8, 8) = w
<1>1. n <= 8
  OBVIOUS
<1> QED
  BY <1>1, Zenon DEF extend_rax

\* What the code of an operator relies on, for the word lw of its left operand.
Relies(kind, t, lw, l, r) ==
  /\ Sound(kind, size(t), l, r)
  /\ Operand(lw, t, l, r, kind).ok >= DividendBytes(kind, size(t))
  /\ Operand(r.top, t, r, l, kind).ok >= size(t)

\* The word that an operator reads its left operand from.
LeftWord(assign, t, l) == IF assign THEN ToRegister(Address, size(t)) ELSE l.top

LEMMA LeftWordFacts ==
  ASSUME NEW assign \in BOOLEAN, NEW t \in Types, NEW l \in Exprs, Sure(l),
         assign => size(t) = size(l.type)
  PROVE  /\ LeftWord(assign, t, l) \in Words
         /\ LeftWord(assign, t, l).ok >= size(l.type)
         /\ ~assign => LeftWord(assign, t, l) = l.top
<1>1. size(t) \in {1, 4, 8} /\ l.top \in Words /\ l.top.ok >= size(l.type)
  BY SizeFacts, SureParts
<1>2. /\ ToRegister(Address, size(t)) \in Words
      /\ ToRegister(Address, size(t)).ok = size(t)
  BY <1>1, WholeWords, WrittenWords
<1>3. CASE assign
  <2>1. LeftWord(assign, t, l) = ToRegister(Address, size(t))
    BY <1>3 DEF LeftWord
  <2> QED
    BY <2>1, <1>1, <1>2, <1>3
<1>4. CASE ~assign
  <2>1. LeftWord(assign, t, l) = l.top
    BY <1>4 DEF LeftWord
  <2> QED
    BY <2>1, <1>1, <1>4
<1> QED
  BY <1>3, <1>4

LEMMA IntegersRely ==
  ASSUME NEW kind \in ArithKinds, NEW l \in Exprs, NEW r \in Exprs, Sure(l), Sure(r),
         NEW assign \in BOOLEAN, assign => l.lval, NEW t \in Types,
         TwoIntegers(kind, l.type, r.type, assign, t),
         ~Relies(kind, t, LeftWord(assign, t, l), l, r)
  PROVE  Excused(kind, IntT, <<l, r>>)
<1> DEFINE lw == LeftWord(assign, t, l)
           n == size(t)
           m == size(l.type)
           k == size(r.type)
           lx == Operand(lw, t, l, r, kind)
           rx == Operand(r.top, t, r, l, kind)
<1>1. /\ kind # "CMP" /\ is_integer(l.type) /\ is_integer(r.type)
      /\ assign => t = l.type
      /\ ~assign => t = binary_int_op_result(l.type, r.type)
  BY DEF TwoIntegers
<1>2. /\ l.type \in Types /\ r.type \in Types /\ l.top \in Words /\ r.top \in Words
      /\ r.top.ok >= k /\ l.top.ok \in {0, 1, 4, 8}
  BY SureParts
<1>3. ~is_pointer_compat(l.type) /\ ~is_pointer_compat(r.type)
  BY <1>1 DEF is_integer, is_pointer_compat
<1>4. m \in {1, 4} /\ k \in {1, 4}
  BY <1>2, <1>3, SizeFacts
<1>5. n \in {1, 4} /\ (n = 1 => l.type = CharT)
  <2>1. CASE assign
    BY <2>1, <1>1, <1>2, <1>4, SizeFacts
  <2>2. CASE ~assign
    <3>1. (t = CharT /\ l.type.ty = "CHAR") \/ t = IntT
      BY <2>2, <1>1 DEF binary_int_op_result
    <3> QED
      BY <3>1, <1>2, OwnTypes, TypeFacts
  <2> QED
    BY <2>1, <2>2
<1>6. lw \in Words /\ lw.ok >= m /\ (~assign => lw = l.top)
  <2>1. assign => size(t) = size(l.type)
    BY <1>1
  <2> QED
    BY <2>1, LeftWordFacts
<1>7. lx = extend_rax(lw, n, m, m) /\ rx = extend_rax(r.top, n, k, k)
  BY <1>3, Zenon DEF Operand
<1> HIDE DEF lw, n, m, k
<1>8. /\ extend_rax(lw, n, m, m).ok >= n /\ extend_rax(r.top, n, k, k).ok >= n
      /\ lw = Natural => extend_rax(lw, n, m, m) = Natural
  BY <1>2, <1>4, <1>5, <1>6, ExtendedInteger
<1>9. lx.ok >= n /\ rx.ok >= n /\ (lw = Natural => lx = Natural)
  BY <1>7, <1>8
<1>10. Sound(kind, n, l, r) \/ (kind = "MOD" /\ n = 1)
  BY <1>1, <1>3, Zenon DEF Sound
<1>11. ~(Sound(kind, n, l, r) /\ lx.ok >= DividendBytes(kind, n) /\ rx.ok >= n)
  BY Zenon DEF Relies, lw, n
<1>12. kind # "DIV" => DividendBytes(kind, n) = n
  BY Zenon DEF DividendBytes
<1>13. DividendBytes(kind, n) <= 8
  BY <1>5 DEF DividendBytes
<1> HIDE DEF lx, rx
<1>14. CASE kind = "MOD"
  <2>1. l.type = CharT
    BY <1>5, <1>9, <1>10, <1>11, <1>12, <1>14, Zenon
  <2> QED
    BY <2>1, <1>14 DEF Excused
<1>15. CASE kind = "DIV"
  <2>1. lw # Natural
    <3> SUFFICES ASSUME lw = Natural PROVE FALSE
      OBVIOUS
    <3>1. lx.ok = 8
      BY <1>9, WholeWords
    <3>2. DividendBytes(kind, n) \in {4, 8}
      BY <1>15, <1>5 DEF DividendBytes
    <3>3. lx.ok >= DividendBytes(kind, n)
      BY <3>1, <3>2
    <3>4. Sound(kind, n, l, r)
      BY <1>10, <1>15
    <3> QED
      BY <3>3, <3>4, <1>9, <1>11
  <2>2. l.top # Natural
    BY <2>1, <1>6, Zenon DEF Sure
  <2> QED
    BY <2>2, <1>15 DEF Excused
<1> QED
  BY <1>9, <1>10, <1>11, <1>12, <1>14, <1>15, Zenon

LEMMA ComparisonRelies ==
  ASSUME NEW l \in Exprs, NEW r \in Exprs, Sure(l), Sure(r),
         Comparison("CMP", l.type, r.type, IntT),
         ~Relies("CMP", IntT, l.top, l, r)
  PROVE  Excused("CMP", IntT, <<l, r>>)
<1>1. {l.type.ty, r.type.ty} \subseteq {"INT", "CHAR", "ENUM", "PTR"}
  BY DEF Comparison
<1>2. /\ l.type \in Types /\ r.type \in Types /\ l.top \in Words /\ r.top \in Words
      /\ l.top.ok >= size(l.type) /\ r.top.ok >= size(r.type)
  BY SureParts
<1>3. CASE is_pointer(l.type) \/ is_pointer(r.type)
  BY <1>3 DEF Excused
<1>4. CASE ~(is_pointer(l.type) \/ is_pointer(r.type))
  <2>1. ~is_pointer_compat(l.type) /\ ~is_pointer_compat(r.type)
    BY <1>1, <1>4 DEF is_pointer, is_pointer_compat
  <2>2. size(l.type) \in {1, 4} /\ size(r.type) \in {1, 4} /\ size(IntT) = 4
    BY <1>2, <2>1, SizeFacts, OwnTypes
  <2>3. /\ Operand(l.top, IntT, l, r, "CMP") = extend_rax(l.top, 4, size(l.type), size(l.type))
        /\ Operand(r.top, IntT, r, l, "CMP") = extend_rax(r.top, 4, size(r.type), size(r.type))
    BY <2>2 DEF Operand
  <2>4. /\ Operand(l.top, IntT, l, r, "CMP").ok >= 4
        /\ Operand(r.top, IntT, r, l, "CMP").ok >= 4
    <3> DEFINE m == size(l.type)
               k == size(r.type)
    <3> HIDE DEF m, k
    <3>1. m \in {1, 4} /\ k \in {1, 4} /\ l.top.ok >= m /\ r.top.ok >= k
      BY <1>2, <2>2 DEF m, k
    <3>2. 4 \in {1, 4}
      OBVIOUS
    <3>3. extend_rax(l.top, 4, m, m).ok >= 4 /\ extend_rax(r.top, 4, k, k).ok >= 4
      BY <1>2, <3>1, <3>2, ExtendedInteger
    <3> QED
      BY <2>3, <3>3, Zenon DEF m, k
  <2>5. Sound("CMP", 4, l, r)
    BY <2>1, <1>1, <1>4 DEF Sound, is_pointer, is_pointer_compat
  <2>6. DividendBytes("CMP", 4) = 4
    BY DEF DividendBytes
  <2> QED
    BY <2>2, <2>4, <2>5, <2>6, Zenon DEF Relies
<1> QED
  BY <1>3, <1>4

\* A scaled index that may be negative is an exception of OperatorsExtend.
LEMMA IndexExcused ==
  ASSUME NEW kind \in {"ADD", "SUB"}, NEW l, NEW r, NEW p \in {l, r},
         is_pointer_compat(p.type), type_size(p.type.ptr_to) > 1,
         \A e \in {l, r} : is_pointer_compat(e.type) \/ e.top # Natural
  PROVE  Excused(kind, IntT, <<l, r>>)
<1> DEFINE o == <<l, r>>
           ps == {e \in {o[1], o[2]} : is_pointer_compat(e.type)}
<1>1. o[1] = l /\ o[2] = r
  OBVIOUS
<1> HIDE DEF o
<1>2. p \in ps
  BY <1>1
<1>3. \A e \in {o[1], o[2]} \ ps : e.top # Natural
  BY <1>1
<1>4. \E q \in ps : /\ type_size(q.type.ptr_to) > 1
                    /\ \A e \in {o[1], o[2]} \ ps : e.top # Natural
  BY <1>2, <1>3
<1>5. Excused(kind, IntT, o)
  BY <1>4 DEF Excused
<1> QED
  BY <1>5 DEF o

\* An object of a known type has a size; one of more than a byte is scaled by it.
LEMMA PointeeSize ==
  ASSUME NEW t \in Types, is_pointer_compat(t), t.ptr_to # VoidT, type_size(t.ptr_to) # 1
  PROVE  type_size(t.ptr_to) > 1
<1>1. t.ptr_to \in Types
  BY PointeeFacts
<1>2. type_size(t.ptr_to) \in Nat \ {0}
  BY <1>1, SizeFacts
<1> QED
  BY <1>2

LEMMA IndexRightRelies ==
  ASSUME NEW kind \in ArithKinds, NEW l \in Exprs, NEW r \in Exprs, Sure(l), Sure(r),
         NEW assign \in BOOLEAN, assign => l.type.ty # "ARRAY", NEW t \in Types,
         IndexRight(kind, l.type, r.type, t), Assembles(kind, t, l, r),
         ~Relies(kind, t, LeftWord(assign, t, l), l, r)
  PROVE  Excused(kind, IntT, <<l, r>>)
<1> DEFINE lw == LeftWord(assign, t, l)
           lx == Operand(lw, t, l, r, kind)
           rx == Operand(r.top, t, r, l, kind)
<1>1. /\ kind \in {"ADD", "SUB"} /\ is_pointer_compat(l.type) /\ is_integer(r.type)
      /\ t = coerce_pointer(l.type)
  BY DEF IndexRight
<1>2. /\ l.type \in Types /\ r.type \in Types /\ l.top \in Words /\ r.top \in Words
      /\ l.top.ok >= size(l.type) /\ r.top.ok >= size(r.type)
  BY SureParts
<1>3. ~is_pointer_compat(r.type) /\ l.type # IntT
  BY <1>1 DEF is_integer, is_pointer_compat, IntT
<1>4. r.type = IntT
  BY <1>1, <1>3 DEF Assembles, Scales
<1>5. size(l.type) = 8 /\ size(r.type) = 4 /\ size(t) = 8
  <2>1. size(l.type) = 8 /\ size(r.type) = 4
    BY <1>1, <1>2, <1>4, SizeFacts, OwnTypes
  <2>2. is_pointer_compat(t)
    BY <1>1 DEF coerce_pointer, ptr_of, is_pointer_compat
  <2> QED
    BY <2>1, <2>2, SizeFacts
<1>6. lw \in Words /\ lw.ok >= 8
  <2>1. assign => size(t) = size(l.type)
    BY <1>5
  <2> QED
    BY <2>1, <1>5, LeftWordFacts
<1> HIDE DEF lw
<1>7. lx = extend_rax(lw, 8, 8, 8)
  BY <1>3, <1>5, Zenon DEF Operand
<1>8. rx = Scaled(extend_rax(r.top, 8, 4, 4), l.type.ptr_to)
  BY <1>1, <1>4, <1>5, Zenon DEF Operand
<1>9. lx.ok >= 8
  <2>1. 8 \in {1, 4, 8}
    OBVIOUS
  <2>2. lx = lw
    BY <1>6, <1>7, <2>1, ExtendedPointer, Zenon
  <2> QED
    BY <2>2, <1>6, Zenon
<1>10. type_size(l.type.ptr_to) = 1 \/ r.top = Natural => rx.ok = 8
  <2>1. r.top.ok >= 4
    BY <1>2, <1>5
  <2> QED
    BY <2>1, <1>2, <1>8, ExtendedIndex, Zenon
<1>11. Sound(kind, 8, l, r)
  <2>1. ~(kind = "MOD" /\ 8 = 1) /\ kind # "CMP"
    BY <1>1
  <2> QED
    BY <2>1, <1>3, Zenon DEF Sound
<1>12. DividendBytes(kind, 8) = 8
  BY <1>1 DEF DividendBytes
<1>13. ~(Sound(kind, 8, l, r) /\ lx.ok >= 8 /\ rx.ok >= 8)
  BY <1>5, <1>12, Zenon DEF Relies, lw
<1> HIDE DEF lx, rx
<1>14. type_size(l.type.ptr_to) # 1 /\ r.top # Natural
  BY <1>9, <1>10, <1>11, <1>13
<1>15. type_size(l.type.ptr_to) > 1
  <2>1. l.type.ptr_to # VoidT
    BY <1>1, <1>3, <1>4 DEF Assembles, Scales
  <2> QED
    BY <1>1, <1>2, <1>14, <2>1, PointeeSize
<1> QED
  BY <1>1, <1>14, <1>15, IndexExcused

LEMMA IndexLeftRelies ==
  ASSUME NEW kind \in ArithKinds, NEW l \in Exprs, NEW r \in Exprs, Sure(l), Sure(r),
         NEW assign \in BOOLEAN, NEW t \in Types,
         IndexLeft(kind, l.type, r.type, assign, t), Assembles(kind, t, l, r),
         ~Relies(kind, t, LeftWord(assign, t, l), l, r)
  PROVE  Excused(kind, IntT, <<l, r>>)
<1> DEFINE lx == Operand(l.top, t, l, r, kind)
           rx == Operand(r.top, t, r, l, kind)
<1>1. /\ kind = "ADD" /\ ~assign /\ is_integer(l.type) /\ is_pointer_compat(r.type)
      /\ t = coerce_pointer(r.type)
  BY DEF IndexLeft
<1>2. /\ l.type \in Types /\ r.type \in Types /\ l.top \in Words /\ r.top \in Words
      /\ l.top.ok >= size(l.type) /\ r.top.ok >= size(r.type)
  BY SureParts
<1>3. ~is_pointer_compat(l.type) /\ r.type # IntT
  BY <1>1 DEF is_integer, is_pointer_compat, IntT
<1>4. l.type = IntT
  BY <1>1, <1>3 DEF Assembles, Scales
<1>5. size(r.type) = 8 /\ size(l.type) = 4 /\ size(t) = 8
  <2>1. size(r.type) = 8 /\ size(l.type) = 4
    BY <1>1, <1>2, <1>4, SizeFacts, OwnTypes
  <2>2. is_pointer_compat(t)
    BY <1>1 DEF coerce_pointer, ptr_of, is_pointer_compat
  <2> QED
    BY <2>1, <2>2, SizeFacts
<1>6. LeftWord(assign, t, l) = l.top
  BY <1>1, Zenon DEF LeftWord
<1>7. lx = Scaled(extend_rax(l.top, 8, 4, 4), r.type.ptr_to)
  BY <1>1, <1>4, <1>5, Zenon DEF Operand
<1>8. rx = extend_rax(r.top, 8, 8, 8)
  BY <1>3, <1>5, Zenon DEF Operand
<1>9. rx.ok >= 8
  <2>1. 8 \in {1, 4, 8} /\ r.top.ok >= 8
    BY <1>2, <1>5
  <2>2. rx = r.top
    BY <1>2, <1>8, <2>1, ExtendedPointer, Zenon
  <2> QED
    BY <2>1, <2>2, Zenon
<1>10. type_size(r.type.ptr_to) = 1 \/ l.top = Natural => lx.ok = 8
  <2>1. l.top.ok >= 4
    BY <1>2, <1>5
  <2> QED
    BY <2>1, <1>2, <1>7, ExtendedIndex, Zenon
<1>11. Sound(kind, 8, l, r)
  <2>1. ~(kind = "MOD" /\ 8 = 1) /\ kind # "CMP"
    BY <1>1
  <2> QED
    BY <2>1, <1>3, Zenon DEF Sound
<1>12. DividendBytes(kind, 8) = 8
  BY <1>1 DEF DividendBytes
<1>13. ~(Sound(kind, 8, l, r) /\ lx.ok >= 8 /\ rx.ok >= 8)
  BY <1>5, <1>6, <1>12, Zenon DEF Relies
<1> HIDE DEF lx, rx
<1>14. type_size(r.type.ptr_to) # 1 /\ l.top # Natural
  BY <1>9, <1>10, <1>11, <1>13
<1>15. type_size(r.type.ptr_to) > 1
  <2>1. r.type.ptr_to # VoidT
    BY <1>1, <1>3, <1>4 DEF Assembles, Scales
  <2> QED
    BY <1>1, <1>2, <1>14, <2>1, PointeeSize
<1> QED
  BY <1>1, <1>14, <1>15, IndexExcused

LEMMA PointersRely ==
  ASSUME NEW l \in Exprs, NEW r \in Exprs, Sure(l), Sure(r),
         TwoPointers("SUB", l.type, r.type, FALSE, IntT), l.type.ptr_to # VoidT,
         ~Relies("SUB", IntT, l.top, l, r)
  PROVE  Excused("SUB", IntT, <<l, r>>)
<1> DEFINE lx == Operand(l.top, IntT, l, r, "SUB")
           rx == Operand(r.top, IntT, r, l, "SUB")
<1>1. is_pointer_compat(l.type) /\ is_pointer_compat(r.type)
  BY DEF TwoPointers
<1>2. /\ l.type \in Types /\ r.type \in Types /\ l.top \in Words /\ r.top \in Words
      /\ l.top.ok >= size(l.type) /\ r.top.ok >= size(r.type)
  BY SureParts
<1>3. size(l.type) = 8 /\ size(r.type) = 8 /\ size(IntT) = 4
  BY <1>1, <1>2, SizeFacts, OwnTypes
<1>4. l.type # IntT /\ r.type # IntT
  BY <1>1 DEF is_pointer_compat, IntT
<1>5. lx = extend_rax(l.top, 4, 8, 8) /\ rx = extend_rax(r.top, 4, 8, 8)
  BY <1>3, <1>4, Zenon DEF Operand
<1>6. lx = l.top /\ rx = r.top
  <2>1. 4 \in {1, 4, 8}
    OBVIOUS
  <2> QED
    BY <1>2, <1>5, <2>1, ExtendedPointer, Zenon
<1>7. l.top.ok >= 4 /\ r.top.ok >= 4 /\ DividendBytes("SUB", 4) = 4
  <2>1. l.top.ok \in {0, 1, 4, 8} /\ r.top.ok \in {0, 1, 4, 8}
    BY ExprsParts
  <2> QED
    BY <2>1, <1>2, <1>3 DEF DividendBytes
<1>8. ~Sound("SUB", 4, l, r)
  BY <1>3, <1>6, <1>7, Zenon DEF Relies
<1>9. type_size(l.type.ptr_to) # 1
  BY <1>8 DEF Sound
<1>10. type_size(l.type.ptr_to) > 1
  BY <1>1, <1>2, <1>9, PointeeSize
<1>11. \A e \in {l, r} : is_pointer_compat(e.type) \/ e.top # Natural
  BY <1>1
<1>12. l \in {l, r} /\ "SUB" \in {"ADD", "SUB"}
  OBVIOUS
<1> QED
  BY <1>1, <1>10, <1>11, <1>12, IndexExcused

LEMMA ArithRelies ==
  ASSUME NEW kind \in ArithKinds, NEW l \in Exprs, NEW r \in Exprs, Sure(l), Sure(r),
         NEW assign \in BOOLEAN, assign => l.lval /\ l.type.ty # "ARRAY" /\ kind # "CMP",
         NEW t \in ArithTypes(kind, l.type, r.type, assign),
         Assembles(kind, t, l, r), ~Relies(kind, t, LeftWord(assign, t, l), l, r)
  PROVE  Excused(kind, IntT, <<l, r>>)
<1>1. l.type \in Types /\ r.type \in Types
  BY SureParts
<1>2. t \in Types
  BY <1>1, ArithTyped
<1>3. CASE Comparison(kind, l.type, r.type, t)
  <2>1. kind = "CMP" /\ t = IntT /\ ~assign
    BY <1>3 DEF Comparison
  <2>2. LeftWord(assign, t, l) = l.top
    BY <2>1, Zenon DEF LeftWord
  <2> QED
    BY <1>3, <2>1, <2>2, ComparisonRelies
<1>4. CASE TwoIntegers(kind, l.type, r.type, assign, t)
  BY <1>2, <1>4, IntegersRely
<1>5. CASE IndexRight(kind, l.type, r.type, t)
  BY <1>2, <1>5, IndexRightRelies
<1>6. CASE IndexLeft(kind, l.type, r.type, assign, t)
  BY <1>2, <1>6, IndexLeftRelies
<1>7. CASE TwoPointers(kind, l.type, r.type, assign, t)
  <2>1. kind = "SUB" /\ t = IntT /\ ~assign /\ TwoPointers("SUB", l.type, r.type, FALSE, IntT)
    BY <1>7 DEF TwoPointers
  <2>2. LeftWord(assign, t, l) = l.top
    BY <2>1, Zenon DEF LeftWord
  <2>3. l.type.ptr_to # VoidT
    BY <2>1 DEF Assembles, TwoPointers
  <2> QED
    BY <2>1, <2>2, <2>3, PointersRely
<1> QED
  BY <1>1, <1>3, <1>4, <1>5, <1>6, <1>7, ArithMixes

\* What an operator leaves is as wide as its type.
LEMMA ResultSure ==
  ASSUME NEW kind \in ArithKinds, NEW t \in Types, NEW word \in Words
  PROVE  Result(kind, t, word) \in Exprs /\ Sure(Result(kind, t, word))
<1> DEFINE rax == IF kind = "CMP" THEN Natural ELSE ToRegister(Address, size(t))
           top == ToMemory(word, size(t))
<1>1. size(t) \in {1, 4, 8}
  BY SizeFacts
<1>2. top \in Words /\ top.ok >= size(t)
  BY <1>1, WrittenWords
<1>3. rax \in Words /\ rax.ok >= size(t)
  <2>1. /\ ToRegister(Address, size(t)) \in Words
        /\ ToRegister(Address, size(t)).ok = size(t)
    BY <1>1, WholeWords, WrittenWords
  <2>2. rax = Natural \/ rax = ToRegister(Address, size(t))
    OBVIOUS
  <2> HIDE DEF rax
  <2> QED
    BY <1>1, <2>1, <2>2, WholeWords
<1>4. Result(kind, t, word) = Value(t, rax, top)
  BY Zenon DEF Result
<1> HIDE DEF rax, top
<1> QED
  BY <1>2, <1>3, <1>4, SureValue

LEMMA ArithKeeps ==
  ASSUME IInv, NEW kind \in ArithKinds, Arith(kind)
  PROVE  IInv'
<1> DEFINE word(assign) == IF assign THEN Address ELSE Left.top
           right(t, assign) == Relies(kind, t, LeftWord(assign, t, Left), Left, One)
<1>1. HasTwo
  BY Zenon DEF Arith
<1>2. /\ One \in Exprs /\ Sure(One) /\ Left \in Exprs /\ Sure(Left)
      /\ Operands(2) = <<Left, One>>
  BY <1>1, OperandsTwo
<1>3. Left.type \in Types /\ One.type \in Types /\ Left.top \in Words
  BY <1>1, TwoFacts
<1>4. PICK assign \in BOOLEAN :
        /\ assign => Left.lval /\ Left.type.ty # "ARRAY" /\ kind # "CMP"
        /\ \E t \in ArithTypes(kind, Left.type, One.type, assign) :
             \/ ~Assembles(kind, t, Left, One) /\ Refuse(2, kind)
             \/ /\ Assembles(kind, t, Left, One)
                /\ UseAs(IntT, 2, right(t, assign), <<Result(kind, t, word(assign))>>, kind)
  BY Zenon DEF Arith, Use, Relies, LeftWord
<1>5. PICK t \in ArithTypes(kind, Left.type, One.type, assign) :
        \/ ~Assembles(kind, t, Left, One) /\ Refuse(2, kind)
        \/ /\ Assembles(kind, t, Left, One)
           /\ UseAs(IntT, 2, right(t, assign), <<Result(kind, t, word(assign))>>, kind)
  BY <1>4, Zenon
<1>6. t \in Types
  BY <1>3, ArithTyped
<1>7. CASE ~Assembles(kind, t, Left, One) /\ Refuse(2, kind)
  <2>1. {Operands(2)[i].type : i \in DOMAIN Operands(2)} = {Left.type, One.type}
    BY <1>2
  <2>2. \/ ptr_of(VoidT) \in {Left.type, One.type} /\ kind \in {"ADD", "SUB"}
        \/ {Left.type, One.type} \cap {CharT, EnumT} # {} /\ kind \in {"ADD", "SUB", "MUL"}
    BY <1>3, <1>7, ArithRefused
  <2>3. kind \in {"ADD", "SUB"} => kind \in {"ADD", "SUB", "DEREF"}
    OBVIOUS
  <2> QED
    BY <1>7, <2>1, <2>2, <2>3, RefuseStep, Zenon
<1>8. CASE /\ Assembles(kind, t, Left, One)
           /\ UseAs(IntT, 2, right(t, assign), <<Result(kind, t, word(assign))>>, kind)
  <2>1. ~right(t, assign) => Excused(kind, IntT, <<Left, One>>)
    BY <1>2, <1>5, <1>4, <1>8, ArithRelies, Zenon
  <2>2. word(assign) \in Words
    <3>1. word(assign) = Address \/ word(assign) = Left.top
      BY Zenon
    <3> QED
      BY <3>1, <1>3, WholeWords, Zenon
  <2> HIDE DEF right, word
  <2>3. Made(<<Result(kind, t, word(assign))>>)
    BY <1>6, <2>2, ResultSure, MadeOne
  <2> QED
    BY <1>1, <1>8, <2>1, <2>3, UseTwo
<1> QED
  BY <1>5, <1>7, <1>8

-----------------------------------------------------------------------------
(* Uses outside of expressions.                                            *)

LEMMA UsedUp ==
  ASSUME IInv, HasOne, NEW t, NEW right, NEW at, UseAs(t, 1, right, <<>>, at),
         ~right => Excused(at, t, <<One>>)
  PROVE  IInv'
  BY MadeNone, UseOne

LEMMA DeclareKeeps == IInv /\ Declare => IInv'
<1> SUFFICES ASSUME IInv, Declare PROVE IInv'
  OBVIOUS
<1>1. PICK t \in VarTypes : HasOne /\ UseAs(t, 1, One.top.ok >= size(t), <<>>, "VARDECL")
  BY DEF Declare, Scalars
<1> DEFINE right == One.top.ok >= size(t)
<1>2. size(t) \in {1, 4, 8}
  BY SizeFacts DEF Types
<1>3. ~right => size(t) > size(One.type)
  BY <1>1, <1>2, OneFacts
<1>4. ~right => Excused("VARDECL", t, <<One>>)
  BY <1>3 DEF Excused
<1> QED
  BY <1>1, <1>4, UsedUp

LEMMA DeclareElementKeeps == IInv /\ DeclareElement => IInv'
<1> SUFFICES ASSUME IInv, DeclareElement PROVE IInv'
  OBVIOUS
<1> DEFINE right(t) == One.top.ok >= size(t) /\ ToMemory(Address, size(t)).ok = 8
<1>1. PICK t \in VarTypes : /\ HasOne /\ t.ty # "ARRAY" /\ eq_type(t, One.type)
                            /\ UseAs(t, 1, right(t), <<>>, "ELEMENT")
  BY DEF DeclareElement, Scalars
<1>2. size(t) \in {1, 4, 8}
  BY SizeFacts DEF Types
<1>3. t = One.type
  BY <1>1 DEF eq_type
<1>4. ToMemory(Address, size(t)).ok = size(t)
  BY <1>2, WholeWords, WrittenWords
<1>5. ~right(t) => size(t) < 8
  BY <1>1, <1>2, <1>3, <1>4, OneFacts
<1>6. ~right(t) => Excused("ELEMENT", t, <<One>>)
  BY <1>5 DEF Excused
<1> HIDE DEF right
<1> QED
  BY <1>1, <1>6, UsedUp

LEMMA ReturnKeeps == IInv /\ Return => IInv'
<1> SUFFICES ASSUME IInv, Return PROVE IInv'
  OBVIOUS
<1>1. PICK t \in Targets : HasOne /\ UseAs(t, 1, One.rax.ok >= size(t), <<>>, "RETURN")
  BY DEF Return, Scalars
<1> DEFINE right == One.rax.ok >= size(t)
<1>2. size(t) \in {1, 4, 8}
  BY SizeFacts DEF Types
<1>3. ~right => size(t) > size(One.type) \/ One.rax.ok = 0
  BY <1>1, <1>2, OneFacts
<1>4. ~right => Excused("RETURN", t, <<One>>)
  BY <1>3 DEF Excused
<1> QED
  BY <1>1, <1>4, UsedUp

LEMMA ArgumentKeeps == IInv /\ Argument => IInv'
<1> SUFFICES ASSUME IInv, Argument PROVE IInv'
  OBVIOUS
<1> DEFINE right(t) == IF size(One.type) = 1 /\ size(t) > 1 THEN One.top = Natural
                       ELSE One.top.ok >= size(t)
<1>1. PICK t \in Targets : HasOne /\ UseAs(t, 1, right(t), <<>>, "ARGUMENT")
  BY DEF Argument, Scalars
<1>2. size(t) \in {1, 4, 8}
  BY SizeFacts DEF Types
<1>3. ~right(t) => size(t) > size(One.type)
  BY <1>1, <1>2, OneFacts
<1>4. ~right(t) => Excused("ARGUMENT", t, <<One>>)
  BY <1>3 DEF Excused
<1> HIDE DEF right
<1> QED
  BY <1>1, <1>4, UsedUp

LEMMA VarArgumentKeeps == IInv /\ VarArgument => IInv'
<1> SUFFICES ASSUME IInv, VarArgument PROVE IInv'
  OBVIOUS
<1> DEFINE right == One.top.ok >= IF size(One.type) = 8 THEN 8 ELSE 4
<1>1. HasOne /\ UseAs(IntT, 1, right, <<>>, "VARARG")
  BY DEF VarArgument, Use
<1>2. ~right => size(One.type) = 1
  BY <1>1, OneFacts
<1>3. ~right => One.type = CharT
  BY <1>1, <1>2, OneFacts, SizeFacts
<1>4. ~right => Excused("VARARG", IntT, <<One>>)
  BY <1>3 DEF Excused
<1> HIDE DEF right
<1> QED
  BY <1>1, <1>4, UsedUp

LEMMA TestKeeps == IInv /\ Test => IInv'
<1> SUFFICES ASSUME IInv, Test PROVE IInv'
  OBVIOUS
<1> DEFINE right == One.top.ok >= size(One.type)
<1>1. HasOne /\ UseAs(IntT, 1, right, <<>>, "TEST")
  BY DEF Test, Use
<1>2. right
  BY <1>1, OneFacts
<1> HIDE DEF right
<1> QED
  BY <1>1, <1>2, UsedUp

LEMMA SwitchKeeps == IInv /\ Switch => IInv'
<1> SUFFICES ASSUME IInv, Switch PROVE IInv'
  OBVIOUS
<1> DEFINE right == One.top.ok = 8 \/ (One.top.ok = 4 /\ One.top.clear)
<1>1. HasOne /\ is_integer(One.type) /\ UseAs(IntT, 1, right, <<>>, "SWITCH")
  BY DEF Switch, Use
<1>2. One.type # CharT => One.top.ok = 8 \/ One.top.ok = 4
  BY <1>1, OneFacts, SizeFacts
<1>3. ~right => ~One.top.clear \/ One.type = CharT
  BY <1>2, Zenon
<1>4. ~right => Excused("SWITCH", IntT, <<One>>)
  <2> HIDE DEF right
  <2> QED
    BY <1>3 DEF Excused
<1> HIDE DEF right
<1> QED
  BY <1>1, <1>4, UsedUp

LEMMA DropKeeps == IInv /\ Drop => IInv'
<1> SUFFICES ASSUME IInv, Drop PROVE IInv'
  OBVIOUS
<1>1. HasOne /\ UseAs(IntT, 1, TRUE, <<>>, "drop")
  BY DEF Drop, Use
<1> QED
  BY <1>1, UsedUp

LEMMA StutterKeeps == IInv /\ UNCHANGED vars => IInv'
<1> SUFFICES ASSUME IInv, UNCHANGED vars PROVE IInv'
  OBVIOUS
<1>1. exprs' = exprs /\ phase' = phase /\ fault' = fault
  BY DEF vars
<1>2. Typed' /\ \A i \in 1..Len(exprs') : Sure(exprs'[i])
  BY <1>1 DEF IInv, Typed
<1>3. OperatorsExtend' /\ ReadsRax' /\ UsedAsWide'
  <2>1. OperatorsExtend /\ ReadsRax /\ UsedAsWide
    BY DEF IInv, MisreadsOnly
  <2>2. OperatorsExtend'
    BY <1>1, <2>1 DEF OperatorsExtend, Misread, Operand1, Operand2
  <2>3. ReadsRax'
    BY <1>1, <2>1 DEF ReadsRax, Misread, Operand1, Operand2
  <2>4. UsedAsWide'
    BY <1>1, <2>1 DEF UsedAsWide, Misread, Operand1
  <2> QED
    BY <2>2, <2>3, <2>4
<1>4. RefusesOnly'
  BY <1>1 DEF IInv, RefusesOnly
<1> QED
  BY <1>2, <1>3, <1>4 DEF IInv, MisreadsOnly

-----------------------------------------------------------------------------
(* The theorems.                                                           *)

LEMMA StepIInv == IInv /\ [Next]_vars => IInv'
<1> SUFFICES ASSUME IInv, [Next]_vars PROVE IInv'
  OBVIOUS
<1>1. CASE Num \/ Char \/ Enumerator \/ String
  BY <1>1, LiteralKeeps
<1>2. CASE Local \/ Global \/ Attribute
  BY <1>2, ObjectKeeps
<1>3. CASE CallResult
  BY <1>3, CallResultKeeps
<1>4. CASE AddrOf
  BY <1>4, AddrOfKeeps
<1>5. CASE Deref
  BY <1>5, DerefKeeps
<1>6. CASE Cast
  BY <1>6, CastKeeps
<1>7. CASE Not
  BY <1>7, NotKeeps
<1>8. CASE Complement
  BY <1>8, ComplementKeeps
<1>9. CASE PreOrPost
  BY <1>9, PreOrPostKeeps
<1>10. CASE Seq2
  BY <1>10, Seq2Keeps
<1>11. CASE Assign
  BY <1>11, AssignKeeps
<1>12. CASE Conditional
  BY <1>12, ConditionalKeeps
<1>13. CASE And \/ Or
  <2>1. Logical({One}, "LAND") \/ Logical({Left, One}, "LOR")
    BY <1>13 DEF And, Or
  <2> QED
    BY <2>1, LogicalKeeps
<1>14. CASE Shift
  BY <1>14, ShiftKeeps
<1>15. CASE \E kind \in ArithKinds : Arith(kind)
  BY <1>15, ArithKeeps
<1>16. CASE Declare
  BY <1>16, DeclareKeeps
<1>17. CASE DeclareElement
  BY <1>17, DeclareElementKeeps
<1>18. CASE Return
  BY <1>18, ReturnKeeps
<1>19. CASE Argument
  BY <1>19, ArgumentKeeps
<1>20. CASE VarArgument
  BY <1>20, VarArgumentKeeps
<1>21. CASE Test
  BY <1>21, TestKeeps
<1>22. CASE Switch
  BY <1>22, SwitchKeeps
<1>23. CASE Drop
  BY <1>23, DropKeeps
<1>24. CASE Stop \/ UNCHANGED vars
  BY <1>24, StutterKeeps DEF Stop
<1> QED
  BY <1>1, <1>2, <1>3, <1>4, <1>5, <1>6, <1>7, <1>8, <1>9, <1>10, <1>11, <1>12, <1>13, <1>14,
     <1>15, <1>16, <1>17, <1>18, <1>19, <1>20, <1>21, <1>22, <1>23, <1>24 DEF Next

\* The inductive invariant holds in every state.
THEOREM Invariance == Spec => []IInv
  BY InitIInv, StepIInv, PTL DEF Spec

\* Every expression leaves its value in rax and in the word it pushes, as wide as its
\* type, but for rax of && and || (gen_expr).
THEOREM ValuesComplete == Spec => []ResultsHold
<1>1. IInv => ResultsHold
  <2> SUFFICES ASSUME IInv, NEW i \in DOMAIN exprs
               PROVE  LET e == exprs[i] IN
                      /\ e.type \in Types /\ e.top.ok >= size(e.type)
                      /\ e.rax.ok = 0 \/ (e.rax.ok >= size(e.type) /\ e.truth)
    BY DEF ResultsHold
  <2>1. exprs \in Seq(Exprs) /\ i \in 1..Len(exprs)
    BY LenProperties DEF IInv, Typed
  <2>2. exprs[i] \in Exprs /\ Sure(exprs[i])
    BY <2>1, ElementOfSeq DEF IInv
  <2>3. exprs[i].type \in Types
    BY <2>2, ExprsParts
  <2> QED
    BY <2>2, <2>3, Zenon DEF Sure
<1> QED
  BY <1>1, Invariance, PTL

\* No code reads bytes of a register or a word that are not the value's, but for the
\* exceptions that MisreadsOnly names for each reader.
THEOREM NoOtherMisread == Spec => []MisreadsOnly
<1>1. IInv => MisreadsOnly
  BY DEF IInv
<1> QED
  BY <1>1, Invariance, PTL

\* gen_expr has code for all that sema_expr accepts, but for sums of chars and
\* enumerators, products of chars and void * (gen_coeff_ptr).
THEOREM NoOtherRefusal == Spec => []RefusesOnly
<1>1. IInv => RefusesOnly
  BY DEF IInv
<1> QED
  BY <1>1, Invariance, PTL

=============================================================================
