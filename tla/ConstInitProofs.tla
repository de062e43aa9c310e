-------------------------- MODULE ConstInitProofs --------------------------
(***************************************************************************)
(* Theorems about constant initialisers, for expressions of any size over  *)
(* any globals, enumerators and strings: what gen_const_calc folds keeps   *)
(* its value, and which initialisers are taken.                            *)
(***************************************************************************)
EXTENDS ConstInit, SequenceTheorems, NaturalsInduction, WellFoundedInduction, TLAPS

\* The name that a folded pointer sum begins with, and the number behind it.
Root(f) == IF IsSum(f) THEN lhs(f) ELSE f

Distance(f) ==
  CASE f.kind = "ADD" -> rhs(f).val
    [] f.kind = "SUB" -> -rhs(f).val
    [] OTHER -> 0

Leafy(n) == n.parts = <<>>

\* What ConstSum asks of the left operand.
Addresses(n) == n.type.ty = "ARRAY" \/ n.kind = "ADDR"

\* An integer whose value C knows is folded to that number.
IntOK(e) ==
  e.means.known =>
    /\ \/ e.folded.kind = "NUM"
       \/ /\ e.folded.kind = "GVAR" /\ e.folded.type = EnumT
          /\ e.folded.name \in DOMAIN EnumValue /\ e.folded.val = EnumValue[e.folded.name]
    /\ e.raw.type \in {IntT, EnumT}
    /\ e.folded.val \in Int /\ e.means.base = "" /\ e.means.off = e.folded.val
    /\ IsSum(e.raw) => ~is_pointer_compat(lhs(e.raw).type) /\ lhs(e.raw).kind # "ADDR"

\* A name of pointer type, in an expression that means m.
NameOK(n, m) ==
  /\ Leafy(n) /\ n.kind \in {"STRING", "ADDR", "GVAR"}
  /\ n.kind = "STRING" => m.base \in DOMAIN StringLen
  /\ Addresses(n) => m.base \in Globals
  /\ m.known /\ n.kind = "GVAR" => Addresses(n)
  /\ m.known \/ n.kind = "STRING" => m.base = n.name

\* A pointer is folded to a name, or to a flat sum of a name and a number.
PtrOK(e) ==
  /\ IsSum(e.raw) <=> IsSum(e.folded)
  /\ NameOK(Root(e.folded), e.means) /\ Root(e.folded).type = e.raw.type
  /\ type_size(e.raw.type.ptr_to) \in Nat
  /\ e.means.known /\ ~e.reversed =>
       /\ IsSum(e.folded) => rhs(e.folded).val \in Int
       /\ e.means.off = Distance(e.folded) * type_size(e.raw.type.ptr_to)

\* The left operand of a pointer sum, as it was before folding; there is nothing
\* to fold in a flat one that begins with an address.
LeftOK(e) ==
  /\ Flat(e.raw) /\ Addresses(lhs(e.raw)) => e.folded = e.raw
  /\ Addresses(lhs(e.raw)) => e.means.base \in Globals
  /\ e.means.known /\ is_pointer_compat(lhs(e.raw).type) /\ Leafy(lhs(e.raw)) =>
       Addresses(lhs(e.raw)) \/ e.means.base \in DOMAIN StringLen

ExprOK(e) ==
  /\ e.folded.type = e.raw.type
  /\ Leafy(e.raw) => e.raw = e.folded /\ ~IsSum(e.raw)
  /\ e.means.known \in BOOLEAN
  /\ e.means.known => /\ e.means = At(e.means.base, e.means.off)
                      /\ is_integer(e.raw.type) \/ is_pointer_compat(e.raw.type)
  /\ e.raw.kind \in {"STRING", "ADDR"} => is_pointer_compat(e.raw.type)
  /\ e.raw.kind = "STRING" => e.means.known
  /\ is_integer(e.raw.type) => IntOK(e)
  /\ is_pointer_compat(e.raw.type) =>
       PtrOK(e) /\ (~Leafy(e.raw) => IsSum(e.raw) /\ LeftOK(e))

\* An expression without an error is one of those; in one that C knows the
\* value of, no operator has operands that do not fit.
Sound(e) == /\ e.means.known => "operands" \notin e.errors
            /\ e.errors # {} => e.raw.kind = "OTHER"
            /\ e.errors = {} => ExprOK(e)

\* What has been printed.
EmittedOK ==
  phase = "emitted" =>
    /\ out = IF list THEN gen_const_array(target, [i \in DOMAIN exprs |-> exprs[i].raw])
             ELSE gen_const(target, exprs[1].folded)
    /\ out # <<>> /\ exprs # <<>> /\ target \in Targets
    /\ IF list THEN /\ target.ty = "ARRAY" /\ Len(exprs) <= target.array_size
                    /\ \A i \in DOMAIN exprs : assignable(target.ptr_to, exprs[i].raw.type)
       ELSE Len(exprs) = 1

IInv == /\ exprs \in Seq({exprs[i] : i \in DOMAIN exprs})
        /\ \A i \in DOMAIN exprs : Sound(exprs[i])
        /\ phase = "reading" => ~list
        /\ AcceptsConstants
        /\ EmittedOK

-----------------------------------------------------------------------------
(* Operators.                                                              *)

LEMMA Distributes ==
  ASSUME NEW a \in Int, NEW b \in Int, NEW s \in Nat
  PROVE  /\ (a + b) * s = a * s + b * s
         /\ (-a) * s = -(a * s)
         /\ a * s \in Int /\ 0 * s = 0
OBVIOUS

\* A type is not both an integer's and a pointer's.
LEMMA TypesApart ==
  ASSUME NEW t
  PROVE  /\ ~(is_integer(t) /\ is_pointer_compat(t))
         /\ is_integer(IntT) /\ is_integer(CharT) /\ is_integer(EnumT)
         /\ IntT # EnumT /\ CharT # EnumT
         /\ is_pointer_compat(ptr_of(t)) /\ ptr_of(t).ty = "PTR" /\ ptr_of(t).ptr_to = t
         /\ is_pointer_compat(t) => t # EnumT
<1>1. IntT.ty = "INT" /\ CharT.ty = "CHAR" /\ EnumT.ty = "ENUM"
  BY DEF IntT, CharT, EnumT
<1>2. ptr_of(t).ty = "PTR" /\ ptr_of(t).ptr_to = t
  BY DEF ptr_of
<1> QED
  BY <1>1, <1>2 DEF is_integer, is_pointer_compat

LEMMA LeafFields ==
  ASSUME NEW k, NEW t, NEW v, NEW x
  PROVE  /\ Leaf(k, t, v, x).kind = k /\ Leaf(k, t, v, x).type = t
         /\ Leaf(k, t, v, x).val = v /\ Leaf(k, t, v, x).name = x
         /\ Leafy(Leaf(k, t, v, x))
BY DEF Leaf, Leafy

LEMMA PairNotEmpty ==
  ASSUME NEW a, NEW b
  PROVE  <<a, b>> # <<>> /\ <<a>> # <<>>
OBVIOUS

LEMMA OpFields ==
  ASSUME NEW k, NEW t, NEW l, NEW r
  PROVE  /\ Op(k, t, l, r).kind = k /\ Op(k, t, l, r).type = t
         /\ lhs(Op(k, t, l, r)) = l /\ rhs(Op(k, t, l, r)) = r
         /\ ~Leafy(Op(k, t, l, r))
<1>1. Op(k, t, l, r).parts = <<l, r>>
  BY DEF Op
<1>2. <<l, r>>[1] = l /\ <<l, r>>[2] = r
  OBVIOUS
<1>3. ~Leafy(Op(k, t, l, r))
  BY <1>1, PairNotEmpty, Zenon DEF Leafy
<1> QED
  BY <1>1, <1>2, <1>3 DEF Op, lhs, rhs

LEMMA ExprFields ==
  ASSUME NEW a, NEW b, NEW m, NEW v, NEW x
  PROVE  /\ Expr(a, b, m, v, x).raw = a /\ Expr(a, b, m, v, x).folded = b
         /\ Expr(a, b, m, v, x).means = m /\ Expr(a, b, m, v, x).reversed = v
         /\ Expr(a, b, m, v, x).errors = x
BY DEF Expr

LEMMA RefusedFields ==
  ASSUME NEW t, NEW m, NEW x
  PROVE  /\ Refused(t, m, x).means = m /\ Refused(t, m, x).errors = x
         /\ Refused(t, m, x).raw.kind = "OTHER"
BY DEF Refused, Expr, Leaf

LEMMA MeaningFields ==
  ASSUME NEW x, NEW n
  PROVE  /\ At(x, n).known = TRUE /\ At(x, n).base = x /\ At(x, n).off = n
         /\ At("", n) = Number(n)
         /\ Unknown(x).known = FALSE /\ Unknown(x).base = x
BY DEF At, Number, Unknown

LEMMA AtFields ==
  ASSUME NEW x, NEW n, NEW m, m = At(x, n)
  PROVE  m.base = x /\ m.off = n
BY DEF At

LEMMA AtKnown ==
  ASSUME NEW x, NEW n, NEW m, m = At(x, n)
  PROVE  m.known
BY DEF At

LEMMA UnknownFields ==
  ASSUME NEW x, NEW m, m = Unknown(x)
  PROVE  m.base = x
BY DEF Unknown

LEMMA UnknownNot ==
  ASSUME NEW x, NEW m, m = Unknown(x)
  PROVE  ~m.known
BY DEF Unknown

LEMMA KnownOrNot ==
  ASSUME NEW x, NEW n, NEW m, m = At(x, n) \/ m = Unknown(x)
  PROVE  m.known \in BOOLEAN
<1>1. CASE m = At(x, n)
  BY <1>1 DEF At
<1>2. CASE m = Unknown(x)
  BY <1>2 DEF Unknown
<1> QED
  BY <1>1, <1>2, Zenon

\* FoldSum keeps the operator and the name, and adds up the numbers.
LEMMA FoldSumIs ==
  ASSUME NEW kind \in {"ADD", "SUB"}, NEW type, NEW l, NEW r
  PROVE  /\ FoldSum(kind, type, l, r).kind = kind
         /\ FoldSum(kind, type, l, r).type = type
         /\ Root(FoldSum(kind, type, l, r)) = Root(l)
         /\ /\ r.val \in Int
            /\ IsSum(l) => rhs(l).val \in Int /\ kind = "ADD"
            => /\ rhs(FoldSum(kind, type, l, r)).val \in Int
               /\ Distance(l) \in Int
               /\ Distance(FoldSum(kind, type, l, r)) = Distance(l) + add_or_sub(kind, 0, r.val)
<1> DEFINE f == FoldSum(kind, type, l, r)
<1>1. CASE l.kind = "ADD"
  <2> DEFINE v == add_or_sub(kind, rhs(l).val, r.val)
  <2>1. f = Op(kind, type, lhs(l), mknum(v)) /\ IsSum(l)
    BY <1>1 DEF FoldSum, IsSum
  <2>2. f.kind = kind /\ f.type = type /\ lhs(f) = lhs(l) /\ rhs(f).val = v
    BY <2>1, OpFields, LeafFields DEF mknum
  <2>3. Distance(l) = rhs(l).val /\ Root(l) = lhs(l) /\ Root(f) = lhs(f)
    BY <1>1, <2>1, <2>2 DEF Distance, Root, IsSum
  <2>4. kind = "ADD" => Distance(f) = v /\ v = rhs(l).val + r.val
    BY <2>2 DEF Distance, add_or_sub
  <2> HIDE DEF f, v
  <2> QED
    BY <2>1, <2>2, <2>3, <2>4 DEF add_or_sub, f
<1>2. CASE l.kind = "SUB"
  <2> DEFINE v == add_or_sub(kind, -rhs(l).val, r.val)
  <2>1. f = Op(kind, type, lhs(l), mknum(v)) /\ IsSum(l)
    BY <1>2 DEF FoldSum, IsSum
  <2>2. f.kind = kind /\ f.type = type /\ lhs(f) = lhs(l) /\ rhs(f).val = v
    BY <2>1, OpFields, LeafFields DEF mknum
  <2>3. Distance(l) = -rhs(l).val /\ Root(l) = lhs(l) /\ Root(f) = lhs(f)
    BY <1>2, <2>1, <2>2 DEF Distance, Root, IsSum
  <2>4. kind = "ADD" => Distance(f) = v /\ v = -rhs(l).val + r.val
    BY <2>2 DEF Distance, add_or_sub
  <2> HIDE DEF f, v
  <2> QED
    BY <2>1, <2>2, <2>3, <2>4 DEF add_or_sub, f
<1>3. CASE ~IsSum(l)
  <2>1. f = Op(kind, type, l, r)
    BY <1>3 DEF FoldSum, IsSum
  <2>2. f.kind = kind /\ f.type = type /\ lhs(f) = l /\ rhs(f) = r
    BY <2>1, OpFields
  <2>3. Distance(l) = 0 /\ Root(l) = l /\ Root(f) = lhs(f)
    BY <1>3, <2>2 DEF Distance, Root, IsSum
  <2>4. Distance(f) = IF kind = "ADD" THEN r.val ELSE -r.val
    BY <2>2 DEF Distance
  <2> HIDE DEF f
  <2> QED
    BY <2>2, <2>3, <2>4 DEF add_or_sub, f
<1> QED
  BY <1>1, <1>2, <1>3 DEF IsSum

-----------------------------------------------------------------------------
(* The leaves.                                                             *)

LEMMA NumOK ==
  ASSUME NEW n \in Numbers
  PROVE  ExprOK(LeafExpr(mknum(n), Number(n)))
<1> DEFINE e == LeafExpr(mknum(n), Number(n))
<1>1. /\ e.raw = mknum(n) /\ e.folded = mknum(n) /\ e.means = Number(n)
  BY DEF LeafExpr, Expr
<1>2. /\ mknum(n).kind = "NUM" /\ mknum(n).type = IntT /\ mknum(n).val = n /\ Leafy(mknum(n))
  BY LeafFields DEF mknum
<1>3. /\ Number(n).known = TRUE /\ Number(n).base = "" /\ Number(n).off = n
      /\ Number(n) = At("", n)
  BY DEF At, Number, Unknown
<1>4. n \in Int
  BY ConstAssumption
<1>5. ~IsSum(mknum(n)) /\ is_integer(IntT) /\ ~is_pointer_compat(IntT)
  BY <1>2, TypesApart DEF IsSum
<1> HIDE DEF e
<1> QED
  BY <1>1, <1>2, <1>3, <1>4, <1>5 DEF ExprOK, IntOK, e

LEMMA EnumeratorOK ==
  ASSUME NEW x \in DOMAIN EnumValue
  PROVE  ExprOK(LeafExpr(Leaf("GVAR", EnumT, EnumValue[x], x), Number(EnumValue[x])))
<1> DEFINE n == Leaf("GVAR", EnumT, EnumValue[x], x)
           e == LeafExpr(n, Number(EnumValue[x]))
<1>1. /\ e.raw = n /\ e.folded = n /\ e.means = Number(EnumValue[x])
  BY DEF LeafExpr, Expr
<1>2. /\ n.kind = "GVAR" /\ n.type = EnumT /\ n.val = EnumValue[x] /\ n.name = x /\ Leafy(n)
  BY LeafFields
<1>3. LET m == Number(EnumValue[x])
      IN  m.known = TRUE /\ m.base = "" /\ m.off = EnumValue[x] /\ m = At("", EnumValue[x])
  BY DEF At, Number, Unknown
<1>4. EnumValue[x] \in Int
  BY ConstAssumption
<1>5. ~IsSum(n) /\ is_integer(EnumT) /\ ~is_pointer_compat(EnumT)
  BY <1>2, TypesApart DEF IsSum
<1> HIDE DEF e, n
<1> QED
  BY <1>1, <1>2, <1>3, <1>4, <1>5 DEF ExprOK, IntOK, e, n

\* A name of pointer type is as it should be.
LEMMA PointerNameOK ==
  ASSUME NEW n, NEW m, Leafy(n), NameOK(n, m), is_pointer_compat(n.type),
         type_size(n.type.ptr_to) \in Nat, m.known \in BOOLEAN,
         m.known => m = At(m.base, 0), n.kind = "STRING" => m.known
  PROVE  ExprOK(LeafExpr(n, m))
<1> DEFINE e == LeafExpr(n, m)
<1>1. /\ e.raw = n /\ e.folded = n /\ e.means = m
  BY DEF LeafExpr, Expr
<1>2. ~IsSum(n) /\ ~is_integer(n.type) /\ Root(n) = n
  BY TypesApart DEF IsSum, NameOK, Root
<1>3. Distance(n) = 0
  BY <1>2 DEF IsSum, Distance
<1>4. m.known => m.off = 0 /\ m = At(m.base, m.off)
  BY DEF At, Number, Unknown
<1>5. 0 * type_size(n.type.ptr_to) = 0
  BY Distributes
<1>6. PtrOK(e)
  BY <1>1, <1>2, <1>3, <1>4, <1>5 DEF PtrOK
<1> HIDE DEF e
<1> QED
  BY <1>1, <1>2, <1>4, <1>6 DEF ExprOK, e

LEMMA StrOK ==
  ASSUME NEW s \in DOMAIN StringLen
  PROVE  ExprOK(LeafExpr(Leaf("STRING", ptr_of(CharT), 0, s), At(s, 0)))
<1> DEFINE n == Leaf("STRING", ptr_of(CharT), 0, s)
<1>1. /\ n.kind = "STRING" /\ n.type = ptr_of(CharT) /\ n.name = s /\ Leafy(n)
  BY LeafFields
<1>2. /\ At(s, 0).known = TRUE /\ At(s, 0).base = s
  BY DEF At, Number, Unknown
<1>3. ptr_of(CharT).ty = "PTR" /\ is_pointer_compat(ptr_of(CharT)) /\ ptr_of(CharT).ptr_to = CharT
  BY TypesApart
<1>4. NameOK(n, At(s, 0))
  BY <1>1, <1>2, <1>3 DEF NameOK, Addresses
<1>5. type_size(CharT) \in Nat
  BY DEF type_size, scalar_size, CharT
<1> HIDE DEF n
<1>6. ExprOK(LeafExpr(n, At(s, 0)))
  BY <1>1, <1>2, <1>3, <1>4, <1>5, PointerNameOK
<1> QED
  BY <1>6 DEF n

LEMMA AddressOK ==
  ASSUME NEW x \in DOMAIN VarType
  PROVE  ExprOK(LeafExpr(Leaf("ADDR", ptr_of(VarType[x]), 0, x), At(x, 0)))
<1> DEFINE t == VarType[x]
           n == Leaf("ADDR", ptr_of(t), 0, x)
<1>1. /\ n.kind = "ADDR" /\ n.type = ptr_of(t) /\ n.name = x /\ Leafy(n)
  BY LeafFields
<1>2. /\ At(x, 0).known = TRUE /\ At(x, 0).base = x
  BY DEF At, Number, Unknown
<1>3. is_pointer_compat(ptr_of(t)) /\ ptr_of(t).ptr_to = t
  BY TypesApart
<1>4. NameOK(n, At(x, 0))
  BY <1>1, <1>2 DEF NameOK, Addresses, Globals
<1>5. type_size(t) \in Nat
  BY ConstAssumption
<1> HIDE DEF n, t
<1>6. ExprOK(LeafExpr(n, At(x, 0)))
  BY <1>1, <1>2, <1>3, <1>4, <1>5, PointerNameOK
<1> QED
  BY <1>6 DEF n, t

LEMMA VariableOK ==
  ASSUME NEW x \in DOMAIN VarType
  PROVE  ExprOK(LeafExpr(Leaf("GVAR", VarType[x], 0, x),
                         IF VarType[x].ty = "ARRAY" THEN At(x, 0) ELSE Unknown("")))
<1> DEFINE t == VarType[x]
           n == Leaf("GVAR", t, 0, x)
           m == IF t.ty = "ARRAY" THEN At(x, 0) ELSE Unknown("")
           e == LeafExpr(n, m)
<1>1. /\ n.kind = "GVAR" /\ n.type = t /\ n.name = x /\ Leafy(n)
  BY LeafFields
<1>2. /\ m.known \in BOOLEAN
      /\ m.known <=> t.ty = "ARRAY"
      /\ m.known => m = At(m.base, 0) /\ m.base = x
  BY DEF At, Number, Unknown
<1>3. CASE is_pointer_compat(t)
  <2>1. type_size(t.ptr_to) \in Nat
    BY <1>3, ConstAssumption
  <2> HIDE DEF n, t, m, e
  <2>2. NameOK(n, m)
    BY <1>1, <1>2 DEF NameOK, Addresses, Globals
  <2>3. ExprOK(LeafExpr(n, m))
    BY <1>1, <1>2, <1>3, <2>1, <2>2, PointerNameOK
  <2> QED
    BY <2>3 DEF n, t, m
<1>4. CASE ~is_pointer_compat(t)
  <2>1. ~m.known
    BY <1>2, <1>4 DEF is_pointer_compat
  <2>2. /\ e.raw = n /\ e.folded = n /\ e.means = m
    BY DEF LeafExpr, Expr
  <2>3. ~IsSum(n)
    BY <1>1 DEF IsSum
  <2> HIDE DEF n, t, m, e
  <2>4. ExprOK(e)
    BY <1>1, <1>2, <1>4, <2>1, <2>2, <2>3 DEF ExprOK, IntOK
  <2> QED
    BY <2>4 DEF e, n, t, m
<1> QED
  BY <1>3, <1>4

LEMMA EnumeratorAddressOK ==
  ASSUME NEW x \in DOMAIN EnumValue
  PROVE  ExprOK(LeafExpr(Leaf("ADDR", ptr_of(EnumT), 0, x), Unknown(x)))
<1> DEFINE n == Leaf("ADDR", ptr_of(EnumT), 0, x)
<1>1. /\ n.kind = "ADDR" /\ n.type = ptr_of(EnumT) /\ n.name = x /\ Leafy(n)
  BY LeafFields
<1>2. Unknown(x).known = FALSE /\ Unknown(x).base = x
  BY DEF Unknown
<1>3. is_pointer_compat(ptr_of(EnumT)) /\ ptr_of(EnumT).ptr_to = EnumT
  BY TypesApart
<1>4. NameOK(n, Unknown(x))
  BY <1>1, <1>2 DEF NameOK, Addresses, Globals
<1>5. type_size(EnumT) \in Nat
  BY DEF type_size, scalar_size, EnumT
<1> HIDE DEF n
<1>6. ExprOK(LeafExpr(n, Unknown(x)))
  BY <1>1, <1>2, <1>3, <1>4, <1>5, PointerNameOK
<1> QED
  BY <1>6 DEF n

-----------------------------------------------------------------------------
(* The operators: e is the operation kind of l and r, of type t.           *)

Applied(e, kind, t, l, r) ==
  /\ e.raw = Op(kind, t, l.raw, r.raw)
  /\ e.folded = gen_const_calc(kind, t, l.folded, r.folded)
  /\ e.means = CValue(kind, l, r)
  /\ ~e.reversed => /\ ~l.reversed /\ ~r.reversed
                    /\ ~(kind = "SUB" /\ IsSum(l.raw) /\ is_pointer_compat(l.raw.type))

\* What C says of an operation on two integers.
LEMMA IntMeaning ==
  ASSUME NEW kind \in {"ADD", "SUB", "LSH"}, NEW l, NEW r,
         ~is_pointer_compat(l.raw.type), ~is_pointer_compat(r.raw.type),
         NEW m, m = CValue(kind, l, r)
  PROVE  /\ m.known \in BOOLEAN
         /\ m.known => /\ l.means.known /\ r.means.known
                       /\ m.base = "" /\ m = At("", m.off)
                       /\ m.off = IF kind = "LSH" THEN l.means.off * 2^r.means.off
                                  ELSE add_or_sub(kind, l.means.off, r.means.off)
<1> DEFINE v == IF kind = "LSH" THEN l.means.off * 2^r.means.off
                ELSE add_or_sub(kind, l.means.off, r.means.off)
<1> DEFINE ill == TypesOf(kind, l.raw.type, r.raw.type) = {}
<1>1. CASE ill \/ ~l.means.known \/ ~r.means.known
  <2>1. m = Unknown("")
    BY <1>1 DEF CValue
  <2>2. ~m.known
    BY <2>1, UnknownNot, Zenon
  <2>3. m.known \in BOOLEAN
    BY <2>1, KnownOrNot, Zenon
  <2> QED
    BY <2>2, <2>3, Zenon
<1>2. CASE ~ill /\ l.means.known /\ r.means.known
  <2>1. m = At("", v)
    <3>1. CASE kind = "LSH"
      BY <1>2, <3>1 DEF CValue, Number, At
    <3>2. CASE kind # "LSH"
      BY <1>2, <3>2 DEF CValue, At, add_or_sub
    <3> QED
      BY <3>1, <3>2
  <2> HIDE DEF v
  <2>2. m.base = "" /\ m.off = v
    BY <2>1, AtFields, Zenon
  <2>3. m = At("", m.off)
    BY <2>1, <2>2, Zenon
  <2>4. m.known \in BOOLEAN
    BY <2>1, KnownOrNot, Zenon
  <2>5. m.off = IF kind = "LSH" THEN l.means.off * 2^r.means.off
                ELSE add_or_sub(kind, l.means.off, r.means.off)
    BY <2>2, Zenon DEF v
  <2> QED
    BY <1>2, <2>2, <2>3, <2>4, <2>5, Zenon
<1> QED
  BY <1>1, <1>2

LEMMA IntsOK ==
  ASSUME NEW kind \in {"ADD", "SUB", "LSH"}, NEW l, NEW r, ExprOK(l), ExprOK(r),
         is_integer(l.raw.type), is_integer(r.raw.type),
         kind = "LSH" => {r.folded.val, r.means.off} \subseteq 0..MaxShift,
         NEW t, t \in TypesOf(kind, l.raw.type, r.raw.type),
         NEW e, Applied(e, kind, t, l, r)
  PROVE  ExprOK(e)
<1>1. /\ l.folded.type = l.raw.type /\ r.folded.type = r.raw.type
      /\ IntOK(l) /\ IntOK(r)
  BY DEF ExprOK
<1>2. t = binary_int_op_result(l.raw.type, r.raw.type)
  <2>1. TypesOf(kind, l.raw.type, r.raw.type)
          = {binary_int_op_result(l.raw.type, r.raw.type)}
    BY TypesApart DEF TypesOf
  <2> QED
    BY <2>1
<1>3. t \in {IntT, CharT} /\ is_integer(t) /\ ~is_pointer_compat(t)
  BY <1>2, TypesApart DEF binary_int_op_result
<1>4. e.folded = FoldInts(kind, l.folded, r.folded)
  BY <1>1 DEF gen_const_calc, Applied
<1>5. /\ e.folded.kind = "NUM" /\ e.folded.type = t
      /\ e.folded.val = IF kind = "LSH" THEN l.folded.val * 2^r.folded.val
                        ELSE add_or_sub(kind, l.folded.val, r.folded.val)
  BY <1>1, <1>2, <1>4, LeafFields DEF FoldInts
<1>6. /\ e.raw.kind = kind /\ e.raw.type = t /\ lhs(e.raw) = l.raw /\ ~Leafy(e.raw)
  BY OpFields DEF Applied
<1>7. /\ ~is_pointer_compat(l.raw.type) /\ ~is_pointer_compat(r.raw.type)
      /\ l.raw.kind # "ADDR"
  BY TypesApart DEF ExprOK
<1>8. /\ e.means.known \in BOOLEAN
      /\ e.means.known => /\ l.means.known /\ r.means.known
                          /\ e.means.base = "" /\ e.means = At("", e.means.off)
                          /\ e.means.off = IF kind = "LSH" THEN l.means.off * 2^r.means.off
                                           ELSE add_or_sub(kind, l.means.off, r.means.off)
  BY <1>7, IntMeaning DEF Applied
<1>9. ASSUME e.means.known
      PROVE  e.folded.val \in Int /\ e.means.off = e.folded.val /\ t = IntT
  <2>1. /\ l.folded.val \in Int /\ l.means.off = l.folded.val /\ l.raw.type \in {IntT, EnumT}
        /\ r.folded.val \in Int /\ r.means.off = r.folded.val
    BY <1>1, <1>8, <1>9 DEF IntOK
  <2>2. t = IntT
    BY <1>2, <2>1 DEF binary_int_op_result, IntT, EnumT
  <2>3. CASE kind = "LSH"
    <3> DEFINE s == 2^r.folded.val
    <3>1. s \in Nat
      BY <2>3, ConstAssumption
    <3>2. e.folded.val = l.folded.val * s /\ e.means.off = l.folded.val * s
      BY <1>5, <1>8, <1>9, <2>1, <2>3
    <3> HIDE DEF s
    <3> QED
      BY <2>1, <2>2, <3>1, <3>2
  <2>4. CASE kind # "LSH"
    <3>1. e.folded.val = add_or_sub(kind, l.folded.val, r.folded.val)
      BY <1>5, <2>4, Zenon
    <3>2. e.means.off = add_or_sub(kind, l.means.off, r.means.off)
      BY <1>8, <1>9, <2>4, Zenon
    <3> QED
      BY <2>1, <2>2, <3>1, <3>2 DEF add_or_sub
  <2> QED
    BY <2>3, <2>4
<1>10. IntOK(e)
  BY <1>3, <1>5, <1>6, <1>7, <1>8, <1>9 DEF IntOK
<1> QED
  BY <1>3, <1>5, <1>6, <1>8, <1>10 DEF ExprOK

\* What C says of an operation on a pointer p and an integer n.
LEMMA PointerMeaning ==
  ASSUME NEW kind \in {"ADD", "SUB"}, NEW p, NEW n,
         is_pointer_compat(p.raw.type), ~is_pointer_compat(n.raw.type),
         p.means.known \in BOOLEAN, n.means.known \in BOOLEAN,
         NEW m, m = CValue(kind, p, n) \/ (kind = "ADD" /\ m = CValue(kind, n, p))
  PROVE  /\ m.known \in BOOLEAN /\ m.base = p.means.base
         /\ m.known =>
              /\ p.means.known /\ n.means.known /\ m = At(m.base, m.off)
              /\ LET k == n.means.off * type_size(p.raw.type.ptr_to)
                 IN  \/ m.off = add_or_sub(kind, p.means.off, k)
                     \/ kind = "ADD" /\ m.off = p.means.off + k
<1>1. CASE m = Unknown(p.means.base)
  <2>1. ~m.known
    BY <1>1, UnknownNot, Zenon
  <2>2. m.known \in BOOLEAN
    BY <1>1, KnownOrNot, Zenon
  <2>3. m.base = p.means.base
    BY <1>1, UnknownFields, Zenon
  <2> QED
    BY <2>1, <2>2, <2>3, Zenon
<1>2. CASE m # Unknown(p.means.base)
  <2> DEFINE k == n.means.off * type_size(p.raw.type.ptr_to)
  <2>1. ASSUME m = CValue(kind, p, n)
        PROVE  /\ p.means.known /\ n.means.known
               /\ m = At(p.means.base, add_or_sub(kind, p.means.off, k))
    BY <1>2, <2>1 DEF CValue, At, add_or_sub
  <2>2. ASSUME kind = "ADD", m = CValue(kind, n, p)
        PROVE  /\ p.means.known /\ n.means.known
               /\ m = At(p.means.base, p.means.off + k)
    BY <1>2, <2>2 DEF CValue
  <2> HIDE DEF k
  <2>8. p.means.known /\ n.means.known
    BY <2>1, <2>2
  <2>3. PICK d : /\ m = At(p.means.base, d)
                 /\ d = add_or_sub(kind, p.means.off, k) \/ (kind = "ADD" /\ d = p.means.off + k)
    BY <2>1, <2>2, Zenon
  <2>4. m = At(p.means.base, d)
    BY <2>3
  <2>5. m.base = p.means.base /\ m.off = d
    BY <2>4, AtFields
  <2>6. m = At(m.base, m.off)
    BY <2>4, <2>5, Zenon
  <2>7. m.known \in BOOLEAN
    BY <2>4, KnownOrNot, Zenon
  <2> QED
    BY <2>8, <2>3, <2>5, <2>6, <2>7, Zenon DEF k
<1> QED
  BY <1>1, <1>2

\* A name stays one when C knows no more of the expression around it.
LEMMA NameKept ==
  ASSUME NEW n, NEW m, NameOK(n, m), NEW m2, m2.base = m.base, m2.known => m.known
  PROVE  NameOK(n, m2)
BY DEF NameOK

\* e is a sum of the pointer p and the integer n, in the order of pointer first or not.
SumOf(e, kind, p, n) ==
  /\ e.raw.kind = kind /\ e.raw.type = p.raw.type /\ ~Leafy(e.raw)
  /\ e.raw = Op(kind, p.raw.type, p.raw, n.raw) \/ lhs(e.raw) = n.raw
  /\ e.folded = FoldSum(kind, p.raw.type, p.folded, n.folded)
  /\ e.means = CValue(kind, p, n) \/ (kind = "ADD" /\ e.means = CValue(kind, n, p))
  /\ ~e.reversed => ~p.reversed /\ ~n.reversed /\ ~(kind = "SUB" /\ IsSum(p.raw))

\* The number behind the name is the distance C means.
LEMMA DistanceOK ==
  ASSUME NEW kind \in {"ADD", "SUB"}, NEW p, NEW n, ExprOK(p), ExprOK(n),
         is_pointer_compat(p.raw.type), is_integer(n.raw.type),
         NEW e, SumOf(e, kind, p, n), e.means.known, ~e.reversed
  PROVE  /\ rhs(e.folded).val \in Int
         /\ e.means.off = Distance(e.folded) * type_size(e.raw.type.ptr_to)
<1> DEFINE s == type_size(p.raw.type.ptr_to)
           d == Distance(p.folded)
           c == n.folded.val
<1>1. /\ PtrOK(p) /\ IntOK(n)
      /\ p.means.known \in BOOLEAN /\ n.means.known \in BOOLEAN
  BY DEF ExprOK
<1>2. s \in Nat
  BY <1>1 DEF PtrOK
<1>3. ~is_pointer_compat(n.raw.type)
  BY TypesApart
<1>4. /\ p.means.known /\ n.means.known
      /\ LET k == n.means.off * s
         IN  \/ e.means.off = add_or_sub(kind, p.means.off, k)
             \/ kind = "ADD" /\ e.means.off = p.means.off + k
  BY <1>1, <1>3, PointerMeaning DEF SumOf
<1>5. ~p.reversed /\ (kind = "SUB" => ~IsSum(p.folded))
  BY <1>1 DEF SumOf, PtrOK
<1>6. /\ IsSum(p.folded) => rhs(p.folded).val \in Int /\ kind = "ADD"
      /\ p.means.off = d * s
  BY <1>1, <1>4, <1>5 DEF PtrOK
<1>7. c \in Int /\ n.means.off = c
  BY <1>1, <1>4 DEF IntOK
<1>8. /\ rhs(e.folded).val \in Int /\ d \in Int
      /\ Distance(e.folded) = d + add_or_sub(kind, 0, c)
  BY <1>6, <1>7, FoldSumIs DEF SumOf
<1>9. e.raw.type = p.raw.type
  BY DEF SumOf
<1>10. e.means.off = add_or_sub(kind, d * s, c * s)
  BY <1>4, <1>6, <1>7 DEF add_or_sub
<1> HIDE DEF s, d, c
<1>11. CASE kind = "ADD"
  <2>1. Distance(e.folded) = d + c /\ e.means.off = d * s + c * s
    <3>1. 0 + c = c
      BY <1>7
    <3> QED
      BY <1>8, <1>10, <1>11, <3>1 DEF add_or_sub
  <2>2. (d + c) * s = d * s + c * s
    BY <1>2, <1>7, <1>8, Distributes
  <2> QED
    BY <1>8, <1>9, <2>1, <2>2 DEF s
<1>12. CASE kind = "SUB"
  <2>1. d = 0
    BY <1>5, <1>12 DEF d, Distance, IsSum
  <2>2. Distance(e.folded) = -c /\ e.means.off = -(c * s)
    <3>1. c * s \in Int /\ 0 * s = 0
      BY <1>2, <1>7, Distributes
    <3>2. Distance(e.folded) = 0 + (0 - c) /\ e.means.off = 0 * s - c * s
      BY <1>8, <1>10, <1>12, <2>1 DEF add_or_sub
    <3>3. 0 + (0 - c) = -c
      BY <1>7
    <3> DEFINE cs == c * s
    <3> HIDE DEF cs
    <3>4. 0 - cs = -cs
      BY <3>1 DEF cs
    <3> QED
      BY <3>1, <3>2, <3>3, <3>4 DEF cs
  <2>3. (-c) * s = -(c * s)
    BY <1>2, <1>7, Distributes
  <2> QED
    BY <1>8, <1>9, <2>2, <2>3 DEF s
<1> QED
  BY <1>11, <1>12

LEMMA PointerSumOK ==
  ASSUME NEW kind \in {"ADD", "SUB"}, NEW p, NEW n, ExprOK(p), ExprOK(n),
         is_pointer_compat(p.raw.type), is_integer(n.raw.type),
         NEW e, SumOf(e, kind, p, n)
  PROVE  ExprOK(e)
<1>1. /\ PtrOK(p) /\ p.folded.type = p.raw.type
      /\ p.means.known \in BOOLEAN /\ n.means.known \in BOOLEAN
      /\ ~Leafy(p.raw) => IsSum(p.raw)
      /\ Leafy(p.raw) => p.raw = p.folded /\ ~IsSum(p.raw)
      /\ n.raw.kind \in {"STRING", "ADDR"} => is_pointer_compat(n.raw.type)
  BY DEF ExprOK
<1>2. ~is_pointer_compat(n.raw.type) /\ ~is_integer(p.raw.type)
  BY TypesApart
<1>3. /\ e.means.known \in BOOLEAN /\ e.means.base = p.means.base
      /\ e.means.known => p.means.known /\ e.means = At(e.means.base, e.means.off)
  BY <1>1, <1>2, PointerMeaning DEF SumOf
<1>4. /\ e.folded.kind = kind /\ e.folded.type = p.raw.type
      /\ Root(e.folded) = Root(p.folded)
  BY FoldSumIs DEF SumOf
<1>5. /\ IsSum(e.raw) /\ IsSum(e.folded) /\ e.raw.type = p.raw.type /\ ~Leafy(e.raw)
      /\ e.raw.kind = kind
  BY <1>4 DEF SumOf, IsSum
<1>6. NameOK(Root(e.folded), e.means)
  BY <1>1, <1>3, <1>4, NameKept DEF PtrOK
<1>7. PtrOK(e)
  BY <1>1, <1>4, <1>5, <1>6, DistanceOK DEF PtrOK
<1>8. LeftOK(e)
  <2>1. CASE lhs(e.raw) = n.raw
    <3>1. n.raw.type.ty # "ARRAY" /\ n.raw.kind # "ADDR"
      BY <1>1, <1>2 DEF is_pointer_compat
    <3> QED
      BY <1>2, <2>1, <3>1 DEF LeftOK, Addresses
  <2>2. CASE e.raw = Op(kind, p.raw.type, p.raw, n.raw)
    <3>1. lhs(e.raw) = p.raw /\ rhs(e.raw) = n.raw
      BY <2>2, OpFields
    <3>2. Flat(e.raw) => e.folded = e.raw
      <4> SUFFICES ASSUME Flat(e.raw) PROVE e.folded = e.raw
        OBVIOUS
      <4>1. Leafy(p.raw) /\ Leafy(n.raw)
        BY <1>5, <3>1 DEF Flat, Leafy
      <4>2. p.folded = p.raw /\ n.folded = n.raw /\ ~IsSum(p.folded)
        BY <1>1, <4>1 DEF ExprOK
      <4>3. FoldSum(kind, p.raw.type, p.folded, n.folded) = Op(kind, p.raw.type, p.raw, n.raw)
        BY <4>2 DEF FoldSum, IsSum
      <4> QED
        BY <2>2, <4>3 DEF SumOf
    <3>3. NameOK(Root(p.folded), p.means) /\ Root(p.folded).type = p.raw.type
      BY <1>1 DEF PtrOK
    <3>4. Leafy(p.raw) => Root(p.folded) = p.raw
      BY <1>1 DEF Root
    <3>5. Addresses(p.raw) => Addresses(Root(p.folded))
      BY <1>1, <3>3, <3>4 DEF Addresses, IsSum
    <3>6. Addresses(p.raw) => p.means.base \in Globals
      BY <3>3, <3>5 DEF NameOK
    <3>7. p.means.known /\ Leafy(p.raw) => Addresses(p.raw) \/ p.means.base \in DOMAIN StringLen
      BY <3>3, <3>4 DEF NameOK, Addresses
    <3> QED
      BY <1>3, <3>6, <3>7, <3>1, <3>2 DEF LeftOK
  <2> QED
    BY <2>1, <2>2 DEF SumOf
<1>9. e.raw.kind \notin {"STRING", "ADDR"}
  BY <1>5
<1> QED
  BY <1>2, <1>3, <1>4, <1>5, <1>7, <1>8, <1>9 DEF ExprOK

\* A difference of pointers is no constant.
LEMMA DifferenceOK ==
  ASSUME NEW l, NEW r, ExprOK(l), ExprOK(r),
         is_pointer_compat(l.raw.type), is_pointer_compat(r.raw.type),
         NEW e, Applied(e, "SUB", IntT, l, r)
  PROVE  ExprOK(e)
<1>1. l.folded.type = l.raw.type /\ r.folded.type = r.raw.type
  BY DEF ExprOK
<1>2. ~is_integer(l.raw.type) /\ is_integer(IntT) /\ ~is_pointer_compat(IntT)
  BY TypesApart
<1>3. e.folded = FoldSum("SUB", IntT, l.folded, r.folded)
  BY <1>1, <1>2 DEF Applied, gen_const_calc
<1>4. e.folded.type = IntT
  BY <1>3, FoldSumIs
<1>5. e.raw.type = IntT /\ e.raw.kind = "SUB" /\ ~Leafy(e.raw)
  BY OpFields DEF Applied
<1>6. e.means = Unknown(l.means.base)
  BY DEF Applied, CValue
<1>7. ~e.means.known
  BY <1>6, UnknownNot, Zenon
<1>8. e.means.known \in BOOLEAN
  BY <1>6, KnownOrNot, Zenon
<1> QED
  BY <1>2, <1>4, <1>5, <1>7, <1>8 DEF ExprOK, IntOK

\* What TypesOf allows: two integers, a pointer and an integer, two pointers.
LEMMA TypesOfCases ==
  ASSUME NEW kind \in {"ADD", "SUB", "LSH"}, NEW lt, NEW rt, NEW t \in TypesOf(kind, lt, rt)
  PROVE  \/ is_integer(lt) /\ is_integer(rt)
         \/ kind \in {"ADD", "SUB"} /\ is_pointer_compat(lt) /\ is_integer(rt) /\ t = lt
         \/ kind = "ADD" /\ is_integer(lt) /\ is_pointer_compat(rt) /\ t = rt
         \/ kind = "SUB" /\ is_pointer_compat(lt) /\ is_pointer_compat(rt) /\ t = IntT
BY TypesApart DEF TypesOf

LEMMA ApplyOK ==
  ASSUME NEW kind \in {"ADD", "SUB", "LSH"}, NEW l, NEW r, ExprOK(l), ExprOK(r),
         kind = "LSH" => {r.folded.val, r.means.off} \subseteq 0..MaxShift,
         NEW t \in TypesOf(kind, l.raw.type, r.raw.type),
         NEW e, Applied(e, kind, t, l, r)
  PROVE  ExprOK(e)
<1> DEFINE lt == l.raw.type
           rt == r.raw.type
<1>1. CASE is_integer(lt) /\ is_integer(rt)
  BY <1>1, IntsOK
<1>2. /\ e.raw.kind = kind /\ e.raw.type = t /\ ~Leafy(e.raw) /\ lhs(e.raw) = l.raw
  BY OpFields DEF Applied
<1>3. l.folded.type = lt /\ r.folded.type = rt
  BY DEF ExprOK
<1>4. CASE kind \in {"ADD", "SUB"} /\ is_pointer_compat(lt) /\ is_integer(rt) /\ t = lt
  <2>1. ~is_integer(lt) /\ ~is_pointer_compat(rt)
    BY <1>4, TypesApart
  <2>2. e.folded = FoldSum(kind, t, l.folded, r.folded)
    BY <1>3, <2>1 DEF gen_const_calc, Applied
  <2>3. SumOf(e, kind, l, r)
    BY <1>2, <1>4, <2>2 DEF SumOf, Applied
  <2> QED
    BY <1>4, <2>3, PointerSumOK
<1>5. CASE kind = "ADD" /\ is_integer(lt) /\ is_pointer_compat(rt) /\ t = rt
  <2>1. ~is_integer(rt) /\ ~is_pointer_compat(lt)
    BY <1>5, TypesApart
  <2>2. e.folded = FoldSum(kind, t, r.folded, l.folded)
    BY <1>3, <1>5, <2>1 DEF gen_const_calc, Applied
  <2>3. SumOf(e, kind, r, l)
    BY <1>2, <1>5, <2>2 DEF SumOf, Applied
  <2> QED
    BY <1>5, <2>3, PointerSumOK
<1>6. CASE kind = "SUB" /\ is_pointer_compat(lt) /\ is_pointer_compat(rt) /\ t = IntT
  BY <1>6, DifferenceOK
<1> QED
  BY <1>1, <1>4, <1>5, <1>6, TypesOfCases

-----------------------------------------------------------------------------
(* gen_const.                                                              *)

\* An integer that C knows is printed, a name of a pointer that C knows too.
LEMMA IntegerTaken ==
  ASSUME NEW e, ExprOK(e), is_integer(e.raw.type), e.means.known, NEW t
  PROVE  gen_const(t, e.folded) # <<>>
<1>1. IntOK(e)
  BY DEF ExprOK
<1>2. CASE e.folded.kind = "NUM"
  <2>1. gen_const(t, e.folded) = <<Long(e.folded.val)>>
    BY <1>2 DEF gen_const, IsSum
  <2> QED
    BY <2>1, PairNotEmpty, Zenon
<1>3. CASE /\ e.folded.kind = "GVAR" /\ e.folded.type = EnumT
           /\ e.folded.name \in DOMAIN EnumValue
  <2>1. gen_const(t, e.folded) = <<Long(EnumValue[e.folded.name])>>
    BY <1>3 DEF gen_const, IsSum
  <2> QED
    BY <2>1, PairNotEmpty, Zenon
<1> QED
  BY <1>1, <1>2, <1>3 DEF IntOK

LEMMA StringTaken ==
  ASSUME NEW n, NEW t, t.ty \in {"PTR", "ARRAY"}
  PROVE  ConstString(t, n) # <<>>
<1>1. CASE t.ty = "PTR"
  <2>1. ConstString(t, n) = <<Quad(At(n.name, 0))>>
    BY <1>1 DEF ConstString
  <2> QED
    BY <2>1, PairNotEmpty, Zenon
<1>2. CASE t.ty = "ARRAY"
  <2>1. \E text, rest : ConstString(t, n) \in {<<text>>, <<text, rest>>}
    BY <1>2 DEF ConstString
  <2> QED
    BY <2>1, PairNotEmpty, Zenon
<1> QED
  BY <1>1, <1>2

LEMMA NameTaken ==
  ASSUME NEW n, n.kind \in {"STRING", "ADDR", "GVAR"}, is_pointer_compat(n.type),
         NEW t, t.ty \in {"PTR", "ARRAY"}
  PROVE  gen_const(t, n) # <<>>
<1>1. n.type # EnumT
  BY TypesApart
<1>2. CASE n.kind = "STRING"
  <2>1. gen_const(t, n) = ConstString(t, n)
    BY <1>2 DEF gen_const, IsSum
  <2> QED
    BY <2>1, StringTaken
<1>3. CASE n.kind \in {"ADDR", "GVAR"}
  <2>1. gen_const(t, n) = <<Quad(At(n.name, 0))>>
    BY <1>1, <1>3 DEF gen_const, IsSum
  <2> QED
    BY <2>1, PairNotEmpty, Zenon
<1> QED
  BY <1>2, <1>3

\* A sum is printed when it begins with an array or an address, and only then.
LEMMA SumTaken ==
  ASSUME NEW n, IsSum(n), NEW t
  PROVE  gen_const(t, n) # <<>> <=> Addresses(lhs(n))
<1>1. gen_const(t, n) = ConstSum(n)
  BY DEF gen_const, IsSum
<1>2. CASE Addresses(lhs(n))
  <2>1. \E x : ConstSum(n) = <<x>>
    BY <1>2 DEF ConstSum, Addresses
  <2> QED
    BY <1>1, <1>2, <2>1, PairNotEmpty, Zenon
<1>3. CASE ~Addresses(lhs(n))
  <2>1. ConstSum(n) = <<>>
    BY <1>3 DEF ConstSum, Addresses
  <2> QED
    BY <1>1, <1>3, <2>1
<1> QED
  BY <1>2, <1>3

\* A list is printed when each of its elements is.
LEMMA ListTaken ==
  ASSUME NEW t, NEW S, NEW elems \in Seq(S), elems # <<>>
  PROVE  gen_const_array(t, elems) # <<>>
           <=> \A i \in 1..Len(elems) : gen_const(t.ptr_to, elems[i]) # <<>>
<1> DEFINE each == [i \in 1..Len(elems) |-> gen_const(t.ptr_to, elems[i])]
           blank == t.array_size - Len(elems)
           firsts == [i \in DOMAIN each |-> each[i][1]]
           zeros == Zero(blank * type_size(t.ptr_to))
           rest == IF blank > 0 THEN <<zeros>> ELSE <<>>
<1>1. Len(elems) \in Nat \ {0}
  BY EmptySeq, LenProperties
<1>2. DOMAIN each = 1..Len(elems)
  OBVIOUS
<1>3. CASE \E i \in DOMAIN each : each[i] = <<>>
  <2>1. gen_const_array(t, elems) = <<>>
    BY <1>3 DEF gen_const_array
  <2> QED
    BY <1>2, <1>3, <2>1
<1>4. CASE ~\E i \in DOMAIN each : each[i] = <<>>
  <2>1. gen_const_array(t, elems) = firsts \o rest
    BY <1>4, Zenon DEF gen_const_array
  <2>2. \E T : firsts \in Seq(T) /\ rest \in Seq(T)
    <3> DEFINE T == {firsts[i] : i \in 1..Len(elems)} \cup {zeros}
    <3>1. firsts \in Seq(T)
      BY <1>1, <1>2
    <3>2. rest \in Seq(T)
      <4>1. zeros \in T
        OBVIOUS
      <4> HIDE DEF zeros, T
      <4>2. <<zeros>> \in Seq(T) /\ <<>> \in Seq(T)
        BY <4>1
      <4> QED
        BY <4>2, Zenon
    <3> QED
      BY <3>1, <3>2
  <2>3. Len(firsts) = Len(elems)
    BY <1>1, <1>2
  <2> HIDE DEF firsts, rest
  <2>4. Len(firsts \o rest) = Len(firsts) + Len(rest) /\ Len(rest) \in Nat
    BY <2>2
  <2>5. firsts \o rest # <<>>
    BY <1>1, <2>3, <2>4
  <2> QED
    BY <1>2, <1>4, <2>1, <2>5
<1> QED
  BY <1>3, <1>4

-----------------------------------------------------------------------------
(* Single expressions.                                                     *)

LEMMA ValueKept ==
  ASSUME NEW e, ExprOK(e), e.means.known, ~e.reversed
  PROVE  Value(e.folded) = e.means
<1> DEFINE f == e.folded
           s == type_size(e.raw.type.ptr_to)
<1>1. /\ e.means = At(e.means.base, e.means.off) /\ f.type = e.raw.type
      /\ is_integer(e.raw.type) \/ is_pointer_compat(e.raw.type)
  BY DEF ExprOK
<1>2. CASE is_integer(e.raw.type)
  <2>1. IntOK(e)
    BY <1>2 DEF ExprOK
  <2>2. Value(f) = Number(f.val)
    BY <2>1 DEF IntOK, Value, IsSum
  <2>3. e.means = At("", f.val)
    BY <1>1, <2>1 DEF IntOK
  <2> QED
    BY <2>2, <2>3, MeaningFields
<1>3. CASE is_pointer_compat(e.raw.type)
  <2>1. PtrOK(e) /\ f.type # EnumT
    BY <1>1, <1>3, TypesApart DEF ExprOK
  <2>2. /\ NameOK(Root(f), e.means) /\ Root(f).type = e.raw.type /\ s \in Nat
        /\ e.means.base = Root(f).name
        /\ IsSum(f) => rhs(f).val \in Int
        /\ e.means.off = Distance(f) * s
    BY <2>1 DEF PtrOK, NameOK
  <2>3. CASE IsSum(f)
    <3> DEFINE v == rhs(f).val
    <3>1. Root(f) = lhs(f) /\ ~IsSum(lhs(f))
      BY <2>2, <2>3 DEF Root, NameOK, IsSum
    <3>2. v \in Int
      BY <2>2, <2>3
    <3>3. v * s \in Int /\ (-v) * s = -(v * s)
      BY <2>2, <3>2, Distributes
    <3>4. Distance(f) = IF f.kind = "ADD" THEN v ELSE -v
      BY <2>3 DEF Distance, IsSum
    <3>5. type_size(lhs(f).type.ptr_to) = s
      BY <2>2, <3>1
    <3>6. Value(f) = At(lhs(f).name, IF f.kind = "ADD" THEN v * s ELSE -(v * s))
      BY <2>3, <3>1, <3>5 DEF Value, IsSum
    <3> HIDE DEF v, s, f
    <3>7. e.means.off = IF f.kind = "ADD" THEN v * s ELSE -(v * s)
      BY <2>2, <3>3, <3>4
    <3> QED
      BY <1>1, <2>2, <3>1, <3>6, <3>7, Zenon DEF f
  <2>4. CASE ~IsSum(f)
    <3>1. Root(f) = f /\ Distance(f) = 0 /\ f.kind \in {"STRING", "ADDR", "GVAR"}
      BY <2>2, <2>4 DEF Root, Distance, IsSum, NameOK
    <3>2. Value(f) = At(f.name, 0)
      BY <2>1, <3>1 DEF Value, IsSum
    <3>3. e.means.off = 0
      BY <2>2, <3>1, Distributes
    <3> QED
      BY <1>1, <2>2, <3>1, <3>2, <3>3, Zenon
  <2> QED
    BY <2>3, <2>4
<1> QED
  BY <1>1, <1>2, <1>3

\* What C takes is assignable, but for an enumerator of value zero to a pointer.
LEMMA ValidAssignable ==
  ASSUME NEW e, ExprOK(e), NEW t, ValidFor(t, e)
  PROVE  /\ e.means.known
         /\ is_integer(e.raw.type) \/ (t.ty = "PTR" /\ is_pointer_compat(e.raw.type))
         /\ assignable(t, e.raw.type) \/ (e.raw.type = EnumT /\ t.ty = "PTR")
<1>1. e.means.known /\ (is_integer(e.raw.type) \/ is_pointer_compat(e.raw.type))
  BY DEF ValidFor, ExprOK
<1>2. CASE is_integer(t)
  BY <1>1, <1>2 DEF ValidFor, assignable
<1>3. CASE ~is_integer(t)
  <2>1. t.ty = "PTR" /\ is_pointer_compat(t)
    BY <1>3 DEF ValidFor, is_pointer_compat
  <2>2. CASE is_pointer_compat(e.raw.type)
    BY <1>1, <2>1, <2>2 DEF assignable
  <2>3. CASE is_integer(e.raw.type)
    <3>1. e.raw.type \in {IntT, EnumT}
      BY <1>1, <2>3 DEF ExprOK, IntOK
    <3> QED
      BY <1>1, <2>1, <2>3, <3>1 DEF assignable
  <2> QED
    BY <1>1, <2>2, <2>3
<1> QED
  BY <1>2, <1>3

\* A folded pointer that C knows is printed, or is a sum with a string.
LEMMA PointerTaken ==
  ASSUME NEW e, ExprOK(e), is_pointer_compat(e.raw.type), e.means.known,
         NEW t, t.ty \in {"PTR", "ARRAY"}
  PROVE  \/ gen_const(t, e.folded) # <<>>
         \/ e.raw.parts # <<>> /\ e.means.base \in DOMAIN StringLen
<1>1. /\ IsSum(e.raw) <=> IsSum(e.folded)
      /\ NameOK(Root(e.folded), e.means) /\ Root(e.folded).type = e.raw.type
      /\ Leafy(e.raw) => ~IsSum(e.raw)
  BY DEF ExprOK, PtrOK
<1>2. CASE IsSum(e.folded)
  <2>1. Root(e.folded) = lhs(e.folded) /\ e.raw.parts # <<>>
    BY <1>1, <1>2 DEF Root, Leafy
  <2>2. Addresses(lhs(e.folded)) \/ e.means.base \in DOMAIN StringLen
    BY <1>1, <2>1 DEF NameOK, Addresses
  <2> QED
    BY <1>2, <2>1, <2>2, SumTaken
<1>3. CASE ~IsSum(e.folded)
  <2>1. Root(e.folded) = e.folded /\ e.folded.kind \in {"STRING", "ADDR", "GVAR"}
    BY <1>1, <1>3 DEF Root, NameOK
  <2> QED
    BY <1>1, <2>1, NameTaken
<1> QED
  BY <1>2, <1>3

\* A folded pointer sum that is printed begins with the address of a variable.
LEMMA FoldedSumTaken ==
  ASSUME NEW e, ExprOK(e), IsSum(e.raw), is_pointer_compat(e.raw.type),
         NEW t, gen_const(t, e.folded) # <<>>
  PROVE  e.means.base \in Globals
<1>1. IsSum(e.folded) /\ NameOK(Root(e.folded), e.means)
  BY DEF ExprOK, PtrOK
<1>2. Addresses(lhs(e.folded)) /\ Root(e.folded) = lhs(e.folded)
  BY <1>1, SumTaken DEF Root
<1> QED
  BY <1>1, <1>2 DEF NameOK

\* So does one in a list, which is not folded.
LEMMA RawSumTaken ==
  ASSUME NEW e, ExprOK(e), IsSum(e.raw), is_pointer_compat(e.raw.type),
         NEW t, gen_const(t, e.raw) # <<>>
  PROVE  e.means.base \in Globals
<1>1. LeftOK(e)
  BY DEF ExprOK
<1>2. Addresses(lhs(e.raw))
  BY SumTaken
<1> QED
  BY <1>1, <1>2 DEF LeftOK

\* A list element that C takes is printed, up to the exceptions.
LEMMA ElementTaken ==
  ASSUME NEW e, ExprOK(e), NEW t, ValidFor(t, e)
  PROVE  \/ gen_const(t, e.raw) # <<>>
         \/ /\ e.raw.parts # <<>>
            /\ \/ e.means.base \in DOMAIN StringLen
               \/ ~(/\ IsSum(e.raw) /\ is_pointer_compat(lhs(e.raw).type)
                    /\ lhs(e.raw).parts = <<>>)
<1>1. /\ e.means.known
      /\ is_integer(e.raw.type) \/ (t.ty = "PTR" /\ is_pointer_compat(e.raw.type))
  BY ValidAssignable
<1>2. CASE Leafy(e.raw)
  <2>1. e.raw = e.folded
    BY <1>2 DEF ExprOK
  <2>2. gen_const(t, e.folded) # <<>>
    <3>1. CASE is_integer(e.raw.type)
      BY <1>1, <3>1, IntegerTaken
    <3>2. CASE t.ty = "PTR" /\ is_pointer_compat(e.raw.type)
      <4>1. gen_const(t, e.folded) # <<>> \/ e.raw.parts # <<>>
        BY <1>1, <3>2, PointerTaken
      <4> QED
        BY <1>2, <4>1 DEF Leafy
    <3> QED
      BY <1>1, <3>1, <3>2
  <2> QED
    BY <2>1, <2>2
<1>3. CASE ~Leafy(e.raw)
  <2>1. CASE is_integer(e.raw.type)
    <3>1. IsSum(e.raw) => ~is_pointer_compat(lhs(e.raw).type)
      BY <1>1, <2>1 DEF ExprOK, IntOK
    <3> QED
      BY <1>3, <3>1 DEF Leafy
  <2>2. CASE is_pointer_compat(e.raw.type)
    <3>1. IsSum(e.raw) /\ LeftOK(e)
      BY <1>3, <2>2 DEF ExprOK
    <3>2. CASE Addresses(lhs(e.raw))
      BY <3>1, <3>2, SumTaken
    <3>3. CASE ~Addresses(lhs(e.raw))
      BY <1>1, <1>3, <3>1, <3>3 DEF LeftOK, Leafy
    <3> QED
      BY <3>2, <3>3
  <2> QED
    BY <1>1, <2>1, <2>2
<1> QED
  BY <1>2, <1>3

\* What is assignable, and a sum of a constant address if it is a pointer's, is a
\* constant of C or one of what is let through.
LEMMA AssignableTaken ==
  ASSUME NEW e, ExprOK(e), NEW t, assignable(t, e.raw.type),
         IsSum(e.raw) /\ is_pointer_compat(e.raw.type) => e.means.base \in Globals
  PROVE  ValidFor(t, e) \/ LetThrough(t, e)
<1>1. e.means.known \in BOOLEAN
  BY DEF ExprOK
<1>2. CASE is_integer(t)
  <2>1. is_integer(e.raw.type)
    BY <1>2, TypesApart DEF assignable
  <2> QED
    BY <1>1, <1>2, <2>1 DEF ValidFor, LetThrough
<1>3. CASE is_pointer_compat(t)
  <2>1. ~is_integer(t) /\ t.ty \in {"PTR", "ARRAY"}
    BY <1>3, TypesApart DEF is_pointer_compat
  <2>2. is_integer(e.raw.type) \/ is_pointer_compat(e.raw.type)
    BY <2>1, TypesApart DEF assignable
  <2>3. CASE t.ty = "ARRAY" \/ is_integer(e.raw.type)
    BY <2>1, <2>3 DEF LetThrough
  <2>4. CASE t.ty = "PTR" /\ is_pointer_compat(e.raw.type)
    <3>1. CASE e.means.known
      BY <2>1, <2>4, <3>1 DEF ValidFor
    <3>2. CASE ~e.means.known /\ ~Leafy(e.raw)
      BY <2>4, <3>2 DEF LetThrough, ExprOK
    <3>3. CASE ~e.means.known /\ Leafy(e.raw)
      <4>1. NameOK(e.raw, e.means) /\ e.raw.kind # "STRING"
        BY <2>4, <3>3 DEF ExprOK, PtrOK, Root
      <4>2. e.raw.kind = "GVAR" \/ e.means.base \in Globals
        BY <4>1 DEF NameOK, Addresses
      <4> QED
        BY <2>4, <3>3, <4>2 DEF LetThrough
    <3> QED
      BY <3>1, <3>2, <3>3
  <2> QED
    BY <2>1, <2>2, <2>3, <2>4
<1> QED
  BY <1>2, <1>3 DEF assignable

-----------------------------------------------------------------------------
(* The data section.                                                       *)

\* Numbers have a least one.
LEMMA LeastExists ==
  ASSUME NEW S \in SUBSET Nat, S # {}
  PROVE  \E k \in S : \A l \in S : k <= l
<1>1. PICK k \in S : \A l \in S : ~(<<l, k>> \in OpToRel(<, Nat))
  BY WFMin, NatLessThanWellFounded, Zenon
<1>2. \A l \in S : ~(l < k)
  BY <1>1 DEF OpToRel
<1> QED
  BY <1>2

\* f gives the places of the first k directives and of what is behind them.
Places(f, k) == f = [i \in 1..k |-> IF i = 1 THEN 0 ELSE f[i - 1] + out[i - 1].bytes]

LEMMA PlacesExist ==
  ASSUME NEW n \in Nat
  PROVE  \A k \in 0..n : \E f : Places(f, k)
<1> DEFINE Bad == {k \in 0..n : ~\E f : Places(f, k)}
<1> SUFFICES ASSUME Bad # {} PROVE FALSE
  OBVIOUS
<1>1. PICK k \in Bad : \A l \in Bad : k <= l
  <2>1. Bad \in SUBSET Nat
    OBVIOUS
  <2> HIDE DEF Bad
  <2> QED
    BY <2>1, LeastExists
<1>2. CASE k = 0
  <2>1. Places([i \in 1..k |-> 0], k)
    BY <1>2 DEF Places
  <2> QED
    BY <1>1, <2>1
<1>3. CASE k > 0
  <2>1. k - 1 \in 0..n /\ k - 1 \notin Bad
    BY <1>1, <1>3
  <2>2. PICK f : Places(f, k - 1)
    BY <2>1
  <2> DEFINE g == [i \in 1..k |-> IF i = 1 THEN 0 ELSE f[i - 1] + out[i - 1].bytes]
  <2>3. \A i \in 1..(k - 1) : g[i] = f[i]
    <3>1. f = [i \in 1..(k - 1) |-> IF i = 1 THEN 0 ELSE f[i - 1] + out[i - 1].bytes]
      BY <2>2 DEF Places
    <3>2. \A i \in 1..(k - 1) : f[i] = IF i = 1 THEN 0 ELSE f[i - 1] + out[i - 1].bytes
      BY <3>1
    <3>3. \A i \in 1..(k - 1) : i \in 1..k
      BY <1>1
    <3> QED
      BY <3>2, <3>3
  <2>4. \A i \in 1..k : g[i] = IF i = 1 THEN 0 ELSE g[i - 1] + out[i - 1].bytes
    <3> SUFFICES ASSUME NEW i \in 1..k PROVE g[i] = IF i = 1 THEN 0 ELSE g[i - 1] + out[i - 1].bytes
      OBVIOUS
    <3>1. CASE i = 1
      BY <3>1
    <3>2. CASE i # 1
      <4>1. i - 1 \in 1..(k - 1)
        BY <3>2, <1>1
      <4> QED BY <3>2, <2>3, <4>1
    <3> QED BY <3>1, <3>2
  <2>5. Places(g, k)
    <3>1. g = [i \in 1..k |-> g[i]]
      OBVIOUS
    <3> HIDE DEF g
    <3> QED
    BY <2>4, <3>1 DEF Places
  <2> QED
    BY <1>1, <2>5
<1> QED
  BY <1>1, <1>2, <1>3

LEMMA StartIs ==
  ASSUME Len(out) \in Nat
  PROVE  Places(Start, Len(out) + 1)
<1>1. \E f : Places(f, Len(out) + 1)
  BY PlacesExist
<1>2. Start = CHOOSE f : f = [i \in 1..(Len(out) + 1) |->
                             IF i = 1 THEN 0 ELSE f[i - 1] + out[i - 1].bytes]
  BY Zenon DEF Start
<1> QED
  BY <1>1, <1>2, Zenon DEF Places

\* The first directive is at the label, every other one behind the one before it.
LEMMA StartSteps ==
  ASSUME Len(out) \in Nat
  PROVE  /\ Start[1] = 0
         /\ \A i \in 1..Len(out) : Start[i + 1] = Start[i] + out[i].bytes
<1>1. Start = [i \in 1..(Len(out) + 1) |-> IF i = 1 THEN 0 ELSE Start[i - 1] + out[i - 1].bytes]
  BY StartIs DEF Places
<1>2. \A i \in 1..(Len(out) + 1) : Start[i] = IF i = 1 THEN 0 ELSE Start[i - 1] + out[i - 1].bytes
  BY <1>1
<1>3. \A i \in 1..Len(out) : i + 1 \in 1..(Len(out) + 1) /\ i + 1 # 1 /\ (i + 1) - 1 = i
  OBVIOUS
<1> QED
  BY <1>2, <1>3

\* Directives of equal size are as far apart as they are long.
LEMMA EvenSteps ==
  ASSUME Len(out) \in Nat, NEW n \in 0..Len(out), NEW b \in Nat,
         \A i \in 1..n : out[i].bytes = b
  PROVE  \A i \in 0..n : Start[i + 1] = i * b
<1> DEFINE Bad == {i \in 0..n : Start[i + 1] # i * b}
<1> SUFFICES ASSUME Bad # {} PROVE FALSE
  OBVIOUS
<1>1. PICK k \in Bad : \A l \in Bad : k <= l
  <2>1. Bad \in SUBSET Nat
    OBVIOUS
  <2> HIDE DEF Bad
  <2> QED
    BY <2>1, LeastExists
<1>2. k \in 0..n /\ Start[k + 1] # k * b
  BY <1>1
<1>3. k # 0
  BY <1>2, StartSteps
<1>4. k - 1 \in 0..n /\ k \in 1..n
  BY <1>2, <1>3
<1>5. Start[(k - 1) + 1] = (k - 1) * b /\ (k - 1) + 1 = k
  <2>1. k - 1 \notin Bad
    <3> HIDE DEF Bad
    <3> QED
      BY <1>1, <1>4
  <2> QED
    BY <1>4, <2>1
<1>6. Start[k + 1] = (k - 1) * b + b
  BY <1>4, <1>5, StartSteps
<1>7. (k - 1) * b + b = k * b
  BY <1>4
<1> QED
  BY <1>2, <1>6, <1>7

LEMMA SizeFacts ==
  /\ type_size(IntT) = 4 /\ type_size(CharT) = 1
  /\ \A t : t.ty = "PTR" => type_size(t) = 8
  /\ \A t : t.ty = "ARRAY" => type_size(t) = t.array_size * scalar_size(t.ptr_to)
  /\ \A t : t.ty # "ARRAY" => type_size(t) = scalar_size(t)
  /\ \A t : is_integer(t) \/ t.ty = "PTR" => scalar_size(t) \in {1, 4, 8}
BY DEF is_integer, type_size, scalar_size, IntT, CharT

LEMMA DirectiveFields ==
  ASSUME NEW n
  PROVE  /\ Long(n).bytes = 4 /\ Long(n).val = Number(n)
         /\ Quad(n).bytes = 8 /\ Quad(n).val = n
         /\ Zero(n).bytes = n /\ Zero(n).val = Number(0)
BY DEF Long, Quad, Zero

\* A directive that holds the value of e.
Holds(d, e) == /\ d.val = e.means
               /\ d.bytes = IF is_integer(e.raw.type) THEN 4 ELSE 8

\* What is printed for a folded expression is one directive, which holds its value.
LEMMA FoldedHolds ==
  ASSUME NEW e, ExprOK(e), e.means.known, ~e.reversed,
         NEW t, is_integer(e.raw.type) \/ t.ty = "PTR", gen_const(t, e.folded) # <<>>
  PROVE  \E d : gen_const(t, e.folded) = <<d>> /\ Holds(d, e)
<1> DEFINE f == e.folded
<1>1. Value(f) = e.means
  BY ValueKept
<1>2. f.type = e.raw.type /\ (is_integer(e.raw.type) \/ is_pointer_compat(e.raw.type))
  BY DEF ExprOK
<1>3. CASE is_integer(e.raw.type)
  <2>1. IntOK(e)
    BY <1>3 DEF ExprOK
  <2>2. gen_const(t, f) = <<Long(f.val)>> /\ Value(f) = Number(f.val)
    BY <2>1 DEF IntOK, gen_const, Value, IsSum
  <2>3. Long(f.val).val = e.means /\ Long(f.val).bytes = 4
    BY <1>1, <2>2, DirectiveFields
  <2> QED
    BY <1>3, <2>2, <2>3 DEF Holds
<1>4. CASE is_pointer_compat(e.raw.type)
  <2>1. f.type # EnumT /\ ~is_integer(e.raw.type) /\ t.ty = "PTR" /\ PtrOK(e)
    BY <1>2, <1>4, TypesApart DEF ExprOK
  <2>2. gen_const(t, f) = <<Quad(Value(f))>>
    <3>1. CASE IsSum(f)
      <4>1. Root(f) = lhs(f) /\ ~IsSum(lhs(f)) /\ Addresses(lhs(f))
        BY <2>1, <3>1, SumTaken DEF Root, PtrOK, NameOK, IsSum
      <4> QED
        BY <3>1, <4>1 DEF gen_const, ConstSum, Value, IsSum, Addresses
    <3>2. CASE ~IsSum(f)
      <4>1. f.kind \in {"STRING", "ADDR", "GVAR"}
        BY <2>1, <3>2 DEF Root, PtrOK, NameOK
      <4> QED
        BY <2>1, <3>2, <4>1 DEF gen_const, ConstString, Value, IsSum
    <3> QED
      BY <3>1, <3>2
  <2>3. Quad(Value(f)).val = e.means /\ Quad(Value(f)).bytes = 8
    BY <1>1, DirectiveFields
  <2> QED
    BY <2>1, <2>2, <2>3 DEF Holds
<1> QED
  BY <1>2, <1>3, <1>4

\* An element of a list that is printed and flat was folded before.
LEMMA FlatFolded ==
  ASSUME NEW e, ExprOK(e), e.means.known, Flat(e.raw), NEW t, gen_const(t, e.raw) # <<>>
  PROVE  e.raw = e.folded
<1>1. CASE Leafy(e.raw)
  BY <1>1 DEF ExprOK
<1>2. CASE ~Leafy(e.raw)
  <2>1. IsSum(e.raw) /\ Addresses(lhs(e.raw))
    BY <1>2, SumTaken DEF Flat, Leafy
  <2>2. is_pointer_compat(lhs(e.raw).type) \/ lhs(e.raw).kind = "ADDR"
    BY <2>1 DEF Addresses, is_pointer_compat
  <2>3. ~is_integer(e.raw.type)
    BY <2>1, <2>2 DEF ExprOK, IntOK
  <2>4. LeftOK(e)
    BY <1>2, <2>3 DEF ExprOK
  <2> QED
    BY <2>1, <2>4 DEF LeftOK
<1> QED
  BY <1>1, <1>2

\* The directives of a list: one for each element, and the zeros behind them.
LEMMA ListIs ==
  ASSUME NEW t, NEW S, NEW elems \in Seq(S), NEW o, o = gen_const_array(t, elems), o # <<>>,
         t.array_size \in Nat, Len(elems) <= t.array_size
  PROVE  LET n == Len(elems)
             blank == t.array_size - n
         IN  /\ Len(o) = n + (IF blank > 0 THEN 1 ELSE 0) /\ DOMAIN o = 1..Len(o)
             /\ \A i \in 1..n : o[i] = gen_const(t.ptr_to, elems[i])[1]
             /\ blank > 0 => o[n + 1] = Zero(blank * type_size(t.ptr_to))
<1> DEFINE n == Len(elems)
           each == [i \in 1..n |-> gen_const(t.ptr_to, elems[i])]
           blank == t.array_size - n
           firsts == [i \in DOMAIN each |-> each[i][1]]
           zeros == Zero(blank * type_size(t.ptr_to))
           rest == IF blank > 0 THEN <<zeros>> ELSE <<>>
           T == {firsts[i] : i \in 1..n} \cup {zeros}
<1>1. n \in Nat /\ blank \in Nat
  BY LenProperties
<1>2. o = firsts \o rest
  BY Zenon DEF gen_const_array
<1>3. firsts \in Seq(T) /\ Len(firsts) = n /\ \A i \in 1..n : firsts[i] = each[i][1]
  BY <1>1
<1>4. /\ rest \in Seq(T)
      /\ Len(rest) = IF blank > 0 THEN 1 ELSE 0
      /\ blank > 0 => rest[1] = zeros
  <2>1. zeros \in T
    OBVIOUS
  <2> HIDE DEF zeros, T
  <2>2. /\ <<zeros>> \in Seq(T) /\ <<>> \in Seq(T)
        /\ Len(<<zeros>>) = 1 /\ Len(<<>>) = 0 /\ <<zeros>>[1] = zeros
    BY <2>1
  <2>3. CASE blank > 0
    <3>1. rest = <<zeros>>
      BY <2>3
    <3>2. rest \in Seq(T) /\ Len(rest) = 1 /\ rest[1] = zeros
      BY ONLY <2>2, <3>1, Zenon
    <3> HIDE DEF blank, rest
    <3> QED
      BY <2>3, <3>2
  <2>4. CASE ~(blank > 0)
    <3>1. rest = <<>>
      BY <2>4
    <3>2. rest \in Seq(T) /\ Len(rest) = 0
      BY ONLY <2>2, <3>1, Zenon
    <3> HIDE DEF blank, rest
    <3> QED
      BY <2>4, <3>2
  <2> QED
    BY <2>3, <2>4
<1>5. \A i \in 1..n : each[i] = gen_const(t.ptr_to, elems[i])
  OBVIOUS
<1> HIDE DEF firsts, rest, zeros, T, each
<1>6. /\ Len(o) = Len(firsts) + Len(rest)
      /\ DOMAIN o = 1..Len(o)
      /\ \A i \in 1..n : o[i] = firsts[i]
      /\ blank > 0 => o[n + 1] = rest[1]
  <2>1. Len(rest) \in Nat /\ (blank > 0 => Len(rest) = 1)
    BY <1>4
  <2>2. /\ Len(firsts \o rest) = Len(firsts) + Len(rest)
        /\ DOMAIN (firsts \o rest) = 1..(Len(firsts) + Len(rest))
        /\ \A i \in 1..(Len(firsts) + Len(rest)) :
             (firsts \o rest)[i] = IF i <= Len(firsts) THEN firsts[i] ELSE rest[i - Len(firsts)]
    BY <1>3, <1>4, ConcatProperties, LenProperties
  <2> HIDE DEF blank
  <2>3. \A i \in 1..n : o[i] = firsts[i]
    BY <1>1, <1>2, <1>3, <2>1, <2>2
  <2>4. blank > 0 => o[n + 1] = rest[1]
    <3> SUFFICES ASSUME blank > 0 PROVE o[n + 1] = rest[1]
      OBVIOUS
    <3>1. n \in Nat /\ Len(firsts) = n /\ Len(rest) = 1
      BY <1>1, <1>3, <2>1, Zenon
    <3> HIDE DEF n
    <3>2. n + 1 \in 1..(n + 1) /\ ~(n + 1 <= n) /\ (n + 1) - n = 1
      BY <3>1
    <3>3. (firsts \o rest)[n + 1] = rest[(n + 1) - n]
      BY <2>2, <3>1, <3>2, Zenon
    <3> QED
      BY <1>2, <3>2, <3>3, Zenon
  <2> QED
    BY <1>2, <2>2, <2>3, <2>4
<1> QED
  BY <1>1, <1>3, <1>4, <1>5, <1>6 DEF zeros

-----------------------------------------------------------------------------
(* Steps.                                                                  *)

\* The elements of a sequence make it one.
LEMMA OwnElements ==
  ASSUME NEW S, NEW s \in Seq(S)
  PROVE  s \in Seq({s[i] : i \in DOMAIN s})
<1>1. /\ Len(s) \in Nat /\ DOMAIN s = 1..Len(s) /\ s = [i \in 1..Len(s) |-> s[i]]
  BY LenProperties
<1>2. [i \in 1..Len(s) |-> s[i]] \in Seq({s[i] : i \in 1..Len(s)})
  BY <1>1
<1> QED
  BY <1>1, <1>2

\* One more expression after some of those there were.
LEMMA OneMore ==
  ASSUME NEW S, NEW s \in Seq(S), \A i \in DOMAIN s : Sound(s[i]),
         NEW k \in 0..Len(s), NEW e, Sound(e), NEW new, new = Append(SubSeq(s, 1, k), e)
  PROVE  /\ new \in Seq({new[i] : i \in DOMAIN new})
         /\ \A i \in DOMAIN new : Sound(new[i])
<1> DEFINE kept == SubSeq(s, 1, k)
<1>1. Len(s) \in Nat /\ DOMAIN s = 1..Len(s)
  BY LenProperties
<1>2. /\ kept \in Seq(S) /\ Len(kept) = k
      /\ \A i \in 1..k : kept[i] = s[i]
  BY <1>1, SubSeqProperties
<1>3. kept \in Seq(S \cup {e})
  BY <1>2
<1> HIDE DEF kept
<1>4. /\ new \in Seq(S \cup {e}) /\ Len(new) = k + 1
      /\ new[k + 1] = e /\ \A i \in 1..k : new[i] = kept[i]
  BY <1>1, <1>2, <1>3, AppendProperties
<1>5. new \in Seq({new[i] : i \in DOMAIN new})
  BY <1>4, OwnElements
<1>6. DOMAIN new = 1..(k + 1)
  BY <1>4, LenProperties
<1>7. ASSUME NEW i \in 1..(k + 1)
      PROVE  Sound(new[i])
  <2>1. CASE i = k + 1
    BY <1>4, <2>1
  <2>2. CASE i \in 1..k
    BY <1>1, <1>2, <1>4, <2>2
  <2> QED
    BY <1>1, <2>1, <2>2
<1> QED
  BY <1>5, <1>6, <1>7

LEMMA InitIInv == Init => IInv
<1> SUFFICES ASSUME Init PROVE IInv
  OBVIOUS
<1>1. exprs = <<>> /\ phase = "reading" /\ list = FALSE
  BY DEF Init
<1>2. DOMAIN exprs = {} /\ exprs \in Seq({exprs[i] : i \in DOMAIN exprs})
  BY <1>1
<1>3. AcceptsConstants
  BY <1>1 DEF AcceptsConstants, RefusesOnly, SumsOfAddressesOnly, TakesOnly
<1> QED
  BY <1>1, <1>2, <1>3 DEF IInv, EmittedOK

LEMMA ExprsStep ==
  ASSUME IInv, NEW k \in 0..Len(exprs), NEW e, Sound(e),
         exprs' = Append(SubSeq(exprs, 1, k), e)
  PROVE  /\ exprs' \in Seq({exprs'[i] : i \in DOMAIN exprs'})
         /\ \A i \in DOMAIN exprs' : Sound(exprs'[i])
<1> DEFINE T == {exprs[i] : i \in DOMAIN exprs}
<1>1. exprs \in Seq(T) /\ \A i \in DOMAIN exprs : Sound(exprs[i])
  BY DEF IInv
<1> HIDE DEF T
<1>2. \A new : new = Append(SubSeq(exprs, 1, k), e)
        => /\ new \in Seq({new[i] : i \in DOMAIN new})
           /\ \A i \in DOMAIN new : Sound(new[i])
  BY <1>1, OneMore
<1> QED
  BY <1>2

LEMMA PushStep ==
  ASSUME IInv, NEW e, Sound(e), Push(e)
  PROVE  IInv'
<1>1. exprs \in Seq({exprs[i] : i \in DOMAIN exprs})
  BY DEF IInv
<1>2. exprs' = Append(SubSeq(exprs, 1, Len(exprs)), e)
  <2>1. SubSeq(exprs, 1, Len(exprs)) = exprs
    BY <1>1, SubSeqProperties, LenProperties, SeqEqual
  <2> QED
    BY <2>1 DEF Push
<1>3. Len(exprs) \in 0..Len(exprs)
  BY <1>1, LenProperties
<1>4. /\ exprs' \in Seq({exprs'[i] : i \in DOMAIN exprs'})
      /\ \A i \in DOMAIN exprs' : Sound(exprs'[i])
  BY <1>2, <1>3, ExprsStep
<1>5. phase' = "reading" /\ list' = list /\ ~list
  BY DEF Push, IInv
<1>6. AcceptsConstants'
  BY <1>5 DEF AcceptsConstants, RefusesOnly, SumsOfAddressesOnly, TakesOnly
<1> QED
  BY <1>4, <1>5, <1>6 DEF IInv, EmittedOK

\* Whatever sema_const_aux takes and builds is as it should be.
LEMMA LeafSound ==
  ASSUME NEW n, NEW m, ExprOK(LeafExpr(n, m))
  PROVE  Sound(LeafExpr(n, m))
<1>1. LeafExpr(n, m).errors = {}
  BY DEF LeafExpr, Expr
<1> QED
  BY <1>1 DEF Sound

LEMMA RefusedSound ==
  ASSUME NEW t, NEW m, NEW x, x # {}, m.known => "operands" \notin x
  PROVE  Sound(Refused(t, m, x))
BY RefusedFields DEF Sound

LEMMA LeafStep ==
  ASSUME IInv, Num \/ Str \/ Variable \/ Enumerator \/ Address \/ EnumeratorAddress
  PROVE  IInv'
<1>1. CASE Num
  BY <1>1, NumOK, LeafSound, PushStep DEF Num
<1>2. CASE Str
  BY <1>2, StrOK, LeafSound, PushStep DEF Str
<1>3. CASE Variable
  BY <1>3, VariableOK, LeafSound, PushStep DEF Variable
<1>4. CASE Enumerator
  BY <1>4, EnumeratorOK, LeafSound, PushStep DEF Enumerator
<1>5. CASE Address
  BY <1>5, AddressOK, LeafSound, PushStep DEF Address
<1>6. CASE EnumeratorAddress
  BY <1>6, EnumeratorAddressOK, LeafSound, PushStep DEF EnumeratorAddress
<1> QED
  BY <1>1, <1>2, <1>3, <1>4, <1>5, <1>6

LEMMA ErrorStep ==
  ASSUME IInv, Undefined \/ ElementAddress \/ Other
  PROVE  IInv'
<1>1. PICK t, m, x : x \in {"undefined variable", "left value", "expression"}
                     /\ Push(Refused(t, m, {x}))
  <2>1. CASE Undefined
    BY <2>1, Zenon DEF Undefined
  <2>2. CASE ElementAddress
    BY <2>2, Zenon DEF ElementAddress
  <2>3. CASE Other
    BY <2>3, Zenon DEF Other
  <2> QED
    BY <2>1, <2>2, <2>3
<1>2. {x} # {} /\ "operands" \notin {x}
  BY <1>1
<1>3. Sound(Refused(t, m, {x}))
  BY <1>2, RefusedSound
<1> QED
  BY <1>1, <1>3, PushStep

\* C knows the value of an operator only when it knows those of operands that fit.
LEMMA KnownParts ==
  ASSUME NEW kind, NEW l, NEW r, CValue(kind, l, r).known
  PROVE  /\ TypesOf(kind, l.raw.type, r.raw.type) # {}
         /\ l.means.known /\ r.means.known
BY DEF CValue, Unknown

LEMMA ApplyStep ==
  ASSUME IInv, NEW kind \in {"ADD", "SUB", "LSH"}, Apply(kind)
  PROVE  IInv'
<1> DEFINE n == Len(exprs)
           l == exprs[n - 1]
           r == exprs[n]
           types == TypesOf(kind, l.raw.type, r.raw.type)
           errors == l.errors \cup r.errors \cup IF types = {} THEN {"operands"} ELSE {}
           means == CValue(kind, l, r)
           reversed == kind = "SUB" /\ IsSum(l.raw) /\ is_pointer_compat(l.raw.type)
           new(t) == IF errors # {} THEN Refused(t, means, errors)
                     ELSE Expr(Op(kind, t, l.raw, r.raw),
                               gen_const_calc(kind, t, l.folded, r.folded),
                               means, l.reversed \/ r.reversed \/ reversed, {})
<1>1. exprs \in Seq({exprs[i] : i \in DOMAIN exprs}) /\ list' = list /\ ~list
  BY DEF IInv, Apply
<1>2. n \in Nat /\ n >= 2 /\ DOMAIN exprs = 1..n
  BY <1>1, LenProperties DEF Apply
<1>3. Sound(l) /\ Sound(r)
  <2>1. n - 1 \in 1..n /\ n \in 1..n
    BY <1>2
  <2> QED
    BY <1>2, <2>1 DEF IInv
<1>4. kind = "LSH" => {r.folded.val, r.means.off} \subseteq 0..MaxShift
  BY DEF Apply
<1>5. phase' = "reading"
  BY DEF Apply
<1>6. PICK t \in IF types = {} THEN {l.raw.type} ELSE types :
        exprs' = Append(SubSeq(exprs, 1, n - 2), new(t))
  BY DEF Apply
<1> HIDE DEF n, l, r
<1>7. Sound(new(t))
  <2>1. CASE errors # {}
    <3>1. new(t) = Refused(t, means, errors)
      BY <2>1
    <3>2. means.known => "operands" \notin errors
      <4> SUFFICES ASSUME means.known PROVE "operands" \notin errors
        OBVIOUS
      <4>1. types # {} /\ l.means.known /\ r.means.known
        BY KnownParts
      <4> QED
        BY <1>3, <4>1 DEF Sound
    <3> HIDE DEF errors, means, new
    <3> QED
      BY <2>1, <3>1, <3>2, RefusedSound
  <2>2. CASE errors = {}
    <3> DEFINE e == Expr(Op(kind, t, l.raw, r.raw),
                         gen_const_calc(kind, t, l.folded, r.folded),
                         means, l.reversed \/ r.reversed \/ reversed, {})
    <3>1. new(t) = e /\ t \in types /\ l.errors = {} /\ r.errors = {}
      BY <1>6, <2>2
    <3>2. ExprOK(l) /\ ExprOK(r)
      BY <1>3, <3>1 DEF Sound
    <3>3. Applied(e, kind, t, l, r)
      <4>1. /\ e.raw = Op(kind, t, l.raw, r.raw)
            /\ e.folded = gen_const_calc(kind, t, l.folded, r.folded)
            /\ e.means = CValue(kind, l, r)
            /\ e.reversed = (l.reversed \/ r.reversed \/ reversed)
        BY DEF Expr
      <4> HIDE DEF e
      <4> QED
        BY <4>1, Zenon DEF Applied
    <3>4. e.errors = {}
      BY ExprFields
    <3> HIDE DEF e, new
    <3>5. ExprOK(e)
      BY <1>4, <3>1, <3>2, <3>3, ApplyOK
    <3> QED
      BY <3>1, <3>4, <3>5 DEF Sound
  <2> QED
    BY <2>1, <2>2
<1> HIDE DEF new
<1>8. n - 2 \in 0..Len(exprs)
  BY <1>2 DEF n
<1>9. /\ exprs' \in Seq({exprs'[i] : i \in DOMAIN exprs'})
      /\ \A i \in DOMAIN exprs' : Sound(exprs'[i])
  BY <1>6, <1>7, <1>8, ExprsStep
<1>10. AcceptsConstants'
  BY <1>5 DEF AcceptsConstants, RefusesOnly, SumsOfAddressesOnly, TakesOnly
<1> QED
  BY <1>1, <1>5, <1>9, <1>10 DEF IInv, EmittedOK

\* What is read stays as it is when the initialiser is emitted or refused.
LEMMA KeptStep ==
  ASSUME IInv, UNCHANGED exprs, phase' # "reading", AcceptsConstants', EmittedOK'
  PROVE  IInv'
BY DEF IInv

LEMMA ScalarStep ==
  ASSUME IInv, Scalar
  PROVE  IInv'
<1> DEFINE e == exprs[1]
<1>1. exprs' = exprs /\ phase = "reading" /\ list' = list /\ ~list /\ Len(exprs) = 1
  BY DEF IInv, Scalar
<1>2. DOMAIN exprs = {1} /\ Sound(e)
  <2>1. DOMAIN exprs = 1..1
    BY <1>1, LenProperties DEF IInv
  <2> QED
    BY <2>1 DEF IInv
<1>3. PICK t \in Targets :
        /\ target' = t
        /\ IF e.errors = {} /\ assignable(t, e.raw.type)
           THEN Emit(gen_const(t, e.folded))
           ELSE phase' = "refused" /\ UNCHANGED out
  BY DEF Scalar
<1> HIDE DEF e
<1>4. \/ /\ phase' = "refused"
         /\ \/ e.errors # {}
            \/ ~assignable(t, e.raw.type) \/ gen_const(t, e.folded) = <<>>
      \/ /\ phase' = "emitted" /\ gen_const(t, e.folded) # <<>>
         /\ e.errors = {} /\ assignable(t, e.raw.type)
  BY <1>3, Zenon DEF Emit
<1>5. RefusesOnly'
  <2> SUFFICES ASSUME phase' = "refused", ValidC'
               PROVE  \/ e.errors # {} /\ "operands" \notin e.errors
                      \/ e.raw.type = EnumT /\ t.ty = "PTR"
                      \/ e.raw.parts # <<>> /\ e.means.base \in DOMAIN StringLen
    BY <1>1, <1>2, <1>3, Zenon DEF RefusesOnly, Elem, e
  <2>1. \/ e.errors # {}
        \/ ~assignable(t, e.raw.type) \/ gen_const(t, e.folded) = <<>>
    BY <1>4
  <2>2. CASE ValidFor(t, e)
    <3>1. CASE e.errors # {}
      BY <1>2, <2>2, <3>1 DEF Sound, ValidFor
    <3>2. CASE e.errors = {}
      <4>1. ExprOK(e)
        BY <1>2, <3>2 DEF Sound
      <4>2. CASE is_integer(e.raw.type)
        BY <4>1, <2>1, <2>2, <3>2, <4>2, ValidAssignable, IntegerTaken
      <4>3. CASE t.ty = "PTR" /\ is_pointer_compat(e.raw.type)
        BY <4>1, <2>1, <2>2, <3>2, <4>3, TypesApart, ValidAssignable, PointerTaken
      <4> QED
        BY <4>1, <2>2, <4>2, <4>3, ValidAssignable
    <3> QED
      BY <3>1, <3>2
  <2>3. CASE t.ty = "ARRAY" /\ e.raw.kind = "STRING"
    <3>1. CASE e.errors # {}
      BY <1>2, <2>3, <3>1 DEF Sound
    <3>2. CASE e.errors = {}
      <4>1. ExprOK(e)
        BY <1>2, <3>2 DEF Sound
      <4>2. is_pointer_compat(e.raw.type) /\ is_pointer_compat(t)
        BY <4>1, <2>3 DEF ExprOK, is_pointer_compat
      <4>3. assignable(t, e.raw.type)
        BY <4>2 DEF assignable
      <4>4. e.folded = e.raw
        BY <4>1, <4>2, <2>3 DEF ExprOK, IsSum
      <4>5. gen_const(t, e.raw) # <<>>
        BY <2>3, <4>2, NameTaken
      <4> QED
        BY <2>1, <3>2, <4>3, <4>4, <4>5
    <3> QED
      BY <3>1, <3>2
  <2>4. ValidFor(t, e) \/ (t.ty = "ARRAY" /\ e.raw.kind = "STRING")
    BY <1>1, <1>3, Zenon DEF ValidC, ValidString, e
  <2> QED
    BY <2>2, <2>3, <2>4
<1>6. SumsOfAddressesOnly'
  <2> SUFFICES ASSUME phase' = "emitted", IsSum(e.raw), is_pointer_compat(e.raw.type)
               PROVE  e.means.base \in Globals
    BY <1>1, <1>2 DEF SumsOfAddressesOnly, Globals, e
  <2> QED
    BY <1>2, <1>4, FoldedSumTaken DEF Sound
<1>7. TakesOnly'
  <2> SUFFICES ASSUME phase' = "emitted"
               PROVE  e.errors = {} /\ (ValidFor(t, e) \/ LetThrough(t, e))
    BY <1>1, <1>2, <1>3, Zenon DEF TakesOnly, Elem, LetThrough, Globals, e
  <2>1. e.errors = {} /\ ExprOK(e) /\ assignable(t, e.raw.type)
    BY <1>2, <1>4 DEF Sound
  <2>2. IsSum(e.raw) /\ is_pointer_compat(e.raw.type) => e.means.base \in Globals
    BY <1>4, <2>1, FoldedSumTaken
  <2> QED
    BY <2>1, <2>2, AssignableTaken
<1>8. EmittedOK'
  <2> SUFFICES ASSUME phase' = "emitted"
               PROVE  out' = gen_const(t, e.folded) /\ out' # <<>> /\ exprs # <<>>
    BY <1>1, <1>3, Zenon DEF EmittedOK, e
  <2>1. out' = gen_const(t, e.folded)
    BY <1>3, <1>4, Zenon DEF Emit
  <2> QED
    BY <1>2, <1>4, <2>1
<1>9. phase' # "reading"
  BY <1>4
<1> QED
  BY <1>1, <1>5, <1>6, <1>7, <1>8, <1>9, KeptStep DEF AcceptsConstants

LEMMA ListStep ==
  ASSUME IInv, List
  PROVE  IInv'
<1> DEFINE raws == [i \in DOMAIN exprs |-> exprs[i].raw]
<1>1. exprs' = exprs /\ list' /\ exprs # <<>>
  BY DEF List
<1>2. PICK t \in Targets :
        /\ target' = t
        /\ IF /\ t.ty = "ARRAY" /\ Len(exprs) <= t.array_size
              /\ \A i \in DOMAIN exprs : /\ exprs[i].errors = {}
                                         /\ assignable(t.ptr_to, exprs[i].raw.type)
           THEN Emit(gen_const_array(t, raws))
           ELSE phase' = "refused" /\ UNCHANGED out
  BY DEF List
<1> DEFINE et == t.ptr_to
<1>3. Len(exprs) \in Nat /\ DOMAIN exprs = 1..Len(exprs)
  BY LenProperties DEF IInv
<1>4. gen_const_array(t, raws) # <<>>
        <=> \A i \in DOMAIN exprs : gen_const(et, exprs[i].raw) # <<>>
  <2>1. raws \in Seq({exprs[i].raw : i \in DOMAIN exprs})
    BY <1>3
  <2>2. Len(raws) = Len(exprs) /\ \A i \in DOMAIN exprs : raws[i] = exprs[i].raw
    BY <1>3
  <2>3. raws # <<>>
    BY <1>1, <1>3, <2>2, EmptySeq DEF IInv
  <2> HIDE DEF raws
  <2> QED
    BY <1>3, <2>1, <2>2, <2>3, ListTaken
<1> HIDE DEF raws
<1>5. \/ /\ phase' = "refused"
         /\ \/ t.ty # "ARRAY" \/ ~(Len(exprs) <= t.array_size)
            \/ \E i \in DOMAIN exprs : \/ exprs[i].errors # {}
                                       \/ ~assignable(et, exprs[i].raw.type)
                                       \/ gen_const(et, exprs[i].raw) = <<>>
      \/ /\ phase' = "emitted" /\ t.ty = "ARRAY" /\ Len(exprs) <= t.array_size
         /\ \A i \in DOMAIN exprs : /\ gen_const(et, exprs[i].raw) # <<>>
                                    /\ exprs[i].errors = {}
                                    /\ assignable(et, exprs[i].raw.type)
  BY <1>2, <1>4, Zenon DEF Emit
<1>6. RefusesOnly'
  <2> SUFFICES ASSUME phase' = "refused", ValidC', t.ty = "ARRAY", ~ValidString'
               PROVE  \E i \in DOMAIN exprs :
                        LET e == exprs[i]
                            n == exprs[i].raw IN
                        \/ e.errors # {} /\ "operands" \notin e.errors
                        \/ n.type = EnumT /\ et.ty = "PTR"
                        \/ /\ n.parts # <<>>
                           /\ \/ e.means.base \in DOMAIN StringLen
                              \/ ~(IsSum(n) /\ is_pointer_compat(lhs(n).type)
                                            /\ lhs(n).parts = <<>>)
    BY <1>1, <1>2, Zenon DEF RefusesOnly, Elem
  <2>1. Len(exprs) <= t.array_size /\ \A i \in DOMAIN exprs : ValidFor(et, exprs[i])
    <3>1. ~ValidFor(t, exprs[1])
      BY DEF ValidFor, is_integer
    <3> QED
      BY <1>1, <1>2, <3>1, Zenon DEF ValidC
  <2>2. PICK i \in DOMAIN exprs : \/ exprs[i].errors # {}
                                  \/ ~assignable(et, exprs[i].raw.type)
                                  \/ gen_const(et, exprs[i].raw) = <<>>
    BY <1>5, <2>1
  <2>3. Sound(exprs[i]) /\ ValidFor(et, exprs[i])
    BY <2>1, <2>2 DEF IInv
  <2>4. CASE exprs[i].errors # {}
    BY <2>3, <2>4 DEF Sound, ValidFor
  <2>5. CASE exprs[i].errors = {} /\ ~assignable(et, exprs[i].raw.type)
    BY <2>3, <2>5, ValidAssignable DEF Sound
  <2>6. CASE exprs[i].errors = {} /\ gen_const(et, exprs[i].raw) = <<>>
    BY <2>3, <2>6, ElementTaken DEF Sound
  <2> QED
    BY <2>2, <2>4, <2>5, <2>6
<1>7. ASSUME phase' = "emitted", NEW i \in DOMAIN exprs
      PROVE  /\ ExprOK(exprs[i]) /\ gen_const(et, exprs[i].raw) # <<>>
             /\ assignable(et, exprs[i].raw.type) /\ exprs[i].errors = {}
             /\ IsSum(exprs[i].raw) /\ is_pointer_compat(exprs[i].raw.type)
                  => exprs[i].means.base \in Globals
  <2>1. /\ Sound(exprs[i]) /\ gen_const(et, exprs[i].raw) # <<>>
        /\ assignable(et, exprs[i].raw.type) /\ exprs[i].errors = {}
    BY <1>5, <1>7 DEF IInv
  <2>2. ExprOK(exprs[i])
    BY <2>1 DEF Sound
  <2> QED
    BY <2>1, <2>2, RawSumTaken
<1>8. SumsOfAddressesOnly'
  BY <1>1, <1>7 DEF SumsOfAddressesOnly, Globals
<1>9. TakesOnly'
  <2> SUFFICES ASSUME phase' = "emitted"
               PROVE  /\ t.ty = "ARRAY" /\ Len(exprs) <= t.array_size
                      /\ \A i \in DOMAIN exprs :
                           /\ exprs[i].errors = {}
                           /\ ValidFor(et, exprs[i]) \/ LetThrough(et, exprs[i])
    BY <1>1, <1>2, Zenon DEF TakesOnly, Elem, LetThrough, Globals
  <2>1. t.ty = "ARRAY" /\ Len(exprs) <= t.array_size
    BY <1>5
  <2>2. ASSUME NEW i \in DOMAIN exprs
        PROVE  /\ exprs[i].errors = {}
               /\ ValidFor(et, exprs[i]) \/ LetThrough(et, exprs[i])
    BY <1>7, AssignableTaken
  <2> QED
    BY <2>1, <2>2
<1>10. EmittedOK'
  <2> SUFFICES ASSUME phase' = "emitted"
               PROVE  /\ out' = gen_const_array(t, raws) /\ out' # <<>>
                      /\ t.ty = "ARRAY" /\ Len(exprs) <= t.array_size
                      /\ \A i \in DOMAIN exprs : assignable(et, exprs[i].raw.type)
    BY <1>1, <1>2, Zenon DEF EmittedOK, raws
  <2>1. out' = gen_const_array(t, raws) /\ t.ty = "ARRAY" /\ Len(exprs) <= t.array_size
    BY <1>2, <1>5, Zenon DEF Emit
  <2>2. \A i \in DOMAIN exprs : assignable(et, exprs[i].raw.type)
    BY <1>7
  <2>3. out' # <<>>
    BY <1>4, <1>5, <2>1, Zenon
  <2> QED
    BY <2>1, <2>2, <2>3, Zenon
<1>11. phase' # "reading"
  BY <1>5
<1> QED
  BY <1>1, <1>6, <1>8, <1>9, <1>10, <1>11, KeptStep DEF AcceptsConstants

\* What is emitted has no errors.
LEMMA EmittedSound ==
  ASSUME IInv, phase = "emitted", NEW i \in DOMAIN exprs
  PROVE  ExprOK(exprs[i])
BY DEF IInv, AcceptsConstants, TakesOnly, Sound

LEMMA StepIInv == IInv /\ [Next]_vars => IInv'
<1> SUFFICES ASSUME IInv, [Next]_vars PROVE IInv'
  OBVIOUS
<1>1. CASE Num \/ Str \/ Variable \/ Enumerator \/ Address \/ EnumeratorAddress
  BY <1>1, LeafStep
<1>6. CASE Undefined \/ ElementAddress \/ Other
  BY <1>6, ErrorStep
<1>2. CASE \E kind \in {"ADD", "SUB", "LSH"} : Apply(kind)
  BY <1>2, ApplyStep
<1>3. CASE Scalar
  BY <1>3, ScalarStep
<1>4. CASE List
  BY <1>4, ListStep
<1>5. CASE Stop \/ UNCHANGED vars
  <2>1. UNCHANGED vars
    BY <1>5 DEF Stop
  <2>2. UNCHANGED exprs /\ UNCHANGED list /\ UNCHANGED phase /\ UNCHANGED target
    BY <2>1 DEF vars
  <2>3. UNCHANGED AcceptsConstants
    BY <2>2 DEF AcceptsConstants, RefusesOnly, SumsOfAddressesOnly, TakesOnly, Elem,
                ValidC, ValidString
  <2>4. UNCHANGED EmittedOK
    BY <2>1, <2>2 DEF EmittedOK, vars
  <2> QED
    BY <2>2, <2>3, <2>4 DEF IInv
<1> QED
  BY <1>1, <1>2, <1>3, <1>4, <1>5, <1>6 DEF Next

-----------------------------------------------------------------------------
(* What is read from the data section.                                    *)

\* Integers are four bytes long, and fit; what points is eight.
LEMMA BytesOf ==
  ASSUME NEW t, NEW e, ExprOK(e), ValidFor(t, e), NumberFits(t, e),
         NEW d, Holds(d, e)
  PROVE  /\ is_integer(e.raw.type) \/ t.ty = "PTR"
         /\ t.ty # "ARRAY" /\ type_size(t) \in {1, 4, 8}
         /\ d.bytes = type_size(t) \/ (t = CharT /\ Len(exprs) = 1 /\ d.bytes = 4)
<1>1. is_integer(e.raw.type) \/ (t.ty = "PTR" /\ is_pointer_compat(e.raw.type))
  BY ValidAssignable
<1>2. CASE is_integer(e.raw.type)
  <2>1. t = IntT \/ (t = CharT /\ Len(exprs) = 1)
    BY <1>2 DEF NumberFits
  <2>2. IntT.ty = "INT" /\ CharT.ty = "CHAR"
    BY DEF IntT, CharT
  <2>3. d.bytes = 4
    BY <1>2 DEF Holds
  <2> QED
    BY <1>2, <2>1, <2>2, <2>3, SizeFacts
<1>3. CASE t.ty = "PTR" /\ is_pointer_compat(e.raw.type)
  <2>1. d.bytes = 8
    BY <1>3, TypesApart DEF Holds
  <2> QED
    BY <1>3, <2>1, SizeFacts
<1> QED
  BY <1>1, <1>2, <1>3

LEMMA ScalarReadsBack ==
  ASSUME IInv, phase = "emitted", ~list, ValidFor(target, exprs[1]),
         NumberFits(target, exprs[1]), ~exprs[1].reversed
  PROVE  /\ ReadsAs(target, exprs[1], 1) /\ DOMAIN exprs = {1} /\ DOMAIN out = {1}
         /\ Start[Len(out) + 1] >= type_size(target)
<1> DEFINE e == exprs[1]
<1>1. out = gen_const(target, e.folded) /\ out # <<>> /\ Len(exprs) = 1
  BY DEF IInv, EmittedOK
<1>2. DOMAIN exprs = {1}
  <2>1. DOMAIN exprs = 1..1
    BY <1>1, LenProperties DEF IInv
  <2> QED
    BY <2>1
<1>3. ExprOK(e)
  BY <1>2, EmittedSound
<1>4. e.means.known /\ (is_integer(e.raw.type) \/ target.ty = "PTR")
  BY <1>3, ValidAssignable
<1> HIDE DEF e
<1>5. PICK d : out = <<d>> /\ Holds(d, e)
  BY <1>1, <1>3, <1>4, FoldedHolds DEF e
<1>6. /\ type_size(target) \in {1, 4, 8}
      /\ d.bytes = type_size(target) \/ (target = CharT /\ d.bytes = 4)
  BY <1>3, <1>5, BytesOf DEF e
<1>7. Len(out) = 1 /\ DOMAIN out = {1} /\ out[1] = d
  BY <1>5
<1>8. Start[1] = 0 /\ Start[2] = 0 + d.bytes
  <2>1. 1 \in 1..Len(out) /\ Len(out) \in Nat /\ 1 + 1 = 2
    BY <1>7
  <2>2. Start[1 + 1] = Start[1] + out[1].bytes /\ Start[1] = 0
    BY <2>1, StartSteps
  <2> QED
    BY <1>7, <2>1, <2>2
<1>9. Start[Len(out) + 1] >= type_size(target)
  <2>1. Len(out) + 1 = 2 /\ d.bytes \in {1, 4, 8} /\ d.bytes >= type_size(target)
    BY <1>6, <1>7, SizeFacts
  <2> QED
    BY <1>8, <2>1
<1>10. Start[1] = (1 - 1) * type_size(target)
  BY <1>6, <1>8
<1> QED
  BY <1>2, <1>5, <1>7, <1>9, <1>10 DEF ReadsAs, Holds, e

\* The elements of a list are where C looks for them, and zeros fill the array.
LEMMA ListReadsBack ==
  ASSUME IInv, phase = "emitted", list,
         NEW et, et = target.ptr_to,
         \A i \in DOMAIN exprs : /\ ValidFor(et, exprs[i]) /\ NumberFits(et, exprs[i])
                                 /\ ~exprs[i].reversed /\ Flat(exprs[i].raw)
  PROVE  /\ \A i \in DOMAIN exprs : ReadsAs(et, exprs[i], i)
         /\ \A i \in DOMAIN out \ DOMAIN exprs : out[i].val = Number(0)
         /\ Start[Len(out) + 1] >= type_size(target)
<1> DEFINE raws == [i \in DOMAIN exprs |-> exprs[i].raw]
           n == Len(exprs)
           b == type_size(et)
           size == target.array_size
           blank == size - n
<1>1. /\ out = gen_const_array(target, raws) /\ out # <<>> /\ exprs # <<>>
      /\ target.ty = "ARRAY" /\ target \in Targets /\ n <= size
  BY DEF IInv, EmittedOK
<1>2. /\ exprs \in Seq({exprs[i] : i \in DOMAIN exprs})
      /\ n \in Nat \ {0} /\ DOMAIN exprs = 1..n /\ size \in Nat
  BY <1>1, LenProperties, EmptySeq, ConstAssumption DEF IInv
<1>3. /\ raws \in Seq({exprs[i].raw : i \in DOMAIN exprs}) /\ Len(raws) = n
      /\ \A i \in 1..n : raws[i] = exprs[i].raw
  BY <1>2
<1>4. raws # <<>>
  BY <1>2, <1>3, EmptySeq
<1> HIDE DEF raws
<1>5. /\ Len(out) = n + (IF blank > 0 THEN 1 ELSE 0) /\ DOMAIN out = 1..Len(out)
      /\ \A i \in 1..n : out[i] = gen_const(et, exprs[i].raw)[1]
      /\ blank > 0 => out[n + 1] = Zero(blank * b)
  <2>1. \A S : raws \in Seq(S) =>
          LET m == Len(raws)
              rest == target.array_size - m
          IN  /\ Len(out) = m + (IF rest > 0 THEN 1 ELSE 0) /\ DOMAIN out = 1..Len(out)
              /\ \A i \in 1..m : out[i] = gen_const(target.ptr_to, raws[i])[1]
              /\ rest > 0 => out[m + 1] = Zero(rest * type_size(target.ptr_to))
    <3> HIDE DEF n, b, blank
    <3>1. target.array_size \in Nat /\ Len(raws) <= target.array_size
      BY <1>1, <1>2, <1>3 DEF n
    <3> SUFFICES ASSUME NEW S, raws \in Seq(S)
                 PROVE  LET m == Len(raws)
                            rest == target.array_size - m
                        IN  /\ Len(out) = m + (IF rest > 0 THEN 1 ELSE 0)
                            /\ DOMAIN out = 1..Len(out)
                            /\ \A i \in 1..m : out[i] = gen_const(target.ptr_to, raws[i])[1]
                            /\ rest > 0 => out[m + 1] = Zero(rest * type_size(target.ptr_to))
      OBVIOUS
    <3> QED
      BY <1>1, <3>1, ListIs
  <2>2. /\ Len(out) = n + (IF blank > 0 THEN 1 ELSE 0) /\ DOMAIN out = 1..Len(out)
        /\ \A i \in 1..n : out[i] = gen_const(et, raws[i])[1]
        /\ blank > 0 => out[n + 1] = Zero(blank * b)
    BY <1>3, <2>1
  <2> QED
    BY <1>3, <2>2
<1>6. \A i \in 1..n : gen_const(et, exprs[i].raw) # <<>>
  BY <1>1, <1>3, <1>4, ListTaken
<1>7. ASSUME NEW i \in 1..n
      PROVE  /\ out[i].val = exprs[i].means
             /\ et.ty # "ARRAY" /\ b \in {1, 4, 8}
             /\ out[i].bytes = b \/ (et = CharT /\ n = 1 /\ out[i].bytes = 4)
  <2>1. /\ ExprOK(exprs[i]) /\ ValidFor(et, exprs[i]) /\ NumberFits(et, exprs[i])
        /\ ~exprs[i].reversed /\ Flat(exprs[i].raw) /\ gen_const(et, exprs[i].raw) # <<>>
    BY <1>2, <1>6, EmittedSound
  <2>2. exprs[i].means.known /\ (is_integer(exprs[i].raw.type) \/ et.ty = "PTR")
    BY <2>1, ValidAssignable
  <2>3. exprs[i].raw = exprs[i].folded
    BY <2>1, <2>2, FlatFolded
  <2>4. PICK d : gen_const(et, exprs[i].raw) = <<d>> /\ Holds(d, exprs[i])
    BY <2>1, <2>2, <2>3, FoldedHolds
  <2>5. out[i] = d
    BY <1>5, <2>4
  <2>6. /\ et.ty # "ARRAY" /\ b \in {1, 4, 8}
        /\ d.bytes = b \/ (et = CharT /\ n = 1 /\ d.bytes = 4)
    BY <2>1, <2>4, BytesOf
  <2> QED
    BY <2>4, <2>5, <2>6 DEF Holds
<1>8. /\ et.ty # "ARRAY" /\ b \in {1, 4, 8} /\ b \in Nat
  BY <1>2, <1>7
<1>9. type_size(target) = size * b
  BY <1>1, <1>8, SizeFacts
<1>10. Len(out) \in Nat /\ n \in 0..Len(out)
  BY <1>2, <1>5
<1>11. blank > 0 => Start[Len(out) + 1] = Start[n + 1] + blank * b
  <2> SUFFICES ASSUME blank > 0 PROVE Start[Len(out) + 1] = Start[n + 1] + blank * b
    OBVIOUS
  <2>1. n + 1 \in 1..Len(out) /\ Len(out) = n + 1
    BY <1>2, <1>5
  <2>2. Start[(n + 1) + 1] = Start[n + 1] + out[n + 1].bytes
    BY <1>10, <2>1, StartSteps
  <2>3. out[n + 1].bytes = blank * b
    BY <1>5, DirectiveFields
  <2> QED
    BY <2>1, <2>2, <2>3
<1>12. ~(blank > 0) => Len(out) = n /\ n = size
  <2> SUFFICES ASSUME ~(blank > 0) PROVE Len(out) = n /\ n = size
    OBVIOUS
  <2>1. n \in Nat /\ size \in Nat /\ n <= size
    BY <1>1, <1>2
  <2>2. Len(out) = n + 0
    BY <1>5
  <2> HIDE DEF n, size
  <2> QED
    BY <2>1, <2>2 DEF blank
<1>13. \A i \in DOMAIN out \ DOMAIN exprs : out[i].val = Number(0)
  <2> SUFFICES ASSUME NEW i \in DOMAIN out \ DOMAIN exprs PROVE out[i].val = Number(0)
    OBVIOUS
  <2>1. i = n + 1 /\ blank > 0
    BY <1>2, <1>5, <1>10
  <2> QED
    BY <1>5, <2>1, DirectiveFields
<1>14. CASE \A i \in 1..n : out[i].bytes = b
  <2>1. \A i \in 0..n : Start[i + 1] = i * b
    BY <1>8, <1>10, <1>14, EvenSteps
  <2>2. \A i \in 1..n : Start[i] = (i - 1) * b
    <3>1. \A i \in 1..n : i - 1 \in 0..n /\ (i - 1) + 1 = i
      BY <1>2
    <3> QED
      BY <2>1, <3>1
  <2>3. Start[n + 1] = n * b
    BY <1>2, <2>1
  <2>4. Start[Len(out) + 1] = size * b
    <3>1. CASE blank > 0
      <4>1. n * b + blank * b = size * b
        BY <1>2, <1>8
      <4> QED
        BY <1>11, <2>3, <3>1, <4>1
    <3>2. CASE ~(blank > 0)
      BY <1>12, <2>3, <3>2
    <3> QED
      BY <3>1, <3>2
  <2>5. size * b >= size * b
    BY <1>2, <1>8
  <2> QED
    BY <1>2, <1>7, <1>9, <1>13, <2>2, <2>4, <2>5 DEF ReadsAs
<1>15. CASE n = 1 /\ et = CharT /\ out[1].bytes = 4
  <2>1. b = 1
    BY <1>15, SizeFacts
  <2>2. Start[1] = 0 /\ Start[1 + 1] = 0 + 4
    BY <1>10, <1>15, StartSteps
  <2>3. Start[1] = (1 - 1) * b /\ Start[2] = 4
    BY <2>1, <2>2
  <2>4. Start[Len(out) + 1] >= size * b
    <3>1. CASE blank > 0
      BY <1>2, <1>11, <1>15, <2>1, <2>3, <3>1
    <3>2. CASE ~(blank > 0)
      <4>1. Len(out) = 1 /\ size = 1
        BY <1>12, <1>15, <3>2, Zenon
      <4>2. Start[Len(out) + 1] = 4 /\ size * b = 1
        BY <2>1, <2>3, <4>1
      <4> QED
        BY <4>2
    <3> QED
      BY <3>1, <3>2
  <2>5. \A i \in 1..n : ReadsAs(et, exprs[i], i)
    <3> SUFFICES ReadsAs(et, exprs[1], 1)
      BY <1>15
    <3> QED
      BY <1>7, <1>15, <2>3 DEF ReadsAs
  <2> QED
    BY <1>2, <1>9, <1>13, <2>4, <2>5
<1> QED
  BY <1>7, <1>14, <1>15

\* A string begins at the label, its rest and its zeros fill the array.
LEMMA StringReadsBack ==
  ASSUME IInv, phase = "emitted", ValidString
  PROVE  /\ out[1].val = At(exprs[1].raw.name, 0)
         /\ \A i \in DOMAIN out \ {1} : out[i].val = Number(0)
         /\ Start[Len(out) + 1] >= target.array_size
<1> DEFINE e == exprs[1]
           x == e.raw.name
           len == StringLen[x]
           size == target.array_size
           text == [bytes |-> len + 1, val |-> At(x, 0)]
           zeros == Zero(size - len)
<1>12. 1 \in DOMAIN exprs /\ Len(exprs) = 1 /\ target.ptr_to = CharT
  BY LenProperties DEF IInv, ValidString
<1>2. ExprOK(e)
  BY <1>12, EmittedSound
<1>13. ~list
  <2> SUFFICES ASSUME list PROVE FALSE
    OBVIOUS
  <2>1. is_pointer_compat(e.raw.type) /\ e.means.known
    BY <1>2 DEF ExprOK, ValidString
  <2>2. ~assignable(CharT, e.raw.type)
    <3>1. is_integer(CharT) /\ ~is_pointer_compat(CharT) /\ ~is_integer(e.raw.type)
      BY <2>1, TypesApart
    <3> QED
      BY <3>1 DEF assignable
  <2>3. assignable(target.ptr_to, e.raw.type)
    BY <1>12 DEF IInv, EmittedOK
  <2> QED
    BY <1>12, <2>2, <2>3
<1>1. /\ target.ty = "ARRAY" /\ ~list /\ e.raw.kind = "STRING" /\ target \in Targets
      /\ out = gen_const(target, e.folded) /\ Len(exprs) = 1
  BY <1>13 DEF IInv, EmittedOK, ValidString
<1>3. e.raw = e.folded /\ is_pointer_compat(e.raw.type) /\ Root(e.folded) = e.folded
  BY <1>1, <1>2 DEF ExprOK, IsSum, Root
<1>4. x \in DOMAIN StringLen
  BY <1>1, <1>2, <1>3 DEF ExprOK, PtrOK, NameOK
<1>5. len \in Nat /\ size \in Nat
  BY <1>1, <1>4, ConstAssumption
<1>6. text.val = At(x, 0) /\ text.bytes = len + 1
  OBVIOUS
<1>7. zeros.val = Number(0) /\ zeros.bytes = size - len
  BY DirectiveFields
<1>8. gen_const(target, e.folded) = ConstString(target, e.raw)
  BY <1>1, <1>3 DEF gen_const, IsSum
<1>9. ConstString(target, e.raw) = IF len + 1 < size THEN <<text, zeros>> ELSE <<text>>
  BY <1>1 DEF ConstString
<1> HIDE DEF e, x, text, zeros
<1>10. CASE len + 1 < size
  <2>1. out = <<text, zeros>>
    BY <1>1, <1>8, <1>9, <1>10
  <2>2. Len(out) = 2 /\ DOMAIN out = {1, 2} /\ out[1] = text /\ out[2] = zeros
    <3>1. /\ Len(<<text, zeros>>) = 2 /\ DOMAIN <<text, zeros>> = 1..2
          /\ <<text, zeros>>[1] = text /\ <<text, zeros>>[2] = zeros
      OBVIOUS
    <3>2. 1..2 = {1, 2}
      OBVIOUS
    <3> QED
      BY <2>1, <3>1, <3>2
  <2>3. Start[1] = 0 /\ Start[1 + 1] = Start[1] + out[1].bytes
                    /\ Start[2 + 1] = Start[2] + out[2].bytes
    <3>1. Len(out) \in Nat /\ 1 \in 1..Len(out) /\ 2 \in 1..Len(out)
      BY <2>2
    <3> QED
      BY <3>1, StartSteps
  <2>4. Start[3] = 0 + (len + 1) + (size - len)
    BY <1>6, <1>7, <2>2, <2>3
  <2>5. 0 + (len + 1) + (size - len) >= size
    BY <1>5
  <2> QED
    BY <1>6, <1>7, <2>2, <2>4, <2>5 DEF x, e
<1>11. CASE ~(len + 1 < size)
  <2>1. out = <<text>>
    BY <1>1, <1>8, <1>9, <1>11
  <2>2. Len(out) = 1 /\ DOMAIN out = {1} /\ out[1] = text
    <3>1. Len(<<text>>) = 1 /\ DOMAIN <<text>> = 1..1 /\ <<text>>[1] = text
      OBVIOUS
    <3>2. 1..1 = {1}
      OBVIOUS
    <3> QED
      BY <2>1, <3>1, <3>2
  <2>3. Start[1] = 0 /\ Start[1 + 1] = Start[1] + out[1].bytes
    <3>1. Len(out) \in Nat /\ 1 \in 1..Len(out)
      BY <2>2
    <3> QED
      BY <3>1, StartSteps
  <2>4. Start[2] = 0 + (len + 1)
    BY <1>6, <2>2, <2>3
  <2>5. 0 + (len + 1) >= size
    BY <1>5, <1>11
  <2> QED
    BY <1>6, <2>2, <2>4, <2>5 DEF x, e
<1> QED
  BY <1>10, <1>11

-----------------------------------------------------------------------------
(* Theorems.                                                               *)

\* Every expression read so far is folded to a number or to a name and a number.
THEOREM Invariance == Spec => []IInv
<1> QED
  BY InitIInv, StepIInv, PTL DEF Spec

\* gen_const_calc keeps the value of every constant expression, however it is
\* nested, but for a number taken off a pointer sum.
THEOREM FoldingKeepsValue == Spec => []FoldsAsC
<1>1. IInv => FoldsAsC
  <2> SUFFICES ASSUME IInv, NEW i \in DOMAIN exprs,
                      exprs[i].means.known, ~exprs[i].reversed, exprs[i].errors = {}
               PROVE  Value(exprs[i].folded) = exprs[i].means
    BY DEF FoldsAsC
  <2>1. ExprOK(exprs[i])
    BY DEF IInv, Sound
  <2> QED
    BY <2>1, ValueKept
<1> QED
  BY <1>1, Invariance, PTL

\* sema_const and gen_const refuse no constant initialiser of C but those named in
\* RefusesOnly, among them all that sema_const_aux does not know, and let nothing
\* through that is none of C but what LetThrough names.
THEOREM TakesConstantsOfC == Spec => []AcceptsConstants
<1>1. IInv => AcceptsConstants
  BY DEF IInv
<1> QED
  BY <1>1, Invariance, PTL

\* The data section gen_const prints for a constant initialiser of C holds what C
\* promises: the elements at their places, the rest zero, strings from their first byte.
THEOREM DataHoldsValues == Spec => []DataAsC
<1>1. IInv => ReadsBack
  <2> SUFFICES ASSUME IInv, phase = "emitted", ValidC, ~ValidString,
                      \A i \in DOMAIN exprs : /\ NumberFits(Elem, exprs[i])
                                              /\ ~exprs[i].reversed
                                              /\ list => Flat(exprs[i].raw)
               PROVE  /\ \A i \in DOMAIN exprs : ReadsAs(Elem, exprs[i], i)
                      /\ \A i \in DOMAIN out \ DOMAIN exprs : out[i].val = Number(0)
                      /\ Start[Len(out) + 1] >= type_size(target)
    BY DEF ReadsBack
  <2>1. CASE list
    <3>1. target.ty = "ARRAY" /\ Elem = target.ptr_to
      BY <2>1 DEF Elem, IInv, EmittedOK
    <3>2. ~ValidFor(target, exprs[1])
      BY <3>1 DEF ValidFor, is_integer
    <3>3. \A i \in DOMAIN exprs : ValidFor(target.ptr_to, exprs[i])
      BY <2>1, <3>2 DEF ValidC
    <3> QED
      BY <2>1, <3>1, <3>3, ListReadsBack
  <2>2. CASE ~list
    <3>1. ValidFor(target, exprs[1]) /\ Elem = target
      BY <2>2 DEF ValidC, Elem
    <3>2. 1 \in DOMAIN exprs
      BY <2>2, LenProperties DEF IInv, EmittedOK
    <3>3. /\ ReadsAs(target, exprs[1], 1) /\ DOMAIN exprs = {1} /\ DOMAIN out = {1}
          /\ Start[Len(out) + 1] >= type_size(target)
      BY <2>2, <3>1, <3>2, ScalarReadsBack
    <3> QED
      BY <2>2, <3>1, <3>3
  <2> QED
    BY <2>1, <2>2
<1>2. IInv => StringFillsArray
  BY StringReadsBack DEF StringFillsArray
<1> QED
  BY <1>1, <1>2, Invariance, PTL DEF DataAsC

=============================================================================
