------------------------------ MODULE ConstInit ------------------------------
(***************************************************************************)
(* The initialiser of a global variable, from the parsed expression to the *)
(* bytes of the data section: sema_const types it, gen_const_calc folds it *)
(* in place, gen_const emits it.                                           *)
(*                                                                         *)
(* A behaviour writes down one initialiser.  Its expressions are built     *)
(* from their leaves upwards, the order in which sema_const_aux and        *)
(* gen_const_calc return from their operands; every expression on the      *)
(* stack carries its node as sema_const left it (raw), as gen_const_calc   *)
(* leaves it (folded), and what C says it is (means).  Then the target is  *)
(* chosen: a scalar or a string takes the only expression, a list takes    *)
(* them all as elements, and gen_const sees those unfolded, because        *)
(* gen_const_calc does not look into an ND_ARRAY.  An expression in which  *)
(* sema_const_aux ends the compiler is written down to its end all the     *)
(* same, as the parser has read it before; the initialiser is refused.     *)
(***************************************************************************)
EXTENDS CTypes, Sequences

CONSTANTS
  VarType,      \* the global variables declared before, with their types
  ExternType,   \* those global_env lacks, extern or not put there yet
  EnumValue,    \* the enumerators, with their values
  StringLen,    \* the string literals, with their lengths
  Numbers,      \* the number literals
  Targets,      \* the types of the variable that is initialised
  MaxLeaves,    \* bound: leaves of the whole initialiser
  MaxShift      \* bound: shift counts, so that numbers stay in 32 bits

\* Objects and literals have sizes, and numbers are numbers, shifted ones too.
ASSUME ConstAssumption ==
  /\ \A x \in DOMAIN VarType :
       /\ type_size(VarType[x]) \in Nat
       /\ is_pointer_compat(VarType[x]) => type_size(VarType[x].ptr_to) \in Nat
  /\ \A x \in DOMAIN ExternType : type_size(ExternType[x]) \in Nat
  /\ \A x \in DOMAIN EnumValue : EnumValue[x] \in Int
  /\ \A s \in DOMAIN StringLen : StringLen[s] \in Nat
  /\ \A t \in Targets : t.ty = "ARRAY" => t.array_size \in Nat
  /\ Numbers \subseteq Int
  /\ \A n \in 0..MaxShift : 2^n \in Nat

VARIABLES
  exprs,   \* the expressions read so far, innermost operands first
  leaves,  \* how many leaves they have
  target,  \* the type of the global variable, once it is chosen
  list,    \* whether the initialiser is a list in braces
  out,     \* the data directives gen_const printed
  phase    \* "reading", "emitted" or "refused"

vars == <<exprs, leaves, target, list, out, phase>>

-----------------------------------------------------------------------------
(* Nodes: a leaf has no parts; an ND_ADDR carries the name of its operand. *)

\* The names that global_env holds.
Globals == DOMAIN VarType \cup DOMAIN EnumValue

Leaf(kind, type, val, name) ==
  [kind |-> kind, type |-> type, val |-> val, name |-> name, parts |-> <<>>]
Op(kind, type, l, r) ==
  [kind |-> kind, type |-> type, val |-> 0, name |-> "(null)", parts |-> <<l, r>>]
lhs(n) == n.parts[1]
rhs(n) == n.parts[2]

mknum(n) == Leaf("NUM", IntT, n, "(null)")
IsSum(n) == n.kind \in {"ADD", "SUB"}

\* The meaning of a constant: a number (base ""), or the address of a named
\* object and a distance in bytes; unknown when it depends on a variable.
Number(n) == [known |-> TRUE, base |-> "", off |-> n]
At(name, bytes) == [known |-> TRUE, base |-> name, off |-> bytes]
Unknown(base) == [known |-> FALSE, base |-> base, off |-> 0]

\* An expression: reversed marks that somewhere in it a difference is taken
\* of a pointer sum, the one case gen_const_calc folds the wrong way round;
\* errors are the errors sema_const_aux finds in it.
Expr(raw, folded, means, reversed, errors) ==
  [raw |-> raw, folded |-> folded, means |-> means, reversed |-> reversed,
   errors |-> errors]
LeafExpr(node, means) == Expr(node, node, means, FALSE, {})

\* Nothing looks into an expression with an error.
Refused(type, means, errors) ==
  LET node == Leaf("OTHER", type, 0, "(null)")
  IN  Expr(node, node, means, FALSE, errors)

-----------------------------------------------------------------------------
(* sema_const_aux: the type of an operator's node, {} when it is an error *)

TypesOf(kind, lt, rt) ==
  CASE is_integer(lt) /\ is_integer(rt) -> {binary_int_op_result(lt, rt)}
    [] kind = "ADD" /\ is_pointer_compat(lt) /\ is_integer(rt) -> {lt}
    [] kind = "ADD" /\ is_integer(lt) /\ is_pointer_compat(rt) -> {rt}
    [] kind = "SUB" /\ is_pointer_compat(lt) /\ is_integer(rt) -> {lt}
    [] kind = "SUB" /\ is_pointer_compat(lt) /\ is_pointer_compat(rt) -> {IntT}
    [] OTHER -> {}

-----------------------------------------------------------------------------
(* gen_const_calc *)

add_or_sub(kind, a, b) == IF kind = "ADD" THEN a + b ELSE a - b

FoldInts(kind, l, r) ==
  Leaf("NUM", binary_int_op_result(l.type, r.type),
       IF kind = "LSH" THEN l.val * 2^r.val ELSE add_or_sub(kind, l.val, r.val),
       "(null)")

\* Mutant: The outer sign is applied to the inner number of p - 1 + 2.
FoldSumOuter(kind, type, l, r) ==
  CASE IsSum(l) -> Op(kind, type, lhs(l), mknum(add_or_sub(kind, rhs(l).val, r.val)))
    [] OTHER -> Op(kind, type, l, r)

\* The inner sum's operator goes into its constant, the outer one stays.
FoldSum(kind, type, l, r) ==
  CASE l.kind = "ADD" ->
         Op(kind, type, lhs(l), mknum(add_or_sub(kind, rhs(l).val, r.val)))
    [] l.kind = "SUB" ->
         Op(kind, type, lhs(l), mknum(add_or_sub(kind, -rhs(l).val, r.val)))
    [] OTHER -> Op(kind, type, l, r)

gen_const_calc(kind, type, l, r) ==
  IF is_integer(l.type) /\ is_integer(r.type) THEN FoldInts(kind, l, r)
  ELSE IF kind = "ADD" /\ is_pointer_compat(r.type) THEN FoldSum(kind, type, r, l)
  ELSE FoldSum(kind, type, l, r)

-----------------------------------------------------------------------------
(* gen_const: the directives it prints, as [bytes, val]; <<>> is an error. *)
(* The symbol of an ND_ADD or ND_SUB is the name of its left operand, or   *)
(* of what that is the address of; it must be an array or an address.      *)

Long(n) == [bytes |-> 4, val |-> Number(n)]
Quad(means) == [bytes |-> 8, val |-> means]
Zero(n) == [bytes |-> n, val |-> Number(0)]

\* Mutant: Any left operand is taken for a constant address.
ConstSumAny(n) ==
  LET off == rhs(n).val * type_size(lhs(n).type.ptr_to)
  IN  IF is_pointer_compat(lhs(n).type)
      THEN <<Quad(At(lhs(n).name, IF n.kind = "ADD" THEN off ELSE -off))>>
      ELSE <<>>

ConstSum(n) ==
  LET size == type_size(lhs(n).type.ptr_to)
      off  == rhs(n).val * size
  IN  IF lhs(n).type.ty = "ARRAY" \/ lhs(n).kind = "ADDR"
      THEN <<Quad(At(lhs(n).name, IF n.kind = "ADD" THEN off ELSE -off))>>
      ELSE <<>>

ConstString(typ, n) ==
  IF typ.ty = "PTR" THEN <<Quad(At(n.name, 0))>>
  ELSE IF typ.ty = "ARRAY"
  THEN LET len  == StringLen[n.name]
           text == [bytes |-> len + 1, val |-> At(n.name, 0)]
       IN  IF len + 1 < typ.array_size
           THEN <<text, Zero(typ.array_size - len)>>
           ELSE <<text>>
  ELSE <<>>

gen_const(typ, n) ==
  CASE n.kind = "NUM" -> <<Long(n.val)>>
    [] n.kind = "ADDR" -> <<Quad(At(n.name, 0))>>
    [] n.kind = "GVAR" /\ n.type = EnumT ->
         IF n.name \in DOMAIN EnumValue THEN <<Long(EnumValue[n.name])>> ELSE <<>>
    [] n.kind = "GVAR" /\ n.type # EnumT -> <<Quad(At(n.name, 0))>>
    [] n.kind = "STRING" -> ConstString(typ, n)
    [] IsSum(n) -> ConstSum(n)
    [] OTHER -> <<>>

\* Mutant: The rest of the array is counted in elements, not in bytes.
ArrayRestInElements(typ, elems) ==
  LET each  == [i \in 1..Len(elems) |-> gen_const(typ.ptr_to, elems[i])]
      blank == typ.array_size - Len(elems)
  IN  IF \E i \in DOMAIN each : each[i] = <<>> THEN <<>>
      ELSE [i \in DOMAIN each |-> each[i][1]]
           \o IF blank > 0 THEN <<Zero(blank)>> ELSE <<>>

\* The elements one after the other, then zeros for the rest of the array.
gen_const_array(typ, elems) ==
  LET each  == [i \in 1..Len(elems) |-> gen_const(typ.ptr_to, elems[i])]
      blank == typ.array_size - Len(elems)
  IN  IF \E i \in DOMAIN each : each[i] = <<>> THEN <<>>
      ELSE [i \in DOMAIN each |-> each[i][1]]
           \o IF blank > 0 THEN <<Zero(blank * type_size(typ.ptr_to))>> ELSE <<>>

-----------------------------------------------------------------------------
(* What C says of an operator's value; sizes are those of ccatd's types. *)

CValue(kind, l, r) ==
  LET a == l.means
      b == r.means
      pa == is_pointer_compat(l.raw.type)
      pb == is_pointer_compat(r.raw.type)
      base == IF pa THEN a.base ELSE IF pb THEN b.base ELSE ""
      step(e) == type_size(e.raw.type.ptr_to)
  IN  IF \/ TypesOf(kind, l.raw.type, r.raw.type) = {}
         \/ pa /\ pb
         \/ ~a.known \/ ~b.known
      THEN Unknown(base)
      ELSE IF kind = "LSH" THEN Number(a.off * 2^b.off)
      ELSE IF pb THEN At(base, b.off + a.off * step(r))
      ELSE LET k == IF pa THEN b.off * step(l) ELSE b.off
           IN  [known |-> TRUE, base |-> base,
                off |-> IF kind = "ADD" THEN a.off + k ELSE a.off - k]

-----------------------------------------------------------------------------
Init == /\ exprs = <<>> /\ leaves = 0 /\ out = <<>>
        /\ target = IntT /\ list = FALSE /\ phase = "reading"

Push(e) == /\ phase = "reading" /\ leaves < MaxLeaves
           /\ exprs' = Append(exprs, e)
           /\ leaves' = leaves + 1
           /\ UNCHANGED <<target, list, out, phase>>

Num == \E n \in Numbers : Push(LeafExpr(mknum(n), Number(n)))

Str == \E s \in DOMAIN StringLen :
         Push(LeafExpr(Leaf("STRING", ptr_of(CharT), 0, s), At(s, 0)))

\* A variable is resolved to its entry, whose val is 0; C knows the value of
\* an array's name only.
Variable ==
  \E x \in DOMAIN VarType :
    Push(LeafExpr(Leaf("GVAR", VarType[x], 0, x),
                  IF VarType[x].ty = "ARRAY" THEN At(x, 0) ELSE Unknown("")))

Enumerator ==
  \E x \in DOMAIN EnumValue :
    Push(LeafExpr(Leaf("GVAR", EnumT, EnumValue[x], x), Number(EnumValue[x])))

Address ==
  \E x \in DOMAIN VarType :
    Push(LeafExpr(Leaf("ADDR", ptr_of(VarType[x]), 0, x), At(x, 0)))

\* The address of an enumerator is no constant of C, but has a name here.
EnumeratorAddress ==
  \E x \in DOMAIN EnumValue :
    Push(LeafExpr(Leaf("ADDR", ptr_of(EnumT), 0, x), Unknown(x)))

\* A variable that is not in global_env, by its name or its address.
Undefined ==
  \E x \in DOMAIN ExternType :
    LET t == ExternType[x]
        content == IF t.ty = "ARRAY" THEN At(x, 0) ELSE Unknown("")
    IN  \/ Push(Refused(t, content, {"undefined variable"}))
        \/ Push(Refused(ptr_of(t), At(x, 0), {"undefined variable"}))

\* &a[n], or the address of anything else that is not a name.
ElementAddress ==
  \E x \in DOMAIN VarType, n \in Numbers :
    LET t == VarType[x]
        place == IF t.ty = "ARRAY" THEN At(x, n * type_size(t.ptr_to)) ELSE Unknown("")
    IN  is_pointer_compat(t) /\ Push(Refused(ptr_of(t.ptr_to), place, {"left value"}))

\* A kind of node that sema_const_aux does not know, 'a', 2 * 3, ~0, a cast, a
\* sizeof or a call: of a number, of a null pointer, or no constant in C either.
Other ==
  \E t \in {IntT, ptr_of(CharT)} :
  \E m \in {Number(n) : n \in Numbers} \cup {Unknown("")} :
    Push(Refused(t, m, {"expression"}))

\* A negative shift count is undefined when the compiler itself shifts by it.
Apply(kind) ==
  /\ phase = "reading" /\ Len(exprs) >= 2
  /\ LET n == Len(exprs)
         l == exprs[n - 1]
         r == exprs[n]
         types == TypesOf(kind, l.raw.type, r.raw.type)
         errors == l.errors \cup r.errors \cup IF types = {} THEN {"operands"} ELSE {}
         means == CValue(kind, l, r)
         reversed == kind = "SUB" /\ IsSum(l.raw) /\ is_pointer_compat(l.raw.type)
     IN  /\ kind = "LSH" => {r.folded.val, r.means.off} \subseteq 0..MaxShift
         /\ \E t \in IF types = {} THEN {l.raw.type} ELSE types :
              exprs' = Append(SubSeq(exprs, 1, n - 2),
                IF errors # {} THEN Refused(t, means, errors)
                ELSE Expr(Op(kind, t, l.raw, r.raw),
                          gen_const_calc(kind, t, l.folded, r.folded),
                          means, l.reversed \/ r.reversed \/ reversed, {}))
  /\ UNCHANGED <<leaves, target, list, out, phase>>

Emit(directives) == /\ out' = directives
                    /\ phase' = IF directives = <<>> THEN "refused" ELSE "emitted"

\* int x = e;  int *p = e;  char s[3] = "..";
Scalar ==
  /\ phase = "reading" /\ Len(exprs) = 1
  /\ \E t \in Targets :
       /\ target' = t
       /\ IF exprs[1].errors = {} /\ assignable(t, exprs[1].raw.type)
          THEN Emit(gen_const(t, exprs[1].folded))
          ELSE phase' = "refused" /\ UNCHANGED out
  /\ UNCHANGED <<exprs, leaves, list>>

\* int a[n] = { e, .. };  every list is too long for a type without elements.
List ==
  /\ phase = "reading" /\ exprs # <<>>
  /\ \E t \in Targets :
       /\ target' = t /\ list' = TRUE
       /\ IF /\ t.ty = "ARRAY" /\ Len(exprs) <= t.array_size
             /\ \A i \in DOMAIN exprs : /\ exprs[i].errors = {}
                                        /\ assignable(t.ptr_to, exprs[i].raw.type)
          THEN Emit(gen_const_array(t, [i \in DOMAIN exprs |-> exprs[i].raw]))
          ELSE phase' = "refused" /\ UNCHANGED out
  /\ UNCHANGED <<exprs, leaves>>

Stop == phase # "reading" /\ UNCHANGED vars

Next == \/ Num \/ Str \/ Variable \/ Enumerator \/ Address
        \/ EnumeratorAddress \/ Undefined \/ ElementAddress \/ Other
        \/ \E kind \in {"ADD", "SUB", "LSH"} : Apply(kind)
        \/ Scalar \/ List \/ Stop

Spec == Init /\ [][Next]_vars

-----------------------------------------------------------------------------
(* Properties *)

\* The value gen_const_calc's result stands for, by its shape.
Value(n) ==
  CASE n.kind = "NUM" -> Number(n.val)
    [] n.kind = "GVAR" /\ n.type = EnumT -> Number(n.val)
    [] n.kind \in {"STRING", "ADDR", "GVAR"} /\ n.type # EnumT -> At(n.name, 0)
    [] IsSum(n) ->
         LET k == rhs(n).val * type_size(lhs(n).type.ptr_to)
         IN  IF IsSum(lhs(n)) THEN Unknown("")
             ELSE At(lhs(n).name, IF n.kind = "ADD" THEN k ELSE -k)

\* Folding keeps the value, however the sums are nested and whichever side
\* the pointer is on, and leaves a pointer sum flat, a name and one number;
\* the exception is a number taken off a pointer sum, p + 2 - 1, where the
\* outer sign is applied to the inner number too (gen_const_calc).
FoldsAsC ==
  \A i \in DOMAIN exprs :
    exprs[i].means.known /\ ~exprs[i].reversed /\ exprs[i].errors = {}
      => Value(exprs[i].folded) = exprs[i].means

\* C takes e as the initialiser of an object of type t.
ValidFor(t, e) ==
  /\ e.means.known
  /\ IF is_integer(t) THEN is_integer(e.raw.type)
     ELSE t.ty = "PTR" /\ (is_pointer_compat(e.raw.type) \/ e.means = Number(0))

\* A string literal, braces around it or not, for an array of chars it fits.
ValidString == /\ target.ty = "ARRAY" /\ target.ptr_to = CharT /\ Len(exprs) = 1
               /\ exprs[1].raw.kind = "STRING"
               /\ StringLen[exprs[1].raw.name] <= target.array_size

\* A constant initialiser of C; a scalar's may have braces, too.
ValidC == \/ /\ list /\ target.ty = "ARRAY" /\ Len(exprs) <= target.array_size
             /\ \A i \in DOMAIN exprs : ValidFor(target.ptr_to, exprs[i])
          \/ Len(exprs) = 1 /\ ValidFor(target, exprs[1])
          \/ ValidString

\* The type of the object an expression initialises.
Elem == IF list THEN target.ptr_to ELSE target

\* A list element gen_const can take as it stands, since nobody folds it.
Flat(n) == \/ n.parts = <<>>
           \/ IsSum(n) /\ lhs(n).parts = <<>> /\ rhs(n).parts = <<>>

\* Where directive i begins, counted from the variable's label.
Start == LET at[i \in 1..Len(out) + 1] ==
               IF i = 1 THEN 0 ELSE at[i - 1] + out[i - 1].bytes
         IN  at

\* gen_const writes every number as .long: too short for a pointer, too long
\* for a char that another one follows.
NumberFits(t, e) ==
  is_integer(e.raw.type) => t = IntT \/ (t = CharT /\ Len(exprs) = 1)

ReadsAs(t, e, i) == out[i].val = e.means /\ Start[i] = (i - 1) * type_size(t)

\* What the program reads from a global variable before its first assignment
\* is what C promises: every element at its place, the rest of an array
\* zero, no object shorter than its type.  Exceptions: a number for a pointer
\* (int *p = 0 gets 4 of 8 bytes) and several numbers for chars, a difference
\* of a pointer sum, and in a list any sum of more than a name and a number.
ReadsBack ==
  phase = "emitted" /\ ValidC /\ ~ValidString
  /\ (\A i \in DOMAIN exprs : /\ NumberFits(Elem, exprs[i]) /\ ~exprs[i].reversed
                              /\ list => Flat(exprs[i].raw))
    => /\ \A i \in DOMAIN exprs : ReadsAs(Elem, exprs[i], i)
       /\ \A i \in DOMAIN out \ DOMAIN exprs : out[i].val = Number(0)
       /\ Start[Len(out) + 1] >= type_size(target)

\* A char array initialised by a string holds it from its first byte on and
\* is as long as its type, the zero that ends the string included (gen_const
\* writes one byte more than that when it pads; nothing reads it).
StringFillsArray ==
  phase = "emitted" /\ ValidString =>
    /\ out[1].val = At(exprs[1].raw.name, 0)
    /\ \A i \in DOMAIN out \ {1} : out[i].val = Number(0)
    /\ Start[Len(out) + 1] >= target.array_size

\* A constant initialiser of C is refused only when it has braces around a
\* scalar's value or a string, a variable that is not in global_env, the
\* address of something other than a name, an expression sema_const_aux does
\* not know, an enumerator of value zero for a pointer, a string and a number,
\* or a list element that is an operator other than a sum with an array or an
\* address on its left.  Pointers are told apart from integers, not by what
\* they point to; arrays have one dimension.
RefusesOnly ==
  phase = "refused" /\ ValidC =>
    \/ list /\ (target.ty # "ARRAY" \/ ValidString)
    \/ \E i \in DOMAIN exprs :
         LET e == exprs[i]
             n == exprs[i].raw IN
         \/ e.errors # {} /\ "operands" \notin e.errors
         \/ n.type = EnumT /\ Elem.ty = "PTR"
         \/ /\ n.parts # <<>>
            /\ \/ e.means.base \in DOMAIN StringLen
               \/ list /\ ~(IsSum(n) /\ is_pointer_compat(lhs(n).type) /\ lhs(n).parts = <<>>)

\* A pointer sum that gets through is one of a constant address: never of a
\* pointer variable, whose own address gen_const would print for its
\* contents, and never of a string literal, alone or in a list.
SumsOfAddressesOnly ==
  phase = "emitted" =>
    \A i \in DOMAIN exprs :
      LET n == exprs[i].raw IN
      IsSum(n) /\ is_pointer_compat(n.type) => exprs[i].means.base \in Globals

\* What gen_const takes for an object of type t though C does not: anything
\* for an array, a variable's own name (int *q = p; gets the address of p), an
\* integer for a pointer, an integer with a variable or a difference of
\* pointers in it, and a sum of an address and such an integer.
LetThrough(t, e) ==
  \/ t.ty = "ARRAY"
  \/ is_integer(e.raw.type) /\ (t.ty = "PTR" \/ ~e.means.known)
  \/ /\ t.ty = "PTR" /\ ~e.means.known
     /\ e.raw.kind = "GVAR" \/ e.means.base \in Globals

\* What gets through is a constant initialiser of C, or one of those above in
\* every place that is not: never a pointer for an integer, a longer list, or
\* what has an error in it.
TakesOnly ==
  phase = "emitted" =>
    /\ list => target.ty = "ARRAY" /\ Len(exprs) <= target.array_size
    /\ \A i \in DOMAIN exprs :
         /\ exprs[i].errors = {}
         /\ ValidString \/ ValidFor(Elem, exprs[i]) \/ LetThrough(Elem, exprs[i])

\* The data section holds what C promises, for numbers and addresses as for strings.
DataAsC == ReadsBack /\ StringFillsArray

\* ccatd refuses no constant initialiser of C but those named in RefusesOnly,
\* and takes nothing else but what LetThrough names.
AcceptsConstants == RefusesOnly /\ SumsOfAddressesOnly /\ TakesOnly
=============================================================================
