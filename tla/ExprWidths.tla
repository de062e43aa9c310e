----------------------------- MODULE ExprWidths -----------------------------
(***************************************************************************)
(* How much of a register or stack word the generated code may rely on.    *)
(*                                                                         *)
(* gen_expr leaves a value twice, in rax and in the word it pushes, and    *)
(* writes both with the registers of the value's type, so that the upper   *)
(* bytes are those of something else.  A behaviour generates code for one  *)
(* expression from its operands upwards, in the order of gen_expr, and     *)
(* then uses it: in an operator, a declaration, a call, a test.  An        *)
(* expression is no more than its type and how many low bytes of its two   *)
(* words are sure to be those of its value, sign-extended.  Where code     *)
(* reads more bytes than that, it reads garbage: the behaviour ends there, *)
(* in phase "misread", with the place and the operands in fault.           *)
(*                                                                         *)
(* The programs generated for are right in C up to what type_size and      *)
(* sema_expr distinguish; structures appear by their attributes only.      *)
(***************************************************************************)
EXTENDS CTypes, Sequences, SequencesExt

CONSTANTS
  VarTypes,   \* types of variables and attributes
  Targets,    \* types that casts, parameters and functions have
  MaxStack    \* bound: expressions generated and not used yet

VARIABLES exprs, phase, fault

vars == <<exprs, phase, fault>>

-----------------------------------------------------------------------------
(* Words.  ok: how many low bytes are the value's; clear: bytes 4 to 7 are *)
(* zero, which is what a 32-bit register write leaves.                     *)

Sizes == {1, 4, 8}
Word(ok, clear) == [ok |-> ok, clear |-> clear]
Natural == Word(8, TRUE)       \* a non-negative int, complete
Address == Word(8, FALSE)

\* A word whose low n bytes are written; a write to eax clears the others,
\* one to al or to memory leaves them.
ToMemory(old, n) == IF n = 8 THEN Address ELSE Word(n, old.clear)
ToRegister(old, n) == IF n = 4 THEN Word(4, TRUE) ELSE ToMemory(old, n)

\* load_rax: movsx eax for a byte.
load_rax(n) == IF n = 1 THEN Word(4, TRUE) ELSE ToRegister(Address, n)

\* Mutant: the cbw and cwde of a char are left out.
ExtendIntsOnly(w, dst, src, own) ==
  IF dst <= src \/ dst # 8 \/ w = Natural THEN w
  ELSE IF w.ok >= 4 THEN Word(IF own = 8 THEN 4 ELSE 8, FALSE) ELSE w

\* extend_rax(dst, src) on a value that has own bytes: cbw and cwde extend
\* one byte to four, cdqe four bytes to eight, cutting an address short.
extend_rax(w, dst, src, own) ==
  IF dst <= src \/ w = Natural THEN w
  ELSE IF dst = 4 /\ w.ok >= 1 THEN Word(4, TRUE)
  ELSE IF dst = 8 /\ w.ok >= 4 THEN Word(IF own = 8 THEN 4 ELSE 8, FALSE)
  ELSE w

\* The bytes of both of two words.
Both(v, w) == Word(IF v.ok < w.ok THEN v.ok ELSE w.ok, v.clear /\ w.clear)

-----------------------------------------------------------------------------
(* Expressions.  truth: comparing rax with zero at the type's width tells  *)
(* whether the value is zero; rax is not the value of an && or ||, ok = 0. *)

size(t) == type_size(coerce_pointer(t))

Expr(type, rax, top, lval) ==
  [type |-> type, rax |-> rax, top |-> top, lval |-> lval,
   truth |-> rax.ok >= size(type)]
Value(type, rax, top) == Expr(type, rax, top, FALSE)

Types == VarTypes \cup Targets \cup {IntT, CharT, EnumT, ptr_of(CharT), ptr_of(VoidT)}
         \cup {ptr_of(t) : t \in VarTypes}
         \cup {ptr_of(t.ptr_to) : t \in {t \in VarTypes : t.ty = "ARRAY"}}

\* Variables are scalars or arrays of scalars, functions and casts have scalar
\* types, and what a pointer points to can be the type of an expression.
IsScalar(t) == t \in {IntT, CharT, EnumT} \/ t = ptr_of(t.ptr_to)
IsArray(t) == /\ t = array_of(t.ptr_to, t.array_size)
              /\ IsScalar(t.ptr_to) /\ t.array_size \in Nat \ {0}

ASSUME TypesAssumption ==
  /\ \A t \in VarTypes : IsScalar(t) \/ IsArray(t)
  /\ \A t \in Targets : IsScalar(t)
  /\ \A t \in VarTypes \cup Targets : is_pointer_compat(t) => t.ptr_to \in Types \cup {VoidT}

NoFault == [at |-> "", to |-> IntT, of |-> <<>>]

Init == exprs = <<>> /\ phase = "running" /\ fault = NoFault

\* The code for the n topmost expressions is followed by code that uses them
\* for a value of type t: rightly, and then e is what it leaves, or by reading
\* bytes they lack.
Operands(n) == SubSeq(exprs, Len(exprs) - n + 1, Len(exprs))
Fault(at, t, n) == [at |-> at, to |-> t, of |-> Operands(n)]

UseAs(t, n, right, e, at) ==
  /\ phase = "running"
  /\ \/ /\ right
        /\ exprs' = SubSeq(exprs, 1, Len(exprs) - n) \o e
        /\ UNCHANGED <<phase, fault>>
     \/ /\ ~right
        /\ phase' = "misread" /\ fault' = Fault(at, t, n) /\ exprs' = <<>>
Use(n, right, e, at) == UseAs(IntT, n, right, e, at)

Refuse(n, at) == /\ phase = "running" /\ phase' = "refused"
                 /\ fault' = Fault(at, IntT, n) /\ exprs' = <<>>

Push(e) == Len(exprs) < MaxStack /\ Use(0, TRUE, <<e>>, "leaf")

One == exprs[Len(exprs)]        \* the topmost expression
Left == exprs[Len(exprs) - 1]   \* the one below it
HasOne == phase = "running" /\ Len(exprs) >= 1
HasTwo == phase = "running" /\ Len(exprs) >= 2

-----------------------------------------------------------------------------
(* Leaves *)

Num == Push(Value(IntT, Natural, Natural))
Char == Push(Value(CharT, ToRegister(Address, 1), Natural))
Enumerator == Push(Value(EnumT, Natural, Natural))
String == Push(Value(ptr_of(CharT), Address, Address))

Loaded(t, w) == IF t.ty = "ARRAY" THEN Address ELSE w

Local == \E t \in VarTypes :
           LET w == Loaded(t, load_rax(size(t))) IN Push(Expr(t, w, w, TRUE))

Global == \E t \in VarTypes :
            LET w == Loaded(t, ToRegister(Address, size(t))) IN Push(Expr(t, w, w, TRUE))

Attribute ==
  \E t \in VarTypes :
    Push(Expr(t, Loaded(t, load_rax(size(t))), Loaded(t, ToMemory(Address, size(t))), TRUE))

\* What a call returns: rax as far as the return type goes.
CallResult == \E t \in {t \in Targets : t.ty # "ARRAY"} :
                LET w == ToMemory(Address, size(t)) IN Push(Value(t, w, w))

-----------------------------------------------------------------------------
(* Unary operators *)

AddrOf == /\ HasOne /\ One.lval
          /\ Use(1, TRUE, <<Value(ptr_of(One.type), Address, Address)>>, "ADDR")

\* A pointer to an array is dereferenced by loading what the array holds.
Deref ==
  /\ HasOne /\ is_pointer_compat(One.type)
  /\ LET t == One.type.ptr_to IN
     \/ t = VoidT /\ Refuse(1, "DEREF")
     \/ /\ t # VoidT
        /\ Use(1, One.rax.ok = 8 /\ t.ty # "ARRAY",
               <<Expr(t, load_rax(size(t)), ToMemory(One.top, size(t)), TRUE)>>, "DEREF")

\* The same words under another type.
Retyped(e, t) ==
  LET narrowed(w) == IF w.ok > size(t) THEN Word(size(t), w.clear) ELSE w
      narrower == size(t) < size(e.type)
      rax == IF narrower THEN narrowed(e.rax) ELSE e.rax
      top == IF narrower THEN narrowed(e.top) ELSE e.top
      same == size(t) = size(e.type)
  IN  [type |-> t, rax |-> rax, top |-> top, lval |-> FALSE,
       truth |-> IF same THEN e.truth ELSE rax.ok >= size(t)]
Kept(e) == e.top.ok >= size(e.type) /\ (e.rax.ok = 0 \/ e.rax.ok >= size(e.type))

Cast == \E t \in {t \in Targets : t.ty # "ARRAY"} :
          LET e == Retyped(One, t) IN
          /\ HasOne /\ assignable(t, One.type)
          /\ UseAs(t, 1, Kept(e), <<e>>, "CAST")

Not == /\ HasOne
       /\ Use(1, One.truth, <<Value(One.type, Natural, Natural)>>, "NEG")

Complement ==
  /\ HasOne /\ is_integer(One.type)
  /\ LET n == size(One.type) IN
     Use(1, One.rax.ok >= n,
         <<Value(One.type, ToRegister(One.rax, n), ToMemory(One.top, n))>>, "BCOMPL")

Incremented(t) ==
  Value(t, ToRegister(Address, size(t)), ToMemory(Address, size(t)))

\* A pointer moves by the size of what it points to, and void has none.
PreOrPost ==
  /\ HasOne /\ One.lval /\ One.type.ty # "ARRAY"
  /\ \/ One.type = ptr_of(VoidT) /\ Refuse(1, "INCR")
     \/ One.type # ptr_of(VoidT) /\ Use(1, TRUE, <<Incremented(One.type)>>, "INCR")

-----------------------------------------------------------------------------
(* Binary operators *)

Seq2 == HasTwo /\ Use(2, TRUE, <<[One EXCEPT !.lval = FALSE]>>, "SEQ")

\* The source size is that of the array itself where an array is assigned.
Assign ==
  /\ HasTwo /\ Left.lval /\ Left.type.ty # "ARRAY" /\ assignable(Left.type, One.type)
  /\ LET n == size(Left.type)
         w == extend_rax(One.top, n, type_size(One.type), size(One.type))
         rax == IF n < size(One.type) THEN Word(n, w.clear) ELSE w
     IN  Use(2, w.ok >= n, <<Value(Left.type, rax, ToMemory(Address, n))>>, "ASGN")

\* c ? l : r, after its test: either word, under the common type.
Conditional ==
  /\ HasTwo
  /\ \E t \in Types :
       /\ \/ is_integer(Left.type) /\ is_integer(One.type)
             /\ t = binary_int_op_result(Left.type, One.type)
          \/ is_pointer_compat(Left.type) /\ is_pointer_compat(One.type)
             /\ t = ptr_of(VoidT)
       /\ LET l == Retyped(Left, t)
              r == Retyped(One, t)
          IN  UseAs(t, 2, Kept(l) /\ Kept(r),
                    <<[l EXCEPT !.rax = Both(l.rax, r.rax), !.top = Both(l.top, r.top),
                                !.truth = l.truth /\ r.truth]>>, "COND")

\* A false operand stays on the stack as the result, zero; else 1 is pushed.
\* rax is left as the operand that decided has it, or as the word popped: as
\* an int it may differ from zero when that was a char or a pointer.
Zero(e) == IF e.top.ok = 8 THEN Natural ELSE e.top
Logical(popped, at) ==
  LET truth == /\ \A e \in {Left, One} : e.type.ty = "CHAR" => e.rax.ok >= 4
               /\ \A e \in popped : ~is_pointer(e.type)
      top == Both(Zero(Left), Zero(One))
  IN  /\ HasTwo /\ Left.type.ty # "ARRAY" /\ One.type.ty # "ARRAY"
      /\ Use(2, Left.truth /\ One.truth /\ top.ok >= 4,
             <<[type |-> IntT, rax |-> Word(0, FALSE), top |-> top, lval |-> FALSE,
                truth |-> truth]>>, at)

And == HasTwo /\ Logical({One}, "LAND")
Or == HasTwo /\ Logical({Left, One}, "LOR")

Shift ==
  /\ HasTwo /\ is_integer(Left.type) /\ is_integer(One.type)
  /\ \E assign \in BOOLEAN :
       LET n == size(Left.type)
           word == IF assign THEN Address ELSE Left.top
       IN  /\ assign => Left.lval
           /\ Use(2, One.top.ok >= 1 /\ (~assign => Left.top.ok >= n),
                  <<Value(Left.type, ToRegister(One.rax, n), ToMemory(word, n))>>, "SHIFT")

\* The type sema_expr_arith and sema_expr_assign find, {} for an error.
ArithTypes(kind, lt, rt, assign) ==
  CASE kind = "CMP" ->
         IF {lt.ty, rt.ty} \subseteq {"INT", "CHAR", "ENUM", "PTR"} THEN {IntT} ELSE {}
    [] kind # "CMP" /\ is_integer(lt) /\ is_integer(rt) ->
         {IF assign THEN lt ELSE binary_int_op_result(lt, rt)}
    [] kind = "ADD" /\ is_pointer_compat(lt) /\ is_integer(rt) -> {coerce_pointer(lt)}
    [] kind = "ADD" /\ is_integer(lt) /\ is_pointer_compat(rt) /\ ~assign ->
         {coerce_pointer(rt)}
    [] kind = "SUB" /\ is_pointer_compat(lt)
         /\ (rt = IntT \/ (assign /\ is_integer(rt))) -> {coerce_pointer(lt)}
    [] kind = "SUB" /\ is_pointer_compat(lt) /\ is_pointer_compat(rt) /\ ~assign ->
         IF eq_type(lt.ptr_to, rt.ptr_to) THEN {IntT} ELSE {}
    [] OTHER -> {}

\* Mutant: the case of two pointers is forgotten.
ScalesIndices(lt, rt) == \/ lt = IntT /\ rt = IntT
                         \/ lt = IntT /\ is_pointer_compat(rt) /\ rt.ptr_to # VoidT
                         \/ rt = IntT /\ is_pointer_compat(lt) /\ lt.ptr_to # VoidT

\* gen_coeff_ptr knows int and pointers: a char or an enumerator is taken
\* for a pointer without a type behind it, which ends the compiler.
Scales(lt, rt) == \/ is_pointer_compat(lt) /\ is_pointer_compat(rt)
                  \/ lt = IntT /\ rt = IntT
                  \/ lt = IntT /\ is_pointer_compat(rt) /\ rt.ptr_to # VoidT
                  \/ rt = IntT /\ is_pointer_compat(lt) /\ lt.ptr_to # VoidT

\* imul edi, coeff: only a non-negative index survives in the upper half.
Scaled(w, t) == IF type_size(t) = 1 \/ w = Natural THEN w ELSE Word(4, TRUE)

\* The word an operand is used from: extended to the result's size, and
\* scaled if it is the index of a pointer.
Operand(w, t, e, other, kind) ==
  LET x == extend_rax(w, size(t), size(e.type), size(e.type)) IN
  IF kind \in {"ADD", "SUB"} /\ e.type = IntT /\ is_pointer_compat(other.type)
  THEN Scaled(x, other.type.ptr_to) ELSE x

\* cqo reads the sign of all of rax, the 8-bit idiv all of ax.
DividendBytes(kind, n) == IF kind = "DIV" /\ n = 4 THEN 8 ELSE IF kind = "DIV" THEN 4 ELSE n

\* The difference of two pointers is divided unsigned, a char remainder is
\* looked for in rdx, comparisons have the size of int.
Sound(kind, n, l, r) ==
  /\ ~(kind = "MOD" /\ n = 1)
  /\ kind \in {"CMP", "SUB"} /\ is_pointer_compat(l.type) /\ is_pointer_compat(r.type)
       => kind = "SUB" /\ type_size(l.type.ptr_to) = 1
  /\ kind = "CMP" => {l.type.ty, r.type.ty} \cap {"PTR", "ARRAY"} = {}

\* Mutant: setl and its like are not followed by movzb.
ResultSetOnly(kind, t, word) ==
  Value(t, ToRegister(Address, IF kind = "CMP" THEN 1 ELSE size(t)),
        ToMemory(word, IF kind = "CMP" THEN 1 ELSE size(t)))

Result(kind, t, word) ==
  Value(t, IF kind = "CMP" THEN Natural ELSE ToRegister(Address, size(t)),
        ToMemory(word, size(t)))

\* There is no imul for 8-bit registers, and a difference of pointers is
\* divided by the size of what they point to.
Assembles(kind, t, l, r) ==
  /\ kind \in {"ADD", "SUB"} => Scales(l.type, r.type)
  /\ kind = "SUB" /\ is_pointer_compat(l.type) /\ is_pointer_compat(r.type)
       => l.type.ptr_to # VoidT
  /\ ~(kind = "MUL" /\ size(t) = 1)

Arith(kind) ==
  /\ HasTwo
  /\ \E assign \in BOOLEAN :
       /\ assign => Left.lval /\ Left.type.ty # "ARRAY" /\ kind # "CMP"
       /\ \E t \in ArithTypes(kind, Left.type, One.type, assign) :
            LET n == size(t)
                word == IF assign THEN Address ELSE Left.top
                lw == IF assign THEN ToRegister(Address, n) ELSE Left.top
                l == Operand(lw, t, Left, One, kind)
                r == Operand(One.top, t, One, Left, kind)
            IN  \/ ~Assembles(kind, t, Left, One) /\ Refuse(2, kind)
                \/ /\ Assembles(kind, t, Left, One)
                   /\ Use(2, /\ Sound(kind, n, Left, One)
                             /\ l.ok >= DividendBytes(kind, n) /\ r.ok >= n,
                          <<Result(kind, t, word)>>, kind)

ArithKinds == {"ADD", "SUB", "MUL", "DIV", "MOD", "BIT", "CMP"}

-----------------------------------------------------------------------------
(* Uses outside of expressions *)

Scalars(S) == {t \in S : t.ty # "ARRAY"}

Declare == \E t \in Scalars(VarTypes) :
             /\ HasOne /\ assignable(t, One.type)
             /\ UseAs(t, 1, One.top.ok >= size(t), <<>>, "VARDECL")

\* t a[] = { .., e, .. }: the element's address is the pushed one with as many
\* low bytes replaced as the element has.
DeclareElement ==
  \E t \in Scalars(VarTypes) :
    /\ HasOne /\ eq_type(t, One.type)
    /\ UseAs(t, 1, One.top.ok >= size(t) /\ ToMemory(Address, size(t)).ok = 8, <<>>, "ELEMENT")

Return == \E t \in Scalars(Targets) :
            /\ HasOne /\ assignable(t, One.type)
            /\ UseAs(t, 1, One.rax.ok >= size(t), <<>>, "RETURN")

\* A char for a wider parameter is extended, with zeros: right if it is not
\* negative, like the literals.
Argument ==
  \E t \in Scalars(Targets) :
    /\ HasOne /\ assignable(t, One.type)
    /\ UseAs(t, 1, IF size(One.type) = 1 /\ size(t) > 1 THEN One.top = Natural
              ELSE One.top.ok >= size(t), <<>>, "ARGUMENT")

\* An argument the prototype does not name is read as an int at least.
VarArgument ==
  HasOne /\ Use(1, One.top.ok >= IF size(One.type) = 8 THEN 8 ELSE 4, <<>>, "VARARG")

\* The condition of if, while, for, do and ?:.
Test == HasOne /\ Use(1, One.top.ok >= size(One.type), <<>>, "TEST")

\* cmp rax, n for a case n >= 0: equal when the upper half is clear or right.
Switch == /\ HasOne /\ is_integer(One.type)
          /\ Use(1, One.top.ok = 8 \/ (One.top.ok = 4 /\ One.top.clear), <<>>, "SWITCH")

Drop == HasOne /\ Use(1, TRUE, <<>>, "drop")

Stop == phase # "running" /\ UNCHANGED vars

Next ==
  \/ Num \/ Char \/ Enumerator \/ String \/ Local \/ Global \/ Attribute \/ CallResult
  \/ AddrOf \/ Deref \/ Cast \/ Not \/ Complement \/ PreOrPost
  \/ Seq2 \/ Assign \/ Conditional \/ And \/ Or \/ Shift
  \/ \E kind \in ArithKinds : Arith(kind)
  \/ Declare \/ DeclareElement \/ Return \/ Argument \/ VarArgument \/ Test \/ Switch \/ Drop
  \/ Stop

Spec == Init /\ [][Next]_vars

-----------------------------------------------------------------------------
(* Properties *)

\* What every case of gen_expr owes the code around it: the word it pushed
\* and rax hold the value as far as its type goes; rax of && and || and what
\* is made of them does not.
ResultsHold ==
  \A i \in DOMAIN exprs :
    LET e == exprs[i] IN
    /\ e.type \in Types /\ e.top.ok >= size(e.type)
    /\ e.rax.ok = 0 \/ (e.rax.ok >= size(e.type) /\ e.truth)

Misread(at) == phase = "misread" /\ fault.at \in at
Operand1 == fault.of[1]
Operand2 == fault.of[2]

\* Operators extend what they read: a char is an int, an int is an address
\* wherever sema_expr allows the mix.  The exceptions: an array of less than 8
\* bytes assigned to a pointer (extend_rax cuts its address), an index that
\* may be negative scaled by more than 1 (gen_coeff_ptr), the difference of
\* such pointers, comparisons of pointers, an int divided that may be
\* negative or a char whose word is no int, and the remainder of chars.
OperatorsExtend ==
  /\ Misread({"ASGN"}) => is_pointer(Operand1.type) /\ Operand2.type.ty = "ARRAY"
                          /\ type_size(Operand2.type) < 8
  /\ Misread({"ADD", "SUB"}) =>
       LET ps == {e \in {Operand1, Operand2} : is_pointer_compat(e.type)} IN
       \E p \in ps : /\ type_size(p.type.ptr_to) > 1
                     /\ \A e \in {Operand1, Operand2} \ ps : e.top # Natural
  /\ Misread({"DIV"}) => Operand1.top # Natural
  /\ Misread({"MOD"}) => Operand1.type = CharT
  /\ Misread({"CMP"}) => is_pointer(Operand1.type) \/ is_pointer(Operand2.type)
  /\ ~Misread({"MUL", "BIT", "SHIFT", "INCR", "ADDR", "SEQ"})

\* Operators that read rax, !, ~, *, && and ||, find the value there, unless it
\* is that of an && or ||; && and || give an int, unless of a char; and * the
\* object it points to, unless that is an array.
ReadsRax ==
  /\ Misread({"NEG", "BCOMPL"}) => Operand1.rax.ok = 0
  /\ Misread({"DEREF"}) => Operand1.type.ptr_to.ty = "ARRAY" \/ Operand1.rax.ok = 0
  /\ Misread({"LAND", "LOR"}) => \/ CharT \in {Operand1.type, Operand2.type}
                                 \/ 0 \in {Operand1.rax.ok, Operand2.rax.ok}

\* A value is used outside of expressions as wide as it is.  The exceptions:
\* casts, ?:, initialisers, arguments and returns that widen it, which have no
\* code for that; a returned && or ||; a list element of less than 8 bytes,
\* whose address is cut; and a switch over a word whose upper half is not
\* clear, that is an assigned, incremented, dereferenced or char value.
UsedAsWide ==
  /\ Misread({"CAST", "VARDECL", "ARGUMENT"}) => size(fault.to) > size(Operand1.type)
  /\ Misread({"RETURN"}) => size(fault.to) > size(Operand1.type) \/ Operand1.rax.ok = 0
  /\ Misread({"COND"}) => \E i \in {1, 2} : size(fault.to) > size(fault.of[i].type)
  /\ Misread({"VARARG"}) => Operand1.type = CharT
  /\ Misread({"ELEMENT"}) => size(fault.to) < 8
  /\ Misread({"SWITCH"}) => ~Operand1.top.clear \/ Operand1.type = CharT
  /\ ~Misread({"TEST"})

\* Nobody reads more bytes than are the value's, but for the exceptions of each
\* reader.
MisreadsOnly == OperatorsExtend /\ ReadsRax /\ UsedAsWide

\* What sema_expr accepts gets code, unless it adds a char or an enumerator,
\* multiplies chars (there is no such imul), or moves, subtracts or goes
\* through a void *, a variable's or the one that ?: makes of two pointers.
RefusesOnly ==
  phase = "refused" =>
    LET types == {fault.of[i].type : i \in DOMAIN fault.of} IN
    \/ ptr_of(VoidT) \in types /\ fault.at \in {"ADD", "SUB", "DEREF", "INCR"}
    \/ types \cap {CharT, EnumT} # {} /\ fault.at \in {"ADD", "SUB", "MUL"}

=============================================================================
