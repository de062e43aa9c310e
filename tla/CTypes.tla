------------------------------- MODULE CTypes -------------------------------
(* The types of ccatd, their sizes and the questions the passes ask of them. *)
EXTENDS Integers

IntT == [ty |-> "INT"]
CharT == [ty |-> "CHAR"]
EnumT == [ty |-> "ENUM"]
VoidT == [ty |-> "VOID"]
ptr_of(t) == [ty |-> "PTR", ptr_to |-> t]
array_of(t, len) == [ty |-> "ARRAY", ptr_to |-> t, array_size |-> len]

is_integer(t) == t.ty \in {"INT", "CHAR", "ENUM"}
is_pointer(t) == t.ty = "PTR"
is_pointer_compat(t) == t.ty \in {"PTR", "ARRAY"}

\* Arrays of arrays are not among the types here, so one level is enough.
\* void has no size: asking for it ends the compiler.
scalar_size(t) == CASE t.ty = "CHAR" -> 1
                    [] t.ty \in {"INT", "ENUM"} -> 4
                    [] t.ty = "PTR" -> 8
type_size(t) == IF t.ty = "ARRAY" THEN t.array_size * scalar_size(t.ptr_to)
                ELSE scalar_size(t)

coerce_pointer(t) == IF t.ty = "ARRAY" THEN ptr_of(t.ptr_to) ELSE t

binary_int_op_result(lt, rt) ==
  IF lt.ty = "CHAR" /\ rt.ty = "CHAR" THEN CharT ELSE IntT

\* Two arrays are equal whatever their lengths.
eq_type(l, r) == l = r \/ (l.ty = "ARRAY" /\ r.ty = "ARRAY" /\ l.ptr_to = r.ptr_to)

\* What a variable, an element or a cast of type lt can be given.
assignable(lt, rt) ==
  \/ is_integer(lt) /\ is_integer(rt)
  \/ is_pointer_compat(lt) /\ (rt = IntT \/ is_pointer_compat(rt))

=============================================================================
