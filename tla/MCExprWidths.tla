---------------------------- MODULE MCExprWidths ----------------------------
(* The types of the ExprWidths runs. *)
EXTENDS ExprWidths

MCVarTypes == {IntT, CharT, ptr_of(IntT), ptr_of(CharT), ptr_of(VoidT),
               array_of(IntT, 3), array_of(CharT, 4)}
MCTargets == {IntT, CharT, ptr_of(IntT), ptr_of(CharT)}

=============================================================================
