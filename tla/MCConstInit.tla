---------------------------- MODULE MCConstInit ----------------------------
(* The globals, literals and targets of the ConstInit runs. *)
EXTENDS ConstInit

MCVarType == [a |-> array_of(IntT, 3), s |-> array_of(CharT, 2), x |-> IntT,
              p |-> ptr_of(IntT)]
MCExternType == [e |-> array_of(IntT, 3)]
MCEnumValue == [E |-> 2, Z |-> 0]
MCStringLen == [str |-> 2]
MCTargets == {IntT, CharT, ptr_of(IntT), ptr_of(CharT),
              array_of(IntT, 2), array_of(IntT, 4), array_of(CharT, 4), array_of(CharT, 2),
              array_of(ptr_of(IntT), 3)}
=============================================================================
