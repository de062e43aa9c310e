----------------------------- MODULE MCSemaFunc -----------------------------
(***************************************************************************)
(* Small instances of SemaFunc for TLC.                                    *)
(***************************************************************************)
EXTENDS SemaFunc

CONSTANTS a, b

MCNames == {a, b}

\* No enumerators, or one that clashes with a variable's name.
MCEnumLists == {<<>>, <<a>>}
=============================================================================
