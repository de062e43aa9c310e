--------------------------- MODULE MCDeclarations ---------------------------
\* A small instance of Declarations for TLC.
EXTENDS Declarations

MCTypes == {[ty |-> "enum", to |-> "none"], [ty |-> "ptr", to |-> "char"],
            [ty |-> "array", to |-> "char"]}

MCBuiltins == <<[name |-> "foo", params |-> <<>>, is_varargs |-> FALSE,
                 is_extern |-> FALSE, seen |-> 0]>>

MCFuncNames == {"foo", "f", "main"}
=============================================================================
