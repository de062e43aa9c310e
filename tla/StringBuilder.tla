---------------------------- MODULE StringBuilder ----------------------------
(***************************************************************************)
(* The string builders of containers.c, and escape_string of util.c, which *)
(* uses one. A builder is a block of memory that realloc moves; what the   *)
(* new half of the block holds then is undefined.                          *)
(***************************************************************************)
EXTENDS Naturals, Sequences, SequencesExt

CONSTANTS Capacity,   \* of a new builder
          Junk        \* what a byte holds that nothing was written to

ASSUME BuilderAssumption == Capacity \in Nat \ {0}

Nul == "NUL"

\* strbld_new. The block is cleared.
NewBuilder == [len |-> 0, cap |-> Capacity, data |-> [k \in 0..(Capacity - 1) |-> Nul], strayed |-> FALSE]

\* realloc keeps the bytes there are and defines no new one.
Grown(b) == [b EXCEPT !.cap = 2 * @,
                      !.data = [k \in 0..(2 * b.cap - 1) |-> IF k < b.cap THEN b.data[k] ELSE Junk]]

\* A write behind the block is marked.
Written(b, ch) == [b EXCEPT !.data = [k \in DOMAIN @ \cup {b.len} |-> IF k = b.len THEN ch ELSE @[k]],
                            !.strayed = @ \/ b.len \notin DOMAIN b.data,
                            !.len = @ + 1]

\* strbld_append
AppendChar(b, ch) == Written(IF b.len = b.cap THEN Grown(b) ELSE b, ch)

\* strbld_append_str
AppendStr(b, s) == FoldLeft(AppendChar, b, s)

\* strlen counts up to the first NUL, and strncpy stops there.
UpToNul(s) == SubSeq(s, 1, SelectInSeq(s \o <<Nul>>, LAMBDA ch : ch = Nul) - 1)

\* strbld_build. The copy has a NUL behind it.
Build(b) == UpToNul([k \in 1..b.len |-> b.data[k - 1]])

\* Mutant: a quote is printed as it is.
EscapeCharUnquoted(ch) == CASE ch = "\n" -> <<"\\", "n">>
                            [] ch = "\\" -> <<"\\", "\\">>
                            [] OTHER     -> <<ch>>

EscapeChar(ch) == CASE ch = "\n" -> <<"\\", "n">>
                    [] ch = "\\" -> <<"\\", "\\">>
                    [] ch = "\"" -> <<"\\", "\"">>
                    [] OTHER     -> <<ch>>

\* The builder with which escape_string ends.
escape_string(s) == FoldLeft(LAMBDA b, ch : AppendStr(b, EscapeChar(ch)), NewBuilder, UpToNul(s))
=============================================================================
