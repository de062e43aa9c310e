------------------------------ MODULE CGrammar ------------------------------
(***************************************************************************)
(* The expressions of C that ccatd means to accept, as C's grammar derives *)
(* them: a phrase on the tokens i..j is one of the splits its productions  *)
(* allow. Every operator returns the set of trees of the phrase, so it is  *)
(* empty when there is none. Trees are those ccatd builds: a[i] is *(a+i), *)
(* a->x is ( *a ).x, -a is 0-a, a>b is b<a, and a leaf is the number of its *)
(* token.                                                                  *)
(***************************************************************************)
EXTENDS Naturals, Sequences

CONSTANT t   \* the tokens

Levels == <<{"||"}, {"&&"}, {"|"}, {"^"}, {"&"}, {"==", "!="}, {"<", "<=", ">", ">="},
            {"<<", ">>"}, {"+", "-"}, {"*", "/", "%"}>>

Assignments == {"=", "+=", "-=", "*=", "/=", "%=", "<<=", ">>=", "&=", "|=", "^="}

Leaf(i) == <<t[i], i>>

Binop(op, x, y) == IF op \in {">", ">="}
                   THEN <<IF op = ">" THEN "<" ELSE "<=", y, x>>
                   ELSE <<op, x, y>>

Prefixed(op, i, x) == CASE op = "+" -> x
                        [] op = "-" -> <<"-", <<"zero", i>>, x>>
                        [] op = "*" -> <<"DEREF", x>>
                        [] op = "&" -> <<"ADDR", x>>
                        [] OTHER    -> <<op, x>>

IsType(i, j) == /\ i <= j /\ t[i] \in {"T", "S"}
                /\ \A k \in (i + 1)..j : t[k] = "*"

RECURSIVE Comma(_, _), Assign(_, _), Cond(_, _), Bin(_, _, _), CastE(_, _),
          UnaryE(_, _), PostfixE(_, _), Arguments(_, _)

Comma(i, j) ==
  Assign(i, j) \cup
  UNION {{<<",", x, y>> : x \in Comma(i, k - 1), y \in Assign(k + 1, j)} :
           k \in {k \in (i + 1)..(j - 1) : t[k] = ","}}

Assign(i, j) ==
  Cond(i, j) \cup
  UNION {{<<t[k], x, y>> : x \in UnaryE(i, k - 1), y \in Assign(k + 1, j)} :
           k \in {k \in (i + 1)..(j - 1) : t[k] \in Assignments}}

Cond(i, j) ==
  Bin(1, i, j) \cup
  UNION {{<<"?", c, x, y>> : c \in Bin(1, i, k - 1), x \in Comma(k + 1, l - 1), y \in Cond(l + 1, j)} :
           <<k, l>> \in {<<k, l>> \in (i..j) \X (i..j) : t[k] = "?" /\ t[l] = ":" /\ k < l}}

Bin(l, i, j) ==
  IF l > Len(Levels) THEN CastE(i, j)
  ELSE Bin(l + 1, i, j) \cup
       UNION {{Binop(t[k], x, y) : x \in Bin(l, i, k - 1), y \in Bin(l + 1, k + 1, j)} :
                k \in {k \in (i + 1)..(j - 1) : t[k] \in Levels[l]}}

CastE(i, j) ==
  UnaryE(i, j) \cup
  UNION {{<<"CAST", x>> : x \in CastE(k + 1, j)} :
           k \in {k \in i..j : t[i] = "(" /\ t[k] = ")" /\ IsType(i + 1, k - 1)}}

UnaryE(i, j) ==
  IF i > j THEN {}
  ELSE PostfixE(i, j) \cup
       CASE t[i] \in {"++", "--"} -> {<<t[i], x>> : x \in UnaryE(i + 1, j)}
         [] t[i] \in {"+", "-", "*", "&", "!", "~"} ->
              {Prefixed(t[i], i, x) : x \in CastE(i + 1, j)}
         [] t[i] = "sizeof" ->
              {<<"sizeof", x>> : x \in UnaryE(i + 1, j)} \cup
              {<<"sizeof", Leaf(k)>> : k \in {k \in {i + 2} : k < j /\ t[i + 1] = "(" /\ t[j] = ")"
                                                              /\ IsType(k, j - 1)}}
         [] OTHER -> {}

PostfixE(i, j) ==
  CASE i > j -> {}
    [] i = j -> IF t[i] \in {"id", "num", "str"} THEN {Leaf(i)} ELSE {}
    [] OTHER ->
         (IF t[i] = "(" /\ t[j] = ")" THEN Comma(i + 1, j - 1) ELSE {}) \cup
         (IF t[i] = "id" /\ t[i + 1] = "(" /\ t[j] = ")"
          THEN {<<"CALL", Leaf(i), as>> : as \in Arguments(i + 2, j - 1)} ELSE {}) \cup
         (IF t[j] \in {"++", "--"} THEN {<<"POST", <<t[j], x>>>> : x \in PostfixE(i, j - 1)} ELSE {}) \cup
         (IF t[j] = "id" /\ t[j - 1] = "." THEN {<<"ATTR", x, Leaf(j)>> : x \in PostfixE(i, j - 2)} ELSE {}) \cup
         (IF t[j] = "id" /\ t[j - 1] = "->"
          THEN {<<"ATTR", <<"DEREF", x>>, Leaf(j)>> : x \in PostfixE(i, j - 2)} ELSE {}) \cup
         UNION {{<<"DEREF", <<"+", x, y>>>> : x \in PostfixE(i, k - 1), y \in Comma(k + 1, j - 1)} :
                  k \in {k \in (i + 1)..(j - 1) : t[k] = "[" /\ t[j] = "]"}}

\* The argument lists on i..j.
Arguments(i, j) ==
  IF i > j THEN {<<"ARGS">>}
  ELSE {<<"ARGS", x>> : x \in Assign(i, j)} \cup
       UNION {{Append(as, x) : as \in Arguments(i, k - 1), x \in Assign(k + 1, j)} :
                k \in {k \in (i + 1)..(j - 1) : t[k] = ","}}

-----------------------------------------------------------------------------
\* Where the parser is known to read something else.

\* No operand ends before i, so an operator there is a prefix.
IsPrefix(i) == \A k \in 1..(i - 1) : CastE(k, i - 1) = {}

\* A factor that begins with a prefix * or & is multiplied.
MultipliesPrefixed ==
  \E k \in DOMAIN t : \E i \in 1..(k - 1) :
    /\ t[k] \in Levels[10] /\ t[i] \in {"*", "&"} /\ IsPrefix(i)
    /\ CastE(i + 1, k - 1) # {}

\* A cast is the operand of another prefix than * and &.
CastsUnderPrefix ==
  \E i \in 1..(Len(t) - 2) : /\ t[i] \in {"+", "-", "!", "~"} /\ IsPrefix(i)
                             /\ t[i + 1] = "(" /\ t[i + 2] = "T"

CastsToTag == \E i \in 2..(Len(t) - 1) : t[i - 1] = "(" /\ t[i] = "S" /\ (i = 2 \/ t[i - 2] # "sizeof")

\* sizeof of something in parentheses that is more than a unary expression, or
\* goes on behind them.
SizeofInParentheses ==
  \E i, m \in DOMAIN t : \E n \in 1..(m - i - 2) :
    /\ t[i] = "sizeof" /\ \A k \in 1..n : t[i + k] = "("
    /\ t[m] = ")" /\ Comma(i + n + 1, m - 1) # {}
    /\ \/ UnaryE(i + n + 1, m - 1) = {}
       \/ m < Len(t) /\ t[m + 1] \in {"[", ".", "->", "++", "--"}
=============================================================================
