----------------------------- MODULE CStatements -----------------------------
(***************************************************************************)
(* The statements, declarations and programs of C that ccatd means to      *)
(* accept, as C's grammar derives them (see CGrammar). A declaration       *)
(* stands for one VARDECL per declarator and a labelled statement for the  *)
(* label and the statement, so phrases are sets of sequences of trees.     *)
(***************************************************************************)
EXTENDS CGrammar

None == <<"none">>

\* The places before j where a phrase from i may be split at a token of ks.
Splits(i, j, ks) == {k \in i..j : t[k] \in ks}

Spec(i) == IF t[i] \in {"T", "S"} THEN {Leaf(i)} ELSE {}

\* Declarators of something of type typ: a pointer binds looser than a suffix,
\* and the first dimension is the outermost. Dimensions are numbers.
RECURSIVE Suffixed(_, _, _), Declarators(_, _, _)
Suffixed(i, j, typ) ==
  IF i > j THEN {typ}
  ELSE IF i + 2 <= j /\ t[i] = "[" /\ t[i + 1] = "num" /\ t[i + 2] = "]"
       THEN {<<"ARRAY", Leaf(i + 1), e>> : e \in Suffixed(i + 3, j, typ)}
       ELSE {}

Declarators(i, j, typ) ==
  IF i > j THEN {}
  ELSE CASE t[i] = "*"  -> Declarators(i + 1, j, <<"PTR", typ>>)
         [] t[i] = "id" -> {<<"DECL", Leaf(i), e>> : e \in Suffixed(i + 1, j, typ)}
         [] OTHER       -> {}

Initializers(i, j) ==
  Assign(i, j) \cup
  IF i >= j \/ t[i] # "{" \/ t[j] # "}" THEN {}
  ELSE {<<"LIST">> \o Tail(as) : as \in Arguments(i + 1, j - 1)} \cup
       IF t[j - 1] = "," /\ j > i + 2 THEN {<<"TRAILING">> \o Tail(as) : as \in Arguments(i + 1, j - 2)} ELSE {}

InitDeclarators(i, j, typ) ==
  {<<"VARDECL", d, None>> : d \in Declarators(i, j, typ)} \cup
  UNION {{<<"VARDECL", d, e>> : d \in Declarators(i, k - 1, typ), e \in Initializers(k + 1, j)} :
           k \in Splits(i + 1, j - 1, {"="})}

RECURSIVE DeclaratorLists(_, _, _)
DeclaratorLists(i, j, typ) ==
  {<<d>> : d \in InitDeclarators(i, j, typ)} \cup
  UNION {{<<d>> \o ds : d \in InitDeclarators(i, k - 1, typ), ds \in DeclaratorLists(k + 1, j, typ)} :
           k \in Splits(i + 1, j - 1, {","})}

\* A declaration without its semicolon.
Declaration(i, j) ==
  UNION {IF i = j THEN {<<"DECLARATORS">>}
         ELSE {IF Len(ds) = 1 THEN ds[1] ELSE <<"DECLARATORS">> \o ds : ds \in DeclaratorLists(i + 1, j, s)} :
           s \in IF i > j THEN {} ELSE Spec(i)}

Maybe(phrases, i, j) == IF i > j THEN {None} ELSE phrases

\* What stands in parentheses behind the keyword at i, with the place behind them.
Conditions(i, j) ==
  IF i + 1 > j \/ t[i + 1] # "(" THEN {}
  ELSE UNION {{<<k + 1, c>> : c \in Comma(i + 2, k - 1)} : k \in Splits(i + 2, j, {")"})}

\* An else behind the statement is its own.
RECURSIVE TakesElse(_)
TakesElse(s) ==
  CASE s[1] = "IF"                              -> s[4] = None \/ TakesElse(s[4])
    [] s[1] \in {"WHILE", "FOR", "SWITCH", "LABELLED"} /\ Len(s) > 1 -> TakesElse(s[Len(s)])
    [] OTHER                                    -> FALSE

RECURSIVE Statement(_, _), Items(_, _), Labelled(_, _), Selection(_, _), Iteration(_, _)

\* A statement that is part of another.
Sub(i, j) == {IF Len(ss) = 1 THEN ss[1] ELSE <<"LABELLED">> \o ss : ss \in Statement(i, j)}

Items(i, j) ==
  IF i > j THEN {<<>>}
  ELSE UNION {{ss \o rest : ss \in Statement(i, k) \cup {<<d>> : d \in IF t[k] = ";" THEN Declaration(i, k - 1) ELSE {}},
                            rest \in Items(k + 1, j)} :
                k \in Splits(i, j, {";", "}"})}

Labelled(i, j) ==
  UNION {{<<l>> \o ss : l \in IF t[i] = "default" THEN IF k = i + 1 THEN {<<"DEFAULT">>} ELSE {}
                              ELSE {<<"CASE", e>> : e \in Cond(i + 1, k - 1)},
                        ss \in Statement(k + 1, j)} :
           k \in Splits(i + 1, j - 1, {":"})}

Selection(i, j) ==
  UNION {IF t[i] = "switch" THEN {<<"SWITCH", c[2], s>> : s \in Sub(c[1], j)}
         ELSE {<<"IF", c[2], s, None>> : s \in Sub(c[1], j)} \cup
              UNION {{<<"IF", c[2], s, e>> : s \in {s \in Sub(c[1], k - 1) : ~TakesElse(s)}, e \in Sub(k + 1, j)} :
                       k \in Splits(c[1], j, {"else"})} :
           c \in Conditions(i, j)}

Iteration(i, j) ==
  CASE t[i] = "while" -> UNION {{<<"WHILE", c[2], s>> : s \in Sub(c[1], j)} : c \in Conditions(i, j)}
    [] t[i] = "do"    -> UNION {{<<"DO", s, c[2]>> : s \in Sub(i + 1, k - 1),
                                                     c \in {c \in Conditions(k, j) : c[1] = j /\ t[j] = ";"}} :
                                  k \in Splits(i + 1, j, {"while"})}
    [] OTHER -> IF i + 1 > j \/ t[i + 1] # "(" THEN {} ELSE
         UNION {{<<"FOR", a, b, c, s>> :
                   a \in Maybe(Comma(i + 2, p - 1) \cup Declaration(i + 2, p - 1), i + 2, p - 1),
                   b \in Maybe(Comma(p + 1, q - 1), p + 1, q - 1),
                   c \in Maybe(Comma(q + 1, r - 1), q + 1, r - 1),
                   s \in Sub(r + 1, j)} :
                  <<p, q, r>> \in {x \in Splits(i + 2, j, {";"}) \X Splits(i + 2, j, {";"}) \X Splits(i + 2, j, {")"}) :
                                     x[1] < x[2] /\ x[2] < x[3]}}

Statement(i, j) ==
  IF i > j \/ t[j] \notin {";", "}"} THEN {}
  ELSE CASE t[i] = "{" /\ t[j] = "}" /\ i < j -> {<<(<<"BLOCK">> \o ss)>> : ss \in Items(i + 1, j - 1)}
         [] t[i] \in {"case", "default"}      -> Labelled(i, j)
         [] t[i] \in {"if", "switch"}         -> {<<s>> : s \in Selection(i, j)}
         [] t[i] \in {"while", "do", "for"}   -> {<<s>> : s \in Iteration(i, j)}
         [] t[i] \in {"break", "continue"}    -> IF j = i + 1 /\ t[j] = ";" THEN {<<(<<t[i]>>)>>} ELSE {}
         [] t[i] = "return" ->
              {<<(<<"RETURN", e>>)>> : e \in IF t[j] = ";" THEN Maybe(Comma(i + 1, j - 1), i + 1, j - 1) ELSE {}}
         [] t[i] = ";" /\ i = j               -> {<<(<<"EMPTY">>)>>}
         [] OTHER -> {<<e>> : e \in IF t[j] = ";" THEN Comma(i, j - 1) ELSE {}}

-----------------------------------------------------------------------------
RECURSIVE Params(_, _), Functions(_, _, _), Program(_, _)

Parameter(i, j) == IF i >= j THEN {} ELSE UNION {Declarators(i + 1, j, s) : s \in Spec(i)}

\* One parameter at least.
Params(i, j) ==
  {<<p>> : p \in Parameter(i, j)} \cup
  IF i + 2 <= j /\ t[j] = "..." /\ t[j - 1] = "," THEN {Append(ps, <<"...">>) : ps \in Params(i, j - 2)} ELSE {} \cup
  UNION {{Append(ps, p) : ps \in Params(i, k - 1), p \in Parameter(k + 1, j)} : k \in Splits(i + 1, j - 1, {","})}

\* Declarators of a function that returns typ: the DECL and the parameters.
Functions(i, j, typ) ==
  IF i + 2 > j THEN {}
  ELSE CASE t[i] = "*" -> Functions(i + 1, j, <<"PTR", typ>>)
         [] t[i] = "id" /\ t[i + 1] = "(" /\ t[j] = ")" ->
              {<<(<<"DECL", Leaf(i), <<"FUNC", typ>>>>), <<"PARAMS">> \o ps>> :
                 ps \in IF i + 2 = j THEN {<<>>} ELSE Params(i + 2, j - 1)}
         [] OTHER      -> {}

\* What the declaration d is at the top level, under a storage class.
Global(storage, d) ==
  IF d[1] = "DECLARATORS" THEN {IF Len(d) = 1 THEN <<"TYPE">> ELSE d}
  ELSE CASE storage = <<"typedef">> -> IF d[3] = None THEN {<<"TYPEDEF", d[2]>>} ELSE {}
         [] storage = <<"extern">> /\ d[3] # None -> {<<"EXTERN">>}
         [] OTHER                   -> {<<"GVAR", storage, d[2], d[3]>>}

\* One declaration or definition behind its storage class.
External(i, j, storage) ==
  IF i >= j THEN {}
  ELSE (IF t[j] # ";" THEN {}
        ELSE UNION {Global(storage, d) : d \in Declaration(i, j - 1)} \cup
             UNION {{IF storage = <<"typedef">> THEN <<"FUNCTYPE">> ELSE <<"FUNCTION", storage, f[1], f[2], None>> :
                       f \in Functions(i + 1, j - 1, s)} : s \in Spec(i)}) \cup
       (IF t[j] # "}" \/ storage = <<"typedef">> THEN {}
        ELSE UNION {{IF storage = <<"extern">> THEN <<"EXTERN">> ELSE <<"FUNCTION", storage, f[1], f[2], b[1]>> :
                       f \in UNION {Functions(i + 1, k - 1, s) : s \in Spec(i)}, b \in Statement(k, j)} :
                      k \in Splits(i + 1, j, {"{"})})

Stored(i, j) == IF t[i] \in {"typedef", "extern", "static"} THEN External(i + 1, j, <<t[i]>>)
                ELSE External(i, j, None)

Program(i, j) ==
  IF i > j THEN {<<>>}
  ELSE UNION {{<<e>> \o rest : e \in Stored(i, k), rest \in Program(k + 1, j)} : k \in Splits(i, j, {";", "}"})}
=============================================================================
