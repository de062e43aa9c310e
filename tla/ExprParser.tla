----------------------------- MODULE ExprParser -----------------------------
(***************************************************************************)
(* The expression half of parse.c, as functions from a place in the tokens *)
(* to the tree parsed and the place behind it. A token is "id" (an         *)
(* identifier), "T" (an identifier that is a type alias), "S" (struct or   *)
(* enum with its tag), "num" (a number), "str" (a string or character) or   *)
(* the keyword itself.                                                     *)
(***************************************************************************)
EXTENDS Naturals, Sequences, SequencesExt

VARIABLE tokens

\* What each of logical_or, ..., mul consumes, loosest first.
BinaryLevels == <<{"||"}, {"&&"}, {"|"}, {"^"}, {"&"}, {"==", "!="}, {"<", "<=", ">", ">="},
                  {"<<", ">>"}, {"+", "-"}, {"*", "/", "%"}>>

AssignOps == {"=", "+=", "-=", "*=", "/=", "%=", "<<=", ">>=", "&=", "|=", "^="}

Mul == 10

At(i) == IF i <= Len(tokens) THEN tokens[i] ELSE "end"

Node(i, tree) == [at |-> i, tree |-> tree]

\* error_loc exits; a token that is not there is dereferenced.
Error(i) == Node(i, <<"error">>)
Crash(i) == Node(i, <<"crash">>)
Failed(r) == r.tree \in {<<"error">>, <<"crash">>}

\* Go on with the result of a call, unless it did not return.
Then(r, Rest(_)) == IF Failed(r) THEN r ELSE Rest(r)

\* Mutant: the next token is looked up among the keywords.
ExpectKeyword(i, kwd) == CASE At(i) = kwd                        -> Node(i + 1, <<>>)
                           [] At(i) \in {"end", "id", "num", "str", "T"} -> Crash(i)
                           [] OTHER                              -> Error(i)

\* expect_keyword
Expect(i, kwd) == CASE At(i) = kwd   -> Node(i + 1, <<>>)
                    [] At(i) = "end" -> Crash(i)
                    [] OTHER         -> Error(i)

Leaf(i) == <<At(i), i>>

\* relational() builds < and <= only.
Binop(op, x, y) == CASE op = ">"  -> <<"<", y, x>>
                     [] op = ">=" -> <<"<=", y, x>>
                     [] OTHER     -> <<op, x, y>>

RECURSIVE PastStars(_)
PastStars(i) == IF At(i) = "*" THEN PastStars(i + 1) ELSE i

RECURSIVE Expr(_), ExprLoop(_), Assignment(_), Conditional(_), Binary(_, _), BinaryLoop(_, _),
          Cast(_), ParseSizeof(_), Unary(_), Postfix(_), PostfixLoop(_), Args(_, _)

Expr(i) == ExprLoop(Assignment(i))

\* Mutant: an operand in front of a comma is forgotten.
ExprLoopLast(r) ==
  Then(r, LAMBDA x : IF At(x.at) # "," THEN x ELSE ExprLoop(Assignment(x.at + 1)))

ExprLoop(r) ==
  Then(r, LAMBDA x : IF At(x.at) # "," THEN x
                     ELSE ExprLoop(Then(Assignment(x.at + 1), LAMBDA y :
                                        Node(y.at, <<",", x.tree, y.tree>>))))

Assignment(i) ==
  Then(Conditional(i), LAMBDA x :
       IF At(x.at) \notin AssignOps THEN x
       ELSE Then(Assignment(x.at + 1), LAMBDA y : Node(y.at, <<At(x.at), x.tree, y.tree>>)))

Conditional(i) ==
  Then(Binary(1, i), LAMBDA c :
       IF At(c.at) # "?" THEN c
       ELSE Then(Expr(c.at + 1), LAMBDA x :
            Then(Expect(x.at, ":"), LAMBDA e :
            Then(Conditional(e.at), LAMBDA y : Node(y.at, <<"?", c.tree, x.tree, y.tree>>)))))

Binary(l, i) == IF l > Len(BinaryLevels) THEN Cast(i) ELSE BinaryLoop(l, Binary(l + 1, i))

\* Mutant: the right operand takes the rest of its level.
BinaryLoopRight(l, r) ==
  Then(r, LAMBDA x : IF At(x.at) \notin BinaryLevels[l] THEN x
                     ELSE Then(Binary(l, x.at + 1), LAMBDA y :
                               Node(y.at, Binop(At(x.at), x.tree, y.tree))))

BinaryLoop(l, r) ==
  Then(r, LAMBDA x : IF At(x.at) \notin BinaryLevels[l] THEN x
                     ELSE BinaryLoop(l, Then(Binary(l + 1, x.at + 1), LAMBDA y :
                                             Node(y.at, Binop(At(x.at), x.tree, y.tree)))))

\* consume_cast goes back to the parenthesis when no alias follows it.
Cast(i) ==
  IF At(i) = "(" /\ At(i + 1) = "T"
  THEN Then(Expect(PastStars(i + 2), ")"), LAMBDA e :
       Then(Cast(e.at), LAMBDA x : Node(x.at, <<"CAST", x.tree>>)))
  ELSE Unary(i)

ParseSizeof(i) ==
  CASE At(i) = "("          -> Then(ParseSizeof(i + 1), LAMBDA n :
                               Then(Expect(n.at, ")"), LAMBDA e : Node(e.at, n.tree)))
    [] At(i) \in {"T", "S"} -> Node(PastStars(i + 1), <<"sizeof", Leaf(i)>>)
    [] OTHER                -> Then(Unary(i), LAMBDA x : Node(x.at, <<"sizeof", x.tree>>))

\* The operands of & and * are parsed by mul().
Unary(i) ==
  LET op == At(i)
      Of(r, tree(_)) == Then(r, LAMBDA x : Node(x.at, tree(x.tree)))
  IN  CASE op = "sizeof"               -> ParseSizeof(i + 1)
        [] op = "+"                    -> Unary(i + 1)
        [] op = "-"                    -> Of(Unary(i + 1), LAMBDA x : <<"-", <<"zero", i>>, x>>)
        [] op = "&"                    -> Of(Binary(Mul, i + 1), LAMBDA x : <<"ADDR", x>>)
        [] op = "*"                    -> Of(Binary(Mul, i + 1), LAMBDA x : <<"DEREF", x>>)
        [] op \in {"++", "--", "!", "~"} -> Of(Unary(i + 1), LAMBDA x : <<op, x>>)
        [] OTHER                       -> Postfix(i)

\* consume() looks at the token without asking whether there is one.
Operand(i, tree) ==
  CASE At(i) = "id"  -> IF At(i + 1) # "(" THEN Node(i + 1, Leaf(i))
                        ELSE Then(Args(i + 2, <<"ARGS">>), LAMBDA as : Node(as.at, <<"CALL", Leaf(i), as.tree>>))
    [] At(i) \in {"num", "str"} -> Node(i + 1, Leaf(i))
    [] At(i) = "end" -> Crash(i)
    [] OTHER         -> IF tree = <<>> THEN Error(i) ELSE Node(i, tree)

\* An operand is tried behind a parenthesised expression, too.
Primary(i) ==
  IF At(i) # "(" THEN Operand(i, <<>>)
  ELSE Then(Expr(i + 1), LAMBDA x :
       Then(Expect(x.at, ")"), LAMBDA e : Operand(e.at, x.tree)))

Args(i, as) ==
  IF as = <<"ARGS">> /\ At(i) = ")" THEN Node(i + 1, as)
  ELSE Then(Assignment(i), LAMBDA x :
            IF At(x.at) = ")" THEN Node(x.at + 1, Append(as, x.tree))
            ELSE Then(Expect(x.at, ","), LAMBDA e : Args(e.at, Append(as, x.tree))))

Postfix(i) == PostfixLoop(Primary(i))

\* value_identifier crashes on anything that is not an identifier.
Attribute(i) == CASE At(i) = "id" -> Node(i + 1, Leaf(i))
                  [] At(i) = "T"  -> Error(i)
                  [] OTHER        -> Crash(i)

PostfixLoop(r) ==
  Then(r, LAMBDA x :
    CASE At(x.at) = "[" ->
           PostfixLoop(Then(Expr(x.at + 1), LAMBDA y :
                       Then(Expect(y.at, "]"), LAMBDA e :
                            Node(e.at, <<"DEREF", <<"+", x.tree, y.tree>>>>))))
      [] At(x.at) = "." ->
           PostfixLoop(Then(Attribute(x.at + 1), LAMBDA y : Node(y.at, <<"ATTR", x.tree, y.tree>>)))
      [] At(x.at) = "->" ->
           PostfixLoop(Then(Attribute(x.at + 1), LAMBDA y :
                            Node(y.at, <<"ATTR", <<"DEREF", x.tree>>, y.tree>>)))
      [] At(x.at) \in {"++", "--"} ->
           PostfixLoop(Node(x.at + 1, <<"POST", <<At(x.at), x.tree>>>>))
      [] OTHER -> x)
=============================================================================
