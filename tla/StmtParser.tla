----------------------------- MODULE StmtParser -----------------------------
(***************************************************************************)
(* The statement half of parse.c: statements, blocks, declarators and what *)
(* stands outside of functions. ExprParser describes the tokens and parses *)
(* the expressions; "S" is a struct or enum with all that belongs to its   *)
(* specifier. A declared type is the token of its specifier in PTR, ARRAY  *)
(* and FUNC.                                                               *)
(***************************************************************************)
EXTENDS ExprParser

None == <<"none">>

\* type_spec() reports a missing type at the next token.
TypeSpec(i) == CASE At(i) \in {"T", "S"} -> Node(i + 1, Leaf(i))
                 [] At(i) = "end"        -> Crash(i)
                 [] OTHER                -> Error(i)

RECURSIVE Pointers(_, _, _)
Pointers(typ, i, k) == IF i = k THEN typ ELSE Pointers(<<"PTR", typ>>, i + 1, k)

\* consume(TK_NUM) returns no token when there is no number, as for a string or
\* a character.
RECURSIVE Dims(_, _)
Dims(i, typ) ==
  IF At(i) # "[" THEN Node(i, typ)
  ELSE IF At(i + 1) # "num" THEN Crash(i + 1)
  ELSE Then(Expect(i + 2, "]"), LAMBDA e : Dims(e.at, <<"ARRAY", Leaf(i + 1), typ>>))

\* consume_declarator
ConsumeDeclarator(i, spec) ==
  LET id == PastStars(i)
      typ == Pointers(spec, i, id)
  IN  IF At(id) = "id"
      THEN IF At(id + 1) = "(" THEN Node(id + 1, <<"DECL", Leaf(id), <<"FUNC", typ>>>>)
           ELSE Then(Dims(id + 1, typ), LAMBDA d : Node(d.at, <<"DECL", Leaf(id), d.tree>>))
      ELSE IF id = i THEN Node(i, None)
      ELSE IF At(id) = "end" THEN Crash(id) ELSE Error(id)

Declarator(i, spec) ==
  Then(ConsumeDeclarator(i, spec), LAMBDA d :
       IF d.tree # None THEN d ELSE IF At(d.at) = "end" THEN Crash(d.at) ELSE Error(d.at))

RECURSIVE List(_, _)
List(i, items) ==
  IF items = <<"LIST">> /\ At(i) = "}" THEN Node(i + 1, items)
  ELSE Then(Assignment(i), LAMBDA x :
            IF At(x.at) = "}" THEN Node(x.at + 1, Append(items, x.tree))
            ELSE Then(Expect(x.at, ","), LAMBDA e : List(e.at, Append(items, x.tree))))

Initializer(i) == IF At(i) = "{" THEN List(i + 1, <<"LIST">>) ELSE Expr(i)

\* A declaration up to its semicolon. consume_type_spec() found a type at i.
VarDecl(i) ==
  Then(Declarator(i + 1, Leaf(i)), LAMBDA d :
       IF At(d.at) # "=" THEN Node(d.at, <<"VARDECL", d.tree, None>>)
       ELSE Then(Initializer(d.at + 1), LAMBDA e : Node(e.at, <<"VARDECL", d.tree, e.tree>>)))

Ended(r, kwd) == Then(r, LAMBDA x : Then(Expect(x.at, kwd), LAMBDA e : Node(e.at, x.tree)))

\* Nothing, or an expression, before kwd.
MaybeExpr(i, kwd) == IF At(i) = kwd THEN Node(i + 1, None) ELSE Ended(Expr(i), kwd)

InParens(i) == Then(Expect(i, "("), LAMBDA p : Ended(Expr(p.at), ")"))

RECURSIVE Stmt(_), Block(_), BlockLoop(_)

If(i) ==
  Then(InParens(i + 1), LAMBDA c :
  Then(Stmt(c.at), LAMBDA s :
       IF At(s.at) # "else" THEN Node(s.at, <<"IF", c.tree, s.tree, None>>)
       ELSE Then(Stmt(s.at + 1), LAMBDA e : Node(e.at, <<"IF", c.tree, s.tree, e.tree>>))))

While(i) ==
  Then(InParens(i + 1), LAMBDA c :
  Then(Stmt(c.at), LAMBDA s : Node(s.at, <<"WHILE", c.tree, s.tree>>)))

ForInit(i) == CASE At(i) = ";"            -> Node(i + 1, None)
                [] At(i) \in {"T", "S"}   -> Ended(VarDecl(i), ";")
                [] OTHER                  -> Ended(Expr(i), ";")

For(i) ==
  Then(Expect(i + 1, "("), LAMBDA p :
  Then(ForInit(p.at), LAMBDA a :
  Then(MaybeExpr(a.at, ";"), LAMBDA b :
  Then(MaybeExpr(b.at, ")"), LAMBDA c :
  Then(Stmt(c.at), LAMBDA s : Node(s.at, <<"FOR", a.tree, b.tree, c.tree, s.tree>>))))))

DoWhile(i) ==
  Then(Stmt(i + 1), LAMBDA s :
  Then(Expect(s.at, "while"), LAMBDA w :
  Then(Ended(InParens(w.at), ";"), LAMBDA c : Node(c.at, <<"DO", s.tree, c.tree>>))))

Switch(i) ==
  Then(InParens(i + 1), LAMBDA c :
  Then(Block(c.at), LAMBDA b : Node(b.at, <<"SWITCH", c.tree, b.tree>>)))

\* A label is a statement, and what it labels the next one.
Label(i) ==
  IF At(i) = "default" THEN Ended(Node(i + 1, <<"DEFAULT">>), ":")
  ELSE Ended(Then(Expr(i + 1), LAMBDA x : Node(x.at, <<"CASE", x.tree>>)), ":")

Stmt(i) ==
  CASE At(i) = "return" -> Then(MaybeExpr(i + 1, ";"), LAMBDA x : Node(x.at, <<"RETURN", x.tree>>))
    [] At(i) = "if"     -> If(i)
    [] At(i) = "while"  -> While(i)
    [] At(i) = "for"    -> For(i)
    [] At(i) = "do"     -> DoWhile(i)
    [] At(i) = "switch" -> Switch(i)
    [] At(i) \in {"break", "continue"} -> Ended(Node(i + 1, <<At(i)>>), ";")
    [] At(i) \in {"case", "default"}   -> Label(i)
    [] At(i) = "{"                     -> Block(i)
    [] At(i) \in {"T", "S"}            -> Ended(VarDecl(i), ";")
    [] OTHER                           -> Ended(Expr(i), ";")

BlockLoop(r) ==
  Then(r, LAMBDA b : IF At(b.at) = "}" THEN Node(b.at + 1, b.tree)
                     ELSE BlockLoop(Then(Stmt(b.at), LAMBDA s : Node(s.at, Append(b.tree, s.tree)))))

Block(i) == Then(Expect(i, "{"), LAMBDA e : BlockLoop(Node(e.at, <<"BLOCK">>)))

-----------------------------------------------------------------------------
StorageClasses == {"typedef", "extern", "static"}

Param(i) == Then(TypeSpec(i), LAMBDA s : Declarator(s.at, s.tree))

\* After the first parameter, or after a comma.
RECURSIVE MoreParams(_)
MoreParams(r) ==
  Then(r, LAMBDA ps :
    IF At(ps.at) = ")" THEN Node(ps.at + 1, ps.tree)
    ELSE Then(Expect(ps.at, ","), LAMBDA e :
         IF At(e.at) = "..." THEN Ended(Node(e.at + 1, Append(ps.tree, <<"...">>)), ")")
         ELSE MoreParams(Then(Param(e.at), LAMBDA p : Node(p.at, Append(ps.tree, p.tree))))))

\* The token at i is the parenthesis consume_declarator saw.
Params(i) ==
  CASE At(i + 1) = ")"   -> Node(i + 2, <<"PARAMS">>)
    [] At(i + 1) = "..." -> Ended(Node(i + 2, <<"PARAMS", <<"...">>>>), ")")
    [] OTHER             -> MoreParams(Then(Param(i + 1), LAMBDA p : Node(p.at, <<"PARAMS", p.tree>>)))

ParseFunc(decl, storage) ==
  Then(Params(decl.at), LAMBDA ps :
       IF At(ps.at) = ";"
       THEN Node(ps.at + 1, <<"FUNCTION", storage, decl.tree, ps.tree, None>>)
       ELSE IF storage = <<"extern">> THEN Error(ps.at)
       ELSE Then(Block(ps.at), LAMBDA b :
                 Node(b.at, <<"FUNCTION", storage, decl.tree, ps.tree, b.tree>>)))

\* The token toplevel() would report an initialised extern variable at is NULL.
GlobalVar(decl, storage) ==
  IF At(decl.at) # "=" THEN Ended(Node(decl.at, <<"GVAR", storage, decl.tree, None>>), ";")
  ELSE IF storage = <<"extern">> THEN Crash(decl.at)
  ELSE Ended(Then(Initializer(decl.at + 1), LAMBDA e :
                  Node(e.at, <<"GVAR", storage, decl.tree, e.tree>>)), ";")

Toplevel(i) ==
  LET storage == IF At(i) \in StorageClasses THEN <<At(i)>> ELSE None
      j       == IF storage = None THEN i ELSE i + 1
  IN  IF storage # None /\ At(j) \in StorageClasses THEN Error(j)
      ELSE Then(TypeSpec(j), LAMBDA s :
           Then(ConsumeDeclarator(s.at, s.tree), LAMBDA d :
                IF d.tree = None THEN Ended(Node(d.at, <<"TYPE">>), ";")
                ELSE IF storage = <<"typedef">> THEN Ended(Node(d.at, <<"TYPEDEF", d.tree>>), ";")
                ELSE IF d.tree[3][1] = "FUNC" THEN ParseFunc(d, storage)
                ELSE GlobalVar(d, storage)))

\* parse()
RECURSIVE Parse(_)
Parse(r) ==
  Then(r, LAMBDA p : IF At(p.at) = "end" THEN p
                     ELSE Parse(Then(Toplevel(p.at), LAMBDA x : Node(x.at, Append(p.tree, x.tree)))))
=============================================================================
