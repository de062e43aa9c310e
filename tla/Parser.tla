------------------------------- MODULE Parser -------------------------------
(***************************************************************************)
(* parse() on texts of tokens. A text is put together piece by piece, every *)
(* text within the bounds is parsed, as a program or as an expression up   *)
(* to its semicolon, and the tree is compared with the one C's grammar     *)
(* gives (CGrammar, CStatements).                                          *)
(***************************************************************************)
EXTENDS StmtParser

\* What texts are made of: the parsing function to call, the tokens a text opens
\* with, the pieces that follow and how many of them (the bound of the instance),
\* and the tokens it ends in.
CONSTANT Vocabularies

VARIABLES vocabulary,    \* the one this text is made of
          pieces,        \* number of pieces so far
          parsed         \* what the parsing function returned

vars == <<tokens, vocabulary, pieces, parsed>>

NotYet == Node(0, None)

Init == /\ vocabulary \in DOMAIN Vocabularies
        /\ tokens = Vocabularies[vocabulary].opening \o Vocabularies[vocabulary].ending
        /\ pieces = 0 /\ parsed = NotYet

\* A piece goes in front of the ending.
Longer == LET v == Vocabularies[vocabulary]
          IN  /\ parsed = NotYet /\ pieces < v.max
              /\ \E s \in v.pieces :
                   tokens' = SubSeq(tokens, 1, Len(tokens) - Len(v.ending)) \o s \o v.ending
              /\ pieces' = pieces + 1 /\ UNCHANGED <<vocabulary, parsed>>

Calls(start) == parsed = NotYet /\ pieces > 0 /\ Vocabularies[vocabulary].start = start

ParseExpr == /\ Calls("expr") /\ parsed' = Expr(1)
             /\ UNCHANGED <<tokens, vocabulary, pieces>>

ParseProgram == /\ Calls("parse") /\ parsed' = Parse(Node(1, <<"PROGRAM">>))
                /\ UNCHANGED <<tokens, vocabulary, pieces>>

Stop == parsed # NotYet /\ UNCHANGED vars

Next == Longer \/ ParseExpr \/ ParseProgram \/ Stop

Spec == Init /\ [][Next]_vars

-----------------------------------------------------------------------------
C == INSTANCE CStatements WITH t <- tokens

IsExpr == parsed # NotYet /\ Vocabularies[vocabulary].start = "expr"
IsProgram == parsed # NotYet /\ Vocabularies[vocabulary].start = "parse"

ExpressionsDiffer == \/ C!MultipliesPrefixed \/ C!CastsUnderPrefix
                     \/ C!CastsToTag \/ C!SizeofInParentheses

\* An expression of C is parsed completely and to the tree C gives it, with these
\* exceptions: * and & take a whole product for their operand (parse.c:686), - + !
\* and ~ no cast (parse.c:685), a cast no tag (parse.c:640), and sizeof in
\* parentheses one unary expression (parse.c:664).
ExpressionsAsC ==
  IsExpr /\ Last(tokens) = ";" =>
    LET trees == C!Comma(1, Len(tokens) - 1)
    IN  trees = {} \/ ExpressionsDiffer \/
          /\ parsed.at = Len(tokens)
          /\ trees = {parsed.tree}

RECURSIVE Subtrees(_)
Subtrees(tree) ==
  {tree} \cup IF tree[1] \in {"id", "num", "str", "zero", "T", "S"} THEN {}
              ELSE UNION {Subtrees(tree[k]) : k \in 2..Len(tree)}

\* What ccatd does not read as C does: empty statements, labelled bodies, several
\* declarators or none in a block, commas behind the last initialiser, types of
\* functions and initialised or defined externs, switches over a single statement,
\* arrays of arrays.
BeyondCcatd(tree) ==
  \E n \in Subtrees(tree) :
    \/ n[1] \in {"EMPTY", "LABELLED", "DECLARATORS", "TRAILING", "FUNCTYPE", "EXTERN"}
    \/ n[1] = "SWITCH" /\ n[3][1] # "BLOCK"
    \/ n[1] = "ARRAY" /\ n[3][1] = "ARRAY"

\* A program of C is parsed to the tree C gives it: every else belongs to the
\* nearest if, every statement to the innermost body, every suffix of a declarator
\* to its name, except for what ccatd is known not to read (BeyondCcatd, and the
\* expressions of ExpressionsAsC).
ProgramsAsC ==
  IsProgram =>
    LET programs == C!Program(1, Len(tokens))
    IN  \A p \in programs :
          \/ BeyondCcatd(<<"PROGRAM">> \o p) \/ ExpressionsDiffer
          \/ /\ programs = {p}
             /\ parsed = Node(Len(tokens) + 1, <<"PROGRAM">> \o p)

\* The parser makes of every text the tree C makes of it, up to the exceptions.
ParsesAsC == ExpressionsAsC /\ ProgramsAsC

Operands == {"id", "num", "str"}

RECURSIVE Leaves(_)
Leaves(tree) ==
  CASE tree[1] \in Operands            -> {tree[2]}
    [] tree[1] \in {"zero", "T", "S"}  -> {}
    [] OTHER                           -> UNION {Leaves(tree[k]) : k \in 2..Len(tree)}

\* An operand directly behind a parenthesised expression.
Juxtaposed ==
  \E k \in 1..(Len(tokens) - 1) :
    /\ tokens[k] = ")" /\ tokens[k + 1] \in Operands
    /\ ~\E m \in 1..(k - 2) : tokens[m] = "(" /\ C!IsType(m + 1, k - 1)

\* Whatever is accepted, C or not: no operand of the text is dropped and none is
\* used twice, in whatever statement it stands, unless one follows a parenthesised
\* expression, which it replaces (parse.c:731).
AllOperandsUsed ==
  parsed # NotYet /\ ~Failed(parsed) /\ ~Juxtaposed =>
    Leaves(parsed.tree) = {k \in 1..(parsed.at - 1) : tokens[k] \in Operands}

\* The parser leaves the tokens by at most one place. A missing token is not
\* reported but dereferenced there; elsewhere the parser dereferences one only
\* for a dimension that is not a number (parse.c:342), an initialised extern
\* variable (parse.c:132) and behind . and -> (parse.c:818).
CrashesWhereKnown ==
  /\ parsed.at <= Len(tokens) + 1
  /\ parsed.tree = <<"crash">> =>
       \/ At(parsed.at) = "end"
       \/ parsed.at > 1 /\ At(parsed.at - 1) \in {".", "->", "["}
       \/ At(parsed.at) = "=" /\ "extern" \in Range(SubSeq(tokens, 1, parsed.at))
=============================================================================
