------------------------------ MODULE CLexemes ------------------------------
(***************************************************************************)
(* What C says the tokens of a text are: at every place the longest span   *)
(* of characters that is a comment or a token, and adjacent string         *)
(* literals are one. Spans are told apart by what they look like from both *)
(* ends; nothing here scans. Of the numbers only the octal and decimal     *)
(* ones without a suffix are here, and none but the given punctuators.     *)
(***************************************************************************)
EXTENDS Naturals, Sequences, SequencesExt, FiniteSetsExt, TLC

CONSTANTS Letters, Keywords, Punctuators

Blank == {" ", "\t", "\r", "\n", "\f", "VT"}
Digit == {"0", "1", "2", "3", "4", "5", "6", "7", "8", "9"}
Alnum == Letters \cup Digit \cup {"_"}

\* In a literal that begins at i, an odd number of backslashes stands before k.
Shielded(t, i, k) ==
  (k - Max({m \in i..(k - 1) : t[m] # "\\"})) % 2 = 0

\* The quote at i is closed at j.
Enclosed(t, i, j) ==
  /\ i < j /\ t[j] = t[i] /\ ~Shielded(t, i, j)
  /\ \A k \in (i + 1)..(j - 1) : t[k] = t[i] => Shielded(t, i, k)

OneLine(t, i, j) == \A k \in (i + 1)..(j - 1) : t[k] # "\n"

IsString(t, i, j) == t[i] = "\"" /\ Enclosed(t, i, j) /\ OneLine(t, i, j)

\* A character constant can hold several characters, but not none.
IsCharacter(t, i, j) == t[i] = "'" /\ Enclosed(t, i, j) /\ OneLine(t, i, j) /\ j # i + 1

IsComment(t, i, j) ==
  \/ /\ t[i] = "/" /\ t[i + 1] = "/"
     /\ \A k \in i..j : t[k] # "\n"
  \/ /\ i + 3 <= j /\ t[i] = "/" /\ t[i + 1] = "*" /\ t[j - 1] = "*" /\ t[j] = "/"
     /\ \A k \in (i + 2)..(j - 2) : ~(t[k] = "*" /\ t[k + 1] = "/")

OpensComment(t, i) == t[i] = "/" /\ i < Len(t) /\ t[i + 1] \in {"/", "*"}

\* What a span of letters and digits is.
WordShape(t, i, j) ==
  IF \A k \in i..j : t[k] \in Digit THEN "NUM"
  ELSE IF t[i] \in Digit THEN "BAD"
  ELSE IF SubSeq(t, i, j) \in Keywords THEN "KWD"
  ELSE "IDT"

\* What a span can be, or "none".
Shape(t, i, j) ==
  IF OpensComment(t, i) THEN IF IsComment(t, i, j) THEN "COMMENT" ELSE "none"
  ELSE IF IsString(t, i, j) THEN "STRING"
  ELSE IF IsCharacter(t, i, j) THEN "CHAR"
  ELSE IF \A k \in i..j : t[k] \in Alnum THEN WordShape(t, i, j)
  ELSE IF SubSeq(t, i, j) \in Punctuators THEN "KWD"
  ELSE "none"

\* The longest span at i; "BAD" if there is none.
Lexeme(t, i) ==
  LET ends == {j \in i..Len(t) : Shape(t, i, j) # "none"}
  IN  IF ends = {} THEN [kind |-> "BAD", first |-> i, last |-> i]
      ELSE [kind |-> Shape(t, i, Max(ends)), first |-> i, last |-> Max(ends)]

\* The lexemes of t from every place on, comments included.
LexemesFrom(t) ==
  LET From[i \in 1..(Len(t) + 1)] ==
        IF i > Len(t) THEN <<>>
        ELSE IF t[i] \in Blank THEN From[i + 1]
        ELSE <<Lexeme(t, i)>> \o From[Lexeme(t, i).last + 1]
  IN  From

Lexemes(t) == LexemesFrom(t)[1]

Bad(t) == {l \in ToSet(Lexemes(t)) : l.kind = "BAD"}

Lexable(t) == Bad(t) = {}

\* Where the first error is.
FirstBad(t) == Min({l.first : l \in Bad(t)})

Octal == {"0", "1", "2", "3", "4", "5", "6", "7"}

\* The escape of the character at k, which stands behind a backslash: itself, or "code"
\* where the digits of an octal or hexadecimal escape begin.
Escape(t, k) ==
  IF \/ t[k] \in {"x"} \cup (Octal \ {"0"})
     \/ t[k] = "0" /\ t[k + 1] \in Octal
  THEN "code" ELSE t[k]

\* What the escapes of C stand for. (Nothing is said of those with a code, nor of others
\* than C has.)
Meaning(e) == CASE e = "n" -> "\n" [] e = "t" -> "\t" [] e = "r" -> "\r" [] e = "f" -> "\f"
                [] e = "v" -> "VT" [] e = "a" -> "BEL" [] e = "b" -> "BS" [] e = "0" -> "NUL"
                [] OTHER -> e

Escapes(t, l) == {Escape(t, k) : k \in {m \in (l.first + 1)..(l.last - 1) : Shielded(t, l.first, m)}}

\* The characters that stand in a literal that begins at i, up to every place.
ReadFrom(t, i) ==
  LET Read[k \in i..Len(t)] ==
        IF k = i THEN <<>>
        ELSE IF Shielded(t, i, k) THEN Append(Read[k - 1], Meaning(Escape(t, k)))
        ELSE IF t[k] = "\\" THEN Read[k - 1]
        ELSE Append(Read[k - 1], t[k])
  IN  Read

Contents(t, l) == ReadFrom(t, l.first)[l.last - 1]

Opens(s, kind) == s # <<>> /\ s[1].kind = kind

IsLiteral(l) == l.kind \in {"STRING", "CHAR"}

\* A token: a lexeme, and for a literal the escapes in it and what it stands for.
Token(t, l) == [kind    |-> l.kind, first |-> l.first, last |-> l.last,
                escapes |-> IF IsLiteral(l) THEN Escapes(t, l) ELSE {},
                means   |-> IF IsLiteral(l) THEN Contents(t, l) ELSE <<>>]

\* A string literal and the string that continues it.
Joined(tok, next) == [kind    |-> "STRING", first |-> tok.first, last |-> next.last,
                      escapes |-> tok.escapes \cup next.escapes,
                      means   |-> tok.means \o next.means]

\* The tokens of t from every place on: no comments, and a string literal is one with
\* the string behind it.
TokensFrom(t) ==
  LET ls == LexemesFrom(t)
      From[i \in 1..(Len(t) + 1)] ==
        IF ls[i] = <<>> THEN <<>>
        ELSE LET l    == ls[i][1]
                 rest == From[l.last + 1]
             IN  IF l.kind = "COMMENT" THEN rest
                 ELSE IF l.kind = "STRING" /\ Opens(rest, "STRING")
                 THEN <<Joined(Token(t, l), rest[1])>> \o Tail(rest)
                 ELSE <<Token(t, l)>> \o rest
  IN  From

Tokens(t) == TokensFrom(t)[1]

\* The number that digits are the positional notation of.
Written(base, ds) ==
  LET Worth(d) == CHOOSE n \in 0..9 : ToString(n) = d
  IN  FoldLeft(LAMBDA v, d : base * v + Worth(d), 0, ds)

IsOctal(ds) == Len(ds) > 1 /\ ds[1] = "0"

\* What an integer constant is worth.
Constant(ds) == Written(IF IsOctal(ds) THEN 8 ELSE 10, ds)

\* A backslash joins two lines.
Splices(t) == \E k \in 1..(Len(t) - 1) : t[k] = "\\" /\ t[k + 1] = "\n"

\* A number and a point that touch, which are one number.
Floats(t) ==
  \E l, next \in ToSet(Lexemes(t)) :
    /\ next.first = l.last + 1
    /\ \/ l.kind = "NUM" /\ t[next.first] = "."
       \/ next.kind = "NUM" /\ t[l.first] = "." /\ l.last = l.first

\* Two string literals with a comment between them.
CommentJoinsStrings(t) ==
  \E l \in ToSet(Lexemes(t)) : /\ l.kind = "STRING"
                               /\ Opens(LexemesFrom(t)[l.last + 1], "COMMENT")
                               /\ Opens(TokensFrom(t)[l.last + 1], "STRING")
=============================================================================
