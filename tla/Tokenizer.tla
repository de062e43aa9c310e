------------------------------ MODULE Tokenizer ------------------------------
(***************************************************************************)
(* tokenize.c: one pass over the text of the file that main.c has read.    *)
(* Every iteration of a loop of tokenize() is a step. The pointer p is an  *)
(* index into the text; the NUL behind the text is at Len(text) + 1.       *)
(***************************************************************************)
EXTENDS StringBuilder, Integers, FiniteSets, FiniteSetsExt

CONSTANTS Files,     \* contents of the files to compile, sequences of characters
          Letters,   \* what isalpha accepts
          Keywords,  \* the table kwds, as sequences of characters
          IntMax, LongMax

VARIABLES text,              \* what read_file returned
          p, loc_line, loc_column,
          tokens,
          string_literals,
          sb,                \* the builder of the string being read
          phase              \* the loop the scanner is in, or how it ended

vars == <<text, p, loc_line, loc_column, tokens, string_literals, sb, phase>>

Blanks == {" ", "\t", "\r", "\n", "\f", "VT"}
Digits == {"0", "1", "2", "3", "4", "5", "6", "7", "8", "9"}

\* Junk is told apart from every character a string can hold, escaped or not.
ASSUME FilesAssumption == /\ Files \subseteq Seq(STRING)
                          /\ \A file \in Files : Junk \notin ToSet(file)

ASSUME JunkAssumption == Junk \notin {Nul, "\n", "\r", "n", "\\", "\""}

\* The table of operators. mem_op returns the first that fits.
ops == <<
  <<".", ".", ".">>,
  <<"*", "=">>, <<"/", "=">>, <<"%", "=">>, <<"+", "=">>, <<"-", "=">>,
  <<"<", "<", "=">>, <<">", ">", "=">>, <<"&", "=">>, <<"^", "=">>, <<"|", "=">>,
  <<"&", "&">>, <<"|", "|">>, <<"=", "=">>, <<"!", "=">>, <<"<", "=">>, <<">", "=">>,
  <<"<", "<">>, <<">", ">">>, <<"-", ">">>, <<"+", "+">>, <<"-", "-">>,
  <<"+">>, <<"-">>, <<"*">>, <<"/">>, <<"(">>, <<")">>, <<"<">>, <<">">>, <<"=">>,
  <<";">>, <<"{">>, <<"}">>, <<",">>, <<"&">>, <<"[">>, <<"]">>,
  <<"!">>, <<"?">>, <<":">>, <<"|">>, <<"^">>, <<"%">>, <<".">>, <<"~">> >>

\* isalpha accepts nothing that means something else here.
ASSUME LettersAssumption == /\ Letters \cap (Blanks \cup {Nul, "'"}) = {}
                            /\ \A op \in ToSet(ops) : Letters \cap ToSet(op) = {}

ASSUME QuoteAssumption == "\"" \notin Letters

ASSUME WidthAssumption == IntMax \in Nat /\ LongMax \in Nat /\ IntMax < LongMax

C == INSTANCE CLexemes WITH Punctuators <- ToSet(ops)

At(i) == IF i <= Len(text) THEN text[i] ELSE Nul

Starts(i, s) == \A k \in DOMAIN s : At(i + k - 1) = s[k]

\* Mutant: a longer operator is tried after its own prefix.
MemOpBackwards(i) == LET n == SelectLastInSeq(ops, LAMBDA op : Starts(i, op))
                     IN  IF n = 0 THEN <<>> ELSE ops[n]

MemOp(i) == LET n == SelectInSeq(ops, LAMBDA op : Starts(i, op))
            IN  IF n = 0 THEN <<>> ELSE ops[n]

\* The length of the run of characters of S at i.
Span(i, S) ==
  LET past == {k \in i..(Len(text) + 1) : At(k) \notin S}
  IN  (CHOOSE k \in past : \A l \in past : k <= l) - i

\* What a character behind a backslash stands for.
Escaped(c) == CASE c = "n" -> "\n" [] c = "r" -> "\r" [] c = "0" -> Nul [] OTHER -> c

\* What the int of a token keeps of a long.
Wrapped(n) == ((n + IntMax + 1) % (2 * (IntMax + 1))) - (IntMax + 1)

\* strtol, for the digits of a number: always decimal, and LONG_MAX at most.
Value(ds) == LET n == C!Written(10, ds)
             IN  IF n <= IntMax THEN n ELSE Wrapped(IF n <= LongMax THEN n ELSE LongMax)

NewToken(kind, str, val) ==
  [kind |-> kind, str |-> str, val |-> val, line |-> loc_line, column |-> loc_column]

Push(kind, str, val) == tokens' = Append(tokens, NewToken(kind, str, val))

-----------------------------------------------------------------------------

\* Mutant: the file is taken as it is.
ReadFileAsIs(file) == file

\* The text always ends in a newline.
ReadFile(file) == IF file = <<>> \/ Last(file) # "\n" THEN Append(file, "\n") ELSE file

Init == /\ \E file \in Files : text = ReadFile(file)
        /\ p = 1 /\ loc_line = 1 /\ loc_column = 1
        /\ tokens = <<>> /\ string_literals = <<>> /\ sb = NewBuilder
        /\ phase = "scan"

SkipColumn(n) == p' = p + n /\ loc_column' = loc_column + n /\ UNCHANGED loc_line

SkipLine == p' = p + 1 /\ loc_line' = loc_line + 1 /\ loc_column' = 1

SkipChar == IF At(p) = "\n" THEN SkipLine ELSE SkipColumn(1)

Goto(next) == phase' = next /\ UNCHANGED <<text, tokens, string_literals, sb>>

\* error_loc2 prints and exits.
Error == phase' = "exit"
         /\ UNCHANGED <<text, p, loc_line, loc_column, tokens, string_literals, sb>>

Space == /\ phase = "scan" /\ At(p) \in Blanks
         /\ SkipChar /\ Goto("scan")

InLine == /\ \/ phase = "scan" /\ Starts(p, <<"/", "/">>)
             \/ phase = "line" /\ At(p) # "\n"
          /\ SkipColumn(1) /\ Goto("line")

EndLine == /\ phase = "line" /\ At(p) = "\n"
           /\ SkipLine /\ Goto("scan")

BeginComment == /\ phase = "scan" /\ Starts(p, <<"/", "*">>)
                /\ SkipColumn(2) /\ Goto("comment")

InComment == /\ phase = "comment" /\ At(p) # Nul /\ ~Starts(p, <<"*", "/">>)
             /\ SkipChar /\ Goto("comment")

\* Mutant: the end of a comment is seen and not skipped.
EndCommentStuck == /\ phase = "comment"
                   /\ IF At(p) = Nul THEN Error
                      ELSE Starts(p, <<"*", "/">>) /\ SkipColumn(0) /\ Goto("comment")

EndComment == /\ phase = "comment"
              /\ IF At(p) = Nul THEN Error
                 ELSE Starts(p, <<"*", "/">>) /\ SkipColumn(2) /\ Goto("scan")

-----------------------------------------------------------------------------

InString(builder) == /\ sb' = builder /\ phase' = "string"
                     /\ UNCHANGED <<text, tokens, string_literals>>

BeginString == /\ phase = "scan" /\ At(p) = "\""
               /\ SkipColumn(1) /\ InString(NewBuilder)

\* A backslash and the character behind it are one iteration.
StringEscape == /\ phase = "string" /\ At(p) = "\\" /\ At(p + 1) # Nul
                /\ IF At(p + 1) = "\n"
                   THEN p' = p + 2 /\ loc_line' = loc_line + 1 /\ loc_column' = 1
                   ELSE SkipColumn(2)
                /\ InString(AppendChar(sb, Escaped(At(p + 1))))

StringChar == /\ phase = "string" /\ At(p) \notin {Nul, "\""}
              /\ ~(At(p) = "\\" /\ At(p + 1) # Nul)
              /\ SkipChar /\ InString(AppendChar(sb, At(p)))

StringClose == /\ phase = "string" /\ At(p) = "\""
               /\ SkipColumn(1) /\ Goto("closed")

StringSpace == /\ phase = "closed" /\ At(p) \in Blanks
               /\ SkipChar /\ Goto("closed")

\* A string behind a string continues it.
StringGoesOn == /\ phase = "closed" /\ At(p) = "\""
                /\ SkipColumn(1) /\ InString(sb)

StringDone == /\ phase = "closed" /\ At(p) \notin Blanks \cup {"\"", Nul}
              /\ Push("STRING", Build(sb), 0)
              /\ string_literals' = Append(string_literals, Build(sb))
              /\ phase' = "scan" /\ sb' = NewBuilder
              /\ UNCHANGED <<text, p, loc_line, loc_column>>

\* The end of the text, which also is an error behind a string that was closed.
StringAtEnd == phase \in {"string", "closed"} /\ At(p) = Nul /\ Error

\* Mutant: an escape counts as one character.
CharEndPlain == p + 2

\* Where the quote is expected that closes the character literal at p.
CharEnd == IF At(p + 2) # Nul /\ At(p + 1) = "\\" THEN p + 3 ELSE p + 2

CharLiteral ==
  LET content == At(CharEnd - 1)
  IN  /\ phase = "scan" /\ At(p) = "'"
      /\ IF content = Nul \/ At(CharEnd) # "'" THEN Error
         ELSE /\ Push("CHAR", <<IF CharEnd = p + 3 THEN Escaped(content) ELSE content>>, 0)
              /\ IF content = "\n"
                 THEN p' = CharEnd + 1 /\ loc_line' = loc_line + 1 /\ loc_column' = 2
                 ELSE SkipColumn(CharEnd + 1 - p)
              /\ UNCHANGED <<text, string_literals, sb, phase>>

AtToken == /\ phase = "scan" /\ At(p) \notin Blanks \cup {"\"", "'", Nul}
           /\ ~Starts(p, <<"/", "/">>) /\ ~Starts(p, <<"/", "*">>)

\* Mutant: the token is made when its text is skipped.
OperatorLate == LET op == MemOp(p)
                IN  /\ AtToken /\ op # <<>>
                    /\ SkipColumn(Len(op))
                    /\ tokens' = Append(tokens, [NewToken("KWD", op, 0) EXCEPT !.column = loc_column'])
                    /\ UNCHANGED <<text, string_literals, sb, phase>>

Operator == LET op == MemOp(p)
            IN  /\ AtToken /\ op # <<>>
                /\ Push("KWD", op, 0)
                /\ SkipColumn(Len(op)) /\ UNCHANGED <<text, string_literals, sb, phase>>

Number == LET n == Span(p, Digits)
          IN  /\ AtToken /\ n > 0
              /\ Push("NUM", <<>>, Value(SubSeq(text, p, p + n - 1)))
              /\ SkipColumn(n) /\ UNCHANGED <<text, string_literals, sb, phase>>

KindOf(word) == IF word \in Keywords THEN "KWD" ELSE "IDT"

Word == LET n == Span(p, Letters \cup Digits \cup {"_"})
            word == SubSeq(text, p, p + n - 1)
        IN  /\ AtToken /\ n > 0 /\ At(p) \notin Digits
            /\ Push(KindOf(word), word, 0)
            /\ SkipColumn(n) /\ UNCHANGED <<text, string_literals, sb, phase>>

Unknown == /\ AtToken /\ MemOp(p) = <<>>
           /\ At(p) \notin Letters \cup Digits \cup {"_"}
           /\ Error

End == /\ phase = "scan" /\ At(p) = Nul
       /\ Goto("done") /\ UNCHANGED <<p, loc_line, loc_column>>

Stop == phase \in {"done", "exit"} /\ UNCHANGED vars

Step == \/ Space \/ InLine \/ EndLine \/ BeginComment \/ InComment \/ EndComment
        \/ BeginString \/ StringEscape \/ StringChar \/ StringClose
        \/ StringSpace \/ StringGoesOn \/ StringDone \/ StringAtEnd
        \/ CharLiteral \/ Operator \/ Number \/ Word \/ Unknown \/ End

Next == Step \/ Stop

\* The compiler is one process that nothing blocks, so it keeps running.
Spec == Init /\ [][Next]_vars /\ WF_vars(Step)

-----------------------------------------------------------------------------
\* The place of the character at i, as an editor shows it.
Newlines(i) == {k \in 1..(i - 1) : text[k] = "\n"}

Line(i) == 1 + Cardinality(Newlines(i))

Column(i) == i - Max({0} \cup Newlines(i))

Kinds == {"KWD", "NUM", "IDT", "CHAR", "STRING"}

\* A builder is inside its block and every byte of the string was written, however
\* often the block has grown.
Holds(b) == /\ ~b.strayed
            /\ \A k \in 0..(b.len - 1) : b.data[k] # Junk

\* No loop runs past the NUL: neither the line comment, which looks only for a
\* newline (tokenize.c:87), nor the steps of two characters. No byte of a literal
\* is lost when its builder grows.
TypeOK == /\ p \in 1..(Len(text) + 1) /\ loc_line \in Nat /\ loc_column \in Nat
          /\ phase \in {"scan", "line", "comment", "string", "closed", "done", "exit"}
          /\ \A tok \in ToSet(tokens) : tok.kind \in Kinds
          /\ Holds(sb)

\* Where a string is located: new_token is called when the string and the blanks behind
\* it are read (tokenize.c:134).
BehindString(q) == q > 1 /\ At(q - 1) \in Blanks \cup {"\""} /\ At(q) \notin Blanks \cup {"\""}

\* What stands in the text where a token is located.
Begins(tok, q) == CASE tok.kind = "NUM"    -> At(q) \in Digits
                    [] tok.kind = "CHAR"   -> At(q) = "'"
                    [] tok.kind = "STRING" -> BehindString(q)
                    [] OTHER               -> Starts(q, tok.str)

\* The place that errors are reported at, and that tokens are given, is the line and
\* the column of p at every step, although every branch advances them in its own way;
\* so a token is located at its first character, but a string behind it.
PlacesKept ==
  /\ loc_line = Line(p) /\ loc_column = Column(p)
  /\ \A tok \in ToSet(tokens) : \E q \in DOMAIN text :
       tok.line = Line(q) /\ tok.column = Column(q) /\ Begins(tok, q)

\* The escapes that ccatd and C read alike. It knows no others, but takes the character
\* behind the backslash for itself, the first digit of an octal escape as well.
KnownEscapes == {"n", "r", "0", "'", "\"", "?", "\\"}

\* Where the token of C is located.
PlaceOf(c) == IF c.kind = "STRING" THEN c.last + 1 + Span(c.last + 1, Blanks) ELSE c.first

\* The token of the code is that of C. What it holds may differ for literals with other
\* escapes, and for numbers that are octal or beyond an int; a string is cut at a NUL in it.
Agrees(tok, c) ==
  LET word == SubSeq(text, c.first, c.last)
  IN  /\ tok.kind = c.kind /\ tok.line = Line(PlaceOf(c)) /\ tok.column = Column(PlaceOf(c))
      /\ c.kind \in {"KWD", "IDT"} => tok.str = word
      /\ c.kind = "NUM" /\ ~C!IsOctal(word) /\ C!Constant(word) <= IntMax =>
           tok.val = C!Constant(word)
      /\ c.escapes \subseteq KnownEscapes =>
           /\ c.kind = "CHAR" => tok.str = c.means
           /\ c.kind = "STRING" => tok.str = UpToNul(c.means)

\* The whole text is scanned as C scans it: the order of the branches and of the
\* table ops gives the longest token everywhere, located where it begins, and what it
\* holds is what C says, up to the cases of Agrees. Strings with a comment between them
\* stay apart, though, spliced lines are not joined, and C's floating constants are taken
\* apart.
ScansAsC ==
  /\ phase = "done" /\ C!Lexable(text)
  /\ ~C!CommentJoinsStrings(text) /\ ~C!Splices(text) /\ ~C!Floats(text)
  => /\ Len(tokens) = Len(C!Tokens(text))
     /\ \A k \in 1..Len(tokens) : Agrees(tokens[k], C!Tokens(text)[k])

\* What ccatd lets through at i although it is none of the tokens here: a number that runs
\* into a word (in C a number with a suffix or in hexadecimal, if anything), a literal that
\* holds a raw newline, and a raw quote between quotes.
LenientAt(t, i) ==
  \/ \E j \in (i + 1)..Len(t) : t[j] \in Letters \cup {"_"} /\ \A k \in i..(j - 1) : t[k] \in Digits
  \/ /\ t[i] \in {"\"", "'"}
     /\ \E j \in i..Len(t) : C!Enclosed(t, i, j) /\ ~C!OneLine(t, i, j)
  \/ i + 2 <= Len(t) /\ t[i] = "'" /\ t[i + 1] = "'" /\ t[i + 2] = "'"

\* A character constant that is not one character or a backslash and one.
LongCharacter(t, l) ==
  l.kind = "CHAR" /\ l.last # l.first + (IF t[l.first + 1] = "\\" THEN 3 ELSE 2)

\* A text that C can scan is refused in two cases only: nothing but blanks is
\* behind its last string (tokenize.c:128 tests for the end of the text, not for
\* the quote that closes the string), or a character constant is longer than one
\* character, which octal and hexadecimal escapes are as well.
RefusesOnly ==
  phase = "exit" /\ C!Lexable(text) =>
    \/ Last(C!Lexemes(text)).kind = "STRING"
    \/ \E l \in ToSet(C!Lexemes(text)) : LongCharacter(text, l)

\* A text that C cannot scan is let through only for one of the reasons above, right where
\* C finds the first error.
LetsThroughOnly == phase = "done" /\ ~C!Lexable(text) => LenientAt(text, C!FirstBad(text))

\* ccatd and C accept the same texts, up to the named exceptions on either side, if no
\* lines are spliced. (A NUL is where ccatd takes the text to end, whatever is behind it.)
AcceptsAsC ==
  Nul \notin ToSet(text) /\ ~C!Splices(text) => RefusesOnly /\ LetsThroughOnly

\* What the assembler takes an escape for.
AssemblerEscape(c) == CASE c = "n" -> "\n" [] c = "t" -> "\t" [] c = "r" -> "\r" [] c = "f" -> "\f"
                        [] c = "b" -> "BS" [] OTHER -> c

\* What the assembler makes of the bytes between quotes: a backslash takes the
\* next character with it, and a quote without one ends the string.
Assembled(s) ==
  LET Read(st, ch) ==
        IF st.ended THEN st
        ELSE IF st.escape THEN [st EXCEPT !.escape = FALSE, !.s = Append(@, AssemblerEscape(ch))]
        ELSE CASE ch = "\\" -> [st EXCEPT !.escape = TRUE]
               [] ch = "\"" -> [st EXCEPT !.ended = TRUE]
               [] OTHER     -> [st EXCEPT !.s = Append(@, ch)]
  IN  FoldLeft(Read, [s |-> <<>>, escape |-> FALSE, ended |-> FALSE], s)

\* The program gets the string of the token, whatever quotes, backslashes and
\* newlines it holds: the assembler reads it to the quote that gen_str closes it
\* with, and no byte is lost when the builder of escape_string grows, within an escape
\* sequence either. (ScansAsC says that it is the literal of the source.)
LiteralArrives ==
  \A s \in ToSet(string_literals) :
    /\ Holds(escape_string(s))
    /\ Assembled(Build(escape_string(s))) = [s |-> s, escape |-> FALSE, ended |-> FALSE]

\* Every scan ends: each iteration of each loop makes progress towards the NUL,
\* whatever the text is.
Terminates == <>(phase \in {"done", "exit"})
=============================================================================
