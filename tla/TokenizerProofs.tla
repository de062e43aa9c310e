-------------------------- MODULE TokenizerProofs --------------------------
(***************************************************************************)
(* Theorems about the tokenizer, for every text: every loop keeps its      *)
(* pointer inside the text, the builder of a string is never written or    *)
(* read outside of what it has, every token is located where it is, every  *)
(* literal of a token arrives in the program, the tokens are those of C up *)
(* to the named differences, and so are the texts that are accepted.       *)
(***************************************************************************)
EXTENDS Tokenizer, SequenceTheorems, FiniteSetTheorems, WellFoundedInduction, TLAPS

\* The characters of a text: files are made of strings, and a newline may be added.
Chars == STRING \cup {"\n"}

\* What the text is once it is read: it ends in a newline.
TextOK == /\ text \in Seq(Chars) /\ text # <<>> /\ text[Len(text)] = "\n"
          /\ \A k \in DOMAIN text : text[k] # Junk

\* A builder is a block of its capacity, of which it has written the first bytes.
BuilderOK(b) ==
  /\ DOMAIN b = {"len", "cap", "data", "strayed"}
  /\ b.len \in Nat /\ b.cap \in Nat \ {0} /\ b.len <= b.cap
  /\ DOMAIN b.data = 0..(b.cap - 1) /\ b.strayed = FALSE
  /\ \A k \in 0..(b.len - 1) : b.data[k] # Junk

\* How far a loop may have gone, and what it has behind it.
PhaseOK ==
  /\ phase \in {"scan", "line", "comment", "string", "closed", "done", "exit"}
  /\ phase = "line" => p <= Len(text)
  /\ phase = "closed" => p > 1 /\ At(p - 1) \in Blanks \cup {"\""}

\* A token and where it begins.
Located(tok, q) == tok.line = Line(q) /\ tok.column = Column(q) /\ Begins(tok, q)

TokenOK(tok) == tok.kind \in Kinds /\ \E q \in DOMAIN text : Located(tok, q)

Placed == p \in 1..(Len(text) + 1) /\ loc_line = Line(p) /\ loc_column = Column(p)

TokensOK == /\ tokens \in Seq(ToSet(tokens))
            /\ \A tok \in ToSet(tokens) : TokenOK(tok)

Kept == TextOK /\ BuilderOK(sb) /\ TokensOK

IInv == Kept /\ Placed /\ PhaseOK

-----------------------------------------------------------------------------
\* Numbers have a least one, and finitely many a greatest.
LEMMA LeastExists ==
  ASSUME NEW S \in SUBSET Nat, S # {}
  PROVE  \E k \in S : \A l \in S : k <= l
<1>1. PICK k \in S : \A l \in S : ~(<<l, k>> \in OpToRel(<, Nat))
  BY WFMin, NatLessThanWellFounded, Zenon
<1>2. \A l \in S : ~(l < k)
  BY <1>1 DEF OpToRel
<1> QED
  BY <1>2

LEMMA GreatestExists ==
  ASSUME NEW n \in Nat, NEW S \in SUBSET (0..n), S # {}
  PROVE  \E k \in S : \A l \in S : k >= l
<1> DEFINE T == {m \in Nat : n - m \in S}
<1>1. \A k \in S : n - k \in T
  OBVIOUS
<1>2. PICK m \in T : \A l \in T : m <= l
  <2>1. T \in SUBSET Nat /\ T # {}
    BY <1>1
  <2> QED
    BY <2>1, LeastExists, Zenon
<1> QED
  BY <1>1, <1>2

LEMMA MaxIsGreatest ==
  ASSUME NEW n \in Nat, NEW S \in SUBSET (0..n), S # {}
  PROVE  Max(S) \in S /\ \A l \in S : Max(S) >= l
BY GreatestExists, Zenon DEF Max

LEMMA MinIsLeast ==
  ASSUME NEW S \in SUBSET Nat, S # {}
  PROVE  Min(S) \in S /\ \A l \in S : Min(S) <= l
BY LeastExists, Zenon DEF Min

-----------------------------------------------------------------------------
\* Places. A place is the same for as long as the text is.
LEMMA Unread ==
  ASSUME NEW i \in Nat \ {0}, text \in Seq(Chars), At(i) # Nul
  PROVE  i \in DOMAIN text /\ i \in 1..Len(text) /\ At(i) = text[i]
BY DEF At

LEMMA NewlinesAre ==
  ASSUME NEW i \in Nat \ {0}
  PROVE  /\ Newlines(i) \in SUBSET (1..(i - 1))
         /\ IsFiniteSet(Newlines(i)) /\ Cardinality(Newlines(i)) \in Nat
         /\ Max({0} \cup Newlines(i)) \in 0..(i - 1)
<1>1. Newlines(i) \in SUBSET (1..(i - 1))
  BY DEF Newlines
<1>2. IsFiniteSet(Newlines(i)) /\ Cardinality(Newlines(i)) \in Nat
  <2>1. IsFiniteSet(1..(i - 1))
    BY FS_Interval
  <2>2. IsFiniteSet(Newlines(i))
    BY <1>1, <2>1, FS_Subset
  <2> QED
    BY <2>2, FS_CardinalityType
<1>3. {0} \cup Newlines(i) \in SUBSET (0..(i - 1)) /\ {0} \cup Newlines(i) # {} /\ i - 1 \in Nat
  BY <1>1
<1>4. Max({0} \cup Newlines(i)) \in {0} \cup Newlines(i)
  BY <1>3, MaxIsGreatest, Zenon
<1> QED
  BY <1>1, <1>2, <1>3, <1>4

LEMMA PlaceType ==
  ASSUME NEW i \in Nat \ {0}
  PROVE  Line(i) \in Nat /\ Column(i) \in Nat
BY NewlinesAre DEF Line, Column

\* Where no newline is, the column counts on.
LEMMA Onward ==
  ASSUME NEW i \in Nat \ {0}, NEW n \in Nat, \A k \in i..(i + n - 1) : text[k] # "\n"
  PROVE  Line(i + n) = Line(i) /\ Column(i + n) = Column(i) + n
<1>1. Newlines(i + n) = Newlines(i)
  BY DEF Newlines
<1>2. Max({0} \cup Newlines(i)) \in 0..(i - 1)
  BY NewlinesAre
<1>3. Line(i + n) = Line(i)
  BY <1>1 DEF Line
<1>4. /\ Column(i + n) = (i + n) - Max({0} \cup Newlines(i))
      /\ Column(i) = i - Max({0} \cup Newlines(i))
  BY <1>1, Zenon DEF Column
<1> HIDE DEF Max, Newlines
<1> QED
  BY <1>2, <1>3, <1>4

\* Behind a newline the first column of the next line is.
LEMMA NextLine ==
  ASSUME NEW i \in Nat \ {0}, text[i] = "\n"
  PROVE  Line(i + 1) = Line(i) + 1 /\ Column(i + 1) = 1
<1>1. Newlines(i + 1) = Newlines(i) \cup {i} /\ i \notin Newlines(i)
  BY DEF Newlines
<1>2. /\ IsFiniteSet(Newlines(i)) /\ Cardinality(Newlines(i)) \in Nat
      /\ Newlines(i) \in SUBSET (1..(i - 1))
  BY NewlinesAre
<1>3. Cardinality(Newlines(i + 1)) = Cardinality(Newlines(i)) + 1
  BY <1>1, <1>2, FS_AddElement
<1>4. Max({0} \cup Newlines(i + 1)) = i
  <2> DEFINE S == {0} \cup Newlines(i + 1)
  <2>1. S \in SUBSET (0..i) /\ S # {} /\ i \in S
    BY <1>1, <1>2
  <2> HIDE DEF S
  <2>2. Max(S) \in S /\ Max(S) >= i
    BY <2>1, MaxIsGreatest
  <2>3. Max(S) \in 0..i
    BY <2>1, <2>2, Zenon
  <2>4. Max(S) = i
    BY <2>2, <2>3
  <2> QED
    BY <2>4 DEF S
<1> QED
  BY <1>2, <1>3, <1>4 DEF Line, Column

LEMMA PlaceKept ==
  ASSUME text' = text, NEW i, p' = i
  PROVE  Line(p)' = Line(i) /\ Column(p)' = Column(i)
BY DEF Line, Column, Newlines

LEMMA LocatedKept ==
  ASSUME text' = text, NEW tok, NEW q, Located(tok, q)
  PROVE  Located(tok, q)'
BY DEF Located, Line, Column, Newlines, Begins, BehindString, At, Starts

-----------------------------------------------------------------------------
\* Tokens keep their places, and one more is located like the others.
LEMMA TokenKept ==
  ASSUME text' = text, NEW tok, TokenOK(tok)
  PROVE  TokenOK(tok)'
<1>1. PICK q \in DOMAIN text : Located(tok, q)
  BY DEF TokenOK
<1>2. Located(tok, q)'
  BY <1>1, LocatedKept
<1>3. q \in DOMAIN text'
  BY <1>1
<1> QED
  BY <1>2, <1>3 DEF TokenOK, Kinds

LEMMA TokensKept ==
  ASSUME text' = text, tokens' = tokens, TokensOK
  PROVE  TokensOK'
<1>1. ToSet(tokens)' = ToSet(tokens)
  BY DEF ToSet
<1>2. ASSUME NEW tok \in ToSet(tokens)
      PROVE  TokenOK(tok)'
  BY TokenKept DEF TokensOK
<1> QED
  BY <1>1, <1>2 DEF TokensOK

LEMMA TokenAdded ==
  ASSUME text' = text, NEW tok, tokens' = Append(tokens, tok), TokenOK(tok), TokensOK
  PROVE  TokensOK'
<1> DEFINE S == ToSet(tokens) \cup {tok}
<1>1. tokens \in Seq(S)
  BY DEF TokensOK
<1>2. tokens' \in Seq(S) /\ DOMAIN tokens' = 1..(Len(tokens) + 1) /\ DOMAIN tokens = 1..Len(tokens)
      /\ Len(tokens) \in Nat
  BY <1>1
<1>3. (\A k \in 1..Len(tokens) : tokens'[k] = tokens[k]) /\ tokens'[Len(tokens) + 1] = tok
  BY <1>1
<1>4. ToSet(tokens)' = S
  BY <1>2, <1>3 DEF ToSet
<1>5. ASSUME NEW t \in S
      PROVE  TokenOK(t)'
  BY TokenKept DEF TokensOK
<1> QED
  BY <1>2, <1>4, <1>5 DEF TokensOK

-----------------------------------------------------------------------------
\* The builder.
LEMMA JunkIs == Junk \notin {Nul, "\n", "\r"}
BY JunkAssumption, Zenon

LEMMA NewBuilderOK == BuilderOK(NewBuilder)
<1>1. Capacity \in Nat \ {0} /\ Nul # Junk
  BY BuilderAssumption, JunkIs
<1> QED
  BY <1>1 DEF BuilderOK, NewBuilder

LEMMA GrownOK ==
  ASSUME NEW b, BuilderOK(b)
  PROVE  BuilderOK(Grown(b)) /\ Grown(b).len = b.len /\ Grown(b).cap = 2 * b.cap
<1> DEFINE g == Grown(b)
<1>1. /\ DOMAIN b = {"len", "cap", "data", "strayed"}
      /\ b.len \in Nat /\ b.cap \in Nat \ {0} /\ b.len <= b.cap
      /\ \A k \in 0..(b.len - 1) : b.data[k] # Junk
  BY DEF BuilderOK
<1>2. DOMAIN g = {"len", "cap", "data", "strayed"} /\ g.len = b.len /\ g.cap = 2 * b.cap
  BY <1>1 DEF Grown
<1>3. g.data = [k \in 0..(2 * b.cap - 1) |-> IF k < b.cap THEN b.data[k] ELSE Junk]
  BY <1>1 DEF Grown
<1>4. g.strayed = b.strayed
  BY <1>1 DEF Grown
<1>5. b.strayed = FALSE
  BY Zenon DEF BuilderOK
<1> HIDE DEF g
<1>6. DOMAIN g.data = 0..(g.cap - 1) /\ \A k \in 0..(g.len - 1) : g.data[k] # Junk
  BY <1>1, <1>2, <1>3
<1>7. g.len \in Nat /\ g.cap \in Nat \ {0} /\ g.len <= g.cap
  BY <1>1, <1>2
<1>8. BuilderOK(g)
  BY <1>2, <1>4, <1>5, <1>6, <1>7, Zenon DEF BuilderOK
<1> QED
  BY <1>2, <1>8 DEF g

LEMMA WrittenOK ==
  ASSUME NEW b, BuilderOK(b), b.len < b.cap, NEW ch, ch # Junk
  PROVE  BuilderOK(Written(b, ch))
<1> DEFINE w == Written(b, ch)
<1>1. /\ DOMAIN b = {"len", "cap", "data", "strayed"}
      /\ b.len \in Nat /\ b.cap \in Nat \ {0} /\ DOMAIN b.data = 0..(b.cap - 1)
      /\ \A k \in 0..(b.len - 1) : b.data[k] # Junk
  BY DEF BuilderOK
<1>2. b.len \in DOMAIN b.data
  BY <1>1
<1>3. DOMAIN w = {"len", "cap", "data", "strayed"} /\ w.len = b.len + 1 /\ w.cap = b.cap
  BY <1>1 DEF Written
<1>4. w.data = [k \in DOMAIN b.data \cup {b.len} |-> IF k = b.len THEN ch ELSE b.data[k]]
  BY <1>1 DEF Written
<1>5. w.strayed = FALSE
  <2>1. b.strayed = FALSE
    BY Zenon DEF BuilderOK
  <2>2. w.strayed = (b.strayed \/ b.len \notin DOMAIN b.data)
    BY <1>1, Zenon DEF Written
  <2> QED
    BY <2>1, <2>2, <1>2, Zenon
<1> HIDE DEF w
<1>6. DOMAIN w.data = 0..(w.cap - 1) /\ \A k \in 0..(w.len - 1) : w.data[k] # Junk
  BY <1>1, <1>2, <1>3, <1>4
<1>7. w.len \in Nat /\ w.cap \in Nat \ {0} /\ w.len <= w.cap
  BY <1>1, <1>3
<1>8. BuilderOK(w)
  BY <1>3, <1>5, <1>6, <1>7, Zenon DEF BuilderOK
<1> QED
  BY <1>8 DEF w

LEMMA AppendOK ==
  ASSUME NEW b, BuilderOK(b), NEW ch, ch # Junk
  PROVE  BuilderOK(AppendChar(b, ch))
<1>1. b.len \in Nat /\ b.cap \in Nat \ {0} /\ b.len <= b.cap
  BY DEF BuilderOK
<1>2. CASE b.len = b.cap
  <2>1. BuilderOK(Grown(b)) /\ Grown(b).len < Grown(b).cap
    BY <1>1, <1>2, GrownOK
  <2> QED
    BY <1>2, <2>1, WrittenOK DEF AppendChar
<1>3. CASE b.len # b.cap
  BY <1>1, <1>3, WrittenOK DEF AppendChar
<1> QED
  BY <1>2, <1>3

-----------------------------------------------------------------------------
\* A run of characters is in the text.
LEMMA SpanIs ==
  ASSUME text \in Seq(Chars), NEW i \in 1..(Len(text) + 1), NEW S, Nul \notin S
  PROVE  /\ Span(i, S) \in Nat
         /\ \A k \in i..(i + Span(i, S) - 1) : At(k) \in S
<1> DEFINE past == {k \in i..(Len(text) + 1) : At(k) \notin S}
           m == CHOOSE k \in past : \A l \in past : k <= l
<1>1. Len(text) \in Nat /\ At(Len(text) + 1) = Nul
  BY DEF At
<1>2. past \in SUBSET Nat /\ past # {}
  BY <1>1
<1>3. m \in past /\ \A l \in past : m <= l
  BY <1>2, LeastExists, Zenon
<1>4. Span(i, S) = m - i
  BY DEF Span
<1>5. m \in Nat /\ i <= m
  BY <1>3
<1>6. \A k \in i..(m - 1) : At(k) \in S
  BY <1>1, <1>3
<1> HIDE DEF m
<1> QED
  BY <1>4, <1>5, <1>6

\* What an operator is made of: nothing that ends a line or the text.
OpChars == {".", "*", "/", "%", "+", "-", "<", ">", "=", "&", "|", "^",
            "!", "(", ")", ";", "{", "}", ",", "[", "]", "?", ":", "~"}

LEMMA OpCharsAre == "\n" \notin OpChars /\ Nul \notin OpChars
BY DEF OpChars, Nul

LEMMA OpsAre ==
  /\ Len(ops) = 46
  /\ \A n \in 1..46 : ops[n] \in Seq(OpChars) \ {<<>>}
<1> DEFINE T == Seq(OpChars) \ {<<>>}
<1>1. /\ {".", "*", "/", "%", "+", "-", "<", ">", "=", "&", "|", "^"} \subseteq OpChars
      /\ {"!", "(", ")", ";", "{", "}", ",", "[", "]", "?", ":", "~"} \subseteq OpChars
  BY DEF OpChars
<1>2. \A a, b, c \in OpChars : <<a, b, c>> \in T /\ <<a, b>> \in T /\ <<a>> \in T
  OBVIOUS
<1>3. Len(ops) = 46
  BY DEF ops
<1> HIDE DEF T
<1>4. /\ ops[1] \in T /\ ops[2] \in T /\ ops[3] \in T /\ ops[4] \in T /\ ops[5] \in T
      /\ ops[6] \in T /\ ops[7] \in T /\ ops[8] \in T /\ ops[9] \in T /\ ops[10] \in T
  BY <1>1, <1>2 DEF ops
<1>5. /\ ops[11] \in T /\ ops[12] \in T /\ ops[13] \in T /\ ops[14] \in T /\ ops[15] \in T
      /\ ops[16] \in T /\ ops[17] \in T /\ ops[18] \in T /\ ops[19] \in T /\ ops[20] \in T
  BY <1>1, <1>2 DEF ops
<1>6. /\ ops[21] \in T /\ ops[22] \in T /\ ops[23] \in T /\ ops[24] \in T /\ ops[25] \in T
      /\ ops[26] \in T /\ ops[27] \in T /\ ops[28] \in T /\ ops[29] \in T /\ ops[30] \in T
  BY <1>1, <1>2 DEF ops
<1>7. /\ ops[31] \in T /\ ops[32] \in T /\ ops[33] \in T /\ ops[34] \in T /\ ops[35] \in T
      /\ ops[36] \in T /\ ops[37] \in T /\ ops[38] \in T /\ ops[39] \in T /\ ops[40] \in T
  BY <1>1, <1>2 DEF ops
<1>8. /\ ops[41] \in T /\ ops[42] \in T /\ ops[43] \in T /\ ops[44] \in T /\ ops[45] \in T
      /\ ops[46] \in T
  BY <1>1, <1>2 DEF ops
<1>9. \A n \in 1..46 : ops[n] \in T
  <2>1. \A n \in 1..20 : ops[n] \in T
    BY <1>4, <1>5
  <2>2. \A n \in 21..46 : ops[n] \in T
    BY <1>6, <1>7, <1>8
  <2> QED
    BY <2>1, <2>2
<1> QED
  BY <1>3, <1>9 DEF T

LEMMA FirstOfOps ==
  ASSUME NEW S, S # {}, \A n \in S : n \in 1..46
  PROVE  Min(S) \in S
BY MinIsLeast

LEMMA MemOpIs ==
  ASSUME NEW i, MemOp(i) # <<>>
  PROVE  MemOp(i) \in Seq(OpChars) \ {<<>>} /\ Starts(i, MemOp(i))
<1> DEFINE fits == {n \in 1..Len(ops) : Starts(i, ops[n])}
<1>1. fits # {} /\ MemOp(i) = ops[Min(fits)]
  BY DEF MemOp, SelectInSeq
<1>2. \A n \in fits : n \in 1..46 /\ Starts(i, ops[n])
  BY OpsAre, Zenon
<1>3. Min(fits) \in fits
  BY <1>1, <1>2, FirstOfOps, Zenon
<1>4. Min(fits) \in 1..46 /\ Starts(i, ops[Min(fits)])
  BY <1>2, <1>3, Zenon
<1> QED
  BY <1>1, <1>4, OpsAre

-----------------------------------------------------------------------------
\* The steps. What changes the pointer changes the place.
LEMMA TextIs ==
  ASSUME IInv
  PROVE  /\ Len(text) \in Nat \ {0} /\ DOMAIN text = 1..Len(text) /\ p \in Nat \ {0}
         /\ text \in Seq(Chars) /\ text[Len(text)] = "\n"
BY LenProperties, EmptySeq DEF IInv, Kept, TextOK, Placed

LEMMA ColumnSkipped ==
  ASSUME IInv, text' = text, NEW n \in Nat, SkipColumn(n),
         p + n <= Len(text) + 1, \A k \in p..(p + n - 1) : At(k) # "\n"
  PROVE  Placed'
<1>1. /\ Len(text) \in Nat \ {0} /\ p \in Nat \ {0} /\ p <= Len(text) + 1
      /\ text \in Seq(Chars)
  BY TextIs DEF IInv, Placed
<1>2. \A k \in p..(p + n - 1) : text[k] # "\n"
  BY <1>1 DEF At
<1>4. Line(p + n) = loc_line /\ Column(p + n) = loc_column + n
  <2>1. Line(p + n) = Line(p) /\ Column(p + n) = Column(p) + n
    BY <1>1, <1>2, Onward
  <2> QED
    BY <2>1 DEF IInv, Placed
<1>5. p' = p + n /\ loc_line' = loc_line /\ loc_column' = loc_column + n
  BY DEF SkipColumn
<1>6. Line(p)' = Line(p + n) /\ Column(p)' = Column(p + n)
  BY <1>5, PlaceKept
<1> QED
  BY <1>1, <1>4, <1>5, <1>6 DEF Placed

LEMMA LineSkipped ==
  ASSUME IInv, text' = text, SkipLine, At(p) = "\n"
  PROVE  Placed'
<1>1. Len(text) \in Nat \ {0} /\ p \in Nat \ {0} /\ p <= Len(text) + 1
  BY TextIs DEF IInv, Placed
<1>2. p <= Len(text) /\ text[p] = "\n"
  BY <1>1 DEF At, Nul
<1>3. Line(p + 1) = loc_line + 1 /\ Column(p + 1) = 1
  BY <1>1, <1>2, NextLine DEF IInv, Placed
<1>4. p' = p + 1 /\ loc_line' = loc_line + 1 /\ loc_column' = 1
  BY DEF SkipLine
<1>5. Line(p)' = Line(p + 1) /\ Column(p)' = Column(p + 1)
  BY <1>4, PlaceKept
<1> QED
  BY <1>1, <1>2, <1>3, <1>4, <1>5 DEF Placed

LEMMA CharSkipped ==
  ASSUME IInv, text' = text, SkipChar, At(p) # Nul
  PROVE  Placed' /\ p' = p + 1
<1>1. p \in Nat \ {0}
  BY TextIs
<1>2. CASE At(p) = "\n"
  <2>1. SkipLine
    BY <1>2 DEF SkipChar
  <2> QED
    BY <1>2, <2>1, LineSkipped DEF SkipLine
<1>3. CASE At(p) # "\n"
  <2>1. SkipColumn(1)
    BY <1>3 DEF SkipChar
  <2>2. p + 1 <= Len(text) + 1 /\ \A k \in p..(p + 1 - 1) : At(k) # "\n"
    BY <1>1, <1>3, TextIs, Unread
  <2>3. Placed'
    BY <2>1, <2>2, ColumnSkipped
  <2> QED
    BY <2>1, <2>3 DEF SkipColumn
<1> QED
  BY <1>2, <1>3

\* What moves only the pointer keeps the rest.
LEMMA GotoKeeps ==
  ASSUME IInv, NEW next, Goto(next)
  PROVE  Kept' /\ text' = text /\ phase' = next
<1>1. text' = text /\ tokens' = tokens /\ sb' = sb /\ phase' = next
  BY DEF Goto
<1>2. TokensOK'
  BY <1>1, TokensKept DEF IInv, Kept
<1> QED
  BY <1>1, <1>2 DEF IInv, Kept, TextOK

LEMMA InStringKeeps ==
  ASSUME IInv, NEW builder, InString(builder), BuilderOK(builder)
  PROVE  Kept' /\ PhaseOK' /\ text' = text
<1>1. text' = text /\ tokens' = tokens /\ sb' = builder /\ phase' = "string"
  BY DEF InString
<1>2. TokensOK'
  BY <1>1, TokensKept DEF IInv, Kept
<1>3. Kept'
  BY <1>1, <1>2 DEF IInv, Kept, TextOK
<1> QED
  BY <1>1, <1>3 DEF PhaseOK

\* A step into a phase that asks nothing of the pointer.
LEMMA PhaseFree ==
  ASSUME phase' \in {"scan", "comment", "string", "done", "exit"}
  PROVE  PhaseOK'
BY DEF PhaseOK

LEMMA Stays ==
  ASSUME IInv, UNCHANGED <<text, p, loc_line, loc_column>>
  PROVE  Placed'
<1>1. Line(p)' = Line(p) /\ Column(p)' = Column(p)
  BY DEF Line, Column, Newlines
<1> QED
  BY <1>1 DEF IInv, Placed

-----------------------------------------------------------------------------
\* Blanks and comments.
LEMMA BlanksAre == Nul \notin Blanks /\ "\n" \in Blanks
BY DEF Blanks, Nul

LEMMA SpaceKeeps ==
  ASSUME IInv, Space
  PROVE  IInv'
<1>1. At(p) # Nul /\ SkipChar /\ Goto("scan")
  BY BlanksAre DEF Space
<1>2. Kept' /\ text' = text /\ phase' = "scan"
  BY <1>1, GotoKeeps
<1> QED
  BY <1>1, <1>2, CharSkipped, PhaseFree DEF IInv

LEMMA InLineKeeps ==
  ASSUME IInv, InLine
  PROVE  IInv'
<1>1. /\ Len(text) \in Nat \ {0} /\ p \in Nat \ {0} /\ text \in Seq(Chars)
      /\ text[Len(text)] = "\n" /\ SkipColumn(1) /\ Goto("line")
  BY TextIs DEF InLine
<1>2. Kept' /\ text' = text /\ phase' = "line"
  BY <1>1, GotoKeeps
<1>3. At(p) # "\n" /\ p + 1 <= Len(text)
  <2>1. CASE phase = "scan" /\ Starts(p, <<"/", "/">>)
    <3>1. At(p) = "/" /\ At(p + 1) = "/"
      BY <2>1, <1>1 DEF Starts
    <3> QED
      BY <3>1, <1>1 DEF At, Nul
  <2>2. CASE phase = "line" /\ At(p) # "\n"
    <3>1. p <= Len(text) /\ text[p] # "\n"
      BY <2>2, <1>1 DEF IInv, PhaseOK, At
    <3>2. p # Len(text)
      BY <3>1, <1>1
    <3>3. p + 1 <= Len(text)
      BY <3>1, <3>2, <1>1
    <3> QED
      BY <2>2, <3>3
  <2> QED
    BY <2>1, <2>2 DEF InLine
<1>4. p + 1 <= Len(text) + 1 /\ \A k \in p..(p + 1 - 1) : At(k) # "\n"
  BY <1>1, <1>3
<1>5. Placed'
  BY <1>1, <1>2, <1>4, ColumnSkipped
<1>6. PhaseOK'
  BY <1>1, <1>2, <1>3 DEF PhaseOK, SkipColumn
<1> QED
  BY <1>2, <1>5, <1>6 DEF IInv

LEMMA EndLineKeeps ==
  ASSUME IInv, EndLine
  PROVE  IInv'
<1>1. At(p) = "\n" /\ SkipLine /\ Goto("scan")
  BY DEF EndLine
<1>2. Kept' /\ text' = text /\ phase' = "scan"
  BY <1>1, GotoKeeps
<1> QED
  BY <1>1, <1>2, LineSkipped, PhaseFree DEF IInv

\* One or two characters that are neither a newline nor the end of the text.
LEMMA OneSkipped ==
  ASSUME IInv, text' = text, At(p) \notin {Nul, "\n"}, SkipColumn(1)
  PROVE  Placed' /\ p' = p + 1
<1>1. Len(text) \in Nat /\ p \in Nat \ {0} /\ text \in Seq(Chars)
  BY TextIs
<1>2. p + 1 <= Len(text) + 1
  BY <1>1, Unread
<1>3. \A k \in p..(p + 1 - 1) : At(k) # "\n"
  BY <1>1
<1> QED
  BY <1>2, <1>3, ColumnSkipped DEF SkipColumn

LEMMA TwoSkipped ==
  ASSUME IInv, text' = text, At(p) \notin {Nul, "\n"}, At(p + 1) \notin {Nul, "\n"},
         SkipColumn(2)
  PROVE  Placed'
<1>1. /\ Len(text) \in Nat \ {0} /\ p \in Nat \ {0} /\ text \in Seq(Chars)
      /\ p + 1 \in Nat \ {0}
  BY TextIs
<1>2. p + 1 <= Len(text)
  BY <1>1, Unread
<1>3. p + 2 <= Len(text) + 1
  BY <1>1, <1>2
<1>4. \A k \in p..(p + 2 - 1) : At(k) # "\n"
  <2>1. \A k \in p..(p + 2 - 1) : k = p \/ k = p + 1
    BY <1>1
  <2> QED
    BY <2>1
<1> QED
  BY <1>3, <1>4, ColumnSkipped

LEMMA StartsTwo ==
  ASSUME NEW a, NEW b, Starts(p, <<a, b>>), p \in Nat
  PROVE  At(p) = a /\ At(p + 1) = b
<1>1. At(p + 1 - 1) = a /\ At(p + 2 - 1) = b
  BY DEF Starts
<1> QED
  BY <1>1

LEMMA BeginCommentKeeps ==
  ASSUME IInv, BeginComment
  PROVE  IInv'
<1>1. Starts(p, <<"/", "*">>) /\ SkipColumn(2) /\ Goto("comment")
  BY DEF BeginComment
<1>2. Kept' /\ text' = text /\ phase' = "comment"
  BY <1>1, GotoKeeps
<1>3. At(p) \notin {Nul, "\n"} /\ At(p + 1) \notin {Nul, "\n"}
  <2>1. At(p) = "/" /\ At(p + 1) = "*"
    BY <1>1, StartsTwo, TextIs
  <2> QED
    BY <2>1 DEF Nul
<1> QED
  BY <1>1, <1>2, <1>3, TwoSkipped, PhaseFree DEF IInv

LEMMA InCommentKeeps ==
  ASSUME IInv, InComment
  PROVE  IInv'
<1>1. At(p) # Nul /\ SkipChar /\ Goto("comment")
  BY DEF InComment
<1>2. Kept' /\ text' = text /\ phase' = "comment"
  BY <1>1, GotoKeeps
<1> QED
  BY <1>1, <1>2, CharSkipped, PhaseFree DEF IInv

LEMMA ErrorKeeps ==
  ASSUME IInv, Error
  PROVE  IInv'
<1>1. UNCHANGED <<text, p, loc_line, loc_column, tokens, sb>> /\ phase' = "exit"
  BY DEF Error
<1>2. TokensOK'
  BY <1>1, TokensKept DEF IInv, Kept
<1>3. Kept'
  BY <1>1, <1>2 DEF IInv, Kept, TextOK
<1> QED
  BY <1>1, <1>3, Stays, PhaseFree DEF IInv

LEMMA EndCommentKeeps ==
  ASSUME IInv, EndComment
  PROVE  IInv'
<1>1. CASE At(p) = Nul
  BY <1>1, ErrorKeeps DEF EndComment
<1>2. CASE At(p) # Nul
  <2>1. Starts(p, <<"*", "/">>) /\ SkipColumn(2) /\ Goto("scan")
    BY <1>2 DEF EndComment
  <2>2. Kept' /\ text' = text /\ phase' = "scan"
    BY <2>1, GotoKeeps
  <2>3. At(p) \notin {Nul, "\n"} /\ At(p + 1) \notin {Nul, "\n"}
    <3>1. At(p) = "*" /\ At(p + 1) = "/"
      BY <2>1, StartsTwo, TextIs
    <3> QED
      BY <3>1 DEF Nul
  <2> QED
    BY <2>1, <2>2, <2>3, TwoSkipped, PhaseFree DEF IInv
<1> QED
  BY <1>1, <1>2

-----------------------------------------------------------------------------
\* Strings.
LEMMA QuoteIs == "\"" \notin {Nul, "\n"} /\ "\\" \notin {Nul, "\n"} /\ "'" \notin {Nul, "\n"}
BY DEF Nul

LEMMA BeginStringKeeps ==
  ASSUME IInv, BeginString
  PROVE  IInv'
<1>1. At(p) \notin {Nul, "\n"} /\ SkipColumn(1) /\ InString(NewBuilder)
  BY QuoteIs, Zenon DEF BeginString
<1>2. Kept' /\ PhaseOK' /\ text' = text
  BY <1>1, NewBuilderOK, InStringKeeps
<1>3. Placed'
  BY <1>1, <1>2, OneSkipped
<1> QED
  BY <1>2, <1>3 DEF IInv

\* No character of the text is what an unwritten byte holds.
LEMMA CharsAre ==
  ASSUME IInv, NEW i \in Nat \ {0}
  PROVE  At(i) # Junk /\ Escaped(At(i)) # Junk
<1>1. Junk \notin {Nul, "\n", "\r"}
  BY JunkIs
<1>2. \A k \in DOMAIN text : text[k] # Junk
  BY DEF IInv, Kept, TextOK
<1>3. At(i) # Junk
  BY <1>1, <1>2, TextIs DEF At
<1> QED
  BY <1>1, <1>3 DEF Escaped

LEMMA StringCharKeeps ==
  ASSUME IInv, StringChar
  PROVE  IInv'
<1>1. At(p) # Nul /\ SkipChar /\ InString(AppendChar(sb, At(p)))
  BY DEF StringChar
<1>2. At(p) # Junk /\ BuilderOK(sb)
  BY CharsAre, TextIs DEF IInv, Kept
<1>3. BuilderOK(AppendChar(sb, At(p)))
  BY <1>2, AppendOK
<1>4. Kept' /\ PhaseOK' /\ text' = text
  BY <1>1, <1>3, InStringKeeps
<1> QED
  BY <1>1, <1>4, CharSkipped DEF IInv

\* A backslash and a newline are two characters, the second of which begins a line.
LEMMA StringEscapeKeeps ==
  ASSUME IInv, StringEscape
  PROVE  IInv'
<1>1. /\ At(p) = "\\" /\ At(p + 1) # Nul
      /\ InString(AppendChar(sb, Escaped(At(p + 1))))
  BY DEF StringEscape
<1>2. /\ Len(text) \in Nat \ {0} /\ p \in Nat \ {0} /\ p + 1 \in Nat \ {0} /\ text \in Seq(Chars)
  BY TextIs
<1>3. p + 1 <= Len(text) /\ At(p + 1) = text[p + 1] /\ text[p] = "\\"
  <2>1. p + 1 <= Len(text) /\ At(p + 1) = text[p + 1]
    BY <1>1, <1>2, Unread
  <2>2. text[p] = At(p)
    BY <2>1, <1>2 DEF At
  <2> QED
    BY <2>1, <2>2, <1>1
<1>4. Kept' /\ PhaseOK' /\ text' = text
  <2>1. Escaped(At(p + 1)) # Junk /\ BuilderOK(sb)
    BY <1>2, CharsAre DEF IInv, Kept
  <2>2. BuilderOK(AppendChar(sb, Escaped(At(p + 1))))
    BY <2>1, AppendOK
  <2> QED
    BY <1>1, <2>2, InStringKeeps
<1>5. Placed'
  <2>1. CASE At(p + 1) = "\n"
    <3>1. p' = p + 2 /\ loc_line' = loc_line + 1 /\ loc_column' = 1
      BY <2>1 DEF StringEscape
    <3>2. Line(p + 1) = loc_line
      <4>1. \A k \in p..(p + 1 - 1) : text[k] # "\n"
        BY <1>2, <1>3
      <4>2. Line(p + 1) = Line(p)
        BY <4>1, <1>2, Onward
      <4> QED
        BY <4>2 DEF IInv, Placed
    <3>3. Line(p + 1 + 1) = Line(p + 1) + 1 /\ Column(p + 1 + 1) = 1
      BY <1>2, <1>3, <2>1, NextLine
    <3>4. p + 1 + 1 = p + 2
      BY <1>2
    <3>5. Line(p)' = Line(p + 2) /\ Column(p)' = Column(p + 2)
      BY <1>4, <3>1, PlaceKept
    <3>6. loc_line' = Line(p)' /\ loc_column' = Column(p)'
      BY <3>1, <3>2, <3>3, <3>4, <3>5
    <3> QED
      BY <1>2, <1>3, <1>4, <3>1, <3>6 DEF Placed
  <2>2. CASE At(p + 1) # "\n"
    <3>1. SkipColumn(2)
      BY <2>2 DEF StringEscape
    <3>2. At(p) \notin {Nul, "\n"} /\ At(p + 1) \notin {Nul, "\n"}
      BY <1>1, <2>2, QuoteIs
    <3> QED
      BY <1>4, <3>1, <3>2, TwoSkipped
  <2> QED
    BY <2>1, <2>2
<1> QED
  BY <1>4, <1>5 DEF IInv

LEMMA Behind ==
  ASSUME p \in Nat \ {0}, p' = p + 1
  PROVE  p' > 1 /\ p' - 1 = p
OBVIOUS

\* A step of the loop over the blanks behind a string.
LEMMA ClosedKeeps ==
  ASSUME IInv, Goto("closed"), At(p) \in Blanks \cup {"\""}, p' = p + 1, Placed'
  PROVE  IInv'
<1>1. Kept' /\ text' = text /\ phase' = "closed"
  BY GotoKeeps
<1>2. p' > 1 /\ p' - 1 = p
  BY TextIs, Behind
<1>3. At(p - 1)' = At(p)
  BY <1>1, <1>2, Zenon DEF At
<1>4. PhaseOK'
  BY <1>1, <1>2, <1>3, Zenon DEF PhaseOK
<1> QED
  BY <1>1, <1>4 DEF IInv

LEMMA StringCloseKeeps ==
  ASSUME IInv, StringClose
  PROVE  IInv'
<1>1. At(p) = "\"" /\ SkipColumn(1) /\ Goto("closed") /\ At(p) \notin {Nul, "\n"}
  BY QuoteIs, Zenon DEF StringClose
<1>2. text' = text
  BY <1>1, Zenon DEF Goto
<1>3. Placed' /\ p' = p + 1
  BY <1>1, <1>2, OneSkipped, Zenon
<1> QED
  BY <1>1, <1>3, ClosedKeeps, Zenon

LEMMA StringSpaceKeeps ==
  ASSUME IInv, StringSpace
  PROVE  IInv'
<1>1. At(p) \in Blanks /\ SkipChar /\ Goto("closed") /\ At(p) # Nul
  BY BlanksAre DEF StringSpace
<1>2. text' = text
  BY <1>1 DEF Goto
<1>3. Placed' /\ p' = p + 1
  BY <1>1, <1>2, CharSkipped
<1> QED
  BY <1>1, <1>3, ClosedKeeps, Zenon

LEMMA StringGoesOnKeeps ==
  ASSUME IInv, StringGoesOn
  PROVE  IInv'
<1>1. At(p) \notin {Nul, "\n"} /\ SkipColumn(1) /\ InString(sb)
  BY QuoteIs, Zenon DEF StringGoesOn
<1>2. Kept' /\ PhaseOK' /\ text' = text
  BY <1>1, InStringKeeps DEF IInv, Kept
<1> QED
  BY <1>1, <1>2, OneSkipped DEF IInv

-----------------------------------------------------------------------------
\* Tokens.
LEMMA PushKeeps ==
  ASSUME IInv, text' = text, NEW kind, NEW str, NEW val, Push(kind, str, val),
         kind \in Kinds, p \in DOMAIN text, Begins(NewToken(kind, str, val), p)
  PROVE  TokensOK'
<1> DEFINE tok == NewToken(kind, str, val)
<1>1. tok.kind = kind /\ tok.line = loc_line /\ tok.column = loc_column
  BY DEF NewToken
<1>2. Begins(tok, p)
  OBVIOUS
<1>3. tokens' = Append(tokens, tok)
  BY DEF Push
<1> HIDE DEF tok
<1>4. Located(tok, p)
  BY <1>1, <1>2 DEF Located, IInv, Placed
<1>5. TokenOK(tok)
  BY <1>1, <1>4 DEF TokenOK
<1> QED
  BY <1>3, <1>5, TokenAdded DEF IInv, Kept

\* What begins at p, kind by kind.
LEMMA BeginsAs ==
  ASSUME NEW str, NEW val
  PROVE  /\ BehindString(p) => Begins(NewToken("STRING", str, val), p)
         /\ At(p) = "'" => Begins(NewToken("CHAR", str, val), p)
         /\ At(p) \in Digits => Begins(NewToken("NUM", str, val), p)
         /\ Starts(p, str) => Begins(NewToken("KWD", str, val), p)
         /\ Starts(p, str) => Begins(NewToken("IDT", str, val), p)
BY DEF Begins, NewToken

LEMMA TextKept ==
  ASSUME IInv, text' = text, TokensOK', BuilderOK(sb)'
  PROVE  Kept'
BY DEF IInv, Kept, TextOK

LEMMA StringDoneKeeps ==
  ASSUME IInv, StringDone
  PROVE  IInv'
<1>1. /\ phase = "closed" /\ At(p) \notin Blanks \cup {"\"", Nul}
      /\ Push("STRING", Build(sb), 0)
      /\ phase' = "scan" /\ sb' = NewBuilder /\ UNCHANGED <<text, p, loc_line, loc_column>>
  BY Zenon DEF StringDone
<1>2. BehindString(p)
  BY <1>1, Zenon DEF IInv, PhaseOK, BehindString
<1>3. At(p) # Nul
  BY <1>1, Zenon
<1>4. p \in DOMAIN text
  BY <1>3, TextIs, Unread, Zenon
<1>5. "STRING" \in Kinds
  BY DEF Kinds
<1>6. Begins(NewToken("STRING", Build(sb), 0), p)
  BY <1>2, BeginsAs, Zenon
<1>7. TokensOK'
  BY <1>1, <1>4, <1>5, <1>6, PushKeeps, Zenon
<1>8. BuilderOK(sb)'
  BY <1>1, NewBuilderOK, Zenon
<1>9. Kept'
  BY <1>1, <1>7, <1>8, TextKept, Zenon
<1>10. Placed'
  BY <1>1, Stays, Zenon
<1>11. PhaseOK'
  <2>1. phase' \in {"scan", "comment", "string", "done", "exit"}
    BY <1>1, Zenon
  <2> QED
    BY <2>1, PhaseFree, Zenon
<1> QED
  BY <1>9, <1>10, <1>11, Zenon DEF IInv

LEMMA StringAtEndKeeps ==
  ASSUME IInv, StringAtEnd
  PROVE  IInv'
BY ErrorKeeps DEF StringAtEnd

\* What a step that makes a token leaves alone.
LEMMA TokenMade ==
  ASSUME IInv, TokensOK', Placed', UNCHANGED <<text, sb, phase>>, phase = "scan"
  PROVE  IInv'
<1>1. BuilderOK(sb)'
  BY DEF IInv, Kept
<1>2. Kept'
  BY <1>1, TextKept
<1> QED
  BY <1>2, PhaseFree DEF IInv

\* A run of characters on one line is in the text.
LEMMA RunSkipped ==
  ASSUME IInv, text' = text, NEW n \in Nat \ {0}, SkipColumn(n),
         \A k \in p..(p + n - 1) : At(k) \notin {Nul, "\n"}
  PROVE  Placed' /\ p \in DOMAIN text /\ p + n - 1 \in 1..Len(text)
<1>1. /\ p \in Nat \ {0} /\ Len(text) \in Nat /\ text \in Seq(Chars)
  BY TextIs
<1>2. p + n - 1 \in Nat \ {0} /\ p + n - 1 \in p..(p + n - 1) /\ p \in p..(p + n - 1)
  BY <1>1
<1>3. p + n - 1 \in 1..Len(text) /\ p \in DOMAIN text
  BY <1>1, <1>2, Unread
<1>4. p + n <= Len(text) + 1
  BY <1>1, <1>3
<1> QED
  BY <1>3, <1>4, ColumnSkipped

LEMMA OperatorKeeps ==
  ASSUME IInv, Operator
  PROVE  IInv'
<1> DEFINE op == MemOp(p)
           n == Len(op)
<1>1. /\ phase = "scan" /\ op # <<>> /\ Push("KWD", op, 0) /\ SkipColumn(n)
      /\ UNCHANGED <<text, sb, phase>>
  BY Zenon DEF Operator, AtToken
<1>2. op \in Seq(OpChars) \ {<<>>} /\ Starts(p, op)
  BY <1>1, MemOpIs, Zenon
<1> HIDE DEF op
<1>3. n \in Nat \ {0} /\ DOMAIN op = 1..n /\ \A k \in 1..n : op[k] \in OpChars
  BY <1>2, EmptySeq
<1>4. \A k \in 1..n : At(p + k - 1) \in OpChars
  BY <1>2, <1>3 DEF Starts
<1> HIDE DEF n
<1>5. /\ p \in Nat \ {0} /\ Len(text) \in Nat /\ text \in Seq(Chars)
  BY TextIs
<1>6. \A k \in p..(p + n - 1) : At(k) \in OpChars
  <2> SUFFICES ASSUME NEW k \in p..(p + n - 1) PROVE At(k) \in OpChars
    OBVIOUS
  <2>1. k - p + 1 \in 1..n /\ p + (k - p + 1) - 1 = k
    BY <1>3, <1>5
  <2> QED
    BY <2>1, <1>4
<1>7. \A k \in p..(p + n - 1) : At(k) \notin {Nul, "\n"}
  BY <1>6, OpCharsAre
<1>8. SkipColumn(n) /\ text' = text
  BY <1>1, Zenon
<1>9. Placed' /\ p \in DOMAIN text
  BY <1>3, <1>7, <1>8, RunSkipped
<1>10. TokensOK'
  <2>1. "KWD" \in Kinds
    BY DEF Kinds
  <2>2. Begins(NewToken("KWD", op, 0), p)
    BY <1>2, BeginsAs, Zenon
  <2> QED
    BY <1>1, <1>9, <2>1, <2>2, PushKeeps, Zenon
<1> QED
  BY <1>1, <1>9, <1>10, TokenMade, Zenon

LEMMA RunsAre ==
  /\ Nul \notin Digits /\ "\n" \notin Digits
  /\ Nul \notin Letters \cup Digits \cup {"_"} /\ "\n" \notin Letters \cup Digits \cup {"_"}
<1>1. Nul \notin Digits \cup {"_"} /\ "\n" \notin Digits \cup {"_"} /\ "\n" \in Blanks
  BY DEF Digits, Nul, Blanks
<1> QED
  BY <1>1, LettersAssumption

LEMMA NumberKeeps ==
  ASSUME IInv, Number
  PROVE  IInv'
<1> DEFINE n == Span(p, Digits)
           val == Value(SubSeq(text, p, p + n - 1))
<1>1. /\ phase = "scan" /\ n > 0 /\ Push("NUM", <<>>, val) /\ SkipColumn(n)
      /\ UNCHANGED <<text, sb, phase>>
  BY Zenon DEF Number, AtToken
<1>2. p \in 1..(Len(text) + 1) /\ text \in Seq(Chars) /\ p \in Nat
  BY TextIs DEF IInv, Placed
<1>3. n \in Nat /\ \A k \in p..(p + n - 1) : At(k) \in Digits
  BY <1>2, RunsAre, SpanIs, Zenon
<1> HIDE DEF n, val
<1>4. n > 0 /\ SkipColumn(n) /\ text' = text
  BY <1>1, Zenon
<1>5. n \in Nat \ {0} /\ \A k \in p..(p + n - 1) : At(k) \notin {Nul, "\n"}
  <2>1. n \in Nat \ {0}
    BY <1>3, <1>4
  <2>2. Nul \notin Digits /\ "\n" \notin Digits
    BY RunsAre, Zenon
  <2>3. \A k \in p..(p + n - 1) : At(k) \notin {Nul, "\n"}
    BY <1>3, <2>2, Zenon
  <2> QED
    BY <2>1, <2>3
<1>6. Placed' /\ p \in DOMAIN text
  BY <1>4, <1>5, RunSkipped
<1>7. TokensOK'
  <2>1. "NUM" \in Kinds
    BY DEF Kinds
  <2>2. At(p) \in Digits
    <3>1. p \in p..(p + n - 1)
      BY <1>2, <1>5
    <3> QED
      BY <1>3, <3>1
  <2>3. Begins(NewToken("NUM", <<>>, val), p)
    BY <2>2, BeginsAs, Zenon
  <2> QED
    BY <1>1, <1>6, <2>1, <2>3, PushKeeps, Zenon
<1> QED
  BY <1>1, <1>6, <1>7, TokenMade, Zenon

LEMMA WordKeeps ==
  ASSUME IInv, Word
  PROVE  IInv'
<1> DEFINE S == Letters \cup Digits \cup {"_"}
           n == Span(p, S)
           word == SubSeq(text, p, p + n - 1)
<1>1. /\ phase = "scan" /\ n > 0 /\ Push(KindOf(word), word, 0) /\ SkipColumn(n)
      /\ UNCHANGED <<text, sb, phase>>
  BY Zenon DEF Word, AtToken
<1>2. p \in 1..(Len(text) + 1) /\ text \in Seq(Chars) /\ p \in Nat /\ Len(text) \in Nat
  BY TextIs DEF IInv, Placed
<1>3. n \in Nat /\ \A k \in p..(p + n - 1) : At(k) \in S
  BY <1>2, RunsAre, SpanIs, Zenon
<1>4. Nul \notin S /\ "\n" \notin S
  BY RunsAre
<1> HIDE DEF n, S
<1>5. n > 0 /\ SkipColumn(n) /\ text' = text
  BY <1>1, Zenon
<1>6. n \in Nat \ {0} /\ \A k \in p..(p + n - 1) : At(k) \notin {Nul, "\n"}
  BY <1>3, <1>4, <1>5
<1>7. Placed' /\ p \in DOMAIN text /\ p + n - 1 \in 1..Len(text)
  BY <1>5, <1>6, RunSkipped
<1>8. Starts(p, word)
  <2>1. DOMAIN word = 1..n /\ \A k \in 1..n : word[k] = text[p + k - 1] /\ p + k - 1 <= Len(text)
    BY <1>2, <1>6, <1>7
  <2> HIDE DEF word
  <2> QED
    BY <2>1 DEF Starts, At
<1>9. TokensOK'
  <2> HIDE DEF word
  <2>1. KindOf(word) \in {"KWD", "IDT"} /\ KindOf(word) \in Kinds
    BY DEF KindOf, Kinds
  <2>2. Begins(NewToken(KindOf(word), word, 0), p)
    BY <1>8, <2>1, BeginsAs, Zenon
  <2> QED
    BY <1>1, <1>7, <2>1, <2>2, PushKeeps, Zenon
<1> QED
  BY <1>1, <1>7, <1>9, TokenMade, Zenon

\* A character literal is three or four characters, and its last but one may be a newline.
LEMMA CharLiteralKeeps ==
  ASSUME IInv, CharLiteral
  PROVE  IInv'
<1> DEFINE end == CharEnd
           content == At(end - 1)
           str == <<IF end = p + 3 THEN Escaped(content) ELSE content>>
<1>1. phase = "scan" /\ At(p) = "'"
  BY Zenon DEF CharLiteral
<1>2. /\ p \in Nat \ {0} /\ Len(text) \in Nat /\ text \in Seq(Chars)
  BY TextIs
<1>3. CASE content = Nul \/ At(end) # "'"
  BY <1>3, ErrorKeeps DEF CharLiteral
<1>4. CASE ~(content = Nul \/ At(end) # "'")
  <2>1. /\ Push("CHAR", str, 0) /\ UNCHANGED <<text, sb, phase>>
        /\ IF content = "\n"
           THEN p' = end + 1 /\ loc_line' = loc_line + 1 /\ loc_column' = 2
           ELSE SkipColumn(end + 1 - p)
    BY <1>4, Zenon DEF CharLiteral
  <2>2. end = p + 2 \/ (end = p + 3 /\ At(p + 1) = "\\")
    BY DEF CharEnd
  <2> HIDE DEF end, str
  <2>3. end \in Nat \ {0} /\ end <= Len(text)
    <3>1. end \in Nat \ {0}
      BY <1>2, <2>2
    <3>2. At(end) # Nul
      BY <1>4, QuoteIs
    <3> QED
      BY <1>2, <3>1, <3>2, Unread
  <2>4. \A k \in p..(end - 2) : text[k] # "\n"
    <3>1. text[p] = "'" /\ (end = p + 3 => text[p + 1] = "\\")
      BY <1>1, <1>2, <2>2, <2>3 DEF At
    <3>2. \A k \in p..(end - 2) : k = p \/ (end = p + 3 /\ k = p + 1)
      BY <1>2, <2>2
    <3> QED
      BY <3>1, <3>2
  <2>5. content = text[end - 1] /\ text[end] # "\n"
    BY <1>2, <1>4, <2>2, <2>3 DEF At
  <2>6. Placed'
    <3>1. CASE content = "\n"
      <4>1. p' = end + 1 /\ loc_line' = loc_line + 1 /\ loc_column' = 2
        BY <2>1, <3>1, Zenon
      <4>2. Line(end - 1) = loc_line
        <5>1. end - 1 - p \in Nat /\ p + (end - 1 - p) = end - 1 /\ p + (end - 1 - p) - 1 = end - 2
          BY <1>2, <2>2
        <5>2. Line(p + (end - 1 - p)) = Line(p)
          BY <5>1, <2>4, <1>2, Onward
        <5> QED
          BY <5>1, <5>2 DEF IInv, Placed
      <4>3. Line(end) = Line(end - 1) + 1 /\ Column(end) = 1
        <5>1. end - 1 \in Nat \ {0} /\ end - 1 + 1 = end
          BY <1>2, <2>2
        <5> QED
          BY <5>1, <2>5, <3>1, NextLine
      <4>4. Line(end + 1) = Line(end) /\ Column(end + 1) = Column(end) + 1
        <5>1. \A k \in end..(end + 1 - 1) : text[k] # "\n"
          BY <2>3, <2>5
        <5> QED
          BY <5>1, <2>3, Onward
      <4>5. Line(p)' = Line(end + 1) /\ Column(p)' = Column(end + 1)
        BY <2>1, <4>1, PlaceKept
      <4>6. loc_line' = Line(p)' /\ loc_column' = Column(p)'
        BY <4>1, <4>2, <4>3, <4>4, <4>5
      <4> QED
        BY <2>1, <2>3, <1>2, <4>1, <4>6 DEF Placed
    <3>2. CASE content # "\n"
      <4> DEFINE n == end + 1 - p
      <4>1. SkipColumn(n) /\ text' = text
        BY <2>1, <3>2, Zenon
      <4>2. n \in Nat /\ p + n = end + 1
        BY <1>2, <2>2
      <4>3. \A k \in p..end : text[k] # "\n"
        <5>1. \A k \in p..end : k \in p..(end - 2) \/ k = end - 1 \/ k = end
          BY <1>2, <2>2
        <5> QED
          BY <5>1, <2>4, <2>5, <3>2
      <4>4. \A k \in p..end : At(k) # "\n"
        BY <4>3, <2>3, <1>2 DEF At
      <4> HIDE DEF n
      <4>5. p + n <= Len(text) + 1 /\ p + n - 1 = end
        BY <4>2, <2>3, <1>2
      <4> QED
        BY <4>1, <4>2, <4>4, <4>5, ColumnSkipped
    <3> QED
      BY <3>1, <3>2
  <2>7. TokensOK'
    <3>1. "CHAR" \in Kinds /\ p \in DOMAIN text
      BY <1>2, <2>2, <2>3 DEF Kinds
    <3>2. Begins(NewToken("CHAR", str, 0), p)
      BY <1>1, BeginsAs, Zenon
    <3> QED
      BY <2>1, <3>1, <3>2, PushKeeps, Zenon
  <2> QED
    BY <1>1, <2>1, <2>6, <2>7, TokenMade, Zenon
<1> QED
  BY <1>3, <1>4, Zenon

LEMMA UnknownKeeps ==
  ASSUME IInv, Unknown
  PROVE  IInv'
BY ErrorKeeps DEF Unknown

LEMMA EndKeeps ==
  ASSUME IInv, End
  PROVE  IInv'
<1>1. Goto("done") /\ UNCHANGED <<p, loc_line, loc_column>>
  BY DEF End
<1>2. Kept' /\ text' = text /\ phase' = "done"
  BY <1>1, GotoKeeps
<1> QED
  BY <1>1, <1>2, Stays, PhaseFree DEF IInv

LEMMA StopKeeps ==
  ASSUME IInv, UNCHANGED vars
  PROVE  IInv'
<1>1. UNCHANGED <<text, p, loc_line, loc_column, tokens, sb, phase>>
  BY DEF vars
<1>2. TokensOK'
  BY <1>1, TokensKept DEF IInv, Kept
<1>3. Kept'
  BY <1>1, <1>2, TextKept DEF IInv, Kept
<1>4. Placed'
  BY <1>1, Stays
<1>5. PhaseOK'
  BY <1>1 DEF IInv, PhaseOK, At
<1> QED
  BY <1>3, <1>4, <1>5 DEF IInv

-----------------------------------------------------------------------------
\* What read_file makes of a file ends in a newline.
LEMMA InitText ==
  ASSUME NEW file \in Files, text = ReadFile(file)
  PROVE  TextOK
<1>1. file \in Seq(Chars) /\ \A k \in DOMAIN file : file[k] # Junk
  BY FilesAssumption DEF ToSet, Chars
<1>2. "\n" # Junk
  BY JunkIs
<1>3. Len(file) \in Nat /\ DOMAIN file = 1..Len(file)
  BY <1>1
<1>4. CASE file = <<>> \/ Last(file) # "\n"
  <2>1. text = Append(file, "\n")
    BY <1>4 DEF ReadFile
  <2>2. text \in Seq(Chars) /\ Len(text) = Len(file) + 1 /\ DOMAIN text = 1..(Len(file) + 1)
    <3>1. "\n" \in Chars
      BY DEF Chars
    <3> QED
      BY <1>1, <2>1, <3>1, AppendProperties
  <2>3. text[Len(file) + 1] = "\n" /\ \A k \in 1..Len(file) : text[k] = file[k]
    BY <1>1, <2>1
  <2>4. text # <<>>
    BY <1>3, <2>2, EmptySeq
  <2>5. \A k \in DOMAIN text : text[k] # Junk
    BY <1>1, <1>2, <1>3, <2>2, <2>3
  <2> QED
    BY <2>2, <2>3, <2>4, <2>5, Zenon DEF TextOK
<1>5. CASE ~(file = <<>> \/ Last(file) # "\n")
  <2>1. text = file /\ file # <<>> /\ Last(file) = "\n"
    BY <1>5, Zenon DEF ReadFile
  <2>2. text[Len(text)] = "\n"
    BY <2>1, Zenon DEF Last
  <2> QED
    BY <1>1, <2>1, <2>2, Zenon DEF TextOK
<1> QED
  BY <1>4, <1>5, Zenon

LEMMA InitIInv == Init => IInv
<1> SUFFICES ASSUME Init PROVE IInv
  OBVIOUS
<1>1. p = 1 /\ loc_line = 1 /\ loc_column = 1 /\ tokens = <<>> /\ sb = NewBuilder /\ phase = "scan"
  BY Zenon DEF Init
<1>2. TextOK
  BY InitText DEF Init
<1>3. TokensOK
  <2>1. ToSet(tokens) = {} /\ tokens \in Seq(ToSet(tokens))
    BY <1>1 DEF ToSet
  <2> QED
    BY <2>1 DEF TokensOK
<1>4. Line(1) = 1 /\ Column(1) = 1
  <2>1. Newlines(1) = {}
    BY DEF Newlines
  <2>2. Max({0}) = 0
    <3>1. {0} \in SUBSET (0..0) /\ {0} # {} /\ 0 \in Nat
      OBVIOUS
    <3>2. Max({0}) \in {0}
      BY <3>1, MaxIsGreatest
    <3> QED
      BY <3>2
  <2>3. Cardinality({}) = 0
    BY FS_EmptySet
  <2>4. {0} \cup Newlines(1) = {0}
    BY <2>1
  <2> QED
    BY <2>1, <2>2, <2>3, <2>4 DEF Line, Column
<1>5. Placed
  <2>1. Len(text) \in Nat
    BY <1>2 DEF TextOK
  <2> QED
    BY <1>1, <1>4, <2>1 DEF Placed
<1>6. PhaseOK
  BY <1>1 DEF PhaseOK
<1> QED
  BY <1>1, <1>2, <1>3, <1>5, <1>6, NewBuilderOK DEF IInv, Kept

LEMMA StepIInv == IInv /\ [Next]_vars => IInv'
<1> SUFFICES ASSUME IInv, [Next]_vars PROVE IInv'
  OBVIOUS
<1>1. CASE Step
  <2>1. CASE Space \/ InLine \/ EndLine \/ BeginComment \/ InComment \/ EndComment
    BY <2>1, SpaceKeeps, InLineKeeps, EndLineKeeps, BeginCommentKeeps, InCommentKeeps,
       EndCommentKeeps
  <2>2. CASE BeginString \/ StringEscape \/ StringChar \/ StringClose
    BY <2>2, BeginStringKeeps, StringEscapeKeeps, StringCharKeeps, StringCloseKeeps
  <2>3. CASE StringSpace \/ StringGoesOn \/ StringDone \/ StringAtEnd
    BY <2>3, StringSpaceKeeps, StringGoesOnKeeps, StringDoneKeeps, StringAtEndKeeps
  <2>4. CASE CharLiteral \/ Operator \/ Number \/ Word \/ Unknown \/ End
    BY <2>4, CharLiteralKeeps, OperatorKeeps, NumberKeeps, WordKeeps, UnknownKeeps, EndKeeps
  <2> QED
    BY <1>1, <2>1, <2>2, <2>3, <2>4 DEF Step
<1>2. CASE UNCHANGED vars
  BY <1>2, StopKeeps
<1> QED
  BY <1>1, <1>2 DEF Next, Stop

\* The invariant on which the theorems rest.
THEOREM Invariance == Spec => []IInv
BY InitIInv, StepIInv, PTL DEF Spec

\* Whatever the text is, no loop of tokenize() runs past its end, not even that of the
\* line comment, which looks only for a newline, nor a step of two characters; and no
\* byte of a string is written behind the builder's block or read before it is written.
THEOREM TypeCorrect == Spec => []TypeOK
<1>1. ASSUME IInv
      PROVE  TypeOK
  <2>1. p \in 1..(Len(text) + 1) /\ loc_line \in Nat /\ loc_column \in Nat
    <3>1. p \in Nat \ {0} /\ p \in 1..(Len(text) + 1)
      BY <1>1, TextIs DEF IInv, Placed
    <3> QED
      BY <1>1, <3>1, PlaceType DEF IInv, Placed
  <2>2. phase \in {"scan", "line", "comment", "string", "closed", "done", "exit"}
    BY <1>1 DEF IInv, PhaseOK
  <2>3. \A tok \in ToSet(tokens) : tok.kind \in Kinds
    BY <1>1 DEF IInv, Kept, TokensOK, TokenOK
  <2>4. Holds(sb)
    BY <1>1, Zenon DEF IInv, Kept, BuilderOK, Holds
  <2> QED
    BY <2>1, <2>2, <2>3, <2>4 DEF TypeOK
<1> QED
  BY <1>1, Invariance, PTL

\* The line and column that errors are reported at are those of the pointer after every
\* step, and every token has the place where it begins; a string has the place of what is
\* behind it.
THEOREM EveryPlaceKept == Spec => []PlacesKept
<1>1. ASSUME IInv
      PROVE  PlacesKept
  BY <1>1 DEF IInv, Kept, TokensOK, TokenOK, Located, Placed, PlacesKept
<1> QED
  BY <1>1, Invariance, PTL

-----------------------------------------------------------------------------
\* What holds at 0 and is handed on holds up to n.
LEMMA UpTo ==
  ASSUME NEW n \in Nat, NEW S, 0 \in S, \A k \in 0..(n - 1) : k \in S => k + 1 \in S
  PROVE  \A k \in 0..n : k \in S
<1> DEFINE T == {k \in 0..n : k \notin S}
<1> SUFFICES ASSUME T # {}
             PROVE  FALSE
  OBVIOUS
<1>1. PICK k \in T : \A l \in T : k <= l
  <2>1. T \in SUBSET Nat
    OBVIOUS
  <2> HIDE DEF T
  <2> QED
    BY <2>1, LeastExists
<1>2. k # 0 /\ k \in 1..n
  BY <1>1
<1>3. k - 1 \in 0..(n - 1) /\ (k - 1) \notin T
  BY <1>1, <1>2
<1>4. (k - 1) + 1 \in S
  BY <1>3
<1> QED
  BY <1>1, <1>2, <1>4

\* One step of each of the folds over the characters of a string.
ReadChar(st, ch) ==
  IF st.ended THEN st
  ELSE IF st.escape THEN [st EXCEPT !.escape = FALSE, !.s = Append(@, AssemblerEscape(ch))]
  ELSE CASE ch = "\\" -> [st EXCEPT !.escape = TRUE]
         [] ch = "\"" -> [st EXCEPT !.ended = TRUE]
         [] OTHER     -> [st EXCEPT !.s = Append(@, ch)]

FoldStep(fold, acc, ch) == CASE fold = "append" -> AppendChar(acc, ch)
                             [] fold = "escape" -> AppendStr(acc, EscapeChar(ch))
                             [] OTHER           -> ReadChar(acc, ch)

\* A fold over s is defined on every set of places of s.
FoldsOver(f, fold, b, s, n) ==
  f = [S \in SUBSET (1..n) |->
         IF S = {} THEN b ELSE FoldStep(fold, f[S \ {Max(S)}], s[Max(S)])]

LEMMA FoldExists ==
  ASSUME NEW fold, NEW b, NEW s, NEW n \in Nat
  PROVE  \E f : FoldsOver(f, fold, b, s, n)
<1> DEFINE K == {k \in Nat : \E f : FoldsOver(f, fold, b, s, k)}
<1>1. 0 \in K
  <2> DEFINE f == [S \in SUBSET (1..0) |-> b]
  <2>1. \A S \in SUBSET (1..0) : S = {}
    OBVIOUS
  <2>2. f = [S \in SUBSET (1..0) |->
               IF S = {} THEN b ELSE FoldStep(fold, f[S \ {Max(S)}], s[Max(S)])]
    BY <2>1
  <2> QED
    BY <2>2 DEF FoldsOver
<1>2. ASSUME NEW k \in 0..(n - 1), k \in K
      PROVE  k + 1 \in K
  <2>1. PICK f : FoldsOver(f, fold, b, s, k)
    BY <1>2
  <2>2. /\ f = [S \in SUBSET (1..k) |->
               IF S = {} THEN b ELSE FoldStep(fold, f[S \ {Max(S)}], s[Max(S)])]
    BY <2>1 DEF FoldsOver
  <2> DEFINE F(S) == IF k + 1 \in S THEN FoldStep(fold, f[S \ {k + 1}], s[k + 1]) ELSE f[S]
             g == [S \in SUBSET (1..(k + 1)) |-> F(S)]
  <2>3. \A S \in SUBSET (1..(k + 1)) : k + 1 \notin S => S \in SUBSET (1..k)
    OBVIOUS
  <2>4. \A S \in SUBSET (1..(k + 1)) : S # {} => Max(S) \in S /\ \A l \in S : Max(S) >= l
    <3> SUFFICES ASSUME NEW S \in SUBSET (1..(k + 1)), S # {}
                 PROVE  Max(S) \in S /\ \A l \in S : Max(S) >= l
      OBVIOUS
    <3>1. S \in SUBSET (0..(k + 1)) /\ k + 1 \in Nat
      OBVIOUS
    <3> QED
      BY <3>1, MaxIsGreatest
  <2>5. ASSUME NEW S \in SUBSET (1..(k + 1))
        PROVE  F(S) = IF S = {} THEN b ELSE FoldStep(fold, g[S \ {Max(S)}], s[Max(S)])
    <3>1. CASE k + 1 \in S
      <4>1. Max(S) = k + 1
        <5>1. S # {} /\ Max(S) \in S /\ \A l \in S : Max(S) >= l
          BY <3>1, <2>4, Zenon
        <5>2. Max(S) \in 1..(k + 1) /\ Max(S) >= k + 1
          BY <3>1, <5>1
        <5> QED
          BY <5>2
      <4>2. S \ {k + 1} \in SUBSET (1..k) /\ S \ {k + 1} \in SUBSET (1..(k + 1))
        BY <2>3
      <4>3. g[S \ {k + 1}] = F(S \ {k + 1})
        BY <4>2
      <4>4. g[S \ {k + 1}] = f[S \ {k + 1}]
        BY <4>3
      <4>5. F(S) = FoldStep(fold, f[S \ {k + 1}], s[k + 1]) /\ S # {}
        BY <3>1
      <4> HIDE DEF F, g
      <4> QED
        BY <4>1, <4>4, <4>5
    <3>2. CASE k + 1 \notin S
      <4>1. S \in SUBSET (1..k) /\ F(S) = f[S]
        BY <3>2, <2>3
      <4>2. f[S] = IF S = {} THEN b ELSE FoldStep(fold, f[S \ {Max(S)}], s[Max(S)])
        BY <4>1, <2>2
      <4>3. S \ {Max(S)} \in SUBSET (1..k) /\ k + 1 \notin S \ {Max(S)}
        BY <4>1, <3>2
      <4>4. g[S \ {Max(S)}] = f[S \ {Max(S)}]
        BY <4>3
      <4> HIDE DEF F, g
      <4> QED
        BY <4>1, <4>2, <4>4
    <3> QED
      BY <3>1, <3>2
  <2>6. g = [S \in SUBSET (1..(k + 1)) |->
               IF S = {} THEN b ELSE FoldStep(fold, g[S \ {Max(S)}], s[Max(S)])]
    <3> HIDE DEF F
    <3> QED
      BY <2>5, Zenon
  <2>7. FoldsOver(g, fold, b, s, k + 1)
    BY <2>6, Zenon DEF FoldsOver
  <2> HIDE DEF g, F
  <2> QED
    BY <2>7
<1>3. \A k \in 0..(n - 1) : k \in K => k + 1 \in K
  BY <1>2
<1>4. n \in K
  <2> HIDE DEF K
  <2>1. \A k \in 0..n : k \in K
    BY <1>1, <1>3, UpTo
  <2> QED
    BY <2>1
<1> QED
  BY <1>4

\* It takes one character after the other, from b to x.
FoldsTo(h, fold, b, s, n, x) ==
  /\ h[0] = b /\ h[n] = x
  /\ \A k \in 0..(n - 1) : h[k + 1] = FoldStep(fold, h[k], s[k + 1])

LEMMA FoldSteps ==
  ASSUME NEW fold, NEW b, NEW s, NEW n, n \in Nat, NEW f, FoldsOver(f, fold, b, s, n)
  PROVE  \E h : FoldsTo(h, fold, b, s, n, f[1..n])
<1>1. \A S \in SUBSET (1..n) :
        f[S] = IF S = {} THEN b ELSE FoldStep(fold, f[S \ {Max(S)}], s[Max(S)])
  BY DEF FoldsOver
<1>2. 1..0 \in SUBSET (1..n) /\ 1..0 = {}
  OBVIOUS
<1> DEFINE h == [k \in 0..n |-> f[1..k]]
<1>3. ASSUME NEW k \in 0..(n - 1)
      PROVE  h[k + 1] = FoldStep(fold, h[k], s[k + 1])
  <2> DEFINE S == 1..(k + 1)
  <2>1. S \in SUBSET (1..n) /\ S # {} /\ S \in SUBSET (0..(k + 1)) /\ k + 1 \in Nat
    OBVIOUS
  <2>2. Max(S) \in S /\ \A l \in S : Max(S) >= l
    BY <2>1, MaxIsGreatest
  <2>3. Max(S) = k + 1 /\ S \ {k + 1} = 1..k
    BY <2>2
  <2>4. h[k] = f[1..k] /\ h[k + 1] = f[S]
    OBVIOUS
  <2> HIDE DEF S, h
  <2>5. f[S] = FoldStep(fold, f[1..k], s[k + 1])
    BY <2>1, <2>3, <1>1
  <2> QED
    BY <2>4, <2>5
<1>4. h[0] = b /\ h[n] = f[1..n]
  <2>1. f[{}] = b
    BY <1>1, <1>2
  <2>2. h[0] = f[1..0] /\ h[n] = f[1..n]
    OBVIOUS
  <2> HIDE DEF h
  <2> QED
    BY <1>2, <2>1, <2>2, Zenon
<1> HIDE DEF h
<1>5. FoldsTo(h, fold, b, s, n, f[1..n])
  BY <1>3, <1>4, Zenon DEF FoldsTo
<1> QED
  BY <1>5, Zenon

-----------------------------------------------------------------------------
\* A character is written behind those a builder has, which it keeps.
LEMMA AppendIs ==
  ASSUME NEW b, BuilderOK(b), NEW ch
  PROVE  /\ AppendChar(b, ch).len = b.len + 1
         /\ AppendChar(b, ch).data[b.len] = ch
         /\ \A k \in 0..(b.len - 1) : AppendChar(b, ch).data[k] = b.data[k]
<1> DEFINE g == IF b.len = b.cap THEN Grown(b) ELSE b
           w == Written(g, ch)
<1>1. /\ DOMAIN b = {"len", "cap", "data", "strayed"}
      /\ b.len \in Nat /\ b.cap \in Nat \ {0} /\ b.len <= b.cap
      /\ DOMAIN b.data = 0..(b.cap - 1)
  BY DEF BuilderOK
<1>2. /\ g.len = b.len /\ DOMAIN g = {"len", "cap", "data", "strayed"}
      /\ \A k \in 0..(b.len - 1) : k \in DOMAIN g.data /\ g.data[k] = b.data[k]
  <2>1. CASE b.len = b.cap
    <3>1. DOMAIN Grown(b) = {"len", "cap", "data", "strayed"} /\ Grown(b).len = b.len
      BY <1>1 DEF Grown
    <3>2. Grown(b).data = [k \in 0..(2 * b.cap - 1) |-> IF k < b.cap THEN b.data[k] ELSE Junk]
      BY <1>1 DEF Grown
    <3>3. g = Grown(b)
      BY <2>1
    <3> HIDE DEF g
    <3> QED
      BY <1>1, <2>1, <3>1, <3>2, <3>3
  <2>2. CASE b.len # b.cap
    BY <1>1, <2>2
  <2> QED
    BY <2>1, <2>2
<1> HIDE DEF g
<1>3. /\ w.len = b.len + 1
      /\ w.data = [k \in DOMAIN g.data \cup {b.len} |-> IF k = b.len THEN ch ELSE g.data[k]]
  BY <1>2 DEF Written
<1>4. AppendChar(b, ch) = w
  BY Zenon DEF AppendChar, g
<1> HIDE DEF w
<1>5. b.len \in Nat
  BY <1>1
<1>6. ASSUME NEW k \in 0..(b.len - 1)
      PROVE  w.data[k] = b.data[k]
  BY <1>2, <1>3, <1>5
<1>7. w.data[b.len] = ch
  BY <1>3
<1> QED
  BY <1>3, <1>4, <1>6, <1>7

-----------------------------------------------------------------------------
\* Strings: what the bytes of a builder, and the tokens, hold.
StringOK(s) == /\ s \in Seq(ToSet(s))
               /\ \A k \in 1..Len(s) : s[k] # Nul /\ s[k] # Junk

LEMMA UpToNulIs ==
  ASSUME NEW S, NEW s \in Seq(S)
  PROVE  \E m \in 0..Len(s) : /\ UpToNul(s) = SubSeq(s, 1, m)
                              /\ \A k \in 1..m : s[k] # Nul
                              /\ m = Len(s) \/ s[m + 1] = Nul
<1> DEFINE t == s \o <<Nul>>
           I == {i \in 1..Len(t) : t[i] = Nul}
<1>1. /\ Len(s) \in Nat /\ Len(t) = Len(s) + 1 /\ t[Len(s) + 1] = Nul
      /\ \A k \in 1..Len(s) : t[k] = s[k]
  <2>1. s \in Seq(S \cup {Nul}) /\ <<Nul>> \in Seq(S \cup {Nul}) /\ Len(<<Nul>>) = 1
        /\ <<Nul>>[1] = Nul
    OBVIOUS
  <2> QED
    BY <2>1
<1> HIDE DEF t
<1>2. I # {} /\ I \in SUBSET Nat
  BY <1>1
<1>3. Min(I) \in I /\ \A l \in I : Min(I) <= l
  <2> HIDE DEF I
  <2> QED
    BY <1>2, MinIsLeast
<1>4. UpToNul(s) = SubSeq(s, 1, Min(I) - 1)
  <2>1. SelectInSeq(t, LAMBDA ch : ch = Nul) = Min(I)
    BY <1>2 DEF SelectInSeq
  <2> QED
    BY <2>1, Zenon DEF UpToNul, t
<1>5. Min(I) \in 1..(Len(s) + 1) /\ t[Min(I)] = Nul
  <2>1. \A i \in I : i \in 1..(Len(s) + 1) /\ t[i] = Nul
    BY <1>1
  <2> HIDE DEF I
  <2> QED
    BY <1>3, <2>1
<1>6. \A k \in 1..(Min(I) - 1) : s[k] # Nul
  <2> SUFFICES ASSUME NEW k \in 1..(Min(I) - 1), s[k] = Nul
               PROVE  FALSE
    OBVIOUS
  <2>1. k \in 1..Len(s) /\ k < Min(I)
    BY <1>1, <1>5
  <2>2. k \in I
    BY <1>1, <2>1
  <2> HIDE DEF I
  <2> QED
    BY <1>3, <1>5, <2>1, <2>2
<1> DEFINE m == Min(I) - 1
<1>7. m \in 0..Len(s) /\ m + 1 = Min(I)
  <2> HIDE DEF I
  <2> QED
    BY <1>1, <1>5
<1>8. m = Len(s) \/ s[m + 1] = Nul
  <2>1. Min(I) \in 1..Len(s) => s[Min(I)] = Nul
    <3> HIDE DEF I
    <3> QED
      BY <1>1, <1>5
  <2> HIDE DEF m, I
  <2> QED
    BY <1>1, <1>5, <1>7, <2>1
<1> HIDE DEF I
<1> QED
  BY <1>4, <1>6, <1>7, <1>8

\* A string without a NUL is taken whole.
LEMMA WholeTaken ==
  ASSUME NEW s, StringOK(s)
  PROVE  UpToNul(s) = s
<1>1. s \in Seq(ToSet(s)) /\ Len(s) \in Nat
  BY DEF StringOK
<1>2. PICK m \in 0..Len(s) : UpToNul(s) = SubSeq(s, 1, m) /\ (m = Len(s) \/ s[m + 1] = Nul)
  BY <1>1, UpToNulIs
<1>3. m = Len(s)
  <2>1. m # Len(s) => m + 1 \in 1..Len(s)
    BY <1>1
  <2> QED
    BY <1>2, <2>1 DEF StringOK
<1> QED
  BY <1>1, <1>2, <1>3

\* The bytes of a builder.
Bytes(b) == [k \in 1..b.len |-> b.data[k - 1]]

LEMMA BytesAre ==
  ASSUME NEW b, BuilderOK(b)
  PROVE  Bytes(b) \in Seq(ToSet(Bytes(b))) /\ Len(Bytes(b)) = b.len
<1>1. b.len \in Nat
  BY DEF BuilderOK
<1>2. \A k \in 1..b.len : Bytes(b)[k] \in ToSet(Bytes(b))
  BY DEF Bytes, ToSet
<1>3. Bytes(b) = [k \in 1..b.len |-> Bytes(b)[k]]
  BY DEF Bytes
<1> QED
  BY <1>1, <1>2, <1>3

\* strbld_build makes a string of what was written.
LEMMA BuildIs ==
  ASSUME NEW b, BuilderOK(b)
  PROVE  StringOK(Build(b))
<1> DEFINE t == Bytes(b)
<1>1. t \in Seq(ToSet(t)) /\ Len(t) \in Nat /\ b.len \in Nat /\ Len(t) = b.len
  BY BytesAre DEF BuilderOK
<1>2. PICK m \in 0..Len(t) : UpToNul(t) = SubSeq(t, 1, m) /\ \A k \in 1..m : t[k] # Nul
  <2> HIDE DEF t
  <2> QED
    BY <1>1, UpToNulIs
<1>3. \A k \in 1..m : t[k] # Junk
  BY <1>1 DEF Bytes, BuilderOK
<1>4. Build(b) = UpToNul(t)
  BY Zenon DEF Build, Bytes
<1> DEFINE u == SubSeq(t, 1, m)
<1>5. u \in Seq(ToSet(t)) /\ Len(u) = m /\ DOMAIN u = 1..m /\ \A k \in 1..m : u[k] = t[k]
  <2> HIDE DEF t
  <2> QED
    BY <1>1
<1> HIDE DEF u, t
<1>6. u \in Seq(ToSet(u))
  <2>1. \A k \in 1..m : u[k] \in ToSet(u)
    BY <1>5 DEF ToSet
  <2>2. u = [k \in 1..m |-> u[k]]
    BY <1>5
  <2> QED
    BY <1>1, <2>1, <2>2
<1>7. StringOK(u)
  BY <1>2, <1>3, <1>5, <1>6 DEF StringOK
<1> QED
  BY <1>2, <1>4, <1>7 DEF u

-----------------------------------------------------------------------------
\* What escape_string writes for a character: the character, or a backslash and what means
\* the character behind one.
Marked == {"\n", "\\", "\""}

LEMMA PairIs ==
  ASSUME NEW x, NEW y, NEW e, e = <<x, y>>
  PROVE  /\ e \in Seq(ToSet(e)) /\ Len(e) = 2 /\ e[1] = x /\ e[2] = y
         /\ \A k \in 1..2 : e[k] = x \/ e[k] = y
<1>1. DOMAIN e = 1..2
  OBVIOUS
<1>2. x \in ToSet(e) /\ y \in ToSet(e)
  BY <1>1 DEF ToSet
<1> QED
  BY <1>2

LEMMA EscapeIs ==
  ASSUME NEW ch, ch # Nul, ch # Junk
  PROVE  /\ EscapeChar(ch) \in Seq(ToSet(EscapeChar(ch)))
         /\ \A k \in 1..Len(EscapeChar(ch)) : EscapeChar(ch)[k] \notin {Nul, Junk}
         /\ ch \notin Marked => Len(EscapeChar(ch)) = 1 /\ EscapeChar(ch)[1] = ch
         /\ ch \in Marked => /\ Len(EscapeChar(ch)) = 2 /\ EscapeChar(ch)[1] = "\\"
                            /\ AssemblerEscape(EscapeChar(ch)[2]) = ch
<1>1. {"n", "\\", "\""} \cap {Nul, Junk} = {}
  BY JunkAssumption, Zenon DEF Nul
<1>2. CASE ch = "\n"
  <2>1. EscapeChar(ch) = <<"\\", "n">> /\ ch \in Marked
    BY <1>2 DEF EscapeChar, Marked
  <2>2. AssemblerEscape("n") = ch
    BY <1>2 DEF AssemblerEscape
  <2> DEFINE e == EscapeChar(ch)
  <2>3. e \in Seq(ToSet(e)) /\ Len(e) = 2 /\ e[1] = "\\" /\ e[2] = "n"
    BY <2>1, PairIs
  <2>4. \A k \in 1..2 : e[k] = "\\" \/ e[k] = "n"
    BY <2>1, PairIs
  <2> HIDE DEF e
  <2>5. \A k \in 1..Len(e) : e[k] \notin {Nul, Junk}
    BY <1>1, <2>3, <2>4, Zenon
  <2> QED
    BY <2>1, <2>2, <2>3, <2>5, Zenon DEF e
<1>3. CASE ch = "\\"
  <2>1. EscapeChar(ch) = <<"\\", "\\">> /\ ch \in Marked
    BY <1>3 DEF EscapeChar, Marked
  <2>2. AssemblerEscape("\\") = ch
    BY <1>3 DEF AssemblerEscape
  <2> DEFINE e == EscapeChar(ch)
  <2>3. e \in Seq(ToSet(e)) /\ Len(e) = 2 /\ e[1] = "\\" /\ e[2] = "\\"
    BY <2>1, PairIs
  <2>4. \A k \in 1..2 : e[k] = "\\" \/ e[k] = "\\"
    BY <2>1, PairIs
  <2> HIDE DEF e
  <2>5. \A k \in 1..Len(e) : e[k] \notin {Nul, Junk}
    BY <1>1, <2>3, <2>4, Zenon
  <2> QED
    BY <2>1, <2>2, <2>3, <2>5, Zenon DEF e
<1>4. CASE ch = "\""
  <2>1. EscapeChar(ch) = <<"\\", "\"">> /\ ch \in Marked
    BY <1>4 DEF EscapeChar, Marked
  <2>2. AssemblerEscape("\"") = ch
    BY <1>4 DEF AssemblerEscape
  <2> DEFINE e == EscapeChar(ch)
  <2>6. \A q : e = <<"\\", q>> => /\ e \in Seq(ToSet(e)) /\ Len(e) = 2 /\ e[1] = "\\"
                                  /\ e[2] = q /\ \A k \in 1..2 : e[k] = "\\" \/ e[k] = q
    <3> HIDE DEF e
    <3> QED
      BY PairIs
  <2>3. e \in Seq(ToSet(e)) /\ Len(e) = 2 /\ e[1] = "\\" /\ e[2] = "\""
    BY <2>1, <2>6, Zenon
  <2>4. \A k \in 1..2 : e[k] = "\\" \/ e[k] = "\""
    BY <2>1, <2>6, Zenon
  <2> HIDE DEF e
  <2>5. \A k \in 1..Len(e) : e[k] \notin {Nul, Junk}
    BY <1>1, <2>3, <2>4, Zenon
  <2> QED
    BY <2>1, <2>2, <2>3, <2>5, Zenon DEF e
<1>5. CASE ch \notin Marked
  <2>1. EscapeChar(ch) = <<ch>>
    BY <1>5 DEF EscapeChar, Marked
  <2> QED
    BY <1>5, <2>1 DEF ToSet
<1> QED
  BY <1>2, <1>3, <1>4, <1>5, Zenon DEF Marked

\* The bytes that are written behind those of b are the characters of s.
Extends(c, b, s) ==
  /\ BuilderOK(c) /\ c.len = b.len + Len(s)
  /\ \A k \in 0..(b.len - 1) : c.data[k] = b.data[k]
  /\ \A k \in 1..Len(s) : c.data[b.len + k - 1] = s[k]

\* strbld_append_str
LEMMA AppendStrIs ==
  ASSUME NEW b, BuilderOK(b), NEW s, s \in Seq(ToSet(s)), \A k \in 1..Len(s) : s[k] # Junk
  PROVE  Extends(AppendStr(b, s), b, s)
<1> DEFINE n == Len(s)
<1>1. n \in Nat /\ DOMAIN s = 1..n
  OBVIOUS
<1>2. PICK f : FoldsOver(f, "append", b, s, n) /\ AppendStr(b, s) = f[1..n]
  <2> DEFINE Over(f) == f = [S \in SUBSET DOMAIN s |->
                               IF S = {} THEN b ELSE AppendChar(f[S \ {Max(S)}], s[Max(S)])]
  <2>1. AppendStr(b, s) = (CHOOSE f : Over(f))[DOMAIN s]
    BY Zenon DEF AppendStr, FoldLeft, MapThenFoldSet
  <2>2. \A f : Over(f) <=> FoldsOver(f, "append", b, s, n)
    <3>1. \A acc, ch : FoldStep("append", acc, ch) = AppendChar(acc, ch)
      BY DEF FoldStep
    <3> SUFFICES ASSUME NEW f
                 PROVE  Over(f) <=> FoldsOver(f, "append", b, s, n)
      OBVIOUS
    <3>2. [S \in SUBSET DOMAIN s |->
             IF S = {} THEN b ELSE AppendChar(f[S \ {Max(S)}], s[Max(S)])]
          = [S \in SUBSET (1..n) |->
               IF S = {} THEN b ELSE FoldStep("append", f[S \ {Max(S)}], s[Max(S)])]
      BY <1>1, <3>1, Zenon
    <3> QED
      BY <3>2, Zenon DEF FoldsOver
  <2>3. \E f : FoldsOver(f, "append", b, s, n)
    BY <1>1, FoldExists
  <2>4. \E f : Over(f)
    <3> HIDE DEF Over
    <3> QED
      BY <2>2, <2>3
  <2>5. Over(CHOOSE f : Over(f))
    <3> HIDE DEF Over
    <3> QED
      BY <2>4
  <2> HIDE DEF Over
  <2> QED
    BY <1>1, <2>1, <2>2, <2>5
<1>3. PICK h : FoldsTo(h, "append", b, s, n, f[1..n])
  BY <1>1, <1>2, FoldSteps
<1>4. /\ h[0] = b /\ h[n] = f[1..n]
      /\ \A k \in 0..(n - 1) : h[k + 1] = AppendChar(h[k], s[k + 1])
  BY <1>3, Zenon DEF FoldsTo, FoldStep
<1>5. b.len \in Nat
  BY DEF BuilderOK
<1> DEFINE Done(k) == /\ BuilderOK(h[k]) /\ h[k].len = b.len + k
                      /\ \A j \in 0..(b.len - 1) : h[k].data[j] = b.data[j]
                      /\ \A j \in 1..k : h[k].data[b.len + j - 1] = s[j]
           T == {k \in 0..n : Done(k)}
<1>6. 0 \in T
  BY <1>1, <1>4, <1>5
<1>7. ASSUME NEW k \in 0..(n - 1), k \in T
      PROVE  k + 1 \in T
  <2> DEFINE c == h[k]
             d == h[k + 1]
  <2>1. d = AppendChar(c, s[k + 1]) /\ k + 1 \in 1..n
    BY <1>1, <1>4
  <2>2. BuilderOK(c) /\ c.len = b.len + k
    BY <1>7
  <2>3. BuilderOK(d)
    BY <2>1, <2>2, AppendOK
  <2>4. d.len = c.len + 1 /\ d.data[c.len] = s[k + 1]
        /\ \A j \in 0..(c.len - 1) : d.data[j] = c.data[j]
    BY <2>1, <2>2, AppendIs
  <2>5. /\ \A j \in 0..(b.len - 1) : c.data[j] = b.data[j]
        /\ \A j \in 1..k : c.data[b.len + j - 1] = s[j]
    BY <1>7
  <2> HIDE DEF c, d
  <2>6. d.len = b.len + (k + 1) /\ \A j \in 0..(b.len - 1) : d.data[j] = b.data[j]
    <3>1. d.len = b.len + (k + 1)
      <4>1. d.len = c.len + 1 /\ c.len = b.len + k
        BY <2>2, <2>4, Zenon
      <4>2. k \in Nat /\ b.len \in Nat
        BY <1>1, <1>5
      <4> HIDE DEF n
      <4> QED
        BY <4>1, <4>2
    <3>2. \A j \in 0..(b.len - 1) : j \in 0..(c.len - 1)
      BY <1>5, <2>2
    <3>3. \A j \in 0..(b.len - 1) : d.data[j] = b.data[j]
      BY <2>4, <2>5, <3>2, Zenon
    <3> QED
      BY <3>1, <3>3, Zenon
  <2>7. ASSUME NEW j \in 1..(k + 1)
        PROVE  d.data[b.len + j - 1] = s[j]
    <3>1. CASE j = k + 1
      BY <1>5, <2>2, <2>4, <3>1
    <3>2. CASE j # k + 1
      <4>1. j \in 1..k /\ b.len + j - 1 \in 0..(c.len - 1)
        BY <1>5, <2>2, <3>2
      <4> QED
        BY <2>4, <2>5, <4>1
    <3> QED
      BY <3>1, <3>2
  <2> QED
    BY <1>1, <2>3, <2>6, <2>7 DEF d
<1>8. n \in T
  <2>1. \A k \in 0..(n - 1) : k \in T => k + 1 \in T
    BY <1>7
  <2> HIDE DEF T
  <2>2. \A k \in 0..n : k \in T
    BY <1>1, <1>6, <2>1, UpTo
  <2> QED
    BY <1>1, <2>2
<1> QED
  BY <1>1, <1>2, <1>4, <1>8 DEF Extends

\* escape_string writes what EscapeChar says for one character after the other.
LEMMA EscapeSteps ==
  ASSUME NEW s, StringOK(s), NEW n \in Nat, n = Len(s)
  PROVE  \E h : /\ h[0] = NewBuilder /\ h[n] = escape_string(s)
               /\ \A k \in 0..(n - 1) : Extends(h[k + 1], h[k], EscapeChar(s[k + 1]))
<1>1. n \in Nat /\ DOMAIN s = 1..n /\ UpToNul(s) = s
  BY WholeTaken DEF StringOK
<1> DEFINE Over(f) == f = [S \in SUBSET DOMAIN s |->
                        IF S = {} THEN NewBuilder
                        ELSE AppendStr(f[S \ {Max(S)}], EscapeChar(s[Max(S)]))]
<1>2. escape_string(s) = (CHOOSE f : Over(f))[DOMAIN s]
  BY <1>1, Zenon DEF escape_string, FoldLeft, MapThenFoldSet
<1>3. \A acc, ch : FoldStep("escape", acc, ch) = AppendStr(acc, EscapeChar(ch))
  BY DEF FoldStep
<1>4. \A f : Over(f) <=> FoldsOver(f, "escape", NewBuilder, s, n)
  <2> SUFFICES ASSUME NEW f
               PROVE  Over(f) <=> FoldsOver(f, "escape", NewBuilder, s, n)
    OBVIOUS
  <2>1. [S \in SUBSET DOMAIN s |->
           IF S = {} THEN NewBuilder ELSE AppendStr(f[S \ {Max(S)}], EscapeChar(s[Max(S)]))]
        = [S \in SUBSET (1..n) |->
             IF S = {} THEN NewBuilder ELSE FoldStep("escape", f[S \ {Max(S)}], s[Max(S)])]
    BY <1>1, <1>3, Zenon
  <2> QED
    BY <2>1, Zenon DEF FoldsOver
<1>5. PICK f : FoldsOver(f, "escape", NewBuilder, s, n) /\ escape_string(s) = f[1..n]
  <2>1. \E f : FoldsOver(f, "escape", NewBuilder, s, n)
    BY <1>1, FoldExists
  <2> HIDE DEF Over
  <2>2. Over(CHOOSE f : Over(f))
    BY <1>4, <2>1
  <2> QED
    BY <1>1, <1>2, <1>4, <2>2
<1>6. PICK h : /\ h[0] = NewBuilder /\ h[n] = escape_string(s)
               /\ \A k \in 0..(n - 1) : h[k + 1] = AppendStr(h[k], EscapeChar(s[k + 1]))
  <2>1. PICK h : FoldsTo(h, "escape", NewBuilder, s, n, f[1..n])
    BY <1>1, <1>5, FoldSteps
  <2>2. h[0] = NewBuilder /\ h[n] = escape_string(s)
    BY <1>5, <2>1, Zenon DEF FoldsTo
  <2>3. \A k \in 0..(n - 1) : h[k + 1] = AppendStr(h[k], EscapeChar(s[k + 1]))
    BY <1>3, <2>1, Zenon DEF FoldsTo
  <2> QED
    BY <2>2, <2>3, Zenon
<1> DEFINE T == {k \in 0..n : BuilderOK(h[k])}
<1>7. ASSUME NEW k \in 0..(n - 1), BuilderOK(h[k])
      PROVE  Extends(h[k + 1], h[k], EscapeChar(s[k + 1]))
  <2> DEFINE e == EscapeChar(s[k + 1])
  <2>1. s[k + 1] # Nul /\ s[k + 1] # Junk
    BY <1>1 DEF StringOK
  <2>2. e \in Seq(ToSet(e)) /\ \A j \in 1..Len(e) : e[j] # Junk
    BY <2>1, EscapeIs
  <2> HIDE DEF e
  <2>3. Extends(AppendStr(h[k], e), h[k], e)
    BY <1>7, <2>2, AppendStrIs
  <2> QED
    BY <1>6, <2>3 DEF e
<1>8. \A k \in 0..n : k \in T
  <2>1. 0 \in T
    BY <1>1, <1>6, NewBuilderOK
  <2>2. \A k \in 0..(n - 1) : k \in T => k + 1 \in T
    BY <1>1, <1>7 DEF Extends
  <2> HIDE DEF T
  <2> QED
    BY <1>1, <2>1, <2>2, UpTo
<1>9. \A k \in 0..(n - 1) : BuilderOK(h[k])
  BY <1>1, <1>8
<1> QED
  BY <1>6, <1>7, <1>9

-----------------------------------------------------------------------------
\* What the assembler has read.
HasRead(z) == [s |-> z, escape |-> FALSE, ended |-> FALSE]

LEMMA EscapeSet ==
  ASSUME NEW z, NEW e, NEW n, NEW u
  PROVE  [[s |-> z, escape |-> e, ended |-> n] EXCEPT !.escape = u]
           = [s |-> z, escape |-> u, ended |-> n]
OBVIOUS

LEMMA MoreRead ==
  ASSUME NEW z, NEW y
  PROVE  [HasRead(z) EXCEPT !.s = y] = HasRead(y)
<1>1. \A f, r : r = [s |-> z, escape |-> f, ended |-> f] =>
         [r EXCEPT !.s = y] = [s |-> y, escape |-> f, ended |-> f]
  OBVIOUS
<1>2. HasRead(z) = [s |-> z, escape |-> FALSE, ended |-> FALSE]
  BY Zenon DEF HasRead
<1>3. HasRead(y) = [s |-> y, escape |-> FALSE, ended |-> FALSE]
  BY Zenon DEF HasRead
<1> QED
  BY <1>1, <1>2, <1>3, Zenon

LEMMA ReadPlain ==
  ASSUME NEW z, NEW ch, ch \notin Marked
  PROVE  ReadChar(HasRead(z), ch) = HasRead(Append(z, ch))
BY Zenon DEF ReadChar, HasRead, Marked

LEMMA ReadMarked ==
  ASSUME NEW z, NEW ch
  PROVE  ReadChar(ReadChar(HasRead(z), "\\"), ch) = HasRead(Append(z, AssemblerEscape(ch)))
<1> DEFINE y == Append(z, AssemblerEscape(ch))
           st == [s |-> z, escape |-> TRUE, ended |-> FALSE]
<1>1. ReadChar(HasRead(z), "\\") = st
  <2>1. ReadChar(HasRead(z), "\\") = [HasRead(z) EXCEPT !.escape = TRUE]
    BY Zenon DEF ReadChar, HasRead
  <2> QED
    BY <2>1, EscapeSet, Zenon DEF HasRead
<1>2. st.s = z /\ ~st.ended /\ st.escape
  BY Zenon
<1>3. [st EXCEPT !.escape = FALSE] = HasRead(z)
  BY EscapeSet, Zenon DEF HasRead
<1>4. [HasRead(z) EXCEPT !.s = y] = HasRead(y)
  BY MoreRead
<1> HIDE DEF st
<1>5. ReadChar(st, ch) = [st EXCEPT !.escape = FALSE, !.s = y]
  BY <1>2, Zenon DEF ReadChar
<1>6. [st EXCEPT !.escape = FALSE, !.s = y] = [[st EXCEPT !.escape = FALSE] EXCEPT !.s = y]
  OBVIOUS
<1> QED
  BY <1>1, <1>3, <1>4, <1>5, <1>6, Zenon

\* The assembler reads one character after the other.
LEMMA ReadSteps ==
  ASSUME NEW t, StringOK(t), NEW n \in Nat, n = Len(t)
  PROVE  \E h : /\ h[0] = HasRead(<<>>) /\ h[n] = Assembled(t)
               /\ \A k \in 0..(n - 1) : h[k + 1] = ReadChar(h[k], t[k + 1])
<1>1. n \in Nat /\ DOMAIN t = 1..n
  BY DEF StringOK
<1> DEFINE Over(f) == f = [S \in SUBSET DOMAIN t |->
                        IF S = {} THEN HasRead(<<>>) ELSE ReadChar(f[S \ {Max(S)}], t[Max(S)])]
<1>2. Assembled(t) = (CHOOSE f : Over(f))[DOMAIN t]
  BY Zenon DEF Assembled, ReadChar, HasRead, FoldLeft, MapThenFoldSet
<1>3. \A acc, ch : FoldStep("read", acc, ch) = ReadChar(acc, ch)
  BY DEF FoldStep
<1>4. \A f : Over(f) <=> FoldsOver(f, "read", HasRead(<<>>), t, n)
  <2> SUFFICES ASSUME NEW f
               PROVE  Over(f) <=> FoldsOver(f, "read", HasRead(<<>>), t, n)
    OBVIOUS
  <2>1. [S \in SUBSET DOMAIN t |->
           IF S = {} THEN HasRead(<<>>) ELSE ReadChar(f[S \ {Max(S)}], t[Max(S)])]
        = [S \in SUBSET (1..n) |->
             IF S = {} THEN HasRead(<<>>) ELSE FoldStep("read", f[S \ {Max(S)}], t[Max(S)])]
    BY <1>1, <1>3, Zenon
  <2> QED
    BY <2>1, Zenon DEF FoldsOver
<1>5. PICK f : FoldsOver(f, "read", HasRead(<<>>), t, n) /\ Assembled(t) = f[1..n]
  <2>1. \E f : FoldsOver(f, "read", HasRead(<<>>), t, n)
    BY <1>1, FoldExists
  <2> HIDE DEF Over
  <2>2. Over(CHOOSE f : Over(f))
    BY <1>4, <2>1
  <2> QED
    BY <1>1, <1>2, <1>4, <2>2
<1>6. PICK h : FoldsTo(h, "read", HasRead(<<>>), t, n, f[1..n])
  BY <1>1, <1>5, FoldSteps
<1>7. h[0] = HasRead(<<>>) /\ h[n] = Assembled(t)
  BY <1>5, <1>6, Zenon DEF FoldsTo
<1>8. \A k \in 0..(n - 1) : h[k + 1] = ReadChar(h[k], t[k + 1])
  BY <1>3, <1>6, Zenon DEF FoldsTo
<1> QED
  BY <1>7, <1>8, Zenon

-----------------------------------------------------------------------------
\* What escape_string makes of a string: h has the builder behind every character of s.
EscapedBy(h, s, n) ==
  /\ h[0] = NewBuilder
  /\ \A k \in 0..(n - 1) : Extends(h[k + 1], h[k], EscapeChar(s[k + 1]))

LEMMA EscapedOK ==
  ASSUME NEW s, StringOK(s), NEW n, n \in Nat, n = Len(s), NEW h, EscapedBy(h, s, n)
  PROVE  \A k \in 0..n : /\ BuilderOK(h[k])
                         /\ \A j \in 0..(h[k].len - 1) : h[k].data[j] # Nul
<1> DEFINE Done(k) == /\ BuilderOK(h[k])
                      /\ \A j \in 0..(h[k].len - 1) : h[k].data[j] # Nul
           T == {k \in 0..n : Done(k)}
<1>1. 0 \in T
  <2>1. h[0] = NewBuilder /\ NewBuilder.len = 0
    BY DEF EscapedBy, NewBuilder
  <2> QED
    BY <2>1, NewBuilderOK
<1>2. ASSUME NEW k \in 0..(n - 1), k \in T
      PROVE  k + 1 \in T
  <2> DEFINE b == h[k]
             c == h[k + 1]
             e == EscapeChar(s[k + 1])
  <2>1. Extends(c, b, e)
    BY DEF EscapedBy
  <2>2. b.len \in Nat /\ \A j \in 0..(b.len - 1) : b.data[j] # Nul
    BY <1>2 DEF BuilderOK
  <2>3. s[k + 1] # Nul /\ s[k + 1] # Junk
    BY DEF StringOK
  <2>4. Len(e) \in Nat /\ \A j \in 1..Len(e) : e[j] # Nul
    BY <2>3, EscapeIs
  <2> HIDE DEF b, c, e
  <2>5. ASSUME NEW j \in 0..(c.len - 1)
        PROVE  c.data[j] # Nul
    <3>1. c.len = b.len + Len(e)
      BY <2>1 DEF Extends
    <3>2. CASE j < b.len
      <4>1. j \in 0..(b.len - 1)
        BY <2>2, <3>2
      <4>2. c.data[j] = b.data[j]
        BY <2>1, <4>1 DEF Extends
      <4> QED
        BY <2>2, <4>1, <4>2
    <3>3. CASE j >= b.len
      <4> DEFINE i == j - b.len + 1
      <4>1. i \in 1..Len(e) /\ b.len + i - 1 = j
        BY <2>2, <2>4, <3>1, <3>3
      <4> HIDE DEF i
      <4>2. c.data[b.len + i - 1] = e[i]
        BY <2>1, <4>1 DEF Extends
      <4> QED
        BY <2>4, <4>1, <4>2
    <3> QED
      BY <2>2, <3>2, <3>3
  <2>6. BuilderOK(c)
    BY <2>1 DEF Extends
  <2> QED
    BY <2>5, <2>6 DEF c
<1>3. \A k \in 0..(n - 1) : k \in T => k + 1 \in T
  BY <1>2
<1>4. \A k \in 0..n : k \in T
  <2> HIDE DEF T
  <2> QED
    BY <1>1, <1>3, UpTo
<1> QED
  BY <1>4

\* What is written stays.
LEMMA EscapedKept ==
  ASSUME NEW s, StringOK(s), NEW n, n \in Nat, n = Len(s), NEW h, EscapedBy(h, s, n)
  PROVE  \A k \in 0..n : /\ h[k].len \in Nat /\ h[k].len <= h[n].len
                         /\ \A j \in 0..(h[k].len - 1) : h[n].data[j] = h[k].data[j]
<1> DEFINE Remains(k) == /\ h[k].len \in Nat /\ h[k].len <= h[n].len
                       /\ \A j \in 0..(h[k].len - 1) : h[n].data[j] = h[k].data[j]
           T == {i \in 0..n : Remains(n - i)}
<1>1. \A k \in 0..n : h[k].len \in Nat
  BY EscapedOK DEF BuilderOK
<1>2. 0 \in T
  <2>1. n - 0 = n /\ n \in 0..n
    OBVIOUS
  <2>2. Remains(n)
    BY <1>1, <2>1
  <2> HIDE DEF Remains
  <2> QED
    BY <2>1, <2>2
<1>3. ASSUME NEW i \in 0..(n - 1), i \in T
      PROVE  i + 1 \in T
  <2> DEFINE k == n - (i + 1)
  <2>1. k \in 0..(n - 1) /\ k + 1 = n - i /\ k \in 0..n /\ k + 1 \in 0..n /\ i + 1 \in 0..n
    OBVIOUS
  <2>2. Remains(k + 1)
    BY <1>3, <2>1
  <2> HIDE DEF k
  <2>3. Extends(h[k + 1], h[k], EscapeChar(s[k + 1])) /\ Len(EscapeChar(s[k + 1])) \in Nat
    <3>1. s[k + 1] # Nul /\ s[k + 1] # Junk
      BY <2>1 DEF StringOK
    <3> QED
      BY <2>1, <3>1, EscapeIs DEF EscapedBy
  <2>4. h[k].len <= h[k + 1].len /\ h[k].len \in Nat
        /\ \A j \in 0..(h[k].len - 1) : h[k + 1].data[j] = h[k].data[j]
    BY <1>1, <2>1, <2>3 DEF Extends
  <2>5. Remains(k)
    <3>1. h[k + 1].len \in Nat /\ h[n].len \in Nat /\ h[k + 1].len <= h[n].len
      BY <1>1, <2>1, <2>2
    <3>2. h[k].len <= h[n].len
      BY <2>4, <3>1
    <3>3. ASSUME NEW j \in 0..(h[k].len - 1)
          PROVE  h[n].data[j] = h[k].data[j]
      <4>1. j \in 0..(h[k + 1].len - 1)
        BY <2>4, <3>1
      <4> QED
        BY <2>2, <2>4, <4>1
    <3> QED
      BY <2>4, <3>2, <3>3
  <2> HIDE DEF Remains
  <2> QED
    BY <2>1, <2>5 DEF k
<1>4. \A k \in 0..(n - 1) : k \in T => k + 1 \in T
  BY <1>3
<1>5. \A k \in 0..n : k \in T
  <2> HIDE DEF T
  <2> QED
    BY <1>2, <1>4, UpTo
<1>6. ASSUME NEW k \in 0..n
      PROVE  Remains(k)
  <2>1. n - k \in 0..n /\ n - (n - k) = k
    OBVIOUS
  <2>2. Remains(n - (n - k))
    BY <1>5, <2>1
  <2> HIDE DEF Remains
  <2> QED
    BY <2>1, <2>2
<1> QED
  BY <1>6

\* What the assembler reads is the string that was escaped.
LEMMA Arrives ==
  ASSUME NEW s, StringOK(s)
  PROVE  /\ Holds(escape_string(s))
         /\ Assembled(Build(escape_string(s))) = HasRead(s)
<1> DEFINE n == Len(s)
<1>1. n \in Nat /\ DOMAIN s = 1..n /\ s \in Seq(ToSet(s))
  BY DEF StringOK
<1>2. PICK h : EscapedBy(h, s, n) /\ h[n] = escape_string(s)
  <2> HIDE DEF n
  <2>1. \A m \in Nat : m = Len(s) =>
          \E h : /\ h[0] = NewBuilder /\ h[m] = escape_string(s)
                /\ \A k \in 0..(m - 1) : Extends(h[k + 1], h[k], EscapeChar(s[k + 1]))
    BY EscapeSteps
  <2>2. PICK h : /\ h[0] = NewBuilder /\ h[n] = escape_string(s)
                 /\ \A k \in 0..(n - 1) : Extends(h[k + 1], h[k], EscapeChar(s[k + 1]))
    BY <1>1, <2>1, Zenon DEF n
  <2> QED
    BY <2>2, Zenon DEF EscapedBy
<1> DEFINE B == h[n]
           t == Bytes(B)
           m == Len(t)
<1>3. \A k \in 0..n : BuilderOK(h[k]) /\ \A j \in 0..(h[k].len - 1) : h[k].data[j] # Nul
  BY <1>1, <1>2, EscapedOK
<1>4. \A k \in 0..n : /\ h[k].len \in Nat /\ h[k].len <= B.len
                      /\ \A j \in 0..(h[k].len - 1) : B.data[j] = h[k].data[j]
  BY <1>1, <1>2, EscapedKept
<1>5. BuilderOK(B) /\ B.len \in Nat /\ \A j \in 0..(B.len - 1) : B.data[j] # Nul
  <2>1. n \in 0..n
    BY <1>1
  <2> QED
    BY <1>3, <1>4, <2>1, Zenon
<1>6. Holds(escape_string(s))
  BY <1>2, <1>5, Zenon DEF BuilderOK, Holds
<1> HIDE DEF B
<1>7. m = B.len /\ m \in Nat /\ \A k \in 1..m : t[k] = B.data[k - 1]
  BY <1>5, BytesAre DEF Bytes
<1>8. StringOK(t)
  <2>1. t \in Seq(ToSet(t))
    BY <1>5, BytesAre
  <2>2. \A k \in 1..m : t[k] # Nul /\ t[k] # Junk
    <3>1. \A j \in 0..(B.len - 1) : B.data[j] # Junk
      BY <1>5 DEF BuilderOK
    <3> HIDE DEF t
    <3> QED
      BY <1>5, <1>7, <3>1
  <2> HIDE DEF t
  <2> QED
    BY <2>1, <2>2 DEF StringOK
<1>9. Build(B) = t
  <2>1. Build(B) = UpToNul(t)
    BY Zenon DEF Build, Bytes
  <2> HIDE DEF t
  <2> QED
    BY <1>8, <2>1, WholeTaken
<1> HIDE DEF t
<1>10. PICK r : /\ r[0] = HasRead(<<>>) /\ r[m] = Assembled(t)
                /\ \A k \in 0..(m - 1) : r[k + 1] = ReadChar(r[k], t[k + 1])
  <2>1. \A i \in Nat : i = Len(t) =>
          \E r : /\ r[0] = HasRead(<<>>) /\ r[i] = Assembled(t)
                /\ \A k \in 0..(i - 1) : r[k + 1] = ReadChar(r[k], t[k + 1])
    BY <1>8, ReadSteps
  <2> QED
    BY <1>7, <2>1, Zenon
<1> HIDE DEF m
<1> DEFINE T == {k \in 0..n : r[h[k].len] = HasRead(SubSeq(s, 1, k))}
<1>11. 0 \in T
  <2>1. h[0].len = 0
    BY <1>2 DEF EscapedBy, NewBuilder
  <2>2. SubSeq(s, 1, 0) = <<>>
    BY <1>1
  <2>3. r[h[0].len] = HasRead(SubSeq(s, 1, 0))
    BY <1>10, <2>1, <2>2, Zenon
  <2> QED
    BY <1>1, <2>3
<1>12. ASSUME NEW k \in 0..(n - 1), k \in T
       PROVE  k + 1 \in T
  <2> DEFINE ch == s[k + 1]
             e == EscapeChar(ch)
             l == h[k].len
             z == SubSeq(s, 1, k)
  <2>1. ch # Nul /\ ch # Junk
    BY <1>1 DEF StringOK
  <2>2. /\ e \in Seq(ToSet(e)) /\ Len(e) \in Nat
        /\ ch \notin Marked => Len(e) = 1 /\ e[1] = ch
        /\ ch \in Marked => Len(e) = 2 /\ e[1] = "\\" /\ AssemblerEscape(e[2]) = ch
    BY <2>1, EscapeIs
  <2>3. k \in 0..n /\ k + 1 \in 0..n
    BY <1>1
  <2>4. l \in Nat /\ h[k + 1].len \in Nat /\ h[k + 1].len <= m
    BY <1>4, <1>7, <2>3
  <2>5. Extends(h[k + 1], h[k], e)
    BY <1>2 DEF EscapedBy
  <2>6. h[k + 1].len = l + Len(e)
    BY <2>5 DEF Extends
  <2>7. r[l] = HasRead(z)
    BY <1>12
  <2>8. SubSeq(s, 1, k + 1) = Append(z, ch)
    BY <1>1
  <2> HIDE DEF z, ch, l, e
  <2>9. Len(e) \in Nat
    BY <2>2
  <2>10. ASSUME NEW i \in 1..Len(e)
        PROVE  t[l + i] = e[i] /\ l + i \in 1..m
    <3>1. l + i \in 1..m /\ l + i - 1 \in 0..(h[k + 1].len - 1)
      BY <1>7, <2>9, <2>4, <2>6
    <3>2. t[l + i] = B.data[l + i - 1]
      <4>1. t[l + i] = B.data[(l + i) - 1]
        BY <1>7, <3>1, Zenon
      <4>2. (l + i) - 1 = l + i - 1
        BY <2>4
      <4> QED
        BY <4>1, <4>2, Zenon
    <3>3. B.data[l + i - 1] = h[k + 1].data[l + i - 1]
      BY <1>4, <2>3, <3>1
    <3>4. h[k + 1].data[l + i - 1] = e[i]
      BY <2>5 DEF Extends, l
    <3> QED
      BY <3>1, <3>2, <3>3, <3>4
  <2>11. r[l + Len(e)] = HasRead(Append(z, ch))
    <3>1. CASE ch \notin Marked
      <4>1. Len(e) = 1 /\ e[1] = ch
        BY <2>2, <3>1, Zenon
      <4>2. Len(e) = 1 /\ t[l + 1] = ch /\ l + 1 \in 1..m
        BY <2>10, <4>1
      <4>3. r[l + 1] = ReadChar(r[l], t[l + 1])
        BY <1>7, <1>10, <2>4, <4>2
      <4> QED
        BY <2>7, <3>1, <4>2, <4>3, ReadPlain
    <3>2. CASE ch \in Marked
      <4>1. Len(e) = 2 /\ e[1] = "\\" /\ AssemblerEscape(e[2]) = ch
        BY <2>2, <3>2
      <4>2. t[l + 1] = e[1] /\ t[l + 2] = e[2] /\ l + 2 \in 1..m
        BY <2>10, <4>1
      <4>3. r[l + 1] = ReadChar(r[l], t[l + 1])
        BY <1>7, <1>10, <2>4, <4>2
      <4>4. r[(l + 1) + 1] = ReadChar(r[l + 1], t[(l + 1) + 1])
        BY <1>7, <1>10, <2>4, <4>2
      <4>5. (l + 1) + 1 = l + 2
        BY <2>4
      <4>6. r[l + 2] = ReadChar(ReadChar(HasRead(z), "\\"), e[2])
        BY <2>7, <4>1, <4>2, <4>3, <4>4, <4>5, Zenon
      <4>7. r[l + 2] = HasRead(Append(z, ch))
        BY <4>1, <4>6, ReadMarked, Zenon
      <4> QED
        BY <4>1, <4>7, Zenon
    <3> QED
      BY <3>1, <3>2
  <2>12. r[h[k + 1].len] = HasRead(SubSeq(s, 1, k + 1))
    BY <2>6, <2>8, <2>11, Zenon
  <2> QED
    BY <2>3, <2>12
<1>13. n \in T
  <2>1. \A k \in 0..(n - 1) : k \in T => k + 1 \in T
    BY <1>12
  <2> HIDE DEF T
  <2>2. \A k \in 0..n : k \in T
    BY <1>1, <1>11, <2>1, UpTo
  <2> QED
    BY <1>1, <2>2
<1>14. SubSeq(s, 1, n) = s
  BY <1>1
<1>15. Assembled(t) = HasRead(s)
  <2>1. r[h[n].len] = HasRead(SubSeq(s, 1, n))
    BY <1>13
  <2> QED
    BY <1>7, <1>10, <1>14, <2>1, Zenon DEF B
<1> QED
  BY <1>2, <1>6, <1>9, <1>15, Zenon DEF B

-----------------------------------------------------------------------------
\* The literals are what strbld_build has made.
LiteralsOK == \A s \in ToSet(string_literals) : StringOK(s)

LEMMA StepLiterals == IInv /\ LiteralsOK /\ [Next]_vars => LiteralsOK'
<1> SUFFICES ASSUME IInv, LiteralsOK, [Next]_vars
             PROVE  LiteralsOK'
  OBVIOUS
<1>1. string_literals' = string_literals \/ StringDone
  BY Zenon DEF Next, Step, Stop, vars, Space, InLine, EndLine, BeginComment, InComment, EndComment,
     BeginString, StringEscape, StringChar, StringClose, StringSpace, StringGoesOn,
     StringAtEnd, CharLiteral, Operator, Number, Word, Unknown, End, Goto, Error, InString
<1>2. CASE string_literals' = string_literals
  BY <1>2 DEF LiteralsOK
<1>3. CASE StringDone
  <2>1. string_literals' = Append(string_literals, Build(sb))
    BY <1>3 DEF StringDone
  <2>2. StringOK(Build(sb))
    BY BuildIs DEF IInv, Kept
  <2> QED
    BY <2>1, <2>2 DEF LiteralsOK, ToSet
<1> QED
  BY <1>1, <1>2, <1>3

\* Whatever a string holds, the program gets it: the assembler reads back from what gen_str
\* prints the very string of the token, however often the builder of escape_string grows.
THEOREM EveryLiteralArrives == Spec => []LiteralArrives
<1>1. Init => LiteralsOK
  BY DEF Init, LiteralsOK, ToSet
<1>2. LiteralsOK => LiteralArrives
  <2> SUFFICES ASSUME LiteralsOK, NEW s \in ToSet(string_literals)
               PROVE  /\ Holds(escape_string(s))
                      /\ Assembled(Build(escape_string(s)))
                           = [s |-> s, escape |-> FALSE, ended |-> FALSE]
    BY Zenon DEF LiteralArrives
  <2>1. StringOK(s)
    BY DEF LiteralsOK
  <2> QED
    BY <2>1, Arrives, Zenon DEF HasRead
<1> QED
  BY <1>1, <1>2, StepLiterals, Invariance, PTL DEF Spec

-----------------------------------------------------------------------------
\* What C makes of a text. What holds at a place if it holds behind it holds everywhere.
LEMMA FromEnd ==
  ASSUME NEW n \in Nat, NEW S,
         \A i \in 1..n : (\A j \in (i + 1)..n : j \in S) => i \in S
  PROVE  \A i \in 1..n : i \in S
<1> DEFINE T == {i \in 1..n : i \notin S}
<1> SUFFICES ASSUME T # {}
             PROVE  FALSE
  OBVIOUS
<1>1. T \in SUBSET (0..n)
  OBVIOUS
<1>2. PICK i \in T : \A j \in T : i >= j
  <2> HIDE DEF T
  <2> QED
    BY <1>1, GreatestExists
<1>3. \A j \in (i + 1)..n : j \in S
  BY <1>2
<1> QED
  BY <1>2, <1>3

\* A text: it ends in a newline.
IsText(t) == t \in Seq(Chars) /\ t # <<>> /\ t[Len(t)] = "\n"

LEMMA LengthIs ==
  ASSUME NEW t, IsText(t)
  PROVE  Len(t) \in Nat \ {0} /\ DOMAIN t = 1..Len(t)
BY LenProperties, EmptySeq DEF IsText

\* A lexeme is in the text.
LEMMA EndIs ==
  ASSUME NEW n \in Nat, NEW i \in 1..n, NEW S, S \in SUBSET (i..n), S # {}
  PROVE  C!Max(S) \in S /\ \A j \in S : j <= C!Max(S)
<1>1. S \in SUBSET (0..n)
  OBVIOUS
<1>2. C!Max(S) = Max(S)
  BY Zenon DEF Max, C!Max
<1> QED
  BY <1>1, <1>2, MaxIsGreatest

Ends(t, i) == {j \in i..Len(t) : C!Shape(t, i, j) # "none"}

LEMMA LexemeIs ==
  ASSUME NEW t, IsText(t), NEW i \in 1..Len(t)
  PROVE  /\ Ends(t, i) = {} => C!Lexeme(t, i) = [kind |-> "BAD", first |-> i, last |-> i]
         /\ Ends(t, i) # {} =>
              C!Lexeme(t, i) = [kind |-> C!Shape(t, i, C!Max(Ends(t, i))), first |-> i,
                                last |-> C!Max(Ends(t, i))]
BY Zenon DEF C!Lexeme, Ends

LEMMA LexemeType ==
  ASSUME NEW t, IsText(t), NEW i \in 1..Len(t)
  PROVE  C!Lexeme(t, i).first = i /\ C!Lexeme(t, i).last \in i..Len(t)
<1>1. CASE Ends(t, i) = {}
  BY <1>1, LexemeIs
<1>2. CASE Ends(t, i) # {}
  <2>1. Ends(t, i) \in SUBSET (i..Len(t)) /\ Len(t) \in Nat
    BY LengthIs DEF Ends
  <2>2. C!Max(Ends(t, i)) \in Ends(t, i)
    BY <1>2, <2>1, EndIs
  <2> QED
    BY <1>2, <2>1, <2>2, LexemeIs
<1> QED
  BY <1>1, <1>2

-----------------------------------------------------------------------------
\* The tokens of C as ccatd takes them, which are those of C but for the escapes: it is
\* these that the scanner is followed through, and they are compared with C's afterwards.
AsRead(t, i) ==
  LET Read[k \in i..Len(t)] ==
        IF k = i THEN <<>>
        ELSE IF C!Shielded(t, i, k) THEN Append(Read[k - 1], Escaped(t[k]))
        ELSE IF t[k] = "\\" THEN Read[k - 1]
        ELSE Append(Read[k - 1], t[k])
  IN  Read

AsContents(t, l) == AsRead(t, l.first)[l.last - 1]

AsToken(t, l) ==
  [kind  |-> l.kind, first |-> l.first, last |-> l.last,
   means |-> IF l.kind \in {"STRING", "CHAR"} THEN AsContents(t, l) ELSE <<>>]

AsJoined(tok, next) == [kind  |-> "STRING", first |-> tok.first, last |-> next.last,
                        means |-> tok.means \o next.means]

AsTokensFrom(t) ==
  LET ls == C!LexemesFrom(t)
      From[i \in 1..(Len(t) + 1)] ==
        IF ls[i] = <<>> THEN <<>>
        ELSE LET l    == ls[i][1]
                 rest == From[l.last + 1]
             IN  IF l.kind = "COMMENT" THEN rest
                 ELSE IF l.kind = "STRING" /\ C!Opens(rest, "STRING")
                 THEN <<AsJoined(AsToken(t, l), rest[1])>> \o Tail(rest)
                 ELSE <<AsToken(t, l)>> \o rest
  IN  From

\* What the token of the code should be for one of these.
AsExpected(c) ==
  LET str == SubSeq(text, c.first, c.last)
  IN  [kind |-> c.kind,
       str |-> IF c.kind = "STRING" THEN UpToNul(c.means)
               ELSE IF c.kind = "CHAR" THEN c.means
               ELSE IF c.kind = "NUM" THEN <<>>
               ELSE str,
       val |-> IF c.kind = "NUM" THEN Value(str) ELSE 0,
       line |-> Line(PlaceOf(c)), column |-> Column(PlaceOf(c))]

\* The readings of a text go from place to place, and what is read from a place on is made
\* of what is read from the next one on.
NextPlace(what, t, i) ==
  IF what = "lexemes"
  THEN IF t[i] \in C!Blank THEN i + 1 ELSE C!Lexeme(t, i).last + 1
  ELSE IF C!LexemesFrom(t)[i] = <<>> THEN i + 1 ELSE C!LexemesFrom(t)[i][1].last + 1

TokenThen(t, l, rest) ==
  IF l.kind = "COMMENT" THEN rest
  ELSE IF l.kind = "STRING" /\ C!Opens(rest, "STRING")
  THEN <<AsJoined(AsToken(t, l), rest[1])>> \o Tail(rest)
  ELSE <<AsToken(t, l)>> \o rest

TokenOfCThen(t, l, rest) ==
  IF l.kind = "COMMENT" THEN rest
  ELSE IF l.kind = "STRING" /\ C!Opens(rest, "STRING")
  THEN <<C!Joined(C!Token(t, l), rest[1])>> \o Tail(rest)
  ELSE <<C!Token(t, l)>> \o rest

\* As ccatd and as C take them.
TakenThen(who, t, l, rest) ==
  IF who = "C" THEN TokenOfCThen(t, l, rest) ELSE TokenThen(t, l, rest)

ReadThen(what, t, i, rest) ==
  IF what = "lexemes"
  THEN IF t[i] \in C!Blank THEN rest ELSE <<C!Lexeme(t, i)>> \o rest
  ELSE IF C!LexemesFrom(t)[i] = <<>> THEN <<>>
  ELSE TakenThen(what, t, C!LexemesFrom(t)[i][1], rest)

ReadsOn(f, what, t, n, d) ==
  /\ f = [i \in d..(n + 1) |-> f[i]]
  /\ \A i \in d..(n + 1) :
       f[i] = IF i = n + 1 THEN <<>> ELSE ReadThen(what, t, i, f[NextPlace(what, t, i)])

LEMMA ReadsOnExists ==
  ASSUME NEW what, NEW t, NEW n \in Nat,
         \A i \in 1..n : NextPlace(what, t, i) \in (i + 1)..(n + 1)
  PROVE  \E f : ReadsOn(f, what, t, n, 1)
<1> DEFINE S == {d \in 1..(n + 1) : \E f : ReadsOn(f, what, t, n, d)}
<1>1. ASSUME NEW d \in 1..(n + 1), \A j \in (d + 1)..(n + 1) : j \in S
      PROVE  d \in S
  <2>1. CASE d = n + 1
    <3> DEFINE f == [i \in d..(n + 1) |-> <<>>]
    <3>1. ReadsOn(f, what, t, n, d)
      <4>1. /\ f = [i \in d..(n + 1) |-> f[i]]
            /\ \A i \in d..(n + 1) : f[i] = <<>> /\ i = n + 1
        BY <2>1
      <4> HIDE DEF f
      <4> QED
        BY <4>1, Zenon DEF ReadsOn
    <3> HIDE DEF f
    <3> QED
      BY <3>1
  <2>2. CASE d # n + 1
    <3>1. d \in 1..n /\ d + 1 \in S
      BY <1>1, <2>2
    <3>2. PICK f : ReadsOn(f, what, t, n, d + 1)
      BY <3>1
    <3> DEFINE x == ReadThen(what, t, d, f[NextPlace(what, t, d)])
               g == [i \in d..(n + 1) |-> IF i = d THEN x ELSE f[i]]
    <3>3. g = [i \in d..(n + 1) |-> g[i]]
      OBVIOUS
    <3>4. g[d] = x /\ \A i \in (d + 1)..(n + 1) : g[i] = f[i]
      BY <3>1
    <3> HIDE DEF g
    <3>5. \A i \in d..n : g[NextPlace(what, t, i)] = f[NextPlace(what, t, i)]
      <4>1. \A i \in d..n : NextPlace(what, t, i) \in (d + 1)..(n + 1)
        BY <3>1
      <4> QED
        BY <3>4, <4>1
    <3>6. g[d] = ReadThen(what, t, d, g[NextPlace(what, t, d)])
      BY <3>1, <3>4, <3>5
    <3>7. \A i \in (d + 1)..(n + 1) :
            g[i] = IF i = n + 1 THEN <<>> ELSE ReadThen(what, t, i, g[NextPlace(what, t, i)])
      <4> TAKE i \in (d + 1)..(n + 1)
      <4>1. g[i] = f[i]
        BY <3>4
      <4>2. f[i] = IF i = n + 1 THEN <<>> ELSE ReadThen(what, t, i, f[NextPlace(what, t, i)])
        BY <3>2, Zenon DEF ReadsOn
      <4>3. i # n + 1 => g[NextPlace(what, t, i)] = f[NextPlace(what, t, i)]
        <5>1. i # n + 1 => i \in d..n
          BY <3>1
        <5> QED
          BY <3>5, <5>1, Zenon
      <4> QED
        BY <4>1, <4>2, <4>3, Zenon
    <3>8. \A i \in d..(n + 1) :
            g[i] = IF i = n + 1 THEN <<>> ELSE ReadThen(what, t, i, g[NextPlace(what, t, i)])
      <4>1. \A i \in d..(n + 1) : i = d \/ i \in (d + 1)..(n + 1)
        BY <3>1
      <4> QED
        BY <2>2, <3>6, <3>7, <4>1, Zenon
    <3>9. ReadsOn(g, what, t, n, d)
      BY <3>3, <3>8, Zenon DEF ReadsOn
    <3> QED
      BY <3>9
  <2> QED
    BY <2>1, <2>2
<1>2. \A i \in 1..(n + 1) : i \in S
  <2>1. n + 1 \in Nat
    OBVIOUS
  <2> HIDE DEF S
  <2> QED
    BY <1>1, <2>1, FromEnd
<1> QED
  BY <1>2

\* From the lexeme at a place, or the next place, on.
LexemesOf(f, t) ==
  f = [i \in 1..(Len(t) + 1) |->
         IF i > Len(t) THEN <<>>
         ELSE IF t[i] \in C!Blank THEN f[i + 1]
         ELSE <<C!Lexeme(t, i)>> \o f[C!Lexeme(t, i).last + 1]]

LEMMA LexemesExist ==
  ASSUME NEW t, IsText(t)
  PROVE  LexemesOf(C!LexemesFrom(t), t)
<1> DEFINE n == Len(t)
<1>1. n \in Nat
  BY LengthIs
<1>2. \A i \in 1..n : NextPlace("lexemes", t, i) \in (i + 1)..(n + 1)
  <2> TAKE i \in 1..n
  <2>1. C!Lexeme(t, i).last \in i..n
    BY LexemeType
  <2>2. NextPlace("lexemes", t, i) \in {i + 1, C!Lexeme(t, i).last + 1}
    BY DEF NextPlace
  <2> HIDE DEF n
  <2> QED
    BY <1>1, <2>1, <2>2
<1>3. PICK f : ReadsOn(f, "lexemes", t, n, 1)
  <2> HIDE DEF n
  <2> QED
    BY <1>1, <1>2, ReadsOnExists, Zenon
<1>5. ASSUME NEW i \in 1..(n + 1)
      PROVE  f[i] = IF i > n THEN <<>>
                    ELSE IF t[i] \in C!Blank THEN f[i + 1]
                    ELSE <<C!Lexeme(t, i)>> \o f[C!Lexeme(t, i).last + 1]
  <2>1. f[i] = IF i = n + 1 THEN <<>>
               ELSE ReadThen("lexemes", t, i, f[NextPlace("lexemes", t, i)])
    BY <1>3, Zenon DEF ReadsOn
  <2>2. i = n + 1 <=> i > n
    BY <1>1
  <2> QED
    BY <2>1, <2>2, Zenon DEF ReadThen, NextPlace
<1>6. LexemesOf(f, t)
  <2>1. f = [i \in 1..(n + 1) |-> f[i]]
    BY <1>3, Zenon DEF ReadsOn
  <2> QED
    BY <1>5, <2>1, Zenon DEF LexemesOf
<1>7. C!LexemesFrom(t) = CHOOSE g : LexemesOf(g, t)
  BY Zenon DEF C!LexemesFrom, LexemesOf
<1> QED
  BY <1>6, <1>7, Zenon

LEMMA LexemesFromIs ==
  ASSUME NEW t, IsText(t), NEW i, i \in 1..(Len(t) + 1)
  PROVE  /\ i = Len(t) + 1 => C!LexemesFrom(t)[i] = <<>>
         /\ i # Len(t) + 1 /\ t[i] \in C!Blank =>
              C!LexemesFrom(t)[i] = C!LexemesFrom(t)[i + 1]
         /\ i # Len(t) + 1 /\ t[i] \notin C!Blank =>
              C!LexemesFrom(t)[i] = <<C!Lexeme(t, i)>> \o C!LexemesFrom(t)[C!Lexeme(t, i).last + 1]
<1>1. C!LexemesFrom(t)[i] = IF i > Len(t) THEN <<>>
                            ELSE IF t[i] \in C!Blank THEN C!LexemesFrom(t)[i + 1]
                            ELSE <<C!Lexeme(t, i)>> \o C!LexemesFrom(t)[C!Lexeme(t, i).last + 1]
  <2> DEFINE f == C!LexemesFrom(t)
  <2>1. LexemesOf(f, t)
    BY LexemesExist
  <2> HIDE DEF f
  <2>2. f[i] = IF i > Len(t) THEN <<>>
               ELSE IF t[i] \in C!Blank THEN f[i + 1]
               ELSE <<C!Lexeme(t, i)>> \o f[C!Lexeme(t, i).last + 1]
    BY <2>1, Zenon DEF LexemesOf
  <2> QED
    BY <2>2, Zenon DEF f
<1>2. i = Len(t) + 1 <=> i > Len(t)
  BY LengthIs
<1> QED
  BY <1>1, <1>2, Zenon

\* A sequence with one more in front.
LEMMA ConsIs ==
  ASSUME NEW S, NEW x \in S, NEW s \in Seq(S)
  PROVE  /\ <<x>> \o s \in Seq(S) /\ <<x>> \o s # <<>> /\ Len(<<x>> \o s) = Len(s) + 1
         /\ (<<x>> \o s)[1] = x /\ \A k \in 1..Len(s) : (<<x>> \o s)[k + 1] = s[k]
<1>1. <<x>> \in Seq(S) /\ Len(<<x>>) = 1 /\ <<x>>[1] = x
  OBVIOUS
<1>2. <<x>> \o s \in Seq(S) /\ Len(<<x>> \o s) = Len(s) + 1
  BY <1>1
<1>3. (<<x>> \o s)[1] = x /\ \A k \in 1..Len(s) : (<<x>> \o s)[k + 1] = s[k]
  BY <1>1
<1>4. Len(<<x>> \o s) # 0
  BY <1>2
<1>5. <<x>> \o s # <<>>
  BY <1>2, <1>4, EmptySeq
<1> QED
  BY <1>2, <1>3, <1>5

LexemeKinds == {"BAD", "COMMENT", "STRING", "CHAR", "NUM", "KWD", "IDT", "none"}

LexemesIn(t) == {C!Lexeme(t, i) : i \in 1..Len(t)}

LEMMA LexemesType ==
  ASSUME NEW t, IsText(t)
  PROVE  \A i \in 1..(Len(t) + 1) : C!LexemesFrom(t)[i] \in Seq(LexemesIn(t))
<1> DEFINE n == Len(t) + 1
           f == C!LexemesFrom(t)
           S == {i \in 1..n : f[i] \in Seq(LexemesIn(t))}
<1>1. n \in Nat
  BY LengthIs
<1>2. ASSUME NEW i \in 1..n, \A j \in (i + 1)..n : j \in S
      PROVE  i \in S
  <2>1. CASE i = n
    <3>1. f[i] = <<>>
      BY <2>1, LexemesFromIs
    <3>2. <<>> \in Seq(LexemesIn(t))
      OBVIOUS
    <3> QED
      BY <3>1, <3>2, Zenon
  <2>2. CASE i # n
    <3>1. i \in 1..Len(t) /\ Len(t) \in Nat
      BY <2>2, LengthIs
    <3>2. CASE t[i] \in C!Blank
      <4>1. f[i] = f[i + 1]
        BY <2>2, <3>2, LexemesFromIs, Zenon
      <4>2. i + 1 \in (i + 1)..n
        BY <3>1
      <4> HIDE DEF f, n
      <4> QED
        BY <1>2, <4>1, <4>2
    <3>3. CASE t[i] \notin C!Blank
      <4>1. f[i] = <<C!Lexeme(t, i)>> \o f[C!Lexeme(t, i).last + 1]
        BY <2>2, <3>3, LexemesFromIs, Zenon
      <4>2. C!Lexeme(t, i).last + 1 \in (i + 1)..n
        BY <3>1, LexemeType
      <4>3. C!Lexeme(t, i) \in LexemesIn(t)
        BY <3>1 DEF LexemesIn
      <4> HIDE DEF f, n
      <4>4. f[C!Lexeme(t, i).last + 1] \in Seq(LexemesIn(t))
        BY <1>2, <4>2
      <4>5. f[i] \in Seq(LexemesIn(t))
        BY <4>1, <4>3, <4>4, ConsIs
      <4> QED
        BY <4>5
    <3> QED
      BY <3>2, <3>3
  <2> QED
    BY <2>1, <2>2
<1>3. \A i \in 1..n : i \in S
  <2> HIDE DEF S, n
  <2> QED
    BY <1>1, <1>2, FromEnd
<1> QED
  BY <1>3

-----------------------------------------------------------------------------
\* What is read of a literal, character by character.
ReadNext(t, i, k, x) ==
  IF C!Shielded(t, i, k) THEN Append(x, Escaped(t[k]))
  ELSE IF t[k] = "\\" THEN x
  ELSE Append(x, t[k])

ReadNextOfC(t, i, k, x) ==
  IF C!Shielded(t, i, k) THEN Append(x, C!Meaning(C!Escape(t, k)))
  ELSE IF t[k] = "\\" THEN x
  ELSE Append(x, t[k])

ReadOn(who, t, i, k, x) == IF who = "C" THEN ReadNextOfC(t, i, k, x) ELSE ReadNext(t, i, k, x)

ReadsTo(f, who, t, i, n) ==
  /\ f = [k \in i..n |-> f[k]]
  /\ \A k \in i..n : f[k] = IF k = i THEN <<>> ELSE ReadOn(who, t, i, k, f[k - 1])

LEMMA ReadsToExists ==
  ASSUME NEW who, NEW t, NEW i \in Nat, NEW n \in Nat
  PROVE  \A m \in 0..n : \E f : ReadsTo(f, who, t, i, i + m)
<1> DEFINE S == {m \in Nat : \E f : ReadsTo(f, who, t, i, i + m)}
<1>1. 0 \in S
  <2> DEFINE f == [k \in i..i |-> <<>>]
  <2>1. f = [k \in i..i |-> f[k]] /\ \A k \in i..i : f[k] = <<>> /\ k = i
    OBVIOUS
  <2>2. i + 0 = i
    OBVIOUS
  <2> HIDE DEF f
  <2>3. ReadsTo(f, who, t, i, i + 0)
    BY <2>1, <2>2, Zenon DEF ReadsTo
  <2> QED
    BY <2>3
<1>2. ASSUME NEW m \in 0..(n - 1), m \in S
      PROVE  m + 1 \in S
  <2>1. PICK f : ReadsTo(f, who, t, i, i + m)
    BY <1>2
  <2> DEFINE e == i + (m + 1)
             x == ReadOn(who, t, i, e, f[e - 1])
             g == [k \in i..e |-> IF k = e THEN x ELSE f[k]]
  <2>2. g = [k \in i..e |-> g[k]] /\ g[e] = x /\ \A k \in i..(i + m) : g[k] = f[k]
    OBVIOUS
  <2>3. e - 1 = i + m /\ e - 1 \in i..(i + m) /\ e # i /\ i \in i..(i + m)
    OBVIOUS
  <2>4. \A k \in i..e : k = e \/ k \in i..(i + m)
    OBVIOUS
  <2>5. \A k \in i..(i + m) : k = i \/ k - 1 \in i..(i + m)
    OBVIOUS
  <2> HIDE DEF g, e
  <2>6. g[e] = ReadOn(who, t, i, e, g[e - 1])
    BY <2>2, <2>3
  <2>7. ASSUME NEW k \in i..(i + m)
        PROVE  g[k] = IF k = i THEN <<>> ELSE ReadOn(who, t, i, k, g[k - 1])
    <3>1. f[k] = IF k = i THEN <<>> ELSE ReadOn(who, t, i, k, f[k - 1])
      BY <2>1, Zenon DEF ReadsTo
    <3>2. g[k] = f[k] /\ (k # i => g[k - 1] = f[k - 1])
      BY <2>2, <2>5
    <3> QED
      BY <3>1, <3>2, Zenon
  <2>8. \A k \in i..e : g[k] = IF k = i THEN <<>> ELSE ReadOn(who, t, i, k, g[k - 1])
    BY <2>3, <2>4, <2>6, <2>7, Zenon
  <2>9. ReadsTo(g, who, t, i, e)
    BY <2>2, <2>8, Zenon DEF ReadsTo
  <2> QED
    BY <2>9 DEF e
<1>3. \A m \in 0..n : m \in S
  <2> HIDE DEF S
  <2> QED
    BY <1>1, <1>2, UpTo
<1> QED
  BY <1>3

ReadOf(f, who, t, i) ==
  f = [k \in i..Len(t) |-> IF k = i THEN <<>> ELSE ReadOn(who, t, i, k, f[k - 1])]

LEMMA ReadExists ==
  ASSUME NEW t, IsText(t), NEW i, i \in 1..Len(t), NEW who
  PROVE  \E f : ReadOf(f, who, t, i)
<1>1. Len(t) \in Nat /\ i \in Nat /\ Len(t) - i \in 0..Len(t) /\ i + (Len(t) - i) = Len(t)
  BY LengthIs
<1>2. PICK f : ReadsTo(f, who, t, i, Len(t))
  <2>1. \A m \in 0..Len(t) : \E f : ReadsTo(f, who, t, i, i + m)
    BY <1>1, ReadsToExists, Zenon
  <2>2. \E f : ReadsTo(f, who, t, i, i + (Len(t) - i))
    BY <1>1, <2>1, Zenon
  <2> QED
    BY <1>1, <2>2, Zenon
<1>3. ReadOf(f, who, t, i)
  BY <1>2, Zenon DEF ReadsTo, ReadOf
<1> QED
  BY <1>3

LEMMA ReadingsAre ==
  ASSUME NEW t, IsText(t), NEW i, i \in 1..Len(t)
  PROVE  ReadOf(AsRead(t, i), "ccatd", t, i) /\ ReadOf(C!ReadFrom(t, i), "C", t, i)
<1>0. "ccatd" # "C"
  OBVIOUS
<1>1. AsRead(t, i) = CHOOSE g : ReadOf(g, "ccatd", t, i)
  BY <1>0, Zenon DEF AsRead, ReadOf, ReadOn, ReadNext
<1>2. C!ReadFrom(t, i) = CHOOSE g : ReadOf(g, "C", t, i)
  BY Zenon DEF C!ReadFrom, ReadOf, ReadOn, ReadNextOfC
<1>3. (\E g : ReadOf(g, "ccatd", t, i)) /\ (\E g : ReadOf(g, "C", t, i))
  BY ReadExists, Zenon
<1> QED
  BY <1>1, <1>2, <1>3, Zenon

LEMMA ReadFromIs ==
  ASSUME NEW t, IsText(t), NEW i, i \in 1..Len(t)
  PROVE  /\ AsRead(t, i)[i] = <<>>
         /\ \A k \in (i + 1)..Len(t) :
              AsRead(t, i)[k] = ReadNext(t, i, k, AsRead(t, i)[k - 1])
<1> DEFINE r == AsRead(t, i)
<1>1. ReadOf(r, "ccatd", t, i)
  BY ReadingsAre, Zenon
<1>2. "ccatd" # "C"
  OBVIOUS
<1> HIDE DEF r
<1>3. \A k \in i..Len(t) : r[k] = IF k = i THEN <<>> ELSE ReadNext(t, i, k, r[k - 1])
  BY <1>1, <1>2, Zenon DEF ReadOf, ReadOn
<1>4. i \in i..Len(t) /\ \A k \in (i + 1)..Len(t) : k \in i..Len(t) /\ k # i
  BY LengthIs
<1>5. r[i] = <<>> /\ \A k \in (i + 1)..Len(t) : r[k] = ReadNext(t, i, k, r[k - 1])
  BY <1>3, <1>4, Zenon
<1> QED
  BY <1>5, Zenon DEF r

LEMMA ReadOfCIs ==
  ASSUME NEW t, IsText(t), NEW i, i \in 1..Len(t)
  PROVE  /\ C!ReadFrom(t, i)[i] = <<>>
         /\ \A k \in (i + 1)..Len(t) :
              C!ReadFrom(t, i)[k] = ReadNextOfC(t, i, k, C!ReadFrom(t, i)[k - 1])
<1> DEFINE r == C!ReadFrom(t, i)
<1>1. ReadOf(r, "C", t, i)
  BY ReadingsAre, Zenon
<1> HIDE DEF r
<1>2. \A k \in i..Len(t) : r[k] = IF k = i THEN <<>> ELSE ReadNextOfC(t, i, k, r[k - 1])
  BY <1>1, Zenon DEF ReadOf, ReadOn
<1>3. i \in i..Len(t) /\ \A k \in (i + 1)..Len(t) : k \in i..Len(t) /\ k # i
  BY LengthIs
<1>4. r[i] = <<>> /\ \A k \in (i + 1)..Len(t) : r[k] = ReadNextOfC(t, i, k, r[k - 1])
  BY <1>2, <1>3, Zenon
<1> QED
  BY <1>4, Zenon DEF r

\* What characters of a text can mean.
Meant(t) == {t[k] : k \in 1..Len(t)} \cup {Escaped(t[k]) : k \in 1..Len(t)}

LEMMA ReadType ==
  ASSUME NEW t, IsText(t), NEW i \in 1..Len(t)
  PROVE  \A k \in i..Len(t) : AsRead(t, i)[k] \in Seq(Meant(t))
<1> DEFINE r == AsRead(t, i)
           n == Len(t) - i
           S == {m \in 0..n : r[i + m] \in Seq(Meant(t))}
<1>1. i \in Nat /\ n \in Nat /\ Len(t) = i + n /\ Len(t) \in Nat
  BY LengthIs
<1>2. 0 \in S
  <2>1. r[i] = <<>> /\ <<>> \in Seq(Meant(t))
    BY ReadFromIs
  <2>2. i + 0 = i /\ 0 \in 0..n
    BY <1>1
  <2> HIDE DEF r, n
  <2> QED
    BY <2>1, <2>2
<1>3. ASSUME NEW m \in 0..(n - 1), m \in S
      PROVE  m + 1 \in S
  <2> DEFINE k == i + (m + 1)
  <2>1. k \in (i + 1)..Len(t) /\ k - 1 = i + m /\ k \in 1..Len(t) /\ m + 1 \in 0..n
    BY <1>1
  <2>2. r[k] = ReadNext(t, i, k, r[k - 1])
    BY <2>1, ReadFromIs, Zenon
  <2>3. t[k] \in Meant(t) /\ Escaped(t[k]) \in Meant(t)
    BY <2>1 DEF Meant
  <2> HIDE DEF r, k, n
  <2>4. r[k - 1] \in Seq(Meant(t))
    BY <1>3, <2>1
  <2>5. r[k] \in Seq(Meant(t))
    BY <2>2, <2>3, <2>4 DEF ReadNext
  <2> QED
    BY <2>1, <2>5 DEF k
<1>4. \A m \in 0..n : m \in S
  <2> HIDE DEF S, n
  <2> QED
    BY <1>1, <1>2, <1>3, UpTo
<1> QED
  <2> TAKE k \in i..Len(t)
  <2>1. k - i \in 0..n /\ i + (k - i) = k
    BY <1>1
  <2>2. r[i + (k - i)] \in Seq(Meant(t))
    BY <1>4, <2>1
  <2> HIDE DEF r
  <2>3. r[k] \in Seq(Meant(t))
    BY <2>1, <2>2
  <2> QED
    BY <2>3 DEF r

-----------------------------------------------------------------------------
\* What kind a span is of says what it looks like.
LEMMA ShapeIs ==
  ASSUME NEW t, NEW i, NEW j
  PROVE  /\ C!Shape(t, i, j) \in LexemeKinds
         /\ C!Shape(t, i, j) = "STRING" => C!IsString(t, i, j)
         /\ C!Shape(t, i, j) = "CHAR" => C!IsCharacter(t, i, j)
<1> DEFINE x == C!Shape(t, i, j)
           w == C!WordShape(t, i, j)
<1>1. w = "NUM" \/ w = "BAD" \/ w = "KWD" \/ w = "IDT"
  BY Zenon DEF C!WordShape
<1>2. \/ x = "COMMENT" \/ x = "none" \/ x = "KWD" \/ x = w
      \/ x = "STRING" /\ C!IsString(t, i, j)
      \/ x = "CHAR" /\ C!IsCharacter(t, i, j)
  BY Zenon DEF C!Shape
<1> HIDE DEF x, w
<1> DEFINE Other == {"COMMENT", "none", "KWD", "NUM", "BAD", "IDT"}
<1>3. /\ "COMMENT" \in Other /\ "none" \in Other /\ "KWD" \in Other /\ "NUM" \in Other
      /\ "BAD" \in Other /\ "IDT" \in Other
      /\ Other \subseteq LexemeKinds /\ "STRING" \in LexemeKinds /\ "CHAR" \in LexemeKinds
      /\ "STRING" \notin Other /\ "CHAR" \notin Other /\ "CHAR" # "STRING"
  BY DEF LexemeKinds
<1> HIDE DEF Other
<1>4. \/ x \in Other
      \/ x = "STRING" /\ C!IsString(t, i, j)
      \/ x = "CHAR" /\ C!IsCharacter(t, i, j)
  BY <1>1, <1>2, <1>3, Zenon
<1>5. \A y \in Other : y \in LexemeKinds /\ y # "STRING" /\ y # "CHAR"
  <2>1. \A y \in Other : y \in LexemeKinds
    BY <1>3, Zenon
  <2>2. \A y \in Other : y # "STRING"
    BY <1>3, Zenon
  <2>3. \A y \in Other : y # "CHAR"
    BY <1>3, Zenon
  <2> QED
    BY <2>1, <2>2, <2>3, Zenon
<1>6. x \in LexemeKinds
  BY <1>3, <1>4, <1>5, Zenon
<1>7. x = "STRING" => C!IsString(t, i, j)
  BY <1>3, <1>4, <1>5, Zenon
<1>8. x = "CHAR" => C!IsCharacter(t, i, j)
  BY <1>3, <1>4, <1>5, Zenon
<1> QED
  BY <1>6, <1>7, <1>8, Zenon DEF x

LEMMA LexemeShape ==
  ASSUME NEW t, IsText(t), NEW i \in 1..Len(t)
  PROVE  /\ C!Lexeme(t, i).kind \in LexemeKinds
         /\ Ends(t, i) # {} =>
              /\ C!Lexeme(t, i).kind = C!Shape(t, i, C!Lexeme(t, i).last)
              /\ C!Lexeme(t, i).last \in Ends(t, i)
              /\ \A j \in Ends(t, i) : j <= C!Lexeme(t, i).last
         /\ C!Lexeme(t, i).kind # "BAD" => Ends(t, i) # {}
<1>1. CASE Ends(t, i) = {}
  BY <1>1, LexemeIs DEF LexemeKinds
<1>2. CASE Ends(t, i) # {}
  <2>1. Ends(t, i) \in SUBSET (i..Len(t)) /\ Len(t) \in Nat
    BY LengthIs DEF Ends
  <2>2. C!Max(Ends(t, i)) \in Ends(t, i) /\ \A j \in Ends(t, i) : j <= C!Max(Ends(t, i))
    BY <1>2, <2>1, EndIs
  <2>3. /\ C!Lexeme(t, i).kind = C!Shape(t, i, C!Max(Ends(t, i)))
        /\ C!Lexeme(t, i).last = C!Max(Ends(t, i))
    BY <1>2, LexemeIs
  <2> QED
    BY <1>2, <2>2, <2>3, ShapeIs
<1> QED
  BY <1>1, <1>2

\* The longest span is the lexeme.
LEMMA LexemeFound ==
  ASSUME NEW t, IsText(t), NEW i, i \in 1..Len(t), NEW j, j \in i..Len(t), NEW kind,
         kind # "none", C!Shape(t, i, j) = kind,
         \A m \in (j + 1)..Len(t) : C!Shape(t, i, m) = "none"
  PROVE  C!Lexeme(t, i) = [kind |-> kind, first |-> i, last |-> j]
<1>1. j \in Ends(t, i) /\ Ends(t, i) # {}
  BY DEF Ends
<1>2. Ends(t, i) \in SUBSET (i..Len(t)) /\ Len(t) \in Nat
  BY LengthIs DEF Ends
<1>3. C!Max(Ends(t, i)) \in Ends(t, i) /\ \A m \in Ends(t, i) : m <= C!Max(Ends(t, i))
  BY <1>1, <1>2, EndIs
<1>4. \A m \in Ends(t, i) : m \in i..Len(t) /\ m \notin (j + 1)..Len(t)
  BY DEF Ends
<1>5. C!Max(Ends(t, i)) = j
  BY <1>1, <1>2, <1>3, <1>4
<1> QED
  BY <1>1, <1>5, LexemeIs, Zenon

\* A literal has an end that is not its beginning.
LEMMA LiteralIs ==
  ASSUME NEW t, IsText(t), NEW i \in 1..Len(t), C!Lexeme(t, i).kind \in {"STRING", "CHAR"}
  PROVE  C!Lexeme(t, i).last \in (i + 1)..Len(t)
<1> DEFINE j == C!Lexeme(t, i).last
<1>1. j \in i..Len(t) /\ C!Lexeme(t, i).kind = C!Shape(t, i, j)
  BY LexemeShape, LexemeType
<1> HIDE DEF j
<1>2. C!IsString(t, i, j) \/ C!IsCharacter(t, i, j)
  BY <1>1, ShapeIs, Zenon
<1>3. i < j
  BY <1>2, Zenon DEF C!IsString, C!IsCharacter, C!Enclosed
<1>5. j \in (i + 1)..Len(t)
  BY <1>1, <1>3, LengthIs
<1> QED
  BY <1>5 DEF j

\* The tokens of a text.
TokensType(t) == [kind : LexemeKinds, first : 1..Len(t), last : 1..Len(t), means : Seq(Meant(t))]

LEMMA TokenType ==
  ASSUME NEW t, IsText(t), NEW i, i \in 1..Len(t)
  PROVE  LET l == C!Lexeme(t, i)
         IN  /\ AsToken(t, l) \in TokensType(t)
             /\ AsToken(t, l).kind = l.kind /\ AsToken(t, l).first = i
             /\ AsToken(t, l).last = l.last
             /\ l.kind \in {"STRING", "CHAR"} =>
                  AsToken(t, l).means = AsRead(t, i)[l.last - 1]
<1> DEFINE l == C!Lexeme(t, i)
           c == AsToken(t, l)
           m == IF l.kind \in {"STRING", "CHAR"} THEN AsContents(t, l) ELSE <<>>
<1>1. l.first = i /\ l.last \in i..Len(t) /\ l.last \in 1..Len(t) /\ l.kind \in LexemeKinds
  BY LexemeType, LexemeShape, LengthIs
<1>2. AsContents(t, l) = AsRead(t, i)[l.last - 1]
  BY <1>1, Zenon DEF AsContents
<1>3. m \in Seq(Meant(t))
  <2>1. <<>> \in Seq(Meant(t))
    OBVIOUS
  <2>2. l.kind \in {"STRING", "CHAR"} => l.last - 1 \in i..Len(t)
    BY <1>1, LiteralIs, LengthIs
  <2>3. l.kind \in {"STRING", "CHAR"} => AsContents(t, l) \in Seq(Meant(t))
    BY <1>2, <2>2, ReadType, Zenon
  <2> QED
    BY <2>1, <2>3, Zenon
<1>4. c = [kind |-> l.kind, first |-> l.first, last |-> l.last, means |-> m]
  BY Zenon DEF AsToken
<1>5. m = IF l.kind \in {"STRING", "CHAR"} THEN AsContents(t, l) ELSE <<>>
  OBVIOUS
<1> HIDE DEF l, m
<1>6. c.kind = l.kind /\ c.first = l.first /\ c.last = l.last /\ c.means = m
  BY <1>4
<1>7. c \in TokensType(t)
  BY <1>1, <1>3, <1>4 DEF TokensType
<1> HIDE DEF c
<1> QED
  BY <1>1, <1>2, <1>5, <1>6, <1>7, Zenon DEF l, c

LEMMA JoinedType ==
  ASSUME NEW t, IsText(t), NEW a \in TokensType(t), NEW b \in TokensType(t)
  PROVE  /\ AsJoined(a, b) \in TokensType(t) /\ AsJoined(a, b).kind = "STRING"
         /\ AsJoined(a, b).first = a.first /\ AsJoined(a, b).last = b.last
         /\ AsJoined(a, b).means = a.means \o b.means
<1>1. a.means \in Seq(Meant(t)) /\ b.means \in Seq(Meant(t)) /\ a.first \in 1..Len(t)
      /\ b.last \in 1..Len(t) /\ "STRING" \in LexemeKinds
  BY DEF TokensType, LexemeKinds
<1>2. a.means \o b.means \in Seq(Meant(t))
  BY <1>1
<1>3. AsJoined(a, b) = [kind |-> "STRING", first |-> a.first, last |-> b.last,
                        means |-> a.means \o b.means]
  BY Zenon DEF AsJoined
<1> DEFINE m == a.means \o b.means
<1> HIDE DEF m
<1>4. AsJoined(a, b) = [kind |-> "STRING", first |-> a.first, last |-> b.last, means |-> m]
  BY <1>3, Zenon DEF m
<1>5. m \in Seq(Meant(t))
  BY <1>2 DEF m
<1>6. AsJoined(a, b) \in TokensType(t)
  BY <1>1, <1>4, <1>5 DEF TokensType
<1>7. /\ AsJoined(a, b).kind = "STRING" /\ AsJoined(a, b).first = a.first
      /\ AsJoined(a, b).last = b.last /\ AsJoined(a, b).means = m
  BY <1>4
<1> QED
  BY <1>6, <1>7, Zenon DEF m

\* The first lexeme from a place on begins there or behind it.
LEMMA FirstLexeme ==
  ASSUME NEW t, IsText(t)
  PROVE  \A i \in 1..(Len(t) + 1) :
           C!LexemesFrom(t)[i] # <<>> =>
             \E q \in i..Len(t) : C!LexemesFrom(t)[i][1] = C!Lexeme(t, q)
<1> DEFINE n == Len(t) + 1
           f == C!LexemesFrom(t)
           S == {i \in 1..n : f[i] # <<>> => \E q \in i..Len(t) : f[i][1] = C!Lexeme(t, q)}
<1>1. n \in Nat
  BY LengthIs
<1>2. ASSUME NEW i \in 1..n, \A j \in (i + 1)..n : j \in S
      PROVE  i \in S
  <2>1. CASE i = n
    BY <2>1, LexemesFromIs
  <2>2. CASE i # n
    <3>1. i \in 1..Len(t) /\ Len(t) \in Nat
      BY <2>2, LengthIs
    <3>2. CASE t[i] \in C!Blank
      <4>1. f[i] = f[i + 1]
        BY <2>2, <3>2, LexemesFromIs, Zenon
      <4>2. i + 1 \in S
        BY <1>2, <3>1
      <4>3. f[i] # <<>> => \E q \in i..Len(t) : f[i][1] = C!Lexeme(t, q)
        <5> SUFFICES ASSUME f[i + 1] # <<>>
                     PROVE  \E q \in i..Len(t) : f[i + 1][1] = C!Lexeme(t, q)
          BY <4>1, Zenon
        <5>1. PICK q \in (i + 1)..Len(t) : f[i + 1][1] = C!Lexeme(t, q)
          BY <4>2, Zenon
        <5>2. q \in i..Len(t)
          BY <3>1
        <5> QED
          BY <5>1, <5>2, Zenon
      <4> QED
        BY <4>3, Zenon
    <3>3. CASE t[i] \notin C!Blank
      <4> DEFINE l == C!Lexeme(t, i)
      <4>1. f[i] = <<l>> \o f[l.last + 1]
        BY <2>2, <3>3, LexemesFromIs, Zenon
      <4>2. l.last + 1 \in 1..n /\ l \in LexemesIn(t)
        BY <3>1, LexemeType DEF LexemesIn
      <4>3. f[l.last + 1] \in Seq(LexemesIn(t))
        BY <4>2, LexemesType, Zenon
      <4> HIDE DEF l
      <4>4. f[i][1] = l
        <5> HIDE DEF f
        <5> QED
          BY <4>1, <4>2, <4>3, ConsIs
      <4>5. i \in i..Len(t)
        BY <3>1
      <4> QED
        BY <4>4, <4>5, Zenon DEF l
    <3> QED
      BY <3>2, <3>3
  <2> QED
    BY <2>1, <2>2
<1>3. \A i \in 1..n : i \in S
  <2> HIDE DEF S, n
  <2> QED
    BY <1>1, <1>2, FromEnd
<1> QED
  BY <1>3

\* From the token at a place, or the next place, on.
TokensOf(f, who, t) ==
  f = [i \in 1..(Len(t) + 1) |->
         IF C!LexemesFrom(t)[i] = <<>> THEN <<>>
         ELSE TakenThen(who, t, C!LexemesFrom(t)[i][1], f[C!LexemesFrom(t)[i][1].last + 1])]

LEMMA TokensExist ==
  ASSUME NEW t, IsText(t), NEW who, who # "lexemes"
  PROVE  \E f : TokensOf(f, who, t)
<1> DEFINE n == Len(t)
           ls == C!LexemesFrom(t)
<1>1. n \in Nat
  BY LengthIs
<1>2. \A i \in 1..n : NextPlace(who, t, i) \in (i + 1)..(n + 1)
  <2> TAKE i \in 1..n
  <2>1. NextPlace(who, t, i) = IF ls[i] = <<>> THEN i + 1 ELSE ls[i][1].last + 1
    BY Zenon DEF NextPlace
  <2>2. CASE ls[i] = <<>>
    BY <1>1, <2>1, <2>2
  <2>3. CASE ls[i] # <<>>
    <3>1. i \in 1..(n + 1)
      BY <1>1
    <3>2. PICK q \in i..n : ls[i][1] = C!Lexeme(t, q)
      BY <2>3, <3>1, FirstLexeme, Zenon
    <3>3. q \in 1..n
      BY <1>1
    <3>4. ls[i][1].last \in q..n
      BY <3>2, <3>3, LexemeType
    <3> HIDE DEF ls, n
    <3> QED
      BY <1>1, <2>1, <2>3, <3>2, <3>4
  <2> QED
    BY <2>2, <2>3
<1>3. PICK f : ReadsOn(f, who, t, n, 1)
  <2> HIDE DEF n
  <2> QED
    BY <1>1, <1>2, ReadsOnExists, Zenon
<1>4. ASSUME NEW i \in 1..(n + 1)
      PROVE  f[i] = IF ls[i] = <<>> THEN <<>>
                    ELSE TakenThen(who, t, ls[i][1], f[ls[i][1].last + 1])
  <2>1. f[i] = IF i = n + 1 THEN <<>>
               ELSE ReadThen(who, t, i, f[NextPlace(who, t, i)])
    BY <1>3, Zenon DEF ReadsOn
  <2>2. i = n + 1 => ls[i] = <<>>
    BY LexemesFromIs, Zenon
  <2>4. ReadThen(who, t, i, f[NextPlace(who, t, i)])
          = IF ls[i] = <<>> THEN <<>>
            ELSE TakenThen(who, t, ls[i][1], f[NextPlace(who, t, i)])
    BY Zenon DEF ReadThen
  <2>5. ls[i] # <<>> => NextPlace(who, t, i) = ls[i][1].last + 1
    BY Zenon DEF NextPlace
  <2> QED
    BY <2>1, <2>2, <2>4, <2>5, Zenon
<1>5. TokensOf(f, who, t)
  <2>1. f = [i \in 1..(n + 1) |-> f[i]]
    BY <1>3, Zenon DEF ReadsOn
  <2> QED
    BY <1>4, <2>1, Zenon DEF TokensOf
<1> QED
  BY <1>5

LEMMA TokensAre ==
  ASSUME NEW t, IsText(t)
  PROVE  TokensOf(AsTokensFrom(t), "ccatd", t) /\ TokensOf(C!TokensFrom(t), "C", t)
<1>0. "ccatd" # "C" /\ "ccatd" # "lexemes" /\ "C" # "lexemes"
  OBVIOUS
<1>1. AsTokensFrom(t) = CHOOSE g : TokensOf(g, "ccatd", t)
  BY <1>0, Zenon DEF AsTokensFrom, TokensOf, TakenThen, TokenThen
<1>2. C!TokensFrom(t) = CHOOSE g : TokensOf(g, "C", t)
  BY Zenon DEF C!TokensFrom, TokensOf, TakenThen, TokenOfCThen
<1>3. (\E g : TokensOf(g, "ccatd", t)) /\ (\E g : TokensOf(g, "C", t))
  BY <1>0, TokensExist, Zenon
<1> QED
  BY <1>1, <1>2, <1>3, Zenon

LEMMA TokensFromIs ==
  ASSUME NEW t, IsText(t), NEW i, i \in 1..(Len(t) + 1)
  PROVE  /\ C!LexemesFrom(t)[i] = <<>> => AsTokensFrom(t)[i] = <<>>
         /\ C!LexemesFrom(t)[i] # <<>> =>
              AsTokensFrom(t)[i] = TokenThen(t, C!LexemesFrom(t)[i][1],
                                             AsTokensFrom(t)[C!LexemesFrom(t)[i][1].last + 1])
<1> DEFINE f == AsTokensFrom(t)
<1>1. TokensOf(f, "ccatd", t)
  BY TokensAre
<1>2. "ccatd" # "C"
  OBVIOUS
<1> HIDE DEF f
<1>3. f[i] = IF C!LexemesFrom(t)[i] = <<>> THEN <<>>
             ELSE TokenThen(t, C!LexemesFrom(t)[i][1], f[C!LexemesFrom(t)[i][1].last + 1])
  BY <1>1, <1>2, Zenon DEF TokensOf, TakenThen
<1> QED
  BY <1>3, Zenon DEF f

LEMMA TokensOfCAre ==
  ASSUME NEW t, IsText(t), NEW i, i \in 1..(Len(t) + 1)
  PROVE  /\ C!LexemesFrom(t)[i] = <<>> => C!TokensFrom(t)[i] = <<>>
         /\ C!LexemesFrom(t)[i] # <<>> =>
              C!TokensFrom(t)[i] = TokenOfCThen(t, C!LexemesFrom(t)[i][1],
                                                C!TokensFrom(t)[C!LexemesFrom(t)[i][1].last + 1])
<1> DEFINE f == C!TokensFrom(t)
<1>1. TokensOf(f, "C", t)
  BY TokensAre
<1> HIDE DEF f
<1>2. f[i] = IF C!LexemesFrom(t)[i] = <<>> THEN <<>>
             ELSE TokenOfCThen(t, C!LexemesFrom(t)[i][1], f[C!LexemesFrom(t)[i][1].last + 1])
  BY <1>1, Zenon DEF TokensOf, TakenThen
<1> QED
  BY <1>2, Zenon DEF f

LEMMA TokensTyped ==
  ASSUME NEW t, IsText(t)
  PROVE  \A i \in 1..(Len(t) + 1) : AsTokensFrom(t)[i] \in Seq(TokensType(t))
<1> DEFINE n == Len(t) + 1
           f == AsTokensFrom(t)
           ls == C!LexemesFrom(t)
           S == {i \in 1..n : f[i] \in Seq(TokensType(t))}
<1>1. n \in Nat /\ Len(t) \in Nat
  BY LengthIs
<1>2. ASSUME NEW i \in 1..n, \A j \in (i + 1)..n : j \in S
      PROVE  i \in S
  <2>1. CASE ls[i] = <<>>
    <3>1. f[i] = <<>>
      BY <2>1, TokensFromIs, Zenon
    <3>2. <<>> \in Seq(TokensType(t))
      OBVIOUS
    <3> QED
      BY <3>1, <3>2, Zenon
  <2>2. CASE ls[i] # <<>>
    <3> DEFINE l == ls[i][1]
               rest == f[l.last + 1]
    <3>1. PICK q \in i..Len(t) : l = C!Lexeme(t, q)
      BY <2>2, FirstLexeme, Zenon
    <3>2. q \in 1..Len(t)
      BY <1>1
    <3>3. l.last \in q..Len(t)
      BY <3>1, <3>2, LexemeType, Zenon
    <3>4. rest \in Seq(TokensType(t))
      <4>1. l.last + 1 \in (i + 1)..n
        <5> HIDE DEF l
        <5> QED
          BY <1>1, <3>3
      <4> HIDE DEF l, f, n
      <4> QED
        BY <1>2, <4>1
    <3>5. f[i] = TokenThen(t, l, rest)
      BY <2>2, TokensFromIs, Zenon
    <3>6. AsToken(t, l) \in TokensType(t)
      BY <3>1, <3>2, TokenType, Zenon
    <3> HIDE DEF rest, l, f
    <3>7. CASE l.kind = "COMMENT"
      <4>1. f[i] = rest
        BY <3>5, <3>7, Zenon DEF TokenThen
      <4> QED
        BY <3>4, <4>1
    <3>8. CASE l.kind # "COMMENT" /\ l.kind = "STRING" /\ C!Opens(rest, "STRING")
      <4> DEFINE x == AsJoined(AsToken(t, l), rest[1])
      <4>1. f[i] = <<x>> \o Tail(rest)
        BY <3>5, <3>8, Zenon DEF TokenThen
      <4>2. rest # <<>>
        BY <3>8, Zenon DEF C!Opens
      <4>3. rest[1] \in TokensType(t) /\ Tail(rest) \in Seq(TokensType(t))
        BY <3>4, <4>2
      <4>4. x \in TokensType(t)
        BY <3>6, <4>3, JoinedType
      <4> HIDE DEF x
      <4>5. f[i] \in Seq(TokensType(t))
        BY <4>1, <4>3, <4>4, ConsIs
      <4> QED
        BY <4>5
    <3>9. CASE l.kind # "COMMENT" /\ ~(l.kind = "STRING" /\ C!Opens(rest, "STRING"))
      <4> DEFINE x == AsToken(t, l)
      <4>1. f[i] = <<x>> \o rest
        BY <3>5, <3>9, Zenon DEF TokenThen
      <4> HIDE DEF x
      <4>2. x \in TokensType(t)
        BY <3>6 DEF x
      <4>3. f[i] \in Seq(TokensType(t))
        BY <3>4, <4>1, <4>2, ConsIs
      <4> QED
        BY <4>3
    <3> QED
      BY <3>7, <3>8, <3>9
  <2> QED
    BY <2>1, <2>2
<1>3. \A i \in 1..n : i \in S
  <2> HIDE DEF S, n
  <2> QED
    BY <1>1, <1>2, FromEnd
<1> QED
  BY <1>3

\* A blank is passed over, and a lexeme is taken.
LEMMA BlankPassed ==
  ASSUME NEW t, IsText(t), NEW i, i \in 1..Len(t), t[i] \in C!Blank
  PROVE  /\ C!LexemesFrom(t)[i] = C!LexemesFrom(t)[i + 1]
         /\ AsTokensFrom(t)[i] = AsTokensFrom(t)[i + 1]
<1> DEFINE ls == C!LexemesFrom(t)
<1>1. i \in 1..(Len(t) + 1) /\ i # Len(t) + 1 /\ i + 1 \in 1..(Len(t) + 1)
  BY LengthIs
<1>2. ls[i] = ls[i + 1]
  BY <1>1, LexemesFromIs, Zenon
<1>3. AsTokensFrom(t)[i] = AsTokensFrom(t)[i + 1]
  <2>1. CASE ls[i] = <<>>
    BY <1>1, <1>2, <2>1, TokensFromIs, Zenon
  <2>2. CASE ls[i] # <<>>
    <3>1. AsTokensFrom(t)[i] = TokenThen(t, ls[i][1], AsTokensFrom(t)[ls[i][1].last + 1])
      BY <1>1, <2>2, TokensFromIs, Zenon
    <3>2. AsTokensFrom(t)[i + 1]
            = TokenThen(t, ls[i + 1][1], AsTokensFrom(t)[ls[i + 1][1].last + 1])
      BY <1>1, <1>2, <2>2, TokensFromIs, Zenon
    <3> QED
      BY <1>2, <3>1, <3>2, Zenon
  <2> QED
    BY <2>1, <2>2
<1> QED
  BY <1>2, <1>3

LEMMA LexemeTaken ==
  ASSUME NEW t, IsText(t), NEW i, i \in 1..Len(t), t[i] \notin C!Blank,
         NEW l, l = C!Lexeme(t, i)
  PROVE  /\ l.last + 1 \in (i + 1)..(Len(t) + 1)
         /\ C!LexemesFrom(t)[i] # <<>> /\ C!LexemesFrom(t)[i][1] = l
         /\ \A x : x \in ToSet(C!LexemesFrom(t)[i])
                    <=> x = l \/ x \in ToSet(C!LexemesFrom(t)[l.last + 1])
         /\ C!LexemesFrom(t)[l.last + 1] = <<>> => Last(C!LexemesFrom(t)[i]) = l
         /\ C!LexemesFrom(t)[l.last + 1] # <<>> =>
              Last(C!LexemesFrom(t)[i]) = Last(C!LexemesFrom(t)[l.last + 1])
         /\ AsTokensFrom(t)[i] = TokenThen(t, l, AsTokensFrom(t)[l.last + 1])
<1> DEFINE ls == C!LexemesFrom(t)
           r == ls[l.last + 1]
           s == ls[i]
<1>1. i \in 1..(Len(t) + 1) /\ i # Len(t) + 1 /\ Len(t) \in Nat
  BY LengthIs
<1>2. s = <<l>> \o r
  BY <1>1, LexemesFromIs, Zenon
<1>3. l.last + 1 \in (i + 1)..(Len(t) + 1) /\ l.last + 1 \in 1..(Len(t) + 1)
  BY <1>1, LexemeType
<1>4. r \in Seq(LexemesIn(t)) /\ l \in LexemesIn(t)
  BY <1>3, LexemesType, Zenon DEF LexemesIn
<1> HIDE DEF s, r
<1>5. /\ s \in Seq(LexemesIn(t)) /\ s # <<>> /\ Len(s) = Len(r) + 1 /\ s[1] = l
      /\ \A k \in 1..Len(r) : s[k + 1] = r[k]
  BY <1>2, <1>4, ConsIs
<1>6. Len(r) \in Nat /\ DOMAIN r = 1..Len(r) /\ DOMAIN s = 1..(Len(r) + 1)
  BY <1>4, <1>5
<1>7. \A x : x \in ToSet(s) <=> x = l \/ x \in ToSet(r)
  <2>1. \A k \in 1..(Len(r) + 1) : k = 1 \/ (k - 1 \in 1..Len(r) /\ s[k] = r[k - 1])
    BY <1>5, <1>6
  <2>2. \A x \in ToSet(s) : x = l \/ x \in ToSet(r)
    <3> TAKE x \in ToSet(s)
    <3>1. PICK k \in 1..(Len(r) + 1) : x = s[k]
      BY <1>6, Zenon DEF ToSet
    <3>2. CASE k = 1
      BY <1>5, <3>1, <3>2, Zenon
    <3>3. CASE k # 1
      BY <1>6, <2>1, <3>1, <3>3, Zenon DEF ToSet
    <3> QED
      BY <3>2, <3>3
  <2>3. \A k \in 1..Len(r) : k + 1 \in 1..(Len(r) + 1)
    BY <1>6
  <2>4. 1 \in 1..(Len(r) + 1)
    BY <1>6
  <2>5. l \in ToSet(s)
    BY <1>5, <1>6, <2>4, Zenon DEF ToSet
  <2>6. \A x \in ToSet(r) : x \in ToSet(s)
    <3> TAKE x \in ToSet(r)
    <3>1. PICK k \in 1..Len(r) : x = r[k]
      BY <1>6, Zenon DEF ToSet
    <3>2. k + 1 \in DOMAIN s /\ s[k + 1] = x
      BY <1>5, <1>6, <2>3, <3>1, Zenon
    <3> QED
      BY <3>2, Zenon DEF ToSet
  <2> QED
    BY <2>2, <2>5, <2>6, Zenon
<1>8. (r = <<>> => Last(s) = l) /\ (r # <<>> => Last(s) = Last(r))
  <2>1. Last(s) = s[Len(r) + 1] /\ Last(r) = r[Len(r)]
    BY <1>5 DEF Last
  <2>2. CASE r = <<>>
    BY <1>5, <2>1, <2>2
  <2>3. CASE r # <<>>
    <3>1. Len(r) # 0
      BY <1>4, <2>3, EmptySeq
    <3>2. Len(r) \in 1..Len(r)
      BY <1>6, <3>1
    <3> QED
      BY <1>5, <2>1, <2>3, <3>2
  <2> QED
    BY <2>2, <2>3
<1>9. AsTokensFrom(t)[i] = TokenThen(t, s[1], AsTokensFrom(t)[s[1].last + 1])
  BY <1>1, <1>5, TokensFromIs, Zenon DEF s
<1>10. AsTokensFrom(t)[i] = TokenThen(t, l, AsTokensFrom(t)[l.last + 1])
  BY <1>5, <1>9, Zenon
<1> QED
  BY <1>3, <1>5, <1>7, <1>8, <1>10, Zenon DEF s, r

-----------------------------------------------------------------------------
\* How far the reading of C is known to be that of the scanner: what is behind i is what
\* C has there, and without an error before i.
Clean(t, i) == \A l \in ToSet(C!LexemesFrom(t)[i]) : l.kind # "BAD"

Bound(t, i) ==
  /\ i \in 1..(Len(t) + 1)
  /\ ToSet(C!LexemesFrom(t)[i]) \subseteq ToSet(C!LexemesFrom(t)[1])
  /\ Clean(t, i) => Clean(t, 1)
  /\ C!Bad(t) \subseteq ToSet(C!LexemesFrom(t)[i])
  /\ C!LexemesFrom(t)[i] # <<>> =>
       /\ C!LexemesFrom(t)[1] # <<>>
       /\ Last(C!LexemesFrom(t)[1]) = Last(C!LexemesFrom(t)[i])

LEMMA BadIs ==
  ASSUME NEW t
  PROVE  C!Bad(t) = {l \in ToSet(C!LexemesFrom(t)[1]) : l.kind = "BAD"}
BY Zenon DEF C!Bad, C!Lexemes, C!ToSet, ToSet

LEMMA BoundFirst ==
  ASSUME NEW t, IsText(t)
  PROVE  Bound(t, 1)
<1>1. 1 \in 1..(Len(t) + 1)
  BY LengthIs
<1>2. C!Bad(t) \subseteq ToSet(C!LexemesFrom(t)[1])
  BY BadIs
<1> QED
  BY <1>1, <1>2, Zenon DEF Bound

LEMMA BoundBlank ==
  ASSUME NEW t, IsText(t), NEW i, Bound(t, i), i \in 1..Len(t), t[i] \in C!Blank
  PROVE  Bound(t, i + 1)
<1>1. i + 1 \in 1..(Len(t) + 1)
  BY LengthIs
<1> QED
  BY <1>1, BlankPassed, Zenon DEF Bound, Clean

LEMMA BoundLexeme ==
  ASSUME NEW t, IsText(t), NEW i, Bound(t, i), i \in 1..Len(t), t[i] \notin C!Blank,
         NEW l, l = C!Lexeme(t, i)
  PROVE  /\ l \in ToSet(C!LexemesFrom(t)[1])
         /\ Clean(t, 1) => l.kind # "BAD"
         /\ l.kind # "BAD" => Bound(t, l.last + 1)
         /\ C!LexemesFrom(t)[l.last + 1] = <<>> =>
              C!LexemesFrom(t)[1] # <<>> /\ Last(C!LexemesFrom(t)[1]) = l
<1> DEFINE ls == C!LexemesFrom(t)
           n == l.last + 1
<1>1. /\ n \in 1..(Len(t) + 1) /\ ls[i] # <<>>
      /\ \A x : x \in ToSet(ls[i]) <=> x = l \/ x \in ToSet(ls[n])
      /\ ls[n] = <<>> => Last(ls[i]) = l
      /\ ls[n] # <<>> => Last(ls[i]) = Last(ls[n])
  <2>1. l.last + 1 \in (i + 1)..(Len(t) + 1)
    BY LexemeTaken, Zenon
  <2>2. n \in 1..(Len(t) + 1)
    BY <2>1, LengthIs
  <2>3. C!LexemesFrom(t)[i] # <<>>
    BY LexemeTaken, Zenon
  <2>4. \A x : x \in ToSet(ls[i]) <=> x = l \/ x \in ToSet(ls[n])
    BY LexemeTaken
  <2>5. ls[n] = <<>> => Last(ls[i]) = l
    BY LexemeTaken
  <2>6. ls[n] # <<>> => Last(ls[i]) = Last(ls[n])
    BY LexemeTaken
  <2> QED
    BY <2>2, <2>3, <2>4, <2>5, <2>6, Zenon
<1>2. /\ ToSet(ls[i]) \subseteq ToSet(ls[1])
      /\ Clean(t, i) => Clean(t, 1)
      /\ C!Bad(t) \subseteq ToSet(ls[i])
      /\ ls[1] # <<>> /\ Last(ls[1]) = Last(ls[i])
  BY <1>1, Zenon DEF Bound
<1> HIDE DEF ls, n
<1>3. l \in ToSet(ls[i]) /\ ToSet(ls[n]) \subseteq ToSet(ls[1]) /\ l \in ToSet(ls[1])
  BY <1>1, <1>2
<1>4. Clean(t, 1) => l.kind # "BAD"
  BY <1>3, Zenon DEF Clean, ls
<1>5. ASSUME l.kind # "BAD", Clean(t, n)
      PROVE  Clean(t, 1)
  <2>1. \A x \in ToSet(ls[i]) : x.kind # "BAD"
    <3>1. \A x \in ToSet(ls[n]) : x.kind # "BAD"
      BY <1>5, Zenon DEF Clean, ls
    <3> QED
      BY <1>1, <1>5, <3>1, Zenon
  <2> QED
    BY <1>2, <2>1, Zenon DEF Clean, ls
<1>6. ls[n] # <<>> => Last(ls[1]) = Last(ls[n])
  BY <1>1, <1>2, Zenon
<1>9. l.kind # "BAD" => C!Bad(t) \subseteq ToSet(ls[n])
  <2> SUFFICES ASSUME l.kind # "BAD", NEW x \in C!Bad(t)
               PROVE  x \in ToSet(ls[n])
    OBVIOUS
  <2>1. x.kind = "BAD" /\ x \in ToSet(ls[i])
    BY <1>2, BadIs
  <2> QED
    BY <1>1, <2>1, Zenon
<1>7. l.kind # "BAD" => Bound(t, n)
  BY <1>1, <1>2, <1>3, <1>5, <1>6, <1>9, Zenon DEF Bound, ls
<1>8. ls[n] = <<>> => ls[1] # <<>> /\ Last(ls[1]) = l
  BY <1>1, <1>2, Zenon
<1> QED
  BY <1>3, <1>4, <1>7, <1>8, Zenon DEF ls, n

\* The lexemes from a place on begin there or behind it.
LEMMA LexemesBehind ==
  ASSUME NEW t, IsText(t)
  PROVE  \A i \in 1..(Len(t) + 1) : \A l \in ToSet(C!LexemesFrom(t)[i]) : l.first \in i..Len(t)
<1> DEFINE n == Len(t) + 1
           f == C!LexemesFrom(t)
           S == {i \in 1..n : \A l \in ToSet(f[i]) : l.first \in i..Len(t)}
<1>1. n \in Nat /\ Len(t) \in Nat
  BY LengthIs
<1>2. ASSUME NEW i \in 1..n, \A j \in (i + 1)..n : j \in S
      PROVE  i \in S
  <2>1. CASE i = n
    <3>1. f[i] = <<>>
      BY <2>1, LexemesFromIs, Zenon
    <3> HIDE DEF f
    <3>2. ToSet(f[i]) = {}
      BY <3>1 DEF ToSet
    <3> QED
      BY <3>2
  <2>2. CASE i # n
    <3>1. i \in 1..Len(t)
      BY <2>2, LengthIs
    <3>2. CASE t[i] \in C!Blank
      <4>1. f[i] = f[i + 1]
        BY <3>1, <3>2, BlankPassed, Zenon
      <4>2. i + 1 \in S
        BY <1>1, <1>2, <3>1
      <4>3. \A l \in ToSet(f[i]) : l.first \in (i + 1)..Len(t)
        BY <4>1, <4>2, Zenon
      <4>4. (i + 1)..Len(t) \subseteq i..Len(t)
        BY <1>1, <3>1
      <4> QED
        BY <4>3, <4>4, Zenon
    <3>3. CASE t[i] \notin C!Blank
      <4> DEFINE k == C!Lexeme(t, i)
                 m == k.last + 1
      <4>1. m \in (i + 1)..n /\ \A x : x \in ToSet(f[i]) <=> x = k \/ x \in ToSet(f[m])
        BY <3>1, <3>3, LexemeTaken
      <4>2. k.first = i
        BY <3>1, LexemeType
      <4>3. m \in S
        BY <1>2, <4>1, Zenon
      <4> HIDE DEF k, m
      <4>4. \A l \in ToSet(f[m]) : l.first \in m..Len(t)
        BY <4>3, Zenon
      <4>5. m..Len(t) \subseteq i..Len(t) /\ i \in i..Len(t)
        BY <1>1, <3>1, <4>1
      <4>6. \A l \in ToSet(f[i]) : l.first \in i..Len(t)
        BY <4>1, <4>2, <4>4, <4>5, Zenon
      <4> QED
        BY <4>6
    <3> QED
      BY <3>2, <3>3
  <2> QED
    BY <2>1, <2>2
<1>3. \A i \in 1..n : i \in S
  <2> HIDE DEF S, n
  <2> QED
    BY <1>1, <1>2, FromEnd
<1> QED
  BY <1>3

\* The first error that the scanner meets is the first of the text.
LEMMA FirstBadIs ==
  ASSUME NEW t, IsText(t), NEW i, Bound(t, i), i \in 1..Len(t), t[i] \notin C!Blank,
         C!Lexeme(t, i).kind = "BAD"
  PROVE  C!FirstBad(t) = i
<1> DEFINE F == {l.first : l \in C!Bad(t)}
<1>1. C!Lexeme(t, i) \in C!Bad(t) /\ C!Lexeme(t, i).first = i
  <2>1. C!Lexeme(t, i) \in ToSet(C!LexemesFrom(t)[1])
    BY BoundLexeme, Zenon
  <2> QED
    BY <2>1, BadIs, LexemeType
<1>2. i \in F
  BY <1>1
<1>3. \A l \in C!Bad(t) : l.first \in i..Len(t)
  <2>1. C!Bad(t) \subseteq ToSet(C!LexemesFrom(t)[i]) /\ i \in 1..(Len(t) + 1)
    BY Zenon DEF Bound
  <2> QED
    BY <2>1, LexemesBehind, Zenon
<1>4. F \in SUBSET (i..Len(t)) /\ Len(t) \in Nat
  BY <1>3, LengthIs
<1> HIDE DEF F
<1>5. F \in SUBSET (0..Len(t)) /\ F # {}
  BY <1>2, <1>4
<1> DEFINE m == Min(F)
<1>6. m \in F /\ \A x \in F : m <= x
  BY <1>4, <1>5, MinIsLeast
<1>7. C!FirstBad(t) = m
  BY Zenon DEF C!FirstBad, C!Min, Min, F
<1> HIDE DEF m
<1>8. m = i
  BY <1>2, <1>4, <1>6
<1> QED
  BY <1>7, <1>8

-----------------------------------------------------------------------------
\* Comments.
LEMMA LineComment ==
  ASSUME NEW t, IsText(t), NEW i, i \in 1..Len(t), NEW j, j \in (i + 1)..(Len(t) - 1),
         t[i] = "/", t[i + 1] = "/", \A k \in i..j : t[k] # "\n", t[j + 1] = "\n"
  PROVE  C!Lexeme(t, i) = [kind |-> "COMMENT", first |-> i, last |-> j]
<1>1. Len(t) \in Nat
  BY LengthIs
<1>2. C!OpensComment(t, i)
  BY <1>1 DEF C!OpensComment
<1>3. C!IsComment(t, i, j)
  BY Zenon DEF C!IsComment
<1>4. \A m \in (j + 1)..Len(t) : ~C!IsComment(t, i, m)
  <2> TAKE m \in (j + 1)..Len(t)
  <2>1. j + 1 \in i..m
    BY <1>1
  <2>2. "/" # "*"
    OBVIOUS
  <2> QED
    BY <2>1, <2>2, Zenon DEF C!IsComment
<1>5. C!Shape(t, i, j) = "COMMENT" /\ \A m \in (j + 1)..Len(t) : C!Shape(t, i, m) = "none"
  BY <1>2, <1>3, <1>4, Zenon DEF C!Shape
<1>6. j \in i..Len(t) /\ "COMMENT" # "none"
  BY <1>1
<1> QED
  BY <1>5, <1>6, LexemeFound

LEMMA BlockComment ==
  ASSUME NEW t, IsText(t), NEW i, i \in 1..Len(t), NEW j, j \in (i + 3)..Len(t),
         t[i] = "/", t[i + 1] = "*", t[j - 1] = "*", t[j] = "/",
         \A k \in (i + 2)..(j - 2) : ~(t[k] = "*" /\ t[k + 1] = "/")
  PROVE  C!Lexeme(t, i) = [kind |-> "COMMENT", first |-> i, last |-> j]
<1>1. Len(t) \in Nat
  BY LengthIs
<1>2. C!OpensComment(t, i)
  BY <1>1 DEF C!OpensComment
<1>3. C!IsComment(t, i, j)
  <2>1. i + 3 <= j
    BY <1>1
  <2> QED
    BY <2>1, Zenon DEF C!IsComment
<1>4. \A m \in (j + 1)..Len(t) : ~C!IsComment(t, i, m)
  <2> TAKE m \in (j + 1)..Len(t)
  <2>1. j - 1 \in (i + 2)..(m - 2) /\ (j - 1) + 1 = j
    BY <1>1
  <2>2. "/" # "*" /\ t[(j - 1) + 1] = "/"
    BY <2>1
  <2> QED
    BY <2>1, <2>2, Zenon DEF C!IsComment
<1>5. C!Shape(t, i, j) = "COMMENT" /\ \A m \in (j + 1)..Len(t) : C!Shape(t, i, m) = "none"
  BY <1>2, <1>3, <1>4, Zenon DEF C!Shape
<1>6. j \in i..Len(t) /\ "COMMENT" # "none"
  BY <1>1
<1> QED
  BY <1>5, <1>6, LexemeFound

\* A comment that C reads ends.
LEMMA BlockEnds ==
  ASSUME NEW t, IsText(t), NEW i, i \in 1..Len(t), i < Len(t), t[i] = "/", t[i + 1] = "*",
         C!Lexeme(t, i).kind # "BAD"
  PROVE  \E j \in (i + 3)..Len(t) : t[j - 1] = "*" /\ t[j] = "/"
<1> DEFINE j == C!Lexeme(t, i).last
<1>1. j \in Ends(t, i) /\ Len(t) \in Nat
  BY LexemeShape, LengthIs
<1>2. j \in i..Len(t) /\ C!Shape(t, i, j) # "none"
  BY <1>1 DEF Ends
<1> HIDE DEF j
<1>3. C!OpensComment(t, i)
  BY DEF C!OpensComment
<1>4. C!IsComment(t, i, j)
  BY <1>2, <1>3, Zenon DEF C!Shape
<1>5. "/" # "*"
  OBVIOUS
<1>6. i + 3 <= j /\ t[j - 1] = "*" /\ t[j] = "/"
  BY <1>4, <1>5, Zenon DEF C!IsComment
<1>7. j \in (i + 3)..Len(t)
  BY <1>1, <1>2, <1>6
<1> QED
  BY <1>6, <1>7

-----------------------------------------------------------------------------
\* Strings. The quote has a name that the provers can read.
Quote == "\""

\* One more backslash shields what is behind it, and anything else shields nothing.
LEMMA ShieldedNext ==
  ASSUME NEW t, IsText(t), NEW i, i \in 1..Len(t), t[i] # "\\", NEW k, k \in (i + 1)..Len(t)
  PROVE  C!Shielded(t, i, k + 1) <=> t[k] = "\\" /\ ~C!Shielded(t, i, k)
<1> DEFINE S(x) == {m \in i..(x - 1) : t[m] # "\\"}
<1>1. Len(t) \in Nat /\ i \in Nat /\ k \in Nat /\ i < k
  BY LengthIs
<1>2. /\ S(k) \in SUBSET (i..k) /\ S(k + 1) \in SUBSET (i..k) /\ i \in S(k) /\ i \in S(k + 1)
      /\ i \in 1..k
  BY <1>1
<1> DEFINE a == C!Max(S(k))
           b == C!Max(S(k + 1))
<1>3. a \in S(k) /\ (\A m \in S(k) : m <= a) /\ b \in S(k + 1) /\ \A m \in S(k + 1) : m <= b
  BY <1>1, <1>2, EndIs
<1>4. C!Shielded(t, i, k) <=> (k - a) % 2 = 0
  BY Zenon DEF C!Shielded
<1>5. C!Shielded(t, i, k + 1) <=> ((k + 1) - b) % 2 = 0
  BY Zenon DEF C!Shielded
<1>6. a \in i..(k - 1) /\ t[a] # "\\" /\ \A m \in i..(k - 1) : t[m] # "\\" => m <= a
  BY <1>3
<1>7. b \in i..((k + 1) - 1) /\ t[b] # "\\" /\ \A m \in i..((k + 1) - 1) : t[m] # "\\" => m <= b
  BY <1>3
<1> HIDE DEF a, b
<1>8. (k + 1) - 1 = k
  BY <1>1
<1>9. CASE t[k] = "\\"
  <2>1. b = a
    BY <1>1, <1>6, <1>7, <1>8, <1>9
  <2>2. k - a \in Nat /\ (k + 1) - a = (k - a) + 1
    BY <1>1, <1>6
  <2>3. \A x \in Nat : (x + 1) % 2 = 0 <=> ~(x % 2 = 0)
    OBVIOUS
  <2> QED
    BY <1>4, <1>5, <1>9, <2>1, <2>2, <2>3
<1>10. CASE t[k] # "\\"
  <2>1. b = k
    BY <1>1, <1>6, <1>7, <1>8, <1>10
  <2>2. ((k + 1) - b) % 2 = 1
    BY <1>1, <2>1
  <2> QED
    BY <1>5, <1>10, <2>2
<1> QED
  BY <1>9, <1>10

\* Nothing shields the first character of a literal.
LEMMA ShieldedFirst ==
  ASSUME NEW t, IsText(t), NEW i, i \in 1..Len(t), t[i] # "\\"
  PROVE  ~C!Shielded(t, i, i + 1)
<1> DEFINE S == {m \in i..((i + 1) - 1) : t[m] # "\\"}
<1>1. Len(t) \in Nat /\ i \in Nat
  BY LengthIs
<1>2. S \in SUBSET (i..i) /\ S # {} /\ i \in 1..i
  BY <1>1
<1>3. C!Max(S) \in S
  BY <1>1, <1>2, EndIs
<1>4. C!Max(S) = i
  BY <1>1, <1>3
<1>5. C!Shielded(t, i, i + 1) <=> ((i + 1) - C!Max(S)) % 2 = 0
  BY Zenon DEF C!Shielded
<1> HIDE DEF S
<1>6. ((i + 1) - i) % 2 = 1
  BY <1>1
<1> QED
  BY <1>4, <1>5, <1>6

LEMMA ClassesAre ==
  C!Blank = Blanks /\ C!Digit = Digits /\ C!Alnum = Letters \cup Digits \cup {"_"}
BY Zenon DEF C!Blank, C!Digit, C!Alnum, Blanks, Digits

\* What an operator begins with begins nothing else.
LEMMA OpCharIs ==
  ASSUME NEW c, c \in OpChars
  PROVE  c \notin Blanks /\ c \notin Digits /\ c # "_" /\ c # "'" /\ c # Nul
BY DEF OpChars, Blanks, Digits, Nul

LEMMA OpsDomain == DOMAIN ops = 1..46
BY DEF ops

LEMMA OpIs ==
  ASSUME NEW n, n \in 1..46
  PROVE  /\ ops[n] \in Seq(OpChars) /\ Len(ops[n]) \in Nat \ {0} /\ 1 \in DOMAIN ops[n]
         /\ ops[n] = [k \in 1..Len(ops[n]) |-> ops[n][k]]
<1> DEFINE op == ops[n]
<1>1. op \in Seq(OpChars) /\ op # <<>>
  BY OpsAre, Zenon
<1> HIDE DEF op
<1>2. Len(op) \in Nat \ {0}
  BY <1>1, EmptySeq
<1>3. 1 \in DOMAIN op /\ op = [k \in 1..Len(op) |-> op[k]]
  BY <1>1, <1>2
<1> QED
  BY <1>1, <1>2, <1>3 DEF op

LEMMA OpBegins ==
  ASSUME NEW n, n \in 1..46
  PROVE  ops[n][1] \in OpChars /\ ops[n][1] \notin C!Alnum
<1>1. ops[n] \in Seq(OpChars) /\ 1 \in DOMAIN ops[n]
  BY OpIs
<1>2. n \in DOMAIN ops
  BY OpsDomain
<1>3. ops[n][1] \in OpChars
  BY <1>1
<1>4. ops[n] \in ToSet(ops)
  BY <1>2, Zenon DEF ToSet
<1>5. ops[n][1] \in ToSet(ops[n])
  BY <1>1, Zenon DEF ToSet
<1>6. ops[n][1] \notin Letters
  <2>1. Letters \cap ToSet(ops[n]) = {}
    BY <1>4, LettersAssumption, Zenon
  <2> QED
    BY <1>5, <2>1
<1>7. ops[n][1] \notin Digits /\ ops[n][1] # "_"
  BY <1>3, OpCharIs, Zenon
<1> QED
  BY <1>3, <1>6, <1>7, ClassesAre

\* A span is an operator if one of the table is there.
Fits(t, i, n) == \A k \in 1..Len(ops[n]) : t[i + k - 1] = ops[n][k]

LEMMA OperatorIs ==
  ASSUME NEW t, IsText(t), NEW i, i \in 1..Len(t), NEW j, j \in i..Len(t)
  PROVE  SubSeq(t, i, j) \in ToSet(ops) <=>
           \E n \in 1..46 : j = i + Len(ops[n]) - 1 /\ Fits(t, i, n)
<1> DEFINE s == SubSeq(t, i, j)
<1>1. Len(t) \in Nat /\ t \in Seq(Chars)
  BY LengthIs DEF IsText
<1>2. /\ s \in Seq(Chars) /\ Len(s) = j - i + 1 /\ j - i + 1 \in Nat
      /\ \A k \in 1..(j - i + 1) : s[k] = t[i + k - 1]
  BY <1>1
<1> HIDE DEF s
<1>4. s \in ToSet(ops) <=> \E n \in 1..46 : s = ops[n]
  BY OpsDomain, Zenon DEF ToSet
<1>5. ASSUME NEW n \in 1..46
      PROVE  s = ops[n] <=> j = i + Len(ops[n]) - 1 /\ Fits(t, i, n)
  <2> DEFINE op == ops[n]
  <2>1. op \in Seq(OpChars) /\ Len(op) \in Nat /\ op = [k \in 1..Len(op) |-> op[k]]
    BY OpIs
  <2> HIDE DEF op
  <2>2. s = op => j = i + Len(op) - 1 /\ \A k \in 1..Len(op) : t[i + k - 1] = op[k]
    BY <1>1, <1>2
  <2>3. ASSUME j = i + Len(op) - 1, \A k \in 1..Len(op) : t[i + k - 1] = op[k]
        PROVE  s = op
    <3>1. Len(s) = Len(op)
      BY <1>1, <1>2, <2>1, <2>3
    <3>2. \A k \in 1..Len(op) : s[k] = op[k]
      BY <1>2, <2>3, <3>1
    <3>3. s = [k \in 1..Len(s) |-> s[k]]
      BY <1>2
    <3>4. s = [k \in 1..Len(op) |-> op[k]]
      BY <3>1, <3>2, <3>3
    <3> QED
      BY <2>1, <3>4, Zenon
  <2> QED
    BY <2>2, <2>3, Zenon DEF op, Fits
<1>6. s \in ToSet(ops) <=> \E n \in 1..46 : j = i + Len(ops[n]) - 1 /\ Fits(t, i, n)
  BY <1>4, <1>5, Zenon
<1> QED
  BY <1>6, Zenon DEF s

LEMMA NotOperator ==
  ASSUME NEW t, IsText(t), NEW i, i \in 1..Len(t), NEW j, j \in i..Len(t),
         t[i] \notin OpChars \/ t[i] \in C!Alnum
  PROVE  SubSeq(t, i, j) \notin ToSet(ops)
<1> SUFFICES ASSUME SubSeq(t, i, j) \in ToSet(ops)
             PROVE  FALSE
  OBVIOUS
<1>1. PICK n \in 1..46 : Fits(t, i, n)
  BY OperatorIs, Zenon
<1>2. Len(ops[n]) \in Nat \ {0}
  BY OpIs
<1>3. 1 \in 1..Len(ops[n]) /\ i + 1 - 1 = i
  BY <1>2, LengthIs
<1>4. t[i + 1 - 1] = ops[n][1]
  BY <1>1, <1>3 DEF Fits
<1>5. t[i] = ops[n][1]
  BY <1>3, <1>4
<1> QED
  BY <1>5, OpBegins, Zenon

\* A span that begins with nothing special is a word, a number or an operator.
LEMMA PlainShape ==
  ASSUME NEW t, NEW i, NEW j, ~C!OpensComment(t, i), t[i] # Quote, t[i] # "'"
  PROVE  C!Shape(t, i, j) = IF \A k \in i..j : t[k] \in C!Alnum THEN C!WordShape(t, i, j)
                            ELSE IF SubSeq(t, i, j) \in ToSet(ops) THEN "KWD"
                            ELSE "none"
<1>1. ~C!IsString(t, i, j) /\ ~C!IsCharacter(t, i, j)
  BY Zenon DEF C!IsString, C!IsCharacter, Quote
<1> QED
  BY <1>1, Zenon DEF C!Shape

LEMMA QuoteApart ==
  /\ Quote \notin C!Alnum /\ Quote \notin OpChars /\ Quote \notin Blanks
  /\ Quote # "'" /\ Quote # "/" /\ Quote # "\\" /\ Quote # "\n" /\ Quote # Nul
<1>1. Quote \notin Letters
  BY QuoteAssumption, Zenon DEF Quote
<1>2. Quote \notin Digits /\ Quote # "_"
  BY Zenon DEF Quote, Digits
<1>3. Quote \notin C!Alnum
  BY <1>1, <1>2, ClassesAre
<1>4. Quote \notin OpChars
  BY Zenon DEF Quote, OpChars
<1>5. /\ Quote \notin Blanks /\ Quote # "'" /\ Quote # "/" /\ Quote # "\\" /\ Quote # "\n"
      /\ Quote # Nul
  BY Zenon DEF Quote, Blanks, Nul
<1> QED
  BY <1>3, <1>4, <1>5

LEMMA ApostropheApart ==
  /\ "'" \notin C!Alnum /\ "'" \notin OpChars /\ "'" \notin Blanks
  /\ "'" # "/" /\ "'" # "\\" /\ "'" # Nul
<1>1. "'" \notin Letters
  BY LettersAssumption
<1>2. "'" \notin Digits /\ "'" # "_" /\ "'" \notin OpChars /\ "'" \notin Blanks /\ "'" # Nul
  BY DEF Digits, OpChars, Blanks, Nul
<1> QED
  BY <1>1, <1>2, ClassesAre

\* The scanner is inside the string that begins at q, before k.
Inside(t, q, k) ==
  /\ q \in 1..(k - 1) /\ t[q] = Quote /\ ~C!Shielded(t, q, k)
  /\ \A m \in (q + 1)..(k - 1) : t[m] = Quote => C!Shielded(t, q, m)

LEMMA StringIs ==
  ASSUME NEW t, NEW i, NEW j
  PROVE  C!IsString(t, i, j) <=>
           /\ i < j /\ t[i] = Quote /\ t[j] = Quote /\ ~C!Shielded(t, i, j)
           /\ \A k \in (i + 1)..(j - 1) : t[k] # "\n" /\ (t[k] = Quote => C!Shielded(t, i, k))
BY Zenon DEF C!IsString, C!Enclosed, C!OneLine, Quote

\* Behind a quote C finds a string or nothing.
LEMMA QuoteShape ==
  ASSUME NEW t, IsText(t), NEW i, i \in 1..Len(t), t[i] = Quote, NEW j, j \in i..Len(t)
  PROVE  /\ C!IsString(t, i, j) => C!Shape(t, i, j) = "STRING"
         /\ ~C!IsString(t, i, j) => C!Shape(t, i, j) = "none"
<1>1. ~C!OpensComment(t, i) /\ ~C!IsCharacter(t, i, j)
  BY QuoteApart, Zenon DEF C!OpensComment, C!IsCharacter
<1>2. SubSeq(t, i, j) \notin ToSet(ops)
  BY QuoteApart, NotOperator, Zenon
<1>3. i \in i..j
  BY LengthIs
<1>4. ~\A k \in i..j : t[k] \in C!Alnum
  BY <1>3, QuoteApart, Zenon
<1> QED
  BY <1>1, <1>2, <1>4, Zenon DEF C!Shape

LEMMA QuoteLexeme ==
  ASSUME NEW t, IsText(t), NEW i, i \in 1..Len(t), t[i] = Quote, C!Lexeme(t, i).kind # "BAD"
  PROVE  C!Lexeme(t, i).kind = "STRING" /\ C!IsString(t, i, C!Lexeme(t, i).last)
<1> DEFINE j == C!Lexeme(t, i).last
<1>1. j \in Ends(t, i) /\ C!Lexeme(t, i).kind = C!Shape(t, i, j)
  BY LexemeShape
<1> HIDE DEF j
<1>2. j \in i..Len(t) /\ C!Shape(t, i, j) # "none"
  BY <1>1 DEF Ends
<1>3. C!IsString(t, i, j)
  BY <1>2, QuoteShape, Zenon
<1>4. C!Shape(t, i, j) = "STRING"
  BY <1>2, <1>3, QuoteShape, Zenon
<1> QED
  BY <1>1, <1>3, <1>4, Zenon DEF j

\* Of two quotes that end a string, the first does.
LEMMA QuoteEnds ==
  ASSUME NEW t, IsText(t), NEW i, NEW j, NEW k, k \in Nat, i \in Nat, j \in Nat,
         Inside(t, i, k), C!IsString(t, i, j)
  PROVE  j >= k /\ (t[k] = Quote => j = k)
<1>1. /\ i < j /\ t[j] = Quote /\ ~C!Shielded(t, i, j)
      /\ \A m \in (i + 1)..(j - 1) : t[m] = Quote => C!Shielded(t, i, m)
  BY StringIs, Zenon
<1>2. /\ i \in 1..(k - 1) /\ ~C!Shielded(t, i, k)
      /\ \A m \in (i + 1)..(k - 1) : t[m] = Quote => C!Shielded(t, i, m)
  BY Zenon DEF Inside
<1>3. j < k => j \in (i + 1)..(k - 1)
  BY <1>1, <1>2
<1>4. k < j => k \in (i + 1)..(j - 1)
  BY <1>1, <1>2
<1>5. ~(j < k)
  BY <1>1, <1>2, <1>3, Zenon
<1>6. t[k] = Quote => ~(k < j)
  BY <1>1, <1>2, <1>4, Zenon
<1> QED
  BY <1>5, <1>6

\* What ccatd is lenient about.
LEMMA LenientIs ==
  ASSUME NEW t, NEW i
  PROVE  LenientAt(t, i) <=>
    \/ \E j \in (i + 1)..Len(t) : /\ t[j] \in Letters \cup {"_"}
                                  /\ \A k \in i..(j - 1) : t[k] \in Digits
    \/ /\ t[i] = Quote \/ t[i] = "'"
       /\ \E j \in i..Len(t) : C!Enclosed(t, i, j) /\ ~C!OneLine(t, i, j)
    \/ i + 2 <= Len(t) /\ t[i] = "'" /\ t[i + 1] = "'" /\ t[i + 2] = "'"
BY Zenon DEF LenientAt, Quote

\* The string ends where the scanner finds its quote.
LEMMA StringLexeme ==
  ASSUME NEW t, IsText(t), NEW i, i \in 1..Len(t), NEW k, k \in (i + 1)..Len(t),
         Inside(t, i, k), t[k] = Quote, C!Lexeme(t, i).kind # "BAD" \/ ~LenientAt(t, i)
  PROVE  C!Lexeme(t, i) = [kind |-> "STRING", first |-> i, last |-> k]
<1>1. Len(t) \in Nat /\ i \in Nat /\ k \in Nat /\ t[i] = Quote /\ i < k /\ k \in i..Len(t)
  BY LengthIs DEF Inside
<1>2. C!IsString(t, i, k)
  <2>1. CASE C!Lexeme(t, i).kind # "BAD"
    <3> DEFINE j == C!Lexeme(t, i).last
    <3>1. C!IsString(t, i, j) /\ j \in i..Len(t)
      BY <1>1, <2>1, QuoteLexeme, LexemeType
    <3> HIDE DEF j
    <3>2. j \in Nat
      BY <1>1, <3>1
    <3>3. j = k
      BY <1>1, <3>1, <3>2, QuoteEnds
    <3> QED
      BY <3>1, <3>3
  <2>2. CASE ~LenientAt(t, i)
    <3>1. C!Enclosed(t, i, k) /\ k \in i..Len(t)
      BY <1>1, Zenon DEF Inside, C!Enclosed
    <3>2. C!OneLine(t, i, k)
      BY <1>1, <2>2, <3>1, LenientIs, Zenon
    <3> QED
      BY <1>1, <3>1, <3>2, Zenon DEF C!IsString, Quote
  <2> QED
    BY <2>1, <2>2
<1>3. \A m \in (k + 1)..Len(t) : C!Shape(t, i, m) = "none"
  <2> TAKE m \in (k + 1)..Len(t)
  <2>1. m \in i..Len(t) /\ m \in Nat /\ m # k
    BY <1>1
  <2>2. ~C!IsString(t, i, m)
    BY <1>1, <2>1, QuoteEnds, Zenon
  <2> QED
    BY <1>1, <2>1, <2>2, QuoteShape, Zenon
<1>4. k \in i..Len(t)
  BY <1>1
<1>5. C!Shape(t, i, k) = "STRING" /\ "STRING" # "none"
  BY <1>1, <1>2, <1>4, QuoteShape
<1> QED
  BY <1>3, <1>4, <1>5, LexemeFound

\* A string that C reads ends before the scanner leaves the text.
LEMMA StringEnds ==
  ASSUME NEW t, IsText(t), NEW i, i \in 1..Len(t), Inside(t, i, Len(t) + 1)
  PROVE  C!Lexeme(t, i).kind = "BAD"
<1> SUFFICES ASSUME C!Lexeme(t, i).kind # "BAD"
             PROVE  FALSE
  OBVIOUS
<1> DEFINE j == C!Lexeme(t, i).last
<1>1. Len(t) + 1 \in Nat /\ i \in Nat /\ t[i] = Quote
  BY LengthIs DEF Inside
<1>2. C!IsString(t, i, j) /\ j \in i..Len(t)
  BY <1>1, QuoteLexeme, LexemeType
<1> HIDE DEF j
<1>3. j \in Nat /\ j < Len(t) + 1
  BY <1>1, <1>2, LengthIs
<1>4. j >= Len(t) + 1
  BY <1>1, <1>2, <1>3, QuoteEnds
<1> QED
  BY <1>1, <1>3, <1>4

\* Characters. Behind an apostrophe C finds a character or nothing.
LEMMA ApostropheShape ==
  ASSUME NEW t, IsText(t), NEW i, i \in 1..Len(t), t[i] = "'", NEW j, j \in i..Len(t)
  PROVE  /\ C!IsCharacter(t, i, j) => C!Shape(t, i, j) = "CHAR"
         /\ ~C!IsCharacter(t, i, j) => C!Shape(t, i, j) = "none"
<1>1. ~C!OpensComment(t, i)
  BY ApostropheApart, Zenon DEF C!OpensComment
<1>2. ~C!IsString(t, i, j)
  BY QuoteApart, StringIs, Zenon
<1>3. SubSeq(t, i, j) \notin ToSet(ops)
  BY ApostropheApart, NotOperator, Zenon
<1>4. i \in i..j
  BY LengthIs
<1>5. ~\A k \in i..j : t[k] \in C!Alnum
  BY <1>4, ApostropheApart, Zenon
<1> QED
  BY <1>1, <1>2, <1>3, <1>5, Zenon DEF C!Shape

LEMMA ApostropheLexeme ==
  ASSUME NEW t, IsText(t), NEW i, i \in 1..Len(t), t[i] = "'", C!Lexeme(t, i).kind # "BAD"
  PROVE  C!Lexeme(t, i).last \in i..Len(t) /\ C!IsCharacter(t, i, C!Lexeme(t, i).last)
<1> DEFINE j == C!Lexeme(t, i).last
<1>1. j \in Ends(t, i)
  BY LexemeShape
<1> HIDE DEF j
<1>2. j \in i..Len(t) /\ C!Shape(t, i, j) # "none"
  BY <1>1 DEF Ends
<1>3. C!IsCharacter(t, i, j)
  BY <1>2, ApostropheShape, Zenon
<1> QED
  BY <1>2, <1>3, Zenon DEF j

\* A quote is closed once.
LEMMA EnclosedOnce ==
  ASSUME NEW t, NEW i \in Nat, NEW j \in Nat, NEW k \in Nat, C!Enclosed(t, i, j),
         C!Enclosed(t, i, k)
  PROVE  j = k
<1>1. /\ i < j /\ t[j] = t[i] /\ ~C!Shielded(t, i, j)
      /\ \A m \in (i + 1)..(j - 1) : t[m] = t[i] => C!Shielded(t, i, m)
  BY Zenon DEF C!Enclosed
<1>2. /\ i < k /\ t[k] = t[i] /\ ~C!Shielded(t, i, k)
      /\ \A m \in (i + 1)..(k - 1) : t[m] = t[i] => C!Shielded(t, i, m)
  BY Zenon DEF C!Enclosed
<1>3. j \notin (i + 1)..(k - 1) /\ k \notin (i + 1)..(j - 1)
  BY <1>1, <1>2, Zenon
<1> QED
  BY <1>1, <1>2, <1>3

\* What the scanner takes for a character is closed where it looks for the quote, unless
\* the character is a quote.
LEMMA CharEnclosed ==
  ASSUME NEW t, IsText(t), NEW i, i \in 1..Len(t), t[i] = "'", NEW k, k \in 1..Len(t), t[k] = "'",
         \/ k = i + 2 /\ t[i + 1] # "\\"
         \/ k = i + 3 /\ t[i + 1] = "\\"
  PROVE  /\ k = i + 2 /\ t[i + 1] = "'" => C!Enclosed(t, i, i + 1)
         /\ ~(k = i + 2 /\ t[i + 1] = "'") => C!Enclosed(t, i, k)
<1>1. Len(t) \in Nat /\ i \in Nat /\ k \in Nat /\ i < k /\ t[i] # "\\" /\ i < i + 1
  BY ApostropheApart, LengthIs
<1>2. i + 1 \in (i + 1)..Len(t) /\ (i + 1) + 1 = i + 2
  BY <1>1
<1>3. ~C!Shielded(t, i, i + 1)
  BY <1>1, ShieldedFirst, Zenon
<1>4. C!Shielded(t, i, i + 2) <=> t[i + 1] = "\\"
  <2>1. C!Shielded(t, i, (i + 1) + 1) <=> t[i + 1] = "\\"
    BY <1>1, <1>2, <1>3, ShieldedNext, Zenon
  <2> QED
    BY <1>2, <2>1
<1>5. CASE k = i + 2 /\ t[i + 1] = "'"
  <2>1. \A m \in (i + 1)..((i + 1) - 1) : FALSE
    BY <1>1
  <2> QED
    BY <1>1, <1>3, <1>5, <2>1, Zenon DEF C!Enclosed
<1>6. CASE k = i + 2 /\ t[i + 1] # "\\" /\ t[i + 1] # "'"
  <2>1. \A m \in (i + 1)..(k - 1) : m = i + 1
    BY <1>1, <1>6
  <2>2. ~C!Shielded(t, i, k)
    BY <1>4, <1>6
  <2>3. t[i + 1] # t[i]
    BY <1>6
  <2>4. \A m \in (i + 1)..(k - 1) : t[m] = t[i] => C!Shielded(t, i, m)
    BY <2>1, <2>3, Zenon
  <2>5. t[k] = t[i]
    OBVIOUS
  <2>6. C!Enclosed(t, i, k)
    BY <1>1, <2>2, <2>4, <2>5, Zenon DEF C!Enclosed
  <2> QED
    BY <1>6, <2>6, Zenon
<1>7. CASE k = i + 3 /\ t[i + 1] = "\\"
  <2>1. \A m \in (i + 1)..(k - 1) : m = i + 1 \/ m = i + 2
    BY <1>1, <1>7
  <2>2. C!Shielded(t, i, i + 2) /\ t[i + 1] # t[i]
    BY <1>1, <1>4, <1>7
  <2>3. ~C!Shielded(t, i, k)
    <3>1. i + 2 \in (i + 1)..Len(t) /\ (i + 2) + 1 = k
      BY <1>1, <1>7
    <3>2. ~C!Shielded(t, i, (i + 2) + 1)
      BY <1>1, <2>2, <3>1, ShieldedNext, Zenon
    <3> QED
      BY <3>1, <3>2
  <2>4. \A m \in (i + 1)..(k - 1) : t[m] = t[i] => C!Shielded(t, i, m)
    BY <2>1, <2>2, Zenon
  <2>5. t[k] = t[i] /\ k # i + 2
    BY <1>1, <1>7
  <2>6. C!Enclosed(t, i, k)
    BY <1>1, <2>3, <2>4, <2>5, Zenon DEF C!Enclosed
  <2> QED
    BY <2>5, <2>6, Zenon
<1> QED
  BY <1>5, <1>6, <1>7, Zenon

\* The character ends where the scanner looks for its quote.
LEMMA CharLexeme ==
  ASSUME NEW t, IsText(t), NEW i, i \in 1..Len(t), t[i] = "'", NEW k, k \in 1..Len(t), t[k] = "'",
         \/ k = i + 2 /\ t[i + 1] # "\\"
         \/ k = i + 3 /\ t[i + 1] = "\\",
         C!Lexeme(t, i).kind # "BAD" \/ ~LenientAt(t, i)
  PROVE  C!Lexeme(t, i) = [kind |-> "CHAR", first |-> i, last |-> k]
<1>1. Len(t) \in Nat /\ i \in Nat /\ k \in Nat /\ k \in i..Len(t) /\ k # i + 1 /\ i + 1 \in Nat
  BY LengthIs
<1>2. ASSUME NEW j \in Nat, C!IsCharacter(t, i, j)
      PROVE  C!Enclosed(t, i, j) /\ C!OneLine(t, i, j) /\ j # i + 1
  BY <1>2, Zenon DEF C!IsCharacter
<1>3. ~(k = i + 2 /\ t[i + 1] = "'")
  <2> SUFFICES ASSUME k = i + 2, t[i + 1] = "'"
               PROVE  FALSE
    OBVIOUS
  <2>1. LenientAt(t, i)
    <3>1. i + 2 <= Len(t) /\ t[i + 2] = "'"
      BY <1>1
    <3> QED
      BY <3>1, LenientIs, Zenon
  <2> DEFINE j == C!Lexeme(t, i).last
  <2>2. C!IsCharacter(t, i, j) /\ j \in i..Len(t)
    BY <2>1, ApostropheLexeme
  <2> HIDE DEF j
  <2>3. j \in Nat
    BY <1>1, <2>2
  <2>4. C!Enclosed(t, i, i + 1)
    BY CharEnclosed
  <2>5. j = i + 1
    BY <1>1, <1>2, <2>2, <2>3, <2>4, EnclosedOnce
  <2> QED
    BY <1>2, <2>2, <2>3, <2>5
<1>4. C!Enclosed(t, i, k)
  BY <1>3, CharEnclosed
<1>5. C!OneLine(t, i, k)
  <2>1. CASE C!Lexeme(t, i).kind # "BAD"
    <3> DEFINE j == C!Lexeme(t, i).last
    <3>1. C!IsCharacter(t, i, j) /\ j \in i..Len(t)
      BY <2>1, ApostropheLexeme
    <3> HIDE DEF j
    <3>2. j \in Nat
      BY <1>1, <3>1
    <3>3. j = k
      BY <1>1, <1>2, <1>4, <3>1, <3>2, EnclosedOnce
    <3> QED
      BY <1>2, <3>1, <3>2, <3>3
  <2>2. CASE ~LenientAt(t, i)
    BY <1>1, <1>4, <2>2, LenientIs, Zenon
  <2> QED
    BY <2>1, <2>2
<1>6. C!IsCharacter(t, i, k)
  BY <1>1, <1>4, <1>5, Zenon DEF C!IsCharacter
<1>7. \A m \in (k + 1)..Len(t) : C!Shape(t, i, m) = "none"
  <2> TAKE m \in (k + 1)..Len(t)
  <2>1. m \in i..Len(t) /\ m # k /\ m \in Nat
    BY <1>1
  <2>2. ~C!IsCharacter(t, i, m)
    BY <1>1, <1>2, <1>4, <2>1, EnclosedOnce
  <2> QED
    BY <2>1, <2>2, ApostropheShape, Zenon
<1>8. C!Shape(t, i, k) = "CHAR" /\ "CHAR" # "none"
  BY <1>1, <1>6, ApostropheShape
<1> QED
  BY <1>1, <1>7, <1>8, LexemeFound

\* Where the scanner refuses a character it is a long one, or there is none.
LEMMA CharRefused ==
  ASSUME NEW t, IsText(t), NEW i, i \in 1..Len(t), t[i] = "'", C!Lexeme(t, i).kind # "BAD"
  PROVE  \/ i + 2 <= Len(t) /\ t[i + 1] # "\\" /\ t[i + 2] = "'"
         \/ i + 3 <= Len(t) /\ t[i + 1] = "\\" /\ t[i + 3] = "'"
         \/ LongCharacter(t, C!Lexeme(t, i))
<1> DEFINE l == C!Lexeme(t, i)
           j == l.last
<1>1. j \in i..Len(t) /\ C!IsCharacter(t, i, j)
  BY ApostropheLexeme
<1>2. t[j] = "'"
  BY <1>1, Zenon DEF C!IsCharacter, C!Enclosed
<1>3. l.kind = "CHAR" /\ l.first = i
  <2>1. l.kind = C!Shape(t, i, j) /\ l.first = i
    BY LexemeShape, LexemeType
  <2> QED
    BY <1>1, <2>1, ApostropheShape, Zenon
<1>4. LongCharacter(t, l) <=> j # i + (IF t[i + 1] = "\\" THEN 3 ELSE 2)
  BY <1>3, Zenon DEF LongCharacter
<1> HIDE DEF l, j
<1>5. j = i + (IF t[i + 1] = "\\" THEN 3 ELSE 2) =>
        \/ i + 2 <= Len(t) /\ t[i + 1] # "\\" /\ t[i + 2] = "'"
        \/ i + 3 <= Len(t) /\ t[i + 1] = "\\" /\ t[i + 3] = "'"
  BY <1>1, <1>2, LengthIs
<1> QED
  BY <1>4, <1>5, Zenon DEF l

-----------------------------------------------------------------------------
\* Words and numbers.
LEMMA AlnumShape ==
  ASSUME NEW t, IsText(t), NEW i, i \in 1..Len(t), t[i] \in C!Alnum, NEW j, j \in i..Len(t)
  PROVE  /\ (\A k \in i..j : t[k] \in C!Alnum) => C!Shape(t, i, j) = C!WordShape(t, i, j)
         /\ C!Shape(t, i, j) # "none" => \A k \in i..j : t[k] \in C!Alnum
<1>1. t[i] # Quote /\ t[i] # "'" /\ t[i] # "/"
  <2>1. "/" \notin C!Alnum
    <3>1. ops[26][1] = "/" /\ 26 \in 1..46
      BY DEF ops
    <3> QED
      BY <3>1, OpBegins
  <2> QED
    BY <2>1, QuoteApart, ApostropheApart, Zenon
<1>2. ~C!OpensComment(t, i)
  BY <1>1, Zenon DEF C!OpensComment
<1>3. SubSeq(t, i, j) \notin ToSet(ops)
  BY NotOperator, Zenon
<1>4. C!Shape(t, i, j) = IF \A k \in i..j : t[k] \in C!Alnum THEN C!WordShape(t, i, j) ELSE "none"
  BY <1>1, <1>2, <1>3, PlainShape, Zenon
<1> QED
  BY <1>4, Zenon

LEMMA WordShapeIs ==
  ASSUME NEW t, NEW i, NEW j
  PROVE  C!WordShape(t, i, j) # "none"
BY Zenon DEF C!WordShape

LEMMA RunLexeme ==
  ASSUME NEW t, IsText(t), NEW i, i \in 1..Len(t), NEW j, j \in i..(Len(t) - 1),
         \A k \in i..j : t[k] \in C!Alnum, t[j + 1] \notin C!Alnum
  PROVE  C!Lexeme(t, i) = [kind |-> C!WordShape(t, i, j), first |-> i, last |-> j]
<1>1. Len(t) \in Nat /\ i \in i..j /\ j \in i..Len(t)
  BY LengthIs
<1>2. t[i] \in C!Alnum
  BY <1>1
<1>3. C!Shape(t, i, j) = C!WordShape(t, i, j)
  BY <1>1, <1>2, AlnumShape, Zenon
<1>4. \A m \in (j + 1)..Len(t) : C!Shape(t, i, m) = "none"
  <2> TAKE m \in (j + 1)..Len(t)
  <2>1. m \in i..Len(t) /\ j + 1 \in i..m
    BY <1>1
  <2> QED
    BY <1>2, <2>1, AlnumShape, Zenon
<1>5. C!WordShape(t, i, j) # "none"
  BY WordShapeIs, Zenon
<1> QED
  BY <1>1, <1>3, <1>4, <1>5, LexemeFound

\* A number runs into a word: neither is C.
LEMMA NumberIntoWord ==
  ASSUME NEW t, IsText(t), NEW i, i \in 1..Len(t), NEW j, j \in i..(Len(t) - 1),
         \A k \in i..j : t[k] \in Digits, t[j + 1] \in C!Alnum, t[j + 1] \notin Digits
  PROVE  C!Lexeme(t, i).kind = "BAD" /\ LenientAt(t, i)
<1>1. Len(t) \in Nat /\ i \in i..j /\ j \in i..j /\ j \in i..Len(t) /\ i \in Nat
  BY LengthIs
<1>2. t[i] \in Digits /\ t[j] \in Digits /\ t[i] \in C!Alnum
  BY <1>1, ClassesAre
<1>3. LenientAt(t, i)
  <2>1. j + 1 \in (i + 1)..Len(t) /\ (j + 1) - 1 = j
    BY <1>1
  <2>2. t[j + 1] \in Letters \cup {"_"}
    <3>1. t[j + 1] \in Letters \cup Digits \cup {"_"}
      BY ClassesAre, Zenon
    <3> QED
      BY <3>1, Zenon
  <2>3. \A k \in i..((j + 1) - 1) : t[k] \in Digits
    BY <2>1
  <2> QED
    BY <2>1, <2>2, <2>3, LenientIs, Zenon
<1>4. C!Lexeme(t, i).kind = "BAD"
  <2> SUFFICES ASSUME C!Lexeme(t, i).kind # "BAD"
               PROVE  FALSE
    OBVIOUS
  <2> DEFINE e == C!Lexeme(t, i).last
  <2>1. e \in Ends(t, i) /\ (\A m \in Ends(t, i) : m <= e) /\ C!Lexeme(t, i).kind = C!Shape(t, i, e)
    BY LexemeShape
  <2> HIDE DEF e
  <2>2. e \in i..Len(t) /\ C!Shape(t, i, e) # "none"
    BY <2>1 DEF Ends
  <2>3. \A k \in i..e : t[k] \in C!Alnum
    BY <1>2, <2>2, AlnumShape, Zenon
  <2>4. j + 1 \in Ends(t, i)
    <3>1. j + 1 \in i..Len(t) /\ \A k \in i..(j + 1) : k \in i..j \/ k = j + 1
      BY <1>1
    <3>2. \A k \in i..(j + 1) : t[k] \in C!Alnum
      BY <3>1, ClassesAre
    <3>3. C!Shape(t, i, j + 1) # "none"
      <4>1. C!Shape(t, i, j + 1) = C!WordShape(t, i, j + 1)
        BY <1>2, <3>1, <3>2, AlnumShape, Zenon
      <4> QED
        BY <4>1, WordShapeIs, Zenon
    <3> QED
      BY <3>1, <3>3 DEF Ends
  <2>5. j + 1 \in i..e
    BY <1>1, <2>1, <2>2, <2>4
  <2>6. C!Shape(t, i, e) = C!WordShape(t, i, e)
    BY <1>2, <2>2, <2>3, AlnumShape, Zenon
  <2>7. C!WordShape(t, i, e) = "BAD"
    BY <1>2, <2>5, ClassesAre, Zenon DEF C!WordShape
  <2> QED
    BY <2>1, <2>6, <2>7
<1> QED
  BY <1>3, <1>4

-----------------------------------------------------------------------------
\* Operators. The table has the longer ones first, but for two, which begin like none of
\* the shorter ones before them.
LEMMA OpLengths ==
  /\ \A n \in {1, 7, 8} : Len(ops[n]) = 3
  /\ \A n \in 2..6 : Len(ops[n]) = 2
  /\ \A n \in 9..22 : Len(ops[n]) = 2
  /\ \A n \in 23..46 : Len(ops[n]) = 1
<1>1. Len(ops[1]) = 3 /\ Len(ops[7]) = 3 /\ Len(ops[8]) = 3
  BY DEF ops
<1>2. /\ Len(ops[2]) = 2 /\ Len(ops[3]) = 2 /\ Len(ops[4]) = 2 /\ Len(ops[5]) = 2
      /\ Len(ops[6]) = 2
  BY DEF ops
<1>3. /\ Len(ops[9]) = 2 /\ Len(ops[10]) = 2 /\ Len(ops[11]) = 2 /\ Len(ops[12]) = 2
      /\ Len(ops[13]) = 2 /\ Len(ops[14]) = 2 /\ Len(ops[15]) = 2
  BY DEF ops
<1>4. /\ Len(ops[16]) = 2 /\ Len(ops[17]) = 2 /\ Len(ops[18]) = 2 /\ Len(ops[19]) = 2
      /\ Len(ops[20]) = 2 /\ Len(ops[21]) = 2 /\ Len(ops[22]) = 2
  BY DEF ops
<1>5. /\ Len(ops[23]) = 1 /\ Len(ops[24]) = 1 /\ Len(ops[25]) = 1 /\ Len(ops[26]) = 1
      /\ Len(ops[27]) = 1 /\ Len(ops[28]) = 1 /\ Len(ops[29]) = 1 /\ Len(ops[30]) = 1
  BY DEF ops
<1>6. /\ Len(ops[31]) = 1 /\ Len(ops[32]) = 1 /\ Len(ops[33]) = 1 /\ Len(ops[34]) = 1
      /\ Len(ops[35]) = 1 /\ Len(ops[36]) = 1 /\ Len(ops[37]) = 1 /\ Len(ops[38]) = 1
  BY DEF ops
<1>7. /\ Len(ops[39]) = 1 /\ Len(ops[40]) = 1 /\ Len(ops[41]) = 1 /\ Len(ops[42]) = 1
      /\ Len(ops[43]) = 1 /\ Len(ops[44]) = 1 /\ Len(ops[45]) = 1 /\ Len(ops[46]) = 1
  BY DEF ops
<1>8. \A n \in 9..22 : Len(ops[n]) = 2
  BY <1>3, <1>4
<1>9. \A n \in 23..46 : Len(ops[n]) = 1
  BY <1>5, <1>6, <1>7
<1> QED
  BY <1>1, <1>2, <1>8, <1>9

LEMMA OpFirsts ==
  /\ \A n \in {7, 8} : ops[n][1] \in {"<", ">"}
  /\ \A n \in 2..6 : ops[n][1] \notin {"<", ">"}
<1>1. ops[7][1] = "<" /\ ops[8][1] = ">"
  BY DEF ops
<1>2. /\ ops[2][1] = "*" /\ ops[3][1] = "/" /\ ops[4][1] = "%" /\ ops[5][1] = "+"
      /\ ops[6][1] = "-"
  BY DEF ops
<1>3. \A n \in 2..6 : n = 2 \/ n = 3 \/ n = 4 \/ n = 5 \/ n = 6
  OBVIOUS
<1>4. \A n \in 2..6 : ops[n][1] \notin {"<", ">"}
  BY <1>2, <1>3
<1> QED
  BY <1>1, <1>4

\* The first that fits is the longest.
LEMMA FirstFits ==
  ASSUME NEW t, NEW i \in Nat, NEW a, a \in 1..46, NEW b, b \in 1..46, a <= b,
         Fits(t, i, a), Fits(t, i, b)
  PROVE  Len(ops[b]) <= Len(ops[a])
<1>1. t[i] = ops[a][1] /\ t[i] = ops[b][1]
  <2>1. \A n \in 1..46 : Fits(t, i, n) => t[i] = ops[n][1]
    <3> TAKE n \in 1..46
    <3>1. 1 \in 1..Len(ops[n]) /\ i + 1 - 1 = i
      <4>1. Len(ops[n]) \in Nat \ {0}
        BY OpIs
      <4> QED
        BY <4>1
    <3>2. Fits(t, i, n) => t[i + 1 - 1] = ops[n][1]
      BY <3>1, Zenon DEF Fits
    <3> QED
      BY <3>1, <3>2
  <2> QED
    BY <2>1, Zenon
<1>2. ~(a \in 2..6 /\ b \in {7, 8})
  BY <1>1, OpFirsts, Zenon
<1>3. CASE a \in {1, 7, 8}
  <2>1. Len(ops[a]) = 3
    BY <1>3, OpLengths, Zenon
  <2>2. b \in {1, 7, 8} \/ b \in 2..6 \/ b \in 9..22 \/ b \in 23..46
    OBVIOUS
  <2>3. Len(ops[b]) = 3 \/ Len(ops[b]) = 2 \/ Len(ops[b]) = 1
    BY <2>2, OpLengths, Zenon
  <2>4. 3 <= 3 /\ 2 <= 3 /\ 1 <= 3
    OBVIOUS
  <2> QED
    BY <2>1, <2>3, <2>4, Zenon
<1>4. CASE a \in 2..6 \/ a \in 9..22
  <2>1. Len(ops[a]) = 2
    BY <1>4, OpLengths, Zenon
  <2>2. b \in 2..6 \/ b \in 9..22 \/ b \in 23..46
    BY <1>2, <1>4
  <2>3. Len(ops[b]) = 2 \/ Len(ops[b]) = 1
    BY <2>2, OpLengths, Zenon
  <2>4. 2 <= 2 /\ 1 <= 2
    OBVIOUS
  <2> QED
    BY <2>1, <2>3, <2>4, Zenon
<1>5. CASE a \in 23..46
  <2>1. b \in 23..46
    BY <1>5
  <2>2. Len(ops[a]) = 1 /\ Len(ops[b]) = 1
    BY <1>5, <2>1, OpLengths, Zenon
  <2> QED
    BY <2>2
<1>6. a \in {1, 7, 8} \/ a \in 2..6 \/ a \in 9..22 \/ a \in 23..46
  OBVIOUS
<1> QED
  BY <1>3, <1>4, <1>5, <1>6

\* What mem_op compares is what is in the text.
LEMMA StartsFits ==
  ASSUME IsText(text), NEW i, i \in 1..Len(text), NEW n, n \in 1..46
  PROVE  Starts(i, ops[n]) <=> i + Len(ops[n]) - 1 <= Len(text) /\ Fits(text, i, n)
<1> DEFINE op == ops[n]
<1>1. /\ op \in Seq(OpChars) /\ Len(op) \in Nat \ {0} /\ DOMAIN op = 1..Len(op)
      /\ Len(text) \in Nat /\ text \in Seq(Chars)
  BY OpIs, LengthIs DEF IsText
<1>2. \A k \in 1..Len(op) : op[k] # Nul
  <2> HIDE DEF op
  <2>1. \A k \in 1..Len(op) : op[k] \in OpChars
    BY <1>1
  <2> QED
    BY <2>1, OpCharsAre
<1> HIDE DEF op
<1>3. ASSUME Starts(i, op)
      PROVE  i + Len(op) - 1 <= Len(text) /\ \A k \in 1..Len(op) : text[i + k - 1] = op[k]
  <2>1. \A k \in 1..Len(op) : At(i + k - 1) = op[k]
    BY <1>1, <1>3, Zenon DEF Starts
  <2>2. \A k \in 1..Len(op) : At(i + k - 1) # Nul
    BY <1>2, <2>1
  <2>3. \A k \in 1..Len(op) : i + k - 1 <= Len(text) /\ At(i + k - 1) = text[i + k - 1]
    BY <1>1, <2>2 DEF At
  <2>4. Len(op) \in 1..Len(op)
    BY <1>1
  <2> QED
    BY <2>1, <2>3, <2>4
<1>4. ASSUME i + Len(op) - 1 <= Len(text), \A k \in 1..Len(op) : text[i + k - 1] = op[k]
      PROVE  Starts(i, op)
  <2>1. \A k \in 1..Len(op) : At(i + k - 1) = text[i + k - 1]
    BY <1>1, <1>4 DEF At
  <2> QED
    BY <1>1, <1>4, <2>1 DEF Starts
<1> QED
  BY <1>3, <1>4, Zenon DEF op, Fits

LEMMA MemOpLeast ==
  ASSUME NEW i
  PROVE  /\ MemOp(i) = <<>> => \A n \in 1..46 : ~Starts(i, ops[n])
         /\ MemOp(i) # <<>> =>
              \E a \in 1..46 : /\ MemOp(i) = ops[a] /\ Starts(i, ops[a])
                               /\ \A n \in 1..46 : Starts(i, ops[n]) => a <= n
<1> DEFINE fits == {n \in 1..Len(ops) : Starts(i, ops[n])}
<1>1. MemOp(i) = IF fits # {} THEN IF Min(fits) = 0 THEN <<>> ELSE ops[Min(fits)] ELSE <<>>
  BY DEF MemOp, SelectInSeq
<1>2. \A n : n \in fits <=> n \in 1..46 /\ Starts(i, ops[n])
  BY OpsAre, Zenon
<1> HIDE DEF fits
<1>3. ASSUME fits # {}
      PROVE  Min(fits) \in fits /\ \A n \in fits : Min(fits) <= n
  <2>1. fits \in SUBSET Nat
    BY <1>2
  <2> QED
    BY <1>3, <2>1, MinIsLeast
<1>4. CASE fits = {}
  BY <1>1, <1>2, <1>4, Zenon
<1>5. CASE fits # {}
  <2>1. Min(fits) \in 1..46 /\ Starts(i, ops[Min(fits)]) /\ Min(fits) # 0
    <3>1. Min(fits) \in 1..46 /\ Starts(i, ops[Min(fits)])
      BY <1>2, <1>3, <1>5, Zenon
    <3> QED
      BY <3>1
  <2>2. MemOp(i) = ops[Min(fits)]
    BY <1>1, <1>5, <2>1, Zenon
  <2>3. ops[Min(fits)] # <<>>
    BY <2>1, OpsAre
  <2>4. \A n \in 1..46 : Starts(i, ops[n]) => Min(fits) <= n
    BY <1>2, <1>3, <1>5, Zenon
  <2> QED
    BY <2>1, <2>2, <2>3, <2>4, Zenon
<1> QED
  BY <1>4, <1>5

\* What begins with none of what is special is what mem_op finds.
LEMMA OperatorLexeme ==
  ASSUME IsText(text), NEW i, i \in 1..Len(text), ~C!OpensComment(text, i), MemOp(i) # <<>>
  PROVE  /\ Len(MemOp(i)) \in Nat \ {0} /\ i + Len(MemOp(i)) - 1 <= Len(text)
         /\ C!Lexeme(text, i) = [kind |-> "KWD", first |-> i, last |-> i + Len(MemOp(i)) - 1]
         /\ SubSeq(text, i, i + Len(MemOp(i)) - 1) = MemOp(i)
<1>1. Len(text) \in Nat /\ i \in Nat
  BY LengthIs
<1>2. PICK a \in 1..46 : /\ MemOp(i) = ops[a] /\ Starts(i, ops[a])
                         /\ \A n \in 1..46 : Starts(i, ops[n]) => a <= n
  BY MemOpLeast, Zenon
<1>3. /\ Len(ops[a]) \in Nat \ {0} /\ ops[a] \in Seq(OpChars)
      /\ ops[a] = [k \in 1..Len(ops[a]) |-> ops[a][k]]
  BY OpIs
<1>4. i + Len(ops[a]) - 1 <= Len(text) /\ Fits(text, i, a)
  BY <1>2, StartsFits, Zenon
<1> DEFINE j == i + Len(ops[a]) - 1
<1>5. j \in i..Len(text) /\ j = i + Len(ops[a]) - 1
  BY <1>1, <1>3, <1>4
<1> HIDE DEF j
<1>6. text[i] = ops[a][1]
  <2>1. 1 \in 1..Len(ops[a]) /\ i + 1 - 1 = i
    BY <1>1, <1>3
  <2>2. text[i + 1 - 1] = ops[a][1]
    BY <1>4, <2>1, Zenon DEF Fits
  <2> QED
    BY <2>1, <2>2
<1>7. text[i] \in OpChars /\ text[i] \notin C!Alnum /\ text[i] # Quote /\ text[i] # "'"
  BY <1>6, OpBegins, QuoteApart, ApostropheApart, Zenon
<1>8. \A m \in i..Len(text) :
        C!Shape(text, i, m) = IF SubSeq(text, i, m) \in ToSet(ops) THEN "KWD" ELSE "none"
  <2> TAKE m \in i..Len(text)
  <2>1. i \in i..m
    BY <1>1
  <2> QED
    BY <1>7, <2>1, PlainShape, Zenon
<1>9. C!Shape(text, i, j) = "KWD"
  <2>1. SubSeq(text, i, j) \in ToSet(ops)
    BY <1>4, <1>5, OperatorIs, Zenon
  <2> QED
    BY <1>5, <1>8, <2>1, Zenon
<1>10. \A m \in (j + 1)..Len(text) : C!Shape(text, i, m) = "none"
  <2> TAKE m \in (j + 1)..Len(text)
  <2>1. m \in i..Len(text)
    BY <1>1, <1>5
  <2> SUFFICES ASSUME SubSeq(text, i, m) \in ToSet(ops)
               PROVE  FALSE
    BY <1>8, <2>1, Zenon
  <2>2. PICK b \in 1..46 : m = i + Len(ops[b]) - 1 /\ Fits(text, i, b)
    BY <2>1, OperatorIs, Zenon
  <2>3. Len(ops[b]) \in Nat
    BY OpIs
  <2>4. i + Len(ops[b]) - 1 <= Len(text)
    BY <2>1, <2>2
  <2>5. Starts(i, ops[b])
    BY <2>2, <2>4, StartsFits, Zenon
  <2>6. a <= b
    BY <1>2, <2>5, Zenon
  <2>7. Len(ops[b]) <= Len(ops[a])
    BY <1>1, <1>4, <2>2, <2>6, FirstFits, Zenon
  <2> QED
    BY <1>1, <1>3, <1>5, <2>2, <2>3, <2>7
<1>11. C!Lexeme(text, i) = [kind |-> "KWD", first |-> i, last |-> j]
  <2>1. "KWD" # "none"
    OBVIOUS
  <2> QED
    BY <1>5, <1>9, <1>10, <2>1, LexemeFound
<1>12. SubSeq(text, i, j) = ops[a]
  <2> DEFINE s == SubSeq(text, i, j)
             op == ops[a]
  <2>1. text \in Seq(Chars)
    BY DEF IsText
  <2>2. \A k \in 1..Len(op) : text[i + k - 1] = op[k]
    BY <1>4, Zenon DEF Fits
  <2>3. Len(op) \in Nat /\ op = [k \in 1..Len(op) |-> op[k]] /\ j = i + Len(op) - 1
    BY <1>3, <1>5
  <2> HIDE DEF op
  <2>4. s = [k \in 1..Len(op) |-> text[i + k - 1]]
    BY <1>1, <1>5, <2>1, <2>3
  <2> HIDE DEF s
  <2>5. s = [k \in 1..Len(op) |-> op[k]]
    BY <2>2, <2>4
  <2>6. s = op
    BY <2>3, <2>5, Zenon
  <2> QED
    BY <2>6 DEF s, op
<1> QED
  BY <1>2, <1>3, <1>4, <1>5, <1>11, <1>12

\* What mem_op does not know, and what is no word, is nothing.
LEMMA NoLexeme ==
  ASSUME IsText(text), NEW i, i \in 1..Len(text), ~C!OpensComment(text, i), MemOp(i) = <<>>,
         text[i] \notin C!Alnum, text[i] # Quote, text[i] # "'"
  PROVE  C!Lexeme(text, i).kind = "BAD"
<1> SUFFICES ASSUME C!Lexeme(text, i).kind # "BAD"
             PROVE  FALSE
  OBVIOUS
<1> DEFINE j == C!Lexeme(text, i).last
<1>1. j \in Ends(text, i)
  BY LexemeShape
<1> HIDE DEF j
<1>2. j \in i..Len(text) /\ C!Shape(text, i, j) # "none"
  BY <1>1 DEF Ends
<1>3. i \in i..j
  BY <1>2, LengthIs
<1>4. SubSeq(text, i, j) \in ToSet(ops)
  BY <1>2, <1>3, PlainShape, Zenon
<1>5. PICK n \in 1..46 : j = i + Len(ops[n]) - 1 /\ Fits(text, i, n)
  BY <1>2, <1>4, OperatorIs, Zenon
<1>6. i + Len(ops[n]) - 1 <= Len(text)
  BY <1>2, <1>5, LengthIs
<1> QED
  BY <1>5, <1>6, StartsFits, MemOpLeast, Zenon

-----------------------------------------------------------------------------
\* How the tokens that were made stand to those of C: w is what they should all be.
Every(t) == AsTokensFrom(t)[1]

Wanted == [k \in 1..Len(Every(text)) |-> AsExpected(Every(text)[k])]

AsCommentJoins(t) ==
  \E l \in ToSet(C!LexemesFrom(t)[1]) : /\ l.kind = "STRING"
                                        /\ C!Opens(C!LexemesFrom(t)[l.last + 1], "COMMENT")
                                        /\ C!Opens(AsTokensFrom(t)[l.last + 1], "STRING")

Fit(t) == Clean(t, 1) /\ ~AsCommentJoins(t)

Scanned(w, toks) == \A k \in 1..Len(toks) : toks[k] = w[k]

\* The tokens ts are all those behind the first n.
Follow(t, n, ts) == /\ Len(Every(t)) = n + Len(ts)
                    /\ \A k \in 1..Len(ts) : Every(t)[n + k] = ts[k]

\* Between two tokens the next one of C is due.
Due(t, w, toks, i) == Fit(t) => /\ Scanned(w, toks)
                                /\ Follow(t, Len(toks), AsTokensFrom(t)[i])

\* The string tok is read to the end at last, and was then what means says.
StringTo(tok, last, means) == tok.kind = "STRING" /\ tok.last = last /\ tok.means = means

\* The string that the next token is goes on at q, behind the characters before.
Pending(t, w, toks, q, before) ==
  LET ts == AsTokensFrom(t)[q]
  IN  /\ Scanned(w, toks) /\ C!Opens(ts, "STRING")
      /\ Len(Every(t)) = Len(toks) + Len(ts)
      /\ StringTo(Every(t)[Len(toks) + 1], ts[1].last, before \o ts[1].means)
      /\ \A k \in 2..Len(ts) : Every(t)[Len(toks) + k] = ts[k]

LEMMA EveryType ==
  ASSUME NEW t, IsText(t)
  PROVE  Every(t) \in Seq(TokensType(t)) /\ Len(Every(t)) \in Nat
<1>1. 1 \in 1..(Len(t) + 1)
  BY LengthIs
<1>2. Every(t) \in Seq(TokensType(t))
  BY <1>1, TokensTyped, Zenon DEF Every
<1> QED
  BY <1>2

LEMMA FollowFirst ==
  ASSUME NEW t, IsText(t), NEW n \in Nat, NEW x \in TokensType(t),
         NEW r \in Seq(TokensType(t)), NEW ts, ts = <<x>> \o r, Follow(t, n, ts)
  PROVE  /\ n + 1 \in 1..Len(Every(t)) /\ Every(t)[n + 1] = x
         /\ Follow(t, n + 1, r)
<1>1. Len(ts) = Len(r) + 1 /\ ts[1] = x /\ \A k \in 1..Len(r) : ts[k + 1] = r[k]
  BY ConsIs
<1>2. Len(r) \in Nat
  OBVIOUS
<1>3. /\ Len(Every(t)) = n + (Len(r) + 1)
      /\ \A k \in 1..(Len(r) + 1) : Every(t)[n + k] = ts[k]
  BY <1>1, Zenon DEF Follow
<1> DEFINE v == Every(t)
           m == Len(v)
           len == Len(r)
<1> HIDE DEF v, m, len
<1>4. m = n + (len + 1) /\ len \in Nat /\ \A k \in 1..(len + 1) : v[n + k] = ts[k]
  BY <1>2, <1>3 DEF v, m, len
<1>5. n + 1 \in 1..m /\ m = (n + 1) + len /\ 1 \in 1..(len + 1)
  BY <1>4
<1>6. v[n + 1] = x
  BY <1>1, <1>4, <1>5
<1>7. \A k \in 1..len : v[(n + 1) + k] = r[k]
  <2> TAKE k \in 1..len
  <2>1. k + 1 \in 1..(len + 1) /\ n + (k + 1) = (n + 1) + k
    BY <1>4
  <2>2. v[n + (k + 1)] = ts[k + 1]
    BY <1>4, <2>1, Zenon
  <2>3. ts[k + 1] = r[k]
    BY <1>1, Zenon DEF len
  <2> QED
    BY <2>1, <2>2, <2>3
<1> QED
  BY <1>5, <1>6, <1>7, Zenon DEF Follow, v, m, len

\* Another token is made that should be.
LEMMA ScannedMore ==
  ASSUME NEW w, NEW S, NEW toks \in Seq(S), NEW tok, Scanned(w, toks),
         tok = w[Len(toks) + 1]
  PROVE  Scanned(w, Append(toks, tok)) /\ Len(Append(toks, tok)) = Len(toks) + 1
<1>1. /\ Len(toks) \in Nat /\ Len(Append(toks, tok)) = Len(toks) + 1
      /\ \A k \in 1..Len(toks) : Append(toks, tok)[k] = toks[k]
      /\ Append(toks, tok)[Len(toks) + 1] = tok
  OBVIOUS
<1>2. \A k \in 1..(Len(toks) + 1) : k \in 1..Len(toks) \/ k = Len(toks) + 1
  BY <1>1
<1> QED
  BY <1>1, <1>2, Zenon DEF Scanned

LEMMA WantedIs ==
  ASSUME IsText(text), NEW k, k \in 1..Len(Every(text))
  PROVE  Wanted[k] = AsExpected(Every(text)[k])
BY DEF Wanted

\* A lexeme that is a token of its own.
LEMMA TokenDue ==
  ASSUME IsText(text), NEW i, i \in 1..Len(text), text[i] \notin Blanks,
         NEW S, NEW toks \in Seq(S), Due(text, Wanted, toks, i),
         NEW l, l = C!Lexeme(text, i), l.kind \notin {"COMMENT", "STRING"},
         NEW tok, tok = AsExpected(AsToken(text, l))
  PROVE  Due(text, Wanted, Append(toks, tok), l.last + 1)
<1> SUFFICES ASSUME Fit(text)
             PROVE  /\ Scanned(Wanted, Append(toks, tok))
                    /\ Follow(text, Len(Append(toks, tok)), AsTokensFrom(text)[l.last + 1])
  BY Zenon DEF Due
<1> DEFINE r == AsTokensFrom(text)[l.last + 1]
           ts == AsTokensFrom(text)[i]
           x == AsToken(text, l)
<1>1. Scanned(Wanted, toks) /\ Follow(text, Len(toks), ts)
  BY Zenon DEF Due
<1>2. l.last + 1 \in (i + 1)..(Len(text) + 1) /\ ts = TokenThen(text, l, r)
  BY ClassesAre, LexemeTaken, Zenon
<1>3. ts = <<x>> \o r
  BY <1>2, Zenon DEF TokenThen
<1>4. l.last + 1 \in 1..(Len(text) + 1)
  BY <1>2, LengthIs
<1>5. r \in Seq(TokensType(text))
  BY <1>4, TokensTyped, Zenon
<1>6. x \in TokensType(text)
  BY TokenType, Zenon
<1>7. Len(toks) \in Nat
  OBVIOUS
<1> HIDE DEF r, ts, x
<1>8. /\ Len(toks) + 1 \in 1..Len(Every(text)) /\ Every(text)[Len(toks) + 1] = x
      /\ Follow(text, Len(toks) + 1, r)
  BY <1>1, <1>3, <1>5, <1>6, <1>7, FollowFirst, Zenon
<1>9. tok = Wanted[Len(toks) + 1]
  BY <1>8, WantedIs, Zenon DEF x
<1>10. Scanned(Wanted, Append(toks, tok)) /\ Len(Append(toks, tok)) = Len(toks) + 1
  BY <1>1, <1>9, ScannedMore
<1> QED
  BY <1>8, <1>10, Zenon DEF r

\* What is no token leaves the same tokens due.
LEMMA BlankDue ==
  ASSUME NEW t, IsText(t), NEW i, i \in 1..Len(t), t[i] \in Blanks, NEW w, NEW toks,
         Due(t, w, toks, i)
  PROVE  Due(t, w, toks, i + 1)
BY ClassesAre, BlankPassed, Zenon DEF Due

LEMMA CommentDue ==
  ASSUME NEW t, IsText(t), NEW i, i \in 1..Len(t), t[i] \notin Blanks, NEW w, NEW toks,
         Due(t, w, toks, i), NEW l, l = C!Lexeme(t, i), l.kind = "COMMENT"
  PROVE  Due(t, w, toks, l.last + 1)
<1>1. AsTokensFrom(t)[i] = TokenThen(t, l, AsTokensFrom(t)[l.last + 1])
  BY ClassesAre, LexemeTaken, Zenon
<1>2. AsTokensFrom(t)[i] = AsTokensFrom(t)[l.last + 1]
  BY <1>1, Zenon DEF TokenThen
<1> QED
  BY <1>2, Zenon DEF Due

-----------------------------------------------------------------------------
\* Strings that are joined.
LEMMA NothingBefore ==
  ASSUME NEW S, NEW s \in Seq(S)
  PROVE  <<>> \o s = s
OBVIOUS

LEMMA Wider ==
  ASSUME NEW A, NEW B, A \subseteq B, NEW s, s \in Seq(A)
  PROVE  s \in Seq(B)
<1>1. Len(s) \in Nat /\ s = [k \in 1..Len(s) |-> s[k]] /\ \A k \in 1..Len(s) : s[k] \in A
  OBVIOUS
<1>2. \A k \in 1..Len(s) : s[k] \in B
  BY <1>1
<1> QED
  BY <1>1, <1>2

LEMMA JoinedTwice ==
  ASSUME NEW A, NEW a, a \in Seq(A), NEW B, NEW b, b \in Seq(B), NEW D, NEW d, d \in Seq(D)
  PROVE  (a \o b) \o d = a \o (b \o d)
<1> DEFINE S == A \cup B \cup D
<1>1. A \subseteq S /\ B \subseteq S /\ D \subseteq S
  OBVIOUS
<1> HIDE DEF S
<1>2. a \in Seq(S) /\ b \in Seq(S) /\ d \in Seq(S)
  BY <1>1, Wider
<1>3. /\ a \o b \in Seq(S) /\ Len(a \o b) = Len(a) + Len(b)
      /\ b \o d \in Seq(S) /\ Len(b \o d) = Len(b) + Len(d)
      /\ Len(a) \in Nat /\ Len(b) \in Nat /\ Len(d) \in Nat
      /\ \A k \in 1..(Len(a) + Len(b)) : (a \o b)[k] = IF k <= Len(a) THEN a[k] ELSE b[k - Len(a)]
      /\ \A k \in 1..(Len(b) + Len(d)) : (b \o d)[k] = IF k <= Len(b) THEN b[k] ELSE d[k - Len(b)]
  BY <1>2
<1>4. /\ (a \o b) \o d \in Seq(S) /\ a \o (b \o d) \in Seq(S)
      /\ Len((a \o b) \o d) = Len(a) + Len(b) + Len(d)
      /\ Len(a \o (b \o d)) = Len(a) + Len(b) + Len(d)
  BY <1>2, <1>3
<1>5. ASSUME NEW k \in 1..(Len(a) + Len(b) + Len(d))
      PROVE  ((a \o b) \o d)[k] = (a \o (b \o d))[k]
  <2>1. ((a \o b) \o d)[k] = IF k <= Len(a) + Len(b) THEN (a \o b)[k] ELSE d[k - (Len(a) + Len(b))]
    BY <1>2, <1>3
  <2>2. (a \o (b \o d))[k] = IF k <= Len(a) THEN a[k] ELSE (b \o d)[k - Len(a)]
    BY <1>2, <1>3
  <2>3. CASE k <= Len(a)
    BY <1>3, <2>1, <2>2, <2>3
  <2>4. CASE k > Len(a) /\ k <= Len(a) + Len(b)
    BY <1>3, <2>1, <2>2, <2>4
  <2>5. CASE k > Len(a) + Len(b)
    BY <1>3, <2>1, <2>2, <2>5
  <2> QED
    BY <1>3, <2>3, <2>4, <2>5
<1> QED
  BY <1>4, <1>5

LEMMA MoreBehind ==
  ASSUME NEW A, NEW a, a \in Seq(A), NEW B, NEW b, b \in Seq(B), NEW x
  PROVE  a \o Append(b, x) = Append(a \o b, x)
<1> DEFINE S == A \cup B \cup {x}
<1>1. A \subseteq S /\ B \subseteq S /\ x \in S
  OBVIOUS
<1> HIDE DEF S
<1>2. a \in Seq(S) /\ b \in Seq(S)
  BY <1>1, Wider
<1> QED
  BY <1>1, <1>2

\* The tokens ts that begin with the string l, when r are those behind it.
OpensWith(t, l, ts, r) ==
  /\ C!Opens(r, "STRING") =>
       /\ Len(ts) = Len(r) /\ ts[1] = AsJoined(AsToken(t, l), r[1])
       /\ r[1] \in TokensType(t)
       /\ \A k \in 2..Len(ts) : ts[k] = r[k]
  /\ ~C!Opens(r, "STRING") => ts = <<AsToken(t, l)>> \o r /\ ts[1] = AsToken(t, l)

\* What begins with a string begins with all that it is joined of.
LEMMA StringOpens ==
  ASSUME NEW t, IsText(t), NEW q, q \in 1..Len(t), t[q] = Quote,
         NEW l, l = C!Lexeme(t, q), l.kind = "STRING",
         NEW ts, ts = AsTokensFrom(t)[q], NEW r, r = AsTokensFrom(t)[l.last + 1]
  PROVE  /\ C!Opens(ts, "STRING") /\ ts \in Seq(TokensType(t)) /\ r \in Seq(TokensType(t))
         /\ OpensWith(t, l, ts, r)
<1> DEFINE x == AsToken(t, l)
<1>1. t[q] \notin C!Blank
  BY QuoteApart, ClassesAre, Zenon
<1>2. l.last + 1 \in (q + 1)..(Len(t) + 1) /\ ts = TokenThen(t, l, r)
  BY <1>1, LexemeTaken, Zenon
<1>3. l.last + 1 \in 1..(Len(t) + 1) /\ q \in 1..(Len(t) + 1)
  BY <1>2, LengthIs
<1>4. ts \in Seq(TokensType(t)) /\ r \in Seq(TokensType(t))
  BY <1>3, TokensTyped, Zenon
<1>5. x \in TokensType(t) /\ x.kind = "STRING"
  BY TokenType, Zenon
<1> HIDE DEF x
<1>6. CASE C!Opens(r, "STRING")
  <2>1. r # <<>>
    BY <1>6, Zenon DEF C!Opens
  <2>2. /\ r[1] \in TokensType(t) /\ Tail(r) \in Seq(TokensType(t)) /\ Len(r) \in Nat \ {0}
        /\ Len(Tail(r)) = Len(r) - 1 /\ \A k \in 1..(Len(r) - 1) : Tail(r)[k] = r[k + 1]
    BY <1>4, <2>1
  <2> DEFINE y == AsJoined(x, r[1])
             u == Tail(r)
  <2>3. y \in TokensType(t) /\ y.kind = "STRING"
    <3>1. \A a, b \in TokensType(t) : /\ AsJoined(a, b) \in TokensType(t)
                                      /\ AsJoined(a, b).kind = "STRING"
      BY JoinedType
    <3> QED
      BY <1>5, <2>2, <3>1, Zenon
  <2>4. ts = <<y>> \o u
    BY <1>2, <1>6, Zenon DEF TokenThen, x
  <2>9. u \in Seq(TokensType(t))
    BY <2>2
  <2> HIDE DEF y, u
  <2>5. /\ <<y>> \o u # <<>> /\ Len(<<y>> \o u) = Len(u) + 1 /\ (<<y>> \o u)[1] = y
        /\ \A k \in 1..Len(u) : (<<y>> \o u)[k + 1] = u[k]
    BY <2>3, <2>9, ConsIs
  <2>6. /\ ts # <<>> /\ Len(ts) = Len(u) + 1 /\ ts[1] = y
        /\ \A k \in 1..Len(u) : ts[k + 1] = u[k]
    BY <2>4, <2>5
  <2>7. Len(ts) = Len(r) /\ \A k \in 2..Len(ts) : ts[k] = r[k]
    <3>1. /\ Len(u) = Len(r) - 1 /\ Len(r) \in Nat \ {0}
          /\ \A k \in 1..(Len(r) - 1) : u[k] = r[k + 1]
      BY <2>2 DEF u
    <3>2. Len(ts) = Len(r)
      BY <2>6, <3>1
    <3>3. ASSUME NEW k \in 2..Len(ts)
          PROVE  ts[k] = r[k]
      <4>1. k - 1 \in 1..Len(u) /\ k - 1 \in 1..(Len(r) - 1) /\ (k - 1) + 1 = k
        BY <3>1, <3>2
      <4>2. ts[(k - 1) + 1] = u[k - 1] /\ u[k - 1] = r[(k - 1) + 1]
        BY <2>6, <3>1, <4>1, Zenon
      <4> QED
        BY <4>1, <4>2
    <3> QED
      BY <3>2, <3>3, Zenon
  <2>8. C!Opens(ts, "STRING")
    BY <2>3, <2>6, Zenon DEF C!Opens
  <2> QED
    BY <1>4, <1>6, <2>2, <2>6, <2>7, <2>8, Zenon DEF y, x, OpensWith
<1>7. CASE ~C!Opens(r, "STRING")
  <2>1. "STRING" # "COMMENT"
    OBVIOUS
  <2>2. ts = <<x>> \o r
    BY <1>2, <1>7, <2>1, Zenon DEF TokenThen, x
  <2>3. <<x>> \o r # <<>> /\ (<<x>> \o r)[1] = x
    BY <1>4, <1>5, ConsIs, Zenon
  <2>4. ts # <<>> /\ ts[1] = x
    BY <2>2, <2>3
  <2>5. C!Opens(ts, "STRING")
    BY <1>5, <2>4, Zenon DEF C!Opens
  <2> QED
    BY <1>4, <1>7, <2>2, <2>4, <2>5, Zenon DEF x, OpensWith
<1> QED
  BY <1>6, <1>7, Zenon

-----------------------------------------------------------------------------
\* The string that ends in the lexeme l is followed by blanks up to i: its bytes are all
\* of the next token, unless it is continued there.
Ended(t, w, toks, l, i, bytes) ==
  LET ts == AsTokensFrom(t)[i]
  IN  /\ Scanned(w, toks)
      /\ C!Opens(ts, "STRING") => Pending(t, w, toks, i, bytes)
      /\ ~C!Opens(ts, "STRING") => /\ StringTo(Every(t)[Len(toks) + 1], l.last, bytes)
                                   /\ Follow(t, Len(toks) + 1, ts)

\* Where a string opens, it is the token that is due.
LEMMA PendingFirst ==
  ASSUME NEW t, IsText(t), NEW q, q \in 1..Len(t), t[q] = Quote,
         C!Lexeme(t, q).kind = "STRING", NEW w, NEW S, NEW toks \in Seq(S),
         Scanned(w, toks), Follow(t, Len(toks), AsTokensFrom(t)[q])
  PROVE  Pending(t, w, toks, q, <<>>)
<1> DEFINE ts == AsTokensFrom(t)[q]
<1>1. C!Opens(ts, "STRING") /\ ts \in Seq(TokensType(t))
  BY StringOpens, Zenon
<1>2. ts # <<>> /\ ts[1].kind = "STRING"
  BY <1>1, Zenon DEF C!Opens
<1>3. /\ Len(Every(t)) = Len(toks) + Len(ts)
      /\ \A k \in 1..Len(ts) : Every(t)[Len(toks) + k] = ts[k]
  BY Zenon DEF Follow
<1> HIDE DEF ts
<1>4. Len(ts) \in Nat \ {0} /\ ts[1] \in TokensType(t) /\ 1 \in 1..Len(ts)
  BY <1>1, <1>2
<1>5. ts[1].means \in Seq(Meant(t))
  BY <1>4 DEF TokensType
<1>6. <<>> \o ts[1].means = ts[1].means
  BY <1>5, NothingBefore, Zenon
<1>7. Every(t)[Len(toks) + 1] = ts[1]
  BY <1>3, <1>4, Zenon
<1>8. StringTo(Every(t)[Len(toks) + 1], ts[1].last, <<>> \o ts[1].means)
  BY <1>2, <1>6, <1>7, Zenon DEF StringTo
<1>9. \A k \in 2..Len(ts) : k \in 1..Len(ts)
  OBVIOUS
<1>10. \A k \in 2..Len(ts) : Every(t)[Len(toks) + k] = ts[k]
  BY <1>3, <1>9, Zenon
<1> QED
  BY <1>1, <1>3, <1>8, <1>10, Zenon DEF Pending, ts

\* Where it closes, what was read is all of it, unless it is continued.
LEMMA StringEnded ==
  ASSUME NEW t, IsText(t), NEW q, q \in 1..Len(t), t[q] = Quote,
         NEW l, l = C!Lexeme(t, q), l.kind = "STRING",
         NEW w, NEW S, NEW toks \in Seq(S), NEW A, NEW before, before \in Seq(A),
         Pending(t, w, toks, q, before),
         NEW bytes, bytes = before \o AsRead(t, q)[l.last - 1]
  PROVE  Ended(t, w, toks, l, l.last + 1, bytes)
<1> DEFINE ts == AsTokensFrom(t)[q]
           r == AsTokensFrom(t)[l.last + 1]
           x == AsToken(t, l)
           v == Every(t)
           n == Len(toks)
           read == AsRead(t, q)[l.last - 1]
<1>1. /\ Scanned(w, toks)
      /\ Len(v) = n + Len(ts)
      /\ StringTo(v[n + 1], ts[1].last, before \o ts[1].means)
      /\ \A k \in 2..Len(ts) : v[n + k] = ts[k]
  BY Zenon DEF Pending
<1>0. ts = AsTokensFrom(t)[q] /\ r = AsTokensFrom(t)[l.last + 1] /\ x = AsToken(t, l)
  OBVIOUS
<1> HIDE DEF ts, r, x
<1>2. ts \in Seq(TokensType(t)) /\ r \in Seq(TokensType(t)) /\ OpensWith(t, l, ts, r)
  BY <1>0, StringOpens, Zenon
<1>8. /\ C!Opens(r, "STRING") =>
           /\ Len(ts) = Len(r) /\ ts[1] = AsJoined(x, r[1]) /\ r[1] \in TokensType(t)
           /\ \A k \in 2..Len(ts) : ts[k] = r[k]
      /\ ~C!Opens(r, "STRING") => ts = <<x>> \o r /\ ts[1] = x
  BY <1>0, <1>2, Zenon DEF OpensWith
<1>3. x \in TokensType(t) /\ x.means = read /\ x.last = l.last
  <2>1. l.kind \in {"STRING", "CHAR"}
    OBVIOUS
  <2> QED
    BY <1>0, <2>1, TokenType
<1>4. read \in Seq(Meant(t))
  BY <1>3 DEF TokensType
<1>5. n \in Nat
  OBVIOUS
<1> HIDE DEF v, n, read
<1>6. ASSUME C!Opens(r, "STRING")
      PROVE  Pending(t, w, toks, l.last + 1, bytes)
  <2>1. r[1].means \in Seq(Meant(t))
    BY <1>2, <1>8, <1>6 DEF TokensType
  <2>2. ts[1].last = r[1].last /\ ts[1].means = read \o r[1].means
    <3>1. /\ AsJoined(x, r[1]).last = r[1].last
          /\ AsJoined(x, r[1]).means = x.means \o r[1].means
      <4>1. \A a, b \in TokensType(t) : /\ AsJoined(a, b).last = b.last
                                        /\ AsJoined(a, b).means = a.means \o b.means
        BY JoinedType
      <4> QED
        BY <1>2, <1>8, <1>3, <1>6, <4>1, Zenon
    <3> QED
      BY <1>2, <1>8, <1>3, <1>6, <3>1, Zenon
  <2>3. before \o (read \o r[1].means) = bytes \o r[1].means
    <3> DEFINE rest == r[1].means
    <3>1. rest \in Seq(Meant(t))
      BY <2>1
    <3> HIDE DEF rest
    <3>2. (before \o read) \o rest = before \o (read \o rest)
      <4>1. \A d \in Seq(Meant(t)) : (before \o read) \o d = before \o (read \o d)
        BY <1>4, JoinedTwice
      <4> QED
        BY <3>1, <4>1, Zenon
    <3> QED
      BY <3>2, Zenon DEF read, rest
  <2>4. StringTo(v[n + 1], r[1].last, bytes \o r[1].means)
    BY <1>1, <2>2, <2>3, Zenon
  <2>5. Len(v) = n + Len(r) /\ \A k \in 2..Len(r) : v[n + k] = r[k]
    BY <1>1, <1>2, <1>8, <1>6, Zenon
  <2> QED
    BY <1>1, <1>6, <2>4, <2>5, Zenon DEF Pending, r, v, n
<1>7. ASSUME ~C!Opens(r, "STRING")
      PROVE  StringTo(v[n + 1], l.last, bytes) /\ Follow(t, n + 1, r)
  <2>1. /\ ts = <<x>> \o r /\ ts[1] = x
    BY <1>2, <1>8, <1>7
  <2>2. StringTo(v[n + 1], l.last, bytes)
    BY <1>1, <1>3, <2>1, Zenon DEF read
  <2>3. Len(ts) = Len(r) + 1 /\ \A k \in 1..Len(r) : ts[k + 1] = r[k]
    BY <1>2, <1>8, <1>3, <2>1, ConsIs
  <2> DEFINE len == Len(r)
             m == Len(v)
  <2>4. len \in Nat
    BY <1>2
  <2> HIDE DEF len, m
  <2>5. m = n + (len + 1) /\ \A k \in 2..(len + 1) : v[n + k] = ts[k]
    BY <1>1, <2>3, Zenon DEF len, m
  <2>6. m = (n + 1) + len
    BY <1>5, <2>4, <2>5
  <2>7. ASSUME NEW k \in 1..len
        PROVE  v[(n + 1) + k] = r[k]
    <3>1. k + 1 \in 2..(len + 1) /\ n + (k + 1) = (n + 1) + k
      BY <1>5, <2>4
    <3>2. v[n + (k + 1)] = ts[k + 1] /\ ts[k + 1] = r[k]
      BY <2>3, <2>5, <3>1, Zenon DEF len
    <3> QED
      BY <3>1, <3>2
  <2> QED
    BY <2>2, <2>6, <2>7, Zenon DEF Follow, v, len, m
<1> QED
  BY <1>1, <1>6, <1>7, Zenon DEF Ended, r, v, n

LEMMA StringContinued ==
  ASSUME NEW t, IsText(t), NEW i, i \in 1..Len(t), t[i] = Quote,
         C!Lexeme(t, i).kind = "STRING", NEW w, NEW toks, NEW l, NEW bytes,
         Ended(t, w, toks, l, i, bytes)
  PROVE  Pending(t, w, toks, i, bytes)
<1>1. C!Opens(AsTokensFrom(t)[i], "STRING")
  BY StringOpens, Zenon
<1> QED
  BY <1>1, Zenon DEF Ended

\* The token of a string that is not continued.
LEMMA StringMade ==
  ASSUME IsText(text), NEW i, i \in 1..(Len(text) + 1), NEW S, NEW toks \in Seq(S), NEW l,
         NEW bytes, Ended(text, Wanted, toks, l, i, bytes),
         ~C!Opens(AsTokensFrom(text)[i], "STRING"), i = l.last + 1 + Span(l.last + 1, Blanks),
         NEW tok, tok = [kind |-> "STRING", str |-> UpToNul(bytes), val |-> 0,
                         line |-> Line(i), column |-> Column(i)]
  PROVE  Due(text, Wanted, Append(toks, tok), i)
<1> DEFINE c == Every(text)[Len(toks) + 1]
           r == AsTokensFrom(text)[i]
<1>1. Scanned(Wanted, toks) /\ StringTo(c, l.last, bytes) /\ Follow(text, Len(toks) + 1, r)
  BY Zenon DEF Ended
<1>2. r \in Seq(TokensType(text)) /\ Len(Every(text)) = (Len(toks) + 1) + Len(r)
  BY <1>1, TokensTyped, Zenon DEF Follow
<1>3. Len(toks) + 1 \in 1..Len(Every(text))
  <2> HIDE DEF r
  <2>1. Len(r) \in Nat /\ Len(toks) \in Nat
    BY <1>2
  <2> DEFINE m == Len(Every(text))
  <2>2. m = (Len(toks) + 1) + Len(r)
    BY <1>2
  <2> HIDE DEF m
  <2>3. Len(toks) + 1 \in 1..m
    BY <2>1, <2>2
  <2> QED
    BY <2>3 DEF m
<1>4. Wanted[Len(toks) + 1] = AsExpected(c)
  BY <1>3, WantedIs, Zenon
<1> HIDE DEF c, r
<1>5. c.kind = "STRING" /\ c.last = l.last /\ c.means = bytes /\ "STRING" # "NUM"
  BY <1>1 DEF StringTo
<1>6. AsExpected(c) = tok
  BY <1>5, Zenon DEF AsExpected, PlaceOf
<1>7. Scanned(Wanted, Append(toks, tok)) /\ Len(Append(toks, tok)) = Len(toks) + 1
  BY <1>1, <1>4, <1>6, ScannedMore
<1> QED
  BY <1>1, <1>7, Zenon DEF Due, r

-----------------------------------------------------------------------------
\* What the builder holds is what was read of the string.
LEMMA BytesAppended ==
  ASSUME NEW b, BuilderOK(b), NEW ch
  PROVE  Bytes(AppendChar(b, ch)) = Append(Bytes(b), ch)
<1>1. /\ AppendChar(b, ch).len = b.len + 1
      /\ AppendChar(b, ch).data[b.len] = ch
      /\ \A k \in 0..(b.len - 1) : AppendChar(b, ch).data[k] = b.data[k]
  BY AppendIs, Zenon
<1>2. Bytes(b) \in Seq(ToSet(Bytes(b))) /\ Len(Bytes(b)) = b.len /\ b.len \in Nat
  BY BytesAre DEF BuilderOK
<1>3. Bytes(AppendChar(b, ch)) = [k \in 1..(b.len + 1) |-> AppendChar(b, ch).data[k - 1]]
  BY <1>1, Zenon DEF Bytes
<1>4. Bytes(b) = [k \in 1..b.len |-> b.data[k - 1]]
  BY Zenon DEF Bytes
<1> DEFINE n == b.len
           d == b.data
           e == AppendChar(b, ch).data
           s == Bytes(b)
<1>5. /\ e[n] = ch /\ \A k \in 0..(n - 1) : e[k] = d[k]
  BY <1>1
<1> HIDE DEF n, d, e, s
<1>6. n \in Nat /\ s \in Seq(ToSet(s)) /\ Len(s) = n /\ s = [k \in 1..n |-> d[k - 1]]
  BY <1>2, <1>4 DEF n, s, d
<1>7. \A k \in 1..(n + 1) : e[k - 1] = IF k <= n THEN s[k] ELSE ch
  <2> TAKE k \in 1..(n + 1)
  <2>1. CASE k <= n
    <3>1. k - 1 \in 0..(n - 1) /\ k \in 1..n
      BY <1>6, <2>1
    <3> QED
      BY <1>5, <1>6, <2>1, <3>1
  <2>2. CASE ~(k <= n)
    <3>1. k - 1 = n
      BY <1>6, <2>2
    <3> QED
      BY <1>5, <2>2, <3>1
  <2> QED
    BY <2>1, <2>2
<1>8. Append(s, ch) = [k \in 1..(n + 1) |-> e[k - 1]]
  <2>1. /\ Append(s, ch) = [k \in 1..(n + 1) |-> Append(s, ch)[k]]
        /\ \A k \in 1..(n + 1) : Append(s, ch)[k] = IF k <= n THEN s[k] ELSE ch
    <3> DEFINE A == ToSet(s) \cup {ch}
    <3>1. ToSet(s) \subseteq A /\ ch \in A
      OBVIOUS
    <3> HIDE DEF A
    <3>2. s \in Seq(A)
      BY <1>6, <3>1, Wider
    <3> QED
      BY <1>6, <3>1, <3>2
  <2> QED
    BY <1>7, <2>1
<1> QED
  BY <1>3, <1>8, Zenon DEF n, e, s

LEMMA NoBytes == Bytes(NewBuilder) = <<>>
<1>1. NewBuilder.len = 0
  BY DEF NewBuilder
<1> QED
  BY <1>1 DEF Bytes

LEMMA InsideFirst ==
  ASSUME NEW t, IsText(t), NEW q, q \in 1..Len(t), t[q] = Quote
  PROVE  Inside(t, q, q + 1)
<1>1. t[q] # "\\"
  BY QuoteApart, Zenon
<1>2. ~C!Shielded(t, q, q + 1)
  BY <1>1, ShieldedFirst, Zenon
<1>3. q \in 1..((q + 1) - 1) /\ \A m \in (q + 1)..((q + 1) - 1) : FALSE
  BY LengthIs
<1> QED
  BY <1>2, <1>3, Zenon DEF Inside

LEMMA InsideChar ==
  ASSUME NEW t, IsText(t), NEW q, NEW k, k \in 1..Len(t), Inside(t, q, k), t[k] # Quote,
         t[k] # "\\"
  PROVE  /\ Inside(t, q, k + 1)
         /\ AsRead(t, q)[k] = Append(AsRead(t, q)[k - 1], t[k])
<1>1. /\ q \in 1..(k - 1) /\ t[q] = Quote /\ ~C!Shielded(t, q, k)
      /\ \A m \in (q + 1)..(k - 1) : t[m] = Quote => C!Shielded(t, q, m)
  BY Zenon DEF Inside
<1>2. q \in 1..Len(t) /\ k \in (q + 1)..Len(t) /\ q \in 1..((k + 1) - 1)
  BY <1>1, LengthIs
<1>3. t[q] # "\\"
  BY <1>1, QuoteApart, Zenon
<1>4. ~C!Shielded(t, q, k + 1)
  BY <1>2, <1>3, ShieldedNext, Zenon
<1>5. \A m \in (q + 1)..((k + 1) - 1) : m \in (q + 1)..(k - 1) \/ m = k
  BY <1>2
<1>6. Inside(t, q, k + 1)
  BY <1>1, <1>2, <1>4, <1>5, Zenon DEF Inside
<1>7. AsRead(t, q)[k] = ReadNext(t, q, k, AsRead(t, q)[k - 1])
  BY <1>2, ReadFromIs, Zenon
<1> QED
  BY <1>1, <1>6, <1>7, Zenon DEF ReadNext

LEMMA InsideEscape ==
  ASSUME NEW t, IsText(t), NEW q, NEW k, k \in 1..Len(t), k + 1 <= Len(t), Inside(t, q, k),
         t[k] = "\\"
  PROVE  /\ Inside(t, q, k + 2)
         /\ AsRead(t, q)[k + 1] = Append(AsRead(t, q)[k - 1], Escaped(t[k + 1]))
<1>1. /\ q \in 1..(k - 1) /\ t[q] = Quote /\ ~C!Shielded(t, q, k)
      /\ \A m \in (q + 1)..(k - 1) : t[m] = Quote => C!Shielded(t, q, m)
  BY Zenon DEF Inside
<1>2. /\ q \in 1..Len(t) /\ k \in (q + 1)..Len(t) /\ k + 1 \in (q + 1)..Len(t)
      /\ q \in 1..((k + 2) - 1) /\ (k + 1) + 1 = k + 2 /\ (k + 1) - 1 = k
  BY <1>1, LengthIs
<1>3. t[q] # "\\" /\ t[k] # Quote
  BY <1>1, QuoteApart, Zenon
<1>4. C!Shielded(t, q, k + 1)
  BY <1>1, <1>2, <1>3, ShieldedNext, Zenon
<1>5. ~C!Shielded(t, q, k + 2)
  <2>1. ~C!Shielded(t, q, (k + 1) + 1)
    BY <1>2, <1>3, <1>4, ShieldedNext, Zenon
  <2> QED
    BY <1>2, <2>1
<1>6. \A m \in (q + 1)..((k + 2) - 1) : m \in (q + 1)..(k - 1) \/ m = k \/ m = k + 1
  BY <1>2
<1>7. Inside(t, q, k + 2)
  BY <1>1, <1>2, <1>3, <1>4, <1>5, <1>6, Zenon DEF Inside
<1>8. AsRead(t, q)[k] = ReadNext(t, q, k, AsRead(t, q)[k - 1])
  BY <1>2, ReadFromIs, Zenon
<1>9. AsRead(t, q)[k] = AsRead(t, q)[k - 1]
  BY <1>1, <1>8, Zenon DEF ReadNext
<1>10. AsRead(t, q)[k + 1] = ReadNext(t, q, k + 1, AsRead(t, q)[(k + 1) - 1])
  <2>1. \A m \in (q + 1)..Len(t) :
          AsRead(t, q)[m] = ReadNext(t, q, m, AsRead(t, q)[m - 1])
    BY <1>2, ReadFromIs, Zenon
  <2> QED
    BY <1>2, <2>1, Zenon
<1>11. AsRead(t, q)[k + 1] = ReadNext(t, q, k + 1, AsRead(t, q)[k])
  BY <1>2, <1>10
<1> QED
  BY <1>4, <1>7, <1>9, <1>11, Zenon DEF ReadNext

\* The bytes are those of the strings before, and of the one that is open at q.
InText(t, w, toks, q, i, bytes) ==
  \E before : /\ before \in Seq(ToSet(before))
              /\ Fit(t) => /\ Pending(t, w, toks, q, before)
                           /\ bytes = before \o AsRead(t, q)[i - 1]

LEMMA InTextMore ==
  ASSUME NEW t, IsText(t), NEW q, q \in 1..Len(t), NEW i, i - 1 \in q..Len(t), NEW j,
         NEW x, AsRead(t, q)[j - 1] = Append(AsRead(t, q)[i - 1], x),
         NEW w, NEW toks, NEW bytes, InText(t, w, toks, q, i, bytes)
  PROVE  InText(t, w, toks, q, j, Append(bytes, x))
<1>1. PICK before : /\ before \in Seq(ToSet(before))
                    /\ Fit(t) => /\ Pending(t, w, toks, q, before)
                                 /\ bytes = before \o AsRead(t, q)[i - 1]
  BY Zenon DEF InText
<1> DEFINE r == AsRead(t, q)[i - 1]
<1>2. r \in Seq(Meant(t))
  BY ReadType, Zenon
<1>3. before \o Append(r, x) = Append(before \o r, x)
  <2> HIDE DEF r
  <2>1. \A b \in Seq(Meant(t)) : before \o Append(b, x) = Append(before \o b, x)
    BY <1>1, MoreBehind
  <2> QED
    BY <1>2, <2>1, Zenon
<1>4. Fit(t) => Append(bytes, x) = before \o AsRead(t, q)[j - 1]
  BY <1>1, <1>3, Zenon
<1> QED
  BY <1>1, <1>4, Zenon DEF InText

-----------------------------------------------------------------------------
\* What the scanner has read, and where in the lexemes of C it is, in every loop.
LineOpen(t, q, i) ==
  /\ q \in 1..(i - 1) /\ q < Len(t) /\ t[q] = "/" /\ t[q + 1] = "/"
  /\ \A k \in q..(i - 1) : t[k] # "\n"

CommentOpen(t, q, i) ==
  /\ q \in 1..(i - 2) /\ q < Len(t) /\ t[q] = "/" /\ t[q + 1] = "*"
  /\ \A k \in (q + 2)..(i - 1) : ~(t[k] = "*" /\ t[k + 1] = "/")

\* Between the string l and i are blanks only.
Follows(t, l, i) ==
  /\ l \in ToSet(C!LexemesFrom(t)[1]) /\ l.kind = "STRING" /\ l.last \in 1..(i - 1)
  /\ \A k \in (l.last + 1)..(i - 1) : t[k] \in Blanks
  /\ C!LexemesFrom(t)[l.last + 1] = C!LexemesFrom(t)[i]
  /\ AsTokensFrom(t)[l.last + 1] = AsTokensFrom(t)[i]
  /\ C!LexemesFrom(t)[i] = <<>> =>
       C!LexemesFrom(t)[1] # <<>> /\ Last(C!LexemesFrom(t)[1]) = l

AtNul(t, i) == i <= Len(t) => t[i] = Nul

ReadsScan(t, w, toks, i) == Bound(t, i) /\ Due(t, w, toks, i)

ReadsLine(t, w, toks, i) == \E q : ReadsScan(t, w, toks, q) /\ LineOpen(t, q, i)

ReadsComment(t, w, toks, i) == \E q : ReadsScan(t, w, toks, q) /\ CommentOpen(t, q, i)

ReadsString(t, w, toks, i, bytes) ==
  \/ AtNul(t, i) /\ Nul \in ToSet(t)
  \/ \E q : Bound(t, q) /\ Inside(t, q, i) /\ InText(t, w, toks, q, i, bytes)

ReadsClosed(t, w, toks, i, bytes) ==
  /\ Bound(t, i)
  /\ \E l : Follows(t, l, i) /\ (Fit(t) => Ended(t, w, toks, l, i, bytes))

Refused(t) ==
  Clean(t, 1) /\ Nul \notin ToSet(t) =>
    \/ C!LexemesFrom(t)[1] # <<>> /\ Last(C!LexemesFrom(t)[1]).kind = "STRING"
    \/ \E l \in ToSet(C!LexemesFrom(t)[1]) : LongCharacter(t, l)

\* The reading of C is followed as long as it meets no error, and up to the first one if
\* that is nothing ccatd lets through.
Agreed(t) == Clean(t, 1) \/ ~LenientAt(t, C!FirstBad(t))

ScanInv ==
  Agreed(text) =>
    /\ phase \in {"scan", "done"} => ReadsScan(text, Wanted, tokens, p)
    /\ phase = "done" => AtNul(text, p)
    /\ phase = "line" => ReadsLine(text, Wanted, tokens, p)
    /\ phase = "comment" => ReadsComment(text, Wanted, tokens, p)
    /\ phase = "string" => ReadsString(text, Wanted, tokens, p, Bytes(sb))
    /\ phase = "closed" => ReadsClosed(text, Wanted, tokens, p, Bytes(sb))
    /\ phase = "exit" => Refused(text)

-----------------------------------------------------------------------------
\* What should be is the same for as long as the text is.
LEMMA WantedKept ==
  ASSUME text' = text
  PROVE  Wanted' = Wanted
<1>1. \A c : AsExpected(c)' = AsExpected(c)
  BY DEF AsExpected, PlaceOf, Line, Column, Newlines, Span, At
<1>2. Every(text)' = Every(text)
  OBVIOUS
<1> QED
  BY <1>1, <1>2 DEF Wanted

LEMMA ToScan ==
  ASSUME text' = text, phase' = "scan",
         Agreed(text) => ReadsScan(text, Wanted, tokens', p')
  PROVE  ScanInv'
BY WantedKept DEF ScanInv

LEMMA ToDone ==
  ASSUME text' = text, phase' = "done", AtNul(text, p'),
         Agreed(text) => ReadsScan(text, Wanted, tokens', p')
  PROVE  ScanInv'
BY WantedKept DEF ScanInv

LEMMA ToLine ==
  ASSUME text' = text, phase' = "line",
         Agreed(text) => ReadsLine(text, Wanted, tokens', p')
  PROVE  ScanInv'
BY WantedKept DEF ScanInv

LEMMA ToComment ==
  ASSUME text' = text, phase' = "comment",
         Agreed(text) => ReadsComment(text, Wanted, tokens', p')
  PROVE  ScanInv'
BY WantedKept DEF ScanInv

LEMMA ToInString ==
  ASSUME text' = text, phase' = "string", NEW bytes, bytes = Bytes(sb'),
         Agreed(text) => ReadsString(text, Wanted, tokens', p', bytes)
  PROVE  ScanInv'
BY WantedKept DEF ScanInv

LEMMA ToClosed ==
  ASSUME text' = text, phase' = "closed", NEW bytes, bytes = Bytes(sb'),
         Agreed(text) => ReadsClosed(text, Wanted, tokens', p', bytes)
  PROVE  ScanInv'
BY WantedKept DEF ScanInv

LEMMA ToExit ==
  ASSUME text' = text, phase' = "exit", Agreed(text) => Refused(text)
  PROVE  ScanInv'
BY WantedKept DEF ScanInv

-----------------------------------------------------------------------------
\* The steps between tokens.
LEMMA HasText ==
  ASSUME IInv
  PROVE  IsText(text) /\ p \in 1..(Len(text) + 1) /\ Len(text) \in Nat \ {0}
BY TextIs DEF IInv, Kept, TextOK, Placed, IsText

LEMMA Here ==
  ASSUME IInv, At(p) # Nul
  PROVE  p \in 1..Len(text) /\ text[p] = At(p)
BY TextIs, Unread

LEMMA NoNul ==
  ASSUME IInv, At(p) = Nul
  PROVE  AtNul(text, p) /\ (p <= Len(text) => Nul \in ToSet(text))
<1>1. p \in 1..(Len(text) + 1) /\ DOMAIN text = 1..Len(text)
  BY HasText, TextIs
<1> QED
  BY <1>1 DEF AtNul, At, ToSet

LEMMA SpaceScan ==
  ASSUME IInv, ScanInv, Space
  PROVE  ScanInv'
<1>1. phase = "scan" /\ At(p) \in Blanks /\ SkipChar /\ text' = text /\ tokens' = tokens
      /\ phase' = "scan"
  BY DEF Space, Goto
<1>2. At(p) # Nul
  BY <1>1, BlanksAre, Zenon
<1>3. p' = p + 1
  BY <1>1, <1>2, CharSkipped
<1>4. IsText(text) /\ p \in 1..Len(text) /\ text[p] \in Blanks
  BY <1>1, <1>2, HasText, Here
<1>5. ASSUME Agreed(text)
      PROVE  ReadsScan(text, Wanted, tokens, p + 1)
  <2>1. Bound(text, p) /\ Due(text, Wanted, tokens, p)
    BY <1>1, <1>5 DEF ScanInv, ReadsScan
  <2>2. Bound(text, p + 1)
    BY <1>4, <2>1, BoundBlank, ClassesAre, Zenon
  <2>3. Due(text, Wanted, tokens, p + 1)
    BY <1>4, <2>1, BlankDue, Zenon
  <2> QED
    BY <2>2, <2>3, Zenon DEF ReadsScan
<1> QED
  BY <1>1, <1>3, <1>5, ToScan

LEMMA InLineScan ==
  ASSUME IInv, ScanInv, InLine
  PROVE  ScanInv'
<1>1. /\ \/ phase = "scan" /\ Starts(p, <<"/", "/">>)
         \/ phase = "line" /\ At(p) # "\n"
      /\ p' = p + 1 /\ text' = text /\ tokens' = tokens /\ phase' = "line"
  BY DEF InLine, Goto, SkipColumn
<1>2. IsText(text) /\ p \in 1..(Len(text) + 1) /\ Len(text) \in Nat
  BY HasText
<1>3. ASSUME Agreed(text), phase = "scan", Starts(p, <<"/", "/">>)
      PROVE  ReadsLine(text, Wanted, tokens, p + 1)
  <2>1. ReadsScan(text, Wanted, tokens, p)
    BY <1>3 DEF ScanInv
  <2>2. At(p) = "/" /\ At(p + 1) = "/"
    BY <1>2, <1>3, StartsTwo
  <2>3. p < Len(text) /\ text[p] = "/" /\ text[p + 1] = "/"
    BY <1>2, <2>2 DEF At, Nul
  <2>4. LineOpen(text, p, p + 1)
    BY <1>2, <2>3 DEF LineOpen
  <2> QED
    BY <2>1, <2>4, Zenon DEF ReadsLine
<1>4. ASSUME Agreed(text), phase = "line", At(p) # "\n"
      PROVE  ReadsLine(text, Wanted, tokens, p + 1)
  <2>1. PICK q : ReadsScan(text, Wanted, tokens, q) /\ LineOpen(text, q, p)
    BY <1>4 DEF ScanInv, ReadsLine
  <2>2. p <= Len(text)
    BY <1>4 DEF IInv, PhaseOK
  <2>3. text[p] # "\n"
    BY <1>4, <2>2 DEF At
  <2>4. LineOpen(text, q, p + 1)
    BY <1>2, <2>1, <2>3 DEF LineOpen
  <2> QED
    BY <2>1, <2>4, Zenon DEF ReadsLine
<1> QED
  BY <1>1, <1>3, <1>4, ToLine

LEMMA EndLineScan ==
  ASSUME IInv, ScanInv, EndLine
  PROVE  ScanInv'
<1>1. /\ phase = "line" /\ At(p) = "\n" /\ p' = p + 1 /\ text' = text /\ tokens' = tokens
      /\ phase' = "scan"
  BY DEF EndLine, Goto, SkipLine
<1>2. IsText(text) /\ p \in 1..(Len(text) + 1) /\ Len(text) \in Nat
  BY HasText
<1>3. p \in 1..Len(text) /\ text[p] = "\n" /\ text[p] \in Blanks
  <2>1. p <= Len(text)
    BY <1>1 DEF IInv, PhaseOK
  <2> QED
    BY <1>1, <1>2, <2>1, BlanksAre DEF At
<1>4. ASSUME Agreed(text)
      PROVE  ReadsScan(text, Wanted, tokens, p + 1)
  <2>1. PICK q : ReadsScan(text, Wanted, tokens, q) /\ LineOpen(text, q, p)
    BY <1>1, <1>4 DEF ScanInv, ReadsLine
  <2>2. Bound(text, q) /\ Due(text, Wanted, tokens, q)
    BY <2>1, Zenon DEF ReadsScan
  <2>3. /\ q \in 1..Len(text) /\ p - 1 \in (q + 1)..(Len(text) - 1)
        /\ text[q] = "/" /\ text[q + 1] = "/" /\ (\A k \in q..(p - 1) : text[k] # "\n")
        /\ text[(p - 1) + 1] = "\n"
    BY <1>2, <1>3, <2>1 DEF LineOpen
  <2> DEFINE l == C!Lexeme(text, q)
  <2>4. l = [kind |-> "COMMENT", first |-> q, last |-> p - 1]
    BY <1>2, <2>3, LineComment
  <2>5. text[q] \notin Blanks
    BY <2>3 DEF Blanks
  <2>6. l.kind = "COMMENT" /\ l.kind # "BAD" /\ l.last + 1 = p
    <3> HIDE DEF l
    <3> QED
      BY <1>2, <2>4
  <2>7. Bound(text, l.last + 1)
    BY <1>2, <2>2, <2>3, <2>5, <2>6, BoundLexeme, ClassesAre, Zenon
  <2>8. Due(text, Wanted, tokens, l.last + 1)
    BY <1>2, <2>2, <2>3, <2>5, <2>6, CommentDue, Zenon
  <2> HIDE DEF l
  <2>9. Bound(text, p) /\ Due(text, Wanted, tokens, p)
    BY <2>6, <2>7, <2>8
  <2>10. Bound(text, p + 1) /\ Due(text, Wanted, tokens, p + 1)
    BY <1>2, <1>3, <2>9, BoundBlank, BlankDue, ClassesAre, Zenon
  <2> QED
    BY <2>10, Zenon DEF ReadsScan
<1> QED
  BY <1>1, <1>4, ToScan

LEMMA BeginCommentScan ==
  ASSUME IInv, ScanInv, BeginComment
  PROVE  ScanInv'
<1>1. /\ phase = "scan" /\ Starts(p, <<"/", "*">>) /\ p' = p + 2
      /\ text' = text /\ tokens' = tokens /\ phase' = "comment"
  BY DEF BeginComment, Goto, SkipColumn
<1>2. IsText(text) /\ p \in 1..(Len(text) + 1) /\ Len(text) \in Nat
  BY HasText
<1>3. ASSUME Agreed(text)
      PROVE  ReadsComment(text, Wanted, tokens, p + 2)
  <2>1. ReadsScan(text, Wanted, tokens, p)
    BY <1>1, <1>3 DEF ScanInv
  <2>2. At(p) = "/" /\ At(p + 1) = "*"
    BY <1>1, <1>2, StartsTwo
  <2>3. p < Len(text) /\ text[p] = "/" /\ text[p + 1] = "*"
    BY <1>2, <2>2 DEF At, Nul
  <2>4. CommentOpen(text, p, p + 2)
    BY <1>2, <2>3 DEF CommentOpen
  <2> QED
    BY <2>1, <2>4, Zenon DEF ReadsComment
<1> QED
  BY <1>1, <1>3, ToComment

LEMMA InCommentScan ==
  ASSUME IInv, ScanInv, InComment
  PROVE  ScanInv'
<1>1. /\ phase = "comment" /\ At(p) # Nul /\ ~Starts(p, <<"*", "/">>) /\ SkipChar
      /\ text' = text /\ tokens' = tokens /\ phase' = "comment"
  BY DEF InComment, Goto
<1>2. IsText(text) /\ p \in 1..Len(text) /\ Len(text) \in Nat /\ text[p] = At(p)
  BY <1>1, HasText, Here
<1>3. p' = p + 1
  BY <1>1, CharSkipped
<1>4. ~(text[p] = "*" /\ text[p + 1] = "/")
  <2> SUFFICES ASSUME text[p] = "*", text[p + 1] = "/"
               PROVE  FALSE
    OBVIOUS
  <2>1. p # Len(text)
    BY <1>2 DEF IsText
  <2>2. At(p) = "*" /\ At(p + 1) = "/"
    BY <1>2, <2>1 DEF At
  <2>3. Starts(p, <<"*", "/">>)
    BY <1>2, <2>2 DEF Starts
  <2> QED
    BY <1>1, <2>3
<1>5. ASSUME Agreed(text)
      PROVE  ReadsComment(text, Wanted, tokens, p + 1)
  <2>1. PICK q : ReadsScan(text, Wanted, tokens, q) /\ CommentOpen(text, q, p)
    BY <1>1, <1>5 DEF ScanInv, ReadsComment
  <2>2. CommentOpen(text, q, p + 1)
    BY <1>2, <1>4, <2>1 DEF CommentOpen
  <2> QED
    BY <2>1, <2>2, Zenon DEF ReadsComment
<1> QED
  BY <1>1, <1>3, <1>5, ToComment

-----------------------------------------------------------------------------
LEMMA EndCommentScan ==
  ASSUME IInv, ScanInv, EndComment
  PROVE  ScanInv'
<1>1. /\ phase = "comment" /\ text' = text /\ tokens' = tokens
      /\ At(p) = Nul => phase' = "exit"
      /\ At(p) # Nul => Starts(p, <<"*", "/">>) /\ p' = p + 2 /\ phase' = "scan"
  BY DEF EndComment, Goto, Error, SkipColumn
<1>2. IsText(text) /\ p \in 1..(Len(text) + 1) /\ Len(text) \in Nat
  BY HasText
<1>3. ASSUME At(p) = Nul, Agreed(text)
      PROVE  Refused(text)
  <2> SUFFICES ASSUME Clean(text, 1), Nul \notin ToSet(text)
               PROVE  FALSE
    BY DEF Refused
  <2>1. p = Len(text) + 1
    BY <1>2, <1>3, NoNul
  <2>2. PICK q : ReadsScan(text, Wanted, tokens, q) /\ CommentOpen(text, q, p)
    BY <1>1, <1>3 DEF ScanInv, ReadsComment
  <2>3. Bound(text, q)
    BY <2>2, Zenon DEF ReadsScan
  <2>4. /\ q \in 1..Len(text) /\ q < Len(text) /\ text[q] = "/" /\ text[q + 1] = "*"
        /\ \A k \in (q + 2)..(p - 1) : ~(text[k] = "*" /\ text[k + 1] = "/")
    BY <1>2, <2>2 DEF CommentOpen
  <2>5. text[q] \notin Blanks
    BY <2>4 DEF Blanks
  <2>6. C!Lexeme(text, q).kind # "BAD"
    BY <1>2, <2>3, <2>4, <2>5, BoundLexeme, ClassesAre, Zenon
  <2>7. PICK j \in (q + 3)..Len(text) : text[j - 1] = "*" /\ text[j] = "/"
    BY <1>2, <2>4, <2>6, BlockEnds, Zenon
  <2>8. j - 1 \in (q + 2)..(p - 1) /\ (j - 1) + 1 = j
    BY <1>2, <2>1, <2>4
  <2>9. ~(text[j - 1] = "*" /\ text[(j - 1) + 1] = "/")
    BY <2>4, <2>8, Zenon
  <2> QED
    BY <2>7, <2>8, <2>9
<1>4. ASSUME At(p) # Nul, Agreed(text)
      PROVE  ReadsScan(text, Wanted, tokens, p + 2)
  <2>1. PICK q : ReadsScan(text, Wanted, tokens, q) /\ CommentOpen(text, q, p)
    BY <1>1, <1>4 DEF ScanInv, ReadsComment
  <2>2. Bound(text, q) /\ Due(text, Wanted, tokens, q)
    BY <2>1, Zenon DEF ReadsScan
  <2>3. At(p) = "*" /\ At(p + 1) = "/"
    BY <1>1, <1>2, <1>4, StartsTwo
  <2>4. p < Len(text) /\ text[p] = "*" /\ text[p + 1] = "/"
    BY <1>2, <2>3 DEF At, Nul
  <2> DEFINE j == p + 1
  <2>5. j \in (q + 3)..Len(text) /\ j = p + 1 /\ j - 1 = p /\ q \in 1..Len(text)
    BY <1>2, <2>1, <2>4 DEF CommentOpen
  <2> HIDE DEF j
  <2>6. /\ text[q] = "/" /\ text[q + 1] = "*" /\ text[j - 1] = "*" /\ text[j] = "/"
        /\ \A k \in (q + 2)..(j - 2) : ~(text[k] = "*" /\ text[k + 1] = "/")
    BY <1>2, <2>1, <2>4, <2>5 DEF CommentOpen
  <2> DEFINE l == C!Lexeme(text, q)
  <2>7. l = [kind |-> "COMMENT", first |-> q, last |-> j]
    BY <1>2, <2>5, <2>6, BlockComment
  <2>8. text[q] \notin Blanks
    BY <2>6 DEF Blanks
  <2>9. l.kind = "COMMENT" /\ l.kind # "BAD" /\ l.last + 1 = p + 2
    <3> HIDE DEF l
    <3> QED
      BY <1>2, <2>5, <2>7
  <2>10. Bound(text, l.last + 1)
    BY <1>2, <2>2, <2>5, <2>8, <2>9, BoundLexeme, ClassesAre, Zenon
  <2>11. Due(text, Wanted, tokens, l.last + 1)
    BY <1>2, <2>2, <2>5, <2>8, <2>9, CommentDue, Zenon
  <2> HIDE DEF l
  <2> QED
    BY <2>9, <2>10, <2>11 DEF ReadsScan
<1>5. CASE At(p) = Nul
  BY <1>1, <1>3, <1>5, ToExit
<1>6. CASE At(p) # Nul
  BY <1>1, <1>4, <1>6, ToScan
<1> QED
  BY <1>5, <1>6

-----------------------------------------------------------------------------
\* The steps in a string.
\* Where C has a string, and it is that of the text.
LEMMA QuoteHere ==
  ASSUME IInv, NEW i, i \in 1..Len(text), text[i] = Quote, Bound(text, i), Clean(text, 1)
  PROVE  C!Lexeme(text, i).kind = "STRING"
<1>1. IsText(text)
  BY HasText
<1>2. text[i] \notin C!Blank
  BY QuoteApart, ClassesAre, Zenon
<1>3. C!Lexeme(text, i).kind # "BAD"
  BY <1>1, <1>2, BoundLexeme, Zenon
<1> QED
  BY <1>1, <1>3, QuoteLexeme, Zenon

LEMMA TokensSeq ==
  ASSUME IInv
  PROVE  tokens \in Seq(ToSet(tokens)) /\ Len(tokens) \in Nat
<1>1. tokens \in Seq(ToSet(tokens))
  BY Zenon DEF IInv, Kept, TokensOK
<1> QED
  BY <1>1

LEMMA BeginStringScan ==
  ASSUME IInv, ScanInv, BeginString
  PROVE  ScanInv'
<1>1. /\ phase = "scan" /\ p' = p + 1 /\ sb' = NewBuilder
      /\ text' = text /\ tokens' = tokens /\ phase' = "string"
  BY DEF BeginString, InString, SkipColumn
<1>2. At(p) = Quote
  BY Zenon DEF BeginString, Quote
<1>3. At(p) # Nul
  BY <1>2, QuoteApart, Zenon
<1>4. IsText(text) /\ p \in 1..Len(text) /\ Len(text) \in Nat /\ text[p] = Quote
  BY <1>2, <1>3, HasText, Here
<1> DEFINE none == <<>>
<1>5. Bytes(sb') = none
  BY <1>1, NoBytes, Zenon
<1>6. ASSUME Agreed(text)
      PROVE  ReadsString(text, Wanted, tokens, p + 1, none)
  <2>1. Bound(text, p) /\ Due(text, Wanted, tokens, p)
    BY <1>1, <1>6 DEF ScanInv, ReadsScan
  <2>2. Inside(text, p, p + 1)
    BY <1>4, InsideFirst, Zenon
  <2>3. ASSUME Fit(text)
        PROVE  Pending(text, Wanted, tokens, p, <<>>)
    <3>1. C!Lexeme(text, p).kind = "STRING"
      BY <1>4, <2>1, <2>3, QuoteHere, Zenon DEF Fit
    <3>2. Scanned(Wanted, tokens) /\ Follow(text, Len(tokens), AsTokensFrom(text)[p])
      BY <2>1, <2>3, Zenon DEF Due
    <3> QED
      BY <1>4, <3>1, <3>2, TokensSeq, PendingFirst, Zenon
  <2>4. none = none \o AsRead(text, p)[(p + 1) - 1]
    <3>1. AsRead(text, p)[p] = <<>>
      BY <1>4, ReadFromIs, Zenon
    <3>2. (p + 1) - 1 = p
      BY <1>4
    <3>3. <<>> \o <<>> = <<>>
      OBVIOUS
    <3> QED
      BY <3>1, <3>2, <3>3, Zenon
  <2>5. none \in Seq(ToSet(none))
    OBVIOUS
  <2>6. InText(text, Wanted, tokens, p, p + 1, none)
    BY <2>3, <2>4, <2>5, Zenon DEF InText
  <2> QED
    BY <2>1, <2>2, <2>6, Zenon DEF ReadsString
<1> HIDE DEF none
<1> QED
  BY <1>1, <1>5, <1>6, ToInString

-----------------------------------------------------------------------------
LEMMA OpenString ==
  ASSUME IInv, ScanInv, phase = "string", At(p) # Nul, Agreed(text)
  PROVE  \E q : /\ Bound(text, q) /\ Inside(text, q, p) /\ q \in 1..Len(text)
                /\ p \in (q + 1)..Len(text)
                /\ InText(text, Wanted, tokens, q, p, Bytes(sb))
<1>1. ReadsString(text, Wanted, tokens, p, Bytes(sb))
  BY DEF ScanInv
<1>2. p \in 1..Len(text) /\ text[p] = At(p)
  BY Here
<1>3. ~AtNul(text, p)
  BY <1>2 DEF AtNul
<1>4. PICK q : Bound(text, q) /\ Inside(text, q, p) /\ InText(text, Wanted, tokens, q, p, Bytes(sb))
  BY <1>1, <1>3, Zenon DEF ReadsString
<1>5. q \in 1..(p - 1)
  BY <1>4, Zenon DEF Inside
<1>6. q \in 1..Len(text) /\ p \in (q + 1)..Len(text)
  BY <1>2, <1>5, HasText
<1> QED
  BY <1>4, <1>6, Zenon

LEMMA StringEscapeScan ==
  ASSUME IInv, ScanInv, StringEscape
  PROVE  ScanInv'
<1> DEFINE ch == Escaped(At(p + 1))
           bytes == Append(Bytes(sb), ch)
<1>1. /\ phase = "string" /\ At(p) = "\\" /\ At(p + 1) # Nul /\ p' = p + 2
      /\ sb' = AppendChar(sb, ch) /\ text' = text /\ tokens' = tokens /\ phase' = "string"
  BY DEF StringEscape, InString, SkipColumn
<1>2. At(p) # Nul
  BY <1>1 DEF Nul
<1>3. /\ IsText(text) /\ p \in 1..Len(text) /\ Len(text) \in Nat /\ text[p] = "\\"
  BY <1>1, <1>2, HasText, Here
<1>4. p + 1 <= Len(text) /\ text[p + 1] = At(p + 1)
  BY <1>1, <1>3 DEF At
<1>5. bytes = Bytes(sb')
  <2>1. BuilderOK(sb)
    BY DEF IInv, Kept
  <2> QED
    BY <1>1, <2>1, BytesAppended, Zenon
<1>6. ASSUME Agreed(text)
      PROVE  ReadsString(text, Wanted, tokens, p + 2, bytes)
  <2>1. PICK q : /\ Bound(text, q) /\ Inside(text, q, p) /\ q \in 1..Len(text)
                 /\ p \in (q + 1)..Len(text)
                 /\ InText(text, Wanted, tokens, q, p, Bytes(sb))
    BY <1>1, <1>2, <1>6, OpenString, Zenon
  <2>2. /\ Inside(text, q, p + 2)
        /\ AsRead(text, q)[p + 1] = Append(AsRead(text, q)[p - 1], Escaped(text[p + 1]))
    BY <1>3, <1>4, <2>1, InsideEscape, Zenon
  <2>3. ch = Escaped(text[p + 1])
    BY <1>4, Zenon
  <2>4. (p + 2) - 1 = p + 1 /\ p - 1 \in q..Len(text)
    BY <1>3, <2>1
  <2> HIDE DEF ch
  <2>5. AsRead(text, q)[(p + 2) - 1] = Append(AsRead(text, q)[p - 1], ch)
    BY <2>2, <2>3, <2>4
  <2>6. InText(text, Wanted, tokens, q, p + 2, bytes)
    BY <1>3, <2>1, <2>4, <2>5, InTextMore, Zenon
  <2> QED
    BY <2>1, <2>2, <2>6, Zenon DEF ReadsString
<1> HIDE DEF bytes
<1> QED
  BY <1>1, <1>5, <1>6, ToInString

LEMMA StringCharScan ==
  ASSUME IInv, ScanInv, StringChar
  PROVE  ScanInv'
<1> DEFINE ch == At(p)
           bytes == Append(Bytes(sb), ch)
<1>1. /\ phase = "string" /\ ch # Nul /\ SkipChar /\ ~(ch = "\\" /\ At(p + 1) # Nul)
      /\ sb' = AppendChar(sb, ch) /\ text' = text /\ tokens' = tokens /\ phase' = "string"
  BY DEF StringChar, InString
<1>2. ch # Quote
  BY Zenon DEF StringChar, Quote
<1>3. /\ IsText(text) /\ p \in 1..Len(text) /\ Len(text) \in Nat /\ text[p] = ch
  BY <1>1, HasText, Here
<1>4. p' = p + 1
  BY <1>1, CharSkipped
<1>5. bytes = Bytes(sb')
  <2>1. BuilderOK(sb)
    BY DEF IInv, Kept
  <2> QED
    BY <1>1, <2>1, BytesAppended, Zenon
<1>6. ASSUME ch = "\\"
      PROVE  AtNul(text, p + 1) /\ Nul \in ToSet(text)
  <2>1. At(p + 1) = Nul
    BY <1>1, <1>6
  <2>2. p + 1 <= Len(text) /\ DOMAIN text = 1..Len(text)
    BY <1>3, <1>6, LengthIs DEF IsText
  <2> QED
    BY <1>3, <2>1, <2>2 DEF At, AtNul, ToSet
<1>7. ASSUME Agreed(text), ch # "\\"
      PROVE  ReadsString(text, Wanted, tokens, p + 1, bytes)
  <2>1. PICK q : /\ Bound(text, q) /\ Inside(text, q, p) /\ q \in 1..Len(text)
                 /\ p \in (q + 1)..Len(text)
                 /\ InText(text, Wanted, tokens, q, p, Bytes(sb))
    BY <1>1, <1>7, OpenString, Zenon
  <2>2. /\ Inside(text, q, p + 1)
        /\ AsRead(text, q)[p] = Append(AsRead(text, q)[p - 1], ch)
    BY <1>2, <1>3, <1>7, <2>1, InsideChar, Zenon
  <2>3. (p + 1) - 1 = p /\ p - 1 \in q..Len(text)
    BY <1>3, <2>1
  <2> HIDE DEF ch
  <2>4. AsRead(text, q)[(p + 1) - 1] = Append(AsRead(text, q)[p - 1], ch)
    BY <2>2, <2>3
  <2>5. InText(text, Wanted, tokens, q, p + 1, bytes)
    BY <1>3, <2>1, <2>3, <2>4, InTextMore, Zenon
  <2> QED
    BY <2>1, <2>2, <2>5, Zenon DEF ReadsString
<1>8. Agreed(text) => ReadsString(text, Wanted, tokens, p + 1, bytes)
  BY <1>6, <1>7, Zenon DEF ReadsString
<1> HIDE DEF bytes
<1> QED
  BY <1>1, <1>4, <1>5, <1>8, ToInString

LEMMA StringCloseScan ==
  ASSUME IInv, ScanInv, StringClose
  PROVE  ScanInv'
<1> DEFINE bytes == Bytes(sb)
<1>1. /\ phase = "string" /\ p' = p + 1 /\ sb' = sb
      /\ text' = text /\ tokens' = tokens /\ phase' = "closed"
  BY DEF StringClose, Goto, SkipColumn
<1>2. At(p) = Quote
  BY Zenon DEF StringClose, Quote
<1>3. At(p) # Nul
  BY <1>2, QuoteApart, Zenon
<1>4. IsText(text) /\ p \in 1..Len(text) /\ Len(text) \in Nat /\ text[p] = Quote
  BY <1>2, <1>3, HasText, Here
<1>5. bytes = Bytes(sb')
  BY <1>1, Zenon
<1>6. ASSUME Agreed(text)
      PROVE  ReadsClosed(text, Wanted, tokens, p + 1, bytes)
  <2>1. PICK q : /\ Bound(text, q) /\ Inside(text, q, p) /\ q \in 1..Len(text)
                 /\ p \in (q + 1)..Len(text)
                 /\ InText(text, Wanted, tokens, q, p, Bytes(sb))
    BY <1>1, <1>3, <1>6, OpenString, Zenon
  <2> DEFINE l == C!Lexeme(text, q)
  <2>2. text[q] = Quote
    BY <2>1, Zenon DEF Inside
  <2>3. text[q] \notin C!Blank
    BY <2>2, QuoteApart, ClassesAre, Zenon
  <2>4. l.kind # "BAD" \/ ~LenientAt(text, q)
    BY <1>4, <1>6, <2>1, <2>3, BoundLexeme, FirstBadIs, Zenon DEF Agreed
  <2>5. l = [kind |-> "STRING", first |-> q, last |-> p]
    BY <1>4, <2>1, <2>4, StringLexeme
  <2>6. l.kind = "STRING" /\ l.kind # "BAD" /\ l.last = p
    <3> HIDE DEF l
    <3> QED
      BY <2>5
  <2>7. /\ l \in ToSet(C!LexemesFrom(text)[1]) /\ Bound(text, l.last + 1)
        /\ C!LexemesFrom(text)[l.last + 1] = <<>> =>
             C!LexemesFrom(text)[1] # <<>> /\ Last(C!LexemesFrom(text)[1]) = l
    BY <1>4, <2>1, <2>3, <2>6, BoundLexeme, Zenon
  <2>8. ASSUME Fit(text)
        PROVE  Ended(text, Wanted, tokens, l, l.last + 1, bytes)
    <3>1. PICK before : /\ before \in Seq(ToSet(before))
                        /\ Pending(text, Wanted, tokens, q, before)
                        /\ bytes = before \o AsRead(text, q)[p - 1]
      BY <2>1, <2>8, Zenon DEF InText
    <3>2. bytes = before \o AsRead(text, q)[l.last - 1]
      BY <2>6, <3>1, Zenon
    <3> QED
      BY <1>4, <2>1, <2>2, <2>6, <3>1, <3>2, TokensSeq, StringEnded, Zenon
  <2> HIDE DEF l, bytes
  <2>9. p \in 1..((p + 1) - 1) /\ \A k \in (p + 1)..((p + 1) - 1) : FALSE
    BY <1>4
  <2>10. Follows(text, l, p + 1)
    BY <2>6, <2>7, <2>9, Zenon DEF Follows
  <2> QED
    BY <2>6, <2>7, <2>8, <2>10, Zenon DEF ReadsClosed
<1> HIDE DEF bytes
<1> QED
  BY <1>1, <1>5, <1>6, ToClosed

LEMMA StringSpaceScan ==
  ASSUME IInv, ScanInv, StringSpace
  PROVE  ScanInv'
<1> DEFINE bytes == Bytes(sb)
<1>1. /\ phase = "closed" /\ At(p) \in Blanks /\ SkipChar /\ sb' = sb
      /\ text' = text /\ tokens' = tokens /\ phase' = "closed"
  BY DEF StringSpace, Goto
<1>2. At(p) # Nul
  BY <1>1, BlanksAre, Zenon
<1>3. /\ IsText(text) /\ p \in 1..Len(text) /\ Len(text) \in Nat /\ text[p] \in Blanks
      /\ text[p] \in C!Blank
  BY <1>1, <1>2, HasText, Here, ClassesAre
<1>4. p' = p + 1
  BY <1>1, <1>2, CharSkipped
<1>5. bytes = Bytes(sb')
  BY <1>1, Zenon
<1>6. ASSUME Agreed(text)
      PROVE  ReadsClosed(text, Wanted, tokens, p + 1, bytes)
  <2>1. ReadsClosed(text, Wanted, tokens, p, bytes)
    BY <1>1, <1>6 DEF ScanInv
  <2> HIDE DEF bytes
  <2>2. PICK l : Follows(text, l, p) /\ (Fit(text) => Ended(text, Wanted, tokens, l, p, bytes))
    BY <2>1, Zenon DEF ReadsClosed
  <2>3. /\ C!LexemesFrom(text)[p] = C!LexemesFrom(text)[p + 1]
        /\ AsTokensFrom(text)[p] = AsTokensFrom(text)[p + 1]
    BY <1>3, BlankPassed, Zenon
  <2>4. Bound(text, p + 1)
    BY <1>3, <2>1, BoundBlank, Zenon DEF ReadsClosed
  <2>5. /\ l.last \in 1..(p - 1) /\ \A k \in (l.last + 1)..(p - 1) : text[k] \in Blanks
    BY <2>2, Zenon DEF Follows
  <2>6. /\ l.last \in 1..((p + 1) - 1)
        /\ \A k \in (l.last + 1)..((p + 1) - 1) : text[k] \in Blanks
    BY <1>3, <2>5
  <2>7. Follows(text, l, p + 1)
    BY <2>2, <2>3, <2>6, Zenon DEF Follows
  <2>8. Fit(text) => Ended(text, Wanted, tokens, l, p + 1, bytes)
    BY <2>2, <2>3, Zenon DEF Ended, Pending
  <2> QED
    BY <2>4, <2>7, <2>8, Zenon DEF ReadsClosed
<1> HIDE DEF bytes
<1> QED
  BY <1>1, <1>4, <1>5, <1>6, ToClosed

LEMMA StringGoesOnScan ==
  ASSUME IInv, ScanInv, StringGoesOn
  PROVE  ScanInv'
<1> DEFINE bytes == Bytes(sb)
<1>1. /\ phase = "closed" /\ p' = p + 1 /\ sb' = sb
      /\ text' = text /\ tokens' = tokens /\ phase' = "string"
  BY DEF StringGoesOn, InString, SkipColumn
<1>2. At(p) = Quote
  BY Zenon DEF StringGoesOn, Quote
<1>3. At(p) # Nul
  BY <1>2, QuoteApart, Zenon
<1>4. IsText(text) /\ p \in 1..Len(text) /\ Len(text) \in Nat /\ text[p] = Quote
  BY <1>2, <1>3, HasText, Here
<1>5. bytes = Bytes(sb')
  BY <1>1, Zenon
<1>6. bytes \in Seq(ToSet(bytes))
  <2>1. BuilderOK(sb)
    BY DEF IInv, Kept
  <2> QED
    BY <2>1, BytesAre, Zenon
<1>7. ASSUME Agreed(text)
      PROVE  ReadsString(text, Wanted, tokens, p + 1, bytes)
  <2>1. ReadsClosed(text, Wanted, tokens, p, bytes)
    BY <1>1, <1>7 DEF ScanInv
  <2> HIDE DEF bytes
  <2>2. Bound(text, p) /\ \E l : Fit(text) => Ended(text, Wanted, tokens, l, p, bytes)
    BY <2>1, Zenon DEF ReadsClosed
  <2>3. Inside(text, p, p + 1)
    BY <1>4, InsideFirst, Zenon
  <2>4. ASSUME Fit(text)
        PROVE  Pending(text, Wanted, tokens, p, bytes)
    <3>1. C!Lexeme(text, p).kind = "STRING"
      BY <1>4, <2>2, <2>4, QuoteHere, Zenon DEF Fit
    <3> QED
      BY <1>4, <2>2, <2>4, <3>1, StringContinued, Zenon
  <2>5. bytes = bytes \o AsRead(text, p)[(p + 1) - 1]
    <3>1. AsRead(text, p)[p] = <<>>
      BY <1>4, ReadFromIs, Zenon
    <3>2. (p + 1) - 1 = p
      BY <1>4
    <3>3. bytes \o <<>> = bytes
      BY <1>6
    <3> QED
      BY <3>1, <3>2, <3>3, Zenon
  <2>6. InText(text, Wanted, tokens, p, p + 1, bytes)
    BY <1>6, <2>4, <2>5, Zenon DEF InText
  <2> QED
    BY <2>2, <2>3, <2>6, Zenon DEF ReadsString
<1> HIDE DEF bytes
<1> QED
  BY <1>1, <1>5, <1>7, ToInString

-----------------------------------------------------------------------------
LEMMA SpanEnds ==
  ASSUME text \in Seq(Chars), NEW i, i \in 1..(Len(text) + 1), NEW S, Nul \notin S
  PROVE  /\ i + Span(i, S) \in i..(Len(text) + 1) /\ At(i + Span(i, S)) \notin S
         /\ \A k \in i..(i + Span(i, S) - 1) : At(k) \in S
<1> DEFINE past == {k \in i..(Len(text) + 1) : At(k) \notin S}
           m == CHOOSE k \in past : \A l \in past : k <= l
<1>1. Len(text) \in Nat /\ At(Len(text) + 1) = Nul
  BY DEF At
<1>2. past \in SUBSET Nat /\ past # {}
  BY <1>1
<1>3. m \in past
  BY <1>2, LeastExists, Zenon
<1>4. Span(i, S) = m - i
  BY DEF Span
<1>5. m \in i..(Len(text) + 1) /\ At(m) \notin S
  BY <1>3
<1>6. \A k \in i..(i + Span(i, S) - 1) : At(k) \in S
  BY SpanIs
<1> HIDE DEF m
<1>7. i + Span(i, S) = m
  BY <1>1, <1>4, <1>5
<1> QED
  BY <1>5, <1>6, <1>7

\* The first place that is not in S.
LEMMA SpanTo ==
  ASSUME text \in Seq(Chars), NEW i, i \in 1..(Len(text) + 1), NEW S, Nul \notin S,
         NEW j, j \in i..(Len(text) + 1), \A k \in i..(j - 1) : At(k) \in S, At(j) \notin S
  PROVE  i + Span(i, S) = j
<1> DEFINE m == i + Span(i, S)
<1>1. /\ m \in i..(Len(text) + 1) /\ At(m) \notin S
      /\ \A k \in i..(i + Span(i, S) - 1) : At(k) \in S
  BY SpanEnds, Zenon
<1>2. Span(i, S) \in Nat /\ Len(text) \in Nat
  BY SpanIs
<1>3. \A k \in i..(m - 1) : At(k) \in S
  BY <1>1, <1>2
<1> HIDE DEF m
<1>4. ~(m < j) /\ ~(j < m)
  BY <1>1, <1>2, <1>3
<1>5. m = j
  BY <1>1, <1>2, <1>4
<1> QED
  BY <1>5 DEF m

\* Behind a string and the blanks there, C has no string either.
LEMMA NotContinued ==
  ASSUME NEW t, IsText(t), NEW i, i \in 1..Len(t), t[i] \notin Blanks, t[i] # Quote, NEW l,
         Follows(t, l, i), Fit(t)
  PROVE  ~C!Opens(AsTokensFrom(t)[i], "STRING")
<1> SUFFICES ASSUME C!Opens(AsTokensFrom(t)[i], "STRING")
             PROVE  FALSE
  OBVIOUS
<1> DEFINE m == C!Lexeme(t, i)
           r == AsTokensFrom(t)[m.last + 1]
<1>1. /\ m.last + 1 \in (i + 1)..(Len(t) + 1)
      /\ C!LexemesFrom(t)[i] # <<>> /\ C!LexemesFrom(t)[i][1] = m
      /\ AsTokensFrom(t)[i] = TokenThen(t, m, r)
  BY ClassesAre, LexemeTaken, Zenon
<1>2. /\ l \in ToSet(C!LexemesFrom(t)[1]) /\ l.kind = "STRING"
      /\ C!LexemesFrom(t)[l.last + 1] = C!LexemesFrom(t)[i]
      /\ AsTokensFrom(t)[l.last + 1] = AsTokensFrom(t)[i]
  BY Zenon DEF Follows
<1>3. m.kind # "COMMENT"
  <2> SUFFICES ASSUME m.kind = "COMMENT"
               PROVE  FALSE
    OBVIOUS
  <2>1. C!Opens(C!LexemesFrom(t)[i], "COMMENT")
    BY <1>1, Zenon DEF C!Opens
  <2>2. /\ C!Opens(C!LexemesFrom(t)[l.last + 1], "COMMENT")
        /\ C!Opens(AsTokensFrom(t)[l.last + 1], "STRING")
    BY <1>2, <2>1, Zenon
  <2>3. AsCommentJoins(t)
    BY <1>2, <2>2, Zenon DEF AsCommentJoins
  <2> QED
    BY <2>3, Zenon DEF Fit
<1>4. m.kind # "STRING"
  <2> SUFFICES ASSUME m.kind = "STRING"
               PROVE  FALSE
    OBVIOUS
  <2>1. m.kind # "BAD"
    OBVIOUS
  <2>2. C!Shape(t, i, m.last) = "STRING"
    BY <2>1, LexemeShape, Zenon
  <2>3. C!IsString(t, i, m.last)
    BY <2>2, ShapeIs, Zenon
  <2> QED
    BY <2>3, StringIs, Zenon
<1>5. AsTokensFrom(t)[i] = <<AsToken(t, m)>> \o r
  BY <1>1, <1>3, <1>4, Zenon DEF TokenThen
<1>6. AsToken(t, m) \in TokensType(t) /\ AsToken(t, m).kind = m.kind
  BY TokenType, Zenon
<1>7. r \in Seq(TokensType(t))
  <2>1. m.last + 1 \in 1..(Len(t) + 1)
    <3> HIDE DEF m
    <3> QED
      BY <1>1, LengthIs
  <2> QED
    BY <2>1, TokensTyped, Zenon
<1> DEFINE x == AsToken(t, m)
<1> HIDE DEF m, r, x
<1>8. (<<x>> \o r)[1] = x
  BY <1>6, <1>7, ConsIs DEF x
<1>9. AsTokensFrom(t)[i][1].kind = m.kind
  BY <1>5, <1>6, <1>8, Zenon DEF x
<1> QED
  BY <1>4, <1>9, Zenon DEF C!Opens

LEMMA StringDoneScan ==
  ASSUME IInv, ScanInv, StringDone
  PROVE  ScanInv'
<1> DEFINE bytes == Bytes(sb)
           tok == [kind |-> "STRING", str |-> UpToNul(bytes), val |-> 0,
                   line |-> Line(p), column |-> Column(p)]
<1>1. /\ phase = "closed" /\ p' = p /\ text' = text /\ phase' = "scan"
      /\ tokens' = Append(tokens, NewToken("STRING", Build(sb), 0))
  BY DEF StringDone, Push
<1>2. At(p) # Nul /\ At(p) # Quote /\ At(p) \notin Blanks
  BY Zenon DEF StringDone, Quote
<1>3. NewToken("STRING", Build(sb), 0) = tok
  <2>1. loc_line = Line(p) /\ loc_column = Column(p)
    BY DEF IInv, Placed
  <2>2. Build(sb) = UpToNul(bytes)
    BY Zenon DEF Build, Bytes
  <2> QED
    BY <2>1, <2>2, Zenon DEF NewToken
<1>4. /\ IsText(text) /\ p \in 1..Len(text) /\ Len(text) \in Nat /\ text[p] # Quote
      /\ text[p] \notin Blanks /\ text \in Seq(Chars)
  BY <1>2, HasText, Here DEF IsText
<1> HIDE DEF tok
<1>5. tokens' = Append(tokens, tok)
  BY <1>1, <1>3, Zenon
<1>6. ASSUME Agreed(text)
      PROVE  ReadsScan(text, Wanted, Append(tokens, tok), p)
  <2>1. ReadsClosed(text, Wanted, tokens, p, bytes)
    BY <1>1, <1>6 DEF ScanInv
  <2> HIDE DEF bytes
  <2>2. PICK l : Follows(text, l, p) /\ (Fit(text) => Ended(text, Wanted, tokens, l, p, bytes))
    BY <2>1, Zenon DEF ReadsClosed
  <2>3. ASSUME Fit(text)
        PROVE  Due(text, Wanted, Append(tokens, tok), p)
    <3>1. ~C!Opens(AsTokensFrom(text)[p], "STRING")
      BY <1>4, <2>2, <2>3, NotContinued, Zenon
    <3>2. l.last \in 1..(p - 1) /\ \A k \in (l.last + 1)..(p - 1) : text[k] \in Blanks
      BY <2>2, Zenon DEF Follows
    <3> DEFINE i == l.last + 1
    <3>3. /\ i \in 1..(Len(text) + 1) /\ p \in i..(Len(text) + 1)
          /\ \A k \in i..(p - 1) : At(k) \in Blanks
      BY <1>4, <3>2 DEF At
    <3> HIDE DEF i
    <3>4. i + Span(i, Blanks) = p
      BY <1>2, <1>4, <3>3, BlanksAre, SpanTo, Zenon
    <3>5. p = l.last + 1 + Span(l.last + 1, Blanks)
      BY <3>4 DEF i
    <3>6. p \in 1..(Len(text) + 1)
      BY <1>4
    <3>7. Ended(text, Wanted, tokens, l, p, bytes)
      BY <2>2, <2>3
    <3> QED
      BY <1>4, <3>1, <3>5, <3>6, <3>7, TokensSeq, StringMade, Zenon DEF tok
  <2>4. Due(text, Wanted, Append(tokens, tok), p)
    BY <2>3, Zenon DEF Due
  <2> QED
    BY <2>1, <2>4, Zenon DEF ReadsScan, ReadsClosed
<1> QED
  BY <1>1, <1>5, <1>6, ToScan

LEMMA StringAtEndScan ==
  ASSUME IInv, ScanInv, StringAtEnd
  PROVE  ScanInv'
<1>1. phase \in {"string", "closed"} /\ At(p) = Nul /\ text' = text /\ phase' = "exit"
  BY DEF StringAtEnd, Error
<1>2. IsText(text) /\ p \in 1..(Len(text) + 1) /\ Len(text) \in Nat
  BY HasText
<1>3. ASSUME Agreed(text), Clean(text, 1), Nul \notin ToSet(text)
      PROVE  C!LexemesFrom(text)[1] # <<>> /\ Last(C!LexemesFrom(text)[1]).kind = "STRING"
  <2>1. p = Len(text) + 1
    BY <1>1, <1>2, <1>3, NoNul
  <2>2. phase # "string"
    <3> SUFFICES ASSUME phase = "string"
                 PROVE  FALSE
      OBVIOUS
    <3> DEFINE bytes == Bytes(sb)
    <3>1. ReadsString(text, Wanted, tokens, p, bytes)
      BY <1>3 DEF ScanInv
    <3> HIDE DEF bytes
    <3>2. PICK q : Bound(text, q) /\ Inside(text, q, Len(text) + 1)
      BY <1>3, <2>1, <3>1 DEF ReadsString
    <3>3. q \in 1..((Len(text) + 1) - 1) /\ text[q] = Quote
      BY <3>2, Zenon DEF Inside
    <3>4. q \in 1..Len(text)
      BY <1>2, <3>3
    <3>5. text[q] \notin C!Blank
      BY <3>3, QuoteApart, ClassesAre, Zenon
    <3>6. C!Lexeme(text, q).kind # "BAD"
      BY <1>2, <1>3, <3>2, <3>4, <3>5, BoundLexeme, Zenon
    <3> QED
      BY <1>2, <3>2, <3>4, <3>6, StringEnds, Zenon
  <2>3. ReadsClosed(text, Wanted, tokens, p, Bytes(sb))
    BY <1>1, <1>3, <2>2 DEF ScanInv
  <2>4. PICK l : Follows(text, l, p)
    BY <2>3, Zenon DEF ReadsClosed
  <2>5. C!LexemesFrom(text)[p] = <<>>
    <3>1. p \in 1..(Len(text) + 1)
      BY <1>2
    <3> QED
      BY <1>2, <2>1, <3>1, LexemesFromIs, Zenon
  <2> QED
    BY <2>4, <2>5, Zenon DEF Follows
<1>4. Agreed(text) => Refused(text)
  BY <1>3, Zenon DEF Refused
<1> QED
  BY <1>1, <1>4, ToExit

-----------------------------------------------------------------------------
\* The steps that make a token of their own.
Made(l, tok, next) == /\ l.kind \notin {"BAD", "COMMENT", "STRING"} /\ next = l.last + 1
                      /\ tok = AsExpected(AsToken(text, l))

LEMMA MadeScan ==
  ASSUME IInv, ScanInv, phase = "scan", phase' = "scan", text' = text, p \in 1..Len(text),
         text[p] \notin Blanks, NEW l, l = C!Lexeme(text, p), NEW tok,
         tokens' = Append(tokens, tok), NEW next, p' = next, Agreed(text) => Made(l, tok, next)
  PROVE  ScanInv'
<1>1. IsText(text) /\ text[p] \notin C!Blank
  BY HasText, ClassesAre
<1>2. ASSUME Agreed(text)
      PROVE  ReadsScan(text, Wanted, Append(tokens, tok), next)
  <2>1. Bound(text, p) /\ Due(text, Wanted, tokens, p)
    BY <1>2 DEF ScanInv, ReadsScan
  <2>2. /\ l.kind # "BAD" /\ l.kind \notin {"COMMENT", "STRING"} /\ next = l.last + 1
        /\ tok = AsExpected(AsToken(text, l))
    BY <1>2, Zenon DEF Made
  <2>3. Bound(text, l.last + 1)
    BY <1>1, <2>1, <2>2, BoundLexeme, Zenon
  <2>4. Due(text, Wanted, Append(tokens, tok), l.last + 1)
    BY <1>1, <2>1, <2>2, TokensSeq, TokenDue, Zenon
  <2> QED
    BY <2>2, <2>3, <2>4, Zenon DEF ReadsScan
<1> QED
  BY <1>2, ToScan

\* What the token of the lexeme l at i should be.
Shows(l, i, kind, str, val) ==
  AsExpected(AsToken(text, l)) = [kind |-> kind, str |-> str, val |-> val,
                                line |-> Line(i), column |-> Column(i)]

LEMMA ExpectedIs ==
  ASSUME IsText(text), NEW i, i \in 1..Len(text), NEW l, l = C!Lexeme(text, i), NEW j,
         l.last = j
  PROVE  /\ l.kind \in {"KWD", "IDT"} => Shows(l, i, l.kind, SubSeq(text, i, j), 0)
         /\ l.kind = "NUM" => Shows(l, i, l.kind, <<>>, Value(SubSeq(text, i, j)))
         /\ l.kind = "CHAR" => Shows(l, i, l.kind, AsRead(text, i)[j - 1], 0)
<1> DEFINE c == AsToken(text, l)
           s == SubSeq(text, i, j)
           none == <<>>
<1>1. /\ c.kind = l.kind /\ c.first = i /\ c.last = j
      /\ l.kind \in {"STRING", "CHAR"} => c.means = AsRead(text, i)[j - 1]
  BY TokenType
<1> HIDE DEF c
<1>2. SubSeq(text, c.first, c.last) = s
  BY <1>1, Zenon
<1>3. AsExpected(c) = [kind |-> c.kind,
                     str  |-> IF c.kind = "STRING" THEN UpToNul(c.means)
                              ELSE IF c.kind = "CHAR" THEN c.means
                              ELSE IF c.kind = "NUM" THEN none ELSE s,
                     val  |-> IF c.kind = "NUM" THEN Value(s) ELSE 0,
                     line |-> Line(IF c.kind = "STRING" THEN c.last + 1 + Span(c.last + 1, Blanks)
                                   ELSE c.first),
                     column |-> Column(IF c.kind = "STRING"
                                       THEN c.last + 1 + Span(c.last + 1, Blanks)
                                       ELSE c.first)]
  BY <1>2, Zenon DEF AsExpected, PlaceOf
<1> HIDE DEF s, none
<1>4. ASSUME c.kind # "STRING"
      PROVE  AsExpected(c) = [kind |-> c.kind,
                            str  |-> IF c.kind = "CHAR" THEN c.means
                                     ELSE IF c.kind = "NUM" THEN none ELSE s,
                            val  |-> IF c.kind = "NUM" THEN Value(s) ELSE 0,
                            line |-> Line(i), column |-> Column(i)]
  BY <1>1, <1>3, <1>4, Zenon
<1>5. ASSUME l.kind \in {"KWD", "IDT"}
      PROVE  Shows(l, i, l.kind, s, 0)
  <2>1. c.kind # "STRING" /\ c.kind # "CHAR" /\ c.kind # "NUM"
    BY <1>1, <1>5
  <2> QED
    BY <1>1, <1>4, <2>1, Zenon DEF Shows, c
<1>6. ASSUME l.kind = "NUM"
      PROVE  Shows(l, i, l.kind, none, Value(s))
  <2>1. c.kind # "STRING" /\ c.kind # "CHAR" /\ c.kind = "NUM"
    BY <1>1, <1>6
  <2> QED
    BY <1>1, <1>4, <2>1, Zenon DEF Shows, c
<1>7. ASSUME l.kind = "CHAR"
      PROVE  Shows(l, i, l.kind, AsRead(text, i)[j - 1], 0)
  <2>1. c.kind # "STRING" /\ c.kind = "CHAR" /\ c.kind # "NUM"
    BY <1>1, <1>7
  <2>2. c.means = AsRead(text, i)[j - 1]
    BY <1>1, <1>7
  <2> QED
    BY <1>1, <1>4, <2>1, <2>2, Zenon DEF Shows, c
<1> QED
  BY <1>5, <1>6, <1>7, Zenon DEF s, none

LEMMA AtTokenIs ==
  ASSUME IInv, AtToken
  PROVE  /\ phase = "scan" /\ IsText(text) /\ p \in 1..Len(text) /\ Len(text) \in Nat
         /\ text[p] = At(p) /\ text[p] \notin Blanks /\ text[p] # Quote /\ text[p] # "'"
         /\ ~C!OpensComment(text, p)
<1>1. /\ phase = "scan" /\ At(p) \notin Blanks /\ At(p) # Quote /\ At(p) # "'" /\ At(p) # Nul
      /\ ~Starts(p, <<"/", "/">>) /\ ~Starts(p, <<"/", "*">>)
  BY Zenon DEF AtToken, Quote
<1>2. IsText(text) /\ p \in 1..Len(text) /\ Len(text) \in Nat /\ text[p] = At(p)
  BY <1>1, HasText, Here
<1>3. ~C!OpensComment(text, p)
  <2> SUFFICES ASSUME text[p] = "/", p < Len(text), text[p + 1] = "/" \/ text[p + 1] = "*"
               PROVE  FALSE
    BY DEF C!OpensComment
  <2>1. At(p) = "/" /\ (At(p + 1) = "/" \/ At(p + 1) = "*")
    BY <1>2 DEF At
  <2>2. Starts(p, <<"/", "/">>) \/ Starts(p, <<"/", "*">>)
    BY <1>2, <2>1 DEF Starts
  <2> QED
    BY <1>1, <2>2
<1> QED
  BY <1>1, <1>2, <1>3, Zenon

\* A lexeme that C does not have is none of those the scanner is to agree on.
LEMMA NoError ==
  ASSUME IInv, ScanInv, phase = "scan", p \in 1..Len(text), text[p] \notin Blanks, Agreed(text)
  PROVE  C!Lexeme(text, p).kind # "BAD" \/ ~LenientAt(text, p)
<1>1. Bound(text, p)
  BY DEF ScanInv, ReadsScan
<1>2. IsText(text) /\ text[p] \notin C!Blank
  BY HasText, ClassesAre
<1> QED
  BY <1>1, <1>2, BoundLexeme, FirstBadIs, Zenon DEF Agreed

LEMMA OperatorScan ==
  ASSUME IInv, ScanInv, Operator
  PROVE  ScanInv'
<1> DEFINE op == MemOp(p)
           tok == NewToken("KWD", op, 0)
           l == C!Lexeme(text, p)
           j == p + Len(op) - 1
<1>1. /\ AtToken /\ op # <<>> /\ tokens' = Append(tokens, tok) /\ p' = p + Len(op)
      /\ text' = text /\ phase' = phase
  BY DEF Operator, Push, SkipColumn
<1>2. /\ phase = "scan" /\ IsText(text) /\ p \in 1..Len(text) /\ Len(text) \in Nat
      /\ text[p] \notin Blanks /\ ~C!OpensComment(text, p)
  BY <1>1, AtTokenIs, Zenon
<1>3. /\ Len(op) \in Nat \ {0} /\ l = [kind |-> "KWD", first |-> p, last |-> j]
      /\ SubSeq(text, p, j) = op
  BY <1>1, <1>2, OperatorLexeme
<1> HIDE DEF op
<1>4. p + Len(op) = j + 1
  BY <1>2, <1>3
<1>5. loc_line = Line(p) /\ loc_column = Column(p)
  BY DEF IInv, Placed
<1> HIDE DEF j, l
<1>6. Shows(l, p, "KWD", SubSeq(text, p, j), 0)
  <2>1. l.kind \in {"KWD", "IDT"} /\ l.kind = "KWD" /\ l.last = j
    BY <1>3
  <2>2. l = C!Lexeme(text, p)
    BY DEF l
  <2> QED
    BY <1>2, <2>1, <2>2, ExpectedIs, Zenon
<1>7. tok = AsExpected(AsToken(text, l))
  BY <1>3, <1>5, <1>6, Zenon DEF NewToken, Shows
<1>8. l.kind = "KWD" /\ l.last = j
  BY <1>3
<1>9. Made(l, tok, p + Len(op))
  BY <1>4, <1>7, <1>8 DEF Made
<1> HIDE DEF tok
<1> QED
  BY <1>1, <1>2, <1>9, MadeScan DEF l

-----------------------------------------------------------------------------
\* A run of characters that the text goes on behind.
LEMMA RunIs ==
  ASSUME IsText(text), NEW i, i \in 1..Len(text), NEW S, Nul \notin S, "\n" \notin S,
         Span(i, S) > 0
  PROVE  \E j \in i..(Len(text) - 1) :
           /\ j = i + Span(i, S) - 1 /\ j + 1 = i + Span(i, S)
           /\ \A k \in i..j : text[k] \in S
           /\ text[j + 1] \notin S
<1> DEFINE n == Span(i, S)
           j == i + n - 1
<1>1. Len(text) \in Nat /\ text \in Seq(Chars) /\ i \in 1..(Len(text) + 1)
  BY LengthIs DEF IsText
<1>2. /\ i + n \in i..(Len(text) + 1) /\ At(i + n) \notin S
      /\ \A k \in i..(i + n - 1) : At(k) \in S
  BY <1>1, SpanEnds, Zenon
<1>3. n \in Nat
  BY <1>1, SpanIs, Zenon
<1> HIDE DEF n
<1>4. n > 0
  BY DEF n
<1>5. j \in i..Len(text) /\ j + 1 = i + n /\ j = i + n - 1
  BY <1>1, <1>2, <1>3, <1>4
<1> HIDE DEF j
<1>6. \A k \in i..j : text[k] \in S
  BY <1>1, <1>2, <1>5 DEF At
<1>7. j # Len(text)
  BY <1>5, <1>6 DEF IsText
<1>8. j \in i..(Len(text) - 1)
  BY <1>1, <1>5, <1>7
<1>9. text[j + 1] \notin S
  BY <1>1, <1>2, <1>5, <1>8 DEF At
<1> QED
  BY <1>5, <1>6, <1>8, <1>9, Zenon DEF n

LEMMA NumberScan ==
  ASSUME IInv, ScanInv, Number
  PROVE  ScanInv'
<1> DEFINE n == Span(p, Digits)
           none == <<>>
           tok == NewToken("NUM", none, Value(SubSeq(text, p, p + n - 1)))
           l == C!Lexeme(text, p)
<1>1. /\ AtToken /\ n > 0 /\ tokens' = Append(tokens, tok) /\ p' = p + n
      /\ text' = text /\ phase' = phase
  BY DEF Number, Push, SkipColumn
<1>2. /\ phase = "scan" /\ IsText(text) /\ p \in 1..Len(text) /\ Len(text) \in Nat
      /\ text[p] \notin Blanks
  BY <1>1, AtTokenIs, Zenon
<1>3. PICK j \in p..(Len(text) - 1) : /\ j = p + n - 1 /\ j + 1 = p + n
                                     /\ \A k \in p..j : text[k] \in Digits
                                     /\ text[j + 1] \notin Digits
  BY <1>1, <1>2, RunsAre, RunIs, Zenon
<1>4. tok = NewToken("NUM", none, Value(SubSeq(text, p, j)))
  BY <1>3, Zenon
<1> HIDE DEF n, tok, none
<1>5. loc_line = Line(p) /\ loc_column = Column(p)
  BY DEF IInv, Placed
<1>6. ASSUME Agreed(text)
      PROVE  Made(l, tok, p + n)
  <2>1. l.kind # "BAD" \/ ~LenientAt(text, p)
    BY <1>2, <1>6, NoError, Zenon
  <2>2. text[j + 1] \notin C!Alnum
    <3> SUFFICES ASSUME text[j + 1] \in C!Alnum
                 PROVE  FALSE
      OBVIOUS
    <3>1. C!Lexeme(text, p).kind = "BAD" /\ LenientAt(text, p)
      <4>1. j \in p..(Len(text) - 1) /\ text[j + 1] \in C!Alnum
        OBVIOUS
      <4> QED
        BY <1>2, <1>3, <4>1, NumberIntoWord
    <3> QED
      BY <2>1, <3>1, Zenon
  <2>3. \A k \in p..j : text[k] \in C!Alnum
    BY <1>3, ClassesAre
  <2>4. C!WordShape(text, p, j) = "NUM"
    BY <1>3, ClassesAre, Zenon DEF C!WordShape
  <2>5. l = [kind |-> C!WordShape(text, p, j), first |-> p, last |-> j]
    BY <1>2, <1>3, <2>2, <2>3, RunLexeme
  <2> HIDE DEF l
  <2>6. l.kind = "NUM" /\ l.last = j
    BY <2>4, <2>5
  <2>7. Shows(l, p, l.kind, none, Value(SubSeq(text, p, j)))
    BY <1>2, <2>6, ExpectedIs, Zenon DEF l, none
  <2>8. tok = AsExpected(AsToken(text, l))
    BY <1>4, <1>5, <2>6, <2>7, Zenon DEF NewToken, Shows
  <2>9. l.kind \notin {"BAD", "COMMENT", "STRING"}
    BY <2>6
  <2> QED
    BY <1>3, <2>6, <2>8, <2>9 DEF Made
<1> QED
  BY <1>1, <1>2, <1>6, MadeScan

LEMMA WordScan ==
  ASSUME IInv, ScanInv, Word
  PROVE  ScanInv'
<1> DEFINE n == Span(p, Letters \cup Digits \cup {"_"})
           word == SubSeq(text, p, p + n - 1)
           tok == NewToken(KindOf(word), word, 0)
           l == C!Lexeme(text, p)
<1>1. /\ AtToken /\ n > 0 /\ At(p) \notin Digits /\ tokens' = Append(tokens, tok) /\ p' = p + n
      /\ text' = text /\ phase' = phase
  BY DEF Word, Push, SkipColumn
<1>2. /\ phase = "scan" /\ IsText(text) /\ p \in 1..Len(text) /\ Len(text) \in Nat
      /\ text[p] \notin Blanks /\ text[p] = At(p)
  BY <1>1, AtTokenIs, Zenon
<1>3. PICK j \in p..(Len(text) - 1) : /\ j = p + n - 1 /\ j + 1 = p + n
                                     /\ \A k \in p..j : text[k] \in C!Alnum
                                     /\ text[j + 1] \notin C!Alnum
  <2> DEFINE A == Letters \cup Digits \cup {"_"}
  <2>1. A = C!Alnum
    BY ClassesAre, Zenon
  <2>2. Nul \notin A /\ "\n" \notin A
    BY RunsAre, Zenon
  <2> HIDE DEF A
  <2>3. n = Span(p, A)
    BY Zenon DEF A
  <2> QED
    BY <1>1, <1>2, <2>1, <2>2, <2>3, RunIs, Zenon
<1>4. tok = NewToken(KindOf(SubSeq(text, p, j)), SubSeq(text, p, j), 0)
  BY <1>3, Zenon
<1> HIDE DEF n, word, tok
<1>5. loc_line = Line(p) /\ loc_column = Column(p)
  BY DEF IInv, Placed
<1> DEFINE s == SubSeq(text, p, j)
<1>6. C!WordShape(text, p, j) = KindOf(s)
  <2>1. text[p] \notin C!Digit
    BY <1>1, <1>2, ClassesAre, Zenon
  <2>2. p \in p..j
    BY <1>2
  <2> QED
    BY <2>1, <2>2, Zenon DEF C!WordShape, KindOf
<1>7. l = [kind |-> C!WordShape(text, p, j), first |-> p, last |-> j]
  BY <1>2, <1>3, RunLexeme
<1>8. KindOf(s) = "KWD" \/ KindOf(s) = "IDT"
  BY Zenon DEF KindOf
<1> HIDE DEF l, s
<1>9. l.kind = KindOf(s) /\ l.last = j /\ l.kind \in {"KWD", "IDT"}
  BY <1>6, <1>7, <1>8
<1>10. Shows(l, p, l.kind, s, 0)
  BY <1>2, <1>9, ExpectedIs, Zenon DEF l, s
<1>11. tok = AsExpected(AsToken(text, l))
  BY <1>4, <1>5, <1>9, <1>10, Zenon DEF NewToken, Shows, s
<1>12. Made(l, tok, p + n)
  <2>1. l.kind \notin {"BAD", "COMMENT", "STRING"}
    BY <1>9
  <2> QED
    BY <1>3, <1>9, <1>11, <2>1 DEF Made
<1> QED
  BY <1>1, <1>2, <1>12, MadeScan DEF l

LEMMA UnknownScan ==
  ASSUME IInv, ScanInv, Unknown
  PROVE  ScanInv'
<1>1. /\ AtToken /\ text' = text /\ phase' = "exit" /\ At(p) \notin Letters \cup Digits \cup {"_"}
  BY DEF Unknown, Error
<1>2. MemOp(p) = <<>>
  BY Zenon DEF Unknown
<1>3. /\ phase = "scan" /\ IsText(text) /\ p \in 1..Len(text) /\ text[p] = At(p)
      /\ text[p] \notin Blanks /\ text[p] # Quote /\ text[p] # "'"
      /\ ~C!OpensComment(text, p)
  BY <1>1, AtTokenIs, Zenon
<1>4. text[p] \notin C!Alnum
  BY <1>1, <1>3, ClassesAre, Zenon
<1>5. C!Lexeme(text, p).kind = "BAD"
  BY <1>2, <1>3, <1>4, NoLexeme, Zenon
<1>6. ASSUME Agreed(text), Clean(text, 1)
      PROVE  FALSE
  <2>1. Bound(text, p)
    BY <1>3, <1>6 DEF ScanInv, ReadsScan
  <2> QED
    BY <1>3, <1>5, <1>6, <2>1, BoundLexeme, ClassesAre, Zenon
<1>7. Agreed(text) => Refused(text)
  BY <1>6, Zenon DEF Refused
<1> QED
  BY <1>1, <1>7, ToExit

LEMMA EndScan ==
  ASSUME IInv, ScanInv, End
  PROVE  ScanInv'
<1>1. /\ phase = "scan" /\ At(p) = Nul /\ text' = text /\ phase' = "done" /\ p' = p
      /\ tokens' = tokens
  BY DEF End, Goto
<1>2. AtNul(text, p)
  BY <1>1, NoNul
<1>3. Agreed(text) => ReadsScan(text, Wanted, tokens, p)
  BY <1>1 DEF ScanInv
<1> QED
  BY <1>1, <1>2, <1>3, ToDone

LEMMA StopScan ==
  ASSUME ScanInv, UNCHANGED vars
  PROVE  ScanInv'
BY WantedKept DEF ScanInv, vars

-----------------------------------------------------------------------------
\* Character literals.
LEMMA CharRead ==
  ASSUME NEW t, IsText(t), NEW i, i \in 1..Len(t), t[i] = "'"
  PROVE  /\ i + 1 <= Len(t) /\ t[i + 1] # "\\" => AsRead(t, i)[i + 1] = <<t[i + 1]>>
         /\ i + 2 <= Len(t) /\ t[i + 1] = "\\" =>
              AsRead(t, i)[i + 2] = <<Escaped(t[i + 2])>>
<1>1. t[i] # "\\" /\ Len(t) \in Nat /\ i \in Nat
  BY ApostropheApart, LengthIs
<1>2. AsRead(t, i)[i] = <<>> /\ \A k \in (i + 1)..Len(t) :
        AsRead(t, i)[k] = ReadNext(t, i, k, AsRead(t, i)[k - 1])
  BY ReadFromIs, Zenon
<1>3. ~C!Shielded(t, i, i + 1)
  BY <1>1, ShieldedFirst, Zenon
<1>4. \A x : Append(<<>>, x) = <<x>>
  OBVIOUS
<1>5. ASSUME i + 1 <= Len(t)
      PROVE  AsRead(t, i)[i + 1] = ReadNext(t, i, i + 1, <<>>)
  <2>1. i + 1 \in (i + 1)..Len(t) /\ (i + 1) - 1 = i
    BY <1>1, <1>5
  <2>2. AsRead(t, i)[i + 1] = ReadNext(t, i, i + 1, AsRead(t, i)[(i + 1) - 1])
    BY <1>2, <2>1, Zenon
  <2> QED
    BY <1>2, <2>1, <2>2, Zenon
<1>6. ASSUME i + 1 <= Len(t), t[i + 1] # "\\"
      PROVE  AsRead(t, i)[i + 1] = <<t[i + 1]>>
  BY <1>3, <1>4, <1>5, <1>6, Zenon DEF ReadNext
<1>7. ASSUME i + 2 <= Len(t), t[i + 1] = "\\"
      PROVE  AsRead(t, i)[i + 2] = <<Escaped(t[i + 2])>>
  <2>1. /\ i + 1 <= Len(t) /\ i + 1 \in (i + 1)..Len(t) /\ (i + 1) + 1 = i + 2
        /\ i + 2 \in (i + 1)..Len(t) /\ (i + 2) - 1 = i + 1
    BY <1>1, <1>7
  <2>2. AsRead(t, i)[i + 1] = <<>>
    BY <1>3, <1>5, <1>7, <2>1, Zenon DEF ReadNext
  <2>3. C!Shielded(t, i, i + 2)
    <3>1. C!Shielded(t, i, (i + 1) + 1)
      BY <1>1, <1>3, <1>7, <2>1, ShieldedNext, Zenon
    <3> QED
      BY <2>1, <3>1
  <2>4. AsRead(t, i)[i + 2] = ReadNext(t, i, i + 2, AsRead(t, i)[(i + 2) - 1])
    BY <1>2, <2>1, Zenon
  <2>5. AsRead(t, i)[i + 2] = ReadNext(t, i, i + 2, <<>>)
    BY <2>1, <2>2, <2>4, Zenon
  <2> QED
    BY <1>4, <2>3, <2>5, Zenon DEF ReadNext
<1> QED
  BY <1>6, <1>7

\* What CharLiteral does, by the place of the quote.
CharRefusedAt(e) == At(e - 1) = Nul \/ At(e) # "'"

LEMMA CharSteps ==
  ASSUME IInv, CharLiteral
  PROVE  /\ phase = "scan" /\ At(p) = "'" /\ text' = text
         /\ CharRefusedAt(CharEnd) => phase' = "exit"
         /\ ~CharRefusedAt(CharEnd) =>
              /\ phase' = "scan" /\ p' = CharEnd + 1
              /\ tokens' = Append(tokens, NewToken("CHAR",
                   <<IF CharEnd = p + 3 THEN Escaped(At(CharEnd - 1)) ELSE At(CharEnd - 1)>>, 0))
<1>1. p \in Nat
  BY TextIs
<1>2. CharEnd = p + 3 \/ CharEnd = p + 2
  BY Zenon DEF CharEnd
<1> DEFINE e == CharEnd
<1>3. p + (e + 1 - p) = e + 1
  <2> HIDE DEF e
  <2>1. e = p + 3 \/ e = p + 2
    BY <1>2 DEF e
  <2> QED
    BY <1>1, <2>1
<1>4. /\ phase = "scan" /\ At(p) = "'"
      /\ CharRefusedAt(e) => Error
      /\ ~CharRefusedAt(e) =>
           /\ Push("CHAR", <<IF e = p + 3 THEN Escaped(At(e - 1)) ELSE At(e - 1)>>, 0)
           /\ p' = e + 1 \/ SkipColumn(e + 1 - p)
           /\ UNCHANGED <<text, string_literals, sb, phase>>
  BY Zenon DEF CharLiteral, CharRefusedAt
<1> HIDE DEF e
<1>5. SkipColumn(e + 1 - p) => p' = e + 1
  BY <1>3 DEF SkipColumn, e
<1>6. ASSUME CharRefusedAt(e)
      PROVE  text' = text /\ phase' = "exit"
  BY <1>4, <1>6 DEF Error
<1>7. ASSUME ~CharRefusedAt(e)
      PROVE  /\ text' = text /\ phase' = "scan" /\ p' = e + 1
             /\ tokens' = Append(tokens, NewToken("CHAR",
                  <<IF e = p + 3 THEN Escaped(At(e - 1)) ELSE At(e - 1)>>, 0))
  <2>1. /\ Push("CHAR", <<IF e = p + 3 THEN Escaped(At(e - 1)) ELSE At(e - 1)>>, 0)
        /\ p' = e + 1 /\ text' = text /\ phase' = phase
    BY <1>4, <1>5, <1>7, Zenon
  <2> QED
    BY <1>4, <2>1, Zenon DEF Push
<1> QED
  BY <1>4, <1>6, <1>7, Zenon DEF e

LEMMA CharLiteralScan ==
  ASSUME IInv, ScanInv, CharLiteral
  PROVE  ScanInv'
<1> DEFINE e == CharEnd
           x == IF e = p + 3 THEN Escaped(At(e - 1)) ELSE At(e - 1)
           s == <<x>>
           tok == NewToken("CHAR", s, 0)
           l == C!Lexeme(text, p)
<1>1. /\ phase = "scan" /\ At(p) = "'" /\ text' = text
      /\ CharRefusedAt(e) => phase' = "exit"
      /\ ~CharRefusedAt(e) => phase' = "scan" /\ p' = e + 1 /\ tokens' = Append(tokens, tok)
  BY CharSteps, Zenon
<1>2. At(p) # Nul
  BY <1>1, QuoteIs, Zenon
<1>3. /\ IsText(text) /\ p \in 1..Len(text) /\ Len(text) \in Nat /\ text[p] = "'"
      /\ text \in Seq(Chars) /\ DOMAIN text = 1..Len(text)
  BY <1>1, <1>2, HasText, Here, LengthIs DEF IsText
<1>4. text[p] \notin Blanks
  BY <1>3, ApostropheApart, Zenon
<1>5. \/ e = p + 3 /\ At(p + 2) # Nul /\ At(p + 1) = "\\"
      \/ e = p + 2 /\ (At(p + 2) = Nul \/ At(p + 1) # "\\")
  BY Zenon DEF CharEnd
<1> HIDE DEF e
<1>6. ASSUME CharRefusedAt(e), Agreed(text), Clean(text, 1), Nul \notin ToSet(text)
      PROVE  \E m \in ToSet(C!LexemesFrom(text)[1]) : LongCharacter(text, m)
  <2>1. Bound(text, p)
    BY <1>1, <1>6 DEF ScanInv, ReadsScan
  <2>2. l.kind # "BAD" /\ l \in ToSet(C!LexemesFrom(text)[1])
    BY <1>3, <1>4, <1>6, <2>1, BoundLexeme, ClassesAre, Zenon
  <2>3. \/ p + 2 <= Len(text) /\ text[p + 1] # "\\" /\ text[p + 2] = "'"
        \/ p + 3 <= Len(text) /\ text[p + 1] = "\\" /\ text[p + 3] = "'"
        \/ LongCharacter(text, l)
    BY <1>3, <2>2, CharRefused, Zenon
  <2>4. At(e) # "'"
    <3> SUFFICES ASSUME At(e - 1) = Nul, At(e) = "'"
                 PROVE  FALSE
      BY <1>6 DEF CharRefusedAt
    <3>1. e - 1 \in Nat \ {0} /\ e \in Nat /\ At(e) # Nul
      <4>1. e = p + 3 \/ e = p + 2
        BY <1>5, Zenon
      <4>2. At(e) # Nul
        BY QuoteIs, Zenon
      <4> QED
        BY <1>3, <4>1, <4>2
    <3>2. e - 1 \in DOMAIN text
      BY <1>3, <3>1 DEF At
    <3>3. text[e - 1] = Nul
      BY <1>3, <3>1, <3>2 DEF At
    <3> QED
      BY <1>6, <3>2, <3>3, Zenon DEF ToSet
  <2>5. ASSUME p + 2 <= Len(text), text[p + 1] # "\\", text[p + 2] = "'"
        PROVE  FALSE
    <3>1. At(p + 1) # "\\" /\ At(p + 2) = "'"
      BY <1>3, <2>5 DEF At
    <3> QED
      BY <1>5, <2>4, <3>1
  <2>6. ASSUME p + 3 <= Len(text), text[p + 1] = "\\", text[p + 3] = "'"
        PROVE  FALSE
    <3>1. /\ At(p + 1) = "\\" /\ At(p + 3) = "'" /\ At(p + 2) = text[p + 2]
          /\ p + 2 \in DOMAIN text
      BY <1>3, <2>6 DEF At
    <3>2. At(p + 2) # Nul
      BY <1>6, <3>1, Zenon DEF ToSet
    <3> QED
      BY <1>5, <2>4, <3>1, <3>2
  <2> QED
    BY <2>2, <2>3, <2>5, <2>6, Zenon
<1>7. ASSUME At(e) = "'"
      PROVE  /\ e \in 1..Len(text) /\ text[e] = "'"
             /\ \/ e = p + 2 /\ text[p + 1] # "\\"
                \/ e = p + 3 /\ text[p + 1] = "\\"
  <2>1. e \in Nat \ {0} /\ At(e) # Nul
    <3>1. e = p + 3 \/ e = p + 2
      BY <1>5, Zenon
    <3>2. At(e) # Nul
      BY <1>7, QuoteIs, Zenon
    <3> QED
      BY <1>3, <3>1, <3>2
  <2>2. e \in 1..Len(text) /\ text[e] = "'"
    BY <1>3, <1>7, <2>1, Unread
  <2> QED
    BY <1>3, <1>5, <1>7, <2>1, <2>2 DEF At
<1>8. ASSUME At(e) = "'"
      PROVE  AsRead(text, p)[e - 1] = s
  <2>1. CASE e = p + 2 /\ text[p + 1] # "\\"
    <3>1. e - 1 = p + 1 /\ e # p + 3 /\ p + 1 <= Len(text) /\ At(p + 1) = text[p + 1]
      BY <1>3, <1>7, <1>8, <2>1 DEF At
    <3>2. x = text[p + 1]
      BY <3>1
    <3>3. AsRead(text, p)[p + 1] = <<text[p + 1]>>
      BY <1>3, <2>1, <3>1, CharRead, Zenon
    <3> QED
      BY <3>1, <3>2, <3>3
  <2>2. CASE e = p + 3 /\ text[p + 1] = "\\"
    <3>1. e - 1 = p + 2 /\ p + 2 <= Len(text) /\ At(p + 2) = text[p + 2]
      BY <1>3, <1>7, <1>8, <2>2 DEF At
    <3>3. x = Escaped(text[p + 2])
      BY <2>2, <3>1
    <3>4. AsRead(text, p)[p + 2] = <<Escaped(text[p + 2])>>
      BY <1>3, <2>2, <3>1, CharRead, Zenon
    <3> HIDE DEF x
    <3> QED
      BY <3>1, <3>3, <3>4
  <2> QED
    BY <1>7, <1>8, <2>1, <2>2
<1>9. loc_line = Line(p) /\ loc_column = Column(p)
  BY DEF IInv, Placed
<1> HIDE DEF x, s
<1>10. ASSUME Agreed(text), At(e) = "'"
       PROVE  Made(l, tok, e + 1)
  <2>1. l.kind # "BAD" \/ ~LenientAt(text, p)
    BY <1>1, <1>3, <1>4, <1>10, NoError, Zenon
  <2>2. l = [kind |-> "CHAR", first |-> p, last |-> e]
    BY <1>3, <1>7, <1>10, <2>1, CharLexeme
  <2> HIDE DEF l
  <2>3. l.kind = "CHAR" /\ l.last = e
    BY <2>2
  <2>4. Shows(l, p, l.kind, AsRead(text, p)[e - 1], 0)
    BY <1>3, <2>3, ExpectedIs, Zenon DEF l
  <2>5. tok = AsExpected(AsToken(text, l))
    BY <1>8, <1>9, <1>10, <2>3, <2>4, Zenon DEF NewToken, Shows
  <2>6. l.kind \notin {"BAD", "COMMENT", "STRING"}
    BY <2>3
  <2> QED
    BY <2>3, <2>5, <2>6, Zenon DEF Made
<1> HIDE DEF tok, l
<1>11. CASE CharRefusedAt(e)
  <2>1. Agreed(text) => Refused(text)
    BY <1>6, <1>11, Zenon DEF Refused
  <2> QED
    BY <1>1, <1>11, <2>1, ToExit
<1>12. CASE ~CharRefusedAt(e)
  <2>1. At(e) = "'"
    BY <1>12 DEF CharRefusedAt
  <2> QED
    BY <1>1, <1>3, <1>4, <1>10, <1>12, <2>1, MadeScan DEF l
<1> QED
  BY <1>11, <1>12

-----------------------------------------------------------------------------
\* The invariant of both readings.
LEMMA InitScan == Init => ScanInv
<1> SUFFICES ASSUME Init
             PROVE  ScanInv
  OBVIOUS
<1>1. IsText(text) /\ phase = "scan" /\ p = 1 /\ tokens = <<>>
  BY InitIInv, HasText DEF Init
<1>2. Bound(text, 1)
  BY <1>1, BoundFirst, Zenon
<1>3. Len(tokens) = 0
  BY <1>1
<1>4. Scanned(Wanted, tokens)
  BY <1>3 DEF Scanned
<1>5. Follow(text, Len(tokens), AsTokensFrom(text)[1])
  <2> DEFINE v == Every(text)
  <2>1. Len(v) \in Nat /\ v = AsTokensFrom(text)[1]
    BY <1>1, EveryType, Zenon DEF Every
  <2> HIDE DEF v
  <2>2. Len(v) = 0 + Len(v) /\ \A k \in 1..Len(v) : v[0 + k] = v[k]
    BY <2>1
  <2> QED
    BY <1>3, <2>1, <2>2, Zenon DEF Follow, v
<1>6. ReadsScan(text, Wanted, tokens, 1)
  BY <1>2, <1>4, <1>5, Zenon DEF ReadsScan, Due
<1> QED
  BY <1>1, <1>6 DEF ScanInv

LEMMA StepScan == IInv /\ ScanInv /\ [Next]_vars => ScanInv'
<1> SUFFICES ASSUME IInv, ScanInv, [Next]_vars
             PROVE  ScanInv'
  OBVIOUS
<1>1. CASE Space \/ InLine \/ EndLine \/ BeginComment \/ InComment \/ EndComment
  BY <1>1, SpaceScan, InLineScan, EndLineScan, BeginCommentScan, InCommentScan,
     EndCommentScan, Zenon
<1>2. CASE BeginString \/ StringEscape \/ StringChar \/ StringClose
  BY <1>2, BeginStringScan, StringEscapeScan, StringCharScan, StringCloseScan, Zenon
<1>3. CASE StringSpace \/ StringGoesOn \/ StringDone \/ StringAtEnd
  BY <1>3, StringSpaceScan, StringGoesOnScan, StringDoneScan, StringAtEndScan, Zenon
<1>4. CASE CharLiteral \/ Operator \/ Number \/ Word \/ Unknown \/ End
  BY <1>4, CharLiteralScan, OperatorScan, NumberScan, WordScan, UnknownScan, EndScan, Zenon
<1>5. CASE UNCHANGED vars
  BY <1>5, StopScan, Zenon
<1> QED
  BY <1>1, <1>2, <1>3, <1>4, <1>5, Zenon DEF Next, Step, Stop

LEMMA ScanKept == Spec => [](IInv /\ ScanInv)
BY InitIInv, InitScan, StepIInv, StepScan, PTL DEF Spec

\* C has no lexeme that begins with a NUL.
LEMMA NulLexeme ==
  ASSUME NEW t, IsText(t), NEW i, i \in 1..Len(t), t[i] = Nul
  PROVE  t[i] \notin C!Blank /\ C!Lexeme(t, i).kind = "BAD"
<1>1. t[i] \notin C!Blank /\ t[i] \notin C!Alnum /\ t[i] \notin OpChars
  BY ClassesAre, BlanksAre, RunsAre, OpCharsAre, Zenon
<1>2. t[i] # Quote /\ t[i] # "'"
  BY QuoteApart, ApostropheApart, Zenon
<1>3. ~C!OpensComment(t, i)
  BY DEF C!OpensComment, Nul
<1>4. Ends(t, i) = {}
  <2> SUFFICES ASSUME NEW j, j \in Ends(t, i)
               PROVE  FALSE
    OBVIOUS
  <2>1. j \in i..Len(t) /\ C!Shape(t, i, j) # "none"
    BY DEF Ends
  <2>2. i \in i..j
    BY <2>1, LengthIs
  <2>3. SubSeq(t, i, j) \notin ToSet(ops)
    BY <1>1, <2>1, NotOperator, Zenon
  <2> QED
    BY <1>1, <1>2, <1>3, <2>1, <2>2, <2>3, PlainShape, Zenon
<1> QED
  BY <1>1, <1>4, LexemeShape, Zenon

\* Where C finds no error, the scanner stops at the end of the text.
LEMMA DoneAtEnd ==
  ASSUME IInv, ScanInv, phase = "done", Agreed(text),
         Clean(text, 1) \/ Nul \notin ToSet(text)
  PROVE  p = Len(text) + 1 /\ C!LexemesFrom(text)[p] = <<>>
<1>1. IsText(text) /\ p \in 1..(Len(text) + 1) /\ Len(text) \in Nat /\ DOMAIN text = 1..Len(text)
  BY HasText, LengthIs
<1>2. Bound(text, p) /\ AtNul(text, p)
  BY DEF ScanInv, ReadsScan
<1>3. ~(p <= Len(text))
  <2> SUFFICES ASSUME p <= Len(text)
               PROVE  FALSE
    OBVIOUS
  <2>1. p \in 1..Len(text) /\ text[p] = Nul
    BY <1>1, <1>2 DEF AtNul
  <2>2. Nul \in ToSet(text)
    BY <1>1, <2>1 DEF ToSet
  <2>3. text[p] \notin C!Blank /\ C!Lexeme(text, p).kind = "BAD"
    BY <1>1, <2>1, NulLexeme, Zenon
  <2> QED
    BY <1>1, <1>2, <2>1, <2>2, <2>3, BoundLexeme, Zenon
<1>4. p = Len(text) + 1
  BY <1>1, <1>3
<1> QED
  BY <1>1, <1>4, LexemesFromIs, Zenon

LEMMA LexableIs ==
  ASSUME NEW t
  PROVE  C!Lexable(t) <=> Clean(t, 1)
BY BadIs DEF C!Lexable, Clean

-----------------------------------------------------------------------------
\* C's tokens against those that ccatd takes: they are the same but for the escapes.
LEMMA EscapeKnown ==
  ASSUME NEW t, NEW k, C!Escape(t, k) \in KnownEscapes
  PROVE  C!Meaning(C!Escape(t, k)) = Escaped(t[k])
<1>1. C!Escape(t, k) = t[k]
  <2>1. "code" \notin KnownEscapes
    BY DEF KnownEscapes
  <2>2. C!Escape(t, k) = "code" \/ C!Escape(t, k) = t[k]
    BY Zenon DEF C!Escape
  <2> QED
    BY <2>1, <2>2, Zenon
<1>2. \A e \in KnownEscapes : C!Meaning(e) = Escaped(e)
  BY DEF KnownEscapes, C!Meaning, Escaped, Nul
<1> QED
  BY <1>1, <1>2, Zenon

LEMMA ReadAlike ==
  ASSUME NEW t, IsText(t), NEW i, i \in 1..Len(t), NEW last, last \in (i + 1)..Len(t),
         \A k \in (i + 1)..(last - 1) : C!Shielded(t, i, k) => C!Escape(t, k) \in KnownEscapes
  PROVE  AsRead(t, i)[last - 1] = C!ReadFrom(t, i)[last - 1]
<1> DEFINE r == AsRead(t, i)
           s == C!ReadFrom(t, i)
           n == (last - 1) - i
           S == {m \in 0..n : r[i + m] = s[i + m]}
<1>1. i \in Nat /\ n \in Nat /\ i + n = last - 1 /\ last - 1 <= Len(t) /\ Len(t) \in Nat
  BY LengthIs
<1>2. 0 \in S
  <2>1. r[i] = s[i]
    BY ReadFromIs, ReadOfCIs, Zenon
  <2>2. i + 0 = i /\ 0 \in 0..n
    BY <1>1
  <2> HIDE DEF r, s, n
  <2> QED
    BY <2>1, <2>2
<1>3. ASSUME NEW m \in 0..(n - 1), m \in S
      PROVE  m + 1 \in S
  <2> DEFINE k == i + (m + 1)
  <2>1. /\ k \in (i + 1)..Len(t) /\ k \in (i + 1)..(last - 1) /\ k - 1 = i + m
        /\ m + 1 \in 0..n
    BY <1>1
  <2>2. r[k] = ReadNext(t, i, k, r[k - 1]) /\ s[k] = ReadNextOfC(t, i, k, s[k - 1])
    BY <2>1, ReadFromIs, ReadOfCIs, Zenon
  <2>3. C!Shielded(t, i, k) => C!Meaning(C!Escape(t, k)) = Escaped(t[k])
    BY <2>1, EscapeKnown, Zenon
  <2>4. r[k - 1] = s[k - 1]
    <3> HIDE DEF r, s, n, k
    <3> QED
      BY <1>3, <2>1
  <2>5. r[k] = s[k]
    <3> HIDE DEF r, s, k
    <3>1. CASE C!Shielded(t, i, k)
      BY <2>2, <2>3, <2>4, <3>1, Zenon DEF ReadNext, ReadNextOfC
    <3>2. CASE ~C!Shielded(t, i, k)
      BY <2>2, <2>4, <3>2, Zenon DEF ReadNext, ReadNextOfC
    <3> QED
      BY <3>1, <3>2
  <2> HIDE DEF r, s, n
  <2> QED
    BY <2>1, <2>5
<1>4. \A m \in 0..n : m \in S
  <2> HIDE DEF S, n
  <2> QED
    BY <1>1, <1>2, <1>3, UpTo
<1>5. n \in 0..n
  BY <1>1
<1>6. r[i + n] = s[i + n]
  <2> HIDE DEF r, s, n
  <2> QED
    BY <1>4, <1>5
<1> HIDE DEF r, s, n
<1>7. r[last - 1] = s[last - 1]
  BY <1>1, <1>6, Zenon
<1> QED
  BY <1>7, Zenon DEF r, s

\* A token of ccatd and one of C.
Like(a, b) == /\ a.kind = b.kind /\ a.first = b.first /\ a.last = b.last
              /\ b.escapes \subseteq KnownEscapes => a.means = b.means

Alike(ts, us) == /\ \E B : us \in Seq(B)
                 /\ Len(ts) = Len(us) /\ \A k \in 1..Len(ts) : Like(ts[k], us[k])

LEMMA TokenAlike ==
  ASSUME NEW t, IsText(t), NEW q, q \in 1..Len(t), NEW l, l = C!Lexeme(t, q)
  PROVE  Like(AsToken(t, l), C!Token(t, l))
<1> DEFINE a == AsToken(t, l)
           b == C!Token(t, l)
           es == IF C!IsLiteral(l) THEN C!Escapes(t, l) ELSE {}
           m == IF C!IsLiteral(l) THEN C!Contents(t, l) ELSE <<>>
           am == IF l.kind \in {"STRING", "CHAR"} THEN AsContents(t, l) ELSE <<>>
<1>1. b = [kind |-> l.kind, first |-> l.first, last |-> l.last, escapes |-> es, means |-> m]
  BY Zenon DEF C!Token
<1>2. a = [kind |-> l.kind, first |-> l.first, last |-> l.last, means |-> am]
  BY Zenon DEF AsToken
<1>3. ASSUME es \subseteq KnownEscapes, C!IsLiteral(l)
      PROVE  AsContents(t, l) = C!Contents(t, l)
  <2>1. l.first = q /\ l.last \in (q + 1)..Len(t)
    BY <1>3, LexemeType, LiteralIs, Zenon DEF C!IsLiteral
  <2>2. \A k \in (q + 1)..(l.last - 1) : C!Shielded(t, q, k) => C!Escape(t, k) \in KnownEscapes
    <3>1. C!Escapes(t, l) \subseteq KnownEscapes
      BY <1>3, Zenon
    <3> QED
      BY <2>1, <3>1 DEF C!Escapes
  <2>3. AsRead(t, q)[l.last - 1] = C!ReadFrom(t, q)[l.last - 1]
    <3> DEFINE last == l.last
    <3> HIDE DEF last
    <3>1. last \in (q + 1)..Len(t)
      BY <2>1, Zenon DEF last
    <3>2. \A k \in (q + 1)..(last - 1) : C!Shielded(t, q, k) => C!Escape(t, k) \in KnownEscapes
      BY <2>2, Zenon DEF last
    <3>3. AsRead(t, q)[last - 1] = C!ReadFrom(t, q)[last - 1]
      BY <3>1, <3>2, ReadAlike, Zenon
    <3> QED
      BY <3>3, Zenon DEF last
  <2> QED
    BY <2>1, <2>3, Zenon DEF AsContents, C!Contents
<1>4. es \subseteq KnownEscapes => am = m
  BY <1>3, Zenon DEF C!IsLiteral
<1> HIDE DEF a, b, es, m, am
<1>5. /\ a.kind = l.kind /\ a.first = l.first /\ a.last = l.last /\ a.means = am
      /\ b.kind = l.kind /\ b.first = l.first /\ b.last = l.last /\ b.means = m
      /\ b.escapes = es
  BY <1>1, <1>2
<1>6. Like(a, b)
  BY <1>4, <1>5, Zenon DEF Like
<1> QED
  BY <1>6, Zenon DEF a, b

LEMMA JoinedAlike ==
  ASSUME NEW a, NEW b, NEW x, NEW y, Like(a, b), Like(x, y)
  PROVE  Like(AsJoined(a, x), C!Joined(b, y))
<1> DEFINE j == AsJoined(a, x)
           c == C!Joined(b, y)
           jm == a.means \o x.means
           cm == b.means \o y.means
           es == b.escapes \cup y.escapes
<1>1. j = [kind |-> "STRING", first |-> a.first, last |-> x.last, means |-> jm]
  BY Zenon DEF AsJoined
<1>2. c = [kind |-> "STRING", first |-> b.first, last |-> y.last, escapes |-> es, means |-> cm]
  BY Zenon DEF C!Joined
<1>3. es \subseteq KnownEscapes => b.escapes \subseteq KnownEscapes /\ y.escapes \subseteq KnownEscapes
  OBVIOUS
<1>4. es \subseteq KnownEscapes => jm = cm
  BY <1>3, Zenon DEF Like
<1> HIDE DEF j, c, jm, cm, es
<1>5. /\ j.kind = "STRING" /\ j.first = a.first /\ j.last = x.last /\ j.means = jm
      /\ c.kind = "STRING" /\ c.first = b.first /\ c.last = y.last /\ c.means = cm
      /\ c.escapes = es
  BY <1>1, <1>2
<1>6. Like(j, c)
  BY <1>4, <1>5, Zenon DEF Like
<1> QED
  BY <1>6, Zenon DEF j, c

LEMMA ConsAlike ==
  ASSUME NEW A, NEW x, x \in A, NEW ts, ts \in Seq(A), NEW y, NEW us, Like(x, y), Alike(ts, us)
  PROVE  Alike(<<x>> \o ts, <<y>> \o us)
<1>1. PICK B0 : us \in Seq(B0)
  BY Zenon DEF Alike
<1> DEFINE B == B0 \cup {y}
<1>2. B0 \subseteq B /\ y \in B
  OBVIOUS
<1> HIDE DEF B
<1>3. us \in Seq(B)
  BY <1>1, <1>2, Wider
<1> DEFINE u == <<x>> \o ts
           v == <<y>> \o us
<1>4. Len(u) = Len(ts) + 1 /\ u[1] = x /\ \A k \in 1..Len(ts) : u[k + 1] = ts[k]
  <2>1. x \in A /\ ts \in Seq(A)
    OBVIOUS
  <2> HIDE DEF v
  <2> QED
    BY <2>1, ConsIs
<1>5. v \in Seq(B) /\ Len(v) = Len(us) + 1 /\ v[1] = y /\ \A k \in 1..Len(us) : v[k + 1] = us[k]
  BY <1>2, <1>3, ConsIs
<1>6. Len(ts) \in Nat /\ Len(ts) = Len(us) /\ \A k \in 1..Len(ts) : Like(ts[k], us[k])
  <2>1. Len(ts) \in Nat
    OBVIOUS
  <2> QED
    BY <2>1, Zenon DEF Alike
<1> HIDE DEF u, v
<1>7. Len(u) = Len(v)
  BY <1>4, <1>5, <1>6
<1>8. ASSUME NEW k \in 1..Len(u)
      PROVE  Like(u[k], v[k])
  <2>1. CASE k = 1
    BY <1>4, <1>5, <2>1, Zenon
  <2>2. CASE k # 1
    <3>1. k - 1 \in 1..Len(ts) /\ (k - 1) + 1 = k
      BY <1>4, <1>6, <2>2
    <3>2. u[(k - 1) + 1] = ts[k - 1] /\ v[(k - 1) + 1] = us[k - 1]
      BY <1>4, <1>5, <1>6, <3>1, Zenon
    <3> QED
      BY <1>6, <3>1, <3>2, Zenon
  <2> QED
    BY <2>1, <2>2
<1>9. Alike(u, v)
  BY <1>5, <1>7, <1>8, Zenon DEF Alike
<1> QED
  BY <1>9, Zenon DEF u, v

LEMMA TailIs ==
  ASSUME NEW S, NEW s, s \in Seq(S), s # <<>>
  PROVE  /\ s[1] \in S /\ Tail(s) \in Seq(S) /\ Len(Tail(s)) = Len(s) - 1
         /\ \A k \in 1..(Len(s) - 1) : Tail(s)[k] = s[k + 1]
<1>1. Len(s) \in Nat /\ Len(s) # 0
  BY EmptySeq
<1> QED
  BY <1>1

LEMMA TailAlike ==
  ASSUME NEW A, NEW ts, ts \in Seq(A), ts # <<>>, NEW us, Alike(ts, us)
  PROVE  us # <<>> /\ Like(ts[1], us[1]) /\ Alike(Tail(ts), Tail(us))
<1>1. PICK B : us \in Seq(B)
  BY Zenon DEF Alike
<1>2. Len(ts) \in Nat /\ Len(ts) = Len(us) /\ \A k \in 1..Len(ts) : Like(ts[k], us[k])
  <2>1. Len(ts) \in Nat
    OBVIOUS
  <2> QED
    BY <2>1, Zenon DEF Alike
<1>3. Len(ts) # 0
  BY EmptySeq
<1>4. us # <<>> /\ 1 \in 1..Len(ts)
  BY <1>1, <1>2, <1>3, EmptySeq
<1> DEFINE u == Tail(ts)
           v == Tail(us)
<1>5. Len(u) = Len(ts) - 1 /\ \A k \in 1..(Len(ts) - 1) : u[k] = ts[k + 1]
  BY TailIs, Zenon
<1>6. v \in Seq(B) /\ Len(v) = Len(us) - 1 /\ \A k \in 1..(Len(us) - 1) : v[k] = us[k + 1]
  BY <1>1, <1>4, TailIs, Zenon
<1> HIDE DEF u, v
<1>7. ASSUME NEW k \in 1..Len(u)
      PROVE  Like(u[k], v[k])
  <2>1. k \in 1..(Len(ts) - 1) /\ k + 1 \in 1..Len(ts)
    BY <1>2, <1>5
  <2>2. u[k] = ts[k + 1] /\ v[k] = us[k + 1]
    BY <1>2, <1>5, <1>6, <2>1, Zenon
  <2> QED
    BY <1>2, <2>1, <2>2, Zenon
<1>8. Len(u) = Len(v)
  BY <1>2, <1>5, <1>6
<1>9. Alike(u, v)
  BY <1>6, <1>7, <1>8, Zenon DEF Alike
<1> QED
  BY <1>2, <1>4, <1>9, Zenon DEF u, v

LEMMA OpensAlike ==
  ASSUME NEW A, NEW ts, ts \in Seq(A), NEW us, Alike(ts, us), NEW kind
  PROVE  C!Opens(ts, kind) <=> C!Opens(us, kind)
<1>1. CASE ts = <<>>
  <2>1. PICK B : us \in Seq(B)
    BY Zenon DEF Alike
  <2>2. Len(us) = 0
    BY <1>1 DEF Alike
  <2>3. us = <<>>
    BY <2>1, <2>2, EmptySeq
  <2> QED
    BY <1>1, <2>3, Zenon DEF C!Opens
<1>2. CASE ts # <<>>
  <2>1. us # <<>> /\ Like(ts[1], us[1])
    BY <1>2, TailAlike, Zenon
  <2> QED
    BY <1>2, <2>1, Zenon DEF C!Opens, Like
<1> QED
  BY <1>1, <1>2

LEMMA ThenAlike ==
  ASSUME NEW t, IsText(t), NEW q, q \in 1..Len(t), NEW l, l = C!Lexeme(t, q),
         NEW ts, ts \in Seq(TokensType(t)), NEW us, Alike(ts, us)
  PROVE  Alike(TokenThen(t, l, ts), TokenOfCThen(t, l, us))
<1> DEFINE x == AsToken(t, l)
           y == C!Token(t, l)
<1>1. x \in TokensType(t) /\ Like(x, y)
  BY TokenType, TokenAlike, Zenon
<1>2. C!Opens(ts, "STRING") <=> C!Opens(us, "STRING")
  BY OpensAlike, Zenon
<1> HIDE DEF x, y
<1>3. CASE l.kind = "COMMENT"
  BY <1>3, Zenon DEF TokenThen, TokenOfCThen
<1>4. CASE l.kind # "COMMENT" /\ l.kind = "STRING" /\ C!Opens(ts, "STRING")
  <2>1. /\ TokenThen(t, l, ts) = <<AsJoined(x, ts[1])>> \o Tail(ts)
        /\ TokenOfCThen(t, l, us) = <<C!Joined(y, us[1])>> \o Tail(us)
    BY <1>2, <1>4, Zenon DEF TokenThen, TokenOfCThen, x, y
  <2>2. ts # <<>>
    BY <1>4, Zenon DEF C!Opens
  <2>3. Like(ts[1], us[1]) /\ Alike(Tail(ts), Tail(us))
    BY <2>2, TailAlike, Zenon
  <2>4. ts[1] \in TokensType(t) /\ Tail(ts) \in Seq(TokensType(t))
    BY <2>2, TailIs, Zenon
  <2>5. AsJoined(x, ts[1]) \in TokensType(t) /\ Like(AsJoined(x, ts[1]), C!Joined(y, us[1]))
    BY <1>1, <2>3, <2>4, JoinedType, JoinedAlike, Zenon
  <2> QED
    BY <2>1, <2>3, <2>4, <2>5, ConsAlike, Zenon
<1>5. CASE l.kind # "COMMENT" /\ ~(l.kind = "STRING" /\ C!Opens(ts, "STRING"))
  <2>1. TokenThen(t, l, ts) = <<x>> \o ts /\ TokenOfCThen(t, l, us) = <<y>> \o us
    BY <1>2, <1>5, Zenon DEF TokenThen, TokenOfCThen, x, y
  <2> QED
    BY <1>1, <2>1, ConsAlike, Zenon
<1> QED
  BY <1>3, <1>4, <1>5

LEMMA TokensAlike ==
  ASSUME NEW t, IsText(t)
  PROVE  \A i \in 1..(Len(t) + 1) : Alike(AsTokensFrom(t)[i], C!TokensFrom(t)[i])
<1> DEFINE n == Len(t) + 1
           f == AsTokensFrom(t)
           g == C!TokensFrom(t)
           ls == C!LexemesFrom(t)
           S == {i \in 1..n : Alike(f[i], g[i])}
<1>1. n \in Nat /\ Len(t) \in Nat
  BY LengthIs
<1>2. ASSUME NEW i \in 1..n, \A j \in (i + 1)..n : j \in S
      PROVE  i \in S
  <2>1. CASE ls[i] = <<>>
    <3>1. f[i] = <<>> /\ g[i] = <<>>
      BY <2>1, TokensFromIs, TokensOfCAre, Zenon
    <3>2. Alike(<<>>, <<>>)
      <4>1. <<>> \in Seq({}) /\ Len(<<>>) = 0 /\ 1..0 = {}
        OBVIOUS
      <4> QED
        BY <4>1 DEF Alike
    <3> QED
      BY <3>1, <3>2, Zenon
  <2>2. CASE ls[i] # <<>>
    <3> DEFINE l == ls[i][1]
    <3>1. PICK q \in i..Len(t) : l = C!Lexeme(t, q)
      BY <2>2, FirstLexeme, Zenon
    <3>2. q \in 1..Len(t)
      BY <1>1
    <3>3. l.last \in q..Len(t)
      BY <3>1, <3>2, LexemeType, Zenon
    <3>4. f[i] = TokenThen(t, l, f[l.last + 1]) /\ g[i] = TokenOfCThen(t, l, g[l.last + 1])
      BY <2>2, TokensFromIs, TokensOfCAre, Zenon
    <3>5. l.last + 1 \in (i + 1)..n /\ l.last + 1 \in 1..n
      <4> HIDE DEF l
      <4> QED
        BY <1>1, <3>3
    <3>6. f[l.last + 1] \in Seq(TokensType(t))
      BY <3>5, TokensTyped, Zenon
    <3>7. Alike(f[l.last + 1], g[l.last + 1])
      BY <1>2, <3>5, Zenon
    <3> HIDE DEF l, f, g
    <3>8. Alike(f[i], g[i])
      BY <3>1, <3>2, <3>4, <3>6, <3>7, ThenAlike, Zenon
    <3> QED
      BY <3>8
  <2> QED
    BY <2>1, <2>2
<1>3. \A i \in 1..n : i \in S
  <2> HIDE DEF S, n
  <2> QED
    BY <1>1, <1>2, FromEnd
<1> QED
  BY <1>3

LEMMA CommentJoinsIs ==
  ASSUME NEW t, IsText(t), ~C!CommentJoinsStrings(t)
  PROVE  ~AsCommentJoins(t)
<1> SUFFICES ASSUME NEW l, l \in ToSet(C!LexemesFrom(t)[1]), l.kind = "STRING",
                    C!Opens(C!LexemesFrom(t)[l.last + 1], "COMMENT"),
                    C!Opens(AsTokensFrom(t)[l.last + 1], "STRING")
             PROVE  FALSE
  BY Zenon DEF AsCommentJoins
<1>1. 1 \in 1..(Len(t) + 1) /\ Len(t) \in Nat
  BY LengthIs
<1>2. C!LexemesFrom(t)[1] \in Seq(LexemesIn(t))
  BY <1>1, LexemesType, Zenon
<1>3. l \in LexemesIn(t)
  <2> DEFINE s == C!LexemesFrom(t)[1]
  <2> HIDE DEF s
  <2>1. s \in Seq(LexemesIn(t)) /\ l \in ToSet(s)
    BY <1>2, Zenon DEF s
  <2> QED
    BY <2>1 DEF ToSet
<1>4. PICK q \in 1..Len(t) : l = C!Lexeme(t, q)
  BY <1>3, Zenon DEF LexemesIn
<1>5. l.last + 1 \in 1..(Len(t) + 1)
  BY <1>1, <1>4, LexemeType
<1>6. C!Opens(C!TokensFrom(t)[l.last + 1], "STRING")
  <2> DEFINE ts == AsTokensFrom(t)[l.last + 1]
             us == C!TokensFrom(t)[l.last + 1]
  <2>1. ts \in Seq(TokensType(t)) /\ Alike(ts, us) /\ C!Opens(ts, "STRING")
    BY <1>5, TokensTyped, TokensAlike, Zenon
  <2> HIDE DEF ts, us
  <2>2. C!Opens(us, "STRING")
    BY <2>1, OpensAlike, Zenon
  <2> QED
    BY <2>2, Zenon DEF us
<1>7. l \in C!ToSet(C!Lexemes(t))
  BY Zenon DEF C!Lexemes, C!ToSet, ToSet
<1> QED
  BY <1>6, <1>7, Zenon DEF C!CommentJoinsStrings

\* What the code makes of a token is what C makes of it.
LEMMA LikeAgrees ==
  ASSUME NEW a, NEW b, Like(a, b), NEW tok, tok = AsExpected(a)
  PROVE  Agrees(tok, b)
<1> DEFINE word == SubSeq(text, a.first, a.last)
           none == <<>>
           place == PlaceOf(a)
           line == Line(place)
           column == Column(place)
           str == IF a.kind = "STRING" THEN UpToNul(a.means)
                  ELSE IF a.kind = "CHAR" THEN a.means
                  ELSE IF a.kind = "NUM" THEN none
                  ELSE word
           val == IF a.kind = "NUM" THEN Value(word) ELSE 0
<1>1. a.kind = b.kind /\ SubSeq(text, b.first, b.last) = word
  BY Zenon DEF Like
<1>2. PlaceOf(b) = place
  BY Zenon DEF Like, PlaceOf
<1>3. tok = [kind |-> a.kind, str |-> str, val |-> val, line |-> line, column |-> column]
  BY Zenon DEF AsExpected
<1>4. b.kind \in {"KWD", "IDT"} => str = word
  <2>1. b.kind \in {"KWD", "IDT"} => a.kind # "STRING" /\ a.kind # "CHAR" /\ a.kind # "NUM"
    BY <1>1
  <2> QED
    BY <2>1, Zenon
<1>5. b.kind = "NUM" /\ ~C!IsOctal(word) /\ C!Constant(word) <= IntMax => val = C!Constant(word)
  BY <1>1, Zenon DEF Value, C!Constant
<1>6. b.escapes \subseteq KnownEscapes =>
        /\ b.kind = "CHAR" => str = b.means
        /\ b.kind = "STRING" => str = UpToNul(b.means)
  <2>1. "CHAR" # "STRING"
    OBVIOUS
  <2> QED
    BY <1>1, <2>1, Zenon DEF Like
<1>7. Line(PlaceOf(b)) = line /\ Column(PlaceOf(b)) = column
  BY <1>2, Zenon
<1> HIDE DEF word, str, val, line, column
<1>8. /\ tok.kind = a.kind /\ tok.str = str /\ tok.val = val
      /\ tok.line = line /\ tok.column = column
  BY <1>3
<1> QED
  BY <1>1, <1>4, <1>5, <1>6, <1>7, <1>8, Zenon DEF Agrees

\* Whatever the text is, if C can scan it, what ccatd scans of it are the tokens of C: as many,
\* of the same kinds and spellings and at their places, strings behind themselves. Numbers are
\* worth what they are in C unless they are octal or beyond an int, and literals hold what they
\* hold in C if C's other escapes are not in them, strings up to a NUL. The texts where strings
\* have a comment between them, lines are spliced or a number touches a point are left out.
THEOREM ScansEveryTextAsC == Spec => []ScansAsC
<1>1. IInv /\ ScanInv => ScansAsC
  <2> SUFFICES ASSUME IInv, ScanInv, phase = "done", C!Lexable(text),
                      ~C!CommentJoinsStrings(text)
               PROVE  /\ Len(tokens) = Len(C!Tokens(text))
                      /\ \A k \in 1..Len(tokens) : Agrees(tokens[k], C!Tokens(text)[k])
    BY Zenon DEF ScansAsC
  <2>0. IsText(text) /\ p \in 1..(Len(text) + 1) /\ 1 \in 1..(Len(text) + 1)
    BY HasText, LengthIs
  <2>1. Clean(text, 1) /\ Agreed(text) /\ Fit(text)
    BY <2>0, LexableIs, CommentJoinsIs, Zenon DEF Agreed, Fit
  <2>2. p = Len(text) + 1 /\ C!LexemesFrom(text)[p] = <<>>
    BY <2>1, DoneAtEnd, Zenon
  <2>3. AsTokensFrom(text)[p] = <<>>
    BY <2>0, <2>2, TokensFromIs, Zenon
  <2>4. Scanned(Wanted, tokens) /\ Follow(text, Len(tokens), AsTokensFrom(text)[p])
    BY <2>1 DEF ScanInv, ReadsScan, Due
  <2>5. Len(Every(text)) = Len(tokens)
    <3>1. Len(AsTokensFrom(text)[p]) = 0
      BY <2>3
    <3>2. Len(Every(text)) = Len(tokens) + 0
      BY <2>4, <3>1, Zenon DEF Follow
    <3> QED
      BY <3>2, TokensSeq
  <2>6. Alike(Every(text), C!Tokens(text))
    BY <2>0, TokensAlike, Zenon DEF Every, C!Tokens
  <2>7. Len(tokens) = Len(C!Tokens(text))
    BY <2>5, <2>6, Zenon DEF Alike
  <2>8. ASSUME NEW k \in 1..Len(tokens)
        PROVE  Agrees(tokens[k], C!Tokens(text)[k])
    <3>1. tokens[k] = AsExpected(Every(text)[k])
      BY <2>0, <2>4, <2>5, WantedIs, Zenon DEF Scanned
    <3>2. Like(Every(text)[k], C!Tokens(text)[k])
      BY <2>5, <2>6, Zenon DEF Alike
    <3> QED
      BY <3>1, <3>2, LikeAgrees, Zenon
  <2> QED
    BY <2>7, <2>8
<1> QED
  BY <1>1, ScanKept, PTL

\* Whatever the text is, ccatd accepts it if and only if C can scan it, but for a text that
\* ends in a string and one with a long character constant, which it refuses, and for those
\* where what C refuses first is one of the things that ccatd lets through.
THEOREM AcceptsEveryTextAsC == Spec => []AcceptsAsC
<1>1. IInv /\ ScanInv => AcceptsAsC
  <2> SUFFICES ASSUME IInv, ScanInv, Nul \notin ToSet(text)
               PROVE  RefusesOnly /\ LetsThroughOnly
    BY DEF AcceptsAsC
  <2>1. ASSUME phase = "exit", C!Lexable(text)
        PROVE  \/ Last(C!Lexemes(text)).kind = "STRING"
               \/ \E l \in ToSet(C!Lexemes(text)) : LongCharacter(text, l)
    <3>1. Clean(text, 1) /\ Agreed(text)
      BY <2>1, LexableIs, Zenon DEF Agreed
    <3>2. Refused(text)
      BY <2>1, <3>1 DEF ScanInv
    <3> QED
      BY <3>1, <3>2, Zenon DEF Refused, C!Lexemes
  <2>2. ASSUME phase = "done", ~C!Lexable(text), ~LenientAt(text, C!FirstBad(text))
        PROVE  FALSE
    <3>1. Agreed(text) /\ ~Clean(text, 1)
      BY <2>2, LexableIs, Zenon DEF Agreed
    <3>2. C!LexemesFrom(text)[p] = <<>>
      BY <2>2, <3>1, DoneAtEnd, Zenon
    <3>3. Bound(text, p)
      BY <2>2, <3>1 DEF ScanInv, ReadsScan
    <3>4. Clean(text, p)
      BY <3>2 DEF Clean, ToSet
    <3> QED
      BY <3>1, <3>3, <3>4, Zenon DEF Bound
  <2> QED
    BY <2>1, <2>2, Zenon DEF RefusesOnly, LetsThroughOnly
<1> QED
  BY <1>1, ScanKept, PTL
=============================================================================
