---------------------------- MODULE MCTokenizer ----------------------------
\* Small instances of Tokenizer for TLC: all texts of a few pieces.
EXTENDS Tokenizer

MCLetters == {"a", "f", "i", "n", "t"}

MCKeywords == {<<"i", "f">>}

TextsOf(pieces, max) ==
  UNION {{FlattenSeq(s) : s \in [1..n -> pieces]} : n \in 0..max}

\* Comments and literals.
LiteralTexts ==
  TextsOf({<<" ">>, <<"\n">>, <<"/">>, <<"*">>, <<"\"">>, <<"'">>, <<"\\">>, <<"n">>, <<"t">>, <<"0">>,
           <<"\"", "a", "\"">>, <<"'", "\\">>, <<"/", "*", "*", "/">>}, 4)

\* All operators between operators, and words, numbers and operators.
CodeTexts ==
  TextsOf({<<c>> : c \in {"\f", "VT"} \cup UNION {ToSet(op) : op \in ToSet(ops)}}, 3)
    \cup TextsOf({<<" ">>, <<"<">>, <<"=">>, <<"i">>, <<"f">>, <<"0">>, <<"1">>, <<".">>, <<"_">>}, 4)

MCFiles == LiteralTexts \cup CodeTexts
=============================================================================
