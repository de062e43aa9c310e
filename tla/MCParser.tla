------------------------------ MODULE MCParser ------------------------------
\* Small vocabularies for Parser and TLC.
EXTENDS Parser

\* Operators of every level between operands.
BinaryPieces ==
  {<<"id">>, <<"(", "id">>, <<")">>, <<":", "id">>} \cup
  {<<op, "id">> : op \in {",", "=", "?", "||", "&&", "|", "^", "&", "==", "<", ">", "<<", "-", "*", "%"}}

\* Prefixes, postfixes, casts and sizeof.
UnaryPieces ==
  {<<"id">>, <<"str">>, <<"(">>, <<")">>, <<"T">>, <<"sizeof">>, <<"-">>, <<"*">>, <<"&">>, <<"++">>,
   <<".">>, <<"->">>, <<"[">>, <<"]">>, <<",">>, <<"(", "T", ")">>, <<"(", "S", ")">>, <<"(", "id">>}

\* Statements within a function.
ControlPieces ==
  {<<"if", "(", "id", ")">>, <<"else">>, <<"while", "(", "id", ")">>, <<"do">>,
   <<"for", "(", "T", "id", ";", "id", ";", "id", ")">>, <<"switch", "(", "id", ")">>,
   <<"case", "num", ":">>, <<"{">>, <<"}">>, <<"id", ";">>, <<";">>}

\* Declarations within a function.
DeclarationPieces ==
  {<<"S">>, <<"T", "id">>, <<"*">>, <<"id">>, <<"id", "[">>, <<"[", "num", "]">>, <<"=">>,
   <<"=", "{">>, <<"return">>, <<",">>, <<"}", ";">>, <<"id", ";">>, <<";">>}

\* Outside of functions.
TopPieces ==
  {<<"typedef">>, <<"extern">>, <<"static">>, <<"T">>, <<"T", "id">>, <<"S", "*">>, <<"id">>, <<"(", ")">>,
   <<"(", "T", "id">>, <<",", "T", "id">>, <<",", "...", ")">>, <<"(", "...", ")">>, <<")">>, <<"[", "num", "]">>, <<"[", "str">>,
   <<"=", "num">>, <<"=", "{", "num", "}">>, <<";">>, <<"{", "return", ";", "}">>}

Expression(ps, ending, max) ==
  [start |-> "expr", opening |-> <<>>, pieces |-> ps, max |-> max, ending |-> ending]

FunctionBody(ps, ending, max) ==
  [start |-> "parse", opening |-> <<"T", "id", "(", ")", "{">>, pieces |-> ps, max |-> max,
   ending |-> ending]

\* Complete texts, and shorter ones that break off.
MCVocabularies ==
  [binary      |-> Expression(BinaryPieces, <<";">>, 4),
   unary       |-> Expression(UnaryPieces, <<";">>, 4),
   control     |-> FunctionBody(ControlPieces, <<"}">>, 5),
   declaration |-> FunctionBody(DeclarationPieces, <<"}">>, 5),
   top         |-> [start |-> "parse", opening |-> <<>>, pieces |-> TopPieces, max |-> 5,
                    ending |-> <<>>],
   binary_cut  |-> Expression(BinaryPieces, <<>>, 3),
   unary_cut   |-> Expression(UnaryPieces, <<>>, 3),
   control_cut |-> FunctionBody(ControlPieces, <<>>, 3),
   declaration_cut |-> FunctionBody(DeclarationPieces, <<>>, 3)]
=============================================================================
