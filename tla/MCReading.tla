----------------------------- MODULE MCReading -----------------------------
(***************************************************************************)
(* Small alphabets, each for one part of the grammar.                      *)
(***************************************************************************)
EXTENDS Reading

MCLetters == {"x", "f", "a"}
Single(characters) == {<<c>> : c \in characters}

Operators == Single({"x", "1", "(", ")", ".", ",", "+"})
Lists == Single({"x", "[", "]", ",", "(", ")", "#"})
Objects == Single({"x", "{", "}", "=", ":", ","})
TypeTexts == Single({"x", "<", ">", ",", "|"}) \cup {<<"-", ">">>}
Lexical ==
    Single({"x", "1", "=", ":"}) \cup {<<"const", " ">>, <<";", "let", " ">>}
FunctionTexts ==
    Single({"{", "}", "x", ","}) \cup {<<"function", " ", "f", "(">>,
    <<"function", " ", "+", "(">>, <<"x", ":", "x">>, <<"%", "x", "<", ":", "x">>,
    <<")", "-", ">", "Type", " ">>}
Conditions ==
    Single({"{", "}", ";"}) \cup {<<"x", " ">>, <<"else", " ">>, <<"return", " ">>,
    <<"if", "(", "x", ")">>}
Matches ==
    Single({"}", "_"}) \cup {<<"x", " ">>, <<"match", "(", "x", ")", "{">>,
    <<"case", " ", "x", ":">>, <<"default", ":">>, <<"case", " ", "{">>, <<"x", "=">>,
    <<"}", ":">>}
Scanned ==
    {<<"\"", "x", "\\", "\"", "'", "\"">>, <<"'", "'">>, <<"=", "=">>, <<"true">>, <<"x", "1", "_">>,
     <<" ">>, <<" ", "/", "*", " ", "/", "*", "x", "*", "/", " ", "*", "/", " ">>,
     <<" ", "/", "/", "x", Newline>>, <<"*", "*">>, <<"for">>, <<"1", "2">>}
\* Texts on which the parser may stop.
Quoted == Single({"\"", "'", "\\", "x", ","})
Commented == Single({"/", "*", "x", "(", Newline})
Nameless ==
    Single({"x", "1", "+", "@", "{", "}"}) \cup {<<"function", " ">>, <<"else", " ">>,
    <<"(", ")", "-", ">", "x", "{">>}

Alphabet(pieces, length) == [pieces |-> pieces, length |-> length]
MCAlphabets ==
    {Alphabet(Operators, 6), Alphabet(Lists, 6), Alphabet(Objects, 8), Alphabet(TypeTexts, 7),
     Alphabet(Lexical, 6), Alphabet(FunctionTexts, 6), Alphabet(Conditions, 6), Alphabet(Matches, 7),
     Alphabet(Scanned, 4), Alphabet(Quoted, 6), Alphabet(Commented, 7), Alphabet(Nameless, 6)}

\* For a run that shows what the code does not do.
MCComments ==
    {Alphabet({<<"1">>, <<" ">>, <<" ", "/", "*", "/", "*", "x", "*", "/", "*", "/", " ">>,
               <<" ", "/", "*", " ", "/", "*", "x", "*", "/", " ", "*", "/", " ">>}, 4)}
=============================================================================
