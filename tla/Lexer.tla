------------------------------- MODULE Lexer --------------------------------
(***************************************************************************)
(* parser/Lexer.cpp.  A text is a sequence of characters, in which a word  *)
(* - a name of one letter or a keyword - is one character.                 *)
(*                                                                         *)
(* A lexer is a record: source, the offsets position and lastPosition, the *)
(* character after the token and the token itself.  fate is "" until it    *)
(* loops forever or an assertion fails; lines and columns are left out.    *)
(***************************************************************************)
EXTENDS Naturals, Sequences, TLC

CONSTANT Letters    \* names of one letter

NUL == "NUL"        \* what is read at the end
Newline == "newline"
Blanks == {" ", Newline}
Digits == {"1", "2"}
Quotes == {"'", "\""}
OperatorChars == {"!", "#", "%", "&", "*", "+", ".", "/", "<", "=", ">", "?", "@", "\\", "^",
                  "|", "-", "~"}

Keywords ==
    "if" :> "IF" @@ "else" :> "ELSE" @@ "let" :> "LET" @@ "const" :> "CONST" @@ "for" :> "FOR"
    @@ "while" :> "WHILE" @@ "function" :> "FUNCTION" @@ "return" :> "RETURN"
    @@ "true" :> "TRUE" @@ "false" :> "FALSE" @@ "Type" :> "TYPE" @@ "match" :> "MATCH"
    @@ "case" :> "CASE" @@ "default" :> "DEFAULT"
Words == Letters \cup DOMAIN Keywords \cup {"$"}

\* SIMPLE_CASE: one character, one token.
Simple ==
    NUL :> "END_OF_FILE" @@ "." :> "DOT" @@ "," :> "COMMA" @@ ":" :> "COLON"
    @@ ";" :> "SEMICOLON" @@ "#" :> "HASH" @@ "_" :> "UNDERSCORE" @@ "+" :> "PLUS"
    @@ "%" :> "MOD" @@ "(" :> "L_PAREN" @@ ")" :> "R_PAREN" @@ "{" :> "L_BRACE"
    @@ "}" :> "R_BRACE" @@ "[" :> "L_SQUARE" @@ "]" :> "R_SQUARE" @@ ">" :> "R_ANGLE"
\* TOKEN2: by the character that follows; the token with it, and without.
Double ==
    "=" :> <<"=", "EQUAL_EQUAL", "EQUAL">> @@ "!" :> <<"=", "NOT_EQUAL", "BANG">>
    @@ "*" :> <<"*", "POWER", "TIMES">> @@ "-" :> <<">", "ARROW", "MINUS">>
    @@ "&" :> <<"&", "AND", "AMPERSAND">> @@ "|" :> <<"|", "OR", "PIPE">>
    @@ "<" :> <<":", "LESS_COLON", "L_ANGLE">>

----------------------------------------------------------------------------
(* Characters.                                                             *)

eof(x) == x.position = Len(x.source)
\* At the end m_lastPosition stays on the last character: a token that ends
\* there is one character short.
nextChar(x) ==
    IF eof(x) THEN [x EXCEPT !.nextChar = NUL]
    ELSE [x EXCEPT !.lastPosition = x.position, !.position = @ + 1,
                   !.nextChar = x.source[x.position + 1]]

RECURSIVE SkipWhile(_, _)
SkipWhile(x, chars) ==
    IF x.nextChar \in chars THEN SkipWhile(nextChar(x), chars) ELSE x

skipWhitespaces(x) == SkipWhile(x, Blanks)
resetPosition(x) == [x EXCEPT !.token.start = x.lastPosition]
rewind(x, token) == nextChar([x EXCEPT !.position = token.start])

Typed(x, type) == [x EXCEPT !.token.type = type]
Ends(x, fate) == [x EXCEPT !.fate = fate, !.token.type = "END_OF_FILE"]
Hangs(x) == Ends(x, "hangs")

----------------------------------------------------------------------------
(* Tokens.                                                                 *)

\* Behind the first slash, and up to the end of the line.
RECURSIVE LineComment(_)
LineComment(x) ==
    LET y == nextChar(x) IN
    IF y.nextChar = Newline THEN y
    ELSE IF y.nextChar = NUL THEN Hangs(y) ELSE LineComment(y)

\* Comments nest.
RECURSIVE BlockComment(_, _)
BlockComment(x, depth) ==
    LET y == nextChar(x) IN
    IF y.nextChar = NUL THEN Hangs(y)
    ELSE IF x.nextChar = "*" /\ y.nextChar = "/"
    THEN IF depth = 1 THEN nextChar(y) ELSE BlockComment(y, depth - 1)
    ELSE BlockComment(y, IF x.nextChar = "/" /\ y.nextChar = "*" THEN depth + 1 ELSE depth)

\* To the quote that is not escaped.
RECURSIVE StringEnd(_, _)
StringEnd(x, quote) ==
    LET y == nextChar(IF x.nextChar = "\\" THEN nextChar(x) ELSE x) IN
    IF y.nextChar \in {quote, NUL} THEN y ELSE StringEnd(y, quote)
StringToken(x, quote) ==
    IF x.nextChar = quote THEN Typed(nextChar(x), "STRING") ELSE Ends(x, "Unterminated string")

RECURSIVE nextTokenType(_)
Behind(x) ==
    IF x.fate # "" THEN x ELSE nextTokenType(resetPosition(skipWhitespaces(x)))
Slash(x) ==
    CASE x.nextChar = "/" -> Behind(LineComment(x))
      [] x.nextChar = "*" -> Behind(BlockComment(x, 1))
      [] OTHER -> Typed(x, "DIVIDE")
Pair(x, pair) ==
    IF x.nextChar = pair[1] THEN Typed(nextChar(x), pair[2]) ELSE Typed(x, pair[3])
nextTokenType(x) ==
    CASE x.nextChar \in DOMAIN Simple -> Typed(nextChar(x), Simple[x.nextChar])
      [] x.nextChar = "/" -> Slash(nextChar(x))
      [] x.nextChar \in Digits -> Typed(SkipWhile(nextChar(x), Digits), "NUMBER")
      [] x.nextChar \in Words ->
            Typed(SkipWhile(nextChar(x), Words \cup Digits \cup {"_"}), "IDENTIFIER")
      [] x.nextChar \in Quotes -> StringToken(StringEnd(x, x.nextChar), x.nextChar)
      [] x.nextChar \in DOMAIN Double -> Pair(nextChar(x), Double[x.nextChar])
      \* (no character is read: the next token is the same)
      [] OTHER -> Typed(x, "UNKNOWN")

lexeme(x) == SubSeq(x.source, x.token.start + 1, x.token.end)
Ended(x) == [x EXCEPT !.token.end = x.lastPosition]

checkKeyword(x) ==
    IF x.token.type = "IDENTIFIER" /\ Len(lexeme(x)) = 1 /\ lexeme(x)[1] \in DOMAIN Keywords
    THEN Typed(x, Keywords[lexeme(x)[1]]) ELSE x
nextToken(x) ==
    IF x.fate # "" THEN x
    ELSE checkKeyword(Ended(nextTokenType(resetPosition(skipWhitespaces(x)))))

\* The constructor.
Lexer(source) ==
    nextToken(nextChar([source |-> source, position |-> 0, lastPosition |-> 0,
                        nextChar |-> NUL, fate |-> "",
                        token |-> [type |-> "UNKNOWN", start |-> 0, end |-> 0]]))

----------------------------------------------------------------------------
(* Operators are not tokens of their own: the parser asks for one, from    *)
(* where the token starts.                                                 *)

\* (At the end this is the last character of the text.)
peekIsOperator(x) ==
    x.token.start < Len(x.source) /\ x.source[x.token.start + 1] \in OperatorChars

isReservedOperator(x) == lexeme(x) \in {<<"=">>, <<"-", ">">>}

\* A token, and the lexer with the one behind it.
Got(x) == [lexer |-> nextToken(x), type |-> x.token.type, lexeme |-> lexeme(x)]
\* The token is what it was, and not yet read.
Cancelled(x) == [lexer |-> x, type |-> x.token.type, lexeme |-> lexeme(x)]

Munched(x) ==
    IF x.nextChar \in OperatorChars
    THEN Typed(SkipWhile(nextChar(x), OperatorChars), "OPERATOR")
    ELSE nextTokenType(x)
Conflicts(x, conflictingType) ==
    conflictingType = "R_ANGLE" /\ lexeme(x) = <<">">>
Operator(x, conflictingType) ==
    IF x.fate = "" /\ x.token.type # "OPERATOR"
    THEN Cancelled(Ends(x, "Only operators might be reserved operators"))
    ELSE IF isReservedOperator(x) \/ Conflicts(x, conflictingType)
    THEN Cancelled(nextToken(rewind(x, x.token)))
    ELSE Got(x)
getOperator(x, conflictingType) ==
    Operator(Ended(Munched(resetPosition(skipWhitespaces(rewind(x, x.token))))), conflictingType)
=============================================================================
