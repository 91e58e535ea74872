------------------------------ MODULE Reading ------------------------------
(***************************************************************************)
(* A text is written piece by piece, and read after every piece, as main() *)
(* reads the file it is given: Lexer, Parser and parse() in turn.          *)
(*                                                                         *)
(* An alphabet is a set of pieces and the number of pieces in a text; a    *)
(* piece is a sequence of characters.                                      *)
(* Of a text that is read with errors only some continuations are tried:   *)
(* MaxLate pieces after the first error.                                   *)
(***************************************************************************)
EXTENDS Grammar

CONSTANTS Alphabets, MaxLate
ASSUME ReadingAssumption == MaxLate \in Nat /\ \A a \in Alphabets : a.length \in Nat

VARIABLES alphabet, text, late, result
vars == <<alphabet, text, late, result>>

\* Every text ends in a newline.
Read(characters) == Parse(Append(characters, Newline))
Outcomes == {"accepted", "rejected", "hangs", "segmentation fault", "Unterminated string",
             "Only operators might be reserved operators"}

Init ==
    /\ alphabet \in Alphabets
    /\ text = <<>>
    /\ late = 0
    /\ result = Read(<<>>)

\* An error at the end of the text is none of what is written so far, and
\* what only stops the parser may be completed.
IsLate ==
    /\ result.outcome # "accepted"
    /\ result.errors # <<>> /\ result.errors[1] < Len(FlattenSeq(text)) - 1
Write ==
    /\ Len(text) < alphabet.length
    /\ IsLate => late < MaxLate
    /\ \E piece \in alphabet.pieces : text' = Append(text, piece)
    /\ late' = IF IsLate THEN late + 1 ELSE late
    /\ result' = Read(FlattenSeq(text'))
    /\ UNCHANGED alphabet

Spec == Init /\ [][Write]_vars

----------------------------------------------------------------------------
\* The pieces that are not a comment between blanks; the characters of these.
Significant(piece) == ~(piece[1] \in Blanks /\ Len(piece) > 1 /\ piece[2] = "/")
Visible ==
    SelectSeq(FlattenSeq(SelectSeq(text, Significant)), LAMBDA c : c \notin Blanks)
\* No comment is put together of several pieces.
WholeComments ==
    \A i \in DOMAIN Visible : i > 1 /\ Visible[i - 1] = "/" => Visible[i] \notin {"/", "*"}
Accepted == result.outcome = "accepted"
Expression(t) ==
    t.node \notin {"Let", "Function", "Block", "Empty", "Return", "If", "Match", "nullptr"}

\* A program is accepted only from a text that writes it: what is skipped,
\* looked at twice or taken back on the way neither loses a character nor
\* reads one as something else.
AcceptedIsWritten ==
    Accepted /\ WholeComments =>
        Visible \in {Characters(writing) : writing \in Sequence(result.program)}

\* Every way to write an expression is read as that expression.
WritingsAreReadTheSame ==
    Accepted =>
        \A i \in DOMAIN result.program : Expression(result.program[i]) =>
            \A writing \in Writings(result.program[i]) :
                LET again == Read(Spaced(writing)) IN
                /\ again.outcome = "accepted"
                /\ again.program = <<result.program[i]>>

----------------------------------------------------------------------------
(* Why reading stops without an answer.  main() reports errors only when   *)
(* parse() returns: whoever made a mistake is told of none of them then.   *)

TextCharacters == FlattenSeq(text)
At(i, characters) ==
    /\ i + Len(characters) <= Len(TextCharacters) + 1
    /\ SubSeq(TextCharacters, i, i + Len(characters) - 1) = characters
Reported(i) == \E k \in DOMAIN result.errors : result.errors[k] = i - 1
\* How often something stands between two places.
Count(Stands(_), from, to) == Cardinality({i \in from .. to : Stands(i)})

\* What is opened somewhere and from there on never as often closed.
Unclosed(Opens(_), Closes(_)) ==
    \E i \in DOMAIN TextCharacters :
        /\ Opens(i)
        /\ \A k \in i + 1 .. Len(TextCharacters) : Count(Closes, i + 1, k) < Count(Opens, i, k)
\* A brace that is reported is not taken for what it is.
UnclosedBlock ==
    Unclosed(LAMBDA i : At(i, <<"{">>), LAMBDA i : At(i, <<"}">>) /\ ~Reported(i))
UnclosedComment == Unclosed(LAMBDA i : At(i, <<"/", "*">>), LAMBDA i : At(i, <<"*", "/">>))

\* An odd number of backslashes stands before it.
Escaped(i) ==
    \E k \in 1 .. i - 1 :
        /\ k % 2 = 1
        /\ \A n \in i - k .. i - 1 : At(n, <<"\\">>)
        /\ i - k > 1 => ~At(i - k - 1, <<"\\">>)
UnclosedString ==
    \E i \in DOMAIN TextCharacters :
        /\ TextCharacters[i] \in Quotes
        /\ \A k \in i + 1 .. Len(TextCharacters) : At(k, <<TextCharacters[i]>>) => Escaped(k)

\* Where a token should be there is a character that none begins with.
NoToken ==
    \E i \in DOMAIN TextCharacters :
        Reported(i) /\ TextCharacters[i] \in {"@", "?", "\\", "^", "~"}

\* `function' is followed by what is neither a name nor an operator.
FunctionWithoutName ==
    \E i \in DOMAIN Visible :
        /\ Visible[i] = "function"
        /\ i < Len(Visible) =>
              Visible[i + 1] \notin OperatorChars \cup (Words \ DOMAIN Keywords)

\* A text on which the parser does not return has one of five mistakes: a
\* block, a comment or a string that is not closed, a character that begins
\* no token, a function without a name.  Only for the comment, the string and
\* the function may it stop before it has recorded an error; and it takes
\* a null for an expression only after one.
EveryStopHasItsCause ==
    /\ result.outcome \in Outcomes
    /\ result.outcome = "hangs" =>
          UnclosedComment \/ (result.errors # <<>> /\ (UnclosedBlock \/ NoToken))
    /\ result.outcome = "Unterminated string" => UnclosedString
    /\ result.outcome = "Only operators might be reserved operators" => FunctionWithoutName
    /\ result.outcome = "segmentation fault" => result.errors # <<>>

\* A comment, and one inside another, is as good as nothing.
\* (tests/correct/parser.rh has such comments before and between programs.)
CommentsAreSkipped ==
    result.outcome = Read(FlattenSeq(SelectSeq(text, Significant))).outcome

\* What getOperator asserts: it is asked where an operator is.
OnlyOperatorsAreReserved == result.outcome # "Only operators might be reserved operators"

=============================================================================
