------------------------------ MODULE AgexLexer ------------------------------
(***************************************************************************)
(* The lexer of agex (crates/agex/src/lexer.rs: tokenize): one action for  *)
(* each branch of its loop, which reads a token or skips what is none.     *)
(*                                                                         *)
(* A source is a sequence of characters; a word of several letters counts  *)
(* as one letter, and columns count accordingly.                           *)
(***************************************************************************)
EXTENDS AgexSyntax

LOCAL INSTANCE SequencesExt
LOCAL INSTANCE FiniteSetsExt

VARIABLES
  source,   \* chars
  at,       \* i, from 1
  line, col,
  tokens,   \* what has been read; start is where in the source it began
  outcome   \* Reading, Lexed or what was wrong

lexer == <<source, at, line, col, tokens, outcome>>

Reading == [error |-> "none", done |-> FALSE, line |-> 0, col |-> 0, start |-> 0]
Lexed == [Reading EXCEPT !.done = TRUE]

Start(chars) ==
  source = chars /\ at = 1 /\ line = 1 /\ col = 1 /\ tokens = <<>> /\ outcome = Reading

Keywords == {"let", "const", "var", "fn", "return", "if", "else", "for", "in", "range",
             "match", "class", "data", "sealed", "interface", "object", "driver", "async",
             "await", "unsafe", "extern", "import", "print", "interrupt", "capability"}

OneChar == {"{", "}", "(", ")", "[", "]", ",", ":", ";", ".", "?", "=", "+", "-", "*", "/",
            "%", "<", ">", "!", "&", "|"}
TwoChars == {<<"-", ">">>, <<"=", ">">>, <<"=", "=">>, <<"!", "=">>, <<"<", "=">>, <<">", "=">>,
             <<"&", "&">>, <<"|", "|">>, <<"+", "=">>, <<"-", "=">>, <<"*", "=">>, <<"/", "=">>}
Dots == <<".", ".", ".">>

\* Neither a letter, a digit nor an operator; # stands for every character agex has no use for.
NewLine == "\n"
Blank == " "
Escape == "\\"
Marks == {NewLine, Blank, Escape, "\"", "'", "_", "#"}

IsDigit(c) == c \in Numbers
IsLetter(c) == c \notin OneChar \cup Marks \cup Numbers

Rest == SubSeq(source, at, Len(source))
StartsWith(chars) == IsPrefix(chars, Rest)

\* Where the characters from k on stop to be of a kind, which may be the end.
FirstFrom(k, Stops(_)) == Min({j \in k .. Len(source) : Stops(j)} \cup {Max({k, Len(source) + 1})})
DigitsEnd(k) == FirstFrom(k, LAMBDA j : ~IsDigit(source[j]) /\ source[j] # "_")
SuffixEnd(k) == FirstFrom(k, LAMBDA j : ~IsDigit(source[j]) /\ ~IsLetter(source[j]))
WordEnd(k) ==
  FirstFrom(k, LAMBDA j : ~IsDigit(source[j]) /\ ~IsLetter(source[j]) /\ source[j] # "_")

\* The characters up to `end`.
Spelled(end) == SubSeq(source, at, end - 1)

Token(type, text) ==
  [type |-> type, text |-> text, line |-> line, col |-> col, start |-> at]

\* A token that ends before `end` on the line it began on.
Push(type, text, end) ==
  /\ tokens' = Append(tokens, Token(type, text))
  /\ at' = end
  /\ col' = col + (end - at)
  /\ UNCHANGED <<source, line, outcome>>

-------------------------------------------------------------------------------
More == outcome = Reading /\ at <= Len(source)
Comment == StartsWith(<<"/", "/">>) \/ StartsWith(<<"/", "*">>)

\* Mutant of SkipNewline: the column goes on.
SkipNewlineColumnKept ==
  /\ More /\ source[at] = NewLine
  /\ at' = at + 1 /\ line' = line + 1
  /\ UNCHANGED <<source, col, tokens, outcome>>

SkipNewline ==
  /\ More /\ source[at] = NewLine
  /\ at' = at + 1 /\ line' = line + 1 /\ col' = 1
  /\ UNCHANGED <<source, tokens, outcome>>

SkipBlank ==
  /\ More /\ source[at] = Blank
  /\ at' = at + 1 /\ col' = col + 1
  /\ UNCHANGED <<source, line, tokens, outcome>>

\* The column stays where the comment began.
SkipLineComment ==
  /\ More /\ StartsWith(<<"/", "/">>)
  /\ at' = FirstFrom(at, LAMBDA j : source[j] = NewLine)
  /\ UNCHANGED <<source, line, col, tokens, outcome>>

\* The line and column after the characters of a comment or string, the first at k.
After(k, end, startCol) ==
  LET breaks == {j \in k .. end - 1 : source[j] = NewLine}
  IN [line |-> line + Cardinality(breaks),
      col |-> IF breaks = {} THEN startCol + (end - k) ELSE end - Max(breaks)]

\* A comment that is not closed ends before the last character, which is read as code.
SkipBlockComment ==
  /\ More /\ StartsWith(<<"/", "*">>)
  /\ LET n == Len(source)
         stop == Max({at + 2,
                      Min({j \in at + 2 .. n - 1 : source[j] = "*" /\ source[j + 1] = "/"} \cup {n})})
         place == After(at + 2, stop, col + 2)
         closing == IF stop < n THEN 2 ELSE 0
     IN /\ at' = stop + closing
        /\ line' = place.line
        /\ col' = place.col + closing
  /\ UNCHANGED <<source, tokens, outcome>>

\* A dot belongs to a number if a digit follows; letters after it are a type.
ReadNumber ==
  /\ More /\ IsDigit(source[at])
  /\ LET whole == DigitsEnd(at)
         float == whole < Len(source) /\ source[whole] = "." /\ IsDigit(source[whole + 1])
         end == SuffixEnd(IF float THEN DigitsEnd(whole + 1) ELSE whole)
     IN Push(IF float THEN "Float" ELSE "Int", Spelled(end), end)

\* What a character stands for after a backslash; tabs and other controls are left out.
Escaped(c) == IF c = "n" THEN NewLine ELSE c

\* What stands between quotes from k on: the closing quote, or a position after the
\* source, the text, and the place after it.  An escaped character moves the column by
\* two, be it a line break; one that is not escaped ends the line if `breaks` says so.
RECURSIVE Quoted(_, _, _, _)
Quoted(quote, breaks, k, place) ==
  IF k > Len(source) \/ source[k] = quote
  THEN [end |-> k, text |-> <<>>, line |-> place.line, col |-> place.col]
  ELSE LET escaped == source[k] = Escape /\ k < Len(source)
           next == IF escaped THEN k + 2 ELSE k + 1
           moved == IF breaks /\ ~escaped /\ source[k] = NewLine
                    THEN [line |-> place.line + 1, col |-> 1]
                    ELSE [place EXCEPT !.col = @ + (next - k)]
           rest == Quoted(quote, breaks, next, moved)
           c == source[next - 1]
       IN [rest EXCEPT !.text = <<IF escaped THEN Escaped(c) ELSE c>> \o @]

Inside == [line |-> line, col |-> col + 1]

ReadString ==
  /\ More /\ source[at] = "\""
  /\ LET string == Quoted("\"", TRUE, at + 1, Inside)
     IN IF string.end > Len(source)
        THEN /\ outcome' = [error |-> "unterminated", done |-> TRUE,
                            line |-> line, col |-> col, start |-> at]
             /\ UNCHANGED <<source, at, line, col, tokens>>
        ELSE /\ tokens' = Append(tokens, Token("String", string.text))
             /\ at' = string.end + 1
             /\ line' = string.line
             /\ col' = string.col + 1
             /\ UNCHANGED <<source, outcome>>

\* The end of the source ends a character literal as well.
ReadChar ==
  /\ More /\ source[at] = "'"
  /\ LET char == Quoted("'", FALSE, at + 1, Inside)
         closing == IF char.end <= Len(source) THEN 1 ELSE 0
     IN /\ tokens' = Append(tokens, Token("Char", char.text))
        /\ at' = char.end + closing
        /\ line' = char.line
        /\ col' = char.col + closing
  /\ UNCHANGED <<source, outcome>>

ReadWord ==
  /\ More /\ (IsLetter(source[at]) \/ source[at] = "_")
  /\ LET end == WordEnd(at)
         word == Spelled(end)
     IN Push(IF Len(word) = 1 /\ word[1] \in Keywords THEN word[1] ELSE "Ident", word, end)

\* Mutant of OperatorLength: the shortest that fits.
ShortestOperator == IF source[at] \in OneChar THEN 1 ELSE 0

\* How long the operator at the cursor is: the longest that fits, 0 if there is none.
OperatorLength ==
  CASE StartsWith(Dots) -> 3
    [] \E op \in TwoChars : StartsWith(op) -> 2
    [] source[at] \in OneChar -> 1
    [] OTHER -> 0

Plain == source[at] \in OneChar \cup {Escape, "#"} /\ ~Comment

ReadOperator ==
  /\ More /\ Plain /\ OperatorLength > 0
  /\ Push("Operator", Spelled(at + OperatorLength), at + OperatorLength)

Unexpected ==
  /\ More /\ Plain /\ OperatorLength = 0
  /\ outcome' = [error |-> "unexpected", done |-> TRUE, line |-> line, col |-> col, start |-> at]
  /\ UNCHANGED <<source, at, line, col, tokens>>

\* Every source ends in an Eof token.
Finish ==
  /\ outcome = Reading /\ at > Len(source)
  /\ tokens' = Append(tokens, Token(Eof, <<>>))
  /\ outcome' = Lexed
  /\ UNCHANGED <<source, at, line, col>>

Tokenize ==
  \/ SkipNewline \/ SkipBlank \/ SkipLineComment \/ SkipBlockComment
  \/ ReadNumber \/ ReadString \/ ReadChar \/ ReadWord \/ ReadOperator \/ Unexpected
-------------------------------------------------------------------------------
(* How tokens are written, and where they stand: references for the lexer. *)

\* The text of a token as the parser compares it.
Text(token) ==
  IF token.type = Eof THEN Eof ELSE FoldLeft(LAMBDA text, c : text \o c, "", token.text)

\* How a token of the parser is written.
Written(tok) ==
  CASE Kind(tok) = "String" -> <<"\"", tok, "\"">>
    [] \E op \in TwoChars : op[1] \o op[2] = tok -> CHOOSE op \in TwoChars : op[1] \o op[2] = tok
    [] OTHER -> <<tok>>

\* How a token that was read is written again.
WrittenAgain(token) ==
  LET quote == IF token.type = "String" THEN "\"" ELSE "'"
      Protected(c) == IF c \in {quote, Escape} THEN <<Escape, c>> ELSE <<c>>
  IN IF token.type \in {"String", "Char"}
     THEN <<quote>> \o FlattenSeq([i \in DOMAIN token.text |-> Protected(token.text[i])]) \o <<quote>>
     ELSE token.text

Source(written, separator) ==
  FlattenSeq([i \in DOMAIN written |-> written[i] \o separator])

\* Counted from the start of the source.
TrueLine(k) == 1 + Cardinality({j \in 1 .. k - 1 : source[j] = NewLine})
TrueCol(k) == k - Max({0} \cup {j \in 1 .. k - 1 : source[j] = NewLine})

\* In the literal that begins at s an odd run of backslashes before k protects what is
\* at k; the literal ends at the first quote that is not protected, or with the source.
Protects(s, k) == (k - Max({s} \cup {j \in s + 1 .. k - 1 : source[j] # Escape})) % 2 = 0
LiteralEnd(s) ==
  Min({Len(source) + 1} \cup
        {k \in s + 1 .. Len(source) : source[k] = source[s] /\ ~Protects(s, k)})

\* A line break that the lexer does not count: in a character literal, or escaped in a string.
Uncounted(j) ==
  /\ source[j] = NewLine
  /\ \E i \in DOMAIN tokens :
       LET s == tokens[i].start
       IN /\ tokens[i].type \in {"Char", "String"} /\ j \in s .. LiteralEnd(s)
          /\ tokens[i].type = "String" => Protects(s, j)
===============================================================================
