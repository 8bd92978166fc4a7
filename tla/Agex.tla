---------------------------------- MODULE Agex ----------------------------------
(***************************************************************************)
(* A programmer who writes a program, has it compiled                      *)
(* (crates/agex/src/lib.rs: transpile), edits it, or writes it anew from   *)
(* the tree it was read as; and one who has any text at all read by the    *)
(* lexer (lexer.rs: tokenize, which is public), and what was read written  *)
(* and read again.                                                         *)
(***************************************************************************)
EXTENDS AgexParser, AgexLexer

LOCAL INSTANCE SequencesExt

CONSTANTS
  Programs,     \* trees of programs
  Separators,   \* characters a program may be written with between its tokens
  Texts,        \* other sources
  EditTokens,   \* tokens a programmer may type
  MaxEdits

VARIABLES
  program,   \* what was meant, None once the source says something else
  written,   \* the tokens the source was written from, <<>> if it is any text
  result,    \* what the parser returned for this source, Unread before it has run
  rust,      \* what was generated: the tokens of each item
  edits,     \* how often the source has been changed
  intact     \* how many of the first tokens are as they were written

compiler == <<toks, program, result, rust, edits, intact>>
vars == <<lexer, compiler, written>>

Printer == INSTANCE AgexPrinter
Codegen == INSTANCE AgexCodegen
Rust == INSTANCE AgexReader

Unread == Ok(0, None)
Accepted == result.pos > 0

Init ==
  /\ toks = <<>>
  /\ result = Unread
  /\ rust = <<>>
  /\ edits = 0
  /\ intact = 0
  /\ \/ \E p \in Programs, separator \in Separators :
          LET tokensOf == Printer!PrintProgram(p)
              chars == [i \in 1 .. Len(tokensOf) - 1 |-> Written(tokensOf[i])]
          IN /\ program = p
             /\ written = tokensOf
             /\ Start(Source(chars, separator))
     \/ \E text \in Texts :
          /\ program = None
          /\ written = <<>>
          /\ Start(text)

\* The lexer runs to the end before the parser begins.
Lex == Tokenize /\ UNCHANGED <<compiler, written>>

LexEnd ==
  /\ Finish
  /\ IF program = None THEN UNCHANGED <<toks, intact>>
     ELSE /\ toks' = [i \in DOMAIN tokens' |-> Text(tokens'[i])]
          /\ intact' = Len(toks')
  /\ UNCHANGED <<program, written, result, rust, edits>>

\* A text that was read is written again, from its tokens.
Respell ==
  /\ outcome = Lexed /\ program = None /\ written = <<>> /\ source # <<>>
  /\ written' = [i \in DOMAIN tokens |-> <<tokens[i].type, tokens[i].text>>]
  /\ LET chars == [i \in 1 .. Len(tokens) - 1 |-> WrittenAgain(tokens[i])]
     IN source' = Source(chars, <<Blank>>)
  /\ at' = 1 /\ line' = 1 /\ col' = 1 /\ tokens' = <<>> /\ outcome' = Reading
  /\ UNCHANGED compiler

\* The characters are not looked at again.
LexerForgets ==
  /\ source' = <<>> /\ at' = 1 /\ line' = 1 /\ col' = 1 /\ tokens' = <<>> /\ outcome' = Lexed
  /\ written' = <<>>

\* The rest of transpile: parse, lower and generate, unless there was an error.
Compile ==
  /\ toks # <<>> /\ result = Unread
  /\ result' = ParseProgram
  /\ rust' = IF result'.pos > 0 THEN Codegen!Generate(result'.tree) ELSE <<>>
  /\ LexerForgets
  /\ UNCHANGED <<toks, program, edits, intact>>

\* The source with the token at k left out, or another put before it or in its place.
\* That tokens are read as they are written is shown of programs, so that what is edited
\* are the tokens.
Edited(k, changed) ==
  /\ edits < MaxEdits
  /\ toks' = changed
  /\ edits' = edits + 1
  /\ intact' = IF k - 1 < intact THEN k - 1 ELSE intact
  /\ program' = None
  /\ result' = Unread
  /\ rust' = <<>>
  /\ LexerForgets

Before(k) == SubSeq(toks, 1, k - 1)
Behind(k) == SubSeq(toks, k + 1, Len(toks))

Delete == \E k \in 1 .. Len(toks) - 1 : Edited(k, Before(k) \o Behind(k))

Insert ==
  \E k \in 1 .. Len(toks), tok \in EditTokens :
    Edited(k, Before(k) \o <<tok, toks[k]>> \o Behind(k))

Replace ==
  \E k \in 1 .. Len(toks) - 1 : \E tok \in EditTokens \ {toks[k]} :
    Edited(k, Before(k) \o <<tok>> \o Behind(k))

\* What the parser made of an edited source becomes the program that is meant.
Format ==
  /\ program = None
  /\ Accepted
  /\ program' = result.tree
  /\ toks' = Printer!PrintProgram(result.tree)
  /\ intact' = Len(toks')
  /\ result' = Unread
  /\ rust' = <<>>
  /\ UNCHANGED <<lexer, written, edits>>

Next ==
  \/ Lex \/ LexEnd \/ Respell
  \/ Compile \/ Delete \/ Insert \/ Replace \/ Format

Spec == Init /\ [][Next]_vars

-------------------------------------------------------------------------------
\* What was written as tokens is read as the same tokens, whatever separates them and
\* whatever the quotes hold.
TokensAsWritten ==
  outcome.done /\ written # <<>> =>
    /\ outcome = Lexed
    /\ IF program # None THEN toks = written
       ELSE written = [i \in DOMAIN tokens |-> <<tokens[i].type, tokens[i].text>>]

\* The line and the column of every token and of every error are where it begins, counted
\* from the start of the source.  Two places are not: those after a line break in a character
\* literal or escaped in a string, which is not counted, and Eof, whose column a comment at
\* the end leaves behind.
PlacesExact ==
  LET Exact(place) ==
        (\A j \in 1 .. place.start - 1 : ~Uncounted(j)) =>
          place.line = TrueLine(place.start) /\ place.col = TrueCol(place.start)
  IN /\ \A i \in DOMAIN tokens : tokens[i].type # Eof => Exact(tokens[i])
     /\ outcome.error # "none" => Exact(outcome)

\* A program is read as it was meant, be it one that was written or what an accepted
\* source was read as: precedence, grouping, optional parts and the ends of statements,
\* which nothing separates.
RoundTrip == program # None /\ result # Unread => Accepted /\ result.tree = program

\* The cursor never passes the last token, whatever the source: cur() would panic.
CursorInSource == result.pos \in -Len(toks) .. Len(toks)

\* The identifiers and literals of a tree, in the order of the source.
RECURSIVE Contents(_)
Contents(tree) ==
  (IF tree.node \in {"Name", "Number", "String", "Constant"} THEN <<tree.text>> ELSE <<>>)
    \o FlattenSeq([i \in DOMAIN tree.kids |-> Contents(tree.kids[i])])

Carries(tok) == Kind(tok) \in {"Ident", "Number", "String"} /\ tok \notin {"is", "println"}

\* Two things are read and dropped: the arguments of a base class and the name of an
\* interrupt handler.
Droppable(tokensRead) ==
  \E i \in DOMAIN tokensRead :
    \/ tokensRead[i] = "interrupt"
    \/ /\ tokensRead[i] \in {":", ","} /\ Kind(tokensRead[i + 1]) = "Ident" /\ tokensRead[i + 2] = "("
       /\ \E c \in 1 .. i : tokensRead[c] = "class"

\* What Rust has no place for: base classes, default values, imports, what a sealed class
\* and its variants hold besides fields, receivers where there is no self; the arguments of
\* a range after the first and those of len; what a case without a path binds.
RECURSIVE Translated(_)
Translated(tree) ==
  LET k == tree.kids
      Some(kept) == FlattenSeq([i \in 1 .. Len(kept) |-> Translated(k[kept[i]])])
      Those(list, kept) ==
        FlattenSeq([i \in DOMAIN list.kids |->
                      FlattenSeq([n \in 1 .. Len(kept) |-> Translated(list.kids[i].kids[kept[n]])])])
  IN CASE tree.node = "Constant" -> IF tree.text \in {"null", "this"} THEN <<>> ELSE <<tree.text>>
       [] tree.node \in {"Param", "VarParam"} -> Some(<<1, 2>>)
       [] tree.node \in {"Class", "DataClass"} -> Some(<<1, 2, 4>>)
       [] tree.node = "SealedClass" -> Some(IF k[4].node = "Members" THEN <<1, 2, 4>> ELSE <<1, 4>>)
       [] tree.node = "Subclasses" -> Those(k[1], <<1, 2>>)
       [] tree.node \in {"Interface", "Object"} -> Some(<<1>>) \o Those(k[2], <<2, 3, 4, 5>>)
       [] tree.node = "Driver" -> Some(<<1, 2>>) \o Those(k[3], <<2, 3, 4, 5>>)
       [] tree.node = "Import" -> <<>>
       [] tree.node = "Call" /\ k[1] = Leaf("range") -> IF k[2].kids = <<>> THEN <<>> ELSE Translated(k[2].kids[1])
       [] tree.node = "Method" /\ k[2] = Leaf("len") -> Some(<<1, 2>>)
       [] tree.node = "Case" /\ Len(k[1].kids) = 1 -> Some(<<1, 3>>)
       [] OTHER -> (IF tree.node \in {"Name", "Number", "String"} THEN <<tree.text>> ELSE <<>>)
                     \o Some([i \in DOMAIN k |-> i])

Items == Codegen!Decls(program)
Main == List(Codegen!TopStmts(program))

Occurrences(tok, tokensOf) == Len(SelectSeq(tokensOf, LAMBDA other : other = tok))

\* Every other name and literal of a tree is there at least as often in the Rust generated for
\* it.  What is generated besides counts as well: in a class the name of a field, which the
\* constructor repeats, may stand for a use of it.
Emitted(tree, generated) ==
  LET needed == SelectSeq(Translated(tree), Carries)
  IN \A tok \in Range(needed) : Occurrences(tok, needed) <= Occurrences(tok, generated)

\* Nothing else of an accepted source is lost, invented or moved by the parser, and nothing
\* is lost by the generator, which puts every statement outside the declarations in main.
NothingDropped ==
  /\ Accepted /\ ~Droppable(toks) =>
       SelectSeq(Contents(result.tree), Carries) = SelectSeq(toks, Carries)
  /\ program # None /\ Accepted =>
       /\ \A i \in DOMAIN Items : Emitted(Items[i], rust[i])
       /\ Main.kids # <<>> => Emitted(Main, rust[Len(Items) + 1])

\* An error is reported at the first change of a program that was right, or after it, or at
\* the question mark before it, which the parser reads with the token that follows.
ErrorNotBeforeEdit ==
  Failed(result) =>
    \/ -result.pos > intact
    \/ -result.pos = intact /\ toks[intact] = "?"

-------------------------------------------------------------------------------
Compiled == program # None /\ rust # <<>>
\* The Rust of an expression, read as Rust, is the expression: every bracket that the tree
\* needs is there, and every operand in its place.
GroupingKept ==
  Compiled /\ Len(program.kids) = 1 /\ program.kids[1].node = "Expr" =>
    LET e == program.kids[1].kids[1] IN ~Rust!Ambiguous(e) => Rust!ReadMain(rust[1]) = e

\* Where the tokens of an item have these in a row.
Places(item, tokensOf) ==
  {p \in 1 .. Len(item) - Len(tokensOf) + 1 : SubSeq(item, p, p + Len(tokensOf) - 1) = tokensOf}

\* The fields of a class are in scope in its methods and nowhere else: outside a class, self
\* stands for `this` or is the receiver of an extension function.  Wherever self stands, the
\* function has it, but for a `this` that was written where there is none: outside classes
\* and extension functions.  And a method that assigns to a field, other than in a loop,
\* borrows self mutably.
SelfBorrowed ==
  \A i \in DOMAIN rust :
    LET item == rust[i]
        header(p) ==
          LET fn == Max({f \in 1 .. p : item[f] = "fn"})
              body == Min({b \in fn .. Len(item) : item[b] = "{"})
          IN SubSeq(item, fn, body)
        Looped(p) == "for" \in Range(SubSeq(item, Max({f \in 1 .. p : item[f] = "fn"}), p))
        assigned == {p \in Places(item, <<"self", ".">>) : item[p + 3] \in AssignOps}
    IN Compiled =>
         LET tree == IF i > Len(Items) THEN Main ELSE Items[i]
             this == Occurrences("this", Contents(tree))
             class == tree.node \in {"Class", "DataClass", "SealedClass"}
             extends == tree.node \in {"Fn", "UnsafeFn"} /\ tree.kids[1] # None
         IN /\ ~class => Occurrences("self", item) = this + (IF extends THEN 1 ELSE 0)
            /\ class \/ extends \/ this = 0 =>
                 \A p \in Places(item, <<"self">>) : "self" \in Range(header(p))
            /\ \A p \in assigned :
                 header(p)[4] = "&" /\ ~Looped(p) => header(p)[5] = "mut"

\* From the declaration of a sealed class on, in other declarations and in main, wherever
\* its statements were written, no variant is constructed as if it were a method.
VariantsTranslated ==
  Compiled =>
    \A i \in DOMAIN Items : \A j \in i + 1 .. Len(rust) :
      Items[i].node = "SealedClass" /\ Items[i].kids[4].node = "Subclasses" /\ ~Rust!Ambiguous(program) =>
        LET variants == Items[i].kids[4].kids[1].kids
        IN \A v \in DOMAIN variants :
             Places(rust[j], <<Items[i].kids[1].text, ".", variants[v].kids[1].text, "(">>) = {}
===============================================================================
