------------------------------ MODULE AgexSyntax ------------------------------
(***************************************************************************)
(* The tokens and the trees of agex (crates/agex/src/lexer.rs, ast.rs).    *)
(*                                                                         *)
(* A token is its text; lines and columns are left out.  A tree is a       *)
(* record of one shape for every node of ast.rs: what it is, the text it   *)
(* carries (an operator, an identifier), and its children in the order of  *)
(* the source.  An absent child is None, a Vec is a List.                  *)
(***************************************************************************)
EXTENDS Integers, Sequences

CONSTANTS
  Variables,   \* identifiers that begin with a small letter
  TypeNames,   \* identifiers that begin with a capital
  Numbers,     \* integer and float literals
  Strings      \* string literals; char literals, of which the same trees are made, are left out

Eof == "eof"

\* Identifiers whose text the parser looks at.
Words == {"true", "false", "null", "this", "is"}

\* The type of a token; a keyword or an operator is a type of its own.
Kind(tok) ==
  CASE tok \in Variables \cup TypeNames \cup Words -> "Ident"
    [] tok \in Numbers -> "Number"
    [] tok \in Strings -> "String"
    [] OTHER -> tok

Tree(node, text, kids) == [node |-> node, text |-> text, kids |-> kids]
Leaf(text) == Tree("Name", text, <<>>)
List(kids) == Tree("List", "", kids)
None == Tree("None", "", <<>>)

\* The binary operators by precedence, the weakest first.  Level 5 is `is`, whose
\* right side is a type.
Levels == << {"||"}, {"&&"}, {"==", "!="}, {"<", "<=", ">", ">="}, {}, {"+", "-"},
             {"*", "/", "%"} >>
IsLevel == 5

AssignOps == {"=", "+=", "-=", "*=", "/="}
===============================================================================
