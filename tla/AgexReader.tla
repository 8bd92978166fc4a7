------------------------------ MODULE AgexReader ------------------------------
(***************************************************************************)
(* A reference for the code generator: Rust expressions, read by the       *)
(* precedence of Rust and translated back to agex.                         *)
(***************************************************************************)
EXTENDS AgexSyntax

LOCAL INSTANCE SequencesExt

\* A result is a position and a tree; position 0 means that this is not Rust.
Result(p, tree) == [pos |-> p, tree |-> tree]
NotRust == Result(0, None)

\* After p, if the tokens there are these; the position 0 leads nowhere.
Skip(s, p, expected) ==
  IF p > 0 /\ p + Len(expected) - 1 <= Len(s) /\ SubSeq(s, p, p + Len(expected) - 1) = expected
  THEN p + Len(expected) ELSE 0
Is(s, p, tok) == Skip(s, p, <<tok>>) > 0

\* The tree of r, if these tokens follow it.
Closed(s, r, closing) == IF Skip(s, r.pos, closing) = 0 THEN NotRust ELSE Result(Skip(s, r.pos, closing), r.tree)

RECURSIVE ReadExpr(_, _), ReadArgs(_, _)

\* Arguments up to the bracket that closes them, commas between them.
ReadArgs(s, p) ==
  IF Is(s, p, ")") THEN Result(p + 1, List(<<>>))
  ELSE LET first == ReadExpr(s, p)
           rest == ReadArgs(s, IF Is(s, first.pos, ",") THEN first.pos + 1 ELSE first.pos)
       IN IF 0 \in {first.pos, rest.pos} THEN NotRust
          ELSE Result(rest.pos, List(<<first.tree>> \o rest.tree.kids))

\* What a String is made of is the literal.
Literally(e) ==
  IF e.node = "Method" /\ e.kids[2] = Leaf("to_string") /\ e.kids[1].node = "String" THEN e.kids[1] ELSE e

ReadPrimary(s, p) ==
  LET range == ReadExpr(s, Skip(s, p, <<"(", "0", "..">>))
      group == ReadExpr(s, p + 1)
      format == ReadArgs(s, Skip(s, p, <<"format", "!", "(", "{}{}", ",">>))
      made == ReadArgs(s, p + 4)
  IN CASE p \notin DOMAIN s -> NotRust
       [] Is(s, p, "(") /\ Is(s, p + 1, "0") ->
            LET r == Closed(s, range, <<")">>)
            IN Result(r.pos, Tree("Call", "", <<Leaf("range"), List(<<r.tree>>)>>))
       [] Is(s, p, "(") -> Closed(s, group, <<")">>)
       [] Is(s, p, "format") -> IF format.pos = 0 THEN NotRust
                                ELSE Result(format.pos, Tree("Binary", "+", format.tree.kids))
       [] Is(s, p + 1, "::") ->
            IF Skip(s, p + 2, <<"new", "(">>) = 0 \/ made.pos = 0 THEN NotRust
            ELSE Result(made.pos, Tree("New", "", <<Leaf(s[p]), List([i \in DOMAIN made.tree.kids |-> Literally(made.tree.kids[i])])>>))
       [] Kind(s[p]) \in {"Number", "String"} -> Result(p + 1, Tree(Kind(s[p]), s[p], <<>>))
       [] s[p] \in {"true", "false"} -> Result(p + 1, Tree("Constant", s[p], <<>>))
       [] s[p] = "None" -> Result(p + 1, Tree("Constant", "null", <<>>))
       [] s[p] = "self" -> Result(p + 1, Tree("Constant", "this", <<>>))
       [] Kind(s[p]) = "Ident" \/ s[p] \in {"r", "Some", "print", "range"} -> Result(p + 1, Leaf(s[p]))
       [] OTHER -> NotRust

Borrowed == <<".", "as_ref", "(", ")", ".", "and_then", "(", "|", "r", "|", "Some", "(", "r", ".">>

\* What follows a primary expression: a field, a method, arguments.  A name and a bracket
\* after a dot are a method, never a field that is called.
RECURSIVE ReadPostfix(_, _)
ReadPostfix(s, r) ==
  LET p == r.pos
      name == s[p + 1]
      safe == Skip(s, p, Borrowed)
      args(q) == ReadArgs(s, q)
      Node(node, at, kids, closing) ==
        IF at = 0 \/ Skip(s, at, closing) = 0 THEN NotRust
        ELSE ReadPostfix(s, Result(Skip(s, at, closing), Tree(node, "", <<r.tree>> \o kids)))
  IN CASE p = 0 -> r
       [] safe > 0 ->
            LET a == args(safe + 2) IN Node("SafeCall", a.pos, <<Leaf(s[safe]), a.tree>>, <<")", ")">>)
       [] Is(s, p, ".") /\ safe = 0 /\ Is(s, p + 2, "(") ->
            LET a == args(p + 3)
            IN IF name = "unwrap_or" THEN Node("Elvis", a.pos, a.tree.kids, <<>>)
               ELSE Node("Method", a.pos, <<Leaf(name), a.tree>>, <<>>)
       [] Is(s, p, ".") /\ safe = 0 /\ ~Is(s, p + 2, "(") -> Node("Field", p + 2, <<Leaf(name)>>, <<>>)
       [] Is(s, p, "(") -> LET a == args(p + 1) IN Node("Call", a.pos, <<a.tree>>, <<>>)
       [] OTHER -> r

RECURSIVE ReadUnary(_, _)
ReadUnary(s, p) ==
  IF p \in DOMAIN s /\ s[p] \in {"!", "-", "&"} THEN
    LET operand == ReadUnary(s, p + 1)
    IN IF operand.pos = 0 THEN NotRust ELSE Result(operand.pos, Tree("Unary", s[p], <<operand.tree>>))
  ELSE ReadPostfix(s, ReadPrimary(s, p))

\* `as` binds more tightly than any binary operator; a type before < would be generic.
RECURSIVE ReadCast(_, _)
ReadCast(s, r) ==
  CASE r.pos = 0 \/ ~Is(s, r.pos, "as") -> r
    [] Is(s, r.pos + 2, "<") -> NotRust
    [] OTHER -> ReadCast(s, Result(r.pos + 2, Tree("Cast", "", <<r.tree, Leaf(s[r.pos + 1])>>)))

\* An expression of a level of binary operators, and what extends it.
RECURSIVE ReadLevel(_, _, _), ReadMore(_, _, _)
ReadMore(s, l, left) ==
  LET right == ReadLevel(s, l + 1, left.pos + 1)
  IN IF left.pos \notin DOMAIN s \/ s[left.pos] \notin Levels[l] THEN left
     ELSE IF right.pos = 0 THEN NotRust
     ELSE ReadMore(s, l, Result(right.pos, Tree("Binary", s[left.pos], <<left.tree, right.tree>>)))
ReadLevel(s, l, p) ==
  IF l > Len(Levels) THEN ReadCast(s, ReadUnary(s, p)) ELSE ReadMore(s, l, ReadLevel(s, l + 1, p))

ReadExpr(s, p) == IF p \notin DOMAIN s THEN NotRust ELSE ReadLevel(s, 1, p)

\* The expression of `fn main() { <expression>; }`.
ReadMain(s) ==
  LET r == ReadExpr(s, Skip(s, 1, <<"fn", "main", "(", ")", "{">>))
  IN Closed(s, r, <<";", "}">>).tree

-------------------------------------------------------------------------------
Reference(e) == e.node = "Unary" /\ e.text = "&"

\* A tree the generator brackets too little or cannot tell from another: what a reference
\* or a cast is received or called by, a cast under an operator of one operand or before
\* a <, a field that is called; and ranges and println, which drop or merge arguments.
RECURSIVE Ambiguous(_)
Ambiguous(e) ==
  LET k == e.kids
  IN \/ \E i \in DOMAIN k : Ambiguous(k[i])
     \/ /\ e.node \in {"Field", "Method", "SafeCall", "Elvis", "Call"}
        /\ k[1].node = "Cast" \/ Reference(k[1])
     \/ e.node = "Unary" /\ k[1].node = "Cast"
     \/ e.node = "Binary" /\ e.text = "<" /\ k[1].node = "Cast"
     \/ e.node = "Call" /\ (k[1].node = "Field" \/ k[1].text \in {"range", "println"})
===============================================================================
