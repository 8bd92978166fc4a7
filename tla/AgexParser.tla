------------------------------ MODULE AgexParser ------------------------------
(***************************************************************************)
(* The recursive-descent parser of agex (crates/agex/src/parser.rs).       *)
(*                                                                         *)
(* The parser's only state is its cursor, which every operator takes and   *)
(* returns: a result is the position after what was read and the tree, or  *)
(* minus the position of the token that was unexpected.  A position beyond *)
(* the last token is one where toks[pos] would panic.                      *)
(***************************************************************************)
EXTENDS AgexSyntax

VARIABLE toks   \* what is parsed; the last token is Eof

Ok(p, tree) == [pos |-> p, tree |-> tree]
Error(p) == [pos |-> -p, tree |-> None]
Failed(r) == r.pos < 0

At(kind, p) == p <= Len(toks) /\ Kind(toks[p]) = kind
AtOneOf(kinds, p) == p <= Len(toks) /\ Kind(toks[p]) \in kinds

Eat(kind, p) == IF At(kind, p) THEN Ok(p + 1, Leaf(toks[p])) ELSE Error(p)

\* Reads what a rule of the grammar, or a token type, stands for.
RECURSIVE Parse(_, _)

\* The rules whose result is kept; those of keywords and punctuation are not.
Kept == {"Ident", "Decl", "Abi", "ExternFns", "ExternFn", "Stmt", "Stmts", "Expr", "Args",
         "Params", "Param", "Type", "TypeArgs", "OptType", "ReturnType", "Initializer",
         "Receiver", "Body", "ClassParams", "Bases", "Base", "Members", "PlainBody",
         "SealedBody", "Subclass", "Subclasses", "Else", "Cases", "Case", "Path",
         "Bindings", "Names", "CaseBody", "Fn"}

\* A first result in front of the results that follow it.
Join(first, rest) ==
  IF Failed(first) THEN first
  ELSE IF Failed(rest) THEN rest
  ELSE Ok(rest.pos, List(<<first.tree>> \o rest.tree.kids))

\* `self.eat(..)?; self.parse_..()?; ...`
RECURSIVE Sequence(_, _)
Sequence(rules, p) ==
  IF rules = <<>> THEN Ok(p, List(<<>>))
  ELSE LET first == Parse(Head(rules), p)
           rest == Sequence(Tail(rules), first.pos)
       IN IF Head(rules) \in Kept \/ Failed(first) THEN Join(first, rest) ELSE rest

\* `while !self.at(..) { .. }`
RECURSIVE Repeat(_, _, _)
Repeat(rule, stops, p) ==
  IF AtOneOf(stops, p) THEN Ok(p, List(<<>>))
  ELSE LET first == Parse(rule, p)
       IN Join(first, Repeat(rule, stops, first.pos))

\* `.. while self.maybe(Comma).is_some() { .. }`
RECURSIVE CommaList(_, _)
CommaList(rule, p) ==
  LET first == Parse(rule, p)
  IN IF Failed(first) \/ ~At(",", first.pos) THEN Join(first, Ok(first.pos, List(<<>>)))
     ELSE Join(first, CommaList(rule, first.pos + 1))

\* `if !self.at(close) { .. }`: a list that may be empty.
ListUntil(close, rule, p) ==
  IF At(close, p) THEN Ok(p, List(<<>>)) ELSE CommaList(rule, p)

Node(node, rules, p) ==
  LET r == Sequence(rules, p)
  IN IF Failed(r) THEN r ELSE Ok(r.pos, Tree(node, "", r.tree.kids))

\* The only tree that a sequence of rules keeps.
Only(rules, p) ==
  LET r == Sequence(rules, p)
  IN IF Failed(r) THEN r ELSE Ok(r.pos, r.tree.kids[1])

-------------------------------------------------------------------------------
(* Declarations *)

Import(p) == Node("Import", <<"import", "Ident">>, p)

\* The ABI is a string, "Rust" when it is absent.
Abi(p) == IF At("String", p) THEN Ok(p + 1, Leaf(toks[p])) ELSE Ok(p, Leaf("Rust"))

Extern(p) == Node("Extern", <<"extern", "Abi", "{", "ExternFns", "}">>, p)
ExternFn(p) == Node("ExternFn", <<"fn", "Ident", "(", "Params", ")", "ReturnType">>, p)

\* A handler is kept as an unsafe block: its name is read and dropped.
Interrupt(p) ==
  LET r == Sequence(<<"interrupt", "Ident", "(", ")", "{", "Stmts", "}">>, p)
  IN IF Failed(r) THEN r ELSE Ok(r.pos, Tree("Unsafe", "", <<r.tree.kids[2]>>))

Receiver(p) ==
  IF At("Ident", p) /\ At(".", p + 1) THEN Ok(p + 2, Leaf(toks[p])) ELSE Ok(p, None)

ReturnType(p) == IF At("->", p) THEN Parse("Type", p + 1) ELSE Ok(p, None)

SkipSemicolon(r) == IF ~Failed(r) /\ At(";", r.pos) THEN Ok(r.pos + 1, r.tree) ELSE r

Body(p) ==
  CASE AtOneOf({"=>", "="}, p) -> SkipSemicolon(Node("ExprBody", <<"Expr">>, p + 1))
    [] At("{", p) -> Node("Block", <<"{", "Stmts", "}">>, p)
    [] OTHER -> Error(p)

Fn(node, p) ==
  Node(node, <<"fn", "Receiver", "Ident", "(", "Params", ")", "ReturnType", "Body">>, p)

Param(p) ==
  IF At("var", p) THEN Node("VarParam", <<"var", "Ident", ":", "Type", "Initializer">>, p)
  ELSE Node("Param", <<"Ident", ":", "Type", "Initializer">>, p)

\* Unlike an argument list, a parameter list may end in a comma.
RECURSIVE Params(_)
Params(p) ==
  IF At(")", p) THEN Ok(p, List(<<>>))
  ELSE LET first == Parse("Param", p)
       IN Join(first, IF At(",", first.pos) THEN Params(first.pos + 1)
                      ELSE Ok(first.pos, List(<<>>)))

\* The question mark binds to the innermost type: `*T?` points to a nullable T.
Type(p) ==
  LET base == CASE At("*", p) -> Node("Pointer", <<"*", "Type">>, p)
                [] At("[", p + 1) -> Node("Generic", <<"Ident", "[", "TypeArgs", "]">>, p)
                [] OTHER -> Node("Named", <<"Ident">>, p)
  IN IF ~Failed(base) /\ At("?", base.pos)
     THEN Ok(base.pos + 1, Tree("Nullable", "", <<base.tree>>)) ELSE base

\* Mutant of SkipOptionalParens: the loop looks for the bracket alone.
SkipToBracket(p) ==
  IF ~At("(", p) THEN p
  ELSE LET stops == {q \in p .. Len(toks) : toks[q] = ")"}
       IN IF stops = {} THEN Len(toks) + 1
          ELSE 1 + CHOOSE q \in stops : \A s \in stops : q <= s

\* What a base class is constructed with is skipped up to the first closing bracket, or
\* to the end of the source.
SkipOptionalParens(p) ==
  IF ~At("(", p) THEN p
  ELSE LET stops == {q \in p .. Len(toks) : toks[q] \in {")", Eof}}
           stop == CHOOSE q \in stops : \A s \in stops : q <= s
       IN IF At(")", stop) THEN stop + 1 ELSE stop

Base(p) ==
  LET name == Eat("Ident", p)
  IN IF Failed(name) THEN name ELSE Ok(SkipOptionalParens(name.pos), name.tree)

Bases(p) == IF At(":", p) THEN CommaList("Base", p + 1) ELSE Ok(p, List(<<>>))

ClassParams(p) ==
  IF At("(", p) THEN Only(<<"(", "Params", ")">>, p) ELSE Ok(p, List(<<>>))

PlainBody(p) ==
  IF At("{", p) THEN Node("Members", <<"{", "Members", "}">>, p)
  ELSE Ok(p, Tree("Members", "", <<List(<<>>)>>))

\* A sealed class lists its subclasses, unless its first member is not a class.
SealedBody(p) ==
  IF At("{", p) /\ At("class", p + 1)
  THEN Node("Subclasses", <<"{", "Subclasses", "}">>, p) ELSE PlainBody(p)

Class(node, body, p) == Node(node, <<"Ident", "ClassParams", "Bases", body>>, p)
Subclass(p) == IF At("class", p) THEN Class("Class", "PlainBody", p + 1) ELSE Error(p)

Interface(p) == Node("Interface", <<"interface", "Ident", "{", "Members", "}">>, p)
Object(p) == Node("Object", <<"object", "Ident", "{", "Members", "}">>, p)
Driver(p) ==
  Node("Driver", <<"driver", "Ident", ":", "Ident", "{", "Members", "}">>, p)

\* `async` is taken to begin a function, which then fails on it.
Decl(p) ==
  CASE At("import", p) -> Import(p)
    [] At("extern", p) -> Extern(p)
    [] AtOneOf({"async", "fn"}, p) -> Fn("Fn", p)
    [] At("unsafe", p) /\ At("fn", p + 1) -> Fn("UnsafeFn", p + 1)
    [] At("interrupt", p) -> Interrupt(p)
    [] At("data", p) ->
         IF At("class", p + 1) THEN Class("DataClass", "PlainBody", p + 2) ELSE Error(p + 1)
    [] At("sealed", p) ->
         IF At("class", p + 1) THEN Class("SealedClass", "SealedBody", p + 2) ELSE Error(p + 1)
    [] At("class", p) -> Class("Class", "PlainBody", p + 1)
    [] At("interface", p) -> Interface(p)
    [] At("object", p) -> Object(p)
    [] At("driver", p) -> Driver(p)
    [] OTHER -> Parse("Stmt", p)

-------------------------------------------------------------------------------
(* Statements *)

OptType(p) == IF At(":", p) THEN Parse("Type", p + 1) ELSE Ok(p, None)

\* Mutant of Initializer: an initial value that cannot be read is taken for absent.
InitializerOrNone(p) ==
  LET value == Parse("Expr", p + 1)
  IN IF At("=", p) /\ ~Failed(value) THEN value ELSE Ok(p, None)

Initializer(p) == IF At("=", p) THEN Parse("Expr", p + 1) ELSE Ok(p, None)

\* `let`, `const` and `var`
Declare(p) == Node(toks[p], <<toks[p], "Ident", "OptType", "Initializer">>, p)

Return(p) ==
  IF AtOneOf({"}", ";", Eof}, p + 1) THEN Ok(p + 1, Tree("Return", "", <<None>>))
  ELSE Node("Return", <<"return", "Expr">>, p)

If(p) == Node("If", <<"if", "Expr", "{", "Stmts", "}", "Else">>, p)

\* Mutant of Else: the statements after `else` are read and forgotten.
ElseForgotten(p) ==
  CASE At("else", p) /\ At("if", p + 1) ->
         LET inner == If(p + 1) IN Join(inner, Ok(inner.pos, List(<<>>)))
    [] At("else", p) ->
         LET r == Sequence(<<"{", "Stmts", "}">>, p + 1)
         IN IF Failed(r) THEN r ELSE Ok(r.pos, List(<<>>))
    [] OTHER -> Ok(p, None)

\* `else if` is an `else` with one statement.
Else(p) ==
  CASE At("else", p) /\ At("if", p + 1) ->
         LET inner == Parse("Stmt", p + 1) IN Join(inner, Ok(inner.pos, List(<<>>)))
    [] At("else", p) -> Only(<<"{", "Stmts", "}">>, p + 1)
    [] OTHER -> Ok(p, None)

For(p) == Node("For", <<"for", "Ident", "in", "Expr", "{", "Stmts", "}">>, p)

RECURSIVE Path(_)
Path(p) ==
  LET name == Eat("Ident", p)
  IN Join(name, IF At(".", name.pos) THEN Path(name.pos + 1)
                ELSE Ok(name.pos, List(<<>>)))

Bindings(p) ==
  IF At("(", p) THEN Only(<<"(", "Names", ")">>, p) ELSE Ok(p, List(<<>>))

CaseBody(p) ==
  IF At("{", p) THEN Only(<<"{", "Stmts", "}">>, p)
  ELSE LET stmt == Parse("Stmt", p) IN Join(stmt, Ok(stmt.pos, List(<<>>)))

\* A pattern may also be missing altogether; only a path has bindings.
Case(p) ==
  CASE At("Ident", p) -> Node("Case", <<"Path", "Bindings", "=>", "CaseBody">>, p)
    [] At("*", p) -> Node("OtherCase", <<"*", "=>", "CaseBody">>, p)
    [] OTHER -> Node("BlankCase", <<"=>", "CaseBody">>, p)

Match(p) == Node("Match", <<"match", "Expr", "{", "Cases", "}">>, p)

PrintAll(p) == Node("Print", <<"print", "(", "Args", ")">>, p)
Unsafe(p) == Node("Unsafe", <<"unsafe", "{", "Stmts", "}">>, p)

ExprOrAssign(p) ==
  LET target == Parse("Expr", p)
      value == Parse("Expr", target.pos + 1)
  IN IF Failed(target) THEN target
     ELSE IF ~AtOneOf(AssignOps, target.pos) THEN Ok(target.pos, Tree("Expr", "", <<target.tree>>))
     ELSE IF Failed(value) THEN value
     ELSE Ok(value.pos, Tree("Assign", toks[target.pos], <<target.tree, value.tree>>))

Stmt(p) ==
  CASE AtOneOf({"let", "const", "var"}, p) -> Declare(p)
    [] At("return", p) -> Return(p)
    [] At("if", p) -> If(p)
    [] At("for", p) -> For(p)
    [] At("match", p) -> Match(p)
    [] At("print", p) -> PrintAll(p)
    [] At("unsafe", p) -> Unsafe(p)
    [] OTHER -> ExprOrAssign(p)

-------------------------------------------------------------------------------
(* Expressions *)

Literal(p) ==
  Ok(p + 1, Tree(IF At("String", p) THEN "String" ELSE "Number", toks[p], <<>>))

\* A name, or what a name followed by a bracket constructs or prints.
Named(p) ==
  LET tok == toks[p]
      args == Only(<<"(", "Args", ")">>, p + 1)
      called == At("(", p + 1)
  IN CASE tok \in {"true", "false", "null", "this"} -> Ok(p + 1, Tree("Constant", tok, <<>>))
       [] tok \in TypeNames /\ called ->
            IF Failed(args) THEN args ELSE Ok(args.pos, Tree("New", "", <<Leaf(tok), args.tree>>))
       [] tok = "print" /\ called ->
            IF Failed(args) THEN args
            ELSE Ok(args.pos, Tree("Call", "", <<Leaf("println"), args.tree>>))
       [] OTHER -> Ok(p + 1, Leaf(tok))

Primary(p) ==
  CASE AtOneOf({"Number", "String"}, p) -> Literal(p)
    [] At("(", p) -> Only(<<"(", "Expr", ")">>, p)
    [] AtOneOf({"Ident", "print", "range"}, p) -> Named(p)
    [] OTHER -> Error(p)

\* A name at p after a dot, with arguments if a bracket follows; `?.` makes no
\* difference between a field and a call without arguments.
Member(expr, safe, p) ==
  LET name == Eat("Ident", p)
      args == Only(<<"(", "Args", ")">>, name.pos)
  IN IF Failed(name) THEN name
     ELSE IF ~At("(", name.pos) THEN
       Ok(name.pos, IF safe THEN Tree("SafeCall", "", <<expr, name.tree, List(<<>>)>>)
                    ELSE Tree("Field", "", <<expr, name.tree>>))
     ELSE IF Failed(args) THEN args
     ELSE Ok(args.pos, Tree(IF safe THEN "SafeCall" ELSE "Method", "",
                            <<expr, name.tree, args.tree>>))

CallOf(expr, p) ==
  LET args == Only(<<"(", "Args", ")">>, p)
  IN IF Failed(args) THEN args ELSE Ok(args.pos, Tree("Call", "", <<expr, args.tree>>))

\* The loop of parse_postfix: a primary expression, or an error, and what follows it.
RECURSIVE Postfix(_)
Postfix(r) ==
  CASE Failed(r) -> r
    [] ~Failed(r) /\ At(".", r.pos) -> Postfix(Member(r.tree, FALSE, r.pos + 1))
    [] ~Failed(r) /\ At("?", r.pos) /\ At(".", r.pos + 1) ->
         Postfix(Member(r.tree, TRUE, r.pos + 2))
    [] ~Failed(r) /\ At("(", r.pos) -> Postfix(CallOf(r.tree, r.pos))
    [] OTHER -> r

RECURSIVE Unary(_)
Unary(p) ==
  IF AtOneOf({"!", "-", "&"}, p) THEN
    LET operand == Unary(p + 1)
    IN IF Failed(operand) THEN operand
       ELSE Ok(operand.pos, Tree("Unary", toks[p], <<operand.tree>>))
  ELSE Postfix(Primary(p))

\* An expression of a level, and the loop that extends one read up to p to the left.
RECURSIVE Level(_, _), Extend(_, _, _)

\* Mutant of Extend: the right side is read at the same level, so that a - b - c
\* groups to the right.
ExtendRight(l, left, p) ==
  LET right == IF l = IsLevel THEN Eat("Ident", p + 1) ELSE Level(l, p + 1)
      tree == IF l = IsLevel THEN Tree("Cast", "", <<left, right.tree>>)
              ELSE Tree("Binary", toks[p], <<left, right.tree>>)
      extends == IF l = IsLevel THEN p <= Len(toks) /\ toks[p] = "is" ELSE AtOneOf(Levels[l], p)
  IN IF ~extends THEN Ok(p, left)
     ELSE IF Failed(right) THEN right
     ELSE Extend(l, tree, right.pos)

Extend(l, left, p) ==
  LET right == IF l = IsLevel THEN Eat("Ident", p + 1) ELSE Level(l + 1, p + 1)
      tree == IF l = IsLevel THEN Tree("Cast", "", <<left, right.tree>>)
              ELSE Tree("Binary", toks[p], <<left, right.tree>>)
      extends == IF l = IsLevel THEN p <= Len(toks) /\ toks[p] = "is" ELSE AtOneOf(Levels[l], p)
  IN IF ~extends THEN Ok(p, left)
     ELSE IF Failed(right) THEN right
     ELSE Extend(l, tree, right.pos)

Level(l, p) ==
  IF l > Len(Levels) THEN Unary(p)
  ELSE LET first == Level(l + 1, p)
       IN IF Failed(first) THEN first ELSE Extend(l, first.tree, first.pos)

\* `?:` is two tokens.
RECURSIVE Elvis(_)
Elvis(left) ==
  LET right == Level(1, left.pos + 2)
  IN IF Failed(left) \/ ~At("?", left.pos) \/ ~At(":", left.pos + 1) THEN left
     ELSE IF Failed(right) THEN right
     ELSE Elvis(Ok(right.pos, Tree("Elvis", "", <<left.tree, right.tree>>)))

Expr(p) == Elvis(Level(1, p))

-------------------------------------------------------------------------------
Parse(rule, p) ==
  CASE rule = "Expr" -> Expr(p)
    [] rule = "Stmt" -> Stmt(p)
    [] rule = "Decl" -> Decl(p)
    [] rule = "Fn" -> Fn("Fn", p)
    [] rule = "Args" -> ListUntil(")", "Expr", p)
    [] rule = "Stmts" -> Repeat("Stmt", {"}", Eof}, p)
    [] rule = "Members" -> Repeat("Fn", {"}"}, p)
    [] rule = "ExternFns" -> Repeat("ExternFn", {"}"}, p)
    [] rule = "Subclasses" -> Repeat("Subclass", {"}"}, p)
    [] rule = "Cases" -> Repeat("Case", {"}"}, p)
    [] rule = "TypeArgs" -> ListUntil("]", "Type", p)
    [] rule = "Abi" -> Abi(p)
    [] rule = "ExternFn" -> ExternFn(p)
    [] rule = "Params" -> Params(p)
    [] rule = "Param" -> Param(p)
    [] rule = "Type" -> Type(p)
    [] rule = "OptType" -> OptType(p)
    [] rule = "ReturnType" -> ReturnType(p)
    [] rule = "Initializer" -> Initializer(p)
    [] rule = "Receiver" -> Receiver(p)
    [] rule = "Body" -> Body(p)
    [] rule = "ClassParams" -> ClassParams(p)
    [] rule = "Bases" -> Bases(p)
    [] rule = "Base" -> Base(p)
    [] rule = "PlainBody" -> PlainBody(p)
    [] rule = "SealedBody" -> SealedBody(p)
    [] rule = "Subclass" -> Subclass(p)
    [] rule = "Else" -> Else(p)
    [] rule = "Case" -> Case(p)
    [] rule = "Path" -> Path(p)
    [] rule = "Bindings" -> Bindings(p)
    [] rule = "Names" -> ListUntil(")", "Ident", p)
    [] rule = "CaseBody" -> CaseBody(p)
    [] OTHER -> Eat(rule, p)

ParseProgram == Repeat("Decl", {Eof}, 1)
===============================================================================
