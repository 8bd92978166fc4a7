------------------------------ MODULE AgexPrinter ------------------------------
(***************************************************************************)
(* A reference for the parser: how each tree of agex is written.  Brackets *)
(* stand where the precedence of the operators calls for them, and around  *)
(* names that would read as something else.                                *)
(***************************************************************************)
EXTENDS AgexSyntax

LOCAL INSTANCE SequencesExt

RECURSIVE PrintExpr(_, _), PrintStmt(_)

\* How tightly a tree holds together: Elvis 0, the levels 1 to 7, unary 8, postfix 9.
Binding(e) ==
  CASE e.node = "Elvis" -> 0
    [] e.node = "Cast" -> IsLevel
    [] e.node = "Binary" -> CHOOSE l \in DOMAIN Levels : e.text \in Levels[l]
    [] e.node = "Unary" -> Len(Levels) + 1
    [] OTHER -> Len(Levels) + 2

Braced(printed) == <<"{">> \o printed \o <<"}">>
Bracketed(printed) == <<"(">> \o printed \o <<")">>

\* Printed trees with commas between them.
Separated(printed) ==
  FlattenSeq([i \in DOMAIN printed |-> IF i = 1 THEN printed[i] ELSE <<",">> \o printed[i]])

Exprs(list) == Separated([i \in DOMAIN list.kids |-> PrintExpr(list.kids[i], 0)])
Stmts(list) == FlattenSeq([i \in DOMAIN list.kids |-> PrintStmt(list.kids[i])])

\* A callee is bracketed where its arguments would make it an object or a method, and so
\* is a bare `print`, which would begin a statement.
Callee(e) ==
  IF e.node = "Field" \/ e.text \in TypeNames
  THEN Bracketed(PrintExpr(e, 0))
  ELSE PrintExpr(e, Len(Levels) + 2)

Bare(e) ==
  LET k == e.kids
      l == Binding(e)
  IN CASE e.node = "Name" -> IF e.text = "print" THEN Bracketed(<<e.text>>) ELSE <<e.text>>
       [] e.node \in {"Number", "String", "Constant"} -> <<e.text>>
       [] e.node = "Elvis" -> PrintExpr(k[1], 0) \o <<"?", ":">> \o PrintExpr(k[2], 1)
       [] e.node = "Binary" -> PrintExpr(k[1], l) \o <<e.text>> \o PrintExpr(k[2], l + 1)
       [] e.node = "Cast" -> PrintExpr(k[1], l) \o <<"is", k[2].text>>
       [] e.node = "Unary" -> <<e.text>> \o PrintExpr(k[1], l)
       [] e.node = "Call" -> Callee(k[1]) \o Bracketed(Exprs(k[2]))
       [] e.node = "New" -> <<k[1].text>> \o Bracketed(Exprs(k[2]))
       [] e.node = "Field" -> PrintExpr(k[1], l) \o <<".", k[2].text>>
       [] e.node = "Method" -> PrintExpr(k[1], l) \o <<".", k[2].text>> \o Bracketed(Exprs(k[3]))
       [] e.node = "SafeCall" ->
            PrintExpr(k[1], l) \o <<"?", ".", k[2].text>> \o Bracketed(Exprs(k[3]))

\* An expression where at least the given binding is required.
PrintExpr(e, binding) == IF Binding(e) < binding THEN Bracketed(Bare(e)) ELSE Bare(e)

RECURSIVE PrintType(_)
PrintType(t) ==
  CASE t.node = "Named" -> <<t.kids[1].text>>
    [] t.node = "Pointer" -> <<"*">> \o PrintType(t.kids[1])
    [] t.node = "Nullable" -> PrintType(t.kids[1]) \o <<"?">>
    [] t.node = "Generic" ->
         <<t.kids[1].text, "[">>
           \o Separated([i \in DOMAIN t.kids[2].kids |-> PrintType(t.kids[2].kids[i])])
           \o <<"]">>

IfPresent(before, tree, printed) == IF tree = None THEN <<>> ELSE before \o printed

Path(list) ==
  FlattenSeq([i \in DOMAIN list.kids |->
                IF i = 1 THEN <<list.kids[i].text>> ELSE <<".", list.kids[i].text>>])

PrintCase(c) ==
  LET k == c.kids
      pattern == CASE c.node = "Case" -> Path(k[1]) \o Bracketed(Exprs(k[2]))
                   [] c.node = "OtherCase" -> <<"*">>
                   [] OTHER -> <<>>
  IN pattern \o <<"=>">> \o Braced(Stmts(k[Len(k)]))

PrintStmt(s) ==
  LET k == s.kids
  IN CASE s.node \in {"let", "const", "var"} ->
            <<s.node, k[1].text>> \o IfPresent(<<":">>, k[2], PrintType(k[2]))
              \o IfPresent(<<"=">>, k[3], PrintExpr(k[3], 0))
       [] s.node = "Return" -> <<"return">> \o IfPresent(<<>>, k[1], PrintExpr(k[1], 0))
       [] s.node = "If" ->
            <<"if">> \o PrintExpr(k[1], 0) \o Braced(Stmts(k[2]))
              \o IfPresent(<<"else">>, k[3], Braced(Stmts(k[3])))
       [] s.node = "For" ->
            <<"for", k[1].text, "in">> \o PrintExpr(k[2], 0) \o Braced(Stmts(k[3]))
       [] s.node = "Match" ->
            <<"match">> \o PrintExpr(k[1], 0)
              \o Braced(FlattenSeq([i \in DOMAIN k[2].kids |-> PrintCase(k[2].kids[i])]))
       [] s.node = "Print" -> <<"print">> \o Bracketed(Exprs(k[1]))
       [] s.node = "Unsafe" -> <<"unsafe">> \o Braced(Stmts(k[1]))
       [] s.node = "Assign" -> PrintExpr(k[1], 0) \o <<s.text>> \o PrintExpr(k[2], 0)
       [] s.node = "Expr" -> PrintExpr(k[1], 0)

PrintParam(p) ==
  (IF p.node = "VarParam" THEN <<"var">> ELSE <<>>)
    \o <<p.kids[1].text, ":">> \o PrintType(p.kids[2])
    \o IfPresent(<<"=">>, p.kids[3], PrintExpr(p.kids[3], 0))

PrintParams(list) ==
  Bracketed(Separated([i \in DOMAIN list.kids |-> PrintParam(list.kids[i])]))

PrintBody(b) ==
  IF b.node = "Block" THEN Braced(Stmts(b.kids[1]))
  ELSE <<"=">> \o PrintExpr(b.kids[1], 0) \o <<";">>

PrintFn(f) ==
  LET k == f.kids
  IN (IF f.node = "UnsafeFn" THEN <<"unsafe">> ELSE <<>>) \o <<"fn">>
       \o IfPresent(<<>>, k[1], <<k[1].text, ".">>)
       \o <<k[2].text>> \o PrintParams(k[3]) \o IfPresent(<<"->">>, k[4], PrintType(k[4]))
       \o (IF Len(k) = 5 THEN PrintBody(k[5]) ELSE <<>>)

PrintExternFn(f) ==
  <<"fn", f.kids[1].text>> \o PrintParams(f.kids[2])
    \o IfPresent(<<"->">>, f.kids[3], PrintType(f.kids[3]))

Members(list) == Braced(FlattenSeq([i \in DOMAIN list.kids |-> PrintFn(list.kids[i])]))

RECURSIVE PrintClass(_)
PrintClass(c) ==
  LET k == c.kids
      modifier == CASE c.node = "DataClass" -> <<"data">>
                    [] c.node = "SealedClass" -> <<"sealed">>
                    [] OTHER -> <<>>
      inner == k[4].kids[1]
  IN modifier \o <<"class", k[1].text>> \o PrintParams(k[2])
       \o IfPresent(<<":">>, IF k[3].kids = <<>> THEN None ELSE k[3], Exprs(k[3]))
       \o (IF k[4].node = "Members" THEN Members(inner)
           ELSE Braced(FlattenSeq([i \in DOMAIN inner.kids |-> PrintClass(inner.kids[i])])))

PrintDecl(d) ==
  LET k == d.kids
  IN CASE d.node = "Import" -> <<"import", k[1].text>>
       [] d.node = "Extern" ->
            <<"extern">> \o (IF k[1].text = "Rust" THEN <<>> ELSE <<k[1].text>>)
              \o Braced(FlattenSeq([i \in DOMAIN k[2].kids |-> PrintExternFn(k[2].kids[i])]))
       [] d.node \in {"Fn", "UnsafeFn"} -> PrintFn(d)
       [] d.node \in {"DataClass", "SealedClass", "Class"} -> PrintClass(d)
       [] d.node \in {"Interface", "Object"} ->
            <<IF d.node = "Object" THEN "object" ELSE "interface", k[1].text>> \o Members(k[2])
       [] d.node = "Driver" -> <<"driver", k[1].text, ":", k[2].text>> \o Members(k[3])
       [] OTHER -> PrintStmt(d)

PrintProgram(program) ==
  FlattenSeq([i \in DOMAIN program.kids |-> PrintDecl(program.kids[i])]) \o <<Eof>>
===============================================================================
