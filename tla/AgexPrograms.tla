------------------------------ MODULE AgexPrograms ------------------------------
(***************************************************************************)
(* Programs for the parser: every operator under every other, and every    *)
(* construct of the language.                                              *)
(***************************************************************************)
EXTENDS AgexSyntax

Bin(op, l, r) == Tree("Binary", op, <<l, r>>)
Un(op, e) == Tree("Unary", op, <<e>>)
Is(e) == Tree("Cast", "", <<e, Leaf("T")>>)
Elvis(l, r) == Tree("Elvis", "", <<l, r>>)
Call(f, args) == Tree("Call", "", <<f, List(args)>>)
New(args) == Tree("New", "", <<Leaf("T"), List(args)>>)
Field(e) == Tree("Field", "", <<e, Leaf("y")>>)
Method(e, args) == Tree("Method", "", <<e, Leaf("y"), List(args)>>)
Safe(e, args) == Tree("SafeCall", "", <<e, Leaf("y"), List(args)>>)

x == Leaf("x")
One == Tree("Number", "1", <<>>)
Text == Tree("String", "s", <<>>)
This == Tree("Constant", "this", <<>>)

\* One operator of each level.
Joined(l, r) == {Elvis(l, r)} \cup {Bin(op, l, r) : op \in {"||", "&&", "==", "<", "-", "*"}}
Around(e) == {Is(e), Un("-", e), Un("&", e), Field(e), Method(e, <<>>), Safe(e, <<One>>), Call(e, <<x>>)}

\* Every operator under every other, on either side.
Flat == Joined(x, One) \cup Around(x)
Nested ==
  UNION {Joined(e, x) \cup Joined(x, e) \cup Around(e) : e \in Flat}
    \cup {x, One, Text, This, New(<<Text, Elvis(x, One)>>), Call(Leaf("T"), <<>>)}

Stmt(node, kids) == Tree(node, "", kids)
ExprStmt(e) == Stmt("Expr", <<e>>)
Set(e) == Tree("Assign", "+=", <<x, e>>)
T == Stmt("Named", <<Leaf("T")>>)
Maybe(t) == Stmt("Nullable", <<t>>)
Pointer(t) == Stmt("Pointer", <<t>>)
Generic(ts) == Stmt("Generic", <<Leaf("T"), List(ts)>>)
Param(t) == Stmt("Param", <<Leaf("x"), t, None>>)
Body(stmts) == Stmt("Block", <<List(stmts)>>)
Fn(params, return, body) == Stmt("Fn", <<None, Leaf("y"), List(params), return, body>>)
Class(node, params, bases, body) == Stmt(node, <<Leaf("T"), List(params), List(bases), body>>)
Plain(fns) == Stmt("Members", <<List(fns)>>)
Return(e) == Stmt("Return", <<e>>)

\* A sealed class and the construction of its variant, with an argument too many.
Sealed ==
  Class("SealedClass", <<>>, <<>>, Stmt("Subclasses", <<List(<<
    Stmt("Class", <<Leaf("V"), List(<<Param(T)>>), List(<<>>), Plain(<<>>)>>)>>)>>))
Made == Tree("Method", "", <<Leaf("T"), Leaf("V"), List(<<x, One>>)>>)

\* A function that assigns what may be a field of the class it belongs to, and one that
\* extends a type.
Assigns ==
  Fn(<<>>, None, Body(<<Stmt("If", <<x, List(<<>>), List(<<Stmt("Unsafe", <<List(<<Set(One)>>)>>)>>)>>)>>))
Extends == Stmt("Fn", <<Leaf("T"), Leaf("y"), List(<<Param(T)>>), None, Stmt("ExprBody", <<This>>)>>)

\* One program for each construct, the optional parts present in one and absent in another.
Constructs == {
  <<Stmt("Import", <<Leaf("y")>>), Stmt("let", <<Leaf("x"), None, None>>), ExprStmt(Field(x))>>,
  <<Stmt("var", <<Leaf("x"), Maybe(Pointer(Maybe(T))), Elvis(x, One)>>), Set(Un("-", x))>>,
  <<Stmt("const", <<Leaf("x"), Generic(<<T, Maybe(T)>>), None>>), ExprStmt(Un("-", x))>>,
  <<Stmt("If", <<Is(x), List(<<Set(One)>>), List(<<Stmt("If", <<x, List(<<>>), List(<<Return(x)>>)>>)>>)>>)>>,
  <<Stmt("If", <<x, List(<<Return(None)>>), None>>), Stmt("Unsafe", <<List(<<Set(x)>>)>>)>>,
  <<Stmt("For", <<Leaf("y"), Call(Leaf("range"), <<One>>), List(<<Stmt("Print", <<List(<<Text, x>>)>>)>>)>>)>>,
  <<Stmt("Match", <<x, List(<<
       Stmt("Case", <<List(<<Leaf("T"), Leaf("T")>>), List(<<Leaf("x"), Leaf("y")>>), List(<<Set(x)>>)>>),
       Stmt("Case", <<List(<<Leaf("x")>>), List(<<>>), List(<<ExprStmt(One)>>)>>),
       Stmt("OtherCase", <<List(<<>>)>>)>>)>>)>>,
  <<Fn(<<Param(T), Stmt("VarParam", <<Leaf("y"), Pointer(Maybe(T)), One>>)>>, Maybe(T), Body(<<Return(x)>>))>>,
  <<Stmt("UnsafeFn", <<Leaf("T"), Leaf("y"), List(<<>>), None, Stmt("ExprBody", <<x>>)>>), ExprStmt(One)>>,
  <<Class("Class", <<Param(T)>>, <<Leaf("T"), Leaf("T")>>, Plain(<<Fn(<<>>, None, Body(<<Set(x)>>))>>))>>,
  <<Class("DataClass", <<Param(T)>>, <<>>, Plain(<<>>))>>,
  <<Class("Class", <<>>, <<Leaf("T")>>, Plain(<<>>))>>,
  <<Class("SealedClass", <<>>, <<>>, Stmt("Subclasses", <<List(<<
       Class("Class", <<Param(T)>>, <<Leaf("T")>>, Plain(<<>>)), Class("Class", <<>>, <<>>, Plain(<<>>))>>)>>))>>,
  <<Class("SealedClass", <<>>, <<>>, Plain(<<Fn(<<>>, T, Body(<<>>))>>))>>,
  <<Stmt("Interface", <<Leaf("T"), List(<<Fn(<<>>, None, Body(<<>>))>>)>>)>>,
  <<Stmt("Object", <<Leaf("T"), List(<<Fn(<<>>, None, Stmt("ExprBody", <<Text>>))>>)>>)>>,
  <<Stmt("Driver", <<Leaf("T"), Leaf("T"), List(<<Fn(<<Param(T)>>, None, Body(<<>>))>>)>>)>>,
  <<Stmt("Extern", <<Leaf("s"), List(<<Stmt("ExternFn", <<Leaf("y"), List(<<Param(T)>>), T>>),
                                       Stmt("ExternFn", <<Leaf("x"), List(<<>>), None>>)>>)>>)>>,
  <<Stmt("Extern", <<Leaf("Rust"), List(<<>>)>>)>>,
  <<ExprStmt(Made), Sealed, Fn(<<>>, None, Body(<<ExprStmt(Made)>>))>>,
  <<Class("DataClass", <<Param(T)>>, <<>>, Plain(<<Assigns, Extends>>)), Assigns>>,
  <<Assigns, Class("Class", <<Param(T)>>, <<>>, Plain(<<Extends, Assigns>>)),
    Stmt("Object", <<Leaf("V"), List(<<Assigns>>)>>)>>,
  <<Extends, Stmt("For", <<Leaf("y"), Tree("Method", "", <<x, Leaf("len"), List(<<>>)>>),
                           List(<<ExprStmt(Tree("Field", "", <<x, Leaf("len")>>))>>)>>)>>
}

Sample == {List(<<ExprStmt(e)>>) : e \in Nested} \cup {List(c) : c \in Constructs}
===============================================================================
