----------------------------- MODULE AgexCodegen -----------------------------
(***************************************************************************)
(* The code generator of agex (crates/agex/src/codegen.rs), from a tree to *)
(* the tokens of Rust; the lowering before it (hir.rs) changes nothing.    *)
(* Indentation and comments are left out, and a format string is the       *)
(* sequence of its literals and placeholders.                              *)
(*                                                                         *)
(* The generator's state is a record: what was emitted so far, an item for *)
(* each declaration; the names rewritten to fields of self; and the        *)
(* variants of the sealed classes emitted so far.                          *)
(***************************************************************************)
EXTENDS AgexSyntax

LOCAL INSTANCE SequencesExt

NewGenerator == [out |-> <<>>, in_method_fields |-> {}, sealed_classes |-> <<>>]

NewItem(g) == [g EXCEPT !.out = Append(@, <<>>)]
Emit(g, rust) == [g EXCEPT !.out[Len(g.out)] = @ \o rust]

Concat(list, Of(_)) == FlattenSeq([i \in DOMAIN list.kids |-> Of(list.kids[i])])

\* `.collect::<Vec<_>>().join(", ")`
CommaJoin(seqs) ==
  FlattenSeq([i \in DOMAIN seqs |-> IF i = 1 THEN seqs[i] ELSE <<",">> \o seqs[i]])
Commas(list, Of(_)) == CommaJoin([i \in DOMAIN list.kids |-> Of(list.kids[i])])

RustParens(rust) == <<"(">> \o rust \o <<")">>
RustBlock(rust) == <<"{">> \o rust \o <<"}">>

-------------------------------------------------------------------------------
(* Types *)

\* The names that Rust spells otherwise.
AGEX_TYPE_MAP == [int |-> "i32", string |-> "String", str |-> "&str", Any |-> "impl std::any::Any"]
MappedType(name) == IF name \in DOMAIN AGEX_TYPE_MAP THEN AGEX_TYPE_MAP[name] ELSE name

RECURSIVE GenType(_)
GenType(t) ==
  CASE t = None -> <<"_">>
    [] t.node = "Named" -> <<MappedType(t.kids[1].text)>>
    [] t.node = "Generic" ->
         <<MappedType(t.kids[1].text), "<">> \o Commas(t.kids[2], GenType) \o <<">">>
    [] t.node = "Pointer" -> <<"*", "mut">> \o GenType(t.kids[1])
    [] t.node = "Nullable" -> <<"Option", "<">> \o GenType(t.kids[1]) \o <<">">>

GenReturn(t) == IF t = None THEN <<>> ELSE <<"->">> \o GenType(t)

\* A parameter or a field; its default value is dropped.
GenTyped(p) == <<p.kids[1].text, ":">> \o GenType(p.kids[2])
GenField(p) == <<"pub">> \o GenTyped(p) \o <<",">>
GenParam(p) == (IF p.node = "VarParam" THEN <<"mut">> ELSE <<>>) \o GenTyped(p)
ParamNames(list) == [i \in DOMAIN list.kids |-> list.kids[i].kids[1].text]

-------------------------------------------------------------------------------
(* Expressions *)

\* `gen_expr`, `gen_stmt`: the Rust of an expression or a statement.
RECURSIVE Gen(_, _)

GenExprs(list, g) == Commas(list, LAMBDA e : Gen(e, g))

\* Inside a method the names of fields are fields of self.
GenName(name, g) == IF name \in g.in_method_fields THEN <<"self", ".", name>> ELSE <<name>>

GenConstant(text) ==
  CASE text = "null" -> "None"
    [] text = "this" -> "self"
    [] OTHER -> text

\* Mutant of GenBinary: no brackets.
GenBinaryBare(op, l, r, g) == Gen(l, g) \o <<op>> \o Gen(r, g)

\* Only + with a string literal formats; every other operator is bracketed.
GenBinary(op, l, r, g) ==
  IF op = "+" /\ "String" \in {l.node, r.node}
  THEN <<"format", "!", "(", "{}{}", ",">> \o Gen(l, g) \o <<",">> \o Gen(r, g) \o <<")">>
  ELSE RustParens(Gen(l, g) \o <<op>> \o Gen(r, g))

GenUnary(op, operand, g) ==
  IF op = "&" THEN <<op>> \o Gen(operand, g) ELSE RustParens(<<op>> \o Gen(operand, g))

\* String literals go into the format string, what else is printed gets a placeholder.
GenPrintln(list, g) ==
  LET format == Concat(list, LAMBDA a : IF a.node = "String" THEN <<a.text>> ELSE <<"{}">>)
      rest == SelectSeq(list.kids, LAMBDA a : a.node # "String")
  IN <<"println", "!", "(">> \o format
       \o Concat(List(rest), LAMBDA a : <<",">> \o Gen(a, g)) \o <<")">>

\* Arguments of range after the first are dropped.
RangeEnd(list, g) == IF list.kids = <<>> THEN <<"0">> ELSE Gen(list.kids[1], g)

GenCall(callee, list, g) ==
  CASE callee = Leaf("range") -> RustParens(<<"0", "..">> \o RangeEnd(list, g))
    [] callee = Leaf("println") -> GenPrintln(list, g)
    [] OTHER -> Gen(callee, g) \o RustParens(GenExprs(list, g))

\* The variants of that name of the sealed classes of that name, the first emitted first.
Variants(class, name, g) ==
  SelectSeq(g.sealed_classes, LAMBDA v : v.class = class /\ v.name = name)

GenVariant(variant, list, g) ==
  LET field(i) == IF i <= Len(variant.fields) THEN variant.fields[i] ELSE "field" \o ToString(i - 1)
  IN <<variant.class, "::", variant.name>>
       \o RustBlock(CommaJoin([i \in DOMAIN list.kids |->
                                 <<field(i), ":">> \o Gen(list.kids[i], g)]))

\* Methods with a name of their own in Rust; what they are called with is dropped.
Renamed == [uppercase |-> "to_uppercase", lowercase |-> "to_lowercase",
            length |-> "len", len |-> "len"]

GenMethod(recv, name, list, g) ==
  LET variants == IF recv.node = "Name" THEN Variants(recv.text, name, g) ELSE <<>>
  IN CASE variants # <<>> -> GenVariant(variants[1], list, g)
       [] variants = <<>> /\ name \in DOMAIN Renamed ->
            Gen(recv, g) \o <<".", Renamed[name], "(", ")">>
       [] OTHER -> Gen(recv, g) \o <<".", name>> \o RustParens(GenExprs(list, g))

GenMember(recv, name, g) ==
  Gen(recv, g) \o (IF name \in {"length", "len"} THEN <<".", "len", "(", ")">> ELSE <<".", name>>)

GenSafeCall(recv, name, list, g) ==
  Gen(recv, g) \o <<".", "as_ref", "(", ")", ".", "and_then", "(", "|", "r", "|", "Some", "(", "r", ".", name>>
    \o RustParens(GenExprs(list, g)) \o <<")", ")">>

\* String literals are made Strings.
GenNew(name, list, g) ==
  <<name, "::", "new">>
    \o RustParens(Commas(list, LAMBDA a : Gen(a, g)
         \o (IF a.node = "String" THEN <<".", "to_string", "(", ")">> ELSE <<>>)))

GenExpr(e, g) ==
  LET k == e.kids
  IN CASE e.node \in {"Number", "String"} -> <<e.text>>
       [] e.node = "Constant" -> <<GenConstant(e.text)>>
       [] e.node = "Name" -> GenName(e.text, g)
       [] e.node = "Binary" -> GenBinary(e.text, k[1], k[2], g)
       [] e.node = "Unary" -> GenUnary(e.text, k[1], g)
       [] e.node = "Call" -> GenCall(k[1], k[2], g)
       [] e.node = "Method" -> GenMethod(k[1], k[2].text, k[3], g)
       [] e.node = "Field" -> GenMember(k[1], k[2].text, g)
       [] e.node = "SafeCall" -> GenSafeCall(k[1], k[2].text, k[3], g)
       [] e.node = "Elvis" -> Gen(k[1], g) \o <<".", "unwrap_or">> \o RustParens(Gen(k[2], g))
       [] e.node = "New" -> GenNew(k[1].text, k[2], g)
       [] e.node = "Cast" -> Gen(k[1], g) \o <<"as", k[2].text>>

-------------------------------------------------------------------------------
(* Statements *)

GenStmts(list, g) == Concat(list, LAMBDA s : Gen(s, g))

\* `let` and `var`
GenLet(keyword, name, type, init, g) ==
  keyword \o <<name>> \o (IF type = None /\ init # None THEN <<>> ELSE <<":">> \o GenType(type))
    \o (IF init = None THEN <<>> ELSE <<"=">> \o Gen(init, g)) \o <<";">>

GenConst(name, type, init, g) ==
  <<IF type = None THEN "let" ELSE "const", name, ":">> \o GenType(type)
    \o <<"=">> \o (IF init = None THEN <<>> ELSE Gen(init, g)) \o <<";">>

GenIf(cond, then, els, g) ==
  <<"if">> \o Gen(cond, g) \o RustBlock(GenStmts(then, g))
    \o (IF els = None THEN <<>> ELSE <<"else">> \o RustBlock(GenStmts(els, g)))

GenFor(var, iter, body, g) ==
  <<"for", var, "in">>
    \o (IF iter.node = "Call" /\ iter.kids[1] = Leaf("range")
        THEN <<"0", "..">> \o RangeEnd(iter.kids[2], g) ELSE Gen(iter, g))
    \o RustBlock(GenStmts(body, g))

\* Bindings are kept of Ok and Err, if there is one, and of a path, which stands for a
\* variant of the enum it begins with.
GenPattern(c) ==
  LET path == [i \in DOMAIN c.kids[1].kids |-> <<c.kids[1].kids[i].text>>]
      bindings == CommaJoin([i \in DOMAIN c.kids[2].kids |-> <<c.kids[2].kids[i].text>>])
      variant == path[1] \o <<"::">> \o path[2]
                   \o FlattenSeq([i \in 3 .. Len(path) |-> <<".">> \o path[i]])
  IN CASE c.node = "OtherCase" -> <<"_">>
       [] c.node = "BlankCase" -> <<>>
       [] c.node = "Case" /\ path \in {<< <<"Ok">> >>, << <<"Err">> >>} ->
            path[1] \o RustParens(IF Len(bindings) = 1 THEN bindings ELSE <<"..">>)
       [] c.node = "Case" /\ Len(path) > 1 ->
            variant \o RustBlock(IF bindings = <<>> THEN <<"..">> ELSE bindings)
       [] OTHER -> path[1]

\* A match without a case for everything else gets one.
GenMatch(e, cases, g) ==
  LET body(c) == c.kids[Len(c.kids)]
      other == \E i \in DOMAIN cases.kids : cases.kids[i].node = "OtherCase"
  IN <<"match">> \o Gen(e, g)
       \o RustBlock(Concat(cases, LAMBDA c : GenPattern(c) \o <<"=>">> \o RustBlock(GenStmts(body(c), g)))
                      \o (IF other THEN <<>> ELSE <<"_", "=>", "{", "}">>))

GenStmt(s, g) ==
  LET k == s.kids
  IN CASE s.node = "let" -> GenLet(<<"let">>, k[1].text, k[2], k[3], g)
       [] s.node = "var" -> GenLet(<<"let", "mut">>, k[1].text, k[2], k[3], g)
       [] s.node = "const" -> GenConst(k[1].text, k[2], k[3], g)
       [] s.node = "Assign" -> Gen(k[1], g) \o <<s.text>> \o Gen(k[2], g) \o <<";">>
       [] s.node = "Return" ->
            <<"return">> \o (IF k[1] = None THEN <<>> ELSE Gen(k[1], g)) \o <<";">>
       [] s.node = "If" -> GenIf(k[1], k[2], k[3], g)
       [] s.node = "For" -> GenFor(k[1].text, k[2], k[3], g)
       [] s.node = "Match" -> GenMatch(k[1], k[2], g)
       [] s.node = "Print" -> GenPrintln(k[1], g) \o <<";">>
       [] s.node = "Unsafe" -> <<"unsafe">> \o RustBlock(GenStmts(k[1], g))
       [] s.node = "Expr" -> Gen(k[1], g) \o <<";">>

Expressions == {"Number", "String", "Constant", "Name", "Binary", "Unary", "Call", "Method",
                "Field", "SafeCall", "Elvis", "New", "Cast"}
Gen(tree, g) == IF tree.node \in Expressions THEN GenExpr(tree, g) ELSE GenStmt(tree, g)

-------------------------------------------------------------------------------
(* Declarations *)

\* Whether a statement assigns a name or a field, loops left aside.
RECURSIVE MutatesSelf(_)
AnyMutates(list) == \E i \in DOMAIN list.kids : MutatesSelf(list.kids[i])
MutatesSelf(s) ==
  LET k == s.kids
  IN CASE s.node = "Assign" -> k[1].node \in {"Field", "Name"}
       [] s.node = "If" -> AnyMutates(k[2]) \/ (k[3] # None /\ AnyMutates(k[3]))
       [] s.node = "Match" ->
            \E i \in DOMAIN k[2].kids : AnyMutates(k[2].kids[i].kids[Len(k[2].kids[i].kids)])
       [] s.node = "Unsafe" -> AnyMutates(k[1])
       [] OTHER -> FALSE

NeedsMut(f) == f.kids[5].node = "Block" /\ AnyMutates(f.kids[5].kids[1])

GenBody(body, g) ==
  IF body.node = "Block" THEN GenStmts(body.kids[1], g) ELSE Gen(body.kids[1], g)

GenHeader(f, self) ==
  LET params == Commas(f.kids[3], GenParam)
      comma == IF self = <<>> \/ params = <<>> THEN <<>> ELSE <<",">>
  IN (IF f.node = "UnsafeFn" /\ f.kids[1] = None THEN <<"unsafe">> ELSE <<>>)
       \o <<"pub", "fn", f.kids[2].text>> \o RustParens(self \o comma \o params)
       \o GenReturn(f.kids[4])

\* Mutant of LeaveScope: the fields stay in scope.
StayInScope(is_method, g) == g

LeaveScope(is_method, g) == IF is_method THEN [g EXCEPT !.in_method_fields = {}] ELSE g

\* An extension function is put into an impl of what it extends; a method borrows self,
\* and its body is written with the fields in scope.
GenFnInner(f, is_method, fields, g) ==
  LET extends == f.kids[1] # None
      scoped == IF is_method /\ ~extends THEN [g EXCEPT !.in_method_fields = fields] ELSE g
      self == CASE extends /\ f.kids[3].kids = <<>> -> <<"self", ":", "Self">>
                [] extends /\ f.kids[3].kids # <<>> -> <<"self", ":", "&", "Self">>
                [] ~extends /\ is_method -> IF NeedsMut(f) THEN <<"&", "mut", "self">> ELSE <<"&", "self">>
                [] OTHER -> <<>>
      fn == GenHeader(f, self) \o RustBlock(GenBody(f.kids[5], scoped))
      emitted == Emit(scoped, IF extends THEN <<"impl", f.kids[1].text>> \o RustBlock(fn) ELSE fn)
  IN LeaveScope(is_method, emitted)

GenMethods(members, fields, g) ==
  FoldLeft(LAMBDA so_far, f : GenFnInner(f, TRUE, fields, so_far), g, members.kids)

\* A sealed class is an enum, and from here on its variants can be constructed.
GenSealed(c, g) ==
  LET name == c.kids[1].text
      subs == c.kids[4].kids[1]
      variants == [i \in DOMAIN subs.kids |->
                     [class |-> name, name |-> subs.kids[i].kids[1].text,
                      fields |-> ParamNames(subs.kids[i].kids[2])]]
      variant(s) == <<s.kids[1].text>> \o RustBlock(Commas(s.kids[2], GenTyped)) \o <<",">>
      arm(s) == <<name, "::", s.kids[1].text>> \o RustBlock(Commas(s.kids[2], LAMBDA p : <<p.kids[1].text>>))
                  \o <<"=>", "write", "!">>
  IN Emit([g EXCEPT !.sealed_classes = @ \o variants],
          <<"pub", "enum", name>> \o RustBlock(Concat(subs, variant))
            \o <<"impl", "Display", "for", name>> \o RustBlock(Concat(subs, arm)))

\* A struct and its methods, the constructor first; a data class also gets an accessor
\* for each field and a Display.
GenStruct(c, g) ==
  LET name == c.kids[1].text
      params == c.kids[2]
      fields == {params.kids[i].kids[1].text : i \in DOMAIN params.kids}
      accessor(p) == <<"pub", "fn", "component", "(", "&", "self", ")", "->", "&">> \o GenType(p.kids[2])
                       \o RustBlock(<<"&", "self", ".", p.kids[1].text>>)
      head == Emit(g, <<"pub", "struct", name>> \o RustBlock(Concat(params, GenField))
                        \o <<"impl", name, "{", "pub", "fn", "new">> \o RustParens(Commas(params, GenTyped))
                        \o <<"->", "Self">>
                        \o RustBlock(<<"Self">> \o RustBlock(Commas(params, LAMBDA p : <<p.kids[1].text>>)))
                        \o (IF c.node = "DataClass" THEN Concat(params, accessor) ELSE <<>>))
  IN Emit(GenMethods(c.kids[4].kids[1], fields, head),
          IF c.node = "DataClass" THEN <<"}", "impl", "Display", "for", name, "{", "write", "!", "}">>
          ELSE <<"}">>)

GenClass(c, g) == IF c.kids[4].node = "Subclasses" THEN GenSealed(c, g) ELSE GenStruct(c, g)

\* A member of an interface, an object or a driver: a function without self.
GenStatic(f, g) ==
  <<"fn", f.kids[2].text>> \o RustParens(Commas(f.kids[3], GenTyped)) \o GenReturn(f.kids[4])
    \o RustBlock(GenBody(f.kids[5], g))
GenStatics(list, g) == RustBlock(Concat(list, LAMBDA f : GenStatic(f, g)))

GenInterface(i, g) == Emit(g, <<"pub", "trait", i.kids[1].text>> \o GenStatics(i.kids[2], g))

GenObject(o, g) ==
  LET name == o.kids[1].text
  IN Emit(g, <<"pub", "struct", name, ";", "impl", name, "{", "instance", "OnceLock", "<", name, ">", "get_or_init", name>>
               \o GenStatics(o.kids[2], g) \o <<"}">>)

GenDriver(v, g) ==
  Emit(g, <<"pub", "struct", v.kids[1].text, ";", "impl", v.kids[2].text, "for", v.kids[1].text>>
            \o GenStatics(v.kids[3], g))

GenExtern(e, g) ==
  LET fn(f) == <<"fn", f.kids[1].text>> \o RustParens(Commas(f.kids[2], GenTyped))
                 \o GenReturn(f.kids[3]) \o <<";">>
  IN Emit(g, <<"extern", e.kids[1].text>> \o RustBlock(Concat(e.kids[2], fn)))

\* An import is a comment, and a module for the three that have one.
GenImport(i, g) ==
  IF i.kids[1].text \in {"graphics", "network", "filesystem"} THEN Emit(g, <<"mod", i.kids[1].text, ";">>)
  ELSE g

GenDecl(d, g) ==
  CASE d.node = "Import" -> GenImport(d, g)
    [] d.node = "Extern" -> GenExtern(d, g)
    [] d.node \in {"Fn", "UnsafeFn"} -> GenFnInner(d, FALSE, {}, g)
    [] d.node \in {"Class", "DataClass", "SealedClass"} -> GenClass(d, g)
    [] d.node = "Interface" -> GenInterface(d, g)
    [] d.node = "Object" -> GenObject(d, g)
    [] d.node = "Driver" -> GenDriver(d, g)

Declarations == {"Import", "Extern", "Fn", "UnsafeFn", "Class", "DataClass", "SealedClass",
                 "Interface", "Object", "Driver"}
Decls(program) == SelectSeq(program.kids, LAMBDA d : d.node \in Declarations)
TopStmts(program) == SelectSeq(program.kids, LAMBDA d : d.node \notin Declarations)

\* Mutant of Generate: main is written first.
GenerateMainFirst(program) ==
  LET decls == FoldLeft(LAMBDA g, d : GenDecl(d, NewItem(g)), NewGenerator, Decls(program))
  IN Append(decls.out, <<"fn", "main", "(", ")">> \o RustBlock(GenStmts(List(TopStmts(program)), NewGenerator)))

\* The declarations first, in their order; what is left makes up main.
Generate(program) ==
  LET decls == FoldLeft(LAMBDA g, d : GenDecl(d, NewItem(g)), NewGenerator, Decls(program))
      main == TopStmts(program)
  IN IF main = <<>> THEN decls.out
     ELSE Append(decls.out, <<"fn", "main", "(", ")">> \o RustBlock(GenStmts(List(main), decls)))
===============================================================================
