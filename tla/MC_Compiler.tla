----------------------------- MODULE MC_Compiler -----------------------------
EXTENDS Compiler

CONSTANT MaxRow    \* the longest row of arbitrary tokens

Id(x) == Node("id", x, 0, <<>>)
Number(n) == Node("const", "", n, <<>>)
Var(x) == Node("var", x, 0, <<>>)
Do(statements) == Node("seq", "", 0, statements)
Assign(a, e) == Node("assign", "", 0, <<a, e>>)
Set(x, e) == Assign(Var(x), e)
Binary(op, es) == Node("binary", op, 0, es)
Unary(op, e) == Node("unary", op, 0, <<e>>)
Tuple(es) == Node("tuple", "", 0, es)
Array(es) == Node("array", "", 0, es)
Call(e, args) == Node("call", "", 0, <<e>> \o args)
Method(e, m, args) == Node("method", m, 0, <<e>> \o args)
If(parts) == Node("if", "", 0, parts)
While(c, b) == Node("while", "", 0, <<c, b>>)

X == Id("x")
Y == Id("y")

\* Every expression with e among its operands.
Holding(e) ==
    {e, Call(X, <<e>>), Call(e, <<X>>), Method(e, "m", <<>>), Method(X, "m", <<e>>),
     Tuple(<<e, X>>), Array(<<X, e>>), Array(<<e>>),
     Node("map", "", 0, <<X, e, e, Y>>), Node("index", "", 0, <<e, Number(1)>>),
     Node("index", "", 0, <<X, e>>), Node("field", "m", 0, <<e>>),
     Node("range", "", 0, <<Number(0), e>>), Node("range", "", 0, <<e, X, Number(2)>>),
     Node("and", "", 0, <<X, e, Y>>), Node("or", "", 0, <<e, X, Y>>),
     Node("in", "in", 0, <<X, e>>), Node("in", "notin", 0, <<e, X>>),
     Node("is", "", 0, <<e, X>>), Node("is", "", 0, <<X, e>>),
     If(<<e, X>>), If(<<X, e, Y>>), If(<<X, Y, e, X, e>>),
     Node("anon", "$anon", 0, <<Var("a"), e>>)}
      \cup {Unary(op, e) : op \in {"~", "!", "-", "await"}}
      \cup {Binary(op, <<X, e>>) : op \in {"MULT", "SUB", "LT", "EQ", "BOR"}}
      \cup {Binary(op, <<e, X, Y>>) : op \in {"DIV", "ADD", "GTE", "NEQ", "BXOR", "BAND"}}

Atoms == {X, Number(3), Node("string", "s", 0, <<>>), Array(<<>>), Node("map", "", 0, <<>>)}
Inner == {Tuple(<<X, Y>>), Set("v", X), If(<<X, Y, X>>), Node("anon", "$anon", 0, <<Var("a"), X>>),
          Node("is", "", 0, <<X, Y>>), Node("or", "", 0, <<X, Y>>),
          Node("and", "", 0, <<X, Y>>), Binary("EQ", <<X, Y>>), Binary("LT", <<X, Y>>),
          Node("in", "in", 0, <<X, Y>>), Binary("SUB", <<X, Y, X>>),
          Binary("MULT", <<X, Y>>), Binary("BOR", <<X, Y>>), Unary("-", X),
          Node("range", "", 0, <<X, Y, X>>), Call(X, <<>>), Node("field", "n", 0, <<X>>)}
Expressions == UNION {Holding(e) : e \in Atoms \cup Inner}

Module(body) == Node("module", "", 0, body)

\* A field that is called is a method, and not written as an expression.
RECURSIVE Writable(_)
Writable(x) == /\ ~(x.k = "call" /\ x.kids[1].k = "field")
               /\ \A i \in DOMAIN x.kids : Writable(x.kids[i])

ExpressionModules ==
    {Module(<<Set("r", e), X>>) : e \in {e \in Expressions : Writable(e)}}

-----------------------------------------------------------------------------

F == Set("r", Call(Id("f"), <<>>))
G == Set("r", Call(Id("g"), <<>>))
C == Id("c")
Raise == Node("raise", "", 0, <<X>>)
Break == Node("break", "", 0, <<>>)
Continue == Node("continue", "", 0, <<>>)
For(b) == Node("for", "", 0, <<Set("i", Number(0)), C, Set("i", Number(1)), b>>)
Foreach(b) == Node("foreach", "", 0, <<Var("i"), Id("o"), b>>)
Try(b, d) == Node("try", "", 0, <<b, Var("e"), d>>)
Point(e) == Node("field", "m", 0, <<e>>)
At(e, i) == Node("index", "", 0, <<e, i>>)

\* Every statement around b, with one other statement in turn.
StatementsAround(b) ==
    {While(C, b), For(b), Foreach(b), If(<<C, b>>), If(<<C, b, F>>), If(<<C, F, b>>),
     Try(b, F), Try(F, b), If(<<C, b, C, F>>), If(<<C, F, C, b, C, G, F>>)}

Targets == {Node("var", "v", 1, <<>>), Point(X), Point(Point(X)), At(X, Y), At(Point(X), Y),
            Point(Call(X, <<Y>>)), At(Method(X, "m", <<>>), Tuple(<<X, Y>>)),
            Tuple(<<Var("v"), Var("w")>>), Tuple(<<Var("v"), Tuple(<<Point(X), Var("w")>>)>>)}

Statements ==
    UNION {StatementsAround(b) : b \in {F, Raise, Break, Do(<<>>)}}
      \cup {While(C, Do(<<F, s>>)) : s \in StatementsAround(Continue)}
      \cup UNION {StatementsAround(b) : b \in {If(<<C, F>>), If(<<C, Do(<<F>>), G>>),
                                               While(C, F), Try(F, G)}}
      \cup {Assign(a, X) : a \in Targets} \cup {Node("exit", "", 0, <<>>), Raise}

StatementModules == {Module(<<s, G>>) : s \in Statements}

-----------------------------------------------------------------------------

Ret(es) == Node("return", "", 0, es)
Function(id, async, params, b) == Node("function", id, async, Append(params, b))
Param(p, const, default) == Node("var", p, const, default)
FieldParam(p) == Node("field", p, 0, <<>>)
New(params, b) == Function("CONSTRUCTOR_KEY", 0, params, b)
Member(id) == Node("member", id, 0, <<>>)
Class(id, kids) == Node("class", id, 0, kids)

Parameters == {<<>>, <<Var("a")>>, <<Param("a", 0, <<X>>)>>,
               <<Var("a"), Param("b", 0, <<Number(1)>>)>>,
               <<Var("a"), Var("b"), Param("c", 0, <<X>>)>>}
FunctionBodies == {Do(<<F>>), Do(<<>>), Ret(<<X>>), Do(<<While(C, Ret(<<>>)), G>>),
                   If(<<C, Ret(<<X>>), F>>), If(<<C, Set("v", Unary("-", X))>>)}
Functions == {Function("h", async, params, b) :
                 async \in {0, 1}, params \in Parameters, b \in FunctionBodies}

Annot(kids, n) == Node("annotation", "A", n, kids)
Parent == Node("parent", "D", 0, <<>>)
M1 == Function("m", 0, <<Var("a")>>, Do(<<F>>))
M2 == Function("n", 1, <<>>, Do(<<Ret(<<X>>)>>))
Index == Function("ARRAYLIKE_INDEX_KEY", 0, <<Var("i")>>, Do(<<Ret(<<X>>)>>))
Equals == Function("EQ_FN_NAME", 1, <<Var("o")>>, Ret(<<X>>))

Classes ==
    {Class("C", <<M1>>), Class("C", <<Member("p")>>), Class("C", <<Parent, M1, M2>>),
     Class("C", <<Member("p"), Member("q"), New(<<FieldParam("q"), Var("a")>>, Do(<<F>>)),
                  M1, Index, Equals>>),
     Class("C", <<Parent, New(<<>>, Do(<<>>)), M2>>),
     Class("C", <<Annot(<<>>, 0), Member("p"), M2, M1>>),
     Class("C", <<Annot(<<Id("l"), X>>, 1), New(<<Var("a")>>, Set("v", X)), M1>>),
     Class("C", <<Annot(<<X>>, 0), M2>>)}

Anonymous == Node("anon", "$anon", 0, <<Var("a"), Do(<<While(C, F), Ret(<<X>>)>>)>>)
Import == Node("import", "l", 0, <<>>)

Modules ==
    {Module(<<G, f>>) : f \in Functions}
      \cup {Module(<<Import, c, f, G>>) : c \in Classes, f \in {Function("h", 1, <<>>, F)}}
      \cup {Node("module", "name", 0, <<Import, G, c, Class("D", <<M1>>), Set("r", Anonymous)>>) :
               c \in Classes}
      \cup {Module(<<f, Function("k", 0, <<Var("a")>>, F), Set("r", Anonymous),
                     Function("l", 1, params, Do(<<>>))>>) :
               f \in {Function("h", 1, <<Var("a")>>, b) : b \in FunctionBodies},
               params \in {<<>>, <<Var("a")>>}}

\* Files that begin with a loop.
LoopFirstModules == {Module(<<While(C, Do(<<F>>)), s>>) : s \in {F, G}}

-----------------------------------------------------------------------------

\* Every short row of tokens.
SoupTypes == {"WORD", "LPAREN", "RPAREN", "EQUALS", "LBRAC", "RBRAC", "ENDLINE"}
Soup == {[tokens |-> [i \in 1 .. n |-> S!Token(row[i], "x", 0)], of |-> <<>>] :
            row \in [1 .. MaxRow -> SoupTypes], n \in 1 .. MaxRow}

SourceFile(m, layout) == [tokens |-> S!File(m, layout), of |-> <<m>>]
Both == {S!Spread, S!Compact}

LoopFirst == {SourceFile(m, layout) : m \in LoopFirstModules, layout \in Both}
AllSources ==
    Soup \cup
    {SourceFile(p[1], p[2]) : p \in (ExpressionModules \X {S!Compact})
                                      \cup ((StatementModules \cup Modules) \X Both)}
=============================================================================
