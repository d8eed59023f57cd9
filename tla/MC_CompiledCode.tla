--------------------------- MODULE MC_CompiledCode ---------------------------
EXTENDS CompiledCode

Id(x) == Node("id", x, 0, <<>>)
Const(n) == Node("const", "", n, <<>>)
Var(x) == Node("var", x, 0, <<>>)
Seq1(xs) == Node("seq", "", 0, xs)
Set(x, e) == Node("assign", "", 0, <<Var(x), e>>)
Do(f) == Set("r", Node("call", "", 0, <<Id(f)>>))
Raise == Node("raise", "", 0, <<Id("x")>>)
Break == Node("break", "", 0, <<>>)
Continue == Node("continue", "", 0, <<>>)

Cond == Id("c")
While(b) == Node("while", "", 0, <<Cond, b>>)
For(b) == Node("for", "", 0, <<Set("i", Const(0)), Cond, Set("i", Const(1)), b>>)
Foreach(b) == Node("foreach", "", 0, <<Var("i"), Id("o"), b>>)
If(b) == Node("if", "", 0, <<Cond, b>>)
IfElse(b, d) == Node("if", "", 0, <<Cond, b, d>>)
Try(b, d) == Node("try", "", 0, <<b, Var("e"), d>>)

Small == {Do("f"), Raise, Break, Continue}
F == Do("f")
G == Do("g")

\* Every statement around b, with one other statement in turn.
Around(b) ==
    {While(b), For(b), Foreach(b), If(b), IfElse(b, F), IfElse(F, b),
     Try(b, F), Try(F, b),
     Node("if", "", 0, <<Cond, b, Id("d"), F>>),
     Node("if", "", 0, <<Cond, F, Id("d"), b, Id("d"), G, F>>)}

Level1 == UNION {Around(b) : b \in Small}
Level2 == UNION {Around(Seq1(<<b, G>>)) : b \in Level1}
Extra == {Seq1(<<>>), Set("v", Id("x")), Try(Seq1(<<>>), Seq1(<<>>)),
          While(Seq1(<<>>)), IfElse(Seq1(<<>>), Seq1(<<>>))}

StatementUnits ==
    {Module(<<s, G>>) :
        s \in {s \in Level1 \cup Level2 \cup Extra : Supported(s, "none", "none")}}

-----------------------------------------------------------------------------

\* Blocks inside the block of a try statement, where errors are raised.
NestedTryUnits ==
    {Module(<<s, G>>) :
        s \in {Try(While(F), G), Try(For(F), G), Try(Foreach(F), G),
               Try(F, Try(F, G)), Try(Try(F, Raise), G), Try(While(While(F)), G),
               Try(Try(While(F), G), F), While(Try(While(F), G)),
               Try(While(Seq1(<<F, While(F)>>)), G)}}

\* A continue, which the loop replaces by a jump.
WhileContinueUnits == {Module(<<While(Seq1(<<F, Continue>>)), G>>)}

X == Id("x")
Y == Id("y")
Call(e, args) == Node("call", "", 0, <<e>> \o args)
Method(e, m, args) == Node("method", m, 0, <<e>> \o args)
Binary(op, es) == Node("binary", op, 0, es)
Unary(op, e) == Node("unary", op, 0, <<e>>)
Tuple(es) == Node("tuple", "", 0, es)
Array(es) == Node("array", "", 0, es)
Index(e, i) == Node("index", "", 0, <<e, i>>)

\* Every expression with e among its operands.
Holding(e) ==
    {e, Call(Id("f"), <<e>>), Call(e, <<>>), Method(e, "m", <<>>),
     Method(X, "m", <<e>>), Tuple(<<e, X>>), Array(<<X, e>>),
     Node("map", "", 0, <<X, e>>), Index(e, Const(1)), Index(X, e),
     Node("field", "m", 0, <<e>>), Node("range", "", 0, <<Const(0), e>>),
     Node("range", "", 0, <<e, X, Const(2)>>),
     Unary("~", e), Unary("-", e), Unary("await", e),
     Binary("ADD", <<e, X>>), Binary("SUB", <<X, Const(1), e>>),
     Binary("BOR", <<e, X>>), Binary("LT", <<X, e>>), Binary("EQ", <<e, X>>),
     Node("and", "", 0, <<X, e, Y>>), Node("or", "", 0, <<e, X, Y>>),
     Node("in", "in", 0, <<X, e>>), Node("in", "notin", 0, <<e, X>>),
     Node("is", "", 0, <<e, Id("f")>>), Node("is", "", 0, <<X, e>>),
     IfElse(e, X), Node("if", "", 0, <<e, X, Y, X, Y>>)}

Simple == {X, Const(3), Call(Id("f"), <<>>), Tuple(<<X, Const(2)>>), Array(<<>>),
           Array(<<X, Const(1)>>), Node("map", "", 0, <<>>),
           Node("map", "", 0, <<Const(1), X, Const(2), Const(0)>>),
           Unary("-", Const(2)), Binary("LT", <<X, Const(1)>>),
           Binary("NEQ", <<Const(2), Const(1)>>), Binary("EQ", <<Const(1), X>>),
           Node("and", "", 0, <<X, Const(1)>>), Node("anon", "f", 0, <<X>>),
           Id("True"), Id("None"), Node("string", "s", 0, <<>>),
           Node("field", "n", 0, <<X>>)}

Targets == {Var("v"), Node("field", "m", 0, <<X>>), Node("index", "", 0, <<X, Y>>),
            Node("index", "", 0, <<Array(<<Y>>), Const(0)>>),
            Node("index", "", 0, <<Array(<<>>), X>>),
            Node("tuple", "", 0, <<Var("v"), Var("w")>>),
            Node("tuple", "", 0, <<Var("v"), Node("field", "m", 0, <<X>>), Var("w")>>),
            Node("tuple", "", 0, <<Var("u"), Node("tuple", "", 0, <<Var("v"), Var("w")>>)>>)}

Assign1(a, e) == Node("assign", "", 0, <<a, e>>)

ExpressionUnits ==
    {Module(<<Set("r", e)>>) : e \in UNION {Holding(d) : d \in Simple}}
      \cup {Module(<<Assign1(a, e)>>) :
               a \in Targets,
               e \in {X, Node("field", "n", 0, <<Y>>), Tuple(<<X, Y>>),
                      Tuple(<<Const(1), X, Y>>), Tuple(<<X, Tuple(<<Y, Const(1)>>)>>)}}

\* A variable that is read where it was just set.
V1 == Id("v")
VariableUnits ==
    {Module(<<Set("v", e), s>>) :
        e \in {X, Const(1)},
        s \in {Set("r", d) : d \in Holding(V1)}
               \cup {Assign1(a, V1) : a \in Targets}
               \cup {Node("while", "", 0, <<V1, Set("v", X)>>),
                     Node("while", "", 0, <<V1, Seq1(<<Set("v", X), If(Break), Set("v", V1)>>)>>),
                     Node("for", "", 0, <<Set("i", X), Id("i"), Set("i", X), F>>),
                     Node("if", "", 0, <<V1, Set("v", X), V1, F, Set("r", V1)>>),
                     Node("foreach", "", 0, <<Var("v"), V1, Set("r", V1)>>)}}
      \cup {Module(<<s, G>>) :
               s \in {s \in UNION {Around(Seq1(<<Set("v", X), Set("r", V1), b>>)) : b \in Small} :
                         Supported(s, "none", "none")}}

-----------------------------------------------------------------------------

Param(p, default) == Node("var", p, 0, default)
Field(p, default) == Node("field", p, 0, default)
Body == Seq1(<<Set("r", X)>>)
ReadsParameter == Seq1(<<Set("r", Id("b"))>>)
Return1 == Seq1(<<While(Node("return", "", 0, <<X>>))>>)

Plain(p) == Param(p, <<>>)
Optional(p) == Param(p, <<X>>)

Parameters ==
    {<<>>, <<Plain("a")>>, <<Plain("_"), Plain("a")>>, <<Plain("a"), Plain("_")>>,
     <<Plain("a"), Plain("_"), Optional("b")>>, <<Optional("a")>>, <<Field("a", <<>>)>>}
      \cup {<<Plain("a"), p>> : p \in {Plain("b"), Optional("b"), Field("b", <<Y>>)}}
      \cup {<<Plain("a"), p, q>> : p \in {Plain("b"), Optional("b")},
                                   q \in {Optional("c"), Field("c", <<>>)}}

V(n) == Value("prim", "arg", n, <<>>)
Packed(n) == Value("tuple", "", n, [i \in 1 .. n |-> V(i)])

\* A tuple is passed for two or more arguments; it has one for each
\* parameter that has no default.
Fits(params, arg) ==
    \/ arg.t # "tuple" /\ (arg.t # "none" \/ Len(params) < 2)
    \/ /\ arg.t = "tuple" /\ Len(params) # 1
       /\ \A i \in 1 .. Len(params) : i > arg.n => params[i].kids # <<>>

Arguments == {NONE_ENTITY, V(0), Packed(2), Packed(3), Packed(4)}

ParameterUnits ==
    {Unit(Node("function", "", 0, Append(c[1], b)), c[2]) :
        c \in {c \in Parameters \X Arguments : Fits(c[1], c[2])},
        b \in {Body, ReadsParameter, Return1}}
      \cup
    {Unit(Node("constructor", "", Len(c[1]), c[1] \o fields \o <<Body>>), c[2]) :
        c \in {c \in Parameters \X Arguments : Fits(c[1], c[2])},
        fields \in {<<>>, <<Plain("m")>>, <<Plain("m"), Plain("n")>>}}

CompiledUnits == StatementUnits \cup NestedTryUnits \cup ExpressionUnits
                   \cup VariableUnits \cup ParameterUnits
\* The optimizers leave the tapes of StatementUnits as they are.
OptimizedUnits ==
    UNION {Optimized(u) : u \in ExpressionUnits \cup VariableUnits \cup ParameterUnits}
AllUnits == CompiledUnits \cup OptimizedUnits
=============================================================================
