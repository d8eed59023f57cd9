------------------------------ MODULE SourceText ------------------------------
(***************************************************************************)
(* Program texts for the front end: the tokens that the lexer makes of a   *)
(* program, printed from the tree that the program stands for.  This is    *)
(* the reference for the parser and the populators, written from what the  *)
(* operators of the language mean: which ones bind tighter, and that those *)
(* of one kind group from left to right.                                   *)
(***************************************************************************)
EXTENDS Integers, Sequences, SequencesExt

Token(t, id, n) == [t |-> t, id |-> id, n |-> n]
T(t) == <<Token(t, "", 0)>>
Name(id) == <<Token("WORD", id, 0)>>

\* A layout with newlines wherever one may be and every body in braces, or
\* with newlines and braces only where they must be.
Spread == [newlines |-> TRUE, braces |-> TRUE]
Compact == [newlines |-> FALSE, braces |-> FALSE]
MayBreak(lay) == IF lay.newlines THEN T("ENDLINE") ELSE <<>>

\* The kinds and operators of expressions from the loosest to the tightest.
Binding == <<{"tuple"}, {"assign"}, {"if", "anon"}, {"is"}, {"or"}, {"and"},
             {"EQ", "NEQ"}, {"LT", "LTE", "GT", "GTE"}, {"in"}, {"ADD", "SUB"},
             {"MULT", "DIV", "MOD"}, {"BOR"}, {"BXOR"}, {"BAND"}, {"unary"},
             {"range"}>>
Tightest == Len(Binding) + 1
Level(x) ==
    LET key == IF x.k = "binary" THEN x.id ELSE x.k
        at == {i \in DOMAIN Binding : key \in Binding[i]}
    IN  IF at = {} THEN Tightest ELSE CHOOSE i \in at : TRUE

OperatorToken ==
    [MULT |-> "STAR", DIV |-> "FSLASH", MOD |-> "PERCENT", ADD |-> "PLUS",
     SUB |-> "MINUS", LT |-> "LTHAN", GT |-> "GTHAN", LTE |-> "LTHANEQ",
     GTE |-> "GTHANEQ", EQ |-> "EQUIV", NEQ |-> "NEQUIV", and |-> "AND_T",
     or |-> "OR_T", BAND |-> "AMPER", BXOR |-> "CARET", BOR |-> "PIPE",
     in |-> "IN", notin |-> "NOTIN"]
UnaryToken == [c \in {"~", "!", "-", "const", "await"} |->
    CASE c = "~" -> "TILDE" [] c = "!" -> "EXCLAIM" [] c = "-" -> "MINUS"
      [] c = "const" -> "CONST_T" [] c = "await" -> "AWAIT"]
MethodToken == [id \in {"EQ_FN_NAME", "NEQ_FN_NAME", "ARRAYLIKE_INDEX_KEY",
                        "ARRAYLIKE_SET_KEY"} |->
    CASE id = "EQ_FN_NAME" -> T("EQUIV") [] id = "NEQ_FN_NAME" -> T("NEQUIV")
      [] id = "ARRAYLIKE_INDEX_KEY" -> T("LBRAC") \o T("RBRAC")
      [] OTHER -> T("LBRAC") \o T("RBRAC") \o T("EQUALS")]

Around(open, text, close) == T(open) \o text \o T(close)
Separated(texts, token) ==
    FlattenSeq([i \in 1 .. Len(texts) |-> (IF i > 1 THEN T(token) ELSE <<>>) \o texts[i]])
Last1(x) == x.kids[Len(x.kids)]
Bodies(x, kinds) == SelectSeq(x.kids, LAMBDA y : y.k \in kinds)

-----------------------------------------------------------------------------

RECURSIVE Show(_, _), Statement(_, _)

Parenthesised(needed, text) == IF needed THEN Around("LPAREN", text, "RPAREN") ELSE text

\* An expression where one of this level or tighter is expected.
In(x, level, lay) ==
    Parenthesised(Level(x) < level, Show(x, lay))

Each(xs, level, lay) == [i \in 1 .. Len(xs) |-> In(xs[i], level, lay)]
Arguments(xs, lay) ==
    T("LPAREN") \o (IF xs = <<>> THEN <<>> ELSE In(xs[1], 1, lay)) \o T("RPAREN")

\* What a suffix follows: a number is parenthesised.
Base(x, lay) == Parenthesised(x.k = "const" \/ Level(x) < Tightest, Show(x, lay))

RECURSIVE Target(_, _)
Target(a, lay) ==
    CASE a.k = "var" -> (IF a.n = 1 THEN T("CONST_T") ELSE <<>>) \o Name(a.id)
      [] a.k = "tuple" ->
            Around("LPAREN", Separated([i \in 1 .. Len(a.kids) |-> Target(a.kids[i], lay)],
                                       "COMMA"), "RPAREN")
      [] OTHER -> Show(a, lay)

Entries(kids, lay) ==
    [i \in 1 .. Len(kids) \div 2 |->
        In(kids[2 * i - 1], Tightest, lay) \o T("COLON") \o In(kids[2 * i], Tightest, lay)]

Parameter(p, lay) ==
    (IF p.n = 1 THEN T("CONST_T") ELSE <<>>)
      \o (IF p.k = "field" THEN T("FIELD") ELSE <<>>) \o Name(p.id)
      \o (IF p.kids = <<>> THEN <<>> ELSE T("EQUALS") \o In(p.kids[1], 3, lay))

Parameters(f, lay) ==
    Around("LPAREN", Separated([i \in 1 .. Len(f.kids) - 1 |-> Parameter(f.kids[i], lay)],
                               "COMMA"), "RPAREN")
Qualifier(f) == IF f.n = 1 THEN T("ASYNC") ELSE <<>>

Block(statements, lay) ==
    T("LBRCE") \o MayBreak(lay)
      \o FlattenSeq([i \in 1 .. Len(statements) |-> Statement(statements[i], lay)])
      \o T("RBRCE") \o MayBreak(lay)

\* Bodies that need no braces: those of one token do, since an if statement
\* does not take them, and those that an else after them could belong to.
NoBraces == {"assign", "raise", "call", "method"}

Body(x, lay) ==
    IF x.k = "seq" \/ lay.braces \/ x.k \notin NoBraces
    THEN Block(IF x.k = "seq" THEN x.kids ELSE <<x>>, lay)
    ELSE MayBreak(lay) \o Statement(x, lay)

RECURSIVE IfText(_, _)
IfText(kids, lay) ==
    T("IF_T") \o In(kids[1], 4, lay) \o T("THEN") \o In(kids[2], 4, lay) \o
    CASE Len(kids) = 2 -> <<>>
      [] Len(kids) = 3 -> T("ELSE") \o In(kids[3], 4, lay)
      [] OTHER -> T("ELSE") \o IfText(SubSeq(kids, 3, Len(kids)), lay)

Show(x, lay) ==
    LET level == Level(x)
    IN  CASE x.k = "id" -> Name(x.id)
          [] x.k = "const" -> <<Token("INTEGER", "", x.n)>>
          [] x.k = "string" -> <<Token("STR", x.id, 0)>>
          [] x.k = "tuple" -> Separated(Each(x.kids, 2, lay), "COMMA")
          [] x.k = "array" -> Around("LBRAC", Separated(Each(x.kids, 2, lay), "COMMA"), "RBRAC")
          [] x.k = "map" -> Around("LBRCE", Separated(Entries(x.kids, lay), "COMMA"), "RBRCE")
          [] x.k = "call" -> Base(x.kids[1], lay) \o Arguments(Tail(x.kids), lay)
          [] x.k = "method" -> Base(x.kids[1], lay) \o T("PERIOD") \o Name(x.id)
                                 \o Arguments(Tail(x.kids), lay)
          [] x.k = "index" -> Base(x.kids[1], lay)
                                \o Around("LBRAC", In(x.kids[2], 1, lay), "RBRAC")
          [] x.k = "field" -> Base(x.kids[1], lay) \o T("PERIOD") \o Name(x.id)
          [] x.k = "range" ->
                Separated(Each(IF Len(x.kids) = 3
                               THEN <<x.kids[1], x.kids[3], x.kids[2]>> ELSE x.kids,
                               Tightest, lay), "COLON")
          [] x.k = "unary" -> T(UnaryToken[x.id]) \o In(x.kids[1], level, lay)
          [] x.k = "binary" ->
                Separated(<<In(x.kids[1], level, lay)>>
                            \o Each(Tail(x.kids), level + 1, lay), OperatorToken[x.id])
          [] x.k \in {"and", "or"} ->
                Separated(Each(x.kids, level + 1, lay), OperatorToken[x.k])
          [] x.k = "in" -> Separated(Each(x.kids, level + 1, lay), OperatorToken[x.id])
          [] x.k = "is" -> Separated(Each(x.kids, level + 1, lay), "IS_T")
          [] x.k = "if" -> IfText(x.kids, lay)
          [] x.k = "assign" -> Target(x.kids[1], lay) \o T("EQUALS") \o In(x.kids[2], 3, lay)
          [] x.k = "anon" ->
                Parameters(x, lay) \o
                (IF Last1(x).k = "seq" THEN Block(Last1(x).kids, lay)
                 ELSE T("RARROW") \o In(Last1(x), 2, lay))

-----------------------------------------------------------------------------

\* How tightly the expressions of a statement bind at least.
StatementLevel(k) ==
    CASE k \in {"while", "foreach"} -> 3 [] k \in {"for", "raise"} -> 2 [] OTHER -> 1

IsTarget(x, i) == (x.k = "foreach" /\ i = 1) \/ (x.k = "try" /\ i = 2)
IsBody(x, i) ==
    CASE x.k \in {"while", "for", "foreach"} -> i = Len(x.kids)
      [] x.k = "try" -> i # 2
      [] x.k = "if" -> i % 2 = 0 \/ i = Len(x.kids)
      [] OTHER -> FALSE

Parts(x, lay) ==
    [i \in 1 .. Len(x.kids) |->
        CASE IsBody(x, i) -> Body(x.kids[i], lay)
          [] IsTarget(x, i) -> Target(x.kids[i], lay)
          [] OTHER -> In(x.kids[i], StatementLevel(x.k), lay)]

Keyword(k) ==
    CASE k = "while" -> "WHILE" [] k \in {"for", "foreach"} -> "FOR" [] k = "try" -> "TRY"
      [] k = "raise" -> "RAISE" [] k = "return" -> "RETURN" [] k = "exit" -> "EXIT_T"
      [] k = "break" -> "BREAK" [] k = "continue" -> "CONTINUE" [] k = "if" -> "IF_T"

\* The words between the parts of a statement, and what ends it.
Joined(x, parts, lay) ==
    T(Keyword(x.k)) \o
    CASE x.k = "for" -> Around("LPAREN", Separated(SubSeq(parts, 1, 3), "COMMA"), "RPAREN")
                          \o parts[4]
      [] x.k = "foreach" -> parts[1] \o T("IN") \o parts[2] \o parts[3]
      [] x.k = "try" -> parts[1] \o T("CATCH") \o parts[2] \o parts[3]
      [] x.k = "if" -> FlattenSeq([i \in 1 .. Len(parts) |->
                          (IF i = 1 \/ i % 2 = 0 THEN <<>>
                           ELSE T("ELSE") \o (IF i = Len(parts) THEN <<>> ELSE T("IF_T")))
                             \o parts[i]])
      [] x.k \in {"break", "continue"} -> T("ENDLINE")
      [] x.k \in {"raise", "return", "exit"} -> FlattenSeq(parts) \o MayBreak(lay)
      [] OTHER -> FlattenSeq(parts)

Statement(x, lay) ==
    CASE x.k = "seq" -> Block(x.kids, lay)
      [] x.k \in {"while", "for", "foreach", "if", "try", "raise", "return", "break",
                  "continue", "exit"} -> Joined(x, Parts(x, lay), lay)
      [] OTHER -> In(x, 1, lay) \o MayBreak(lay)

-----------------------------------------------------------------------------

Method(f, lay) ==
    (IF f.id = "CONSTRUCTOR_KEY" THEN T("NEW")
     ELSE T("METHOD") \o (IF f.id \in DOMAIN MethodToken THEN MethodToken[f.id]
                                                         ELSE Name(f.id)))
      \o Parameters(f, lay) \o Qualifier(f) \o Body(Last1(f), lay)

\* The fields that are not parameters of the constructor are declared.
Declared(c) ==
    LET params == FlattenSeq([i \in 1 .. Len(Bodies(c, {"function"})) |->
                                 Bodies(c, {"function"})[i].kids])
    IN  SelectSeq(Bodies(c, {"member"}), LAMBDA m :
            ~\E i \in DOMAIN params : params[i].k = "field" /\ params[i].id = m.id)

Names(nodes) == Separated([i \in 1 .. Len(nodes) |-> Name(nodes[i].id)], "COMMA")

Annotation(a, lay) ==
    T("AT") \o (IF a.n = 1 THEN Name(a.kids[1].id) \o T("PERIOD") ELSE <<>>) \o Name(a.id)
      \o (IF Len(a.kids) > a.n THEN Arguments(<<Last1(a)>>, lay) ELSE <<>>)
      \o MayBreak(lay)

Class(c, lay) ==
    LET parents == Bodies(c, {"parent"})
        methods == Bodies(c, {"function"})
    IN  FlattenSeq([i \in 1 .. Len(Bodies(c, {"annotation"})) |->
                       Annotation(Bodies(c, {"annotation"})[i], lay)])
          \o T("CLASS") \o Name(c.id)
          \o (IF parents = <<>> THEN <<>> ELSE T("COLON") \o Names(parents))
          \o T("LBRCE") \o MayBreak(lay)
          \o (IF Declared(c) = <<>> THEN <<>>
              ELSE T("FIELD") \o Names(Declared(c)) \o MayBreak(lay))
          \o FlattenSeq([i \in 1 .. Len(methods) |-> Method(methods[i], lay)])
          \o T("RBRCE") \o MayBreak(lay)

FileStatement(x, lay) ==
    CASE x.k = "import" -> T("IMPORT") \o Name(x.id) \o T("ENDLINE")
      [] x.k = "class" -> Class(x, lay)
      [] x.k = "function" -> T("DEF") \o Name(x.id) \o Parameters(x, lay) \o Qualifier(x)
                               \o Body(Last1(x), lay)
      [] OTHER -> Statement(x, lay)

File(m, lay) ==
    (IF m.id = "" THEN <<>> ELSE T("MODULE_T") \o Name(m.id) \o T("ENDLINE"))
      \o FlattenSeq([i \in 1 .. Len(m.kids) |-> FileStatement(m.kids[i], lay)])

-----------------------------------------------------------------------------
(* Trees up to what a text does not tell: parentheses, braces around one    *)
(* statement, and how many operators of one kind are written in a row.      *)

RECURSIVE Plain(_)
Plain(x) ==
    LET kids == [i \in 1 .. Len(x.kids) |-> Plain(x.kids[i])] \o <<>>
    IN  CASE x.k = "paren" \/ (x.k = "seq" /\ Len(kids) = 1) -> kids[1]
          [] x.k = "binary" ->
                FoldLeft(LAMBDA left, right : [x EXCEPT !.kids = <<left, right>>],
                         kids[1], Tail(kids))
          [] OTHER -> [x EXCEPT !.kids = kids]
=============================================================================
