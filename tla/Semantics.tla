------------------------------ MODULE Semantics ------------------------------
(***************************************************************************)
(* What a source program means: a reference for the code that the          *)
(* producers emit and the interpreter runs.  A run of a program is driven  *)
(* by the choices of the environment in the order in which it makes them;  *)
(* it results in what the program did (ev), the value (v) and how the run  *)
(* ended (c):                                                              *)
(*   "normal", "break", "continue", "return", "exit", "error", or          *)
(*   "cut" when the given choices are used up.                             *)
(* Values, events and trees are those of Interpreter and Codegen.          *)
(***************************************************************************)
EXTENDS Interpreter, SequencesExt

Start(choices, v) == [c |-> "normal", v |-> v, ev |-> <<>>, todo |-> choices]

Then(s, F(_)) == IF s.c = "normal" THEN F(s) ELSE s
Yield(s, v) == [s EXCEPT !.v = v]
Fail(s) == [s EXCEPT !.c = "error", !.v = ErrorObject]
End(s, c) == [s EXCEPT !.c = c]
Did(s, e) == [s EXCEPT !.ev = Append(@, e)]

\* The value of a variable that was just set, in a sequence of one, or <<>>.
KnownValue(s, id) ==
    IF s.ev # <<>> /\ Last(s.ev).k \in {"set", "let"} /\ Last(s.ev).id = id
    THEN Last(s.ev).v ELSE <<>>

\* The next choice of the environment decides the result.
Choose(s, k, id, v) ==
    IF s.todo = <<>> THEN End(s, "cut")
    ELSE LET t == Head(s.todo)
             s1 == [Did(s, Event(k, id, v, t)) EXCEPT !.todo = Tail(@)]
         IN  IF t = "error" THEN Fail(s1) ELSE Yield(s1, Value(t, id, 0, <<>>))

ChooseTruth(s, k, id, v) ==
    LET s1 == Choose(s, k, id, v)
    IN  Then(s1, LAMBDA r : Yield(r, Truth(r.v.t # "none")))

CallMethod(s, object, id, args) ==
    IF IsObject(object) THEN Choose(s, "call", id, <<object>> \o args) ELSE Fail(s)

Operator(s, op, a, b) ==
    CASE op \in {"EQ", "NEQ"} /\ IsObject(a) -> Choose(s, "call", op, <<a, b>>)
      [] op = "BOR" /\ ~IsPrimitive(a) -> Yield(s, IF a.t = "none" THEN b ELSE a)
      [] ~IsPrimitive(a) \/ ~IsPrimitive(b) -> Fail(s)
      [] op \in BinaryOps -> Yield(s, Value("prim", op, 0, <<a, b>>))
      [] op \in CompareOps ->
            Then(Choose(s, "compare", op, <<a, b>>), LAMBDA r :
                 Yield(r, IF r.v.t = "none" THEN NONE_ENTITY
                          ELSE [r.v EXCEPT !.of = <<a, b>>]))
      [] a.t = "int" /\ b.t = "int" -> Yield(s, Truth((a.n = b.n) = (op = "EQ")))
      [] OTHER -> ChooseTruth(s, "compare", op, <<a, b>>)

Element(s, object, index) ==
    IF object.t \notin {"array", "tuple"}
    THEN CallMethod(s, object, "AIDX", <<index>>)
    ELSE IF index.t = "prim" THEN Choose(s, "index", "AIDX", <<object, index>>)
    ELSE IF index.t = "int" /\ index.n \in 0 .. Len(object.of) - 1
    THEN Yield(s, object.of[index.n + 1])
    ELSE Fail(s)

SetElement(s, object, index, v) ==
    IF object.t # "array"
    THEN CallMethod(s, object, "ASET", <<Value("tuple", "", 2, <<index, v>>)>>)
    ELSE IF index.t = "prim"
    THEN Then(Choose(s, "index", "ASET", <<object, index, v>>), LAMBDA r :
              Yield(r, index))
    ELSE IF index.t = "int" /\ index.n >= 0
    THEN Did(s, Event("aset", "", <<object, index, v>>, ""))
    ELSE Fail(s)

-----------------------------------------------------------------------------

RECURSIVE Sem(_, _)

\* All of xs from the first to the last; the values end up in v.of.
RECURSIVE SemAll(_, _, _)
SemAll(xs, s, values) ==
    IF xs = <<>> THEN Yield(s, Value("list", "", 0, values))
    ELSE Then(Sem(Head(xs), s), LAMBDA r : SemAll(Tail(xs), r, Append(values, r.v)))

\* The elements of a tuple are evaluated from the last to the first.
Elements(xs, s, F(_, _)) ==
    Then(SemAll(Reverse(xs), s, <<>>), LAMBDA r : F(r, Reverse(r.v.of)))

RECURSIVE SemOperators(_, _, _)
SemOperators(op, xs, s) ==
    IF xs = <<>> THEN s
    ELSE Then(Sem(Head(xs), s), LAMBDA r :
         Then(Operator(r, op, s.v, r.v), LAMBDA q : SemOperators(op, Tail(xs), q)))

RECURSIVE SemUntil(_, _, _)
SemUntil(decides, xs, s) ==
    Then(Sem(Head(xs), s), LAMBDA r :
         IF Len(xs) = 1 \/ (r.v.t # "none") = decides THEN r
         ELSE SemUntil(decides, Tail(xs), r))

RECURSIVE SemEntries(_, _, _)
SemEntries(map, xs, s) ==
    IF xs = <<>> THEN Yield(s, map)
    ELSE Then(SemAll(<<xs[2], xs[1]>>, s, <<>>), LAMBDA r :
         Then(CallMethod(r, map, "ASET",
                         <<Value("tuple", "", 2, <<r.v.of[2], r.v.of[1]>>)>>),
              LAMBDA q : SemEntries(map, SubSeq(xs, 3, Len(xs)), q)))

RECURSIVE SemIf(_, _)
SemIf(xs, s) ==
    CASE xs = <<>> -> s
      [] Len(xs) = 1 -> Sem(xs[1], s)
      [] OTHER -> Then(Sem(xs[1], s), LAMBDA r :
                       IF r.v.t # "none" THEN Sem(xs[2], r)
                       ELSE SemIf(SubSeq(xs, 3, Len(xs)), r))

\* The value in s.v goes to the target.
RECURSIVE Assign(_, _)
RECURSIVE AssignEach(_, _, _, _)
AssignEach(targets, object, i, s) ==
    IF i > Len(targets) THEN s
    ELSE Then(Element(s, object, entity_int(i - 1)), LAMBDA r :
         Then(Assign(targets[i], r), LAMBDA q :
              AssignEach(targets, object, i + 1, q)))

Assign(a, s) ==
    CASE a.k = "var" -> Did(s, Event("set", a.id, <<s.v>>, ""))
      [] a.k = "field" ->
            Then(Sem(a.kids[1], s), LAMBDA r :
                 IF IsObject(r.v) THEN Did(r, Event("fld", a.id, <<r.v, s.v>>, ""))
                                  ELSE Fail(r))
      [] a.k = "index" ->
            Then(SemAll(a.kids, s, <<>>), LAMBDA r :
                 SetElement(Yield(r, r.v.of[2]), r.v.of[1], r.v.of[2], s.v))
      [] a.k = "tuple" -> AssignEach(a.kids, s.v, 1, s)

\* Conditions, increments and bodies in turn until the condition fails or
\* the body leaves the loop.
LoopBody(s) == IF s.c = "continue" THEN End(s, "normal") ELSE s
LoopEnd(s) == IF s.c = "break" THEN End(s, "normal") ELSE s

RECURSIVE SemLoop(_, _, _, _)
SemLoop(cond, inc, body, s) ==
    Then(Sem(cond, s), LAMBDA r :
         IF r.v.t = "none" THEN r
         ELSE Then(LoopBody(Sem(body, r)), LAMBDA q :
              Then(SemAll(inc, q, <<>>), LAMBDA p : SemLoop(cond, inc, body, p))))

RECURSIVE SemForeach(_, _, _, _)
SemForeach(iter, target, body, s) ==
    Then(CallMethod(s, iter, "has_next", <<>>), LAMBDA r :
         IF r.v.t = "none" THEN r
         ELSE Then(CallMethod(r, iter, "next", <<>>), LAMBDA q :
              Then(Assign(target, q), LAMBDA p :
              Then(LoopBody(Sem(body, p)), LAMBDA o :
                   SemForeach(iter, target, body, o)))))

\* The parameters take the elements of a tuple, or one value, in order; what
\* is not passed takes its default, or None.
Passed(v, n) == CASE v.t = "none" -> <<>>
                  [] v.t = "tuple" /\ n > 1 -> v.of
                  [] OTHER -> <<v>>

Bind(p, s) ==
    IF p.k = "field"
    THEN Did(s, Event("fld", p.id, <<Value("obj", "self", 0, <<>>), s.v>>, ""))
    ELSE Did(s, Event("let", p.id, <<s.v>>, ""))

RECURSIVE SemParams(_, _, _)
SemParams(params, passed, s) ==
    IF params = <<>> THEN s
    ELSE LET p == Head(params)
             given == IF passed # <<>> THEN Yield(s, passed[1])
                      ELSE IF p.kids # <<>> THEN Sem(p.kids[1], s)
                      ELSE Yield(s, NONE_ENTITY)
         IN  Then(given, LAMBDA r :
                  SemParams(Tail(params),
                            IF passed = <<>> THEN <<>> ELSE Tail(passed),
                            Bind(p, r)))

RECURSIVE ClearFields(_, _)
ClearFields(fields, s) ==
    IF fields = <<>> THEN s
    ELSE ClearFields(Tail(fields),
            Did(s, Event("fld", Head(fields).id,
                         <<Value("obj", "self", 0, <<>>), NONE_ENTITY>>, "")))

SemStatements(xs, s) == LET r == SemAll(xs, s, <<>>)
                        IN  Then(r, LAMBDA q : Yield(q, IF xs = <<>> THEN s.v
                                                        ELSE Last(q.v.of)))

Return(s) == End(Did(s, Event("ret", "", <<s.v>>, "")), "return")

Sem(x, s) ==
    CASE x.k = "id" ->
            (CASE x.id = "True" -> Yield(s, entity_int(1))
               [] x.id \in {"False", "None"} -> Yield(s, NONE_ENTITY)
               [] x.id \in Functions -> Yield(s, Value("fn", x.id, 0, <<>>))
               [] x.id \in Objects -> Yield(s, Value("obj", x.id, 0, <<>>))
               [] KnownValue(s, x.id) # <<>> -> Yield(s, KnownValue(s, x.id)[1])
               [] OTHER -> Choose(s, "get", x.id, <<>>))
      [] x.k = "string" -> Yield(s, Value("obj", x.id, 0, <<>>))
      [] x.k = "const" -> Yield(s, entity_int(x.n))
      [] x.k \in {"tuple", "array"} ->
            Elements(x.kids, s, LAMBDA r, v : Yield(r, Value(x.k, "", Len(v), v)))
      [] x.k = "map" ->
            Then(CallMethod(s, Value("obj", "struct", 0, <<>>), "Map", <<>>),
                 LAMBDA r : SemEntries(r.v, x.kids, r))
      [] x.k = "call" ->
            Then(SemAll(x.kids, s, <<>>), LAMBDA r :
                 IF r.v.of[1].t = "fn"
                 THEN Choose(r, "call", r.v.of[1].id, Tail(r.v.of)) ELSE Fail(r))
      [] x.k = "method" ->
            Then(SemAll(x.kids, s, <<>>), LAMBDA r :
                 CallMethod(r, r.v.of[1], x.id, Tail(r.v.of)))
      [] x.k = "index" ->
            Then(SemAll(x.kids, s, <<>>), LAMBDA r :
                 Element(r, r.v.of[1], r.v.of[2]))
      [] x.k = "field" ->
            Then(Sem(x.kids[1], s), LAMBDA r :
                 IF IsObject(r.v) THEN Choose(r, "field", x.id, <<r.v>>) ELSE Fail(r))
      [] x.k = "range" ->
            Elements(x.kids, s, LAMBDA r, v :
                     Choose(r, "call", "range", <<Value("tuple", "", Len(v), v)>>))
      [] x.k = "unary" ->
            Then(Sem(x.kids[1], s), LAMBDA r :
                 CASE x.id = "-" /\ x.kids[1].k = "const" ->
                        Yield(r, entity_int(-r.v.n))
                   [] x.id = "-" -> Operator(r, "MULT", r.v, entity_int(-1))
                   [] x.id = "await" ->
                        IF r.v.t = "future" THEN Choose(r, "call", "await", <<r.v>>)
                                            ELSE r
                   [] OTHER -> Yield(r, Truth(r.v.t = "none")))
      [] x.k = "binary" ->
            Then(Sem(x.kids[1], s), LAMBDA r : SemOperators(x.id, Tail(x.kids), r))
      [] x.k = "and" -> SemUntil(FALSE, x.kids, s)
      [] x.k = "or" -> SemUntil(TRUE, x.kids, s)
      [] x.k = "in" ->
            Then(SemAll(Reverse(x.kids), s, <<>>), LAMBDA r :
            Then(CallMethod(r, r.v.of[1], "in", <<r.v.of[2]>>), LAMBDA q :
                 IF x.id = "notin" THEN Yield(q, Truth(q.v.t = "none")) ELSE q))
      [] x.k = "is" ->
            Then(SemAll(x.kids, s, <<>>), LAMBDA r :
                 CASE r.v.of[2].t # "fn" -> Fail(r)
                   [] ~IsObject(r.v.of[1]) -> Yield(r, NONE_ENTITY)
                   [] OTHER -> ChooseTruth(r, "is", r.v.of[2].id, <<r.v.of[1]>>))
      [] x.k = "if" -> SemIf(x.kids, s)
      [] x.k = "anon" -> Yield(s, Value("fn", x.id, 0, <<>>))
      [] x.k = "assign" ->
            Then(Sem(x.kids[2], s), LAMBDA r : Assign(x.kids[1], r))
      [] x.k = "seq" -> SemStatements(x.kids, s)
      [] x.k = "while" -> LoopEnd(SemLoop(x.kids[1], <<>>, x.kids[2], s))
      [] x.k = "for" ->
            Then(Sem(x.kids[1], s), LAMBDA r :
                 LoopEnd(SemLoop(x.kids[2], <<x.kids[3]>>, x.kids[4], r)))
      [] x.k = "foreach" ->
            Then(Sem(x.kids[2], s), LAMBDA r :
            Then(CallMethod(r, r.v, "iter", <<>>), LAMBDA q :
                 LoopEnd(SemForeach(q.v, x.kids[1], x.kids[3], q))))
      [] x.k = "try" ->
            LET r == Sem(x.kids[1], s)
            IN  IF r.c # "error" THEN r
                ELSE Then(Assign(x.kids[2], End(r, "normal")), LAMBDA q :
                          Sem(x.kids[3], q))
      [] x.k = "raise" -> Then(Sem(x.kids[1], s), LAMBDA r : Fail(r))
      [] x.k = "return" -> Then(SemStatements(x.kids, s), LAMBDA r : Return(r))
      [] x.k \in {"break", "continue", "exit"} -> End(s, x.k)
      [] x.k = "function" ->
            LET params == Front(x.kids)
            IN  Then(SemParams(params, Passed(s.v, Len(params)), s), LAMBDA r :
                Then(Sem(Last(x.kids), r), LAMBDA q : Return(q)))
      [] x.k = "constructor" ->
            LET params == SubSeq(x.kids, 1, x.n)
                fields == SubSeq(x.kids, x.n + 1, Len(x.kids) - 1)
                s1 == ClearFields(fields, s)
            IN  Then(SemParams(params, Passed(s.v, x.n), s1), LAMBDA r :
                Then(Sem(Last(x.kids), r), LAMBDA q :
                     Return(Yield(q, Value("obj", "self", 0, <<>>)))))
      [] x.k = "module" -> SemStatements(x.kids, s)
=============================================================================
