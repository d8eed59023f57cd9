------------------------------- MODULE Codegen -------------------------------
(***************************************************************************)
(* The instruction producers of lang/semantics/expressions: from a tree of *)
(* the source program to a tape.  A node is a kind, a name, a number and   *)
(* the nodes below it.  Only TLC uses this module: the producers recur     *)
(* over the tree.                                                          *)
(***************************************************************************)
EXTENDS Integers, Sequences, SequencesExt

Node(k, id, n, kids) == [k |-> k, id |-> id, n |-> n, kids |-> kids]

tape_ins_no_arg(op) == <<[op |-> op, arg |-> "no", id |-> "", n |-> 0]>>
tape_ins_text(op, id) == <<[op |-> op, arg |-> "id", id |-> id, n |-> 0]>>
tape_ins_int(op, n) == <<[op |-> op, arg |-> "int", id |-> "", n |-> n]>>

INT_MAX == 2147483647

\* TLC evaluates a sequence once when it is the result of \o.
Concat(tapes) == FlattenSeq(tapes \o <<>>)
SizeSum(tapes) == Len(Concat(tapes))
From(s, i) == SubSeq(s, i, Len(s))

RECURSIVE produce_instructions(_), produce_assignment(_)

produce_each(nodes) ==
    [i \in 1 .. Len(nodes) |-> produce_instructions(nodes[i])] \o <<>>

-----------------------------------------------------------------------------
(* Expressions.                                                             *)

\* True, False and None are identifiers to the parser.
identifier(e) ==
    CASE e.id = "True" -> tape_ins_int("RES", 1)
      [] e.id \in {"False", "None"} -> tape_ins_no_arg("RNIL")
      [] OTHER -> tape_ins_text("RES", e.id)

constant(e) == tape_ins_int("RES", e.n)

string_literal(e) ==
    <<[op |-> "RES", arg |-> "str", id |-> e.id, n |-> 0]>>

\* The elements are pushed from the last to the first.
tuple_expression_helper(elements) ==
    Concat([i \in 1 .. Len(elements) |->
                  produce_instructions(elements[Len(elements) + 1 - i])
                    \o tape_ins_no_arg("PUSH")])

tuple_expression(e) ==
    tuple_expression_helper(e.kids) \o tape_ins_int("TUPL", Len(e.kids))

array_declaration(e) ==
    IF e.kids = <<>>
    THEN tape_ins_no_arg("ANEW")
    ELSE tuple_expression_helper(e.kids) \o tape_ins_int("ANEW", Len(e.kids))

\* A postfix: a call or a method call with at most one argument expression,
\* an index, a field.
call_op(e) == IF Len(e.kids) = 1 THEN "CLLN" ELSE "CALL"

produce_postfix(e) ==
    LET prefix == produce_instructions(e.kids[1])
        inner == Concat(produce_each(Tail(e.kids)))
    IN  prefix \o
        CASE e.k = "call" -> tape_ins_no_arg("PUSH") \o inner
                               \o tape_ins_no_arg(call_op(e))
          [] e.k = "method" -> tape_ins_no_arg("PUSH") \o inner
                               \o tape_ins_text(call_op(e), e.id)
          [] e.k = "index" -> tape_ins_no_arg("PUSH") \o inner
                               \o tape_ins_no_arg("AIDX")
          [] e.k = "field" -> tape_ins_text("GET", e.id)

\* start:end or start:inc:end; the kids are start, end and inc if present.
range_expression(e) ==
    LET pushed(x) == produce_instructions(x) \o tape_ins_no_arg("PUSH")
    IN  tape_ins_text("PUSH", "range")
          \o (IF Len(e.kids) = 3 THEN pushed(e.kids[3]) ELSE <<>>)
          \o pushed(e.kids[2]) \o pushed(e.kids[1])
          \o tape_ins_int("TUPL", Len(e.kids)) \o tape_ins_no_arg("CALL")

unary_expression(e) ==
    IF e.id = "-" /\ e.kids[1].k = "const"
    THEN tape_ins_int("RES", -e.kids[1].n)
    ELSE produce_instructions(e.kids[1]) \o
         CASE e.id = "~" -> tape_ins_no_arg("NOT")
           [] e.id = "!" -> tape_ins_no_arg("NOTC")
           [] e.id = "-" -> tape_ins_no_arg("PUSH") \o tape_ins_int("PUSH", -1)
                              \o tape_ins_no_arg("MULT")
           [] e.id = "await" -> tape_ins_no_arg("WAIT")

\* a op b op c, one operator for all.
BiExpressionProduce(e) ==
    LET suffix(x) == tape_ins_no_arg("PUSH") \o produce_instructions(x)
                       \o tape_ins_no_arg("PUSH") \o tape_ins_no_arg(e.id)
    IN  produce_instructions(e.kids[1]) \o
        Concat([i \in 1 .. Len(e.kids) - 1 |-> suffix(e.kids[i + 1])])

\* The first operand that decides ends the evaluation.
ShortCircuit(e, op) ==
    LET tapes == produce_each(e.kids)
        num_suffixes == Len(tapes) - 1
    IN  tapes[1] \o
        Concat([i \in 1 .. num_suffixes |->
            tape_ins_int(op, SizeSum(From(tapes, i + 1)) + num_suffixes - i)
              \o tapes[i + 1]])

and_expression(e) == ShortCircuit(e, "IFN")
or_expression(e) == ShortCircuit(e, "IF")

in_expression(e) ==
    produce_instructions(e.kids[2]) \o tape_ins_no_arg("PUSH")
      \o produce_instructions(e.kids[1]) \o tape_ins_text("CALL", "in")
      \o (IF e.id = "notin" THEN tape_ins_no_arg("NOT") ELSE <<>>)

is_expression(e) ==
    produce_instructions(e.kids[1]) \o tape_ins_no_arg("PUSH")
      \o produce_instructions(e.kids[2]) \o tape_ins_no_arg("PUSH")
      \o tape_ins_no_arg("IS")

\* The kids alternate keys and values.
map_declaration(e) ==
    LET entry(key, val) ==
            tape_ins_no_arg("DUP")
              \o produce_instructions(val) \o tape_ins_no_arg("PUSH")
              \o produce_instructions(key) \o tape_ins_no_arg("PUSH")
              \o tape_ins_int("TUPL", 2) \o tape_ins_text("CALL", "ASET")
    IN  tape_ins_text("PUSH", "struct") \o tape_ins_text("CLLN", "Map") \o
        IF e.kids = <<>> THEN <<>>
        ELSE tape_ins_no_arg("PUSH")
               \o Concat([i \in 1 .. Len(e.kids) \div 2 |->
                                entry(e.kids[2 * i - 1], e.kids[2 * i])])
               \o tape_ins_no_arg("RES")

\* The kids are conditions and their bodies in turn, then the else body if
\* their number is odd.  All conditions come first; the bodies follow, the
\* last one first.
produce_if_else(e) ==
    LET num_conds == Len(e.kids) \div 2
        has_else == Len(e.kids) % 2 = 1
        conds == produce_each([i \in 1 .. num_conds |-> e.kids[2 * i - 1]])
        bodies == produce_each([i \in 1 .. num_conds |-> e.kids[2 * i]])
        else_body == IF has_else THEN produce_instructions(Last(e.kids)) ELSE <<>>
        num_else_ins == IF has_else THEN Len(else_body) ELSE -1
        condition(i) ==
            conds[i] \o
            IF i = num_conds
            THEN tape_ins_int("IFN", SizeSum(bodies) + num_conds
                                       + (IF has_else THEN 0 ELSE -1))
            ELSE tape_ins_int("IF", SizeSum(From(conds, i + 1))
                                      + SizeSum(From(bodies, i + 1))
                                      + 2 * (num_conds - i))
        body(i) ==
            bodies[i] \o
            IF i > 1 \/ has_else
            THEN tape_ins_int("JMP", num_else_ins + SizeSum(SubSeq(bodies, 1, i - 1))
                                       + i - 1)
            ELSE <<>>
    IN  Concat([i \in 1 .. num_conds |-> condition(i)])
          \o Concat([i \in 1 .. num_conds |-> body(num_conds + 1 - i)])
          \o else_body

-----------------------------------------------------------------------------
(* Assignments.  A target is a variable, a field or an element of an        *)
(* object, or a list of targets.                                            *)

\* Mutant: the object on the stack is kept to the last target.
AssignmentMultiPeeks(targets) ==
    tape_ins_no_arg("PUSH") \o
    Concat([i \in 1 .. Len(targets) |->
        tape_ins_no_arg("PEEK") \o tape_ins_no_arg("PUSH")
          \o tape_ins_int("RES", i - 1) \o tape_ins_no_arg("AIDX")
          \o produce_assignment(targets[i])])

produce_assignment_multi(targets) ==
    tape_ins_no_arg("PUSH") \o
    Concat([i \in 1 .. Len(targets) |->
        tape_ins_no_arg(IF i - 1 < Len(targets) - (i - 1) THEN "PEEK" ELSE "RES")
          \o tape_ins_no_arg("PUSH")
          \o tape_ins_int("RES", i - 1)
          \o tape_ins_no_arg("AIDX")
          \o produce_assignment(targets[i])])

produce_assignment(a) ==
    CASE a.k = "var" -> tape_ins_text(IF a.n = 1 THEN "SETC" ELSE "SET", a.id)
      [] a.k = "field" -> tape_ins_no_arg("PUSH")
                            \o produce_instructions(a.kids[1])
                            \o tape_ins_text("FLD", a.id)
      [] a.k = "index" -> tape_ins_no_arg("PUSH")
                            \o produce_instructions(a.kids[1])
                            \o tape_ins_no_arg("PUSH")
                            \o produce_instructions(a.kids[2])
                            \o tape_ins_no_arg("ASET")
      [] a.k = "tuple" -> produce_assignment_multi(a.kids)

assignment_expression(e) ==
    produce_instructions(e.kids[2]) \o produce_assignment(e.kids[1])

-----------------------------------------------------------------------------
(* Statements.                                                              *)

compound_statement(s) == Concat(produce_each(s.kids))

raise_statement(s) == produce_instructions(s.kids[1]) \o tape_ins_no_arg("RAIS")

jump_statement(s) == Concat(produce_each(s.kids)) \o tape_ins_no_arg("RET")

\* Signals that the enclosing loop replaces by distances.
break_statement(s) == tape_ins_int("JMP", IF s.k = "break" THEN 0 ELSE INT_MAX)

exit_statement == tape_ins_no_arg("EXIT")

\* The kids are the body, the target of the error and the handler.
try_statement(s) ==
    LET try_body == produce_instructions(s.kids[1])
        assign == produce_assignment(s.kids[2])
        catch_body == produce_instructions(s.kids[3])
    IN  tape_ins_no_arg("NBLK") \o tape_ins_int("CTCH", Len(try_body) + 1)
          \o try_body
          \o tape_ins_int("JMP", Len(catch_body) + Len(assign))
          \o assign \o catch_body
          \o tape_ins_no_arg("RNIL") \o tape_ins_text("SET", "$try_goto")
          \o tape_ins_no_arg("BBLK")

\* Replaces the signals in a loop's tape; i counts from 0 as in the code.
Patch(tape, Break(_), Continue(_)) ==
    [i \in 1 .. Len(tape) |->
        IF tape[i].op = "JMP" /\ tape[i].n = 0
        THEN [tape[i] EXCEPT !.n = Break(i - 1)]
        ELSE IF tape[i].op = "JMP" /\ tape[i].n = INT_MAX
        THEN [tape[i] EXCEPT !.n = Continue(i - 1)]
        ELSE tape[i]] \o <<>>

\* Mutant: a break goes to the jump back.
WhileBreakShort(s) ==
    LET cond == produce_instructions(s.kids[1])
        body == produce_instructions(s.kids[2])
        lines_for_body == Len(body)
        patched == Patch(body, LAMBDA i : lines_for_body - i - 1, LAMBDA i : -(i + 1))
    IN  tape_ins_no_arg("NBLK") \o cond
          \o tape_ins_int("IFN", lines_for_body + 1) \o patched
          \o tape_ins_int("JMP", -(Len(cond) + lines_for_body + 2))
          \o tape_ins_no_arg("BBLK")

\* Mutant: the condition is not tested again.
WhileTestsOnce(s) ==
    LET cond == produce_instructions(s.kids[1])
        body == produce_instructions(s.kids[2])
        lines_for_body == Len(body)
        patched == Patch(body, LAMBDA i : lines_for_body - i, LAMBDA i : -(i + 1))
    IN  tape_ins_no_arg("NBLK") \o cond
          \o tape_ins_int("IFN", lines_for_body + 1) \o patched
          \o tape_ins_int("JMP", -(lines_for_body + 1))
          \o tape_ins_no_arg("BBLK")

\* The kids are the condition and the body.
while_statement(s) ==
    LET cond == produce_instructions(s.kids[1])
        body == produce_instructions(s.kids[2])
        lines_for_body == Len(body)
        patched == Patch(body, LAMBDA i : lines_for_body - i, LAMBDA i : -(i + 1))
    IN  tape_ins_no_arg("NBLK") \o cond
          \o tape_ins_int("IFN", lines_for_body + 1) \o patched
          \o tape_ins_int("JMP", -(Len(cond) + lines_for_body + 2))
          \o tape_ins_no_arg("BBLK")

\* The kids are the first statement, the condition, the increment, the body.
for_statement(s) ==
    LET init == produce_instructions(s.kids[1])
        cond == produce_instructions(s.kids[2])
        inc == produce_instructions(s.kids[3])
        body == produce_instructions(s.kids[4])
        loop == Len(body) + Len(inc)
        patched == Patch(body \o inc, LAMBDA i : loop - i,
                         LAMBDA i : Len(body) - i - 1)
    IN  tape_ins_no_arg("NBLK") \o init \o cond
          \o tape_ins_int("IFN", loop + 1) \o patched
          \o tape_ins_int("JMP", -(loop + Len(cond) + 1 + 1))
          \o tape_ins_no_arg("BBLK")

\* The kids are the target, the collection and the body.
foreach_statement(s) ==
    LET body == tape_ins_no_arg("DUP") \o tape_ins_text("CALL", "next")
                  \o produce_assignment(s.kids[1])
                  \o produce_instructions(s.kids[3])
        body_ins == Len(body)
        patched == Patch(body, LAMBDA i : body_ins - i,
                         LAMBDA i : body_ins - i - 1)
    IN  tape_ins_no_arg("NBLK") \o produce_instructions(s.kids[2])
          \o tape_ins_no_arg("PUSH") \o tape_ins_text("CALL", "iter")
          \o tape_ins_no_arg("PUSH")
          \o tape_ins_no_arg("DUP") \o tape_ins_text("CALL", "has_next")
          \o tape_ins_int("IFN", body_ins + 1)
          \o patched
          \o tape_ins_int("JMP", -(3 + body_ins + 1))
          \o tape_ins_no_arg("RES") \o tape_ins_no_arg("BBLK")

-----------------------------------------------------------------------------
(* Parameters.  A parameter is a name, perhaps marked as a field of self,   *)
(* with its default value below it if it has one; its number is 1 if it is  *)
(* const.                                                                   *)

has_default(p) == p.kids # <<>>

produce_argument(p) ==
    IF p.k = "field"
    THEN tape_ins_no_arg("PUSH") \o tape_ins_text("RES", "self")
           \o tape_ins_text(IF p.n = 1 THEN "FLDC" ELSE "FLD", p.id)
    ELSE tape_ins_text(IF p.n = 1 THEN "LETC" ELSE "LET", p.id)

\* Takes the i-th element of the tuple if there is one, else the default.
take_or_default(i, take, default) ==
    tape_ins_no_arg("PEEK") \o tape_ins_int("TGTE", i)
      \o tape_ins_int("IFN", 3) \o take
      \o tape_ins_int("JMP", Len(default)) \o default

produce_all_arguments(params) ==
    LET num_args == Len(params)
        take(i) == tape_ins_no_arg(IF i = num_args THEN "RES" ELSE "PEEK")
                     \o tape_ins_int("TGET", i - 1)
        value(i) == IF ~has_default(params[i]) THEN take(i)
                    ELSE take_or_default(i, take(i),
                                         produce_instructions(params[i].kids[1]))
    IN  Concat([i \in 1 .. num_args |-> value(i) \o produce_argument(params[i])])

value_or_default(default) ==
    tape_ins_no_arg("PUSH") \o tape_ins_int("TGTE", 1)
      \o tape_ins_int("IF", Len(default) + 1) \o default \o tape_ins_int("JMP", 1)
      \o tape_ins_no_arg("RES") \o tape_ins_int("TGET", 0)

\* Without a tuple the first parameter is the argument, the others have their
\* defaults.
tuple_or_defaults(defaults, non_defaults) ==
    tape_ins_no_arg("PUSH") \o tape_ins_no_arg("TLEN")
      \o tape_ins_no_arg("PUSH") \o tape_ins_int("PUSH", -1)
      \o tape_ins_no_arg("EQ") \o tape_ins_int("IFN", Len(defaults) + 1)
      \o defaults \o tape_ins_int("JMP", Len(non_defaults)) \o non_defaults

produce_arguments(params) ==
    LET first == params[1]
        default(p) == IF has_default(p) THEN produce_instructions(p.kids[1])
                                        ELSE tape_ins_no_arg("RNIL")
        others == Concat([i \in 1 .. Len(params) - 1 |->
                     default(params[i + 1]) \o produce_argument(params[i + 1])])
    IN  IF Len(params) = 1
        THEN (IF has_default(first) THEN value_or_default(default(first)) ELSE <<>>)
             \o produce_argument(first)
        ELSE tuple_or_defaults(tape_ins_no_arg("RES") \o produce_argument(first) \o others,
                               produce_all_arguments(params))

\* A function, the kids being its parameters and last its body.
produce_function(f) ==
    (IF Len(f.kids) > 1 THEN produce_arguments(Front(f.kids)) ELSE <<>>)
      \o produce_instructions(Last(f.kids)) \o tape_ins_no_arg("RET")

\* A function definition is jumped over; its body runs in a task of its own.
produce_anon_function(e) ==
    LET tmp == produce_function(e)
    IN  tape_ins_int("JMP", Len(tmp)) \o tmp \o tape_ins_text("RES", e.id)

\* A constructor: the fields, then as a function; n is the number of
\* parameters, the fields' names come after them and the body is last.
produce_constructor(c) ==
    LET params == SubSeq(c.kids, 1, c.n)
        fields == SubSeq(c.kids, c.n + 1, Len(c.kids) - 1)
        clear(f) == tape_ins_no_arg("PNIL") \o tape_ins_text("RES", "self")
                      \o tape_ins_text("FLD", f.id)
    IN  (IF fields = <<>> THEN <<>>
         ELSE tape_ins_no_arg("PUSH")
                \o Concat([i \in 1 .. Len(fields) |-> clear(fields[i])])
                \o tape_ins_no_arg("RES"))
          \o (IF params = <<>> THEN <<>> ELSE produce_arguments(params))
          \o produce_instructions(Last(c.kids))
          \o tape_ins_text("RES", "self") \o tape_ins_no_arg("RET")

-----------------------------------------------------------------------------
(* A module.  Its code is in parts, each with the label in front of it: the *)
(* statements, without a label, then what the classes and the functions     *)
(* define.                                                                  *)

Part(class, name, async, ins) ==
    [class |-> class, name |-> name, async |-> async, ins |-> ins]

Below(x, kinds) == SelectSeq(x.kids, LAMBDA y : y.k \in kinds)

SpecialMethods == {"EQ_FN_NAME", "NEQ_FN_NAME", "ARRAYLIKE_INDEX_KEY",
                   "ARRAYLIKE_SET_KEY"}

\* A special method is never labelled async.
produce_function_name(class, f) ==
    Part(class, f.id, f.n = 1 /\ f.id \notin SpecialMethods, produce_function(f))

IsConstructor(f) == f.id = "CONSTRUCTOR_KEY"
Constructor(c) == SelectSeq(Below(c, {"function"}), IsConstructor)
Methods(c) == SelectSeq(Below(c, {"function"}), LAMBDA f : ~IsConstructor(f))

\* A class with fields gets a constructor even if it defines none.
class_constructor(c) ==
    LET fields == Below(c, {"member"})
        f == Constructor(c)
        params == IF f = <<>> THEN <<>> ELSE Front(f[1].kids)
        body == IF f = <<>> THEN Node("seq", "", 0, <<>>) ELSE Last(f[1].kids)
    IN  Part(c.id, "CONSTRUCTOR_KEY", FALSE,
             produce_constructor(Node("constructor", "", Len(params),
                                      params \o fields \o <<body>>)))

produce_class(c) ==
    (IF Constructor(c) # <<>> \/ Below(c, {"member"}) # <<>>
     THEN <<class_constructor(c)>> ELSE <<>>)
      \o [i \in 1 .. Len(Methods(c)) |-> produce_function_name(c.id, Methods(c)[i])]

\* The kids of an annotation are its prefix, if its number is 1, and its
\* argument.
produce_annotation(c) ==
    LET annot == Below(c, {"annotation"})[1]
        args == SubSeq(annot.kids, annot.n + 1, Len(annot.kids))
    IN  (IF annot.n = 1
         THEN tape_ins_text("RES", annot.kids[1].id) \o tape_ins_text("GTSH", annot.id)
         ELSE tape_ins_text("PUSH", annot.id))
          \o Concat(produce_each(args))
          \o tape_ins_no_arg(IF args = <<>> THEN "CLLN" ELSE "CALL")
          \o tape_ins_no_arg("PUSH") \o tape_ins_text("RES", c.id)
          \o tape_ins_text("CALL", "annotate")

set_super(c) ==
    tape_ins_text("PUSH", c.id) \o tape_ins_text("RES", Below(c, {"parent"})[1].id)
      \o tape_ins_text("CALL", "$__set_super")

OfEach(nodes, Produce(_)) == Concat([i \in 1 .. Len(nodes) |-> Produce(nodes[i])])

\* Imports, annotations and superclasses come before the statements, which
\* end in EXIT.
module_statements(m) ==
    LET classes == Below(m, {"class"})
        having(kind) == SelectSeq(classes, LAMBDA c : Below(c, {kind}) # <<>>)
    IN  OfEach(Below(m, {"import"}), LAMBDA i : tape_ins_text("LMDL", i.id))
          \o OfEach(having("annotation"), produce_annotation)
          \o OfEach(having("parent"), set_super)
          \o OfEach(SelectSeq(m.kids,
                       LAMBDA x : x.k \notin {"import", "class", "function"}),
                    produce_instructions)
          \o tape_ins_int("EXIT", 0)

module_parts(m) ==
    LET functions == Below(m, {"function"})
    IN  <<Part("", "", FALSE, module_statements(m))>>
          \o OfEach(Below(m, {"class"}), produce_class)
          \o [i \in 1 .. Len(functions) |-> produce_function_name("", functions[i])]

produce_module_def(m) == OfEach(module_parts(m), LAMBDA part : part.ins)

-----------------------------------------------------------------------------

produce_instructions(x) ==
    CASE x.k = "id" -> identifier(x)
      [] x.k = "const" -> constant(x)
      [] x.k = "string" -> string_literal(x)
      [] x.k = "paren" -> produce_instructions(x.kids[1])
      [] x.k = "tuple" -> tuple_expression(x)
      [] x.k = "array" -> array_declaration(x)
      [] x.k = "map" -> map_declaration(x)
      [] x.k \in {"call", "method", "index", "field"} -> produce_postfix(x)
      [] x.k = "range" -> range_expression(x)
      [] x.k = "unary" -> unary_expression(x)
      [] x.k = "binary" -> BiExpressionProduce(x)
      [] x.k = "and" -> and_expression(x)
      [] x.k = "or" -> or_expression(x)
      [] x.k = "in" -> in_expression(x)
      [] x.k = "is" -> is_expression(x)
      [] x.k = "if" -> produce_if_else(x)
      [] x.k = "anon" -> produce_anon_function(x)
      [] x.k = "assign" -> assignment_expression(x)
      [] x.k = "seq" -> compound_statement(x)
      [] x.k = "while" -> while_statement(x)
      [] x.k = "for" -> for_statement(x)
      [] x.k = "foreach" -> foreach_statement(x)
      [] x.k = "try" -> try_statement(x)
      [] x.k = "raise" -> raise_statement(x)
      [] x.k = "return" -> jump_statement(x)
      [] x.k \in {"break", "continue"} -> break_statement(x)
      [] x.k = "exit" -> exit_statement
      [] x.k = "function" -> produce_function(x)
      [] x.k = "constructor" -> produce_constructor(x)
      [] x.k = "module" -> produce_module_def(x)
=============================================================================
