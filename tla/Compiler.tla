------------------------------- MODULE Compiler -------------------------------
(***************************************************************************)
(* From the text of a program to a module that can be run: compile/        *)
(* compile.c and the loading of vm/module_manager.c.  A text is parsed,    *)
(* populated and produced, the tape is optimized and written to the two    *)
(* kinds of files, and a module is loaded from the text or from a file.    *)
(* One program is compiled at a time, each step being the whole of a       *)
(* stage.  Where the code calls ERROR, fails an ASSERT or dereferences     *)
(* NULL the program is refused.                                            *)
(***************************************************************************)
EXTENDS Parser, Populate, Optimizer

CONSTANTS Sources    \* the texts: their tokens, and the tree printed if any

S == INSTANCE SourceText

VARIABLES
    source,    \* the text being compiled
    opt,       \* whether the tape was optimized
    stage,     \* the last stage that was completed
    tree,      \* the syntax tree of the parser
    left,      \* the tokens in the lexer's queue
    expr,      \* the expression tree of the populators
    tape,      \* the tape in memory
    files,     \* the .ja and the .jb file
    module     \* the module that was loaded

vars == <<source, opt, stage, tree, left, expr, tape, files, module>>

NoFiles == [ja |-> <<>>, jb |-> <<>>]

Init ==
    /\ source \in Sources /\ opt = FALSE
    /\ stage = "text" /\ tree = match_epsilon /\ left = source.tokens
    /\ expr = ErrorNode /\ tape = tape_create
    /\ files = NoFiles /\ module = <<>>

-----------------------------------------------------------------------------
(* Writing the tape of a module.                                            *)

\* Mutant: the label comes after the code.
LabelAfterPart(t, part) ==
    LET added == [t EXCEPT !.ins = @ \o part.ins]
    IN  IF part.name = "" THEN added ELSE _tape_start_func(added, part.name, part.async)

AddPart(t, part) ==
    LET labelled == IF part.name = "" THEN t
                    ELSE _tape_start_func(t, part.name, part.async)
    IN  [labelled EXCEPT !.ins = @ \o part.ins]

\* A function without a name is labelled where the jump over it is.
IsAnonymous(ins, i) ==
    /\ ins[i].op = "JMP" /\ i + ins[i].n + 1 \in DOMAIN ins
    /\ ins[i + ins[i].n + 1].op = "RES" /\ ins[i + ins[i].n + 1].id = "$anon"

tape_anon_label(t) ==
    FoldLeft(LAMBDA u, i : tape_start_func_at_index(u, "$anon", i, FALSE), t,
             SelectSeq([i \in 1 .. Len(t.ins) |-> i], LAMBDA i : IsAnonymous(t.ins, i)))

ClassTape(t, c) ==
    LET started == FoldLeft(LAMBDA u, field : tape_field(u, field.id),
                            tape_start_class(t, c.id), Below(c, {"member"}))
    IN  tape_end_class(FoldLeft(AddPart, started, produce_class(c)))

\* A file of one statement has the tree of that statement, not of a module.
StatementTape(x) ==
    tape_anon_label(AddPart(tape_create, Part("", "", FALSE, produce_instructions(x))))

ModuleTape(m) ==
    LET named == IF m.id = "" THEN tape_create ELSE tape_module(tape_create, m.id)
        statements == AddPart(named, Part("", "", FALSE, module_statements(m)))
        AddFunction(t, f) == AddPart(t, produce_function_name("", f))
    IN  FoldLeft(AddFunction,
                 FoldLeft(ClassTape, tape_anon_label(statements), Below(m, {"class"})),
                 Below(m, {"function"}))

ProducedTape == IF expr.k = "module" THEN ModuleTape(expr) ELSE StatementTape(expr)

\* What the producers refuse: several superclasses, const in an expression.
RECURSIVE Refused(_)
Refused(x) ==
    \/ x.k = "unary" /\ x.id = "const"
    \/ x.k = "class" /\ Len(Below(x, {"parent"})) > 1
    \/ \E i \in DOMAIN x.kids : Refused(x.kids[i])

RECURSIVE HasError(_)
HasError(x) == x.k = "error" \/ \E i \in DOMAIN x.kids : HasError(x.kids[i])

-----------------------------------------------------------------------------
(* The stages of _read_file and write_tape.                                 *)

To(next, refused) == stage' = IF refused THEN "refused" ELSE next

Parse ==
    /\ stage = "text"
    /\ LET p == parse_file(source.tokens)
       IN  tree' = p.todo.tree /\ left' = p.q /\ To("parsed", p.q # <<>>)
    /\ UNCHANGED <<source, opt, expr, tape, files, module>>

PopulateTree ==
    /\ stage = "parsed"
    /\ expr' = populate_expression(tree)
    /\ To("populated", HasError(expr'))
    /\ UNCHANGED <<source, opt, tree, left, tape, files, module>>

Produce ==
    /\ stage = "populated"
    /\ IF Refused(expr) THEN UNCHANGED tape ELSE tape' = ProducedTape
    /\ To("produced", Refused(expr) \/ ~tape'.ok)
    /\ UNCHANGED <<source, opt, tree, left, expr, files, module>>

\* The compiler optimizes if it is told to, the runner always.
Optimize ==
    /\ stage = "produced"
    /\ opt' \in BOOLEAN
    /\ tape' = IF opt' THEN optimize(tape) ELSE tape
    /\ To("compiled", ~tape'.ok)
    /\ UNCHANGED <<source, tree, left, expr, files, module>>

\* The .jb file begins with the name of the module, which is read even if it
\* was never set.
write_tape ==
    /\ stage = "compiled"
    /\ \E out_ja, out_jb \in BOOLEAN :
        /\ files' = [ja |-> IF out_ja THEN <<tape_write(tape)>> ELSE <<>>,
                     jb |-> IF out_jb THEN <<tape_write_binary(tape)>> ELSE <<>>]
        /\ To("written", out_jb /\ tape.module = UNSET)
    /\ UNCHANGED <<source, opt, tree, left, expr, tape, module>>

-----------------------------------------------------------------------------
(* Loading a module.                                                        *)

\* Functions, classes, fields and methods are found by their names.
ByName(refs) == [n \in {refs[i].name : i \in DOMAIN refs} |->
                    refs[CHOOSE i \in DOMAIN refs : refs[i].name = n]]

_hydrate_class(cref) ==
    [name |-> cref.name, fields |-> ToSet(cref.fields),
     functions |-> ByName(cref.functions)]

_modulemanager_hydrate(t) ==
    [name |-> t.module, ins |-> t.ins, functions |-> ByName(t.functions),
     classes |-> ByName([i \in 1 .. Len(t.classes) |-> _hydrate_class(t.classes[i])])]

Load(t) ==
    /\ module' = <<_modulemanager_hydrate(t)>>
    /\ stage' = "loaded"
    /\ UNCHANGED <<source, opt, tree, left, expr, tape, files>>

_read_jl == stage = "compiled" /\ opt /\ Load(tape)
_read_ja == stage = "written" /\ files.ja # <<>> /\ Load(tape_read(files.ja[1]))
_read_jb == stage = "written" /\ files.jb # <<>> /\ Load(tape_read_binary(files.jb[1]))

Next ==
    \/ Parse \/ PopulateTree \/ Produce \/ Optimize \/ write_tape
    \/ _read_jl \/ _read_ja \/ _read_jb

Spec == Init /\ [][Next]_vars

-----------------------------------------------------------------------------
(* Correctness.                                                             *)

Printed == source.of # <<>>

\* Every program that is printed from a tree is understood, and as that tree: no
\* populator finds an error or a part missing anywhere in it, and the order of the alternatives, the tokens that are pushed back and the
\* shapes that the populators expect fit together, with newlines and without.
SourceRecovered == Printed =>
    /\ stage = "refused" => ~HasError(expr)
    /\ stage = "populated" => S!Plain(expr) = S!Plain(source.of[1])

RECURSIVE LeavesOf(_)
LeavesOf(t) == t.token \o FlattenSeq([i \in 1 .. Len(t.kids) |-> LeavesOf(t.kids[i])])

NoNewlines(tokens) == SelectSeq(tokens, LAMBDA tok : tok.t # "ENDLINE")

\* However often the parser changes its mind, the tokens it has taken and
\* those it has left are those of the file, in their order, but for newlines.
NothingLost == stage # "text" =>
    NoNewlines(LeavesOf(tree)) \o NoNewlines(left) = NoNewlines(source.tokens)

-----------------------------------------------------------------------------

AllFunctions(t) ==
    t.functions \o FlattenSeq([c \in 1 .. Len(t.classes) |-> t.classes[c].functions])

\* Where the code of the statements, of each function and of each method
\* begins; an anonymous function is inside that of another.
Starts(t) == {0} \cup {f.index : f \in {f \in ToSet(AllFunctions(t)) : f.name # "$anon"}}

\* No jump leaves the code of its function, and the code of each ends: it
\* never runs into that of the next one.  A file of one statement has no end.
JumpsStayInside == stage \in {"produced", "compiled"} =>
    /\ \A i \in DOMAIN tape.ins : is_goto(tape.ins[i]) =>
          LET to == i + tape.ins[i].n
          IN  /\ to \in 0 .. tape_size(tape) - 1
              /\ \A s \in Starts(tape) : i - 1 < s <=> to < s
    /\ \A s \in Starts(tape) \cup {tape_size(tape)} :
          s > 0 /\ expr.k = "module" => tape.ins[s].op \in {"RET", "EXIT"}

\* The code from each start to the next.
Pieces(t) ==
    LET starts == SetToSortSeq(Starts(t) \cup {tape_size(t)}, <)
    IN  [k \in 1 .. Len(starts) - 1 |-> SubSeq(t.ins, starts[k] + 1, starts[k + 1])] \o <<>>

Shape(t) ==
    [name |-> t.module, functions |-> Names(t.functions),
     classes |-> [c \in 1 .. Len(t.classes) |->
                     <<t.classes[c].name, t.classes[c].fields,
                       Names(t.classes[c].functions)>>]]

\* A function that does nothing, after one that ends in RET.
EmptyFunction(t) ==
    \E k \in 2 .. Len(Pieces(t)) :
        /\ Len(Pieces(t)[k]) = 1
        /\ Last(Pieces(t)[k - 1]).op = "RET"

\* Every compiled tape is one that the text format can hold, and each function
\* and method has code of its own in it: no two begin at the same instruction,
\* none begins behind the last one, no function of the module begins in a
\* class.  The optimizers take the only instruction of an EmptyFunction.
CodeOfItsOwn ==
    stage = "produced" \/ (stage = "compiled" /\ ~(opt /\ EmptyFunction(ProducedTape))) =>
        LET functions == AllFunctions(tape)
        IN  /\ LabelsApart(tape)
            /\ \A f, g \in DOMAIN functions : f # g => functions[f].index # functions[g].index
            /\ \A f \in DOMAIN functions : functions[f].index < tape_size(tape)

Apart(before, after) ==
    LET alone(ins) == optimize([tape_create EXCEPT !.ins = ins]).ins
    IN  /\ Shape(after) = Shape(before)
        /\ Pieces(after) = [k \in 1 .. Len(Pieces(before)) |-> alone(Pieces(before)[k])]

\* The optimizers do to each function what they would do to it alone: none
\* takes instructions of two functions together, and every label, field and
\* class stays where it belongs.
OptimizedApart ==
    [][stage = "produced" /\ stage' = "compiled" /\ opt' /\ ~EmptyFunction(tape)
         => Apart(tape, tape')]_vars

\* What both kinds of files keep: the asynchronous functions are not marked,
\* the bytecode has no fields, and a module without a name is named $.
KeptByFiles(m) ==
    LET plain(functions) == [f \in DOMAIN functions |-> functions[f].index]
    IN  [name |-> IF m.name = UNSET THEN "$" ELSE m.name, ins |-> m.ins,
         functions |-> plain(m.functions),
         classes |-> [c \in DOMAIN m.classes |-> plain(m.classes[c].functions)]]

\* A module that is loaded from a file is, in what the files keep, the one
\* that the compiler had: each label is read back where it was, each name is
\* the one its index was given to.
SameModule == stage = "loaded" =>
    KeptByFiles(module[1]) = KeptByFiles(_modulemanager_hydrate(tape))

-----------------------------------------------------------------------------

\* tape.c, tape_get: "ASSERT(NOT_NULL(tape), index >= 0, index < tape_size(tape))".
\* The optimizers look at no instruction outside the tape.
TapeGetInside == opt => tape.ok
=============================================================================
