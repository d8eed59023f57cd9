--------------------------------- MODULE Tape ---------------------------------
(***************************************************************************)
(* The tape of program/tape.c: instructions, and the functions and classes *)
(* that start and end among them; its two file formats, the assembly of    *)
(* tape_write and tape_read and the bytecode of program/tape_binary.c.     *)
(*                                                                         *)
(* Indices count from 0 as in the code.  Where the code calls ERROR or     *)
(* fails an ASSERT, ok becomes FALSE.  Keyed lists are sequences: they     *)
(* iterate in the order of insertion.                                      *)
(***************************************************************************)
EXTENDS Integers, Sequences, SequencesExt

CONSTANTS UINT8_MAX,    \* the largest index a file keeps in one byte
          UINT16_MAX    \* the largest index a file can hold

ASSUME WidthAssumption ==
    UINT8_MAX \in Nat /\ UINT16_MAX \in Nat /\ UINT8_MAX <= UINT16_MAX

\* The name of a module that is not named is never set.
UNSET == "NULL"

tape_create ==
    [module |-> UNSET, ins |-> <<>>, functions |-> <<>>, classes |-> <<>>,
     current_class |-> 0, ok |-> TRUE]

FunctionRef(name, index, is_async) ==
    [name |-> name, index |-> index, is_async |-> is_async]

_classref_init(name, start_index) ==
    [name |-> name, start_index |-> start_index, end_index |-> 0,
     fields |-> <<>>, functions |-> <<>>]

Named(refs, name) == \E i \in DOMAIN refs : refs[i].name = name
tape_size(tape) == Len(tape.ins)

-----------------------------------------------------------------------------
(* Building a tape.                                                         *)

tape_add(tape, ins) == [tape EXCEPT !.ins = Append(@, ins)]

tape_module(tape, name) == [tape EXCEPT !.module = name]

\* In a class a function is a method of it; a name is used once.
tape_start_func_at_index(tape, name, index, is_async) ==
    LET c == tape.current_class
        ref == FunctionRef(name, index, is_async)
    IN  IF c = 0
        THEN [tape EXCEPT !.functions = Append(@, ref),
                          !.ok = @ /\ ~Named(tape.functions, name)]
        ELSE [tape EXCEPT !.classes[c].functions = Append(@, ref),
                          !.ok = @ /\ ~Named(tape.classes[c].functions, name)]

\* Mutant: a function begins at the instruction before.
LabelTooEarly(tape, name, is_async) ==
    tape_start_func_at_index(tape, name, tape_size(tape) - 1, is_async)

_tape_start_func(tape, name, is_async) ==
    tape_start_func_at_index(tape, name, tape_size(tape), is_async)

tape_start_class_at_index(tape, name, index) ==
    [tape EXCEPT !.classes = Append(@, _classref_init(name, index)),
                 !.current_class = Len(tape.classes) + 1,
                 !.ok = @ /\ ~Named(tape.classes, name)]

tape_start_class(tape, name) ==
    tape_start_class_at_index(tape, name, tape_size(tape))

tape_end_class_at_index(tape, index) ==
    IF tape.current_class = 0 THEN [tape EXCEPT !.ok = FALSE]
    ELSE [tape EXCEPT !.classes[tape.current_class].end_index = index,
                      !.current_class = 0]

tape_end_class(tape) == tape_end_class_at_index(tape, tape_size(tape))

tape_field(tape, field) ==
    LET c == tape.current_class
    IN  IF c = 0 THEN [tape EXCEPT !.ok = FALSE]
        ELSE [tape EXCEPT !.classes[c].fields = Append(@, field),
                          !.ok = @ /\ field \notin ToSet(tape.classes[c].fields)]

\* Mutant: the labels of the tail keep their indices.
AppendUnmoved(head, tail) ==
    [head EXCEPT !.ins = @ \o tail.ins, !.functions = @ \o tail.functions]

\* The tail is code with the labels of the functions without a name in it,
\* which become functions of the module also where a class is open.
tape_append(head, tail) ==
    [head EXCEPT !.ins = @ \o tail.ins,
                 !.functions = @ \o [i \in 1 .. Len(tail.functions) |->
                                        [tail.functions[i] EXCEPT !.index = @ + tape_size(head)]]]

\* Every function and every class has code, and no function of the module lies
\* in a class, as one without a name in a method does.
LabelsApart(t) ==
    /\ \A f, g \in DOMAIN t.functions : f # g => t.functions[f].index # t.functions[g].index
    /\ \A c \in DOMAIN t.classes :
        LET cref == t.classes[c]
            methods == cref.functions
        IN  /\ cref.start_index < cref.end_index
            /\ \A m, n \in DOMAIN methods : m # n => methods[m].index # methods[n].index
            /\ \A m \in DOMAIN methods : methods[m].index < cref.end_index
            /\ \A f \in DOMAIN t.functions :
                  t.functions[f].index \notin cref.start_index .. cref.end_index - 1

-----------------------------------------------------------------------------
(* The assembly.  A file is a sequence of lines; the arguments of an        *)
(* instruction are written and read back as they are.                       *)

Line(k, name, ins) == [k |-> k, name |-> name, ins |-> ins]
Word(k, name) == <<Line(k, name, <<>>)>>

\* Where tape_write is: the index, the class and the function it comes to
\* next, and what it has written.
Writer == [i |-> 0, class |-> 1, in_class |-> FALSE, method |-> 1, func |-> 1,
           lines |-> <<>>]

instruction_write(tape, w, i) ==
    [w EXCEPT !.i = i,
              !.lines = @ \o [k \in 1 .. i - w.i |-> Line("ins", "", <<tape.ins[w.i + k]>>)]]

WriteEndClass(tape, w) ==
    IF w.in_class /\ tape.classes[w.class].end_index = w.i
    THEN [w EXCEPT !.in_class = FALSE, !.class = @ + 1,
                   !.lines = @ \o Word("endclass", tape.classes[w.class].name)]
    ELSE w

WriteClass(tape, w) ==
    IF w.class <= Len(tape.classes) /\ ~w.in_class
       /\ tape.classes[w.class].start_index = w.i
    THEN LET class_ref == tape.classes[w.class]
             fields == [i \in 1 .. Len(class_ref.fields) |->
                           Line("field", class_ref.fields[i], <<>>)]
         IN  [w EXCEPT !.in_class = TRUE, !.method = 1,
                       !.lines = @ \o Word("class", class_ref.name) \o fields]
    ELSE w

\* As long as a class has methods to come, no other function is looked at.
WriteLabel(tape, w) ==
    LET methods == tape.classes[w.class].functions
        functions == tape.functions
    IN  IF w.in_class /\ w.method <= Len(methods)
        THEN IF methods[w.method].index = w.i
             THEN [w EXCEPT !.method = @ + 1,
                            !.lines = @ \o Word("@", methods[w.method].name)]
             ELSE w
        ELSE IF w.func <= Len(functions) /\ functions[w.func].index = w.i
             THEN [w EXCEPT !.func = @ + 1,
                            !.lines = @ \o Word("@", functions[w.func].name)]
             ELSE w

\* Mutant: a class is begun before the one before it is ended.
BeginBeforeEnd(tape, w, i) ==
    LET at == instruction_write(tape, w, i)
    IN  WriteLabel(tape, WriteEndClass(tape, WriteClass(tape, at)))

WriteAt(tape, w, i) ==
    LET at == instruction_write(tape, w, i)
    IN  WriteLabel(tape, WriteClass(tape, WriteEndClass(tape, at)))

\* The indices where the code has more to write than an instruction.
WithLabel(tape) ==
    {tape.functions[i].index : i \in DOMAIN tape.functions} \cup
    UNION {{tape.classes[c].start_index, tape.classes[c].end_index}
             \cup {tape.classes[c].functions[i].index :
                      i \in DOMAIN tape.classes[c].functions} : c \in DOMAIN tape.classes}

Header(tape) == IF tape.module \in {"$", UNSET} THEN <<>> ELSE Word("module", tape.module)

tape_write(tape) ==
    LET body == FoldLeft(LAMBDA w, i : WriteAt(tape, w, i), Writer,
                         SetToSortSeq(WithLabel(tape), <))
    IN  Header(tape) \o instruction_write(tape, body, tape_size(tape)).lines

\* A line other than an instruction, which is at this index.
tape_read_ins(tape, line, index) ==
    CASE line.k = "@" -> tape_start_func_at_index(tape, line.name, index, FALSE)
      [] line.k = "class" -> tape_start_class_at_index(tape, line.name, index)
      [] line.k = "endclass" -> tape_end_class_at_index(tape, index)
      [] line.k = "field" -> tape_field(tape, line.name)

IsNamed(lines) == lines # <<>> /\ Head(lines).k = "module"
tape_read_module(lines) ==
    tape_module(tape_create, IF IsNamed(lines) THEN Head(lines).name ELSE "$")

tape_read(lines) ==
    LET named == IsNamed(lines)
        start == tape_read_module(lines)
        rest == IF named THEN Tail(lines) ELSE lines
        is_ins(i) == rest[i].k = "ins"
        all == [i \in 1 .. Len(rest) |-> i]
        index(i) == Len(SelectSeq(SubSeq(all, 1, i), is_ins))
        ins == SelectSeq(all, is_ins)
        labelled == FoldLeft(LAMBDA t, i : tape_read_ins(t, rest[i], index(i)), start,
                             SelectSeq(all, LAMBDA i : ~is_ins(i)))
    IN  [labelled EXCEPT !.ins = [k \in 1 .. Len(ins) |-> rest[ins[k]].ins[1]] \o <<>>]

-----------------------------------------------------------------------------
(* The bytecode.  Names are in a table at the front of the file, the        *)
(* module's first, and are indices elsewhere.                               *)

EmptyTable == [strings |-> <<>>, index |-> [s \in {} |-> 0]]

\* Mutant: the index is the size of the map.
IndexBySize(table, str) ==
    IF str \in DOMAIN table.index /\ table.index[str] # 0 THEN table
    ELSE [strings |-> Append(table.strings, str),
          index |-> [s \in DOMAIN table.index \cup {str} |->
                        IF s = str THEN Cardinality(DOMAIN table.index) ELSE table.index[s]]]

\* The map keeps the index of a name, and 0 is the same as absent: the name at
\* index 0 is entered again.
_insert_string(table, str) ==
    IF str \in DOMAIN table.index /\ table.index[str] # 0 THEN table
    ELSE [strings |-> Append(table.strings, str),
          index |-> [s \in DOMAIN table.index \cup {str} |->
                        IF s = str THEN Len(table.strings) ELSE table.index[s]]]

Names(refs) == [i \in 1 .. Len(refs) |-> refs[i].name]
ClassNames(cref) == <<cref.name>> \o Names(cref.functions) \o cref.fields
HasName(ins) == ins.arg \in {"id", "str"}

_intern_all_strings(tape) ==
    LET ids == SelectSeq(tape.ins, HasName)
        all == <<tape.module>>
                 \o FlattenSeq([i \in 1 .. Len(tape.classes) |-> ClassNames(tape.classes[i])])
                 \o Names(tape.functions)
                 \o [i \in 1 .. Len(ids) |-> ids[i].id]
    IN  FoldLeft(_insert_string, EmptyTable, all)

UInt16(n) == n % (UINT16_MAX + 1)
UInt8(n) == n % (UINT8_MAX + 1)

_serialize_function_ref(fref, table) ==
    [name |-> UInt16(table.index[fref.name]), index |-> UInt16(fref.index)]

_serialize_class_ref(cref, table) ==
    [name |-> UInt16(table.index[cref.name]),
     start |-> UInt16(cref.start_index), end |-> UInt16(cref.end_index),
     methods |-> [i \in 1 .. Len(cref.functions) |->
                     _serialize_function_ref(cref.functions[i], table)]]

\* Mutant: one byte is used up to the size it can hold.
OneByteTooLong(ins, table) ==
    LET use_short == Cardinality(DOMAIN table.index) > UINT8_MAX + 1
        ref == UInt16(table.index[ins.id])
    IN  [op |-> ins.op, arg |-> ins.arg, n |-> ins.n, short |-> use_short,
         ref |-> CASE ~HasName(ins) -> 0
                   [] use_short -> ref
                   [] OTHER -> UInt8(ref)]

\* The writer looks at the size of the map to see if one byte is enough.
serialize_ins(ins, table) ==
    LET use_short == Cardinality(DOMAIN table.index) > UINT8_MAX
        ref == UInt16(table.index[ins.id])
    IN  [op |-> ins.op, arg |-> ins.arg, n |-> ins.n, short |-> use_short,
         ref |-> CASE ~HasName(ins) -> 0
                   [] use_short -> ref
                   [] OTHER -> UInt8(ref)]

WriteBinary(tape, table) ==
    LET count(s) == UInt16(Len(s))
    IN  [strings |-> SubSeq(table.strings, 1, count(table.strings)),
         refs |-> [i \in 1 .. count(tape.functions) |->
                      _serialize_function_ref(tape.functions[i], table)],
         classes |-> [i \in 1 .. count(tape.classes) |->
                         _serialize_class_ref(tape.classes[i], table)],
         ins |-> [i \in 1 .. count(tape.ins) |-> serialize_ins(tape.ins[i], table)]]

tape_write_binary(tape) == WriteBinary(tape, _intern_all_strings(tape))

\* The reader looks at the number of strings.  A file whose reader and writer
\* disagree on the width of an index is not read any further.
WrongWidth(file, ins) ==
    HasName(ins) /\ (ins.short # (Len(file.strings) > UINT8_MAX))

deserialize_ins(file, ins) ==
    IF HasName(ins)
    THEN [op |-> ins.op, arg |-> ins.arg, id |-> file.strings[ins.ref + 1],
          n |-> ins.n]
    ELSE [op |-> ins.op, arg |-> ins.arg, id |-> "", n |-> ins.n]

ReadRef(file, tape, r) ==
    tape_start_func_at_index(tape, file.strings[r.name + 1], r.index, FALSE)

ReadRefs(file, tape, refs) == FoldLeft(LAMBDA t, r : ReadRef(file, t, r), tape, refs)

ReadClass(file, tape, c) ==
    tape_end_class_at_index(
        ReadRefs(file, tape_start_class_at_index(tape, file.strings[c.name + 1],
                                                 c.start), c.methods), c.end)

tape_read_binary(file) ==
    LET named == tape_module(tape_create, file.strings[1])
        classes == FoldLeft(LAMBDA t, c : ReadClass(file, t, c),
                            ReadRefs(file, named, file.refs), file.classes)
    IN  IF \E i \in DOMAIN file.ins : WrongWidth(file, file.ins[i])
        THEN [tape_create EXCEPT !.ok = FALSE]
        ELSE [classes EXCEPT !.ins = [i \in 1 .. Len(file.ins) |->
                                         deserialize_ins(file, file.ins[i])]]
=============================================================================
