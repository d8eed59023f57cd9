------------------------------ MODULE TapeFiles ------------------------------
(***************************************************************************)
(* A tape on its way through a file: program/tape.c and tape_binary.c with *)
(* a step for each turn of their loops.  A tape is built by any row of the *)
(* calls that the producers and the optimizer make, written as text or as  *)
(* bytecode, and read back.  The operations are those of Tape.             *)
(*                                                                         *)
(* i and j are the counters of the loop that runs and of the one inside;   *)
(* while a tape is built i counts the calls.                               *)
(* Where the code calls ERROR the tape's ok is FALSE and nothing follows.  *)
(***************************************************************************)
EXTENDS Tape, FiniteSets

CONSTANTS Identifiers,     \* names of modules, functions, classes and fields
          Instructions,
          MaxCalls         \* the calls a tape is built with

\* What is used as a name is a name; an instruction is what its fields say.
ASSUME IdentifierAssumption == UNSET \notin Identifiers
ASSUME InstructionAssumption ==
    \A ins \in Instructions :
        /\ ins = [op |-> ins.op, arg |-> ins.arg, id |-> ins.id, n |-> ins.n]
        /\ IF HasName(ins) THEN ins.id \in Identifiers ELSE ins.id = ""

VARIABLES
    stage,     \* the loop that runs
    tape,      \* the tape in memory
    i, j,
    w,         \* where tape_write is, with the lines it has written
    todo,      \* the lines that are still to be read
    table,     \* the names of the bytecode and their indices
    file,      \* the bytecode
    read       \* the tape that is read

vars == <<stage, tape, i, j, w, todo, table, file, read>>

NoFile == [strings |-> <<>>, refs |-> <<>>, classes |-> <<>>, ins |-> <<>>]

Init ==
    /\ stage = "build" /\ tape = tape_create /\ i = 0 /\ j = 0
    /\ w = Writer /\ todo = <<>>
    /\ table = EmptyTable /\ file = NoFile /\ read = tape_create

-----------------------------------------------------------------------------
(* Building.                                                                *)

Building(t) ==
    /\ stage = "build" /\ tape.ok /\ i < MaxCalls
    /\ tape' = t /\ i' = i + 1
    /\ UNCHANGED <<stage, j, w, todo, table, file, read>>

\* The name comes first, in _oh_resolve as in the producer of a module.
NameModule == \E name \in Identifiers \cup {"$"} :
    tape = tape_create /\ Building(tape_module(tape, name))

AddInstruction == \E ins \in Instructions :
    Building(tape_add(tape, ins))

StartFunction == \E name \in Identifiers, is_async \in BOOLEAN :
    Building(_tape_start_func(tape, name, is_async))

\* The grammar has no class inside a class.
StartClass == \E name \in Identifiers :
    tape.current_class = 0 /\ Building(tape_start_class(tape, name))

AddField == \E name \in Identifiers : Building(tape_field(tape, name))

EndClass == Building(tape_end_class(tape))

\* Code up to the label of a function without a name, which no other label has.
AppendStatement ==
    \E ins \in Instructions, name \in Identifiers, is_async \in BOOLEAN :
        /\ ~Named(tape.functions, name)
        /\ Building(tape_append(tape,
               [tape_create EXCEPT !.ins = <<ins>>,
                                   !.functions = <<FunctionRef(name, 1, is_async)>>]))

-----------------------------------------------------------------------------
(* The text.                                                                *)

StartText ==
    /\ stage = "build" /\ tape.ok /\ tape.current_class = 0
    /\ stage' = "write_text" /\ i' = 0
    /\ w' = [Writer EXCEPT !.lines = Header(tape)]
    /\ UNCHANGED <<tape, j, todo, table, file, read>>

\* What is written at an index, after the instruction of the index before.
WriteIndex ==
    /\ stage = "write_text" /\ i <= tape_size(tape)
    /\ w' = WriteAt(tape, w, i) /\ i' = i + 1
    /\ UNCHANGED <<stage, tape, j, todo, table, file, read>>

\* tape_read looks at the first token without asking if there is one.
StartReading ==
    /\ stage = "write_text" /\ i > tape_size(tape) /\ w.lines # <<>>
    /\ stage' = "read_text"
    /\ read' = tape_read_module(w.lines)
    /\ todo' = IF IsNamed(w.lines) THEN Tail(w.lines) ELSE w.lines
    /\ UNCHANGED <<tape, i, j, w, table, file>>

ReadLine(t, line) ==
    IF line.k = "ins" THEN tape_add(t, line.ins[1]) ELSE tape_read_ins(t, line, tape_size(t))

ReadNext ==
    /\ stage = "read_text" /\ todo # <<>> /\ read.ok
    /\ read' = ReadLine(read, Head(todo)) /\ todo' = Tail(todo)
    /\ UNCHANGED <<stage, tape, i, j, w, table, file>>

EndText ==
    /\ stage = "read_text" /\ todo = <<>> /\ read.ok
    /\ stage' = "from_text"
    /\ UNCHANGED <<tape, i, j, w, todo, table, file, read>>

-----------------------------------------------------------------------------
(* Writing the bytecode.  A module that is not named is not written.        *)

Goto(next) == stage' = next /\ i' = 1 /\ j' = 1

StartBytecode ==
    /\ stage = "build" /\ tape.ok /\ tape.current_class = 0 /\ tape.module # UNSET
    /\ Goto("intern_classes")
    /\ table' = _insert_string(EmptyTable, tape.module)
    /\ UNCHANGED <<tape, w, todo, file, read>>

InternClass ==
    /\ stage = "intern_classes" /\ i <= Len(tape.classes)
    /\ LET names == ClassNames(tape.classes[i])
       IN  IF j <= Len(names)
           THEN table' = _insert_string(table, names[j]) /\ j' = j + 1 /\ UNCHANGED i
           ELSE i' = i + 1 /\ j' = 1 /\ UNCHANGED table
    /\ UNCHANGED <<stage, tape, w, todo, file, read>>

InternFunction ==
    /\ stage = "intern_functions" /\ i <= Len(tape.functions)
    /\ table' = _insert_string(table, tape.functions[i].name) /\ i' = i + 1
    /\ UNCHANGED <<stage, tape, j, w, todo, file, read>>

InternInstruction ==
    /\ stage = "intern_ins" /\ i <= tape_size(tape)
    /\ table' = IF HasName(tape.ins[i]) THEN _insert_string(table, tape.ins[i].id)
                ELSE table
    /\ i' = i + 1
    /\ UNCHANGED <<stage, tape, j, w, todo, file, read>>

EndIntern ==
    /\ \/ stage = "intern_classes" /\ i > Len(tape.classes) /\ Goto("intern_functions")
       \/ stage = "intern_functions" /\ i > Len(tape.functions) /\ Goto("intern_ins")
       \/ stage = "intern_ins" /\ i > tape_size(tape) /\ Goto("write_bytecode")
    /\ UNCHANGED <<tape, w, todo, table, file, read>>

\* The numbers of things are written in two bytes.  If one does not fit, the
\* reader takes for a number what is none, and is not followed further.
Countable(t, strings) ==
    /\ Len(strings) <= UINT16_MAX
    /\ Len(t.functions) <= UINT16_MAX /\ Len(t.classes) <= UINT16_MAX
    /\ \A c \in DOMAIN t.classes : Len(t.classes[c].functions) <= UINT16_MAX

WriteBytecode ==
    /\ stage = "write_bytecode"
    /\ file' = WriteBinary(tape, table)
    /\ IF Countable(tape, table.strings)
       THEN read' = tape_module(tape_create, file'.strings[1]) /\ Goto("read_refs")
       ELSE stage' = "garbled" /\ UNCHANGED <<i, j, read>>
    /\ UNCHANGED <<tape, w, todo, table>>

-----------------------------------------------------------------------------
(* Reading the bytecode.                                                    *)

Reading(t) == read.ok /\ read' = t /\ UNCHANGED <<tape, w, todo, table, file>>

ReadFunction ==
    /\ stage = "read_refs" /\ i <= Len(file.refs)
    /\ Reading(ReadRef(file, read, file.refs[i]))
    /\ i' = i + 1 /\ UNCHANGED <<stage, j>>

StartReadClass ==
    /\ stage = "read_classes" /\ i <= Len(file.classes)
    /\ Reading(tape_start_class_at_index(read, file.strings[file.classes[i].name + 1],
                                         file.classes[i].start))
    /\ stage' = "read_methods" /\ j' = 1 /\ UNCHANGED i

ReadMethod ==
    /\ stage = "read_methods" /\ j <= Len(file.classes[i].methods)
    /\ Reading(ReadRef(file, read, file.classes[i].methods[j]))
    /\ j' = j + 1 /\ UNCHANGED <<stage, i>>

EndReadClass ==
    /\ stage = "read_methods" /\ j > Len(file.classes[i].methods)
    /\ Reading(tape_end_class_at_index(read, file.classes[i].end))
    /\ stage' = "read_classes" /\ i' = i + 1 /\ UNCHANGED j

ReadInstruction ==
    /\ stage = "read_ins" /\ i <= Len(file.ins)
    /\ IF WrongWidth(file, file.ins[i])
       THEN stage' = "garbled" /\ Reading(read) /\ UNCHANGED <<i, j>>
       ELSE /\ Reading(tape_add(read, deserialize_ins(file, file.ins[i])))
            /\ i' = i + 1 /\ UNCHANGED <<stage, j>>

EndRead ==
    /\ \/ stage = "read_refs" /\ i > Len(file.refs) /\ Goto("read_classes")
       \/ stage = "read_classes" /\ i > Len(file.classes) /\ Goto("read_ins")
       \/ stage = "read_ins" /\ i > Len(file.ins) /\ Goto("from_bytecode")
    /\ Reading(read)

Next ==
    \/ NameModule \/ AddInstruction \/ StartFunction \/ StartClass \/ AddField
    \/ EndClass \/ AppendStatement
    \/ StartText \/ WriteIndex \/ StartReading \/ ReadNext \/ EndText
    \/ StartBytecode \/ InternClass \/ InternFunction \/ InternInstruction
    \/ EndIntern \/ WriteBytecode
    \/ ReadFunction \/ StartReadClass \/ ReadMethod \/ EndReadClass \/ ReadInstruction
    \/ EndRead

Spec == Init /\ [][Next]_vars

-----------------------------------------------------------------------------
(* Correctness.                                                             *)

Stages == {"build", "write_text", "read_text", "from_text", "intern_classes",
           "intern_functions", "intern_ins", "write_bytecode", "read_refs", "read_classes",
           "read_methods", "read_ins", "from_bytecode", "garbled"}

FunctionRefs == [name : Identifiers, index : Nat, is_async : BOOLEAN]
ClassRefs == [name : Identifiers, start_index : Nat, end_index : Nat,
              fields : Seq(Identifiers), functions : Seq(FunctionRefs)]
Tapes == [module : Identifiers \cup {"$", UNSET}, ins : Seq(Instructions),
          functions : Seq(FunctionRefs), classes : Seq(ClassRefs),
          current_class : Nat, ok : BOOLEAN]

\* What the loops work on has its type.
TypeOK ==
    /\ stage \in Stages /\ tape \in Tapes /\ i \in Nat /\ j \in Nat

\* The indices of a row of labels never go down.
Rising(refs) == \A f, g \in DOMAIN refs : f < g => refs[f].index <= refs[g].index
OnceNamed(refs) == \A f, g \in DOMAIN refs : refs[f].name = refs[g].name => f = g

EndOf(t, c) == IF c = t.current_class THEN tape_size(t) ELSE t.classes[c].end_index

\* The class c has its code, and its methods in it in their order.
ClassInOrder(t, c) ==
    LET cref == t.classes[c]
    IN  /\ cref.start_index <= EndOf(t, c) /\ EndOf(t, c) <= tape_size(t)
        /\ Rising(cref.functions)
        /\ \A m \in DOMAIN cref.functions :
              cref.functions[m].index \in cref.start_index .. EndOf(t, c)

\* Whatever calls a tape was built with: only the last class can be open, labels
\* follow each other in their lists as in the code and are inside of it, a class
\* begins where the one before has ended, and each name is used once.
InOrder(t) ==
    /\ t.current_class \in {0, Len(t.classes)}
    /\ Rising(t.functions)
    /\ \A f \in DOMAIN t.functions : t.functions[f].index <= tape_size(t)
    /\ \A c \in DOMAIN t.classes : ClassInOrder(t, c)
    /\ \A c, d \in DOMAIN t.classes : c < d => EndOf(t, c) <= t.classes[d].start_index

NamedOnce(t) ==
    /\ OnceNamed(t.functions) /\ OnceNamed(t.classes)
    /\ \A c \in DOMAIN t.classes :
          OnceNamed(t.classes[c].functions) /\ IsInjective(t.classes[c].fields)

WellFormed == tape.ok => InOrder(tape) /\ NamedOnce(tape)

-----------------------------------------------------------------------------

NotAsync(refs) == [f \in DOMAIN refs |-> FunctionRef(refs[f].name, refs[f].index, FALSE)]
KeptByText(t) ==
    [t EXCEPT !.module = IF t.module = UNSET THEN "$" ELSE t.module,
              !.functions = NotAsync(t.functions),
              !.classes = [c \in DOMAIN t.classes |->
                              [t.classes[c] EXCEPT !.functions = NotAsync(@)]]]

\* A tape that is read from text is the tape that was written, but for async: the
\* writer passes no label and the reader puts each where it was, into its class.
TextRestores == LabelsApart(tape) =>
    /\ stage = "read_text" => read.ok
    /\ stage = "from_text" => read = KeptByText(tape)

-----------------------------------------------------------------------------

NamesOf(t) ==
    {t.module} \cup {t.functions[f].name : f \in DOMAIN t.functions}
      \cup (UNION {ToSet(ClassNames(t.classes[c])) : c \in DOMAIN t.classes})
      \cup {t.ins[k].id : k \in {n \in DOMAIN t.ins : HasName(t.ins[n])}}

\* What two bytes can hold is not exceeded, and the names are not exactly as many
\* as one byte can count.
Fits(t) ==
    /\ tape_size(t) <= UINT16_MAX
    /\ Countable(t, <<>>)
    /\ Cardinality(NamesOf(t)) < UINT16_MAX
    /\ Cardinality(NamesOf(t)) # UINT8_MAX

KeptByBytecode(t) ==
    [t EXCEPT !.functions = NotAsync(t.functions),
              !.classes = [c \in DOMAIN t.classes |->
                              [t.classes[c] EXCEPT !.functions = NotAsync(@),
                                                   !.fields = <<>>]]]

\* A tape that is read from bytecode is the tape that was written, but for async
\* and fields: every index of a name is that of the name, in a width that the
\* reader expects, and every number fits.
BytecodeRestores == Fits(tape) =>
    /\ stage # "garbled"
    /\ stage \in {"read_refs", "read_classes", "read_methods", "read_ins"} => read.ok
    /\ stage = "from_bytecode" => read = KeptByBytecode(tape)

\* The index of a name is where the name is, although the first one is entered a
\* second time; the map and the list differ by that one name at most.
TableExact ==
    /\ \A s \in DOMAIN table.index :
          table.index[s] + 1 \in DOMAIN table.strings /\ table.strings[table.index[s] + 1] = s
    /\ Len(table.strings) - Cardinality(DOMAIN table.index) \in {0, 1}
=============================================================================
