----------------------------- MODULE Interpreter -----------------------------
(***************************************************************************)
(* One task of the virtual machine interpreting a tape: the loop of        *)
(* vm_execute_task (vm/virtual_machine.c), the instruction handlers it     *)
(* dispatches to, the blocks of a task (vm/process/task.c, context.c) and  *)
(* the search for a catch address.                                         *)
(*                                                                         *)
(* Values are abstracted to their type and where they come from.  What a   *)
(* variable holds and what a called function returns is the environment's  *)
(* choice, recorded in log; log is also what a program can be seen to do.  *)
(***************************************************************************)
EXTENDS Integers, Sequences

CONSTANTS Units,        \* what is run: records with a tape and an argument
          Functions,    \* the names that are bound to functions
          Objects,      \* the names that are bound to other known objects
          LookupTypes,  \* the types a variable's value may have
          CallTypes,    \* the types a call's result may have, or "error"
          MaxEvents     \* bound on the length of log

VARIABLES unit,    \* the unit that runs
          ctxs,    \* the task's blocks, the innermost, task->current, last
          loose,   \* <<>>, or the block in the variable `context` of
                   \* vm_execute_task when it is no longer one of ctxs
          stack,   \* task->entity_stack
          resval,  \* task->resval
          state,   \* task->state: "running", "complete" or "error"
          phase,   \* "check": at the head of the loop; "run": at the switch
          log      \* what the program did, and what the environment chose

vars == <<unit, ctxs, loose, stack, resval, state, phase, log>>

-----------------------------------------------------------------------------
(* Instructions and values.                                                *)

Instruction == [op : STRING, arg : {"no", "id", "int", "str"}, id : STRING, n : Int]

ASSUME UnitAssumption ==
    /\ \A u \in Units : u.tape \in Seq(Instruction)
    /\ MaxEvents \in Nat

Value(t, id, n, of) == [t |-> t, id |-> id, n |-> n, of |-> of]
NONE_ENTITY == Value("none", "", 0, <<>>)
ErrorObject == Value("err", "", 0, <<>>)
entity_int(n) == Value("int", "", n, <<>>)
IsPrimitive(v) == v.t \in {"int", "prim"}
IsObject(v) == v.t \notin {"none", "int", "prim"}
Truth(b) == IF b THEN entity_int(1) ELSE NONE_ENTITY

Event(k, id, v, out) == [k |-> k, id |-> id, v |-> v, out |-> out]

-----------------------------------------------------------------------------
(* Blocks.                                                                 *)

context_init(ins) == [ins |-> ins, catch |-> -1, error |-> FALSE]

\* The local variable `context` of vm_execute_task.
Ctx == IF loose = <<>> THEN ctxs[Len(ctxs)] ELSE loose[1]

SetContext(c) ==
    IF loose = <<>>
    THEN ctxs' = [ctxs EXCEPT ![Len(ctxs)] = c] /\ UNCHANGED loose
    ELSE loose' = <<c>> /\ UNCHANGED ctxs

InTape == Ctx.ins \in 0 .. Len(unit.tape) - 1
Ins == unit.tape[Ctx.ins + 1]

At(ops) == state = "running" /\ phase = "run" /\ InTape /\ Ins.op \in ops

\* The end of an instruction: context->ins++, after a jump if there is one,
\* with an error in the context if the instruction raised one.
Advance(jump, raised) ==
    SetContext([Ctx EXCEPT !.ins = @ + jump + 1, !.error = @ \/ raised])

Finish(stk, res, jump, events) ==
    /\ stack' = stk
    /\ resval' = res
    /\ Advance(jump, FALSE)
    /\ log' = log \o events
    /\ phase' = "check"
    /\ UNCHANGED <<unit, state>>

raise_error(stk, events) ==
    /\ stack' = stk
    /\ resval' = ErrorObject
    /\ Advance(0, TRUE)
    /\ log' = log \o events
    /\ phase' = "check"
    /\ UNCHANGED <<unit, state>>

Top == stack[Len(stack)]
Second == stack[Len(stack) - 1]
Drop(k) == SubSeq(stack, 1, Len(stack) - k)

-----------------------------------------------------------------------------
(* The environment.                                                        *)

\* The last thing the program did was to set the variable.
JustSet(id) ==
    /\ log # <<>>
    /\ log[Len(log)].k \in {"set", "let"} /\ log[Len(log)].id = id

\* The values a variable may have, each with what it adds to log.  The value
\* of one that was just set is known.
context_lookup(id) ==
    IF id \in Functions \cup Objects
    THEN {[v |-> Value(IF id \in Functions THEN "fn" ELSE "obj", id, 0, <<>>),
           e |-> <<>>]}
    ELSE IF JustSet(id)
    THEN {[v |-> log[Len(log)].v[1], e |-> <<>>]}
    ELSE {[v |-> Value(t, id, 0, <<>>), e |-> <<Event("get", id, <<>>, t)>>] :
             t \in IF Len(log) < MaxEvents THEN LookupTypes ELSE {}}

\* A call that was made: a native function has returned when the handler
\* returns; otherwise the task waits, and goes on in its current block.
Called(stk, id, v) ==
    /\ Len(log) < MaxEvents
    /\ \E t \in CallTypes, native \in BOOLEAN :
         /\ log' = Append(log, Event("call", id, v, t))
         /\ resval' = IF t = "error" THEN ErrorObject
                                     ELSE Value(t, id, 0, <<>>)
         /\ IF native \/ loose = <<>>
            THEN Advance(0, t = "error")
            ELSE /\ loose' = <<>>
                 /\ ctxs' = [ctxs EXCEPT ![Len(ctxs)].error = (t = "error")]
    /\ stack' = stk
    /\ phase' = "check"
    /\ UNCHANGED <<unit, state>>

-----------------------------------------------------------------------------
(* The instructions.                                                       *)

_execute_RES ==
    /\ At({"RES"})
    /\ \/ Ins.arg = "no" /\ Len(stack) >= 1 /\ Finish(Drop(1), Top, 0, <<>>)
       \/ /\ Ins.arg = "id"
          /\ \E r \in context_lookup(Ins.id) : Finish(stack, r.v, 0, r.e)
       \/ Ins.arg = "int" /\ Finish(stack, entity_int(Ins.n), 0, <<>>)
       \/ Ins.arg = "str" /\ Finish(stack, Value("obj", Ins.id, 0, <<>>), 0, <<>>)

_execute_PEEK ==
    /\ At({"PEEK"}) /\ Len(stack) >= 1
    /\ Finish(stack, Top, 0, <<>>)

_execute_DUP ==
    /\ At({"DUP"}) /\ Len(stack) >= 1
    /\ Finish(Append(stack, Top), resval, 0, <<>>)

_execute_PUSH ==
    /\ At({"PUSH"})
    /\ \/ Ins.arg = "no" /\ Finish(Append(stack, resval), resval, 0, <<>>)
       \/ /\ Ins.arg = "id"
          /\ \E r \in context_lookup(Ins.id) :
               Finish(Append(stack, r.v), resval, 0, r.e)
       \/ /\ Ins.arg = "int"
          /\ Finish(Append(stack, entity_int(Ins.n)), resval, 0, <<>>)

_execute_PNIL ==
    At({"PNIL"}) /\ Finish(Append(stack, NONE_ENTITY), resval, 0, <<>>)

_execute_RNIL ==
    At({"RNIL"}) /\ Finish(stack, NONE_ENTITY, 0, <<>>)

_execute_FLD ==
    /\ At({"FLD"})
    /\ IF ~IsObject(resval)
       THEN raise_error(stack, <<>>)
       ELSE /\ Len(stack) >= 1
            /\ Finish(Drop(1), resval, 0,
                      <<Event("fld", Ins.id, <<resval, Top>>, "")>>)

_execute_LET ==
    At({"LET"}) /\ Finish(stack, resval, 0,
                          <<Event("let", Ins.id, <<resval>>, "")>>)

_execute_SET ==
    At({"SET"}) /\ Finish(stack, resval, 0,
                          <<Event("set", Ins.id, <<resval>>, "")>>)

_execute_GET ==
    /\ At({"GET"})
    /\ IF ~IsObject(resval)
       THEN raise_error(stack, <<>>)
       ELSE /\ Len(log) < MaxEvents
            /\ \E t \in LookupTypes :
                 Finish(stack, Value(t, Ins.id, 0, <<>>), 0,
                        <<Event("field", Ins.id, <<resval>>, t)>>)

\* Emitted by the optimizer for GET and PUSH: the result stays the object.
_execute_GTSH ==
    /\ At({"GTSH"})
    /\ IF ~IsObject(resval)
       THEN raise_error(stack, <<>>)
       ELSE /\ Len(log) < MaxEvents
            /\ \E t \in LookupTypes :
                 Finish(Append(stack, Value(t, Ins.id, 0, <<>>)), resval, 0,
                        <<Event("field", Ins.id, <<resval>>, t)>>)

\* The methods that a foreach statement calls take no argument: what happens
\* to be in resval is passed and ignored.
Argument == IF Ins.op = "CLLN" \/ Ins.id \in {"iter", "has_next", "next"}
            THEN <<>> ELSE <<resval>>

_execute_CALL ==
    /\ At({"CALL", "CLLN"}) /\ Len(stack) >= 1
    /\ \/ /\ Ins.arg = "id"
          /\ IF IsObject(Top) THEN Called(Drop(1), Ins.id, <<Top>> \o Argument)
                              ELSE raise_error(Drop(1), <<>>)
       \/ /\ Ins.arg = "no"
          /\ IF Top.t = "fn" THEN Called(Drop(1), Top.id, Argument)
                             ELSE raise_error(Drop(1), <<>>)

\* Only futures are waited for.
_execute_WAIT ==
    /\ At({"WAIT"})
    /\ IF resval.t = "future" THEN Called(stack, "await", <<resval>>)
                              ELSE Finish(stack, resval, 0, <<>>)

_execute_RET ==
    /\ At({"RET"})
    /\ log' = Append(log, Event("ret", "", <<resval>>, ""))
    /\ Advance(0, FALSE)
    /\ state' = "complete"
    /\ UNCHANGED <<unit, stack, resval, phase>>

_execute_EXIT ==
    /\ At({"EXIT"}) /\ Ins.arg = "int"
    /\ resval' = entity_int(Ins.n)
    /\ Advance(0, FALSE)
    /\ state' = "complete"
    /\ UNCHANGED <<unit, stack, phase, log>>

_execute_NBLK ==
    /\ At({"NBLK"})
    /\ ctxs' = Append(ctxs, context_init(Ctx.ins + 1))
    /\ loose' = <<>>
    /\ phase' = "check"
    /\ UNCHANGED <<unit, stack, resval, state, log>>

\* task_back_context gives the instruction position of the block it leaves to
\* the block it returns to.
_execute_BBLK ==
    /\ At({"BBLK"}) /\ Len(ctxs) > 1
    /\ ctxs' = [SubSeq(ctxs, 1, Len(ctxs) - 1) EXCEPT
                  ![Len(ctxs) - 1].ins = ctxs[Len(ctxs)].ins + 1]
    /\ loose' = <<>>
    /\ phase' = "check"
    /\ UNCHANGED <<unit, stack, resval, state, log>>

_execute_JMP == At({"JMP"}) /\ Finish(stack, resval, Ins.n, <<>>)

_execute_IF ==
    /\ At({"IF", "IFN"})
    /\ LET is_false == resval.t = "none"
       IN  Finish(stack, resval,
                  IF is_false = (Ins.op = "IFN") THEN Ins.n ELSE 0, <<>>)

BinaryOps == {"ADD", "SUB", "MULT", "DIV", "MOD", "BAND", "BXOR", "BOR"}
CompareOps == {"LT", "GT", "LTE", "GTE"}

\* With a number in the instruction the left operand is the result, and the
\* stack is not used.  Otherwise the right operand is popped and checked
\* before the left one.
PrimitiveOp(ops, Use(_, _)) ==
    /\ At(ops)
    /\ IF Ins.arg = "int"
       THEN IF ~IsPrimitive(resval) THEN raise_error(stack, <<>>)
                                    ELSE Use(stack, <<resval, entity_int(Ins.n)>>)
       ELSE /\ Len(stack) >= 1
            /\ IF ~IsPrimitive(Top)
               THEN raise_error(Drop(1), <<>>)
               ELSE /\ Len(stack) >= 2
                    /\ IF ~IsPrimitive(Second) THEN raise_error(Drop(2), <<>>)
                                               ELSE Use(Drop(2), <<Second, Top>>)

_execute_ADD ==
    PrimitiveOp(BinaryOps \ {"BOR"}, LAMBDA stk, v :
        Finish(stk, Value("prim", Ins.op, 0, v), 0, <<>>))

_execute_LT ==
    PrimitiveOp(CompareOps, LAMBDA stk, v :
        /\ Len(log) < MaxEvents
        /\ \E t \in {"none", "prim"} :
             Finish(stk, IF t = "none" THEN NONE_ENTITY
                                       ELSE Value(t, Ins.op, 0, v),
                    0, <<Event("compare", Ins.op, v, t)>>))

\* `a | b` on objects chooses the first that is not None.
_execute_BOR_with_obj ==
    /\ At({"BOR"}) /\ Len(stack) >= 2
    /\ IF ~IsPrimitive(Second)
       THEN Finish(Drop(2), IF Second.t = "none" THEN Top ELSE Second, 0, <<>>)
       ELSE IF ~IsPrimitive(Top)
            THEN raise_error(Drop(1), <<>>)
            ELSE Finish(Drop(2), Value("prim", "BOR", 0, <<Second, Top>>), 0, <<>>)

\* Whether two primitives are equal.
primitive_equals(stk, v) ==
    IF v[1].t = "int" /\ v[2].t = "int"
    THEN Finish(stk, Truth((v[1].n = v[2].n) = (Ins.op = "EQ")), 0, <<>>)
    ELSE /\ Len(log) < MaxEvents
         /\ \E b \in BOOLEAN :
              Finish(stk, Truth(b), 0,
                     <<Event("compare", Ins.op, v, IF b THEN "prim" ELSE "none")>>)

\* With a number in the instruction the left operand, the result, must be
\* primitive.
_execute_EQ ==
    /\ At({"EQ", "NEQ"})
    /\ IF Ins.arg = "int"
       THEN IF ~IsPrimitive(resval)
            THEN raise_error(stack, <<>>)
            ELSE primitive_equals(stack, <<resval, entity_int(Ins.n)>>)
       ELSE /\ Len(stack) >= 2
            /\ IF IsObject(Second)
               THEN Called(Drop(2), Ins.op, <<Second, Top>>)
               ELSE IF ~IsPrimitive(Top) \/ ~IsPrimitive(Second)
               THEN raise_error(Drop(2), <<>>)
               ELSE primitive_equals(Drop(2), <<Second, Top>>)

_execute_NOT ==
    At({"NOT"}) /\ Finish(stack, Truth(resval.t = "none"), 0, <<>>)

\* Only functions stand for classes here.
_execute_IS ==
    /\ At({"IS"}) /\ Len(stack) >= 2
    /\ IF Top.t # "fn"
       THEN raise_error(Drop(2), <<>>)
       ELSE IF ~IsObject(Second)
       THEN Finish(Drop(2), NONE_ENTITY, 0, <<>>)
       ELSE /\ Len(log) < MaxEvents
            /\ \E b \in BOOLEAN :
                 Finish(Drop(2), Truth(b), 0,
                        <<Event("is", Top.id, <<Second>>,
                                IF b THEN "prim" ELSE "none")>>)

\* The first element of an array or a tuple is the one popped first.
NewSequence(t) ==
    LET k == IF Ins.arg = "int" THEN Ins.n ELSE 0
    IN  /\ Len(stack) >= k
        /\ Finish(Drop(k),
                  Value(t, "", k, [i \in 1 .. k |-> stack[Len(stack) + 1 - i]]),
                  0, <<>>)

_execute_ANEW == At({"ANEW"}) /\ NewSequence("array")
_execute_TUPL == At({"TUPL"}) /\ NewSequence("tuple")

\* What an index of unknown value does is the environment's choice.
IndexChoice(stk, id, v, Use(_)) ==
    /\ Len(log) < MaxEvents
    /\ \E t \in LookupTypes \cup {"error"} :
         LET e == <<Event("index", id, v, t)>>
         IN  IF t = "error" THEN raise_error(stk, e)
                            ELSE Finish(stk, Use(t), 0, e)

\* An element of an array or a tuple; objects of other classes have a method
\* for it.
_execute_AIDX ==
    /\ At({"AIDX"}) /\ Len(stack) >= 1
    /\ IF ~IsObject(Top)
       THEN raise_error(Drop(1), <<>>)
       ELSE IF Top.t \notin {"array", "tuple"}
       THEN Called(Drop(1), "AIDX", <<Top, resval>>)
       ELSE IF resval.t = "prim"
       THEN IndexChoice(Drop(1), "AIDX", <<Top, resval>>,
                        LAMBDA t : Value(t, "AIDX", 0, <<>>))
       ELSE IF resval.t = "int" /\ resval.n \in 0 .. Len(Top.of) - 1
       THEN Finish(Drop(1), Top.of[resval.n + 1], 0, <<>>)
       ELSE raise_error(Drop(1), <<>>)

_execute_ASET ==
    /\ At({"ASET"}) /\ Len(stack) >= 2
    /\ IF ~IsObject(Top)
       THEN raise_error(Drop(2), <<>>)
       ELSE IF Top.t # "array"
       THEN Called(Drop(2), "ASET",
                   <<Top, Value("tuple", "", 2, <<resval, Second>>)>>)
       ELSE IF resval.t = "prim"
       THEN IndexChoice(Drop(2), "ASET", <<Top, resval, Second>>,
                        LAMBDA t : resval)
       ELSE IF resval.t = "int" /\ resval.n >= 0
       THEN Finish(Drop(2), resval, 0,
                   <<Event("aset", "", <<Top, resval, Second>>, "")>>)
       ELSE raise_error(Drop(2), <<>>)

_execute_TLEN ==
    /\ At({"TLEN"}) /\ Len(stack) >= 1
    /\ Finish(stack, entity_int(IF Top.t = "tuple" THEN Len(Top.of) ELSE -1),
              0, <<>>)

_execute_TGTE ==
    /\ At({"TGTE"})
    /\ Finish(stack,
              Truth(IF Ins.n = 1 THEN resval.t # "none"
                    ELSE resval.t = "tuple" /\ Len(resval.of) >= Ins.n),
              0, <<>>)

_execute_TGET ==
    /\ At({"TGET"})
    /\ IF resval.t # "tuple"
       THEN IF Ins.n = 0 THEN Finish(stack, resval, 0, <<>>)
                         ELSE raise_error(stack, <<>>)
       ELSE IF Ins.n \in 0 .. Len(resval.of) - 1
            THEN Finish(stack, resval.of[Ins.n + 1], 0, <<>>)
            ELSE raise_error(stack, <<>>)

_execute_CTCH ==
    /\ At({"CTCH"})
    /\ SetContext([Ctx EXCEPT !.ins = @ + 1, !.catch = Ctx.ins + Ins.n + 1])
    /\ phase' = "check"
    /\ UNCHANGED <<unit, stack, resval, state, log>>

\* Raising something that is not an Error raises an Error about that.
_execute_RAIS == At({"RAIS"}) /\ raise_error(stack, <<>>)

-----------------------------------------------------------------------------
(* What ends the program: an ASSERT on the size of the stack or on the      *)
(* position in the tape, the ERROR of a handler that does not expect its    *)
(* argument, an instruction the switch does not know, the use of the block  *)
(* below the last one.  No action is taken from there.                     *)

Known == {"RES", "PEEK", "DUP", "PUSH", "PNIL", "RNIL", "FLD", "LET", "SET",
          "GET", "GTSH", "CALL", "CLLN", "WAIT", "RET", "EXIT", "NBLK", "BBLK", "JMP",
          "IF", "IFN", "EQ", "NEQ", "NOT", "IS", "ANEW", "TUPL", "AIDX", "ASET",
          "TLEN", "TGTE", "TGET", "CTCH", "RAIS"} \cup BinaryOps \cup CompareOps

Pops ==
    CASE Ins.op \in {"EQ", "NEQ"} \cup (BinaryOps \ {"BOR"}) \cup CompareOps
           /\ Ins.arg = "int" -> 0
      [] Ins.op = "RES" -> IF Ins.arg = "no" THEN 1 ELSE 0
      [] Ins.op \in {"PEEK", "DUP", "CALL", "CLLN", "AIDX", "TLEN"} -> 1
      [] Ins.op = "FLD" -> IF IsObject(resval) THEN 1 ELSE 0
      [] Ins.op \in {"EQ", "NEQ", "IS", "ASET", "BOR"} -> 2
      [] Ins.op \in (BinaryOps \ {"BOR"}) \cup CompareOps ->
            IF stack # <<>> /\ ~IsPrimitive(Top) THEN 1 ELSE 2
      [] Ins.op \in {"ANEW", "TUPL"} -> IF Ins.arg = "int" THEN Ins.n ELSE 0
      [] OTHER -> 0

Aborts ==
    \/ ~InTape
    \/ Ins.op \notin Known
    \/ Len(stack) < Pops
    \/ Ins.op = "EXIT" /\ Ins.arg # "int"
    \/ Ins.op = "BBLK" /\ Len(ctxs) = 1

Aborted == state = "running" /\ phase = "run" /\ Aborts

-----------------------------------------------------------------------------
(* The head of the loop.                                                    *)

Catching == {i \in 1 .. Len(ctxs) - 1 : ctxs[i].catch >= 0}

\* Mutant: a block that is left joins the ones left before.
CatchKeepsLeft ==
    IF Ctx.catch >= 0
    THEN /\ SetContext([ins |-> Ctx.catch, catch |-> -1, error |-> FALSE])
         /\ phase' = "run" /\ UNCHANGED state
    ELSE IF Catching = {}
    THEN state' = "error" /\ ctxs' = <<>> /\ loose' = <<Ctx>> /\ UNCHANGED phase
    ELSE \E j \in Catching :
           /\ \A i \in Catching : i <= j
           /\ ctxs' = [SubSeq(ctxs, 1, j) EXCEPT
                         ![j] = [ins |-> @.catch, catch |-> -1, error |-> FALSE]]
           /\ loose' = Append(loose, Ctx)
           /\ phase' = "run" /\ UNCHANGED state

\* Mutant: the error is not cleared at the catch address.
CatchKeepsError ==
    IF Ctx.catch >= 0
    THEN /\ SetContext([ins |-> Ctx.catch, catch |-> -1, error |-> TRUE])
         /\ phase' = "run" /\ UNCHANGED state
    ELSE state' = "error" /\ ctxs' = <<>> /\ loose' = <<Ctx>> /\ UNCHANGED phase

\* Mutant: without a catch address the blocks are not left.
CatchKeepsBlocks ==
    IF Ctx.catch >= 0
    THEN /\ SetContext([ins |-> Ctx.catch, catch |-> -1, error |-> FALSE])
         /\ phase' = "run" /\ UNCHANGED state
    ELSE state' = "error" /\ UNCHANGED <<ctxs, loose, phase>>

\* task_back_context leaves the current block before it is asked for the next
\* one, so without a catch address of its own the block that runs looks below
\* the current block.  The variable `context` of vm_execute_task keeps
\* pointing to the block that runs.
_attemp_catch_error ==
    IF Ctx.catch >= 0
    THEN /\ SetContext([ins |-> Ctx.catch, catch |-> -1, error |-> FALSE])
         /\ phase' = "run"
         /\ UNCHANGED state
    ELSE IF Catching = {}
    THEN /\ state' = "error"
         /\ ctxs' = <<>>
         /\ loose' = <<Ctx>>
         /\ UNCHANGED phase
    ELSE \E j \in Catching :
           /\ \A i \in Catching : i <= j
           /\ ctxs' = [SubSeq(ctxs, 1, j) EXCEPT
                         ![j] = [ins |-> @.catch, catch |-> -1, error |-> FALSE]]
           /\ loose' = <<Ctx>>
           /\ phase' = "run"
           /\ UNCHANGED state

\* Mutant: a block without a catch address goes on with its error.
CheckErrorHere ==
    /\ state = "running" /\ phase = "check"
    /\ IF Ctx.error /\ Ctx.catch >= 0
       THEN _attemp_catch_error
       ELSE phase' = "run" /\ UNCHANGED <<ctxs, loose, state>>
    /\ UNCHANGED <<unit, stack, resval, log>>

CheckError ==
    /\ state = "running" /\ phase = "check"
    /\ IF Ctx.error
       THEN _attemp_catch_error
       ELSE phase' = "run" /\ UNCHANGED <<ctxs, loose, state>>
    /\ UNCHANGED <<unit, stack, resval, log>>

-----------------------------------------------------------------------------

Init ==
    /\ unit \in Units
    /\ ctxs = <<context_init(0)>>
    /\ loose = <<>>
    /\ stack = <<>>
    /\ resval = unit.arg
    /\ state = "running"
    /\ phase = "check"
    /\ log = <<>>

vm_execute_task ==
    \/ CheckError     \/ _execute_RES   \/ _execute_PEEK  \/ _execute_DUP
    \/ _execute_PUSH  \/ _execute_PNIL  \/ _execute_RNIL  \/ _execute_FLD
    \/ _execute_LET   \/ _execute_SET   \/ _execute_GET   \/ _execute_GTSH  \/ _execute_CALL
    \/ _execute_WAIT  \/ _execute_RET   \/ _execute_EXIT  \/ _execute_NBLK
    \/ _execute_BBLK  \/ _execute_JMP   \/ _execute_IF    \/ _execute_ADD
    \/ _execute_LT    \/ _execute_BOR_with_obj            \/ _execute_EQ
    \/ _execute_NOT   \/ _execute_IS    \/ _execute_ANEW  \/ _execute_TUPL
    \/ _execute_AIDX  \/ _execute_ASET  \/ _execute_TLEN  \/ _execute_TGTE
    \/ _execute_TGET  \/ _execute_CTCH  \/ _execute_RAIS

Spec == Init /\ [][vm_execute_task]_vars

-----------------------------------------------------------------------------
(* Properties.                                                             *)

Block == [ins : Int, catch : Int, error : BOOLEAN]

\* Types of the control state.  Operands and results are not typed: tuples
\* nest without bound.
TypeOK ==
    /\ unit.tape \in Seq(Instruction)
    /\ ctxs \in Seq(Block)
    /\ loose \in Seq(Block) /\ Len(loose) <= 1
    /\ state \in {"running", "complete", "error"}
    /\ phase \in {"check", "run"}

\* An error is always that of the block that runs: no block under it has one,
\* so leaving a block never returns to one whose error nobody looked at; and
\* while vm_execute_task runs a block that the search for a catch address has
\* left, no block of the task has one (task_back_context,
\* _attemp_catch_error).
NoErrorBelow ==
    \A i \in 1 .. Len(ctxs) :
        i < Len(ctxs) \/ loose # <<>> => ~ctxs[i].error

\* In the task's current block an instruction runs only when no error is
\* pending there: not after the raising instruction, nor after a call that
\* failed, nor at a catch address (vm_execute_task, the check at the head of
\* the loop).
ErrorBeforeInstruction ==
    state = "running" /\ phase = "run" /\ loose = <<>> => ~ctxs[Len(ctxs)].error

\* A task is in some block until it ends in error, and ends in error only
\* after every block has been left in search of a catch address (task.c,
\* task_back_context).
BlocksUntilError == (ctxs = <<>>) <=> (state = "error")
=============================================================================
