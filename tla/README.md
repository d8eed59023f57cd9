# A TLA+ model of jeff-vm

jeff-vm compiles programs of a small object-oriented language to a tape of
instructions and runs them in a virtual machine with tasks, futures, processes
and background threads. This directory models the whole way of a program, from
its tokens through parser, code generation, optimizer and file formats to the
interpreter, and the scheduling of tasks on processes and worker threads; checks
the models with TLC, and proves with TLAPS the safety properties of the pool, the
scheduler and the interpreter, and that both kinds of files restore the tape that
was written to them, for every size of the system.

## Inventory

| Component | State | Operations | What makes it correct |
|---|---|---|---|
| Background pool (`util/sync`) | semaphore, queue of work, a local variable per worker | create, execute, the worker loop | no work is lost, run twice or left behind; order of submission |
| Scheduler (`vm/virtual_machine.c`, `vm/process`, `entity/native/async.c`, `entity/native/process.c`) | per process: queue, waiting set, completed set, condition; per task: state, result, dependents, error flag | run the queue, call, async call, background call, await, create process, complete a task, fail, end | every wait for a task that finishes ends, with that task's result; a task is scheduled once; a process ends when and only when its tasks are done |
| Interpreter (`vm/virtual_machine.c`, `vm/process/context.c`) | a stack of contexts with instruction pointer, catch address and error; an entity stack | one handler per instruction | blocks are balanced, an error reaches the innermost try of its task |
| Parser (`lang/parser/parser.c`) | the lexer's queue of tokens, the call stack of productions, partial trees | match, reject and push back, merge | what is written is understood as it was meant; no token is lost or reordered |
| Code generation (`lang/semantics/expressions`) | an expression tree, a tape under construction | one populator and one producer per syntactic form | the tree is the one written; the tape does what it says |
| Optimizer (`program/optimization`) | a tape, its jump targets, a list of adjustments | fourteen registered peephole passes, resolution | the optimized tape does what the tape did |
| Tape (`program/tape.c`, `tape_binary.c`) | instructions, classes, functions | build, append, write and read as text and binary | reading gives back what was written |
| Module manager (`vm/module_manager.c`) | registered modules, loaded flag, classes to hydrate | register, load, hydrate, initialise | a module is loaded and initialised once, classes after their superclasses |
| Heap (`heap/heap.c`) | objects and counted edges | set members and elements, copy between processes | the edges are exactly the references |
| Lexer, arguments, entities, native libraries, front ends | | | sequential; data for the parts above |

The components interact as follows. `run` creates the VM, loads the main module
through the module manager (lexer, parser, code generation, optimizer), queues
a task at its first instruction and calls `process_run` on the main process.
`process_run` takes tasks from the queue and interprets them until they wait,
return or fail. A call creates a task in the same process; a native background
function goes to the pool, whose workers run the function and then, as the
callback, complete the task from their own thread: they write the dependents'
results and put them into the queues of their processes. `create_process`
starts another process in a thread of its own, with a first task whose parent is
the calling task.

What is hard here: the worker threads and other process threads touch the
states, dependents, results and queues of tasks without a common lock; the
completion of a task races the task that is about to wait for it; a process has
to notice that it is done, and that it is not; errors travel by a flag on the
parent and a result in the dependent, which need not be the same task. The
compiler has its own: a grammar of ordered alternatives with rollback, populators
that know a tree only by its production, jump distances that are sums over code
emitted elsewhere and that the optimizer rewrites, and readers and writers that
must agree on the width of every number.
`PROJECT.json` lists the hazards with their lines.

## Modules

* `WorkQueue`: what the pool promises. Abstract.
* `ThreadPool`: `util/sync/threadpool.c`. A step is a wait on the semaphore, the
  critical section of `_do_work`, the function, the callback. `INSTANCE
  WorkQueue` gives the refinement.
* `ThreadPoolProofs`: proofs about it.
* `Tasks`: what the scheduler promises to a program about the life of tasks.
  Abstract.
* `Scheduler`: `process_run`, `vm_execute_task` as far as it concerns other
  tasks, `_mark_task_complete`, the task sets, futures, background calls and
  processes. `INSTANCE Tasks` gives the refinement.
* `SchedulerProofs`: its type invariant. `SchedulerInvariants`: the inductive
  invariants behind the properties of `Scheduler`. `SchedulerTokenProofs`: what
  holds of every program, and the refinement. `SchedulerWakeupProofs`: what holds
  of programs that keep their futures to themselves, or only call.
* `Interpreter`: the loop of `vm_execute_task` for one task: blocks, errors, catch
  addresses, the operand stack, one action per instruction.
* `InterpreterProofs`: proofs about it.
* `Codegen`: the instruction producers of `lang/semantics/expressions`, from a
  tree to a tape. Recursive, so only TLC uses it.
* `Semantics`: what a tree means, independently of tapes: the calls, reads and
  assignments it makes in order and how it ends. Abstract.
* `CompiledCode`: `Codegen`, `Optimizer` and `Interpreter` composed and compared
  with `Semantics`.
* `Parser`: the grammar of `lang/parser/parser.c` as data, and the combinators as
  a machine of calls and returns that runs it.
* `Populate`: the populators, from a syntax tree to the trees of `Codegen`.
* `Tape`: `program/tape.c`, `tape_binary.c` and the serialization: building a tape,
  writing and reading both kinds of files.
* `TapeFiles`: a tape that is built, written and read back, with a step for each
  call and for each turn of the loops of the writers and readers. `TapeFilesProofs`:
  what each call does to a tape, and that a tape is well-formed. `TapeTextProofs`:
  that the text restores it. `TapeBytecodeProofs`: that the bytecode does.
* `Optimizer`: `program/optimization`: the peephole passes and the resolution of
  their adjustments.
* `SourceText`: how a tree is written down, as a row of tokens. A reference, not
  code: it says which programs the parser has to understand.
* `Compiler`: those composed: `_read_file` and `write_tape` of `compile/compile.c`
  and the loading of `vm/module_manager.c`.
* `MC_ThreadPool`, `MC_Scheduler`, `MC_CompiledCode`, `MC_Compiler`, `MC_TapeFiles`:
  the modules TLC runs; the `.cfg` files choose the instances.

### How Scheduler corresponds to the code

The fields of `struct __Task` and `struct __Process` are variables of the same
names, functions of the task or process. `pc` is where a thread is: a process
thread in `process_run` and below, a worker in `_do_work` and below. `cur` is the
task a thread executes or completes, `dep` and `todo` are the iteration of
`_mark_task_complete` over the dependents. `awaits` records the task a task last
waited for: the callee of a call, or the task of the awaited future.
`context_error` is the error field of the context a task runs in, which a
background function that raises an error writes from its worker's thread.

What a program computes is abstracted away: in state `exec` the running task may
do any operation of the constant `Ops`, raise an error of a class in `Errors`, or
return. So the runs cover every program that does at most `MaxOps` scheduling
operations per task and creates at most `MaxTask` tasks. A raise that is caught
within the task changes nothing the scheduler sees and is no step. A native
function that is not a background function returns within the instruction and is
no step either.

Blocks under a mutex are one step, as is everything a process thread does to its
own tasks between two accesses to shared data. The three steps of `WAIT` (test of
the future, insertion into the dependents, assignment of the state) and the later
insertion into the waiting set are separate, and so are the five steps of
`_mark_task_complete` for a dependent. A dependent inserted while another thread
iterates over the same set may or may not be visited.

`task_init` assigns `WAITING_TO_START` to `state` instead of `wait_reason`; its
value is that of `TASK_RUNNING`, so a task that has not started looks as if it
ran. `wait_reason` is never read and is left out.

### How Interpreter, Codegen and Semantics correspond to the code

`ctxs` is the chain of `Context`s from `task->current`, the innermost last, each
with its position, catch address and whether it has an error. `loose` exists
because of `_attemp_catch_error`: the search for a catch address moves
`task->current`, while the variable `context` of `vm_execute_task` stays on the
block that raised the error, which then runs on although the task has left it.
`phase` separates the check at the head of the loop from the instruction.

A value is its type and its origin: integers in the source keep their value,
tuples and arrays their elements, everything else is the name of the variable or
call it came from. What a variable holds, what a call returns (or that it fails)
and how an unknown comparison turns out are the environment's choices. Each is
recorded in `log` with what the program did: reads, assignments, calls with their
arguments, the result. A call runs in a task of its own, which `Scheduler` models;
here it returns or fails in one step. The result of arithmetic has a type and no
value, so a division by zero is not seen. `Pops` and `Aborts` say where an assertion
or `ERROR` of the code ends the program; no action continues from there.

The operators of `Codegen` have the names of the producers and return the tape
that the C function appends, with the same jump distances. Sums of calls such as
`tape_ins_no_arg(...) + produce_instructions(...)` are taken to be evaluated from
left to right; C does not say so and the code depends on it.

`Semantics` evaluates a tree over a sequence of choices. Given the choices a run
has made so far it yields the events the source prescribes; `MatchesSource`
compares them with `log` in every state. A variable that was just set has the
value it was set to, which the optimizers rely on when they drop a read; other
reads are the environment's choice again. Assignments to `_`, which the code makes
and no program reads, and the marks of the generator (`$try_goto`) are not compared.

A tape that the optimizers change (380 of the 1228) is run as a unit of its own
with the same tree, so `MatchesSource` and `BalancedAtExit` are also what the
optimizers have to keep. The instruction forms that no producer and no optimizer
emits are not actions.

`Supported` describes the trees that are compared. It leaves out the shapes below,
because the code does not do what they say (see the findings):
errors in a loop or try inside the block of a try; `continue` in a `while`; loop
bodies with a jump of 0 that is not a break; `break` and `continue` out of a try; a
try inside a `foreach`, or the reverse, where the operands left by a caught error
hide the iterator.

### How Compiler and its parts correspond to the code

A step of `Compiler` is a whole stage: parsing, populating, producing, optimizing,
writing, loading from the text or from a file. The stages are sequential code
without shared state, so their inner steps are operators. `refused` stands for a
call of `ERROR`, a failed `ASSERT` or a dereference of NULL, after which the
program is gone.

`Parser` works on tokens, not characters. A production of `parser.c` is an entry of
`Grammar`; `Or`, `And`, `Opt`, `Epsilon`, `Type`, `Ln` and `TypeLn` have the
names of the macros. `CallStep` and `ReturnStep` are the C calls and returns, so the
state of a parse is the queue, the frames and the partial trees, and rollback
puts tokens back onto the queue as `_match_rollback` does. The only thing added is
`CanBegin`: a production that cannot begin with the next token fails at once,
instead of after the calls that would find out; those calls take no token.
`MaxSteps = 20` bounds a parse by 2^20 steps,
which none of the texts reaches.

`Populate` has the populators under their names; a shape they do not expect is
`ErrorNode`. `Tape` counts positions from 0 as the code does; `ok` becomes false
where `tape_get` or the label functions fail their assertion. The text format is
a row of lines, each line its words; the binary format is a row of bytes of which
a name or a number is one element with its width. `optimize` runs the passes in
the order in which they are registered. `UINT8_MAX` and `UINT16_MAX` are constants;
`compiler` uses 14 for the first, so that names with one-byte and with two-byte
indices both occur in small programs.

The texts are the trees of `MC_Compiler` printed by `SourceText`, without optional
newlines and (statements and definitions) with all of them, and every row of up to
four tokens of seven types. `SourceText` writes parentheses only where the
precedence of the grammar needs them. The programs leave out what the code is known
not to do (see the other divergences): a `continue` outside a loop, more than one
anonymous function, one inside a function or method, a `return` of an expression
that begins with a parenthesis, a condition in parentheses before a brace.
`SourceRecovered` says of the programs that are left that none is refused, not even
in a part of its tree, and that the tree is the one written. `OptimizedApart` and, of
optimized tapes, `CodeOfItsOwn` leave out files with an `EmptyFunction`: one without
parameters behind a function that ends in `RET`. TLC refutes both with one.

### How TapeFiles corresponds to the code

`Compiler` writes and reads the tapes of the compiled programs, each file in one
step. `TapeFiles` takes any tape that the calls of `program/tape.c` can build, in any
order and with any names, and goes through the loops of `tape_write`, `tape_read`,
`_intern_all_strings` and `tape_read_binary` one turn at a time, so that what holds in
the middle of a loop can be stated. Both use the operators of `Tape`. `i` and `j` are
the counters of the loops, `w` is where the three iterators of `tape_write` are and what
it has written, `todo` the lines `tape_read` has not taken yet, `table` the list and the
map of names, `read` the tape that is read. `AppendStatement` is `tape_append` as
`produce_anon_function` uses it, the one caller whose label can lie in an open class.
The numbers of things are two bytes wide; a file in which one of them does not fit, or
whose reader expects another width than the writer used, is followed no further
(`garbled`).

A tape can be built that a format does not hold, and two preconditions say which can.
`LabelsApart` (text): every class has code, methods and functions of the module begin at
instructions of their own, and no function of the module begins in a class. That
it is true of what the compiler produces is part of `CodeOfItsOwn`, an invariant of the
run `compiler`, which also says that no two functions or methods, of whatever class,
begin at one instruction and that none begins behind the last one.
`Fits` (bytecode): code, functions, classes, methods and names can be counted in two
bytes, and there are not exactly `UINT8_MAX` names (see the divergences). Both are
true of most tapes TLC builds.

## Runs

| Run | Instance | Question |
|---|---|---|
| `pool` | 2 workers, 3 pieces of work | is work lost, repeated, left behind or started out of order |
| `scheduler_calls` | 4 tasks, 2 operations each, calls and errors | does the error of a callee always reach its caller as the result, and does the program end |
| `scheduler_background` | 4 tasks, 2 workers, async and background calls, await, errors | is a task scheduled twice or given a wrong result when workers complete tasks concurrently, is it in neither its queue nor the waiting set while it is resumed, is a sleeping process woken |
| `scheduler_processes` | up to 2 processes, 4 tasks, calls, async calls, await, errors | is a waiting task ever forgotten, is the waiting set exact, does a process return only when done, does each await of a finished task end, when processes share no futures |
| `compiled_code` | 1228 programs: two levels of nested statements around a call, raise, break or continue; each expression form over operands of every type; variables read where they were set; functions and constructors with up to three parameters; the 380 optimized tapes that differ; nine programs with errors below a try; 6 events | does the run do what the source says (order, values, errors, defaults), optimized or not, is every block and operand left, does every loop test its condition again; the invariants that are proved |
| `compiler` | every expression form over every other, statements two levels deep, functions, classes, annotations, imports; every row of up to four tokens | is a program understood as it was written, is a token lost, does code of one function run into another's before or after optimizing, does a file give back the module, has each function and class code of its own |
| `tape_files` | every row of up to six calls on a tape, two names, one kind of instruction, indices of one byte up to 2 and of two bytes up to 4 | is a tape well-formed whatever it is built with; does reading a file, label by label and name by name, give back the tape; is the index of a name where the name is |
| `nested_try` | the nine programs with errors below a try | finding |
| `while_continue` | a `while` with a `continue` | finding |
| `lost_wakeup` | 2 tasks, 1 worker | finding |
| `async_error` | 3 tasks | finding |
| `tape_get` | files that begin with a `while` | finding |

Four tasks are enough for a caller, the task it waits for, a second waiter and an
unrelated task; two operations per task for starting something and then waiting
for it or for something else; two workers for two completions at the same time.
Deadlock checking is off because the system stops when the main process has
returned.

For the compiled programs two levels of statements let each form be inside each
other one, first and last in its body, and a chain of three conditions exercises
every sum in `produce_if_else`. Six events are enough to enter a loop twice and
leave it; a program that comes to the bound stops there, which `RunEnds` allows.
Deadlock checking is off because programs end. A read of a variable after the block
in which it was set is not among the units.

For the compiler, each form inside each other one shows every precedence and every
pair of alternatives that begin alike; four tokens are enough for a call or a tuple
that is abandoned for an assignment and pushed back whole. A module with two
classes, functions before and behind them and a jump in each is enough for a label,
a field or a jump to land in the wrong place. Deadlock checking is off because a
compilation ends.

For the files of a tape six calls are enough for a class with a method, the end of it
and a function behind it, each with an instruction, or for two classes one after the
other. With two names each list can have a name twice (an error) and the module's name
comes back in the table; three strings are more than one byte counts (`UINT8_MAX = 2`)
and five instructions, or the names of five places, more than two bytes do
(`UINT16_MAX = 4`). Instructions without a name differ only in what is copied with
them; the run `compiler` has them. Deadlock checking is off because a file ends.

Fairness (`FairSpec`): each process thread and each worker that can run is
eventually scheduled, and native functions return. The operating system
schedules threads fairly; nothing is assumed about spurious wake-ups of the
condition variable, which are possible and never guaranteed. `FairSpec` of
`CompiledCode` is weak fairness of `vm_execute_task`: a task that runs keeps its
thread until it waits or ends.

### Findings

* `lost_wakeup`: a background function that completes between the test in `WAIT`
  and the assignment of `TASK_WAITING` never resumes the awaiting task. The same
  window explains why `NoLostWakeup`, `WaitingSetExact` and `ReturnsWhenDone` are
  checked without background functions.
* `async_error`: an async call that fails while its parent waits for another task
  fails the assertion at the beginning of `vm_execute_task`.
* `nested_try`: an error raised in a loop inside a try is not caught by it: the
  interpreter goes on in the block it has left, finds the same error again and
  searches below the block of the try.
* `while_continue`: `continue` in a `while` does not test the condition.
* `tape_get`: the pass JmpRes looks at the instruction before the target of a
  backward jump, which for a loop at the beginning of a file is instruction -1.

Other divergences, which TLC shows when the program is put into the units or the
operations of a run and which the passing runs leave out:

* an error of a subclass of `Error` fails the same assertion as in `async_error`
  (`virtual_machine.c:1147`), while `RAIS` accepts it (`Errors = {"suberr"}`);
* a loop takes every jump of 0 for a break, also that of an if with an empty else
  branch and that of the `continue` of an inner `for` loop (`loops.c:127`);
* without an argument the first of several parameters is None even if it has a
  default (`files.c:287`; `lib/simple_http.jv:17` declares such a constructor);
* an assignment to four or more targets pops its value twice (`assignment.c:183`);
* the interpreter does not know `NOTC`, the code of `!x`, and refuses the `EXIT`
  without argument that the exit statement produces; nor does it know `SETC`, `LETC`
  and `FLDC`, the code of `const`.

Of the parser and the populators:

* rollback does not put merged newlines back, so `x[i]`, a newline and `(a, b) = c`
  is a call (`parser.c:229`); the newline after a call is taken with its parenthesis;
* `return (a) - b` returns `(a)`; `- b` is the next statement. After `return x` and
  a newline another statement is an error, `break` and `continue` need a newline;
* `if (a) { ... }` and `while (a) { ... }` are read as anonymous functions; the
  comment on `selection_statement` has a `then` that the grammar has not;
* a body of one token without `then` and `else` makes `populate_if_else` follow NULL;
* a file with one statement has no module node, hence no `EXIT`, and a single class,
  function or import has no populator; an empty file follows NULL;
* `populate_anon_function` leaves `is_const` and `is_async` unset if there is a
  qualifier; `a in b in c`, `|x|`, `new`, `import a as b`, `new() const`, three
  qualifiers and several superclasses parse and are refused later; a second
  constructor silently replaces the first.

Of the optimizer (always on in the runner, by default in the compiler):

* RetRet takes no notice of labels: an empty function without parameters that follows
  another loses its `RET` (`optimizers.c:168`) and begins where the next one does, or
  behind the last instruction; an empty class is ended before it
  begins, which fails an assertion;
* PushRes looks for a jump to the second instruction of a pair, not the first, does
  not see one to instruction 0, and can produce `PSRS`, which the interpreter does
  not know; JmpRes is off by one and never fires; `GTSH` leaves the old result.

Of the files:

* `async` is in neither format, fields are not in the bytecode, superclasses not in
  the text; `KeptByFiles` says what both keep;
* the text writer drops every label after one of the module that lies in a class with
  methods still to come (an anonymous function in a method), `tape.c:245`;
* index 0 in the map of strings looks like absence, so the module's name is entered
  twice and writer and reader disagree on the width at exactly 255 names
  (`serialize.c:53`); numbers of 64 bits are read into 32;
* two labels at one index need two turns of the loop, and there is one: the second is
  lost with all that follow, and so is every class behind one that has no code, because
  a class that begins where the loop is cannot end there (`tape.c:225`). A label of the
  module in the last class comes back as a method. None of these is in a compiled tape
  that was not optimized to it (`CodeOfItsOwn`, `OptimizedApart`);
* the bytecode of a module without a name begins with a name that was never set;
* `_modulemanager_hydrate` does not end if a superclass in assembly written by hand
  is missing.

## Proofs

`ThreadPoolProofs` proves, for any finite set of workers and any set of work, the
types, `NoStaleWork`, `SemMatchesWork`, `OnePlace` and that the pool implements
`WorkQueue`. Types are not inductive alone: the callback adds `w[t]` to the
finished work, so `TypeInv` adds `NoStaleWork`, which says that `w[t]` is work
there. `SemMatchesWork` and `OnePlace` are inductive with `TypeInv`. The
refinement needs `OnePlace` (leaving a function removes exactly one piece) and a
counting argument: the pieces in hand are an image of the busy workers, to which a
worker looking for work does not belong.

`SchedulerProofs` proves the type invariant of the scheduler for any number of
tasks, processes, workers and operations. It includes that a thread that
executes, completes or resumes has a task in hand, which the types of the
variables it writes depend on. There is a lemma per action.

`SchedulerTokenProofs` proves, for every program, `ScheduledOnce`, `ResultDelivered`,
`LeavesWhenQueued` and that the scheduler implements `Tasks`. None is inductive: that a task is queued
once depends on which threads are about to queue it, and those on whose dependents
it still is. `TokenInv` follows the one token of a task that can go on: it is in a
queue, with the pool, in the hands of one thread, or between `deliver` and `enqueue`
of one thread (`OneToken`); its place fixes the state of the task (`StateOfToken`);
a task without a token waits, and the only thread that may still visit it is the one
that completes what it waits for (`Dependents`), which happens once per task
(`Completed`). The exception in `Dependents` is a task without a parent that failed:
its `io.errorln` has it as a dependent and finds it finished. Actions that create a
task are shown to be a `Spawn` or a `Delegate`, so that two lemmas serve six actions.
`LifeOfTask` says what a step may do to one task; the refinement is that lemma read
through the mapping. `LeavesWhenQueued` is about the step after `enqueue`, when the task
may already run again: `Requeued` says that until `unwait` it is queued, runs, is
finished, or waits for another task (`Resumed`), and what a step of any thread does to
that is `ResumedStep`.

`SchedulerWakeupProofs` adds invariants that hold of some programs only.

* `"share" \notin Ops`: `OwnFutures`, that a task waits for tasks of its process. The
  broadcast goes to the process of the completed task, the queued task belongs to
  that of the waiting one; they are the same one exactly because of this.
  `SleeperIsWoken` follows, workers included.
* In addition `"background" \notin Ops`: everything that happens to the tasks of a
  process is done by its own thread (`OwnThreads`), and `Bookkeeping` is inductive:
  how far the waiting set is behind the states (`WaitingSet`), that a runnable task
  has a token (`Runnable`), that a task between the test of a future and
  `TASK_WAITING` cannot miss its completion (`Arriving`), and that a waiting task is
  still to be visited or has its token back (`Awaited`). `NoLostWakeup`,
  `WaitingSetExact` and `ReturnsWhenDone` follow, and that `vm_delete` finds every
  task of the main process finished.
* `Ops \subseteq {"call"}`, `Errors \subseteq {"err"}`: a task that is not complete has
  its parent as a dependent (`ParentDepends`), so the parent whose flag it sets waits
  for it (`ErrorFlags`). `ChildErrorIsError` follows, and that the assertion never
  aborts the program.

The hypotheses are needed. TLC refutes `NoLostWakeup`, `WaitingSetExact` and
`ReturnsWhenDone` on the instance of `lost_wakeup` (background functions) and on one in
which two processes share futures (`"share" \in Ops`), `SleeperIsWoken` on the latter, and
`ChildErrorIsError` when
`async`, `process` or `background` is among the operations or `suberr` among the errors.
All invariants of `SchedulerInvariants` were checked with TLC on the instances of the
runs before they were proved.

`InterpreterProofs` proves, for every tape (also one no compiler emits), every
set of names and every behaviour of calls and variables, the types of the control
state, `NoErrorBelow`, `ErrorBeforeInstruction` and `BlocksUntilError`. No one of
the last three is inductive: entering or leaving a block makes another block the
current one, so `ErrorBeforeInstruction` needs `NoErrorBelow`; both speak of the
last block, which exists by `BlocksUntilError`; and `NoErrorBelow` needs
`ErrorBeforeInstruction` when a block is entered on top of the current one. Their
conjunction with `TypeOK` is inductive. The argument has a lemma for each way an
instruction can end (`Finish`, `raise_error`, `Called`), so an instruction is a
case distinction over those.

`TapeFilesProofs` proves, for any names, any instructions and any number of calls, that
a tape built without an error is well-formed: labels rise with the code and stay inside
it, classes follow one another, a method is inside its class, and each name is used once.
There is a lemma per call that says what it does to the fields of a tape, and one that
says that it keeps a sound tape sound; the open class has no end yet, so its end is the
size of the tape (`EndOf`).

`TapeTextProofs` proves that the text of a tape reads as the tape (`TextRestores`). The
writer knows where its three iterators are and what it has printed; the reader knows
lines. What connects them is a tape that neither of them has: `Part`, the tape made of
the classes, methods, functions and instructions the iterators have passed. `Reads`
says that reading a row of lines takes one tape to another, without an error on the way.
`Written` is the invariant of the writer: its lines read as the part it has passed, and
what is not passed is not behind it (`Passed`). It is inductive because each of the four
things printed at an index (instruction, end of a class, class with its fields, label)
adds to the part what its line adds to the tape that is read; `LabelsApart` is needed
where the writer looks at one label only. When the loop ends everything is passed
(`LastPart`), and the part is the tape but for async. `LeftToRead` is the invariant of
the reader: what is left reads as the rest.

`TapeBytecodeProofs` proves that the index of a name leads to the name (`TableExact`) and
that the bytecode of a tape reads as the tape (`BytecodeRestores`). The name of the module
is entered first and has index 0, which `_insert_string` takes for a name that is not in
the map: a function or a string of that name enters it a second time. `Exact` says what
remains true: each index is a place of its name, and the list is longer than the map by
that one name if it was repeated (`Repeated`). `Interned` says which names the loops have
entered, so that all names of the tape are there when the file is written, and no others
(`FullStep`). The writer chooses the width of an index by the size of the map, the reader
by that of the list; `SameWidth` shows from `Exact` that they choose the same, unless the
tape has exactly `UINT8_MAX` names, which `Fits` excludes. Then every index and every
number comes back from its bytes (`TwoBytes`, `OneByte`, `IndicesFit`), so what the file
says of each function, class, method and instruction is known (`FileFacts`), and
`ReadSoFar` is the invariant of the reader: what it has read is the part of the tape it has
passed, of the class it is in the methods up to `j`. It depends on names being used once
(`Sound`, from which `TapesWellFormed` follows), because reading a name a second time is an
error.

The only assumptions are the named ones on the constants (`PoolAssumption`,
`SchedulerAssumption`, `UnitAssumption`, `WidthAssumption`, `IdentifierAssumption`,
`InstructionAssumption`) and, where said, the hypotheses on `Ops` and `Errors`. Only model-checked are liveness (`EverythingRuns`, `AwaitEnds`, `MainEnds`,
`RunEnds`), which needs fairness, and everything about `Codegen`, `Parser`, `Populate`,
`Optimizer`, `CompiledCode` and `Compiler`: what a recursive function or a fold returns
for every tree or tape needs induction over it, and all of these but `Optimizer` are, or
are composed of, recursive operators. The steps of `TapeFiles` need no induction because
each turn of a loop is a step; that the folds of `tape_write` and `tape_read` in `Tape`,
which `Compiler` uses, are those turns one after the other is not proved.

## Not modelled, and the plan

1. Proofs: lemmas about the operators of `Optimizer` that need no induction (what an
   adjustment does to a well-formed tape).
2. The rest of the module manager: registration by path, reflection objects and the
   initialisation by `LMDL`, which also is the one instruction `Interpreter` lacks.
3. `Heap`: edges and references, copying between processes.
4. `threadpool_delete` and `vm_delete` up to the point where memory is freed.
5. The lexer, as a function from characters to the tokens `Parser` starts with.

In `Codegen` the code of parts of a statement or function is joined by concatenation:
the one label such code can have is that of an anonymous function, which
`tape_anon_label` of `Compiler` puts where the label shifted by `tape_append` would be.
Modules in
assembly written by hand are not loaded. Positions in the source,
messages and logging are left out.

Left out for good: the native libraries (wrappers of the operating system), the
command line, the data structures of other repositories (`c_data_structures`,
`memory_wrapper`, `file_utils`), and what threads do with memory after `vm_delete`
has freed it.
