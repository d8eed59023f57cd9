----------------------------- MODULE CompiledCode -----------------------------
(***************************************************************************)
(* The code generator and the interpreter together: a source tree is       *)
(* turned into a tape by Codegen and run by Interpreter; Semantics says    *)
(* what the source means.  TLC runs every tree of a bounded family against *)
(* every choice of the environment.                                        *)
(***************************************************************************)
EXTENDS Codegen, Semantics

O == INSTANCE Optimizer WITH UINT8_MAX <- 255, UINT16_MAX <- 65535

-----------------------------------------------------------------------------
(* The trees whose code does what they say.  What is left out are the       *)
(* shapes the README lists.                                                 *)

Nested(x) == ToSet(x.kids)
Loops == {"while", "for", "foreach"}

RECURSIVE Breaks(_)
Breaks(x) ==
    IF x.k \in Loops THEN 0
    ELSE IF x.k = "break" THEN 1
    ELSE FoldSeq(LAMBDA y, sum : Breaks(y) + sum, 0, x.kids)

Jumps0(tape) == Len(SelectSeq(tape, LAMBDA i : i.op = "JMP" /\ i.n = 0))

\* A jump of 0 means a break, so a body must have no other.
SignalsClear(body) == Jumps0(produce_instructions(body)) = Breaks(body)

RECURSIVE Has(_, _)
Has(kinds, x) == x.k \in kinds \/ \E y \in Nested(x) : Has(kinds, y)

Raising == {"call", "method", "index", "field", "range", "unary", "binary",
            "in", "is", "map", "raise", "foreach"}

\* loop: the innermost loop whose block x runs in, or "none".
\* try: "here" if x runs in the block of a try, "outer" if in a block inside.
RECURSIVE Supported(_, _, _)
Supported(x, loop, try) ==
    LET inner == IF try = "none" THEN "none" ELSE "outer"
    IN  CASE x.k = "break" -> loop # "none"
          [] x.k = "continue" -> loop \in {"for", "foreach"}
          [] x.k \in Loops ->
                /\ SignalsClear(Last(x.kids))
                /\ x.k = "foreach" => try = "none" /\ ~Has({"try"}, x)
                /\ \A y \in Nested(x) : Supported(y, x.k, inner)
          [] x.k = "try" ->
                /\ Supported(x.kids[1], "none", "here")
                /\ Supported(x.kids[3], "none", inner)
          [] x.k \in Raising ->
                /\ try # "outer"
                /\ \A y \in Nested(x) : Supported(y, loop, try)
          [] OTHER -> \A y \in Nested(x) : Supported(y, loop, try)

\* What an MC module runs: a tree, its tape, the argument of a function.
Unit(src, arg) ==
    [src |-> src, tape |-> produce_instructions(src), arg |-> arg,
     supported |-> Supported(src, "none", "none")]

\* The same with its tape optimized, if the optimizers accept it.
Optimized(u) ==
    LET tape == O!optimize([O!tape_create EXCEPT !.ins = u.tape])
    IN  IF tape.ok THEN {[u EXCEPT !.tape = tape.ins]} ELSE {}

Module(statements) == Unit(Node("module", "", 0, statements), NONE_ENTITY)

-----------------------------------------------------------------------------
(* Correctness.                                                             *)

\* What can be seen: a program has no name for the variable that ends a try
\* statement, and the name _ is for what nobody reads.
Visible(events) == SelectSeq(events, LAMBDA e : e.id \notin {"$try_goto", "_"})
Seen == Visible(log)

\* What the environment chose so far.
Chosen == LET chosen == SelectSeq(log, LAMBDA e : e.out # "")
          IN  [i \in 1 .. Len(chosen) |-> chosen[i].out]

Reference == Sem(unit.src, Start(Chosen, unit.arg))

\* The run does what the source says, in the same order and with the same
\* values, and ends as the source does, whatever the environment chooses:
\* jump distances, operand order and catch addresses fit together.
MatchesSource == unit.supported =>
    /\ ~Aborted
    /\ IsPrefix(Seen, Visible(Reference.ev))
    /\ state = "complete" => Seen = Visible(Reference.ev) /\ Reference.c \in {"normal", "return"}
    /\ state = "error" => Seen = Visible(Reference.ev) /\ Reference.c = "error"

\* At the end of a module every block that was entered has been left and no
\* operand is on the stack; an error that was caught may leave operands.
BalancedAtExit ==
    unit.supported /\ state = "complete" /\ unit.src.k = "module" =>
        /\ Len(ctxs) = 1 /\ loose = <<>>
        /\ stack = <<>> \/ Has({"try"}, unit.src)

-----------------------------------------------------------------------------
(* What comments and assertions of the code say of every program, and what  *)
(* does not hold of the trees that Supported leaves out.                    *)

\* virtual_machine.c, _attemp_catch_error, where a task ends in error: "There
\* was no try/catch block."  A task ends in error only if no try statement of
\* the source is around the point where the error was raised.
ErrorMeansNoTry == state = "error" => Reference.c = "error"

\* loops.c: a jump of 0 is a "break" and one of INT_MAX a "continue" of the
\* loop, which goes on with its next iteration, as the source says.
LoopFollowsSource == IsPrefix(Seen, Visible(Reference.ev))

-----------------------------------------------------------------------------

FairSpec == Spec /\ WF_vars(vm_execute_task)

\* A run ends or comes to its bound of events: no jump goes back without
\* testing a condition again.
RunEnds ==
    <>(~unit.supported \/ state # "running" \/ Len(log) >= MaxEvents)
=============================================================================
