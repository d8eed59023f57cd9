------------------------------- MODULE Optimizer -------------------------------
(***************************************************************************)
(* The peephole optimizers of program/optimization.  Each one looks at     *)
(* instructions next to each other and notes adjustments; the tape is then *)
(* written anew, with its labels and jumps moved along.  The runner always *)
(* optimizes what it compiles.                                             *)
(***************************************************************************)
EXTENDS Tape

is_goto(ins) == ins.op \in {"JMP", "IFN", "IF", "CTCH"}

\* Some jump goes to the instruction after index.  The map that is asked
\* holds where the jump is, and cannot tell a jump at 0 from none.
_populate_gotos(tape, index) ==
    \E i \in 1 .. tape_size(tape) - 1 :
        is_goto(tape.ins[i + 1]) /\ i + tape.ins[i + 1].n = index

Adjustment(type, op, ins) == [type |-> type, op |-> op, ins |-> ins]
No == [op |-> "", arg |-> "no", id |-> "", n |-> 0]
o_Remove(i) == i :> Adjustment("remove", "", No)
o_SetOp(i, op) == i :> Adjustment("op", op, No)
o_Replace(i, op) == i :> Adjustment("ins", "", [No EXCEPT !.op = op])
NoAdjustment == <<>>

-----------------------------------------------------------------------------
(* The optimizers: what each notes at index i.  Get(tape, k) is the         *)
(* instruction at k; Free(tape, k): no jump goes to the one after k.        *)

Get(tape, k) == tape.ins[k + 1]
Free(tape, k) == ~_populate_gotos(tape, k)
Sets(ins) == ins.op \in {"SET", "LET"} /\ ins.arg = "id"
Plain(ins, op) == ins.op = op /\ ins.arg = "no"
SameName(a, b) == b.arg = "id" /\ a.id = b.id
SameArgument(a, b) == a.arg = b.arg /\ a.id = b.id /\ a.n = b.n

optimizer_SetRes(tape, i) ==
    LET first == Get(tape, i - 1)
        second == Get(tape, i)
    IN  IF Sets(first) /\ second.op = "RES" /\ SameName(first, second)
           /\ Free(tape, i - 1)
        THEN o_Remove(i) ELSE NoAdjustment

optimizer_SetPush(tape, i) ==
    LET first == Get(tape, i - 1)
        second == Get(tape, i)
    IN  IF Sets(first) /\ second.op = "PUSH" /\ SameName(first, second)
           /\ Free(tape, i - 1)
        THEN o_Replace(i, "PUSH") ELSE NoAdjustment

optimizer_GetPush(tape, i) ==
    IF Get(tape, i - 1).op = "GET" /\ Get(tape, i - 1).arg # "no"
       /\ Plain(Get(tape, i), "PUSH") /\ Free(tape, i - 1)
    THEN o_Remove(i) @@ o_SetOp(i - 1, "GTSH") ELSE NoAdjustment

\* The instructions looked at are those before the target of the jump and
\* before that one.
JumpsBack(tape, i) ==
    Get(tape, i - 1).op = "SET" /\ Get(tape, i).op = "JMP" /\ Get(tape, i).n < 0

optimizer_JmpRes(tape, i) ==
    LET first == Get(tape, i - 1)
        to == i + Get(tape, i).n
    IN  IF JumpsBack(tape, i) /\ to >= 1
           /\ Get(tape, to - 1).op = "SET" /\ Get(tape, to - 1).id = first.id
           /\ Get(tape, to).op = "RES" /\ SameName(first, Get(tape, to))
        THEN o_Remove(to) ELSE NoAdjustment

\* Asks for jumps to the instruction after the two.
optimizer_PushRes(tape, i) ==
    LET first == Get(tape, i - 1)
        second == Get(tape, i)
    IN  IF first.op = "PUSH" /\ second.op = "RES" /\ SameArgument(first, second)
           /\ Free(tape, i)
        THEN o_SetOp(i - 1, "PSRS") @@ o_Remove(i) ELSE NoAdjustment

optimizer_ResPush2(tape, i) ==
    IF Plain(Get(tape, i - 1), "RES") /\ Plain(Get(tape, i), "PUSH")
       /\ Free(tape, i - 1)
    THEN o_SetOp(i - 1, "PEEK") @@ o_Remove(i) ELSE NoAdjustment

\* Mutant: whatever is after a RET is never reached.
RetAnything(tape, i) ==
    IF Plain(Get(tape, i - 1), "RET") /\ Free(tape, i - 1)
    THEN o_Remove(i) ELSE NoAdjustment

optimizer_RetRet(tape, i) ==
    IF Plain(Get(tape, i - 1), "RET") /\ Plain(Get(tape, i), "RET")
       /\ Free(tape, i - 1)
    THEN o_Remove(i) ELSE NoAdjustment

optimizer_PeekRes(tape, i) ==
    IF Get(tape, i - 1).op = "PEEK" /\ Get(tape, i).op \in {"RES", "TLEN"}
       /\ Free(tape, i - 1)
    THEN o_Remove(i - 1) ELSE NoAdjustment

optimizer_SetEmpty(tape, i) ==
    IF Get(tape, i - 1).op = "TGET" /\ Get(tape, i - 1).arg = "int"
       /\ Sets(Get(tape, i)) /\ Get(tape, i).id = "_" /\ Free(tape, i - 1)
    THEN o_Remove(i - 1) @@ o_Remove(i) ELSE NoAdjustment

optimizer_PushResEmpty(tape, i) ==
    IF Plain(Get(tape, i - 1), "PUSH") /\ Plain(Get(tape, i), "RES")
       /\ Free(tape, i - 1)
    THEN o_Remove(i - 1) @@ o_Remove(i) ELSE NoAdjustment

optimizer_PeekPeek(tape, i) ==
    IF Plain(Get(tape, i - 1), "PEEK") /\ Plain(Get(tape, i), "PEEK")
       /\ Free(tape, i - 1)
    THEN o_Remove(i - 1) ELSE NoAdjustment

\* Asks for jumps to the instruction after the two.
optimizer_PushRes2(tape, i) ==
    IF Plain(Get(tape, i - 1), "PUSH") /\ Plain(Get(tape, i), "RES") /\ Free(tape, i)
    THEN o_Remove(i - 1) @@ o_Remove(i) ELSE NoAdjustment

is_math_op(op) ==
    op \in {"ADD", "SUB", "DIV", "MULT", "MOD", "LT", "LTE", "GTE", "GT", "EQ"}

optimizer_SimpleMath(tape, i) ==
    IF i >= 2 /\ Get(tape, i - 2).op = "PUSH" /\ Get(tape, i - 1).op = "PUSH"
       /\ is_math_op(Get(tape, i).op) /\ Get(tape, i - 1).arg \in {"int", "id"}
       /\ Free(tape, i) /\ Free(tape, i - 1)
    THEN (IF Get(tape, i - 2).arg = "no" THEN o_Remove(i - 2)
                                         ELSE o_SetOp(i - 2, "RES"))
           @@ o_SetOp(i - 1, Get(tape, i).op) @@ o_Remove(i)
    ELSE NoAdjustment

\* Also looks at the first instruction, where it has no one before it.
optimizer_Nil(tape, i) ==
    LET nil(k) ==
            IF Get(tape, k).op \in {"RES", "PUSH"} /\ Get(tape, k).arg = "id"
               /\ Get(tape, k).id = "None"
            THEN o_Replace(k, IF Get(tape, k).op = "RES" THEN "RNIL" ELSE "PNIL")
            ELSE NoAdjustment
    IN  IF i = 1 THEN nil(0) @@ nil(1) ELSE nil(i)

\* In the order in which optimize_init registers them.
Optimizers ==
    <<"SetRes", "SetPush", "JmpRes", "PushRes", "ResPush2", "RetRet", "PeekRes",
      "SetEmpty", "PeekPeek", "PushResEmpty", "PeekRes", "PushRes2",
      "SimpleMath", "GetPush", "Nil">>

AdjustAt(name, tape, i) ==
    CASE name = "SetRes" -> optimizer_SetRes(tape, i)
      [] name = "SetPush" -> optimizer_SetPush(tape, i)
      [] name = "JmpRes" -> optimizer_JmpRes(tape, i)
      [] name = "PushRes" -> optimizer_PushRes(tape, i)
      [] name = "ResPush2" -> optimizer_ResPush2(tape, i)
      [] name = "RetRet" -> optimizer_RetRet(tape, i)
      [] name = "PeekRes" -> optimizer_PeekRes(tape, i)
      [] name = "SetEmpty" -> optimizer_SetEmpty(tape, i)
      [] name = "PeekPeek" -> optimizer_PeekPeek(tape, i)
      [] name = "PushResEmpty" -> optimizer_PushResEmpty(tape, i)
      [] name = "PushRes2" -> optimizer_PushRes2(tape, i)
      [] name = "SimpleMath" -> optimizer_SimpleMath(tape, i)
      [] name = "GetPush" -> optimizer_GetPush(tape, i)
      [] name = "Nil" -> optimizer_Nil(tape, i)

\* The adjustments by index; a later one replaces an earlier one.
i_to_adj(name, tape) ==
    LET at == [i \in 1 .. tape_size(tape) - 1 |-> AdjustAt(name, tape, i)] \o <<>>
        last(k) == CHOOSE i \in DOMAIN at :
                      k \in DOMAIN at[i] /\ \A j \in DOMAIN at : j > i => k \notin DOMAIN at[j]
    IN  [k \in UNION {DOMAIN at[i] : i \in DOMAIN at} |-> at[last(k)][k]] @@ <<>>

-----------------------------------------------------------------------------
(* Writing the new tape.                                                    *)

\* The refs that start at i: all that the code knows by their index, of which
\* it keeps the last.
LastAt(refs, at(_)) ==
    LET here == SelectSeq(refs, LAMBDA r : at(r))
    IN  IF here = <<>> THEN <<>> ELSE <<Last(here)>>

i_to_refs(tape, i) ==
    LastAt(tape.functions
             \o FlattenSeq([c \in 1 .. Len(tape.classes) |-> tape.classes[c].functions]),
           LAMBDA r : r.index = i)
i_to_class_starts(tape, i) == LastAt(tape.classes, LAMBDA c : c.start_index = i)
i_to_class_ends(tape, i) == LastAt(tape.classes, LAMBDA c : c.end_index = i)

\* What begins and ends at i, which is at in the new tape.
ResolveLabels(t, new, i, at) ==
    LET ended == IF i_to_class_ends(t, i) = <<>> THEN new
                 ELSE tape_end_class_at_index(new, at)
        class == i_to_class_starts(t, i)
        started == IF class = <<>> THEN ended
                   ELSE FoldLeft(tape_field,
                                 tape_start_class_at_index(ended, class[1].name, at),
                                 class[1].fields)
        fref == i_to_refs(t, i)
    IN  IF fref = <<>> THEN started
        ELSE tape_start_func_at_index(started, fref[1].name, at, fref[1].is_async)

Labelled(t, i) ==
    \/ i_to_class_ends(t, i) # <<>> \/ i_to_class_starts(t, i) # <<>>
    \/ i_to_refs(t, i) # <<>>

Adjusted(ins, a) ==
    CASE a.type = "op" -> [ins EXCEPT !.op = a.op]
      [] a.type = "ins" -> a.ins

\* Mutant: the jumps keep their distances.
JumpsUnmoved(r, old_len) == r.tape

\* A jump goes to the instruction after the one that its distance leads to.
MoveJumps(r, old_len) ==
    LET to(i) == r.old[i] + r.tape.ins[i].n
        jumps == {i \in DOMAIN r.tape.ins : is_goto(r.tape.ins[i])}
    IN  IF \E i \in jumps : to(i) \notin 0 .. old_len - 1
        THEN [r.tape EXCEPT !.ok = FALSE]
        ELSE [r.tape EXCEPT !.ins =
                 [i \in 1 .. Len(@) |->
                    IF i \in jumps THEN [@[i] EXCEPT !.n = r.new[to(i) + 1] - (i - 1)]
                                   ELSE @[i]] \o <<>>]

\* r.old is the old index of each new instruction, r.new the new index of
\* each old one, or the one before it if it was removed.
_oh_resolve(t, adj) ==
    LET indices == [i \in 1 .. tape_size(t) + 1 |-> i - 1]
        kept(i) == ~(i \in DOMAIN adj /\ adj[i].type = "remove")
        old == SelectSeq(Front(indices), kept)
        new_len(i) == Len(SelectSeq(old, LAMBDA k : k < i))
        new == [i \in 1 .. tape_size(t) |->
                   IF kept(i - 1) THEN new_len(i - 1) ELSE new_len(i - 1) - 1] \o <<>>
        ins(i) == IF i \in DOMAIN adj THEN Adjusted(Get(t, i), adj[i]) ELSE Get(t, i)
        labels == FoldLeft(LAMBDA u, i : ResolveLabels(t, u, i, new_len(i)),
                           tape_module(tape_create, t.module),
                           SelectSeq(indices, LAMBDA i : Labelled(t, i)))
        tape == [labels EXCEPT !.ins = [i \in 1 .. Len(old) |-> ins(old[i])] \o <<>>]
    IN  MoveJumps([tape |-> tape, old |-> old, new |-> new], tape_size(t))

\* JmpRes reads below the tape when a jump goes back to index 1.
ReadsBelow(tape) ==
    \E i \in 1 .. tape_size(tape) - 1 :
        JumpsBack(tape, i) /\ i + Get(tape, i).n < 1

optimize(tape) ==
    FoldLeft(LAMBDA t, name :
                 LET new == _oh_resolve(t, i_to_adj(name, t))
                 IN  [new EXCEPT !.ok = /\ t.ok /\ @
                                        /\ name = "JmpRes" => ~ReadsBelow(t)],
             tape, Optimizers)
=============================================================================
