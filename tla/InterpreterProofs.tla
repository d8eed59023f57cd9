-------------------------- MODULE InterpreterProofs --------------------------
(***************************************************************************)
(* The error discipline of the interpreter, for every tape and every       *)
(* choice of the environment.  The inductive invariant is the conjunction  *)
(* of the four invariants of Interpreter.                                  *)
(***************************************************************************)
EXTENDS Interpreter, TLAPS

Inv == TypeOK /\ NoErrorBelow /\ ErrorBeforeInstruction /\ BlocksUntilError

\* The part of Inv that is about blocks only.
BlocksOK ==
    /\ ctxs \in Seq(Block) /\ ctxs # <<>>
    /\ loose \in Seq(Block) /\ Len(loose) <= 1
    /\ NoErrorBelow

\* The block that runs is a block, and its instruction has an integer.
LEMMA CtxIsBlock == Inv /\ state = "running" => Ctx \in Block
<1> SUFFICES ASSUME Inv, state = "running" PROVE Ctx \in Block
  OBVIOUS
<1>1. ctxs \in Seq(Block) /\ ctxs # <<>> /\ loose \in Seq(Block)
  BY DEF Inv, TypeOK, BlocksUntilError
<1>2. Len(ctxs) \in 1 .. Len(ctxs)
  BY <1>1
<1>3. ctxs[Len(ctxs)] \in Block
  BY <1>1, <1>2
<1>4. loose # <<>> => loose[1] \in Block
  BY <1>1
<1> QED
  BY <1>3, <1>4 DEF Ctx

LEMMA InsHasInt == Inv /\ state = "running" /\ InTape => Ins.n \in Int
<1> SUFFICES ASSUME Inv, state = "running", InTape PROVE Ins.n \in Int
  OBVIOUS
<1>1. unit.tape \in Seq(Instruction)
  BY DEF Inv, TypeOK
<1>2. Ctx.ins \in Int
  BY CtxIsBlock DEF Block
<1>3. Ctx.ins + 1 \in 1 .. Len(unit.tape)
  BY <1>1, <1>2 DEF InTape
<1>4. Ins \in Instruction
  BY <1>1, <1>3 DEF Ins
<1> QED
  BY <1>4 DEF Instruction

LEMMA BlockExcept ==
    ASSUME NEW b \in Block, NEW n \in Int, NEW e \in BOOLEAN
    PROVE  /\ [b EXCEPT !.ins = n, !.error = e] \in Block
           /\ [b EXCEPT !.error = e] \in Block
           /\ [b EXCEPT !.ins = n] \in Block
           /\ [b EXCEPT !.ins = n, !.catch = n] \in Block
BY DEF Block

\* Changing the block that runs changes no block below it.
LEMMA SetContextKeeps ==
    ASSUME Inv, state = "running", NEW c \in Block, SetContext(c)
    PROVE  BlocksOK'
<1>1. ctxs \in Seq(Block) /\ ctxs # <<>> /\ loose \in Seq(Block) /\ Len(loose) <= 1
  BY DEF Inv, TypeOK, BlocksUntilError
<1>2. CASE loose = <<>>
  <2>1. ctxs' = [ctxs EXCEPT ![Len(ctxs)] = c] /\ loose' = loose
    BY <1>2 DEF SetContext
  <2>2. ctxs' \in Seq(Block) /\ Len(ctxs') = Len(ctxs) /\ ctxs' # <<>>
    BY <1>1, <2>1
  <2>3. \A i \in 1 .. Len(ctxs) : i < Len(ctxs) => ctxs'[i] = ctxs[i]
    BY <1>1, <2>1
  <2>4. NoErrorBelow'
    BY <1>2, <2>1, <2>2, <2>3 DEF Inv, NoErrorBelow
  <2> QED
    BY <1>1, <2>1, <2>2, <2>4 DEF BlocksOK
<1>3. CASE loose # <<>>
  <2>1. ctxs' = ctxs /\ loose' = <<c>>
    BY <1>3 DEF SetContext
  <2>2. NoErrorBelow'
    BY <1>3, <2>1 DEF Inv, NoErrorBelow
  <2> QED
    BY <1>1, <2>1, <2>2 DEF BlocksOK
<1> QED
  BY <1>2, <1>3

LEMMA AdvanceKeeps ==
    ASSUME Inv, state = "running", NEW jump \in Int, NEW raised \in BOOLEAN,
           Advance(jump, raised)
    PROVE  BlocksOK'
<1>1. PICK b \in Block : b = Ctx
  BY CtxIsBlock
<1>2. PICK e \in BOOLEAN : e = (Ctx.error \/ raised)
  OBVIOUS
<1> DEFINE n == b.ins + jump + 1
           c == [b EXCEPT !.ins = n, !.error = e]
<1>3. n \in Int
  BY DEF Block
<1>4. SetContext(c)
  BY <1>1, <1>2, Zenon DEF Advance
<1> HIDE DEF n
<1>5. c \in Block
  BY <1>3, BlockExcept
<1> HIDE DEF c
<1> QED
  BY <1>4, <1>5, SetContextKeeps

\* A step that stops at the head of the loop again.
LEMMA BackToCheck ==
    ASSUME Inv, state = "running", BlocksOK', phase' = "check",
           state' = state, unit' = unit
    PROVE  Inv'
BY DEF Inv, TypeOK, ErrorBeforeInstruction, BlocksUntilError, BlocksOK

LEMMA FinishKeeps ==
    ASSUME Inv, state = "running", NEW stk, NEW res, NEW jump \in Int, NEW events,
           Finish(stk, res, jump, events)
    PROVE  Inv'
BY AdvanceKeeps, BackToCheck DEF Finish

LEMMA RaiseKeeps ==
    ASSUME Inv, state = "running", NEW stk, NEW events, raise_error(stk, events)
    PROVE  Inv'
<1>1. Advance(0, TRUE)
  BY DEF raise_error
<1>2. TRUE \in BOOLEAN /\ 0 \in Int
  OBVIOUS
<1>3. BlocksOK'
  BY <1>1, <1>2, AdvanceKeeps, Zenon
<1> QED
  BY <1>3, BackToCheck DEF raise_error

LEMMA CalledKeeps ==
    ASSUME Inv, state = "running", NEW stk, NEW id, NEW v, Called(stk, id, v)
    PROVE  Inv'
<1>1. PICK t \in CallTypes, native \in BOOLEAN :
         IF native \/ loose = <<>>
         THEN Advance(0, t = "error")
         ELSE /\ loose' = <<>>
              /\ ctxs' = [ctxs EXCEPT ![Len(ctxs)].error = (t = "error")]
  BY DEF Called
<1>2. phase' = "check" /\ state' = state /\ unit' = unit
  BY DEF Called
<1>3. CASE native \/ loose = <<>>
  <2>1. Advance(0, t = "error") /\ (t = "error") \in BOOLEAN /\ 0 \in Int
    BY <1>1, <1>3
  <2>2. BlocksOK'
    BY <2>1, AdvanceKeeps, Zenon
  <2> QED
    BY <1>2, <2>2, BackToCheck
<1>4. CASE ~(native \/ loose = <<>>)
  <2>1. ctxs \in Seq(Block) /\ ctxs # <<>> /\ Len(ctxs) \in 1 .. Len(ctxs)
    BY DEF Inv, TypeOK, BlocksUntilError
  <2>2. loose' = <<>> /\ loose # <<>>
    BY <1>1, <1>4
  <2>3. PICK e \in BOOLEAN : e = (t = "error")
    OBVIOUS
  <2>4. PICK b \in Block : b = ctxs[Len(ctxs)]
    BY <2>1
  <2> DEFINE c == [b EXCEPT !.error = e]
  <2>5. c \in Block
    BY DEF Block
  <2>6. ctxs' = [ctxs EXCEPT ![Len(ctxs)] = c]
    BY <1>1, <1>4, <2>3, <2>4
  <2> HIDE DEF c
  <2>7. ctxs' \in Seq(Block) /\ Len(ctxs') = Len(ctxs) /\ ctxs' # <<>>
    BY <2>1, <2>5, <2>6
  <2>8. \A i \in 1 .. Len(ctxs) : i < Len(ctxs) => ctxs'[i] = ctxs[i]
    BY <2>1, <2>6
  <2>9. NoErrorBelow'
    BY <2>2, <2>7, <2>8 DEF Inv, NoErrorBelow
  <2>10. BlocksOK'
    BY <2>2, <2>7, <2>9 DEF BlocksOK
  <2> QED
    BY <1>2, <2>10, BackToCheck
<1> QED
  BY <1>3, <1>4

\* Most instructions finish, raise an error or make a call.
Ordinary ==
    \/ \E stk, res, events : \E jump \in Int : Finish(stk, res, jump, events)
    \/ \E stk, events : raise_error(stk, events)
    \/ \E stk, id, v : Called(stk, id, v)

LEMMA OrdinaryKeeps ==
    ASSUME Inv, state = "running", Ordinary
    PROVE  Inv'
BY FinishKeeps, RaiseKeeps, CalledKeeps DEF Ordinary

LEMMA ZeroIsInt == 0 \in Int
OBVIOUS

LEMMA AtRuns ==
    ASSUME NEW ops, At(ops)
    PROVE  state = "running" /\ InTape
BY DEF At

\* Instructions on the stack, the result and variables.
LEMMA OperandInstructions ==
    ASSUME Inv,
           \/ _execute_RES \/ _execute_PEEK \/ _execute_DUP \/ _execute_PUSH
           \/ _execute_PNIL \/ _execute_RNIL \/ _execute_FLD \/ _execute_LET
           \/ _execute_SET \/ _execute_GET \/ _execute_TLEN \/ _execute_TGTE
           \/ _execute_TGET \/ _execute_NOT \/ _execute_GTSH
    PROVE  Inv'
<1>1. CASE _execute_RES
  <2>1. state = "running" /\ InTape
    BY <1>1, AtRuns DEF _execute_RES
  <2>2. Ordinary
    BY <1>1, ZeroIsInt, ZenonT(30) DEF _execute_RES, Ordinary
  <2> QED
    BY <2>1, <2>2, OrdinaryKeeps
<1>2. CASE _execute_PEEK
  <2>1. state = "running" /\ InTape
    BY <1>2, AtRuns DEF _execute_PEEK
  <2>2. Ordinary
    BY <1>2 DEF _execute_PEEK, Ordinary
  <2> QED
    BY <2>1, <2>2, OrdinaryKeeps
<1>3. CASE _execute_DUP
  <2>1. state = "running" /\ InTape
    BY <1>3, AtRuns DEF _execute_DUP
  <2>2. Ordinary
    BY <1>3 DEF _execute_DUP, Ordinary
  <2> QED
    BY <2>1, <2>2, OrdinaryKeeps
<1>4. CASE _execute_PUSH
  <2>1. state = "running" /\ InTape
    BY <1>4, AtRuns DEF _execute_PUSH
  <2>2. Ordinary
    BY <1>4, ZeroIsInt, ZenonT(30) DEF _execute_PUSH, Ordinary
  <2> QED
    BY <2>1, <2>2, OrdinaryKeeps
<1>5. CASE _execute_PNIL
  <2>1. state = "running" /\ InTape
    BY <1>5, AtRuns DEF _execute_PNIL
  <2>2. Ordinary
    BY <1>5 DEF _execute_PNIL, Ordinary
  <2> QED
    BY <2>1, <2>2, OrdinaryKeeps
<1>6. CASE _execute_RNIL
  <2>1. state = "running" /\ InTape
    BY <1>6, AtRuns DEF _execute_RNIL
  <2>2. Ordinary
    BY <1>6 DEF _execute_RNIL, Ordinary
  <2> QED
    BY <2>1, <2>2, OrdinaryKeeps
<1>7. CASE _execute_FLD
  <2>1. state = "running" /\ InTape
    BY <1>7, AtRuns DEF _execute_FLD
  <2>2. Ordinary
    BY <1>7, ZeroIsInt, ZenonT(30) DEF _execute_FLD, Ordinary
  <2> QED
    BY <2>1, <2>2, OrdinaryKeeps
<1>8. CASE _execute_LET
  <2>1. state = "running" /\ InTape
    BY <1>8, AtRuns DEF _execute_LET
  <2>2. Ordinary
    BY <1>8, ZeroIsInt, ZenonT(30) DEF _execute_LET, Ordinary
  <2> QED
    BY <2>1, <2>2, OrdinaryKeeps
<1>9. CASE _execute_SET
  <2>1. state = "running" /\ InTape
    BY <1>9, AtRuns DEF _execute_SET
  <2>2. Ordinary
    BY <1>9, ZeroIsInt, ZenonT(30) DEF _execute_SET, Ordinary
  <2> QED
    BY <2>1, <2>2, OrdinaryKeeps
<1>10. CASE _execute_GET
  <2>1. state = "running" /\ InTape
    BY <1>10, AtRuns DEF _execute_GET
  <2>2. Ordinary
    BY <1>10, ZeroIsInt, ZenonT(30) DEF _execute_GET, Ordinary
  <2> QED
    BY <2>1, <2>2, OrdinaryKeeps
<1>11. CASE _execute_TLEN
  <2>1. state = "running" /\ InTape
    BY <1>11, AtRuns DEF _execute_TLEN
  <2>2. Ordinary
    BY <1>11 DEF _execute_TLEN, Ordinary
  <2> QED
    BY <2>1, <2>2, OrdinaryKeeps
<1>12. CASE _execute_TGTE
  <2>1. state = "running" /\ InTape
    BY <1>12, AtRuns DEF _execute_TGTE
  <2>2. Ordinary
    BY <1>12 DEF _execute_TGTE, Ordinary
  <2> QED
    BY <2>1, <2>2, OrdinaryKeeps
<1>13. CASE _execute_TGET
  <2>1. state = "running" /\ InTape
    BY <1>13, AtRuns DEF _execute_TGET
  <2>2. Ordinary
    BY <1>13 DEF _execute_TGET, Ordinary
  <2> QED
    BY <2>1, <2>2, OrdinaryKeeps
<1>14. CASE _execute_NOT
  <2>1. state = "running" /\ InTape
    BY <1>14, AtRuns DEF _execute_NOT
  <2>2. Ordinary
    BY <1>14 DEF _execute_NOT, Ordinary
  <2> QED
    BY <2>1, <2>2, OrdinaryKeeps
<1>15. CASE _execute_GTSH
  <2>1. state = "running" /\ InTape
    BY <1>15, AtRuns DEF _execute_GTSH
  <2>2. Ordinary
    BY <1>15, ZeroIsInt, ZenonT(30) DEF _execute_GTSH, Ordinary
  <2> QED
    BY <2>1, <2>2, OrdinaryKeeps
<1> QED
  BY <1>1, <1>2, <1>3, <1>4, <1>5, <1>6, <1>7, <1>8, <1>9, <1>10, <1>11, <1>12, <1>13, <1>14,
     <1>15

\* Calls, jumps, operators, arrays and tuples.
LEMMA OtherInstructions ==
    ASSUME Inv,
           \/ _execute_CALL \/ _execute_WAIT \/ _execute_JMP \/ _execute_IF
           \/ _execute_ADD \/ _execute_LT \/ _execute_BOR_with_obj \/ _execute_EQ
           \/ _execute_IS \/ _execute_ANEW \/ _execute_TUPL \/ _execute_AIDX
           \/ _execute_ASET \/ _execute_RAIS
    PROVE  Inv'
<1>1. CASE _execute_CALL
  <2>1. state = "running" /\ InTape
    BY <1>1, AtRuns DEF _execute_CALL
  <2>2. Ordinary
    BY <1>1 DEF _execute_CALL, Ordinary
  <2> QED
    BY <2>1, <2>2, OrdinaryKeeps
<1>2. CASE _execute_WAIT
  <2>1. state = "running" /\ InTape
    BY <1>2, AtRuns DEF _execute_WAIT
  <2>2. Ordinary
    BY <1>2 DEF _execute_WAIT, Ordinary
  <2> QED
    BY <2>1, <2>2, OrdinaryKeeps
<1>3. CASE _execute_JMP
  <2>1. state = "running" /\ InTape
    BY <1>3, AtRuns DEF _execute_JMP
  <2>2. Ordinary
    BY <1>3, <2>1, InsHasInt DEF _execute_JMP, Ordinary
  <2> QED
    BY <2>1, <2>2, OrdinaryKeeps
<1>4. CASE _execute_IF
  <2>1. state = "running" /\ InTape
    BY <1>4, AtRuns DEF _execute_IF
  <2>2. Ordinary
    BY <1>4, <2>1, InsHasInt DEF _execute_IF, Ordinary
  <2> QED
    BY <2>1, <2>2, OrdinaryKeeps
<1>5. CASE _execute_ADD
  <2>1. state = "running" /\ InTape
    BY <1>5, AtRuns DEF _execute_ADD, PrimitiveOp
  <2>2. Ordinary
    BY <1>5 DEF _execute_ADD, PrimitiveOp, Ordinary
  <2> QED
    BY <2>1, <2>2, OrdinaryKeeps
<1>6. CASE _execute_LT
  <2>1. state = "running" /\ InTape
    BY <1>6, AtRuns DEF _execute_LT, PrimitiveOp
  <2>2. Ordinary
    BY <1>6 DEF _execute_LT, PrimitiveOp, Ordinary
  <2> QED
    BY <2>1, <2>2, OrdinaryKeeps
<1>7. CASE _execute_BOR_with_obj
  <2>1. state = "running" /\ InTape
    BY <1>7, AtRuns DEF _execute_BOR_with_obj
  <2>2. Ordinary
    BY <1>7 DEF _execute_BOR_with_obj, Ordinary
  <2> QED
    BY <2>1, <2>2, OrdinaryKeeps
<1>8. CASE _execute_EQ
  <2>1. state = "running" /\ InTape
    BY <1>8, AtRuns DEF _execute_EQ
  <2>2. Ordinary
    BY <1>8, ZeroIsInt, ZenonT(30) DEF _execute_EQ, primitive_equals, Ordinary
  <2> QED
    BY <2>1, <2>2, OrdinaryKeeps
<1>9. CASE _execute_IS
  <2>1. state = "running" /\ InTape
    BY <1>9, AtRuns DEF _execute_IS
  <2>2. Ordinary
    BY <1>9, ZeroIsInt, ZenonT(30) DEF _execute_IS, Ordinary
  <2> QED
    BY <2>1, <2>2, OrdinaryKeeps
<1>10. CASE _execute_ANEW
  <2>1. state = "running" /\ InTape
    BY <1>10, AtRuns DEF _execute_ANEW, NewSequence
  <2>2. Ordinary
    BY <1>10, ZeroIsInt, ZenonT(30) DEF _execute_ANEW, NewSequence, Ordinary
  <2> QED
    BY <2>1, <2>2, OrdinaryKeeps
<1>11. CASE _execute_TUPL
  <2>1. state = "running" /\ InTape
    BY <1>11, AtRuns DEF _execute_TUPL, NewSequence
  <2>2. Ordinary
    BY <1>11, ZeroIsInt, ZenonT(30) DEF _execute_TUPL, NewSequence, Ordinary
  <2> QED
    BY <2>1, <2>2, OrdinaryKeeps
<1>12. CASE _execute_AIDX
  <2>1. state = "running" /\ InTape
    BY <1>12, AtRuns DEF _execute_AIDX, IndexChoice
  <2>2. Ordinary
    BY <1>12, ZeroIsInt, ZenonT(30) DEF _execute_AIDX, IndexChoice, Ordinary
  <2> QED
    BY <2>1, <2>2, OrdinaryKeeps
<1>13. CASE _execute_ASET
  <2>1. state = "running" /\ InTape
    BY <1>13, AtRuns DEF _execute_ASET, IndexChoice
  <2>2. Ordinary
    BY <1>13, ZeroIsInt, ZenonT(30) DEF _execute_ASET, IndexChoice, Ordinary
  <2> QED
    BY <2>1, <2>2, OrdinaryKeeps
<1>14. CASE _execute_RAIS
  <2>1. state = "running" /\ InTape
    BY <1>14, AtRuns DEF _execute_RAIS
  <2>2. Ordinary
    BY <1>14 DEF _execute_RAIS, Ordinary
  <2> QED
    BY <2>1, <2>2, OrdinaryKeeps
<1> QED
  BY <1>1, <1>2, <1>3, <1>4, <1>5, <1>6, <1>7, <1>8, <1>9, <1>10, <1>11, <1>12, <1>13, <1>14

\* The end of a task.
LEMMA EndingKeeps ==
    ASSUME Inv, _execute_RET \/ _execute_EXIT
    PROVE  Inv'
<1>1. state = "running"
  BY AtRuns DEF _execute_RET, _execute_EXIT
<1>2. Advance(0, FALSE) /\ state' = "complete" /\ unit' = unit /\ phase' = phase
  BY DEF _execute_RET, _execute_EXIT
<1>3. FALSE \in BOOLEAN
  OBVIOUS
<1>4. BlocksOK'
  BY <1>1, <1>2, <1>3, ZeroIsInt, AdvanceKeeps, Zenon
<1> QED
  BY <1>2, <1>4 DEF Inv, TypeOK, ErrorBeforeInstruction, BlocksUntilError, BlocksOK

LEMMA CatchAddressKeeps == ASSUME Inv, _execute_CTCH PROVE Inv'
<1>1. state = "running" /\ InTape
  BY AtRuns DEF _execute_CTCH
<1>2. PICK b \in Block : b = Ctx
  BY <1>1, CtxIsBlock
<1> DEFINE c == [b EXCEPT !.ins = b.ins + 1, !.catch = b.ins + Ins.n + 1]
<1>3. PICK n \in Int : n = Ins.n
  BY <1>1, InsHasInt
<1>4. c \in Block
  <2>1. b.ins + 1 \in Int /\ b.ins + n + 1 \in Int
    BY DEF Block
  <2> QED
    BY <1>3, <2>1 DEF Block
<1>5. SetContext(c)
  BY <1>2 DEF _execute_CTCH
<1> HIDE DEF c
<1>6. PICK d \in Block : SetContext(d)
  BY <1>4, <1>5
<1>7. BlocksOK'
  BY <1>1, <1>6, SetContextKeeps
<1> QED
  BY <1>1, <1>7, BackToCheck DEF _execute_CTCH

\* A new block has no error, and the block under it had none when its
\* instruction ran.
LEMMA NewBlockKeeps == ASSUME Inv, _execute_NBLK PROVE Inv'
<1>1. state = "running" /\ phase = "run"
  BY DEF _execute_NBLK, At
<1>2. ctxs \in Seq(Block) /\ ctxs # <<>>
  BY <1>1 DEF Inv, TypeOK, BlocksUntilError
<1>3. PICK b \in Block : b = Ctx
  BY <1>1, CtxIsBlock
<1> DEFINE c == context_init(b.ins + 1)
<1>4. c \in Block /\ ~c.error
  BY DEF Block, context_init
<1>5. ctxs' = Append(ctxs, c) /\ loose' = <<>> /\ phase' = "check"
        /\ state' = state /\ unit' = unit
  BY <1>3 DEF _execute_NBLK
<1> HIDE DEF c
<1>6. /\ ctxs' \in Seq(Block) /\ Len(ctxs') = Len(ctxs) + 1 /\ ctxs' # <<>>
      /\ \A i \in 1 .. Len(ctxs) : ctxs'[i] = ctxs[i]
  BY <1>2, <1>4, <1>5
<1>7. \A i \in 1 .. Len(ctxs) : ~ctxs[i].error
  BY <1>1, <1>2 DEF Inv, NoErrorBelow, ErrorBeforeInstruction
<1>8. NoErrorBelow'
  BY <1>2, <1>5, <1>6, <1>7 DEF NoErrorBelow
<1>9. BlocksOK'
  BY <1>5, <1>6, <1>8 DEF BlocksOK
<1> QED
  BY <1>1, <1>5, <1>9, BackToCheck

LEMMA LeaveBlockKeeps == ASSUME Inv, _execute_BBLK PROVE Inv'
<1>1. state = "running" /\ Len(ctxs) > 1
  BY AtRuns DEF _execute_BBLK
<1>2. ctxs \in Seq(Block)
  BY DEF Inv, TypeOK
<1> DEFINE m == Len(ctxs) - 1
           front == SubSeq(ctxs, 1, m)
<1>3. m \in 1 .. Len(ctxs) /\ m < Len(ctxs)
  BY <1>1, <1>2
<1>4. /\ front \in Seq(Block) /\ Len(front) = m
      /\ \A i \in 1 .. m : front[i] = ctxs[i]
  BY <1>2, <1>3
<1>5. PICK b \in Block : b = front[m]
  BY <1>3, <1>4
<1>6. PICK n \in Int : n = ctxs[Len(ctxs)].ins + 1
  <2>1. PICK d \in Block : d = ctxs[Len(ctxs)]
    BY <1>1, <1>2
  <2>2. d.ins + 1 \in Int
    BY DEF Block
  <2> QED
    BY <2>1, <2>2
<1> DEFINE c == [b EXCEPT !.ins = n]
<1>7. c \in Block
  BY BlockExcept
<1>8. ctxs' = [front EXCEPT ![m] = c] /\ loose' = <<>> /\ phase' = "check"
        /\ state' = state /\ unit' = unit
  BY <1>5, <1>6 DEF _execute_BBLK
<1> HIDE DEF c, front, m
<1>9. /\ ctxs' \in Seq(Block) /\ Len(ctxs') = m /\ ctxs' # <<>>
      /\ \A i \in 1 .. m : i < m => ctxs'[i] = ctxs[i]
  BY <1>3, <1>4, <1>7, <1>8
<1>10. NoErrorBelow'
  BY <1>3, <1>8, <1>9 DEF Inv, NoErrorBelow
<1>11. BlocksOK'
  BY <1>8, <1>9, <1>10 DEF BlocksOK
<1> QED
  BY <1>1, <1>8, <1>11, BackToCheck

\* The head of the loop: without an error the block's instruction is next;
\* with one, the search for a catch address ends in the block itself, in one
\* below it or, when there is none, with the task.
LEMMA CheckErrorKeeps == ASSUME Inv, CheckError PROVE Inv'
<1>1. /\ state = "running" /\ phase = "check" /\ unit' = unit
      /\ ctxs \in Seq(Block) /\ ctxs # <<>> /\ Len(ctxs) \in 1 .. Len(ctxs)
      /\ loose \in Seq(Block) /\ Len(loose) <= 1
  BY DEF CheckError, Inv, TypeOK, BlocksUntilError
<1>2. PICK b \in Block : b = Ctx
  BY <1>1, CtxIsBlock
<1>3. CASE ~Ctx.error
  <2>1. phase' = "run" /\ ctxs' = ctxs /\ loose' = loose /\ state' = state
    BY <1>3 DEF CheckError
  <2>2. loose = <<>> => ~ctxs[Len(ctxs)].error
    BY <1>3 DEF Ctx
  <2> QED
    BY <1>1, <2>1, <2>2 DEF Inv, TypeOK, NoErrorBelow, ErrorBeforeInstruction,
                            BlocksUntilError
<1>4. CASE Ctx.error /\ Ctx.catch >= 0
  <2> DEFINE c == [ins |-> b.catch, catch |-> -1, error |-> FALSE]
  <2>1. SetContext(c) /\ phase' = "run" /\ state' = state
    BY <1>2, <1>4 DEF CheckError, _attemp_catch_error
  <2>2. c \in Block /\ c.error = FALSE
    BY DEF Block
  <2> HIDE DEF c
  <2>3. BlocksOK'
    BY <1>1, <2>1, <2>2, SetContextKeeps
  <2>4. loose = <<>> => ctxs'[Len(ctxs')] = c
    BY <1>1, <2>1 DEF SetContext
  <2>5. loose # <<>> => loose' # <<>>
    BY <2>1 DEF SetContext
  <2>6. ErrorBeforeInstruction'
    BY <2>2, <2>4, <2>5 DEF ErrorBeforeInstruction
  <2> QED
    BY <1>1, <2>1, <2>3, <2>6 DEF Inv, TypeOK, BlocksUntilError, BlocksOK
<1>5. CASE Ctx.error /\ ~(Ctx.catch >= 0) /\ Catching = {}
  <2>1. state' = "error" /\ ctxs' = <<>> /\ loose' = <<b>> /\ phase' = phase
    BY <1>2, <1>5 DEF CheckError, _attemp_catch_error
  <2>2. loose' \in Seq(Block) /\ Len(loose') = 1
    BY <2>1
  <2>3. NoErrorBelow'
    BY <2>1 DEF NoErrorBelow
  <2> QED
    BY <1>1, <2>1, <2>2, <2>3 DEF Inv, TypeOK, ErrorBeforeInstruction,
                                  BlocksUntilError
<1>6. CASE Ctx.error /\ ~(Ctx.catch >= 0) /\ Catching # {}
  <2>1. PICK j \in Catching :
           /\ ctxs' = [SubSeq(ctxs, 1, j) EXCEPT
                         ![j] = [ins |-> @.catch, catch |-> -1, error |-> FALSE]]
           /\ loose' = <<b>> /\ phase' = "run" /\ state' = state
    BY <1>2, <1>6 DEF CheckError, _attemp_catch_error
  <2>2. j \in 1 .. Len(ctxs) /\ j < Len(ctxs)
    BY <1>1 DEF Catching
  <2> DEFINE front == SubSeq(ctxs, 1, j)
  <2>3. /\ front \in Seq(Block) /\ Len(front) = j
        /\ \A i \in 1 .. j : front[i] = ctxs[i]
    BY <1>1, <2>2
  <2>4. PICK d \in Block : d = front[j]
    BY <2>2, <2>3
  <2> DEFINE c == [ins |-> d.catch, catch |-> -1, error |-> FALSE]
  <2>5. c \in Block /\ c.error = FALSE
    BY DEF Block
  <2>6. ctxs' = [front EXCEPT ![j] = c]
    BY <2>1, <2>4
  <2> HIDE DEF c, front
  <2>7. /\ ctxs' \in Seq(Block) /\ Len(ctxs') = j /\ ctxs' # <<>> /\ ctxs'[j] = c
        /\ \A i \in 1 .. j : i < j => ctxs'[i] = ctxs[i]
    BY <2>2, <2>3, <2>5, <2>6
  <2>8. \A i \in 1 .. j : ~ctxs'[i].error
    BY <1>1, <2>2, <2>5, <2>7 DEF Inv, NoErrorBelow
  <2>9. NoErrorBelow'
    BY <2>7, <2>8 DEF NoErrorBelow
  <2>10. loose' \in Seq(Block) /\ Len(loose') = 1 /\ loose' # <<>>
    BY <2>1
  <2>11. state' = "running" /\ phase' = "run" /\ unit'.tape \in Seq(Instruction)
    BY <1>1, <2>1 DEF Inv, TypeOK
  <2>12. ErrorBeforeInstruction'
    BY <2>10 DEF ErrorBeforeInstruction
  <2>13. BlocksUntilError'
    BY <2>7, <2>11 DEF BlocksUntilError
  <2>14. TypeOK'
    BY <2>7, <2>10, <2>11 DEF TypeOK
  <2> QED
    BY <2>9, <2>12, <2>13, <2>14 DEF Inv
<1> QED
  BY <1>3, <1>4, <1>5, <1>6

-----------------------------------------------------------------------------

LEMMA InitInv == Init => Inv
<1> SUFFICES ASSUME Init PROVE Inv
  OBVIOUS
<1>1. context_init(0) \in Block /\ ~context_init(0).error
  BY DEF context_init, Block
<1>2. ctxs = <<context_init(0)>> /\ loose = <<>> /\ state = "running"
        /\ phase = "check" /\ unit.tape \in Seq(Instruction)
  BY UnitAssumption DEF Init
<1> QED
  BY <1>1, <1>2 DEF Inv, TypeOK, NoErrorBelow, ErrorBeforeInstruction,
                    BlocksUntilError

LEMMA StepInv == Inv /\ [vm_execute_task]_vars => Inv'
<1> SUFFICES ASSUME Inv, [vm_execute_task]_vars PROVE Inv'
  OBVIOUS
<1>1. CASE vm_execute_task
  BY <1>1, OperandInstructions, OtherInstructions, EndingKeeps,
     CatchAddressKeeps, NewBlockKeeps, LeaveBlockKeeps, CheckErrorKeeps, Zenon
     DEF vm_execute_task
<1>2. CASE UNCHANGED vars
  BY <1>2 DEF vars, Inv, TypeOK, NoErrorBelow, ErrorBeforeInstruction,
              BlocksUntilError
<1> QED
  BY <1>1, <1>2

\* The control state of the interpreter has its type on every tape
\* (vm_execute_task).
THEOREM InterpreterTypeCorrect == Spec => []TypeOK
<1>1. Inv => TypeOK
  BY DEF Inv
<1> QED
  BY <1>1, InitInv, StepInv, PTL DEF Spec

\* On every tape, whatever calls and lookups result in, no instruction runs in
\* the task's current block while an error is pending there (vm_execute_task).
THEOREM ErrorsComeFirst == Spec => []ErrorBeforeInstruction
<1>1. Inv => ErrorBeforeInstruction
  BY DEF Inv
<1> QED
  BY <1>1, InitInv, StepInv, PTL DEF Spec

\* On every tape, no block that waits below another has a pending error
\* (task_back_context, _attemp_catch_error).
THEOREM ErrorsStayOnTop == Spec => []NoErrorBelow
<1>1. Inv => NoErrorBelow
  BY DEF Inv
<1> QED
  BY <1>1, InitInv, StepInv, PTL DEF Spec

\* On every tape, a task has left all its blocks exactly when it has ended in
\* error (task_back_context).
THEOREM BlocksLeftOnError == Spec => []BlocksUntilError
<1>1. Inv => BlocksUntilError
  BY DEF Inv
<1> QED
  BY <1>1, InitInv, StepInv, PTL DEF Spec
=============================================================================
