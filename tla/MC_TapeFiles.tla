---------------------------- MODULE MC_TapeFiles ----------------------------
EXTENDS TapeFiles

Ins(op, arg, id) == [op |-> op, arg |-> arg, id |-> id, n |-> 0]
CONSTANTS n1, n2
OneKind == {Ins("RES", "id", n1)}
=============================================================================
