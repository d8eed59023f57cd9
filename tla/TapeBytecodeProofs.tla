------------------------- MODULE TapeBytecodeProofs -------------------------
(* A tape that is written as bytecode and read again is the tape it was, up *)
(* to what the format leaves out, if what it has can be counted in the      *)
(* widths of the format: an index in the file leads to the name it was      *)
(* taken of, although the name of the module is entered twice.              *)
EXTENDS TapeTextProofs, FiniteSetTheorems

-----------------------------------------------------------------------------
(* The table of names.                                                      *)

\* The name of the module is at the front, and at index 0 until it is entered a
\* second time.
Repeated(tb) == tb.strings # <<>> /\ tb.index[tb.strings[1]] # 0

Exact(tb) ==
    /\ tb.strings \in Seq(Modules) /\ IsFiniteSet(DOMAIN tb.index)
    /\ \A s \in DOMAIN tb.index :
          /\ tb.index[s] \in Nat /\ tb.index[s] < Len(tb.strings)
          /\ tb.strings[tb.index[s] + 1] = s
    /\ tb.strings # <<>> => tb.strings[1] \in DOMAIN tb.index
    /\ Len(tb.strings) = Cardinality(DOMAIN tb.index) + (IF Repeated(tb) THEN 1 ELSE 0)

LEMMA ExactEmpty == Exact(EmptyTable)
<1>1. EmptyTable.strings = <<>> /\ DOMAIN EmptyTable.index = {}
  BY DEF EmptyTable
<1>2. IsFiniteSet({}) /\ Cardinality({}) = 0
  BY FS_EmptySet
<1>3. <<>> \in Seq(Modules) /\ Len(<<>>) = 0
  BY EmptySeq
<1> QED BY <1>1, <1>2, <1>3 DEF Exact, Repeated

\* A name that is entered.
Enter(tb, str) ==
    [strings |-> Append(tb.strings, str),
     index |-> [s \in DOMAIN tb.index \cup {str} |->
                   IF s = str THEN Len(tb.strings) ELSE tb.index[s]]]

LEMMA EnterFacts ==
    ASSUME NEW tb, tb.strings \in Seq(Modules), NEW str \in Modules
    PROVE  LET u == Enter(tb, str)
           IN  /\ u.strings \in Seq(Modules) /\ Len(u.strings) = Len(tb.strings) + 1
               /\ \A k \in 1 .. Len(tb.strings) : u.strings[k] = tb.strings[k]
               /\ u.strings[Len(tb.strings) + 1] = str
               /\ DOMAIN u.index = DOMAIN tb.index \cup {str}
               /\ u.index[str] = Len(tb.strings)
               /\ \A s \in DOMAIN tb.index : s # str => u.index[s] = tb.index[s]
<1>1. PICK u : u = Enter(tb, str)
  OBVIOUS
<1>2. u.strings = Append(tb.strings, str)
  BY <1>1 DEF Enter
<1>3. u.index = [s \in DOMAIN tb.index \cup {str} |->
                    IF s = str THEN Len(tb.strings) ELSE tb.index[s]]
  BY <1>1 DEF Enter
<1>4. /\ DOMAIN u.index = DOMAIN tb.index \cup {str} /\ u.index[str] = Len(tb.strings)
      /\ \A s \in DOMAIN tb.index : s # str => u.index[s] = tb.index[s]
  BY <1>3
<1>5. /\ u.strings \in Seq(Modules) /\ Len(u.strings) = Len(tb.strings) + 1
      /\ \A k \in 1 .. Len(tb.strings) : u.strings[k] = tb.strings[k]
      /\ u.strings[Len(tb.strings) + 1] = str
  BY <1>2, AppendProperties
<1> QED BY <1>1, <1>4, <1>5

LEMMA EnterExact ==
    ASSUME NEW tb, Exact(tb), NEW str \in Modules,
           ~(str \in DOMAIN tb.index /\ tb.index[str] # 0)
    PROVE  Exact(Enter(tb, str))
<1>1. PICK u : u = Enter(tb, str)
  OBVIOUS
<1>2. PICK old : old = tb.strings
  OBVIOUS
<1>3. PICK n : n = Len(old)
  OBVIOUS
<1>4. old \in Seq(Modules) /\ n \in Nat
  BY <1>2, <1>3, LenProperties DEF Exact
<1>5. /\ u.strings \in Seq(Modules) /\ Len(u.strings) = n + 1
      /\ \A k \in 1 .. n : u.strings[k] = old[k]
      /\ u.strings[n + 1] = str
      /\ DOMAIN u.index = DOMAIN tb.index \cup {str}
      /\ u.index[str] = n
      /\ \A s \in DOMAIN tb.index : s # str => u.index[s] = tb.index[s]
  BY <1>1, <1>2, <1>3, <1>4, EnterFacts
<1>6. \A s \in DOMAIN tb.index :
          tb.index[s] \in Nat /\ tb.index[s] < n /\ old[tb.index[s] + 1] = s
  BY <1>2, <1>3 DEF Exact
<1>7. IsFiniteSet(DOMAIN u.index)
  BY <1>5, FS_AddElement DEF Exact
<1>8. ASSUME NEW s \in DOMAIN u.index
      PROVE  u.index[s] \in Nat /\ u.index[s] < n + 1 /\ u.strings[u.index[s] + 1] = s
  <2>1. CASE s = str
    BY <1>4, <1>5, <2>1
  <2>2. CASE s # str
    <3>1. s \in DOMAIN tb.index
      BY <1>5, <1>8, <2>2
    <3>2. PICK k : k = tb.index[s]
      OBVIOUS
    <3>3. k \in Nat /\ k < n /\ old[k + 1] = s /\ u.index[s] = k
      BY <1>5, <1>6, <2>2, <3>1, <3>2
    <3>4. k + 1 \in 1 .. n
      BY <1>4, <3>3
    <3> QED BY <1>4, <1>5, <3>3, <3>4
  <2> QED BY <2>1, <2>2
<1>9. old = <<>> <=> n = 0
  BY <1>3, <1>4, EmptySeq
<1>10. u.strings # <<>>
  BY <1>4, <1>5, EmptySeq
<1>11. PICK d : d = Cardinality(DOMAIN tb.index)
  OBVIOUS
<1>12. d \in Nat
  BY <1>11, FS_CardinalityType DEF Exact
<1>13. CASE n = 0
  <2>1. DOMAIN tb.index = {}
    BY <1>4, <1>6, <1>13
  <2>2. d = 0 /\ Cardinality(DOMAIN u.index) = 1
    <3>1. DOMAIN u.index = {str}
      BY <1>5, <2>1
    <3> QED BY <1>11, <2>1, <3>1, FS_EmptySet, FS_Singleton
  <2>3. u.strings[1] = str /\ u.index[str] = 0
    BY <1>5, <1>13
  <2>4. ~Repeated(u)
    BY <2>3 DEF Repeated
  <2> QED BY <1>1, <1>5, <1>7, <1>8, <1>10, <1>13, <2>2, <2>3, <2>4 DEF Exact
<1>14. CASE n # 0
  <2>1. old # <<>> /\ old[1] \in DOMAIN tb.index
    BY <1>2, <1>9, <1>14 DEF Exact
  <2>2. PICK m : m = old[1]
    OBVIOUS
  <2>3. u.strings[1] = m
    BY <1>4, <1>5, <1>14, <2>2
  <2>4. n = d + (IF tb.index[m] # 0 THEN 1 ELSE 0)
    BY <1>2, <1>3, <1>11, <2>1, <2>2 DEF Exact, Repeated
  <2>5. Repeated(u) <=> u.index[m] # 0
    BY <1>10, <2>3 DEF Repeated
  <2>6. CASE str \in DOMAIN tb.index
    <3>1. tb.index[str] = 0
      BY <2>6
    <3>2. str = m
      BY <1>6, <2>2, <2>6, <3>1
    <3>3. u.index[m] # 0 /\ n = d
      BY <1>5, <1>12, <1>14, <2>4, <3>1, <3>2
    <3>4. DOMAIN u.index = DOMAIN tb.index
      BY <1>5, <2>6
    <3>5. Len(u.strings) = Cardinality(DOMAIN u.index) + 1
      BY <1>5, <1>11, <3>3, <3>4
    <3>6. Len(u.strings) = Cardinality(DOMAIN u.index) + (IF Repeated(u) THEN 1 ELSE 0)
      BY <2>5, <3>3, <3>5
    <3>7. u.strings[1] \in DOMAIN u.index
      BY <2>1, <2>2, <2>3, <3>4
    <3> QED BY <1>1, <1>5, <1>7, <1>8, <3>6, <3>7 DEF Exact
  <2>7. CASE str \notin DOMAIN tb.index
    <3>1. Cardinality(DOMAIN u.index) = d + 1
      <4>1. PICK names : names = DOMAIN tb.index
        OBVIOUS
      <4>2. IsFiniteSet(names) /\ str \notin names /\ DOMAIN u.index = names \cup {str}
        BY <1>5, <2>7, <4>1 DEF Exact
      <4>3. Cardinality(names \cup {str}) = Cardinality(names) + 1
        BY <4>2, FS_AddElement
      <4> QED BY <1>11, <4>1, <4>2, <4>3
    <3>2. u.index[m] = tb.index[m]
      BY <1>5, <2>1, <2>2, <2>7
    <3>3. Len(u.strings) = Cardinality(DOMAIN u.index) + (IF Repeated(u) THEN 1 ELSE 0)
      BY <1>5, <1>12, <2>4, <2>5, <3>1, <3>2
    <3> QED BY <1>1, <1>5, <1>7, <1>8, <2>1, <2>2, <2>3, <3>3 DEF Exact
  <2> QED BY <2>6, <2>7
<1> QED BY <1>13, <1>14

LEMMA InsertFacts ==
    ASSUME NEW tb, Exact(tb), NEW str \in Modules
    PROVE  LET u == _insert_string(tb, str)
           IN  /\ Exact(u) /\ DOMAIN u.index = DOMAIN tb.index \cup {str}
               /\ u.strings # <<>>
               /\ u.strings[1] = (IF tb.strings = <<>> THEN str ELSE tb.strings[1])
<1>1. CASE str \in DOMAIN tb.index /\ tb.index[str] # 0
  <2>1. _insert_string(tb, str) = tb
    BY <1>1 DEF _insert_string
  <2>2. tb.strings # <<>>
    BY <1>1, EmptySeq DEF Exact
  <2> QED BY <1>1, <2>1, <2>2
<1>2. CASE ~(str \in DOMAIN tb.index /\ tb.index[str] # 0)
  <2>1. PICK u : u = Enter(tb, str)
    OBVIOUS
  <2>2. _insert_string(tb, str) = u
    BY <1>2, <2>1 DEF _insert_string, Enter
  <2>3. Exact(u)
    BY <1>2, <2>1, EnterExact
  <2>4. PICK old \in Seq(Modules) : old = tb.strings
    BY DEF Exact
  <2>5. PICK n \in Nat : n = Len(old)
    BY LenProperties
  <2>6. /\ u.strings \in Seq(Modules) /\ Len(u.strings) = n + 1
        /\ \A k \in 1 .. n : u.strings[k] = old[k]
        /\ u.strings[n + 1] = str
        /\ DOMAIN u.index = DOMAIN tb.index \cup {str}
    BY <2>1, <2>4, <2>5, EnterFacts
  <2>7. u.strings # <<>> /\ (old = <<>> <=> n = 0)
    BY <2>5, <2>6, EmptySeq
  <2>8. u.strings[1] = (IF old = <<>> THEN str ELSE old[1])
    BY <2>6, <2>7
  <2> QED BY <2>2, <2>3, <2>4, <2>6, <2>7, <2>8
<1> QED BY <1>1, <1>2

-----------------------------------------------------------------------------
(* The names of a tape.                                                     *)

LEMMA ClassNamesFacts ==
    ASSUME NEW cref \in ClassRefs, NEW names, names = ClassNames(cref)
    PROVE  /\ names \in Seq(Identifiers)
           /\ DOMAIN names = 1 .. Len(names) /\ Len(names) \in Nat
           /\ \E k \in DOMAIN names : names[k] = cref.name
           /\ \A f \in DOMAIN cref.functions :
                 \E k \in DOMAIN names : names[k] = cref.functions[f].name
<1>1. /\ cref.name \in Identifiers /\ cref.functions \in Seq(FunctionRefs)
      /\ cref.fields \in Seq(Identifiers)
  BY DEF ClassRefs
<1>2. PICK refs \in Seq(FunctionRefs) : refs = cref.functions
  BY <1>1
<1>3. PICK n \in Nat : n = Len(refs) /\ DOMAIN refs = 1 .. n
  BY LenProperties
<1>4. \A f \in 1 .. n : refs[f].name \in Identifiers
  <2>1. \A f \in 1 .. n : refs[f] \in FunctionRefs
    BY <1>3, ElementOfSeq
  <2> QED BY <2>1 DEF FunctionRefs
<1>5. PICK ms : ms = Names(refs)
  OBVIOUS
<1>6. ms = [f \in 1 .. n |-> refs[f].name]
  BY <1>3, <1>5 DEF Names
<1>7. ASSUME NEW S, NEW s \in [1 .. n -> S] PROVE s \in Seq(S) /\ Len(s) = n
  OBVIOUS
<1>8. ms \in [1 .. n -> Identifiers]
  BY <1>4, <1>6
<1>9. ms \in Seq(Identifiers) /\ Len(ms) = n
  BY <1>7, <1>8
<1>10. PICK one : one = <<cref.name>>
  OBVIOUS
<1>11. one \in Seq(Identifiers) /\ Len(one) = 1 /\ one[1] = cref.name
  BY <1>1, <1>10
<1>12. PICK front : front = one \o ms
  OBVIOUS
<1>13. /\ front \in Seq(Identifiers) /\ Len(front) = 1 + n
       /\ front[1] = cref.name
       /\ \A f \in 1 .. n : front[f + 1] = refs[f].name
  <2>1. /\ front \in Seq(Identifiers) /\ Len(front) = Len(one) + Len(ms)
        /\ \A k \in 1 .. Len(one) + Len(ms) :
              front[k] = (IF k <= Len(one) THEN one[k] ELSE ms[k - Len(one)])
    BY <1>9, <1>11, <1>12, ConcatProperties
  <2>2. \A k \in 1 .. 1 + n : front[k] = (IF k <= 1 THEN one[k] ELSE ms[k - 1])
    BY <1>9, <1>11, <2>1
  <2>3. ASSUME NEW f \in 1 .. n PROVE front[f + 1] = refs[f].name
    <3>1. f + 1 \in 1 .. 1 + n /\ ~(f + 1 <= 1) /\ (f + 1) - 1 = f
      BY <2>3
    <3>2. front[f + 1] = ms[f]
      BY <2>2, <3>1
    <3> QED BY <1>6, <3>2
  <2> QED BY <1>9, <1>11, <2>1, <2>2, <2>3
<1>14. PICK fields \in Seq(Identifiers) : fields = cref.fields
  BY <1>1
<1>15. names = front \o fields
  BY <1>2, <1>5, <1>10, <1>12, <1>14 DEF ClassNames
<1>16. /\ names \in Seq(Identifiers) /\ Len(names) = Len(front) + Len(fields)
       /\ \A k \in 1 .. Len(front) + Len(fields) :
             names[k] = (IF k <= Len(front) THEN front[k] ELSE fields[k - Len(front)])
  <2>1. front \in Seq(Identifiers)
    BY <1>13
  <2> QED BY <1>15, <2>1, ConcatProperties
<1>17. DOMAIN names = 1 .. Len(names) /\ Len(names) \in Nat /\ Len(fields) \in Nat
  BY <1>16, LenProperties
<1>18. \A k \in 1 .. 1 + n : k \in DOMAIN names /\ names[k] = front[k]
  BY <1>13, <1>16, <1>17
<1>19. \A f \in 1 .. n : f + 1 \in DOMAIN names /\ names[f + 1] = refs[f].name
  <2> SUFFICES ASSUME NEW f \in 1 .. n
               PROVE  f + 1 \in DOMAIN names /\ names[f + 1] = refs[f].name
    OBVIOUS
  <2>1. f + 1 \in 1 .. 1 + n
    OBVIOUS
  <2> QED BY <1>13, <1>18, <2>1
<1>20. 1 \in DOMAIN names /\ names[1] = cref.name
  BY <1>13, <1>18
<1>21. \A f \in DOMAIN cref.functions : \E k \in DOMAIN names : names[k] = cref.functions[f].name
  BY <1>2, <1>3, <1>19
<1> QED BY <1>16, <1>17, <1>20, <1>21

\* The names of the first classes, functions and instructions are entered.
ClassEntered(cref, tb, n) ==
    \A k \in DOMAIN ClassNames(cref) : k < n => ClassNames(cref)[k] \in DOMAIN tb.index
ClassesEntered(t, tb, n) ==
    \A c \in DOMAIN t.classes : c < n =>
        \A k \in DOMAIN ClassNames(t.classes[c]) :
            ClassNames(t.classes[c])[k] \in DOMAIN tb.index
FunctionsEntered(t, tb, n) ==
    \A f \in DOMAIN t.functions : f < n => t.functions[f].name \in DOMAIN tb.index
InsEntered(t, tb, n) ==
    \A k \in DOMAIN t.ins : k < n /\ HasName(t.ins[k]) => t.ins[k].id \in DOMAIN tb.index

LEMMA NamesFacts ==
    ASSUME NEW t \in Tapes
    PROVE  /\ t.module \in NamesOf(t)
           /\ \A f \in DOMAIN t.functions :
                 t.functions[f].name \in NamesOf(t) /\ t.functions[f].name \in Identifiers
           /\ \A c \in DOMAIN t.classes : \A k \in DOMAIN ClassNames(t.classes[c]) :
                 /\ ClassNames(t.classes[c])[k] \in NamesOf(t)
                 /\ ClassNames(t.classes[c])[k] \in Identifiers
           /\ \A k \in DOMAIN t.ins : HasName(t.ins[k]) =>
                 t.ins[k].id \in NamesOf(t) /\ t.ins[k].id \in Identifiers
<1>1. /\ t.ins \in Seq(Instructions)
      /\ \A f \in DOMAIN t.functions : t.functions[f] \in FunctionRefs
      /\ \A c \in DOMAIN t.classes : t.classes[c] \in ClassRefs
  BY TypeFacts
<1>2. \A f \in DOMAIN t.functions :
         t.functions[f].name \in NamesOf(t) /\ t.functions[f].name \in Identifiers
  BY <1>1 DEF NamesOf, FunctionRefs
<1>3. ASSUME NEW c \in DOMAIN t.classes, NEW k \in DOMAIN ClassNames(t.classes[c])
      PROVE  /\ ClassNames(t.classes[c])[k] \in NamesOf(t)
             /\ ClassNames(t.classes[c])[k] \in Identifiers
  <2>1. PICK names : names = ClassNames(t.classes[c])
    OBVIOUS
  <2>2. names \in Seq(Identifiers) /\ DOMAIN names = 1 .. Len(names)
    BY <1>1, <2>1, ClassNamesFacts
  <2>3. names[k] \in ToSet(names) /\ names[k] \in Identifiers
    BY <2>1, <2>2, ElementOfSeq DEF ToSet
  <2>4. ToSet(names) \subseteq NamesOf(t)
    BY <2>1 DEF NamesOf
  <2> QED BY <2>1, <2>3, <2>4
<1>4. ASSUME NEW k \in DOMAIN t.ins, HasName(t.ins[k])
      PROVE  t.ins[k].id \in NamesOf(t) /\ t.ins[k].id \in Identifiers
  <2>1. t.ins[k] \in Instructions
    BY <1>1, LenProperties, ElementOfSeq
  <2>2. t.ins[k].id \in Identifiers
    BY <1>4, <2>1, InstructionAssumption
  <2>3. k \in {x \in DOMAIN t.ins : HasName(t.ins[x])}
    BY <1>4
  <2>4. t.ins[k].id \in {t.ins[x].id : x \in {n \in DOMAIN t.ins : HasName(t.ins[n])}}
    BY <2>3
  <2> QED BY <2>2, <2>4 DEF NamesOf
<1>5. t.module \in NamesOf(t)
  BY DEF NamesOf
<1> QED BY <1>2, <1>3, <1>4, <1>5

\* When all are entered the table has the names of the tape.
LEMMA AllEntered ==
    ASSUME NEW t \in Tapes, NEW tb, DOMAIN tb.index \subseteq NamesOf(t),
           t.module \in DOMAIN tb.index, ClassesEntered(t, tb, Len(t.classes) + 1),
           FunctionsEntered(t, tb, Len(t.functions) + 1),
           InsEntered(t, tb, tape_size(t) + 1)
    PROVE  DOMAIN tb.index = NamesOf(t)
<1>1. /\ DOMAIN t.classes = 1 .. Len(t.classes) /\ Len(t.classes) \in Nat
      /\ DOMAIN t.functions = 1 .. Len(t.functions) /\ Len(t.functions) \in Nat
      /\ DOMAIN t.ins = 1 .. tape_size(t) /\ tape_size(t) \in Nat
  BY TypeFacts, LenProperties DEF tape_size
<1>2. \A f \in DOMAIN t.functions : t.functions[f].name \in DOMAIN tb.index
  BY <1>1 DEF FunctionsEntered
<1>3. \A c \in DOMAIN t.classes : \A k \in DOMAIN ClassNames(t.classes[c]) :
         ClassNames(t.classes[c])[k] \in DOMAIN tb.index
  <2>1. \A c \in DOMAIN t.classes : c < Len(t.classes) + 1
    BY <1>1
  <2> QED BY <2>1 DEF ClassesEntered
<1>4. \A k \in DOMAIN t.ins : HasName(t.ins[k]) => t.ins[k].id \in DOMAIN tb.index
  BY <1>1 DEF InsEntered
<1>5. ASSUME NEW c \in DOMAIN t.classes
      PROVE  ToSet(ClassNames(t.classes[c])) \subseteq DOMAIN tb.index
  BY <1>3 DEF ToSet
<1>6. \A x \in UNION {ToSet(ClassNames(t.classes[c])) : c \in DOMAIN t.classes} :
          x \in DOMAIN tb.index
  BY <1>5
<1>7. \A x \in {t.ins[k].id : k \in {n \in DOMAIN t.ins : HasName(t.ins[n])}} :
          x \in DOMAIN tb.index
  BY <1>4
<1>8. NamesOf(t) \subseteq DOMAIN tb.index
  <2> SUFFICES ASSUME NEW x \in NamesOf(t) PROVE x \in DOMAIN tb.index
    OBVIOUS
  <2>1. \/ x = t.module
        \/ x \in {t.functions[f].name : f \in DOMAIN t.functions}
        \/ x \in UNION {ToSet(ClassNames(t.classes[c])) : c \in DOMAIN t.classes}
        \/ x \in {t.ins[k].id : k \in {n \in DOMAIN t.ins : HasName(t.ins[n])}}
    BY Zenon DEF NamesOf
  <2> QED BY <1>2, <1>6, <1>7, <2>1
<1> QED BY <1>8

-----------------------------------------------------------------------------
(* What is in the file.                                                     *)

LEMMA TwoBytes ==
    ASSUME NEW n \in Nat, n <= UINT16_MAX
    PROVE  UInt16(n) = n
<1>1. ASSUME NEW m \in Nat, n <= m PROVE n % (m + 1) = n
  BY <1>1
<1> QED BY <1>1, WidthAssumption DEF UInt16

LEMMA OneByte ==
    ASSUME NEW n \in Nat, n <= UINT8_MAX
    PROVE  UInt8(n) = n
<1>1. ASSUME NEW m \in Nat, n <= m PROVE n % (m + 1) = n
  BY <1>1
<1> QED BY <1>1, WidthAssumption DEF UInt8

\* The tape t and the table tb when the file is written.
Ready(t, tb) ==
    /\ t \in Tapes /\ t.ok /\ t.current_class = 0 /\ Sound(t) /\ Fits(t)
    /\ Exact(tb) /\ DOMAIN tb.index = NamesOf(t)
    /\ tb.strings # <<>> /\ tb.strings[1] = t.module

\* The index of a name is written as it is, and leads to the name.
LEMMA NameFacts ==
    ASSUME NEW t, NEW tb, Ready(t, tb)
    PROVE  /\ Len(tb.strings) \in Nat /\ Len(tb.strings) <= UINT16_MAX
           /\ \A s \in NamesOf(t) :
                 /\ UInt16(tb.index[s]) = tb.index[s]
                 /\ tb.index[s] \in Nat /\ tb.index[s] < Len(tb.strings)
                 /\ tb.strings[tb.index[s] + 1] = s
<1>1. PICK c \in Nat : c = Cardinality(NamesOf(t))
  BY FS_CardinalityType DEF Ready, Exact
<1>2. PICK n \in Nat : n = Len(tb.strings)
  BY LenProperties DEF Ready, Exact
<1>3. c < UINT16_MAX
  BY <1>1 DEF Ready, Fits
<1>4. n = c + (IF Repeated(tb) THEN 1 ELSE 0)
  BY <1>1, <1>2 DEF Ready, Exact
<1>5. n <= UINT16_MAX
  BY <1>3, <1>4, WidthAssumption
<1>6. ASSUME NEW s \in NamesOf(t)
      PROVE  /\ tb.index[s] \in Nat /\ tb.index[s] < n /\ tb.strings[tb.index[s] + 1] = s
             /\ UInt16(tb.index[s]) = tb.index[s]
  <2>1. PICK k : k = tb.index[s]
    OBVIOUS
  <2>2. k \in Nat /\ k < n /\ tb.strings[k + 1] = s
    BY <1>2, <1>6, <2>1 DEF Ready, Exact
  <2>3. k <= UINT16_MAX
    BY <1>5, <2>2, WidthAssumption
  <2>4. UInt16(k) = k
    BY <2>2, <2>3, TwoBytes
  <2> QED BY <2>1, <2>2, <2>4
<1> QED BY <1>2, <1>5, <1>6

\* The writer and the reader agree on the width of an index: the number of
\* strings and the number of names are on the same side of UINT8_MAX.
LEMMA SameWidth ==
    ASSUME NEW t, NEW tb, Ready(t, tb)
    PROVE  (Cardinality(DOMAIN tb.index) > UINT8_MAX) <=> (Len(tb.strings) > UINT8_MAX)
<1>1. PICK c \in Nat : c = Cardinality(NamesOf(t))
  BY FS_CardinalityType DEF Ready, Exact
<1>2. PICK n \in Nat : n = Len(tb.strings)
  BY NameFacts
<1>3. n = c + (IF Repeated(tb) THEN 1 ELSE 0)
  BY <1>1, <1>2 DEF Ready, Exact
<1>4. n = c \/ n = c + 1
  BY <1>3
<1>5. c # UINT8_MAX
  BY <1>1 DEF Ready, Fits
<1>6. (c > UINT8_MAX) <=> (n > UINT8_MAX)
  BY <1>4, <1>5, WidthAssumption
<1> QED BY <1>1, <1>2, <1>6 DEF Ready

LEMMA IndicesFit ==
    ASSUME NEW t, NEW tb, Ready(t, tb)
    PROVE  /\ tape_size(t) \in Nat /\ UInt16(tape_size(t)) = tape_size(t)
           /\ \A f \in DOMAIN t.functions :
                 t.functions[f].index \in Nat /\ t.functions[f].index <= UINT16_MAX
           /\ \A c \in DOMAIN t.classes :
                 /\ t.classes[c].start_index \in Nat /\ t.classes[c].start_index <= UINT16_MAX
                 /\ t.classes[c].end_index \in Nat /\ t.classes[c].end_index <= UINT16_MAX
                 /\ \A m \in DOMAIN t.classes[c].functions :
                       /\ t.classes[c].functions[m].index \in Nat
                       /\ t.classes[c].functions[m].index <= UINT16_MAX
<1>1. PICK n \in Nat : n = tape_size(t)
  BY TypeFacts DEF Ready
<1>2. n <= UINT16_MAX
  BY <1>1 DEF Ready, Fits
<1>3. ASSUME NEW k \in Nat, k <= n PROVE k <= UINT16_MAX
  BY <1>2, <1>3, WidthAssumption
<1>4. \A f \in DOMAIN t.functions :
         t.functions[f].index \in Nat /\ t.functions[f].index <= n
  BY <1>1, TypeFacts DEF Ready, Sound, InOrder
<1>5. ASSUME NEW c \in DOMAIN t.classes
      PROVE  /\ t.classes[c].start_index \in Nat /\ t.classes[c].start_index <= n
             /\ t.classes[c].end_index \in Nat /\ t.classes[c].end_index <= n
             /\ \A m \in DOMAIN t.classes[c].functions :
                   /\ t.classes[c].functions[m].index \in Nat
                   /\ t.classes[c].functions[m].index <= n
  <2>1. c # 0
    BY TypeFacts, LenProperties DEF Ready
  <2>2. EndOf(t, c) = t.classes[c].end_index
    BY <2>1 DEF EndOf, Ready
  <2>3. /\ t.classes[c].start_index \in Nat /\ t.classes[c].end_index \in Nat
        /\ \A m \in DOMAIN t.classes[c].functions : t.classes[c].functions[m].index \in Nat
    BY TypeFacts DEF Ready
  <2>4. /\ t.classes[c].start_index <= t.classes[c].end_index /\ t.classes[c].end_index <= n
        /\ \A m \in DOMAIN t.classes[c].functions :
              t.classes[c].functions[m].index \in t.classes[c].start_index .. t.classes[c].end_index
    BY <1>1, <2>2 DEF Ready, Sound, InOrder, ClassInOrder
  <2>5. \A m \in DOMAIN t.classes[c].functions :
           t.classes[c].functions[m].index <= t.classes[c].end_index
    BY <2>3, <2>4
  <2> QED BY <2>3, <2>4, <2>5
<1> QED BY <1>1, <1>2, <1>3, <1>4, <1>5, TwoBytes

\* A function, a class and an instruction in the file.
LEMMA RefInFile ==
    ASSUME NEW t, NEW tb, Ready(t, tb), NEW fref, fref.name \in NamesOf(t),
           fref.index \in Nat, fref.index <= UINT16_MAX,
           NEW r, r = _serialize_function_ref(fref, tb)
    PROVE  tb.strings[r.name + 1] = fref.name /\ r.index = fref.index
<1>1. r.name = UInt16(tb.index[fref.name]) /\ r.index = UInt16(fref.index)
  BY DEF _serialize_function_ref
<1>2. r.index = fref.index
  BY <1>1, TwoBytes
<1> QED BY <1>1, <1>2, NameFacts

LEMMA ClassInFile ==
    ASSUME NEW t, NEW tb, Ready(t, tb), NEW cref \in ClassRefs, cref.name \in NamesOf(t),
           cref.start_index <= UINT16_MAX, cref.end_index <= UINT16_MAX,
           NEW c, c = _serialize_class_ref(cref, tb)
    PROVE  /\ tb.strings[c.name + 1] = cref.name
           /\ c.start = cref.start_index /\ c.end = cref.end_index
           /\ Len(c.methods) = Len(cref.functions)
           /\ \A m \in 1 .. Len(cref.functions) :
                 c.methods[m] = _serialize_function_ref(cref.functions[m], tb)
<1>1. /\ c.name = UInt16(tb.index[cref.name]) /\ c.start = UInt16(cref.start_index)
      /\ c.end = UInt16(cref.end_index)
      /\ c.methods = [m \in 1 .. Len(cref.functions) |->
                          _serialize_function_ref(cref.functions[m], tb)]
  BY DEF _serialize_class_ref
<1>2. /\ cref.start_index \in Nat /\ cref.end_index \in Nat
      /\ cref.functions \in Seq(FunctionRefs)
  BY DEF ClassRefs
<1>3. c.start = cref.start_index /\ c.end = cref.end_index
  BY <1>1, <1>2, TwoBytes
<1>4. tb.strings[c.name + 1] = cref.name
  BY <1>1, NameFacts
<1>5. PICK n \in Nat : n = Len(cref.functions)
  BY <1>2, LenProperties
<1>6. Len(c.methods) = n
  BY <1>1, <1>5
<1> QED BY <1>1, <1>3, <1>4, <1>5, <1>6

LEMMA InsInFile ==
    ASSUME NEW t, NEW tb, Ready(t, tb), NEW ins \in Instructions,
           HasName(ins) => ins.id \in NamesOf(t),
           NEW f, f.strings = tb.strings, NEW x, x = serialize_ins(ins, tb)
    PROVE  ~WrongWidth(f, x) /\ deserialize_ins(f, x) = ins
<1>1. x.op = ins.op /\ x.arg = ins.arg /\ x.n = ins.n
  BY DEF serialize_ins
<1>2. x.short = (Cardinality(DOMAIN tb.index) > UINT8_MAX)
  BY DEF serialize_ins
<1>3. HasName(x) <=> HasName(ins)
  BY <1>1 DEF HasName
<1>4. ~WrongWidth(f, x)
  BY <1>2, SameWidth DEF WrongWidth
<1>5. ins = [op |-> ins.op, arg |-> ins.arg, id |-> ins.id, n |-> ins.n]
  BY InstructionAssumption
<1>6. CASE ~HasName(ins)
  <2>1. ins.id = ""
    BY <1>6, InstructionAssumption
  <2>2. deserialize_ins(f, x) = [op |-> x.op, arg |-> x.arg, id |-> "", n |-> x.n]
    BY <1>3, <1>6 DEF deserialize_ins
  <2> QED BY <1>1, <1>4, <1>5, <2>1, <2>2
<1>7. CASE HasName(ins)
  <2>1. PICK k : k = tb.index[ins.id]
    OBVIOUS
  <2>2. PICK n : n = Len(tb.strings)
    OBVIOUS
  <2>3. /\ k \in Nat /\ n \in Nat /\ k < n /\ UInt16(k) = k
        /\ tb.strings[k + 1] = ins.id
    BY <1>7, <2>1, <2>2, NameFacts
  <2>4. x.ref = IF Cardinality(DOMAIN tb.index) > UINT8_MAX THEN UInt16(k) ELSE UInt8(UInt16(k))
    BY <1>7, <2>1 DEF serialize_ins
  <2>5. x.ref = k
    <3>1. CASE n > UINT8_MAX
      BY <2>2, <2>3, <2>4, <3>1, SameWidth
    <3>2. CASE ~(n > UINT8_MAX)
      <4>1. k <= UINT8_MAX
        BY <2>3, <3>2, WidthAssumption
      <4>2. UInt8(k) = k
        BY <2>3, <4>1, OneByte
      <4> QED BY <2>2, <2>3, <2>4, <3>2, <4>2, SameWidth
    <3> QED BY <3>1, <3>2
  <2>6. deserialize_ins(f, x) = [op |-> x.op, arg |-> x.arg, id |-> f.strings[x.ref + 1], n |-> x.n]
    BY <1>3, <1>7 DEF deserialize_ins
  <2> QED BY <1>1, <1>4, <1>5, <2>3, <2>5, <2>6
<1> QED BY <1>6, <1>7

LEMMA FileFacts ==
    ASSUME NEW t, NEW tb, Ready(t, tb), NEW f, f = WriteBinary(t, tb)
    PROVE  /\ f.strings = tb.strings
           /\ Len(f.refs) = Len(t.functions)
           /\ \A k \in 1 .. Len(t.functions) :
                 f.refs[k] = _serialize_function_ref(t.functions[k], tb)
           /\ Len(f.classes) = Len(t.classes)
           /\ \A k \in 1 .. Len(t.classes) :
                 f.classes[k] = _serialize_class_ref(t.classes[k], tb)
           /\ Len(f.ins) = Len(t.ins)
           /\ \A k \in 1 .. Len(t.ins) : f.ins[k] = serialize_ins(t.ins[k], tb)
<1>1. PICK a, b, c, d : /\ a = Len(tb.strings) /\ b = Len(t.functions)
                        /\ c = Len(t.classes) /\ d = Len(t.ins)
  OBVIOUS
<1>2. a \in Nat /\ b \in Nat /\ c \in Nat /\ d \in Nat
  BY <1>1, NameFacts, TypeFacts, LenProperties DEF Ready
<1>3. UInt16(a) = a /\ UInt16(b) = b /\ UInt16(c) = c /\ UInt16(d) = d
  <2>1. a <= UINT16_MAX /\ b <= UINT16_MAX /\ c <= UINT16_MAX /\ d <= UINT16_MAX
    BY <1>1, NameFacts DEF Ready, Fits, Countable, tape_size
  <2> QED BY <1>2, <2>1, TwoBytes
<1>4. /\ f.strings = SubSeq(tb.strings, 1, a)
      /\ f.refs = [k \in 1 .. b |-> _serialize_function_ref(t.functions[k], tb)]
      /\ f.classes = [k \in 1 .. c |-> _serialize_class_ref(t.classes[k], tb)]
      /\ f.ins = [k \in 1 .. d |-> serialize_ins(t.ins[k], tb)]
  BY <1>1, <1>3 DEF WriteBinary
<1>5. SubSeq(tb.strings, 1, a) = tb.strings
  BY <1>1, PrefixEnds DEF Ready, Exact, Prefix
<1>6. Len(f.refs) = b /\ Len(f.classes) = c /\ Len(f.ins) = d
  BY <1>2, <1>4
<1> QED BY <1>1, <1>4, <1>5, <1>6

-----------------------------------------------------------------------------
(* Entering the names.                                                      *)

\* The names of the tape t that are entered into the table tb at the stage s,
\* with the counters n and k.
OfTape(t, tb) ==
    /\ Exact(tb) /\ tb.strings # <<>> /\ tb.strings[1] = t.module
    /\ DOMAIN tb.index \subseteq NamesOf(t) /\ t.module \in DOMAIN tb.index

InternStages == {"intern_classes", "intern_functions", "intern_ins"}
ReadStages == {"read_refs", "read_classes", "read_methods", "read_ins"}
FullStages == ReadStages \cup {"write_bytecode", "from_bytecode"}

Entered(t, tb, s, n, k) ==
    /\ s = "intern_classes" =>
          /\ ClassesEntered(t, tb, n)
          /\ n \in DOMAIN t.classes => ClassEntered(t.classes[n], tb, k)
    /\ s \in {"intern_functions", "intern_ins"} => ClassesEntered(t, tb, Len(t.classes) + 1)
    /\ s = "intern_functions" => FunctionsEntered(t, tb, n)
    /\ s = "intern_ins" =>
          FunctionsEntered(t, tb, Len(t.functions) + 1) /\ InsEntered(t, tb, n)

Interned(t, tb, s, n, k) ==
    /\ s \in InternStages => OfTape(t, tb) /\ n >= 1 /\ k >= 1 /\ Entered(t, tb, s, n, k)
    /\ s \in FullStages => OfTape(t, tb) /\ DOMAIN tb.index = NamesOf(t)

LEMMA InsertOfTape ==
    ASSUME NEW t \in Tapes, NEW tb, OfTape(t, tb), NEW str \in Modules, str \in NamesOf(t),
           NEW u, u = _insert_string(tb, str)
    PROVE  OfTape(t, u) /\ DOMAIN u.index = DOMAIN tb.index \cup {str}
<1>1. /\ Exact(u) /\ DOMAIN u.index = DOMAIN tb.index \cup {str} /\ u.strings # <<>>
      /\ u.strings[1] = (IF tb.strings = <<>> THEN str ELSE tb.strings[1])
  BY InsertFacts DEF OfTape
<1> QED BY <1>1 DEF OfTape

LEMMA StillEntered ==
    ASSUME NEW t, NEW tb, NEW u, DOMAIN tb.index \subseteq DOMAIN u.index
    PROVE  /\ \A n : ClassesEntered(t, tb, n) => ClassesEntered(t, u, n)
           /\ \A n : FunctionsEntered(t, tb, n) => FunctionsEntered(t, u, n)
           /\ \A n : InsEntered(t, tb, n) => InsEntered(t, u, n)
           /\ \A cref, n : ClassEntered(cref, tb, n) => ClassEntered(cref, u, n)
  BY DEF ClassesEntered, FunctionsEntered, InsEntered, ClassEntered

LEMMA StartInterned ==
    ASSUME NEW t \in Tapes, NEW u, u = _insert_string(EmptyTable, t.module)
    PROVE  Interned(t, u, "intern_classes", 1, 1)
<1>1. t.module \in Modules /\ t.module \in NamesOf(t)
  BY NamesFacts DEF Tapes, Modules
<1>2. EmptyTable.strings = <<>> /\ DOMAIN EmptyTable.index = {}
  BY DEF EmptyTable
<1>3. /\ Exact(u) /\ DOMAIN u.index = {t.module} /\ u.strings # <<>>
      /\ u.strings[1] = t.module
  BY <1>1, <1>2, ExactEmpty, InsertFacts
<1>4. OfTape(t, u)
  BY <1>1, <1>3 DEF OfTape
<1>5. DOMAIN t.classes = 1 .. Len(t.classes)
  BY TypeFacts, LenProperties
<1>6. ClassesEntered(t, u, 1)
  BY <1>5 DEF ClassesEntered
<1>7. ASSUME NEW c \in DOMAIN t.classes PROVE ClassEntered(t.classes[c], u, 1)
  <2>1. DOMAIN ClassNames(t.classes[c]) = 1 .. Len(ClassNames(t.classes[c]))
    BY TypeFacts, ClassNamesFacts
  <2> QED BY <2>1 DEF ClassEntered
<1> QED BY <1>4, <1>6, <1>7 DEF Interned, Entered, FullStages, ReadStages

\* A name of a class, or the next class.
LEMMA ClassInterned ==
    ASSUME NEW t \in Tapes, NEW tb, NEW n \in Nat, NEW k \in Nat,
           Interned(t, tb, "intern_classes", n, k), n <= Len(t.classes),
           NEW names, names = ClassNames(t.classes[n])
    PROVE  /\ k <= Len(names) =>
                 Interned(t, _insert_string(tb, names[k]), "intern_classes", n, k + 1)
           /\ k > Len(names) => Interned(t, tb, "intern_classes", n + 1, 1)
<1>1. /\ OfTape(t, tb) /\ n >= 1 /\ k >= 1 /\ ClassesEntered(t, tb, n)
      /\ n \in DOMAIN t.classes => ClassEntered(t.classes[n], tb, k)
  BY DEF Interned, Entered, InternStages
<1>2. n \in DOMAIN t.classes /\ t.classes[n] \in ClassRefs
      /\ DOMAIN t.classes = 1 .. Len(t.classes) /\ Len(t.classes) \in Nat
  BY <1>1, TypeFacts, LenProperties
<1>3. DOMAIN names = 1 .. Len(names) /\ Len(names) \in Nat
  BY <1>2, ClassNamesFacts
<1>4. ASSUME k <= Len(names)
      PROVE  Interned(t, _insert_string(tb, names[k]), "intern_classes", n, k + 1)
  <2>1. PICK str : str = names[k]
    OBVIOUS
  <2>2. PICK u : u = _insert_string(tb, str)
    OBVIOUS
  <2>3. k \in DOMAIN names
    BY <1>1, <1>3, <1>4
  <2>4. str \in NamesOf(t) /\ str \in Modules
    BY <1>2, <2>1, <2>3, NamesFacts DEF Modules
  <2>5. OfTape(t, u) /\ DOMAIN u.index = DOMAIN tb.index \cup {str}
    BY <1>1, <2>2, <2>4, InsertOfTape
  <2>6. ClassesEntered(t, u, n) /\ ClassEntered(t.classes[n], u, k)
    BY <1>1, <1>2, <2>5, StillEntered
  <2>7. ASSUME NEW x \in DOMAIN names, x < k + 1 PROVE names[x] \in DOMAIN u.index
    <3>1. CASE x < k
      BY <2>6, <3>1 DEF ClassEntered
    <3>2. CASE ~(x < k)
      <4>1. x = k
        BY <1>3, <2>3, <2>7, <3>2
      <4> QED BY <2>1, <2>5, <4>1
    <3> QED BY <3>1, <3>2
  <2>8. ClassEntered(t.classes[n], u, k + 1)
    BY <2>7 DEF ClassEntered
  <2> QED BY <1>1, <2>1, <2>2, <2>5, <2>6, <2>8 DEF Interned, Entered, FullStages, ReadStages
<1>5. ASSUME k > Len(names) PROVE Interned(t, tb, "intern_classes", n + 1, 1)
  <2>1. \A x \in DOMAIN names : names[x] \in DOMAIN tb.index
    BY <1>1, <1>2, <1>3, <1>5 DEF ClassEntered
  <2>2. ASSUME NEW c \in DOMAIN t.classes, c < n + 1, NEW x \in DOMAIN ClassNames(t.classes[c])
        PROVE  ClassNames(t.classes[c])[x] \in DOMAIN tb.index
    <3>1. CASE c = n
      BY <2>1, <3>1
    <3>2. CASE c # n
      BY <1>1, <1>2, <2>2, <3>2 DEF ClassesEntered
    <3> QED BY <3>1, <3>2
  <2>3. ClassesEntered(t, tb, n + 1)
    BY <2>2 DEF ClassesEntered
  <2>4. ASSUME NEW c \in DOMAIN t.classes PROVE ClassEntered(t.classes[c], tb, 1)
    <3>1. DOMAIN ClassNames(t.classes[c]) = 1 .. Len(ClassNames(t.classes[c]))
      BY TypeFacts, ClassNamesFacts
    <3> QED BY <3>1 DEF ClassEntered
  <2>5. n + 1 >= 1
    OBVIOUS
  <2> QED BY <1>1, <2>3, <2>4, <2>5 DEF Interned, Entered, FullStages, ReadStages
<1> QED BY <1>4, <1>5

LEMMA FunctionInterned ==
    ASSUME NEW t \in Tapes, NEW tb, NEW n \in Nat, NEW k \in Nat,
           Interned(t, tb, "intern_functions", n, k), n <= Len(t.functions),
           NEW u, u = _insert_string(tb, t.functions[n].name)
    PROVE  Interned(t, u, "intern_functions", n + 1, k)
<1>1. /\ OfTape(t, tb) /\ n >= 1 /\ k >= 1 /\ FunctionsEntered(t, tb, n)
      /\ ClassesEntered(t, tb, Len(t.classes) + 1)
  BY DEF Interned, Entered, InternStages
<1>2. n \in DOMAIN t.functions /\ DOMAIN t.functions = 1 .. Len(t.functions)
  BY <1>1, TypeFacts, LenProperties
<1>3. PICK str : str = t.functions[n].name
  OBVIOUS
<1>4. str \in NamesOf(t) /\ str \in Modules
  BY <1>2, <1>3, NamesFacts DEF Modules
<1>5. OfTape(t, u) /\ DOMAIN u.index = DOMAIN tb.index \cup {str}
  BY <1>1, <1>3, <1>4, InsertOfTape
<1>6. ClassesEntered(t, u, Len(t.classes) + 1) /\ FunctionsEntered(t, u, n)
  BY <1>1, <1>5, StillEntered
<1>7. ASSUME NEW f \in DOMAIN t.functions, f < n + 1
      PROVE  t.functions[f].name \in DOMAIN u.index
  <2>1. CASE f < n
    BY <1>6, <2>1 DEF FunctionsEntered
  <2>2. CASE ~(f < n)
    <3>1. f = n
      BY <1>2, <1>7, <2>2
    <3> QED BY <1>3, <1>5, <3>1
  <2> QED BY <2>1, <2>2
<1>8. FunctionsEntered(t, u, n + 1)
  BY <1>7 DEF FunctionsEntered
<1>9. n + 1 >= 1
  OBVIOUS
<1> QED BY <1>1, <1>5, <1>6, <1>8, <1>9 DEF Interned, Entered, FullStages, ReadStages

LEMMA InsInterned ==
    ASSUME NEW t \in Tapes, NEW tb, NEW n \in Nat, NEW k \in Nat,
           Interned(t, tb, "intern_ins", n, k), n <= tape_size(t),
           NEW u, u = IF HasName(t.ins[n]) THEN _insert_string(tb, t.ins[n].id) ELSE tb
    PROVE  Interned(t, u, "intern_ins", n + 1, k)
<1>1. /\ OfTape(t, tb) /\ n >= 1 /\ k >= 1 /\ FunctionsEntered(t, tb, Len(t.functions) + 1)
      /\ ClassesEntered(t, tb, Len(t.classes) + 1) /\ InsEntered(t, tb, n)
  BY DEF Interned, Entered, InternStages
<1>2. n \in DOMAIN t.ins /\ DOMAIN t.ins = 1 .. Len(t.ins)
  BY <1>1, TypeFacts, LenProperties DEF tape_size
<1>3. /\ OfTape(t, u) /\ DOMAIN tb.index \subseteq DOMAIN u.index
      /\ HasName(t.ins[n]) => t.ins[n].id \in DOMAIN u.index
  <2>1. CASE HasName(t.ins[n])
    <3>1. PICK str : str = t.ins[n].id
      OBVIOUS
    <3>2. str \in NamesOf(t) /\ str \in Modules
      BY <1>2, <2>1, <3>1, NamesFacts DEF Modules
    <3>3. u = _insert_string(tb, str)
      BY <2>1, <3>1
    <3>4. OfTape(t, u) /\ DOMAIN u.index = DOMAIN tb.index \cup {str}
      BY <1>1, <3>2, <3>3, InsertOfTape
    <3> QED BY <3>1, <3>4
  <2>2. CASE ~HasName(t.ins[n])
    BY <1>1, <2>2
  <2> QED BY <2>1, <2>2
<1>4. /\ ClassesEntered(t, u, Len(t.classes) + 1) /\ FunctionsEntered(t, u, Len(t.functions) + 1)
      /\ InsEntered(t, u, n)
  BY <1>1, <1>3, StillEntered
<1>5. ASSUME NEW x \in DOMAIN t.ins, x < n + 1, HasName(t.ins[x])
      PROVE  t.ins[x].id \in DOMAIN u.index
  <2>1. CASE x < n
    BY <1>4, <1>5, <2>1 DEF InsEntered
  <2>2. CASE ~(x < n)
    <3>1. x = n
      BY <1>2, <1>5, <2>2
    <3> QED BY <1>3, <1>5, <3>1
  <2> QED BY <2>1, <2>2
<1>6. InsEntered(t, u, n + 1)
  BY <1>5 DEF InsEntered
<1>7. n + 1 >= 1
  OBVIOUS
<1> QED BY <1>1, <1>3, <1>4, <1>6, <1>7 DEF Interned, Entered, FullStages, ReadStages

\* At the end of each loop all the names it is about are entered.
LEMMA LoopInterned ==
    ASSUME NEW t \in Tapes, NEW tb, NEW n \in Nat, NEW k \in Nat
    PROVE  /\ Interned(t, tb, "intern_classes", n, k) /\ n > Len(t.classes)
                => Interned(t, tb, "intern_functions", 1, 1)
           /\ Interned(t, tb, "intern_functions", n, k) /\ n > Len(t.functions)
                => Interned(t, tb, "intern_ins", 1, 1)
           /\ Interned(t, tb, "intern_ins", n, k) /\ n > tape_size(t)
                => Interned(t, tb, "write_bytecode", 1, 1)
<1>1. /\ DOMAIN t.classes = 1 .. Len(t.classes) /\ Len(t.classes) \in Nat
      /\ DOMAIN t.functions = 1 .. Len(t.functions) /\ Len(t.functions) \in Nat
      /\ DOMAIN t.ins = 1 .. tape_size(t) /\ tape_size(t) \in Nat
  BY TypeFacts, LenProperties DEF tape_size
<1>2. FunctionsEntered(t, tb, 1) /\ InsEntered(t, tb, 1)
  BY <1>1 DEF FunctionsEntered, InsEntered
<1>3. ASSUME Interned(t, tb, "intern_classes", n, k), n > Len(t.classes)
      PROVE  Interned(t, tb, "intern_functions", 1, 1)
  <2>1. OfTape(t, tb) /\ ClassesEntered(t, tb, n)
    BY <1>3 DEF Interned, Entered, InternStages
  <2>2. \A c \in DOMAIN t.classes : c < n
    BY <1>1, <1>3
  <2>3. ClassesEntered(t, tb, Len(t.classes) + 1)
    BY <2>1, <2>2 DEF ClassesEntered
  <2> QED BY <1>2, <2>1, <2>3 DEF Interned, Entered, FullStages, ReadStages
<1>4. ASSUME Interned(t, tb, "intern_functions", n, k), n > Len(t.functions)
      PROVE  Interned(t, tb, "intern_ins", 1, 1)
  <2>1. /\ OfTape(t, tb) /\ ClassesEntered(t, tb, Len(t.classes) + 1)
        /\ FunctionsEntered(t, tb, n)
    BY <1>4 DEF Interned, Entered, InternStages
  <2>2. FunctionsEntered(t, tb, Len(t.functions) + 1)
    BY <1>1, <1>4, <2>1 DEF FunctionsEntered
  <2> QED BY <1>2, <2>1, <2>2 DEF Interned, Entered, FullStages, ReadStages
<1>5. ASSUME Interned(t, tb, "intern_ins", n, k), n > tape_size(t)
      PROVE  Interned(t, tb, "write_bytecode", 1, 1)
  <2>1. /\ OfTape(t, tb) /\ ClassesEntered(t, tb, Len(t.classes) + 1)
        /\ FunctionsEntered(t, tb, Len(t.functions) + 1) /\ InsEntered(t, tb, n)
    BY <1>5 DEF Interned, Entered, InternStages
  <2>2. InsEntered(t, tb, tape_size(t) + 1)
    BY <1>1, <1>5, <2>1 DEF InsEntered
  <2>3. DOMAIN tb.index = NamesOf(t)
    BY <2>1, <2>2, AllEntered DEF OfTape
  <2> QED BY <2>1, <2>3 DEF Interned, InternStages
<1> QED BY <1>3, <1>4, <1>5

\* The file is written and read with the table as it is.
LEMMA StaysInterned ==
    ASSUME NEW t, NEW tb, NEW s, NEW n, NEW k, Interned(t, tb, s, n, k), s \in FullStages,
           NEW s2 \in FullStages \cup {"garbled"}, NEW n2, NEW k2
    PROVE  Interned(t, tb, s2, n2, k2)
<1>1. s2 \notin InternStages
  BY DEF InternStages, FullStages, ReadStages
<1> QED BY <1>1 DEF Interned

\* The names of the tape that the loops have passed are in the table, and none
\* that the tape does not have.
TableInv ==
    /\ TapeInv
    /\ stage # "build" => tape.ok /\ tape.current_class = 0
    /\ Exact(table)
    /\ Interned(tape, table, stage, i, j)

LEMMA TableStep ==
    ASSUME TableInv, TapeInv', UNCHANGED tape, tape.ok, tape.current_class = 0,
           Exact(table'), Interned(tape, table', stage', i', j')
    PROVE  TableInv'
  BY DEF TableInv

\* The steps that have nothing to do with the table.
LEMMA OtherTableStep ==
    ASSUME TableInv, TapeInv', UNCHANGED table, stage' \notin InternStages \cup FullStages,
           \/ stage' = "build"
           \/ UNCHANGED tape /\ tape.ok /\ tape.current_class = 0
    PROVE  TableInv'
<1>1. Interned(tape', table', stage', i', j')
  BY DEF Interned
<1> QED BY <1>1 DEF TableInv

LEMMA InternStep ==
    ASSUME TableInv, TapeInv', InternClass \/ InternFunction \/ InternInstruction
    PROVE  TableInv'
<1>1. /\ UNCHANGED <<stage, tape>> /\ stage \in InternStages /\ tape.ok /\ tape.current_class = 0
      /\ tape \in Tapes /\ i \in Nat /\ j \in Nat /\ Interned(tape, table, stage, i, j)
  BY DEF InternClass, InternFunction, InternInstruction, InternStages, TableInv, TapeInv, TypeOK
<1>2. Interned(tape, table', stage, i', j')
  <2>1. CASE InternClass
    <3>1. stage = "intern_classes" /\ i <= Len(tape.classes)
      BY <2>1 DEF InternClass
    <3>2. PICK names : names = ClassNames(tape.classes[i])
      OBVIOUS
    <3>3. \/ /\ j <= Len(names) /\ table' = _insert_string(table, names[j]) /\ j' = j + 1
             /\ i' = i
          \/ /\ ~(j <= Len(names)) /\ table' = table /\ i' = i + 1 /\ j' = 1
      BY <2>1, <3>2 DEF InternClass
    <3>4. names \in Seq(Identifiers) /\ Len(names) \in Nat
      <4>1. i \in DOMAIN tape.classes
        <5>1. i >= 1
          BY <1>1 DEF Interned
        <5> QED BY <1>1, <3>1, <5>1, TypeFacts, LenProperties
      <4> QED BY <1>1, <3>2, <4>1, TypeFacts, ClassNamesFacts
    <3>5. /\ j <= Len(names) =>
                Interned(tape, _insert_string(table, names[j]), "intern_classes", i, j + 1)
          /\ j > Len(names) => Interned(tape, table, "intern_classes", i + 1, 1)
      BY <1>1, <3>1, <3>2, ClassInterned
    <3>6. CASE j <= Len(names)
      BY <3>1, <3>3, <3>5, <3>6
    <3>7. CASE ~(j <= Len(names))
      <4>1. j > Len(names)
        BY <1>1, <3>4, <3>7
      <4> QED BY <3>1, <3>3, <3>5, <3>7, <4>1
    <3> QED BY <3>6, <3>7
  <2>2. CASE InternFunction
    <3>1. /\ stage = "intern_functions" /\ i <= Len(tape.functions)
          /\ table' = _insert_string(table, tape.functions[i].name) /\ i' = i + 1 /\ j' = j
      BY <2>2 DEF InternFunction
    <3> QED BY <1>1, <3>1, FunctionInterned
  <2>3. CASE InternInstruction
    <3>1. /\ stage = "intern_ins" /\ i <= tape_size(tape)
          /\ table' = IF HasName(tape.ins[i]) THEN _insert_string(table, tape.ins[i].id)
                      ELSE table
          /\ i' = i + 1 /\ j' = j
      BY <2>3 DEF InternInstruction
    <3> QED BY <1>1, <3>1, InsInterned
  <2> QED BY <2>1, <2>2, <2>3
<1>3. Exact(table')
  BY <1>1, <1>2 DEF Interned, OfTape
<1> QED BY <1>1, <1>2, <1>3, TableStep

LEMMA StartBytecodeStep ==
    ASSUME TableInv, TapeInv', StartBytecode
    PROVE  TableInv'
<1>1. /\ UNCHANGED tape /\ tape.ok /\ tape.current_class = 0 /\ tape \in Tapes
      /\ stage' = "intern_classes" /\ i' = 1 /\ j' = 1
      /\ table' = _insert_string(EmptyTable, tape.module)
  BY DEF StartBytecode, Goto, TableInv, TapeInv, TypeOK
<1>2. Interned(tape, table', "intern_classes", 1, 1)
  BY <1>1, StartInterned
<1>3. Exact(table')
  BY <1>2 DEF Interned, InternStages, OfTape
<1> QED BY <1>1, <1>2, <1>3, TableStep

LEMMA EndInternStep ==
    ASSUME TableInv, TapeInv', EndIntern
    PROVE  TableInv'
<1>1. /\ UNCHANGED <<tape, table>> /\ stage \in InternStages /\ tape.ok /\ tape.current_class = 0
      /\ tape \in Tapes /\ i \in Nat /\ j \in Nat /\ Interned(tape, table, stage, i, j)
      /\ i' = 1 /\ j' = 1 /\ Exact(table)
  BY DEF EndIntern, Goto, InternStages, TableInv, TapeInv, TypeOK
<1>2. \/ stage = "intern_classes" /\ i > Len(tape.classes) /\ stage' = "intern_functions"
      \/ stage = "intern_functions" /\ i > Len(tape.functions) /\ stage' = "intern_ins"
      \/ stage = "intern_ins" /\ i > tape_size(tape) /\ stage' = "write_bytecode"
  BY DEF EndIntern, Goto
<1>3. Interned(tape, table, stage', 1, 1)
  BY <1>1, <1>2, LoopInterned
<1> QED BY <1>1, <1>3, TableStep

LEMMA FullStep ==
    ASSUME TableInv, TapeInv', UNCHANGED <<tape, table>>, stage \in FullStages,
           stage' \in FullStages \cup {"garbled"}
    PROVE  TableInv'
<1>1. tape.ok /\ tape.current_class = 0 /\ Exact(table) /\ Interned(tape, table, stage, i, j)
  BY DEF TableInv, FullStages, ReadStages
<1>2. Interned(tape, table, stage', i', j')
  BY <1>1, StaysInterned
<1> QED BY <1>1, <1>2, TableStep

LEMMA NextTable == TableInv /\ [Next]_vars => TableInv'
<1> SUFFICES ASSUME TableInv, [Next]_vars PROVE TableInv'
  OBVIOUS
<1>1. TapeInv'
  BY NextTape DEF TableInv
<1>2. stage # "build" => tape.ok /\ tape.current_class = 0
  BY DEF TableInv
<1>3. CASE NameModule \/ AddInstruction \/ StartFunction \/ StartClass \/ AddField
             \/ EndClass \/ AppendStatement
  <2>1. stage' = "build" /\ UNCHANGED table
    BY <1>3 DEF NameModule, AddInstruction, StartFunction, StartClass, AddField, EndClass,
                AppendStatement, Building
  <2>2. stage' \notin InternStages \cup FullStages
    BY <2>1 DEF InternStages, FullStages, ReadStages
  <2> QED BY <1>1, <2>1, <2>2, OtherTableStep
<1>4. CASE StartText \/ WriteIndex \/ StartReading \/ ReadNext \/ EndText
  <2>1. /\ UNCHANGED <<tape, table>> /\ tape.ok /\ tape.current_class = 0
        /\ stage' \in TextStages
    BY <1>2, <1>4 DEF StartText, WriteIndex, StartReading, ReadNext, EndText, TextStages
  <2>2. stage' \notin InternStages \cup FullStages
    BY <2>1 DEF TextStages, InternStages, FullStages, ReadStages
  <2> QED BY <1>1, <2>1, <2>2, OtherTableStep
<1>5. CASE StartBytecode
  BY <1>1, <1>5, StartBytecodeStep
<1>6. CASE InternClass \/ InternFunction \/ InternInstruction
  BY <1>1, <1>6, InternStep
<1>7. CASE EndIntern
  BY <1>1, <1>7, EndInternStep
<1>8. CASE WriteBytecode \/ ReadFunction \/ StartReadClass \/ ReadMethod \/ EndReadClass
             \/ ReadInstruction \/ EndRead
  <2>1. /\ UNCHANGED <<tape, table>> /\ stage \in FullStages
        /\ stage' \in FullStages \cup {"garbled"}
    BY <1>8 DEF WriteBytecode, ReadFunction, StartReadClass, ReadMethod, EndReadClass,
                ReadInstruction, EndRead, Reading, Goto, FullStages, ReadStages
  <2> QED BY <1>1, <2>1, FullStep
<1>9. CASE UNCHANGED vars
  BY <1>1, <1>9 DEF vars, TableInv
<1> QED BY <1>3, <1>4, <1>5, <1>6, <1>7, <1>8, <1>9 DEF Next

LEMMA InitTable == Init => TableInv
<1> SUFFICES ASSUME Init PROVE TableInv
  OBVIOUS
<1>1. stage = "build" /\ table = EmptyTable
  BY DEF Init
<1>2. Interned(tape, table, stage, i, j)
  BY <1>1 DEF Interned, InternStages, FullStages, ReadStages
<1> QED BY <1>1, <1>2, InitTape, ExactEmpty DEF TableInv

\* Whatever names a tape has and in what order they are entered, the index of a
\* name leads to it, and the list has at most one name more than the map.
THEOREM TableIsExact == Spec => []TableExact
<1>1. TableInv => TableExact
  <2> SUFFICES ASSUME TableInv PROVE TableExact
    OBVIOUS
  <2>1. PICK n \in Nat : n = Len(table.strings) /\ DOMAIN table.strings = 1 .. n
    BY LenProperties DEF TableInv, Exact
  <2>2. PICK c \in Nat : c = Cardinality(DOMAIN table.index)
    BY FS_CardinalityType DEF TableInv, Exact
  <2>3. n = c + (IF Repeated(table) THEN 1 ELSE 0)
    BY <2>1, <2>2 DEF TableInv, Exact
  <2>4. n - c \in {0, 1}
    BY <2>3
  <2>5. ASSUME NEW s \in DOMAIN table.index
        PROVE  /\ table.index[s] + 1 \in DOMAIN table.strings
               /\ table.strings[table.index[s] + 1] = s
    <3>1. PICK k : k = table.index[s]
      OBVIOUS
    <3>2. k \in Nat /\ k < n /\ table.strings[k + 1] = s
      BY <2>1, <3>1 DEF TableInv, Exact
    <3> QED BY <2>1, <3>1, <3>2
  <2> QED BY <2>1, <2>2, <2>4, <2>5 DEF TableExact
<1> QED BY <1>1, InitTable, NextTable, PTL DEF Spec

-----------------------------------------------------------------------------
(* What is read.                                                            *)

\* A class without what the bytecode does not keep of it.
Bare(cref) == SetFields(cref, <<>>)
BareClasses(t) == [c \in DOMAIN t.classes |-> KeptClass(Bare(t.classes[c]))]

LEMMA BareFacts ==
    ASSUME NEW cref \in ClassRefs
    PROVE  /\ Bare(cref) \in ClassRefs /\ Bare(cref).name = cref.name
           /\ Bare(cref).start_index = cref.start_index /\ Bare(cref).end_index = cref.end_index
           /\ Bare(cref).functions = cref.functions /\ Bare(cref).fields = <<>>
           /\ KeptClass(Bare(cref)) \in ClassRefs /\ KeptClass(Bare(cref)).name = cref.name
<1>1. <<>> \in Seq(Identifiers)
  BY EmptySeq
<1>2. PICK d : d = Bare(cref)
  OBVIOUS
<1>3. /\ d \in ClassRefs /\ d.name = cref.name /\ d.start_index = cref.start_index
      /\ d.end_index = cref.end_index /\ d.functions = cref.functions /\ d.fields = <<>>
  BY <1>1, <1>2, WithFields DEF Bare
<1>4. PICK kept : kept = NotAsync(d.functions)
  OBVIOUS
<1>5. kept \in Seq(FunctionRefs)
  BY <1>3, <1>4, NotAsyncFacts DEF ClassRefs
<1>6. KeptClass(d) = SetFunctions(d, kept)
  BY <1>4 DEF KeptClass, SetFunctions
<1>7. KeptClass(d) \in ClassRefs /\ KeptClass(d).name = cref.name
  BY <1>3, <1>5, <1>6, WithFunctions
<1> QED BY <1>2, <1>3, <1>7

LEMMA BareClassesFacts ==
    ASSUME NEW t \in Tapes, NEW cs, cs = BareClasses(t)
    PROVE  /\ cs \in Seq(ClassRefs) /\ Len(cs) = Len(t.classes)
           /\ \A c \in 1 .. Len(t.classes) :
                 /\ cs[c] = KeptClass(Bare(t.classes[c]))
                 /\ cs[c].name = t.classes[c].name
<1>1. PICK n \in Nat : n = Len(t.classes)
  BY TypeFacts, LenProperties
<1>2. DOMAIN t.classes = 1 .. n /\ \A c \in 1 .. n : t.classes[c] \in ClassRefs
  BY <1>1, TypeFacts, LenProperties, ElementOfSeq
<1>3. \A c \in 1 .. n : cs[c] = KeptClass(Bare(t.classes[c]))
  BY <1>2 DEF BareClasses
<1>4. cs \in [1 .. n -> ClassRefs]
  BY <1>2, BareFacts DEF BareClasses
<1>5. ASSUME NEW S, NEW x \in [1 .. n -> S] PROVE x \in Seq(S) /\ Len(x) = n
  OBVIOUS
<1>6. cs \in Seq(ClassRefs) /\ Len(cs) = n
  BY <1>4, <1>5
<1>7. \A c \in 1 .. n : cs[c].name = t.classes[c].name
  BY <1>2, <1>3, BareFacts
<1> QED BY <1>1, <1>3, <1>6, <1>7

LEMMA NotReadBefore ==
    ASSUME NEW t \in Tapes, Sound(t), NEW c \in DOMAIN t.classes,
           NEW cs, cs = BareClasses(t)
    PROVE  ~Named(Prefix(cs, c - 1), t.classes[c].name)
<1>1. /\ Len(t.classes) \in Nat /\ DOMAIN t.classes = 1 .. Len(t.classes)
      /\ OnceNamed(t.classes)
  BY TypeFacts, LenProperties DEF Sound, NamedOnce
<1>2. /\ cs \in Seq(ClassRefs) /\ Len(cs) = Len(t.classes)
      /\ \A d \in 1 .. Len(t.classes) : cs[d].name = t.classes[d].name
  BY BareClassesFacts
<1>3. PICK k : k = c - 1
  OBVIOUS
<1>4. k \in 0 .. Len(cs) /\ \A d \in 1 .. k : d \in 1 .. Len(t.classes) /\ d # c
  BY <1>1, <1>2, <1>3
<1>5. PICK before : before = Prefix(cs, k)
  OBVIOUS
<1>6. DOMAIN before = 1 .. k /\ \A d \in 1 .. k : before[d] = cs[d]
  BY <1>2, <1>4, <1>5, PrefixFacts
<1>7. \A d \in 1 .. k : before[d].name = t.classes[d].name
  BY <1>2, <1>4, <1>6
<1>8. \A d \in 1 .. k : t.classes[d].name # t.classes[c].name
  BY <1>1, <1>4 DEF OnceNamed
<1>9. ~Named(before, t.classes[c].name)
  BY <1>6, <1>7, <1>8 DEF Named
<1> QED BY <1>3, <1>5, <1>9

\* The part r of the tape t that is read at the stage s, with the counters n and k.
ReadSoFar(t, r, s, n, k) ==
    LET fs == NotAsync(t.functions)
        cs == BareClasses(t)
        cref == t.classes[n]
        methods == NotAsync(cref.functions)
    IN  /\ s \in ReadStages => n >= 1
        /\ s = "read_refs" =>
              /\ n <= Len(t.functions) + 1
              /\ r = Partial(t.module, <<>>, Prefix(fs, n - 1), <<>>, 0)
        /\ s = "read_classes" =>
              /\ n <= Len(t.classes) + 1
              /\ r = Partial(t.module, <<>>, fs, Prefix(cs, n - 1), 0)
        /\ s = "read_methods" =>
              /\ n <= Len(t.classes) /\ k >= 1 /\ k <= Len(cref.functions) + 1
              /\ r = Inside(t.module, <<>>, fs, Prefix(cs, n - 1),
                            Open(cref, <<>>, Prefix(methods, k - 1)))
        /\ s = "read_ins" =>
              /\ n <= Len(t.ins) + 1
              /\ r = Partial(t.module, Prefix(t.ins, n - 1), fs, cs, 0)
        /\ s = "from_bytecode" => r = KeptByBytecode(t)

\* The parts of a tape that is written.
LEMMA TapeParts ==
    ASSUME NEW t \in Tapes, NEW fs, fs = NotAsync(t.functions), NEW cs, cs = BareClasses(t)
    PROVE  /\ t.module \in Modules /\ t.ins \in Seq(Instructions)
           /\ t.functions \in Seq(FunctionRefs) /\ t.classes \in Seq(ClassRefs)
           /\ Len(t.ins) \in Nat /\ Len(t.functions) \in Nat /\ Len(t.classes) \in Nat
           /\ DOMAIN t.functions = 1 .. Len(t.functions)
           /\ DOMAIN t.classes = 1 .. Len(t.classes) /\ DOMAIN t.ins = 1 .. Len(t.ins)
           /\ fs \in Seq(FunctionRefs) /\ Len(fs) = Len(t.functions)
           /\ cs \in Seq(ClassRefs) /\ Len(cs) = Len(t.classes)
           /\ <<>> \in Seq(Instructions) /\ <<>> \in Seq(FunctionRefs) /\ <<>> \in Seq(ClassRefs)
<1>1. /\ t.module \in Modules /\ t.ins \in Seq(Instructions)
      /\ t.functions \in Seq(FunctionRefs) /\ t.classes \in Seq(ClassRefs)
  BY DEF Tapes, Modules
<1>2. /\ Len(t.ins) \in Nat /\ Len(t.functions) \in Nat /\ Len(t.classes) \in Nat
      /\ DOMAIN t.functions = 1 .. Len(t.functions)
      /\ DOMAIN t.classes = 1 .. Len(t.classes) /\ DOMAIN t.ins = 1 .. Len(t.ins)
  BY <1>1, LenProperties
<1>3. fs \in Seq(FunctionRefs) /\ Len(fs) = Len(t.functions)
  BY <1>1, NotAsyncFacts
<1>4. cs \in Seq(ClassRefs) /\ Len(cs) = Len(t.classes)
  BY BareClassesFacts
<1>5. <<>> \in Seq(Instructions) /\ <<>> \in Seq(FunctionRefs) /\ <<>> \in Seq(ClassRefs)
  BY EmptySeq
<1> QED BY <1>1, <1>2, <1>3, <1>4, <1>5

LEMMA ReadRefStep ==
    ASSUME NEW t, NEW tb, Ready(t, tb), NEW f, f = WriteBinary(t, tb),
           NEW n \in Nat, NEW k, NEW r, ReadSoFar(t, r, "read_refs", n, k),
           n <= Len(f.refs), NEW u, u = ReadRef(f, r, f.refs[n])
    PROVE  ReadSoFar(t, u, "read_refs", n + 1, k)
<1>1. PICK m : m = t.module
  OBVIOUS
<1>2. PICK refs : refs = t.functions
  OBVIOUS
<1>3. PICK fs : fs = NotAsync(refs)
  OBVIOUS
<1>4. /\ t \in Tapes /\ m \in Modules /\ refs \in Seq(FunctionRefs) /\ Len(refs) \in Nat
      /\ DOMAIN refs = 1 .. Len(refs) /\ OnceNamed(refs)
      /\ <<>> \in Seq(Instructions) /\ <<>> \in Seq(ClassRefs)
  BY <1>1, <1>2, TapeParts DEF Ready, Sound, NamedOnce
<1>5. /\ f.strings = tb.strings /\ Len(f.refs) = Len(refs)
      /\ \A x \in 1 .. Len(refs) : f.refs[x] = _serialize_function_ref(refs[x], tb)
  BY <1>2, FileFacts
<1>6. n \in 1 .. Len(refs) /\ r = Partial(m, <<>>, Prefix(fs, n - 1), <<>>, 0)
  BY <1>1, <1>2, <1>3, <1>4, <1>5 DEF ReadSoFar, ReadStages
<1>7. PICK before, name, index :
          before = Prefix(fs, n - 1) /\ name = refs[n].name /\ index = refs[n].index
  OBVIOUS
<1>8. /\ before \in Seq(FunctionRefs) /\ ~Named(before, name)
      /\ name \in Identifiers /\ index \in Nat
      /\ Append(before, FunctionRef(name, index, FALSE)) = Prefix(fs, n)
  BY <1>3, <1>4, <1>6, <1>7, RowNext
<1>9. name \in NamesOf(t) /\ index <= UINT16_MAX
  BY <1>2, <1>4, <1>6, <1>7, NamesFacts, IndicesFit
<1>10. u = tape_start_func_at_index(r, name, index, FALSE)
  <2>1. PICK fref, x : fref = refs[n] /\ x = f.refs[n]
    OBVIOUS
  <2>2. /\ fref.name = name /\ fref.index = index /\ name \in NamesOf(t)
        /\ index \in Nat /\ index <= UINT16_MAX
    BY <1>7, <1>8, <1>9, <2>1
  <2>3. x = _serialize_function_ref(fref, tb)
    BY <1>5, <1>6, <2>1
  <2>4. ReadRef(f, r, x) = tape_start_func_at_index(r, fref.name, fref.index, FALSE)
    <3>1. fref.name \in NamesOf(t) /\ fref.index \in Nat /\ fref.index <= UINT16_MAX
      BY <2>2
    <3>2. tb.strings[x.name + 1] = fref.name /\ x.index = fref.index
      BY <2>3, <3>1, RefInFile
    <3> QED BY <1>5, <3>2 DEF ReadRef
  <2> QED BY <2>1, <2>2, <2>4
<1>11. u = Partial(m, <<>>, Append(before, FunctionRef(name, index, FALSE)), <<>>, 0)
  <2>1. tape_start_func_at_index(Partial(m, <<>>, before, <<>>, 0), name, index, FALSE)
          = Partial(m, <<>>, Append(before, FunctionRef(name, index, FALSE)), <<>>, 0)
    BY <1>4, <1>8, LineLabels
  <2> QED BY <1>6, <1>7, <1>10, <2>1
<1>12. PICK next : next = n + 1
  OBVIOUS
<1>13. next - 1 = n /\ next >= 1 /\ next <= Len(refs) + 1
  BY <1>4, <1>6, <1>12
<1>14. u = Partial(m, <<>>, Prefix(fs, next - 1), <<>>, 0)
  BY <1>8, <1>11, <1>13
<1>15. ReadSoFar(t, u, "read_refs", next, k)
  BY <1>1, <1>2, <1>3, <1>13, <1>14 DEF ReadSoFar
<1> QED BY <1>12, <1>15

LEMMA ReadClassStep ==
    ASSUME NEW t, NEW tb, Ready(t, tb), NEW f, f = WriteBinary(t, tb),
           NEW n \in Nat, NEW k, NEW r, ReadSoFar(t, r, "read_classes", n, k),
           n <= Len(f.classes),
           NEW u, u = tape_start_class_at_index(r, f.strings[f.classes[n].name + 1],
                                                f.classes[n].start)
    PROVE  ReadSoFar(t, u, "read_methods", n, 1)
<1>1. PICK m, fs, cs, cref :
          m = t.module /\ fs = NotAsync(t.functions) /\ cs = BareClasses(t) /\ cref = t.classes[n]
  OBVIOUS
<1>2. /\ t \in Tapes /\ Sound(t) /\ m \in Modules /\ fs \in Seq(FunctionRefs)
      /\ cs \in Seq(ClassRefs) /\ Len(cs) = Len(t.classes) /\ Len(t.classes) \in Nat
      /\ DOMAIN t.classes = 1 .. Len(t.classes) /\ t.classes \in Seq(ClassRefs)
      /\ <<>> \in Seq(Instructions) /\ <<>> \in Seq(FunctionRefs)
  BY <1>1, TapeParts DEF Ready
<1>3. /\ f.strings = tb.strings /\ Len(f.classes) = Len(t.classes)
      /\ \A x \in 1 .. Len(t.classes) : f.classes[x] = _serialize_class_ref(t.classes[x], tb)
  BY FileFacts
<1>4. n \in 1 .. Len(t.classes) /\ r = Partial(m, <<>>, fs, Prefix(cs, n - 1), 0)
  BY <1>1, <1>2, <1>3 DEF ReadSoFar, ReadStages
<1>5. cref \in ClassRefs /\ cref.name \in NamesOf(t)
  <2>1. cref \in ClassRefs
    BY <1>1, <1>2, <1>4, ElementOfSeq
  <2>2. PICK names : names = ClassNames(cref)
    OBVIOUS
  <2>3. PICK x \in DOMAIN names : names[x] = cref.name
    BY <2>1, <2>2, ClassNamesFacts
  <2>4. names[x] \in NamesOf(t)
    BY <1>1, <1>2, <1>4, <2>2, <2>3, NamesFacts
  <2> QED BY <2>1, <2>3, <2>4
<1>6. /\ tb.strings[f.classes[n].name + 1] = cref.name
      /\ f.classes[n].start = cref.start_index
  <2>1. cref.start_index <= UINT16_MAX /\ cref.end_index <= UINT16_MAX
    BY <1>1, <1>2, <1>4, IndicesFit
  <2> QED BY <1>1, <1>3, <1>4, <1>5, <2>1, ClassInFile
<1>7. u = tape_start_class_at_index(r, cref.name, cref.start_index)
  BY <1>3, <1>6
<1>8. PICK done : done = Prefix(cs, n - 1)
  OBVIOUS
<1>9. done \in Seq(ClassRefs) /\ ~Named(done, cref.name)
  <2>1. n - 1 \in 0 .. Len(cs)
    BY <1>2, <1>4
  <2>2. done \in Seq(ClassRefs)
    BY <1>2, <1>8, <2>1, PrefixFacts
  <2>3. ~Named(done, cref.name)
    BY <1>1, <1>2, <1>4, <1>8, NotReadBefore
  <2> QED BY <2>2, <2>3
<1>10. u = Partial(m, <<>>, fs, Append(done, Open(cref, <<>>, <<>>)), Len(done) + 1)
  BY <1>2, <1>4, <1>5, <1>7, <1>8, <1>9, LineOpens
<1>11. u = Inside(m, <<>>, fs, done, Open(cref, <<>>, <<>>))
  BY <1>10 DEF Inside
<1>12. PICK methods : methods = NotAsync(cref.functions)
  OBVIOUS
<1>13. methods \in Seq(FunctionRefs) /\ Len(cref.functions) \in Nat
  BY <1>5, <1>12, NotAsyncFacts, LenProperties DEF ClassRefs
<1>14. Prefix(methods, 0) = <<>>
  BY <1>13, PrefixEnds
<1>15. u = Inside(m, <<>>, fs, Prefix(cs, n - 1), Open(cref, <<>>, Prefix(methods, 1 - 1)))
  BY <1>8, <1>11, <1>14
<1>16. n >= 1 /\ n <= Len(t.classes) /\ 1 <= Len(cref.functions) + 1
  BY <1>2, <1>4, <1>13
<1> QED BY <1>1, <1>12, <1>15, <1>16 DEF ReadSoFar

LEMMA ReadMethodStep ==
    ASSUME NEW t, NEW tb, Ready(t, tb), NEW f, f = WriteBinary(t, tb),
           NEW n \in Nat, NEW k \in Nat, NEW r, ReadSoFar(t, r, "read_methods", n, k),
           k <= Len(f.classes[n].methods),
           NEW u, u = ReadRef(f, r, f.classes[n].methods[k])
    PROVE  ReadSoFar(t, u, "read_methods", n, k + 1)
<1>1. PICK m, fs, cs, cref :
          m = t.module /\ fs = NotAsync(t.functions) /\ cs = BareClasses(t) /\ cref = t.classes[n]
  OBVIOUS
<1>2. /\ t \in Tapes /\ Sound(t) /\ m \in Modules /\ fs \in Seq(FunctionRefs)
      /\ cs \in Seq(ClassRefs) /\ Len(cs) = Len(t.classes) /\ Len(t.classes) \in Nat
      /\ DOMAIN t.classes = 1 .. Len(t.classes) /\ t.classes \in Seq(ClassRefs)
      /\ <<>> \in Seq(Instructions) /\ <<>> \in Seq(FunctionRefs)
  BY <1>1, TapeParts DEF Ready
<1>3. PICK refs : refs = cref.functions
  OBVIOUS
<1>4. /\ n \in 1 .. Len(t.classes) /\ k >= 1 /\ k <= Len(refs) + 1
      /\ r = Inside(m, <<>>, fs, Prefix(cs, n - 1), Open(cref, <<>>, Prefix(NotAsync(refs), k - 1)))
  BY <1>1, <1>2, <1>3 DEF ReadSoFar, ReadStages
<1>5. /\ cref \in ClassRefs /\ refs \in Seq(FunctionRefs) /\ Len(refs) \in Nat
      /\ DOMAIN refs = 1 .. Len(refs) /\ OnceNamed(refs)
  <2>1. cref \in ClassRefs
    BY <1>1, <1>2, <1>4, ElementOfSeq
  <2>2. OnceNamed(refs)
    BY <1>1, <1>2, <1>3, <1>4 DEF Sound, NamedOnce
  <2>3. refs \in Seq(FunctionRefs)
    BY <1>3, <2>1 DEF ClassRefs
  <2> QED BY <2>1, <2>2, <2>3, LenProperties
<1>6. PICK names : names = ClassNames(cref)
  OBVIOUS
<1>7. PICK c : c = f.classes[n]
  OBVIOUS
<1>8. /\ f.strings = tb.strings /\ c = _serialize_class_ref(cref, tb)
  BY <1>1, <1>4, <1>7, FileFacts
<1>9. /\ Len(c.methods) = Len(refs)
      /\ \A x \in 1 .. Len(refs) : c.methods[x] = _serialize_function_ref(refs[x], tb)
  <2>1. cref.start_index <= UINT16_MAX /\ cref.end_index <= UINT16_MAX
    BY <1>1, <1>2, <1>4, IndicesFit
  <2>2. PICK x \in DOMAIN names : names[x] = cref.name
    BY <1>5, <1>6, ClassNamesFacts
  <2>3. cref.name \in NamesOf(t)
    BY <1>1, <1>2, <1>4, <1>6, <2>2, NamesFacts
  <2> QED BY <1>3, <1>5, <1>8, <2>1, <2>3, ClassInFile
<1>10. k \in 1 .. Len(refs)
  BY <1>4, <1>5, <1>7, <1>9
<1>11. /\ refs[k].name \in NamesOf(t) /\ refs[k].index \in Nat /\ refs[k].index <= UINT16_MAX
  <2>1. PICK x \in DOMAIN names : names[x] = refs[k].name
    BY <1>3, <1>5, <1>6, <1>10, ClassNamesFacts
  <2>2. refs[k].name \in NamesOf(t)
    BY <1>1, <1>2, <1>4, <1>6, <2>1, NamesFacts
  <2> QED BY <1>1, <1>2, <1>3, <1>4, <1>5, <1>10, <2>2, IndicesFit
<1>12. u = tape_start_func_at_index(r, refs[k].name, refs[k].index, FALSE)
  <2>1. PICK fref, x : fref = refs[k] /\ x = c.methods[k]
    OBVIOUS
  <2>2. fref.name \in NamesOf(t) /\ fref.index \in Nat /\ fref.index <= UINT16_MAX
    BY <1>11, <2>1
  <2>3. x = _serialize_function_ref(fref, tb)
    BY <1>9, <1>10, <2>1
  <2>4. ReadRef(f, r, x) = tape_start_func_at_index(r, fref.name, fref.index, FALSE)
    <3>1. tb.strings[x.name + 1] = fref.name /\ x.index = fref.index
      BY <2>2, <2>3, RefInFile
    <3> QED BY <1>8, <3>1 DEF ReadRef
  <2> QED BY <1>7, <2>1, <2>4
<1>13. PICK done : done = Prefix(cs, n - 1)
  OBVIOUS
<1>14. done \in Seq(ClassRefs)
  <2>1. n - 1 \in 0 .. Len(cs)
    BY <1>2, <1>4
  <2> QED BY <1>2, <1>13, <2>1, PrefixFacts
<1>15. PICK bare : bare = Bare(cref)
  OBVIOUS
<1>16. bare \in ClassRefs /\ bare.fields = <<>>
  BY <1>5, <1>15, BareFacts
<1>17. \A functions : Open(bare, bare.fields, functions) = Open(cref, <<>>, functions)
  BY <1>5, <1>15, BareFacts DEF Open
<1>18. u = Inside(m, <<>>, fs, done, Open(cref, <<>>, Prefix(NotAsync(refs), k)))
  <2>1. tape_start_func_at_index(
            Inside(m, <<>>, fs, done, Open(bare, bare.fields, Prefix(NotAsync(refs), k - 1))),
            refs[k].name, refs[k].index, FALSE)
          = Inside(m, <<>>, fs, done, Open(bare, bare.fields, Prefix(NotAsync(refs), k)))
    <3>1. /\ m \in Modules /\ <<>> \in Seq(Instructions) /\ fs \in Seq(FunctionRefs)
          /\ refs \in Seq(FunctionRefs) /\ OnceNamed(refs)
      BY <1>2, <1>5
    <3> QED BY <1>10, <1>14, <1>16, <3>1, ReadsMethod, Zenon
  <2>2. PICK before, after :
            before = Prefix(NotAsync(refs), k - 1) /\ after = Prefix(NotAsync(refs), k)
    OBVIOUS
  <2>3. /\ r = Inside(m, <<>>, fs, done, Open(bare, bare.fields, before))
        /\ Open(bare, bare.fields, after) = Open(cref, <<>>, after)
    BY <1>4, <1>13, <1>17, <2>2
  <2> QED BY <1>12, <2>1, <2>2, <2>3
<1>19. PICK next : next = k + 1
  OBVIOUS
<1>20. /\ next - 1 = k /\ next >= 1 /\ next <= Len(refs) + 1
       /\ n >= 1 /\ n <= Len(t.classes)
  BY <1>2, <1>4, <1>5, <1>10, <1>19
<1>21. u = Inside(m, <<>>, fs, Prefix(cs, n - 1),
                  Open(cref, <<>>, Prefix(NotAsync(refs), next - 1)))
  BY <1>13, <1>18, <1>20
<1>22. ReadSoFar(t, u, "read_methods", n, next)
  BY <1>1, <1>3, <1>20, <1>21 DEF ReadSoFar
<1> QED BY <1>19, <1>22

LEMMA MethodsInFile ==
    ASSUME NEW t, NEW tb, Ready(t, tb), NEW f, f = WriteBinary(t, tb),
           NEW n, NEW k, NEW r, ReadSoFar(t, r, "read_methods", n, k), n \in Nat
    PROVE  Len(f.classes[n].methods) \in Nat
<1>1. /\ t \in Tapes /\ t.classes \in Seq(ClassRefs) /\ Len(t.classes) \in Nat
      /\ DOMAIN t.classes = 1 .. Len(t.classes)
  BY TapeParts DEF Ready
<1>2. n \in 1 .. Len(t.classes)
  BY <1>1 DEF ReadSoFar, ReadStages
<1>3. PICK c : c = f.classes[n]
  OBVIOUS
<1>4. PICK refs : refs = t.classes[n].functions
  OBVIOUS
<1>5. refs \in Seq(FunctionRefs) /\ Len(refs) \in Nat
  BY <1>1, <1>2, <1>4, TypeFacts, LenProperties
<1>6. c = _serialize_class_ref(t.classes[n], tb)
  BY <1>2, <1>3, FileFacts
<1>7. c.methods = [x \in 1 .. Len(refs) |-> _serialize_function_ref(refs[x], tb)]
  BY <1>4, <1>6 DEF _serialize_class_ref
<1> QED BY <1>3, <1>5, <1>7

LEMMA EndClassReadStep ==
    ASSUME NEW t, NEW tb, Ready(t, tb), NEW f, f = WriteBinary(t, tb),
           NEW n \in Nat, NEW k \in Nat, NEW r, ReadSoFar(t, r, "read_methods", n, k),
           ~(k <= Len(f.classes[n].methods)),
           NEW u, u = tape_end_class_at_index(r, f.classes[n].end)
    PROVE  ReadSoFar(t, u, "read_classes", n + 1, k)
<1>1. PICK m, fs, cs, cref :
          m = t.module /\ fs = NotAsync(t.functions) /\ cs = BareClasses(t) /\ cref = t.classes[n]
  OBVIOUS
<1>2. /\ t \in Tapes /\ m \in Modules /\ fs \in Seq(FunctionRefs)
      /\ cs \in Seq(ClassRefs) /\ Len(cs) = Len(t.classes) /\ Len(t.classes) \in Nat
      /\ DOMAIN t.classes = 1 .. Len(t.classes) /\ t.classes \in Seq(ClassRefs)
      /\ <<>> \in Seq(Instructions)
  BY <1>1, TapeParts DEF Ready
<1>3. PICK refs : refs = cref.functions
  OBVIOUS
<1>4. /\ n \in 1 .. Len(t.classes) /\ k >= 1 /\ k <= Len(refs) + 1
      /\ r = Inside(m, <<>>, fs, Prefix(cs, n - 1), Open(cref, <<>>, Prefix(NotAsync(refs), k - 1)))
  BY <1>1, <1>2, <1>3 DEF ReadSoFar, ReadStages
<1>5. cref \in ClassRefs /\ refs \in Seq(FunctionRefs) /\ Len(refs) \in Nat
  <2>1. cref \in ClassRefs
    BY <1>1, <1>2, <1>4, ElementOfSeq
  <2>2. refs \in Seq(FunctionRefs)
    BY <1>3, <2>1 DEF ClassRefs
  <2> QED BY <2>1, <2>2, LenProperties
<1>6. PICK c : c = f.classes[n]
  OBVIOUS
<1>7. c = _serialize_class_ref(cref, tb)
  BY <1>1, <1>4, <1>6, FileFacts
<1>8. Len(c.methods) = Len(refs) /\ c.end = cref.end_index
  <2>1. cref.start_index <= UINT16_MAX /\ cref.end_index <= UINT16_MAX
    BY <1>1, <1>2, <1>4, IndicesFit
  <2>2. PICK names : names = ClassNames(cref)
    OBVIOUS
  <2>3. PICK x \in DOMAIN names : names[x] = cref.name
    BY <1>5, <2>2, ClassNamesFacts
  <2>4. cref.name \in NamesOf(t)
    BY <1>1, <1>2, <1>4, <2>2, <2>3, NamesFacts
  <2> QED BY <1>3, <1>5, <1>7, <2>1, <2>4, ClassInFile
<1>9. k - 1 = Len(refs)
  BY <1>4, <1>5, <1>6, <1>8
<1>10. PICK kept : kept = NotAsync(refs)
  OBVIOUS
<1>11. kept \in Seq(FunctionRefs) /\ Len(kept) = Len(refs)
  BY <1>5, <1>10, NotAsyncFacts
<1>12. Prefix(kept, k - 1) = kept
  BY <1>9, <1>11, PrefixEnds
<1>13. PICK done : done = Prefix(cs, n - 1)
  OBVIOUS
<1>14. PICK before : before = n - 1
  OBVIOUS
<1>15. before \in Nat /\ before < Len(cs) /\ before + 1 = n /\ before \in 0 .. Len(cs)
  BY <1>2, <1>4, <1>14
<1>16. done \in Seq(ClassRefs)
  BY <1>2, <1>13, <1>14, <1>15, PrefixFacts
<1>17. PICK bare : bare = Bare(cref)
  OBVIOUS
<1>18. /\ bare \in ClassRefs /\ bare.fields = <<>> /\ bare.functions = refs
       /\ bare.end_index = cref.end_index
  BY <1>3, <1>5, <1>17, BareFacts
<1>19. Open(bare, bare.fields, kept) = Open(cref, <<>>, kept)
  BY <1>5, <1>17, BareFacts DEF Open
<1>20. u = Partial(m, <<>>, fs, Append(done, KeptClass(bare)), 0)
  <2>1. tape_end_class_at_index(
            Inside(m, <<>>, fs, done, Open(bare, bare.fields, NotAsync(bare.functions))),
            bare.end_index)
          = Partial(m, <<>>, fs, Append(done, KeptClass(bare)), 0)
    BY <1>2, <1>16, <1>18, LineCloses
  <2>2. r = Inside(m, <<>>, fs, done, Open(bare, bare.fields, kept))
    BY <1>4, <1>10, <1>12, <1>13, <1>19
  <2>3. NotAsync(bare.functions) = kept /\ f.classes[n].end = bare.end_index
    BY <1>6, <1>8, <1>10, <1>18
  <2> QED BY <2>1, <2>2, <2>3
<1>21. Append(done, KeptClass(bare)) = Prefix(cs, n)
  <2>1. Prefix(cs, before + 1) = Append(Prefix(cs, before), cs[before + 1])
    BY <1>2, <1>15, PrefixStep
  <2>2. cs[n] = KeptClass(bare)
    BY <1>1, <1>2, <1>4, <1>17, BareClassesFacts
  <2> QED BY <1>13, <1>14, <1>15, <2>1, <2>2
<1>22. PICK next : next = n + 1
  OBVIOUS
<1>23. next - 1 = n /\ next >= 1 /\ next <= Len(t.classes) + 1
  BY <1>2, <1>4, <1>22
<1>24. u = Partial(m, <<>>, fs, Prefix(cs, next - 1), 0)
  BY <1>20, <1>21, <1>23
<1>25. ReadSoFar(t, u, "read_classes", next, k)
  BY <1>1, <1>23, <1>24 DEF ReadSoFar
<1> QED BY <1>22, <1>25

LEMMA ReadInsStep ==
    ASSUME NEW t, NEW tb, Ready(t, tb), NEW f, f = WriteBinary(t, tb),
           NEW n \in Nat, NEW k, NEW r, ReadSoFar(t, r, "read_ins", n, k),
           n <= Len(f.ins), NEW u, u = tape_add(r, deserialize_ins(f, f.ins[n]))
    PROVE  ~WrongWidth(f, f.ins[n]) /\ ReadSoFar(t, u, "read_ins", n + 1, k)
<1>1. PICK m, fs, cs, ins :
          m = t.module /\ fs = NotAsync(t.functions) /\ cs = BareClasses(t) /\ ins = t.ins
  OBVIOUS
<1>2. /\ t \in Tapes /\ m \in Modules /\ fs \in Seq(FunctionRefs) /\ cs \in Seq(ClassRefs)
      /\ ins \in Seq(Instructions) /\ Len(ins) \in Nat /\ DOMAIN ins = 1 .. Len(ins)
  BY <1>1, TapeParts DEF Ready
<1>3. /\ f.strings = tb.strings /\ Len(f.ins) = Len(ins)
      /\ \A x \in 1 .. Len(ins) : f.ins[x] = serialize_ins(ins[x], tb)
  BY <1>1, FileFacts
<1>4. n \in 1 .. Len(ins) /\ r = Partial(m, Prefix(ins, n - 1), fs, cs, 0)
  BY <1>1, <1>2, <1>3 DEF ReadSoFar, ReadStages
<1>5. PICK x, y : x = ins[n] /\ y = f.ins[n]
  OBVIOUS
<1>6. x \in Instructions /\ (HasName(x) => x.id \in NamesOf(t)) /\ y = serialize_ins(x, tb)
  BY <1>1, <1>2, <1>3, <1>4, <1>5, ElementOfSeq, NamesFacts
<1>7. ~WrongWidth(f, y) /\ deserialize_ins(f, y) = x
  BY <1>3, <1>6, InsInFile
<1>8. PICK k1 : k1 = n - 1
  OBVIOUS
<1>9. k1 \in Nat /\ k1 < Len(ins) /\ k1 + 1 = n /\ k1 \in 0 .. Len(ins)
  BY <1>2, <1>4, <1>8
<1>10. PICK before : before = Prefix(ins, k1)
  OBVIOUS
<1>11. before \in Seq(Instructions)
  BY <1>2, <1>9, <1>10, PrefixFacts
<1>12. Append(before, x) = Prefix(ins, n)
  BY <1>2, <1>5, <1>9, <1>10, PrefixStep
<1>13. u = tape_add(Partial(m, before, fs, cs, 0), x)
  BY <1>4, <1>5, <1>7, <1>8, <1>10
<1>14. u = Partial(m, Append(before, x), fs, cs, 0)
  BY <1>2, <1>6, <1>11, <1>13, LineAdds
<1>15. PICK next : next = n + 1
  OBVIOUS
<1>16. next - 1 = n /\ next >= 1 /\ next <= Len(ins) + 1
  BY <1>2, <1>4, <1>15
<1>17. u = Partial(m, Prefix(ins, next - 1), fs, cs, 0)
  BY <1>12, <1>14, <1>16
<1>18. ReadSoFar(t, u, "read_ins", next, k)
  BY <1>1, <1>16, <1>17 DEF ReadSoFar
<1> QED BY <1>5, <1>7, <1>15, <1>18

LEMMA LastIsKept ==
    ASSUME NEW t \in Tapes, t.ok, t.current_class = 0,
           NEW fs, fs = NotAsync(t.functions), NEW cs, cs = BareClasses(t)
    PROVE  Partial(t.module, t.ins, fs, cs, 0) = KeptByBytecode(t)
<1>1. PICK m : m = t.module
  OBVIOUS
<1>2. m \in Modules /\ fs \in Seq(FunctionRefs) /\ cs \in Seq(ClassRefs)
  BY <1>1, TapeParts
<1>3. PICK u : u = WithKept(t, m, fs, cs)
  OBVIOUS
<1>4. u \in Tapes /\ u.module = m /\ u.functions = fs /\ u.classes = cs /\ u.ins = t.ins
      /\ u.current_class = 0
  <2>1. WithKept(t, m, fs, cs) \in Tapes
    BY <1>2, WithKeptFacts
  <2>2. u.module = m /\ u.functions = fs /\ u.classes = cs /\ u.ins = t.ins
        /\ u.current_class = 0
    BY <1>2, <1>3, WithKeptFacts
  <2> QED BY <1>3, <2>1, <2>2
<1>5. u.ok
  BY <1>2, <1>3, WithKeptOk
<1>6. u = Partial(m, t.ins, fs, cs, 0)
  BY <1>4, <1>5, IsPartial
<1>7. KeptByBytecode(t) = [t EXCEPT !.functions = fs, !.classes = cs]
  <2>1. \A c \in DOMAIN t.classes :
            KeptClass(Bare(t.classes[c]))
              = [t.classes[c] EXCEPT !.functions = NotAsync(@), !.fields = <<>>]
    <3>1. ASSUME NEW cref \in ClassRefs
          PROVE  KeptClass(Bare(cref))
                   = [cref EXCEPT !.functions = NotAsync(@), !.fields = <<>>]
      BY DEF KeptClass, Bare, SetFields, ClassRefs
    <3> QED BY <3>1, TypeFacts
  <2>2. cs = [c \in DOMAIN t.classes |->
                 [t.classes[c] EXCEPT !.functions = NotAsync(@), !.fields = <<>>]]
    BY <2>1 DEF BareClasses
  <2> QED BY <2>2 DEF KeptByBytecode
<1>8. [t EXCEPT !.functions = fs, !.classes = cs] = WithKept(t, m, fs, cs)
  BY <1>1 DEF WithKept, Tapes
<1> QED BY <1>1, <1>3, <1>6, <1>7, <1>8

\* From the end of a loop the next one goes on.
LEMMA LoopRead ==
    ASSUME NEW t, NEW tb, Ready(t, tb), NEW f, f = WriteBinary(t, tb),
           NEW n \in Nat, NEW k, NEW r
    PROVE  /\ ReadSoFar(t, r, "read_refs", n, k) /\ ~(n <= Len(f.refs))
                => ReadSoFar(t, r, "read_classes", 1, 1)
           /\ ReadSoFar(t, r, "read_classes", n, k) /\ ~(n <= Len(f.classes))
                => ReadSoFar(t, r, "read_ins", 1, 1)
           /\ ReadSoFar(t, r, "read_ins", n, k) /\ ~(n <= Len(f.ins))
                => ReadSoFar(t, r, "from_bytecode", 1, 1)
<1>1. PICK m, fs, cs, ins :
          m = t.module /\ fs = NotAsync(t.functions) /\ cs = BareClasses(t) /\ ins = t.ins
  OBVIOUS
<1>2. /\ t \in Tapes /\ m \in Modules /\ fs \in Seq(FunctionRefs) /\ cs \in Seq(ClassRefs)
      /\ Len(fs) = Len(t.functions) /\ Len(cs) = Len(t.classes) /\ Len(fs) \in Nat
      /\ Len(cs) \in Nat /\ ins \in Seq(Instructions) /\ Len(ins) \in Nat
  BY <1>1, TapeParts DEF Ready
<1>3. Len(f.refs) = Len(fs) /\ Len(f.classes) = Len(cs) /\ Len(f.ins) = Len(ins)
  BY <1>1, <1>2, FileFacts
<1>4. /\ Prefix(fs, Len(fs)) = fs /\ Prefix(cs, Len(cs)) = cs /\ Prefix(ins, Len(ins)) = ins
      /\ Prefix(cs, 0) = <<>> /\ Prefix(ins, 0) = <<>>
  BY <1>2, PrefixEnds
<1>5. ASSUME ReadSoFar(t, r, "read_refs", n, k), ~(n <= Len(f.refs))
      PROVE  ReadSoFar(t, r, "read_classes", 1, 1)
  <2>1. n <= Len(fs) + 1 /\ r = Partial(m, <<>>, Prefix(fs, n - 1), <<>>, 0)
    BY <1>1, <1>2, <1>5 DEF ReadSoFar
  <2>2. n - 1 = Len(fs)
    BY <1>2, <1>3, <1>5, <2>1
  <2>3. r = Partial(m, <<>>, fs, Prefix(cs, 1 - 1), 0)
    BY <1>4, <2>1, <2>2
  <2>4. 1 <= Len(t.classes) + 1
    BY <1>2
  <2> QED BY <1>1, <2>3, <2>4 DEF ReadSoFar
<1>6. ASSUME ReadSoFar(t, r, "read_classes", n, k), ~(n <= Len(f.classes))
      PROVE  ReadSoFar(t, r, "read_ins", 1, 1)
  <2>1. n <= Len(cs) + 1 /\ r = Partial(m, <<>>, fs, Prefix(cs, n - 1), 0)
    BY <1>1, <1>2, <1>6 DEF ReadSoFar
  <2>2. n - 1 = Len(cs)
    BY <1>2, <1>3, <1>6, <2>1
  <2>3. r = Partial(m, Prefix(ins, 1 - 1), fs, cs, 0)
    BY <1>4, <2>1, <2>2
  <2>4. 1 <= Len(ins) + 1
    BY <1>2
  <2> QED BY <1>1, <2>3, <2>4 DEF ReadSoFar
<1>7. ASSUME ReadSoFar(t, r, "read_ins", n, k), ~(n <= Len(f.ins))
      PROVE  ReadSoFar(t, r, "from_bytecode", 1, 1)
  <2>1. n <= Len(ins) + 1 /\ r = Partial(m, Prefix(ins, n - 1), fs, cs, 0)
    BY <1>1, <1>2, <1>7 DEF ReadSoFar
  <2>2. n - 1 = Len(ins)
    BY <1>2, <1>3, <1>7, <2>1
  <2>3. r = Partial(m, ins, fs, cs, 0)
    BY <1>4, <2>1, <2>2
  <2>4. r = KeptByBytecode(t)
    BY <1>1, <1>2, <2>3, LastIsKept DEF Ready
  <2> QED BY <2>4 DEF ReadSoFar, ReadStages
<1> QED BY <1>5, <1>6, <1>7

LEMMA StartRead ==
    ASSUME NEW t, NEW tb, Ready(t, tb), NEW f, f = WriteBinary(t, tb),
           NEW r, r = tape_module(tape_create, f.strings[1])
    PROVE  Countable(t, tb.strings) /\ ReadSoFar(t, r, "read_refs", 1, 1)
<1>1. Countable(t, tb.strings)
  BY NameFacts DEF Ready, Fits, Countable
<1>2. PICK m, fs : m = t.module /\ fs = NotAsync(t.functions)
  OBVIOUS
<1>3. t \in Tapes /\ m \in Modules /\ fs \in Seq(FunctionRefs) /\ Len(t.functions) \in Nat
  BY <1>2, TapeParts DEF Ready
<1>4. f.strings[1] = m
  BY <1>2, FileFacts DEF Ready
<1>5. PICK x \in Tapes : x = tape_create
  BY CreateFacts
<1>6. /\ r \in Tapes /\ r.module = m /\ r.ins = x.ins /\ r.functions = x.functions
      /\ r.classes = x.classes /\ r.current_class = x.current_class /\ (r.ok <=> x.ok)
  <2>1. m \in Identifiers \cup {"$", UNSET} /\ r = tape_module(x, m)
    BY <1>3, <1>4, <1>5 DEF Modules
  <2> QED BY <2>1, ModuleFacts
<1>7. /\ r.ins = <<>> /\ r.functions = <<>> /\ r.classes = <<>> /\ r.current_class = 0 /\ r.ok
  BY <1>5, <1>6, CreateFacts
<1>8. r = Partial(m, <<>>, <<>>, <<>>, 0)
  BY <1>6, <1>7, IsPartial
<1>9. Prefix(fs, 0) = <<>>
  BY <1>3, PrefixEnds
<1>10. r = Partial(m, <<>>, Prefix(fs, 1 - 1), <<>>, 0) /\ 1 <= Len(t.functions) + 1
  BY <1>3, <1>8, <1>9
<1>11. ReadSoFar(t, r, "read_refs", 1, 1)
  BY <1>2, <1>10 DEF ReadSoFar
<1> QED BY <1>1, <1>11

-----------------------------------------------------------------------------
(* The writer and the reader of the bytecode.                               *)

\* The file is the tape's, and the part of the tape that is read is the part that
\* the reader has passed.
BytecodeInv ==
    /\ TableInv
    /\ Fits(tape) =>
          /\ stage # "garbled"
          /\ stage \in ReadStages \cup {"from_bytecode"} =>
                file = WriteBinary(tape, table) /\ ReadSoFar(tape, read, stage, i, j)

LEMMA IsReady ==
    ASSUME TableInv, stage \in FullStages, Fits(tape)
    PROVE  Ready(tape, table)
<1>1. stage # "build"
  BY DEF FullStages, ReadStages
<1> QED BY <1>1 DEF TableInv, TapeInv, TypeOK, Interned, OfTape, Ready

LEMMA WriteBytecodeStep ==
    ASSUME BytecodeInv, TableInv', WriteBytecode
    PROVE  BytecodeInv'
<1>1. UNCHANGED <<tape, table>> /\ stage = "write_bytecode" /\ file' = WriteBinary(tape, table)
  BY DEF WriteBytecode
<1>2. ASSUME Fits(tape)
      PROVE  stage' = "read_refs" /\ ReadSoFar(tape, read', "read_refs", i', j')
  <2>1. Ready(tape, table)
    BY <1>1, <1>2, IsReady DEF BytecodeInv, FullStages
  <2>2. PICK f : f = file'
    OBVIOUS
  <2>3. PICK r : r = tape_module(tape_create, f.strings[1])
    OBVIOUS
  <2>4. Countable(tape, table.strings) /\ ReadSoFar(tape, r, "read_refs", 1, 1)
    BY <1>1, <2>1, <2>2, <2>3, StartRead
  <2> QED BY <2>2, <2>3, <2>4 DEF WriteBytecode, Goto
<1> QED BY <1>1, <1>2 DEF BytecodeInv

LEMMA ReadStep ==
    ASSUME BytecodeInv, TableInv', UNCHANGED <<tape, table, file>>, stage \in ReadStages,
           Fits(tape) => /\ stage' # "garbled"
                         /\ ReadSoFar(tape, read', stage', i', j')
    PROVE  BytecodeInv'
  BY DEF BytecodeInv

LEMMA ReadingStep ==
    ASSUME BytecodeInv, TableInv',
           \/ ReadFunction \/ StartReadClass \/ ReadMethod \/ EndReadClass \/ ReadInstruction
           \/ EndRead
    PROVE  BytecodeInv'
<1>1. /\ UNCHANGED <<tape, table, file>> /\ stage \in ReadStages
  BY DEF ReadFunction, StartReadClass, ReadMethod, EndReadClass, ReadInstruction, EndRead,
         Reading, Goto, ReadStages
<1>2. ASSUME Fits(tape)
      PROVE  stage' # "garbled" /\ ReadSoFar(tape, read', stage', i', j')
  <2>1. i \in Nat /\ j \in Nat
    BY DEF BytecodeInv, TableInv, TapeInv, TypeOK
  <2>2. file = WriteBinary(tape, table) /\ ReadSoFar(tape, read, stage, i, j)
    BY <1>1, <1>2 DEF BytecodeInv
  <2>3. Ready(tape, table)
    BY <1>1, <1>2, IsReady DEF BytecodeInv, FullStages
  <2>4. CASE ReadFunction
    <3>1. /\ stage = "read_refs" /\ i <= Len(file.refs) /\ stage' = stage
          /\ read' = ReadRef(file, read, file.refs[i]) /\ i' = i + 1 /\ j' = j
      BY <2>4 DEF ReadFunction, Reading
    <3> QED BY <2>1, <2>2, <2>3, <3>1, ReadRefStep
  <2>5. CASE StartReadClass
    <3>1. /\ stage = "read_classes" /\ i <= Len(file.classes) /\ stage' = "read_methods"
          /\ read' = tape_start_class_at_index(read, file.strings[file.classes[i].name + 1],
                                               file.classes[i].start)
          /\ i' = i /\ j' = 1
      BY <2>5 DEF StartReadClass, Reading
    <3> QED BY <2>1, <2>2, <2>3, <3>1, ReadClassStep
  <2>6. CASE ReadMethod
    <3>1. /\ stage = "read_methods" /\ j <= Len(file.classes[i].methods) /\ stage' = stage
          /\ read' = ReadRef(file, read, file.classes[i].methods[j]) /\ i' = i /\ j' = j + 1
      BY <2>6 DEF ReadMethod, Reading
    <3> QED BY <2>1, <2>2, <2>3, <3>1, ReadMethodStep
  <2>7. CASE EndReadClass
    <3>1. /\ stage = "read_methods" /\ stage' = "read_classes"
          /\ j > Len(file.classes[i].methods)
          /\ read' = tape_end_class_at_index(read, file.classes[i].end) /\ i' = i + 1 /\ j' = j
      BY <2>7 DEF EndReadClass, Reading
    <3>2. ~(j <= Len(file.classes[i].methods))
      <4>1. Len(file.classes[i].methods) \in Nat
        BY <2>1, <2>2, <2>3, <3>1, MethodsInFile
      <4> QED BY <2>1, <3>1, <4>1
    <3> QED BY <2>1, <2>2, <2>3, <3>1, <3>2, EndClassReadStep
  <2>8. CASE ReadInstruction
    <3>1. stage = "read_ins" /\ i <= Len(file.ins)
      BY <2>8 DEF ReadInstruction
    <3>2. PICK u : u = tape_add(read, deserialize_ins(file, file.ins[i]))
      OBVIOUS
    <3>3. ~WrongWidth(file, file.ins[i]) /\ ReadSoFar(tape, u, "read_ins", i + 1, j)
      BY <2>1, <2>2, <2>3, <3>1, <3>2, ReadInsStep
    <3>4. read' = u /\ i' = i + 1 /\ j' = j /\ stage' = stage
      BY <2>8, <3>2, <3>3 DEF ReadInstruction, Reading
    <3> QED BY <3>1, <3>3, <3>4
  <2>9. CASE EndRead
    <3>1. /\ read' = read /\ i' = 1 /\ j' = 1
          /\ \/ stage = "read_refs" /\ i > Len(file.refs) /\ stage' = "read_classes"
             \/ stage = "read_classes" /\ i > Len(file.classes) /\ stage' = "read_ins"
             \/ stage = "read_ins" /\ i > Len(file.ins) /\ stage' = "from_bytecode"
      BY <2>9 DEF EndRead, Reading, Goto
    <3>2. /\ i > Len(file.refs) => ~(i <= Len(file.refs))
          /\ i > Len(file.classes) => ~(i <= Len(file.classes))
          /\ i > Len(file.ins) => ~(i <= Len(file.ins))
      <4>1. Len(file.refs) \in Nat /\ Len(file.classes) \in Nat /\ Len(file.ins) \in Nat
        BY <2>2, <2>3, FileFacts, TypeFacts, LenProperties DEF Ready
      <4> QED BY <2>1, <4>1
    <3>3. ReadSoFar(tape, read, stage', 1, 1)
      BY <2>1, <2>2, <2>3, <3>1, <3>2, LoopRead
    <3> QED BY <3>1, <3>3
  <2> QED BY <2>4, <2>5, <2>6, <2>7, <2>8, <2>9
<1> QED BY <1>1, <1>2, ReadStep

LEMMA NextBytecode == BytecodeInv /\ [Next]_vars => BytecodeInv'
<1> SUFFICES ASSUME BytecodeInv, [Next]_vars PROVE BytecodeInv'
  OBVIOUS
<1>1. TableInv'
  BY NextTable DEF BytecodeInv
<1>2. CASE \/ NameModule \/ AddInstruction \/ StartFunction \/ StartClass \/ AddField
           \/ EndClass \/ AppendStatement
           \/ StartText \/ WriteIndex \/ StartReading \/ ReadNext \/ EndText
           \/ StartBytecode \/ InternClass \/ InternFunction \/ InternInstruction \/ EndIntern
  <2>1. stage' \in TextStages \cup InternStages \cup {"build", "write_bytecode"}
    BY <1>2 DEF NameModule, AddInstruction, StartFunction, StartClass, AddField, EndClass,
                AppendStatement, Building, StartText, WriteIndex, StartReading, ReadNext,
                EndText, StartBytecode, InternClass, InternFunction, InternInstruction,
                EndIntern, Goto, TextStages, InternStages
  <2>2. stage' \notin ReadStages \cup {"from_bytecode", "garbled"}
    BY <2>1 DEF TextStages, InternStages, ReadStages
  <2> QED BY <1>1, <2>2 DEF BytecodeInv
<1>3. CASE WriteBytecode
  BY <1>1, <1>3, WriteBytecodeStep
<1>4. CASE \/ ReadFunction \/ StartReadClass \/ ReadMethod \/ EndReadClass \/ ReadInstruction
           \/ EndRead
  BY <1>1, <1>4, ReadingStep
<1>5. CASE UNCHANGED vars
  BY <1>1, <1>5 DEF vars, BytecodeInv
<1> QED BY <1>2, <1>3, <1>4, <1>5 DEF Next

\* A tape that fits, written as bytecode and read again, is the tape that it was
\* but for async and fields: the reader takes every name for the one that was
\* written, in the width that it was written in, and no read is an error.
THEOREM BytecodeRestored == Spec => []BytecodeRestores
<1>1. Init => BytecodeInv
  <2> SUFFICES ASSUME Init PROVE BytecodeInv
    OBVIOUS
  <2>1. stage = "build"
    BY DEF Init
  <2> QED BY <2>1, InitTable DEF BytecodeInv, ReadStages
<1>2. BytecodeInv => BytecodeRestores
  <2> SUFFICES ASSUME BytecodeInv, Fits(tape)
               PROVE  /\ stage # "garbled"
                      /\ stage \in ReadStages => read.ok
                      /\ stage = "from_bytecode" => read = KeptByBytecode(tape)
    BY DEF BytecodeRestores, ReadStages
  <2>1. stage \in ReadStages \cup {"from_bytecode"} => ReadSoFar(tape, read, stage, i, j)
    BY DEF BytecodeInv
  <2>2. ASSUME stage \in ReadStages PROVE read.ok
    <3>1. \E m, ins, fs, cs, k : read = Partial(m, ins, fs, cs, k)
      BY <2>1, <2>2 DEF ReadSoFar, ReadStages, Inside
    <3> QED BY <3>1 DEF Partial
  <2>3. ASSUME stage = "from_bytecode" PROVE read = KeptByBytecode(tape)
    BY <2>1, <2>3 DEF ReadSoFar
  <2> QED BY <2>2, <2>3 DEF BytecodeInv
<1> QED BY <1>1, <1>2, NextBytecode, PTL DEF Spec
=============================================================================
