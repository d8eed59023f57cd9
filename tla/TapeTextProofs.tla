--------------------------- MODULE TapeTextProofs ---------------------------
(* A tape that is written as text and read again is the tape it was, for    *)
(* any tape that can be built: after each index of the writer's loop, what  *)
(* it has written reads as the part of the tape it has passed.              *)
EXTENDS TapeFilesProofs

\* A tape that is half read: m to k are its module, ... and its open class.
Partial(m, ins, functions, classes, k) ==
    [module |-> m, ins |-> ins, functions |-> functions, classes |-> classes,
     current_class |-> k, ok |-> TRUE]

\* A class that is half read.
Open(cref, fields, functions) ==
    [name |-> cref.name, start_index |-> cref.start_index, end_index |-> 0,
     fields |-> fields, functions |-> functions]

Prefix(s, n) == SubSeq(s, 1, n)
KeptModule(t) == IF t.module = UNSET THEN "$" ELSE t.module
KeptClass(cref) == [cref EXCEPT !.functions = NotAsync(@)]
KeptClasses(t) == [c \in DOMAIN t.classes |-> KeptClass(t.classes[c])]

\* The methods of the open class that the writer has passed, in the class.
OpenPart(t, v) ==
    LET cref == t.classes[v.class]
    IN  Open(cref, cref.fields, Prefix(NotAsync(cref.functions), v.method - 1))

\* The part of t that the writer v has passed.
Part(t, v) ==
    LET done == Prefix(KeptClasses(t), v.class - 1)
    IN  Partial(KeptModule(t), Prefix(t.ins, v.i), Prefix(NotAsync(t.functions), v.func - 1),
                IF v.in_class THEN Append(done, OpenPart(t, v)) ELSE done,
                IF v.in_class THEN v.class ELSE 0)

\* Where the writer v is when it has passed the ends below e, the starts and
\* the functions below s, and the methods of its class below m.
Passed(t, v, e, s, f) ==
    /\ v.class \in 1 .. Len(t.classes) + 1 /\ v.func \in 1 .. Len(t.functions) + 1
    /\ v.in_class \in BOOLEAN
    /\ \A c \in DOMAIN t.classes : c < v.class <=> t.classes[c].end_index < e
    /\ v.in_class <=> v.class <= Len(t.classes) /\ t.classes[v.class].start_index < s
    /\ \A g \in DOMAIN t.functions : g < v.func <=> t.functions[g].index < f
    /\ v.in_class =>
          LET methods == t.classes[v.class].functions
          IN  /\ v.method \in 1 .. Len(methods) + 1
              /\ \A n \in DOMAIN methods : n < v.method <=> methods[n].index < f

-----------------------------------------------------------------------------
(* Rows.                                                                    *)

\* The first n + 1 of a row are the first n and the one behind them.
LEMMA PrefixStep ==
    ASSUME NEW S, NEW s \in Seq(S), NEW n \in Nat, n < Len(s)
    PROVE  Prefix(s, n + 1) = Append(Prefix(s, n), s[n + 1])
<1>1. Len(s) \in Nat /\ n + 1 \in 1 .. Len(s) /\ 1 \in 1 .. Len(s) /\ (n + 1) - 1 = n
  BY LenProperties
<1>2. SubSeq(s, 1, n + 1) = SubSeq(s, 1, n) \o <<s[n + 1]>>
  BY <1>1, SubSeqRecursiveSecond
<1>3. SubSeq(s, 1, n) \in Seq(S) /\ s[n + 1] \in S
  BY <1>1, SubSeqProperties, ElementOfSeq
<1> QED BY <1>2, <1>3, AppendIsConcat DEF Prefix

LEMMA PrefixFacts ==
    ASSUME NEW S, NEW s \in Seq(S), NEW n \in 0 .. Len(s)
    PROVE  /\ Prefix(s, n) \in Seq(S) /\ Len(Prefix(s, n)) = n
           /\ DOMAIN Prefix(s, n) = 1 .. n
           /\ \A k \in 1 .. n : Prefix(s, n)[k] = s[k]
<1>1. Len(s) \in Nat /\ n \in Int /\ 1 \in Int
  BY LenProperties
<1>2. \A k \in 1 .. n : s[k] \in S
  BY <1>1, ElementOfSeq
<1>3. /\ SubSeq(s, 1, n) \in Seq(S) /\ Len(SubSeq(s, 1, n)) = n
      /\ \A k \in 1 .. n : SubSeq(s, 1, n)[k] = s[1 + k - 1]
  BY <1>1, <1>2, SubSeqProperties
<1> QED BY <1>1, <1>3, LenProperties DEF Prefix

LEMMA PrefixEnds ==
    ASSUME NEW S, NEW s \in Seq(S)
    PROVE  Prefix(s, 0) = <<>> /\ Prefix(s, Len(s)) = s
  BY SubSeqFull, SubSeqEmpty DEF Prefix

\* A label that is passed is kept without async.
LEMMA NotAsyncFacts ==
    ASSUME NEW refs \in Seq(FunctionRefs)
    PROVE  /\ NotAsync(refs) \in Seq(FunctionRefs) /\ Len(NotAsync(refs)) = Len(refs)
           /\ \A f \in 1 .. Len(refs) :
                 /\ NotAsync(refs)[f] = FunctionRef(refs[f].name, refs[f].index, FALSE)
                 /\ NotAsync(refs)[f].name = refs[f].name
<1>1. Len(refs) \in Nat /\ DOMAIN refs = 1 .. Len(refs)
  BY LenProperties
<1>2. \A f \in 1 .. Len(refs) : refs[f] \in FunctionRefs
  BY ElementOfSeq
<1>3. ASSUME NEW r \in FunctionRefs
      PROVE  LET k == FunctionRef(r.name, r.index, FALSE)
             IN  k \in FunctionRefs /\ k.name = r.name
  BY DEF FunctionRef, FunctionRefs
<1>4. \A f \in 1 .. Len(refs) :
          NotAsync(refs)[f] = FunctionRef(refs[f].name, refs[f].index, FALSE)
  BY <1>1 DEF NotAsync
<1>5. NotAsync(refs) \in [1 .. Len(refs) -> FunctionRefs]
  BY <1>1, <1>2, <1>3 DEF NotAsync
<1>6. ASSUME NEW n \in Nat, NEW S, NEW s \in [1 .. n -> S]
      PROVE  s \in Seq(S) /\ Len(s) = n
  OBVIOUS
<1>7. NotAsync(refs) \in Seq(FunctionRefs) /\ Len(NotAsync(refs)) = Len(refs)
  BY <1>1, <1>5, <1>6
<1>8. \A f \in 1 .. Len(refs) : NotAsync(refs)[f].name = refs[f].name
  BY <1>2, <1>3, <1>4
<1> QED BY <1>4, <1>7, <1>8

LEMMA NotNamedBefore ==
    ASSUME NEW refs \in Seq(FunctionRefs), OnceNamed(refs),
           NEW n \in 1 .. Len(refs)
    PROVE  ~Named(Prefix(NotAsync(refs), n - 1), refs[n].name)
<1>1. Len(refs) \in Nat /\ DOMAIN refs = 1 .. Len(refs) /\ n - 1 \in 0 .. Len(refs)
  BY LenProperties
<1>2. PICK kept : kept = NotAsync(refs)
  OBVIOUS
<1>3. /\ kept \in Seq(FunctionRefs) /\ Len(kept) = Len(refs)
      /\ \A k \in 1 .. Len(refs) : kept[k].name = refs[k].name
  BY <1>2, NotAsyncFacts
<1>4. /\ DOMAIN Prefix(kept, n - 1) = 1 .. n - 1
      /\ \A k \in 1 .. n - 1 : Prefix(kept, n - 1)[k] = kept[k]
  BY <1>1, <1>3, PrefixFacts, SMTT(30)
<1>5. \A k \in 1 .. n - 1 : Prefix(kept, n - 1)[k].name = refs[k].name
  BY <1>1, <1>3, <1>4
<1> QED BY <1>1, <1>2, <1>4, <1>5 DEF Named, OnceNamed

-----------------------------------------------------------------------------
(* What each line does to a tape that is half read.                         *)

Modules == Identifiers \cup {"$", UNSET}

LEMMA PartialFacts ==
    ASSUME NEW m \in Modules, NEW ins \in Seq(Instructions),
           NEW functions \in Seq(FunctionRefs), NEW classes \in Seq(ClassRefs), NEW k \in Nat
    PROVE  LET p == Partial(m, ins, functions, classes, k)
           IN  /\ p \in Tapes /\ p.module = m /\ p.ins = ins /\ p.functions = functions
               /\ p.classes = classes /\ p.current_class = k /\ p.ok
  BY DEF Partial, Tapes, Modules

LEMMA IsPartial ==
    ASSUME NEW t \in Tapes, t.ok
    PROVE  t = Partial(t.module, t.ins, t.functions, t.classes, t.current_class)
<1>1. /\ t.module \in Modules /\ t.ins \in Seq(Instructions)
      /\ t.functions \in Seq(FunctionRefs)
      /\ t.classes \in Seq(ClassRefs) /\ t.current_class \in Nat
  BY DEF Tapes, Modules
<1>2. PICK p : p = Partial(t.module, t.ins, t.functions, t.classes, t.current_class)
  OBVIOUS
<1>3. /\ p \in Tapes /\ p.module = t.module /\ p.ins = t.ins /\ p.functions = t.functions
      /\ p.classes = t.classes /\ p.current_class = t.current_class /\ p.ok
  BY <1>1, <1>2, PartialFacts
<1> QED BY <1>2, <1>3, SameTape

LEMMA OpenFacts ==
    ASSUME NEW cref \in ClassRefs, NEW fields \in Seq(Identifiers),
           NEW functions \in Seq(FunctionRefs)
    PROVE  LET d == Open(cref, fields, functions)
           IN  /\ d \in ClassRefs /\ d.name = cref.name /\ d.start_index = cref.start_index
               /\ d.end_index = 0 /\ d.fields = fields /\ d.functions = functions
  BY DEF Open, ClassRefs

LEMMA IsOpen ==
    ASSUME NEW cref \in ClassRefs, NEW d \in ClassRefs,
           d.name = cref.name, d.start_index = cref.start_index, d.end_index = 0
    PROVE  d = Open(cref, d.fields, d.functions)
<1>1. d.fields \in Seq(Identifiers) /\ d.functions \in Seq(FunctionRefs)
  BY DEF ClassRefs
<1>2. PICK e : e = Open(cref, d.fields, d.functions)
  OBVIOUS
<1>3. /\ e \in ClassRefs /\ e.name = cref.name /\ e.start_index = cref.start_index
      /\ e.end_index = 0 /\ e.fields = d.fields /\ e.functions = d.functions
  BY <1>1, <1>2, OpenFacts
<1> QED BY <1>2, <1>3, SameClass

\* An instruction is added, whether a class is open or not.
LEMMA LineAdds ==
    ASSUME NEW m \in Modules, NEW ins \in Seq(Instructions),
           NEW functions \in Seq(FunctionRefs), NEW classes \in Seq(ClassRefs), NEW k \in Nat,
           NEW x \in Instructions
    PROVE  tape_add(Partial(m, ins, functions, classes, k), x)
             = Partial(m, Append(ins, x), functions, classes, k)
<1>1. PICK p : p = Partial(m, ins, functions, classes, k)
  OBVIOUS
<1>2. PICK u : u = tape_add(p, x)
  OBVIOUS
<1>3. /\ p \in Tapes /\ p.module = m /\ p.ins = ins /\ p.functions = functions
      /\ p.classes = classes /\ p.current_class = k /\ p.ok
  BY <1>1, PartialFacts
<1>4. /\ u \in Tapes /\ u.ins = Append(ins, x) /\ u.module = m /\ u.functions = functions
      /\ u.classes = classes /\ u.current_class = k /\ u.ok
  BY <1>2, <1>3, AddFacts
<1> QED BY <1>1, <1>2, <1>4, IsPartial, ZenonT(40)

LEMMA LineLabels ==
    ASSUME NEW m \in Modules, NEW ins \in Seq(Instructions),
           NEW functions \in Seq(FunctionRefs), NEW classes \in Seq(ClassRefs),
           NEW name \in Identifiers, NEW index \in Nat, ~Named(functions, name)
    PROVE  tape_start_func_at_index(Partial(m, ins, functions, classes, 0), name, index, FALSE)
             = Partial(m, ins, Append(functions, FunctionRef(name, index, FALSE)), classes, 0)
<1>1. PICK p : p = Partial(m, ins, functions, classes, 0)
  OBVIOUS
<1>2. PICK u : u = tape_start_func_at_index(p, name, index, FALSE)
  OBVIOUS
<1>3. /\ p \in Tapes /\ p.module = m /\ p.ins = ins /\ p.functions = functions
      /\ p.classes = classes /\ p.current_class = 0 /\ p.ok
  BY <1>1, PartialFacts
<1>4. /\ u \in Tapes /\ u.functions = Append(functions, FunctionRef(name, index, FALSE))
      /\ u.ins = ins /\ u.module = m /\ u.classes = classes /\ u.current_class = 0 /\ u.ok
  BY <1>2, <1>3, StartModuleFunction
<1> QED BY <1>1, <1>2, <1>4, IsPartial, ZenonT(40)

LEMMA LineOpens ==
    ASSUME NEW m \in Modules, NEW ins \in Seq(Instructions),
           NEW functions \in Seq(FunctionRefs), NEW classes \in Seq(ClassRefs),
           NEW cref \in ClassRefs, ~Named(classes, cref.name)
    PROVE  tape_start_class_at_index(Partial(m, ins, functions, classes, 0), cref.name,
                                     cref.start_index)
             = Partial(m, ins, functions, Append(classes, Open(cref, <<>>, <<>>)),
                       Len(classes) + 1)
<1>1. PICK p : p = Partial(m, ins, functions, classes, 0)
  OBVIOUS
<1>2. PICK u : u = tape_start_class_at_index(p, cref.name, cref.start_index)
  OBVIOUS
<1>3. /\ p \in Tapes /\ p.module = m /\ p.ins = ins /\ p.functions = functions
      /\ p.classes = classes /\ p.current_class = 0 /\ p.ok
  BY <1>1, PartialFacts
<1>4. cref.name \in Identifiers /\ cref.start_index \in Nat
  BY DEF ClassRefs
<1>5. _classref_init(cref.name, cref.start_index) = Open(cref, <<>>, <<>>)
  BY DEF _classref_init, Open
<1>6. /\ Keeps(u, p) /\ u.classes = Append(classes, Open(cref, <<>>, <<>>))
      /\ u.current_class = Len(classes) + 1 /\ u.ok
  BY <1>2, <1>3, <1>4, <1>5, StartClassFacts
<1>7. u \in Tapes /\ u.ins = ins /\ u.module = m /\ u.functions = functions
  BY <1>3, <1>6 DEF Keeps
<1> QED BY <1>1, <1>2, <1>6, <1>7, IsPartial

\* The lines in a class change the last one of the classes that are read.
Inside(m, ins, functions, done, class) ==
    Partial(m, ins, functions, Append(done, class), Len(done) + 1)

LEMMA InsideFacts ==
    ASSUME NEW m \in Modules, NEW ins \in Seq(Instructions),
           NEW functions \in Seq(FunctionRefs), NEW done \in Seq(ClassRefs),
           NEW class \in ClassRefs
    PROVE  LET p == Inside(m, ins, functions, done, class)
           IN  /\ p \in Tapes /\ p.module = m /\ p.ins = ins /\ p.functions = functions
               /\ p.classes = Append(done, class) /\ p.current_class = Len(done) + 1 /\ p.ok
               /\ p.current_class \in DOMAIN p.classes
               /\ p.classes[p.current_class] = class
<1>1. PICK k : k = Len(done) + 1
  OBVIOUS
<1>2. PICK all : all = Append(done, class)
  OBVIOUS
<1>3. /\ all \in Seq(ClassRefs) /\ k \in Nat /\ Len(all) = k /\ all[k] = class /\ k >= 1
  BY <1>1, <1>2, AppendProperties, LenProperties
<1>4. k \in DOMAIN all
  BY <1>3, LenProperties
<1>5. PICK p : p = Partial(m, ins, functions, all, k)
  OBVIOUS
<1>6. /\ p \in Tapes /\ p.module = m /\ p.ins = ins /\ p.functions = functions
      /\ p.classes = all /\ p.current_class = k /\ p.ok
  BY <1>3, <1>5, PartialFacts
<1> QED BY <1>1, <1>2, <1>3, <1>4, <1>5, <1>6 DEF Inside

LEMMA ReplacedLast ==
    ASSUME NEW done \in Seq(ClassRefs), NEW x \in ClassRefs, NEW y \in ClassRefs,
           NEW t, NEW u \in Tapes, t.classes = Append(done, x),
           NEW k, k = Len(done) + 1, Replaced(u, t, k, y)
    PROVE  u.classes = Append(done, y)
<1>1. /\ u.classes \in Seq(ClassRefs) /\ Len(done) \in Nat
  BY TypeFacts, LenProperties
<1>2. /\ Len(u.classes) = k /\ DOMAIN t.classes = 1 .. k
      /\ u.classes[k] = y
      /\ \A d \in DOMAIN t.classes : d # k => u.classes[d] = t.classes[d]
  BY AppendProperties, LenProperties DEF Replaced
<1>3. \A d \in 1 .. Len(done) : u.classes[d] = done[d]
  BY <1>1, <1>2, AppendProperties, SMTT(30)
<1>4. /\ Append(done, y) \in Seq(ClassRefs) /\ Len(Append(done, y)) = k
      /\ \A d \in 1 .. Len(done) : Append(done, y)[d] = done[d]
      /\ Append(done, y)[k] = y
  BY AppendProperties
<1> QED BY <1>1, <1>2, <1>3, <1>4, SeqEqual

\* What is read in a class ends up there.
LEMMA InsideStep ==
    ASSUME NEW m \in Modules, NEW ins \in Seq(Instructions),
           NEW functions \in Seq(FunctionRefs), NEW done \in Seq(ClassRefs),
           NEW x \in ClassRefs, NEW y \in ClassRefs,
           NEW t, t = Inside(m, ins, functions, done, x),
           NEW u, Keeps(u, t), Replaced(u, t, t.current_class, y), u.ok
    PROVE  u = Partial(m, ins, functions, Append(done, y), u.current_class)
<1>1. /\ t.module = m /\ t.ins = ins /\ t.functions = functions
      /\ t.classes = Append(done, x) /\ t.current_class = Len(done) + 1
  BY InsideFacts
<1>2. /\ u \in Tapes /\ u.module = m /\ u.ins = ins /\ u.functions = functions
  BY <1>1 DEF Keeps
<1>3. u.classes = Append(done, y)
  <2>1. PICK k : k = Len(done) + 1
    OBVIOUS
  <2>2. Replaced(u, t, k, y)
    BY <1>1, <2>1
  <2> QED BY <1>1, <1>2, <2>1, <2>2, ReplacedLast, ZenonT(40)
<1> QED BY <1>2, <1>3, IsPartial

LEMMA LineFields ==
    ASSUME NEW m \in Modules, NEW ins \in Seq(Instructions),
           NEW functions \in Seq(FunctionRefs), NEW done \in Seq(ClassRefs),
           NEW cref \in ClassRefs, NEW fields \in Seq(Identifiers),
           NEW methods \in Seq(FunctionRefs),
           NEW field \in Identifiers, field \notin ToSet(fields)
    PROVE  tape_field(Inside(m, ins, functions, done, Open(cref, fields, methods)), field)
             = Inside(m, ins, functions, done, Open(cref, Append(fields, field), methods))
<1>1. PICK x : x = Open(cref, fields, methods)
  OBVIOUS
<1>2. PICK t : t = Inside(m, ins, functions, done, x)
  OBVIOUS
<1>3. PICK u : u = tape_field(t, field)
  OBVIOUS
<1>4. PICK c : c = t.current_class
  OBVIOUS
<1>5. PICK old : old = t.classes[c]
  OBVIOUS
<1>6. PICK y : y = SetFields(old, Append(old.fields, field))
  OBVIOUS
<1>7. /\ x \in ClassRefs /\ x.name = cref.name /\ x.start_index = cref.start_index
      /\ x.end_index = 0 /\ x.fields = fields /\ x.functions = methods
  BY <1>1, OpenFacts
<1>8. /\ t \in Tapes /\ t.ok /\ c \in DOMAIN t.classes /\ c = Len(done) + 1
      /\ old \in ClassRefs
  BY <1>2, <1>4, <1>5, <1>7, InsideFacts
<1>9. /\ Keeps(u, t) /\ Replaced(u, t, c, y) /\ u.current_class = c
      /\ (u.ok <=> t.ok /\ field \notin ToSet(old.fields))
  BY <1>3, <1>4, <1>5, <1>6, <1>8, FieldFacts
<1>10. Append(old.fields, field) \in Seq(Identifiers)
  <2>1. old.fields \in Seq(Identifiers)
    BY <1>8 DEF ClassRefs
  <2> QED BY <2>1, AppendProperties
<1>11. /\ y \in ClassRefs /\ y.name = old.name /\ y.start_index = old.start_index
       /\ y.end_index = old.end_index /\ y.functions = old.functions
       /\ y.fields = Append(old.fields, field)
  BY <1>6, <1>8, <1>10, WithFields
<1>12. old = x
  BY <1>2, <1>4, <1>5, <1>7, InsideFacts
<1>13. y = Open(cref, Append(fields, field), methods)
  <2>1. /\ y.name = cref.name /\ y.start_index = cref.start_index /\ y.end_index = 0
        /\ y.fields = Append(fields, field) /\ y.functions = methods
    BY <1>7, <1>11, <1>12
  <2>2. y = Open(cref, y.fields, y.functions)
    BY <1>11, <2>1, IsOpen
  <2> QED BY <2>1, <2>2
<1>14. u = Inside(m, ins, functions, done, y)
  BY <1>2, <1>4, <1>7, <1>8, <1>9, <1>11, <1>12, InsideStep DEF Inside
<1> QED BY <1>1, <1>2, <1>3, <1>13, <1>14

\* At the end of a class it has all its fields and methods, and its end.
LEMMA LineCloses ==
    ASSUME NEW m \in Modules, NEW ins \in Seq(Instructions),
           NEW functions \in Seq(FunctionRefs), NEW done \in Seq(ClassRefs),
           NEW cref \in ClassRefs
    PROVE  tape_end_class_at_index(
               Inside(m, ins, functions, done, Open(cref, cref.fields, NotAsync(cref.functions))),
               cref.end_index)
             = Partial(m, ins, functions, Append(done, KeptClass(cref)), 0)
<1>1. PICK methods : methods = NotAsync(cref.functions)
  OBVIOUS
<1>2. PICK x : x = Open(cref, cref.fields, methods)
  OBVIOUS
<1>3. PICK t : t = Inside(m, ins, functions, done, x)
  OBVIOUS
<1>4. PICK end : end = cref.end_index
  OBVIOUS
<1>5. PICK u : u = tape_end_class_at_index(t, end)
  OBVIOUS
<1>6. PICK c : c = t.current_class
  OBVIOUS
<1>7. PICK old : old = t.classes[c]
  OBVIOUS
<1>8. PICK y : y = SetEnd(old, end)
  OBVIOUS
<1>9. /\ cref.functions \in Seq(FunctionRefs) /\ cref.fields \in Seq(Identifiers)
      /\ end \in Nat
  BY <1>4 DEF ClassRefs
<1>10. methods \in Seq(FunctionRefs)
  BY <1>1, <1>9, NotAsyncFacts
<1>11. /\ x \in ClassRefs /\ x.name = cref.name /\ x.start_index = cref.start_index
       /\ x.fields = cref.fields /\ x.functions = methods
  BY <1>2, <1>9, <1>10, OpenFacts
<1>12. /\ t \in Tapes /\ t.ok /\ c \in DOMAIN t.classes /\ old = x
  BY <1>3, <1>6, <1>7, <1>11, InsideFacts
<1>13. /\ y \in ClassRefs /\ y.name = cref.name /\ y.start_index = cref.start_index
       /\ y.end_index = end /\ y.fields = cref.fields /\ y.functions = methods
  BY <1>8, <1>9, <1>11, <1>12, WithEnd
<1>14. PICK z : z = SetFunctions(cref, methods)
  OBVIOUS
<1>15. /\ z \in ClassRefs /\ z.name = cref.name /\ z.start_index = cref.start_index
       /\ z.end_index = end /\ z.fields = cref.fields /\ z.functions = methods
  BY <1>4, <1>10, <1>14, WithFunctions
<1>16. y = z
  BY <1>13, <1>15, SameClass
<1>17. y = KeptClass(cref)
  BY <1>1, <1>14, <1>16 DEF KeptClass, SetFunctions
<1>18. /\ Keeps(u, t) /\ Replaced(u, t, c, y) /\ u.current_class = 0 /\ (u.ok <=> t.ok)
  BY <1>5, <1>6, <1>7, <1>8, <1>9, <1>12, EndClassFacts
<1>19. u = Partial(m, ins, functions, Append(done, y), 0)
  BY <1>3, <1>6, <1>11, <1>12, <1>13, <1>18, InsideStep
<1> QED BY <1>1, <1>2, <1>3, <1>4, <1>5, <1>17, <1>19

-----------------------------------------------------------------------------
(* Rows of lines.                                                           *)

\* The lines lead a reader from the tape a to the tape b without an error.
Reads(lines, a, b) ==
    \E g : /\ g[1] = a /\ g[Len(lines) + 1] = b
           /\ \A k \in 1 .. Len(lines) + 1 : g[k].ok
           /\ \A k \in 1 .. Len(lines) : ReadLine(g[k], lines[k]) = g[k + 1]

LEMMA ReadsNone ==
    ASSUME NEW a, a.ok
    PROVE  Reads(<<>>, a, a)
<1>1. PICK g : g = [k \in {1} |-> a]
  OBVIOUS
<1> QED BY <1>1 DEF Reads

LEMMA ReadsOne ==
    ASSUME NEW a, NEW line, a.ok, ReadLine(a, line).ok
    PROVE  Reads(<<line>>, a, ReadLine(a, line))
<1>1. PICK g : g = <<a, ReadLine(a, line)>>
  OBVIOUS
<1>2. Len(<<line>>) = 1 /\ <<line>>[1] = line /\ g[1] = a /\ g[2] = ReadLine(a, line)
  BY <1>1
<1>3. \A k \in 1 .. 2 : k = 1 \/ k = 2
  OBVIOUS
<1> QED BY <1>2, <1>3 DEF Reads

LEMMA ReadsMore ==
    ASSUME NEW S, NEW l \in Seq(S), NEW m \in Seq(S), NEW a, NEW b, NEW c,
           Reads(l, a, b), Reads(m, b, c)
    PROVE  Reads(l \o m, a, c)
<1>1. PICK g : /\ g[1] = a /\ g[Len(l) + 1] = b
               /\ \A k \in 1 .. Len(l) + 1 : g[k].ok
               /\ \A k \in 1 .. Len(l) : ReadLine(g[k], l[k]) = g[k + 1]
  BY DEF Reads
<1>2. PICK h : /\ h[1] = b /\ h[Len(m) + 1] = c
               /\ \A k \in 1 .. Len(m) + 1 : h[k].ok
               /\ \A k \in 1 .. Len(m) : ReadLine(h[k], m[k]) = h[k + 1]
  BY DEF Reads
<1>3. PICK x : x = Len(l)
  OBVIOUS
<1>4. PICK y : y = Len(m)
  OBVIOUS
<1>5. /\ x \in Nat /\ y \in Nat /\ Len(l \o m) = x + y
      /\ \A k \in 1 .. x + y : (l \o m)[k] = IF k <= x THEN l[k] ELSE m[k - x]
  BY <1>3, <1>4, LenProperties, ConcatProperties
<1>6. PICK f : f = [k \in 1 .. x + y + 1 |-> IF k <= x THEN g[k] ELSE h[k - x]]
  OBVIOUS
<1>7. \A k \in 1 .. x + 1 : f[k] = g[k]
  BY <1>1, <1>2, <1>3, <1>5, <1>6
<1>8. \A k, n \in Nat : k \in x + 1 .. x + y + 1 /\ k = n + x => f[k] = h[n]
  BY <1>5, <1>6
<1>9. f[1] = a /\ f[x + y + 1] = c
  <2>1. PICK z, n : z = x + y + 1 /\ n = y + 1
    OBVIOUS
  <2>2. /\ 1 \in 1 .. x + 1 /\ z \in Nat /\ n \in Nat
        /\ z \in x + 1 .. x + y + 1 /\ z = n + x
    BY <1>5, <2>1
  <2>3. f[z] = h[n]
    BY <1>8, <2>2
  <2>4. f[1] = g[1]
    BY <1>7, <2>2
  <2> QED BY <1>1, <1>2, <1>4, <2>1, <2>3, <2>4
<1>10. ASSUME NEW k \in 1 .. x + y + 1 PROVE f[k].ok
  BY <1>1, <1>2, <1>3, <1>4, <1>5, <1>6
<1>11. ASSUME NEW k \in 1 .. x + y PROVE ReadLine(f[k], (l \o m)[k]) = f[k + 1]
  <2>1. CASE k <= x
    BY <1>1, <1>3, <1>5, <1>7, <2>1
  <2>2. CASE k > x
    <3>1. PICK n, z, r : n = k - x /\ z = k + 1 /\ r = n + 1
      OBVIOUS
    <3>2. /\ n \in 1 .. y /\ n \in Nat /\ r \in Nat /\ z \in Nat /\ k \in Nat
          /\ k = n + x /\ z = r + x
          /\ k \in x + 1 .. x + y + 1 /\ z \in x + 1 .. x + y + 1
      BY <1>5, <2>2, <3>1
    <3>3. f[k] = h[n] /\ f[z] = h[r]
      BY <1>8, <3>2
    <3>4. (l \o m)[k] = m[n]
      BY <1>5, <2>2, <3>1
    <3> QED BY <1>2, <1>4, <3>1, <3>2, <3>3, <3>4
  <2> QED BY <1>5, <2>1, <2>2
<1> QED BY <1>5, <1>9, <1>10, <1>11, ZenonT(40) DEF Reads

\* What is left to be read after a line.
LEMMA ReadsNext ==
    ASSUME NEW S, NEW l \in Seq(S), l # <<>>, NEW a, NEW b, Reads(l, a, b)
    PROVE  Reads(Tail(l), ReadLine(a, Head(l)), b)
<1>1. PICK g : /\ g[1] = a /\ g[Len(l) + 1] = b
               /\ \A k \in 1 .. Len(l) + 1 : g[k].ok
               /\ \A k \in 1 .. Len(l) : ReadLine(g[k], l[k]) = g[k + 1]
  BY DEF Reads
<1>2. PICK x : x = Len(Tail(l))
  OBVIOUS
<1>3. /\ x \in Nat /\ Len(l) = x + 1 /\ Head(l) = l[1]
      /\ \A k \in 1 .. x : Tail(l)[k] = l[k + 1]
  BY <1>2, HeadTailProperties, LenProperties, EmptySeq
<1>4. PICK f : f = [k \in 1 .. x + 1 |-> g[k + 1]]
  OBVIOUS
<1>5. f[1] = ReadLine(a, Head(l)) /\ f[x + 1] = b
  BY <1>1, <1>3, <1>4
<1>6. \A k \in 1 .. x + 1 : f[k].ok
  BY <1>1, <1>3, <1>4
<1>7. ASSUME NEW k \in 1 .. x PROVE ReadLine(f[k], Tail(l)[k]) = f[k + 1]
  <2>1. f[k] = g[k + 1] /\ f[k + 1] = g[k + 1 + 1] /\ Tail(l)[k] = l[k + 1]
    BY <1>3, <1>4
  <2>2. k + 1 \in 1 .. Len(l)
    BY <1>3
  <2> QED BY <1>1, <2>1, <2>2
<1> QED BY <1>2, <1>5, <1>6, <1>7 DEF Reads

LEMMA ReadsEnds ==
    ASSUME NEW l, NEW a, NEW b, Reads(l, a, b), Len(l) \in Nat
    PROVE  a.ok /\ (l = <<>> => a = b)
  BY DEF Reads

-----------------------------------------------------------------------------
(* The writer.                                                              *)

Kinds == {"@", "class", "endclass", "field"}
Lines == [k : Kinds \cup {"ins", "module"}, name : Modules \cup {""}, ins : Seq(Instructions)]
BodyLines == {line \in Lines : line.k # "module"}
Writers == [i : Nat, class : Nat, in_class : BOOLEAN, method : Nat, func : Nat,
            lines : Seq(Lines)]

LEMMA WordFacts ==
    ASSUME NEW k \in Kinds, NEW name \in Identifiers
    PROVE  /\ Word(k, name) = <<Line(k, name, <<>>)>>
           /\ Line(k, name, <<>>).k = k /\ Line(k, name, <<>>).name = name
           /\ Line(k, name, <<>>) \in BodyLines /\ Word(k, name) \in Seq(BodyLines)
<1>1. <<>> \in Seq(Instructions) /\ name \in Modules \cup {""}
  BY EmptySeq DEF Modules
<1>2. /\ Line(k, name, <<>>) \in BodyLines
      /\ Line(k, name, <<>>).k = k /\ Line(k, name, <<>>).name = name
  BY <1>1 DEF Line, Lines, BodyLines, Kinds
<1>3. \A line \in BodyLines : <<line>> \in Seq(BodyLines)
  OBVIOUS
<1> QED BY <1>2, <1>3 DEF Word

LEMMA BodyIsLines ==
    ASSUME NEW body \in Seq(BodyLines)
    PROVE  body \in Seq(Lines)
<1>1. BodyLines \subseteq Lines
  BY DEF BodyLines
<1> QED BY <1>1, SeqMonotonic

LEMMA LinesAssociate == \A a, b, c \in Seq(Lines) : (a \o b) \o c = a \o (b \o c)
  BY ConcatAssociative

\* A writer that has left a class, entered one, or passed a label.
LeftClass(v, class, lines) == [v EXCEPT !.in_class = FALSE, !.class = class, !.lines = lines]
EnteredClass(v, method, lines) ==
    [v EXCEPT !.in_class = TRUE, !.method = method, !.lines = lines]
PassedMethod(v, method, lines) == [v EXCEPT !.method = method, !.lines = lines]
PassedFunction(v, func, lines) == [v EXCEPT !.func = func, !.lines = lines]
PassedIns(v, index, lines) == [v EXCEPT !.i = index, !.lines = lines]

LEMMA LeftClassFacts ==
    ASSUME NEW v \in Writers, NEW lines \in Seq(Lines), NEW n \in Nat
    PROVE  LET u == LeftClass(v, n, lines)
           IN  /\ u \in Writers /\ u.i = v.i /\ u.class = n /\ u.method = v.method
               /\ u.func = v.func /\ u.lines = lines
  BY DEF Writers, LeftClass

LEMMA LeftClassInClass ==
    ASSUME NEW v \in Writers, NEW lines \in Seq(Lines), NEW n \in Nat
    PROVE  LeftClass(v, n, lines).in_class = FALSE
  BY DEF Writers, LeftClass

LEMMA EnteredClassFacts ==
    ASSUME NEW v \in Writers, NEW lines \in Seq(Lines), NEW n \in Nat
    PROVE  LET u == EnteredClass(v, n, lines)
           IN  /\ u \in Writers /\ u.i = v.i /\ u.class = v.class /\ u.method = n
               /\ u.func = v.func /\ u.lines = lines
  BY DEF Writers, EnteredClass

LEMMA EnteredClassInClass ==
    ASSUME NEW v \in Writers, NEW lines \in Seq(Lines), NEW n \in Nat
    PROVE  EnteredClass(v, n, lines).in_class = TRUE
  BY DEF Writers, EnteredClass

LEMMA PassedMethodFacts ==
    ASSUME NEW v \in Writers, NEW lines \in Seq(Lines), NEW n \in Nat
    PROVE  LET u == PassedMethod(v, n, lines)
           IN  /\ u \in Writers /\ u.i = v.i /\ u.class = v.class /\ u.method = n
               /\ u.func = v.func /\ u.lines = lines
  BY DEF Writers, PassedMethod

LEMMA PassedMethodInClass ==
    ASSUME NEW v \in Writers, NEW lines \in Seq(Lines), NEW n \in Nat
    PROVE  PassedMethod(v, n, lines).in_class = v.in_class
  BY DEF Writers, PassedMethod

LEMMA PassedFunctionFacts ==
    ASSUME NEW v \in Writers, NEW lines \in Seq(Lines), NEW n \in Nat
    PROVE  LET u == PassedFunction(v, n, lines)
           IN  /\ u \in Writers /\ u.i = v.i /\ u.class = v.class /\ u.method = v.method
               /\ u.func = n /\ u.lines = lines
  BY DEF Writers, PassedFunction

LEMMA PassedFunctionInClass ==
    ASSUME NEW v \in Writers, NEW lines \in Seq(Lines), NEW n \in Nat
    PROVE  PassedFunction(v, n, lines).in_class = v.in_class
  BY DEF Writers, PassedFunction

LEMMA PassedInsFacts ==
    ASSUME NEW v \in Writers, NEW lines \in Seq(Lines), NEW n \in Nat
    PROVE  LET u == PassedIns(v, n, lines)
           IN  /\ u \in Writers /\ u.i = n /\ u.class = v.class /\ u.method = v.method
               /\ u.func = v.func /\ u.lines = lines
  BY DEF Writers, PassedIns

LEMMA PassedInsInClass ==
    ASSUME NEW v \in Writers, NEW lines \in Seq(Lines), NEW n \in Nat
    PROVE  PassedIns(v, n, lines).in_class = v.in_class
  BY DEF Writers, PassedIns

-----------------------------------------------------------------------------
(* The labels of a tape that is written.                                    *)

Writing(t) ==
    /\ t \in Tapes /\ t.ok /\ t.current_class = 0 /\ Sound(t) /\ LabelsApart(t)

LEMMA ClassSpread ==
    ASSUME NEW t, Writing(t), NEW c \in DOMAIN t.classes
    PROVE  /\ t.classes[c] \in ClassRefs
           /\ t.classes[c].start_index \in Nat /\ t.classes[c].end_index \in Nat
           /\ t.classes[c].start_index < t.classes[c].end_index
           /\ t.classes[c].end_index <= tape_size(t)
           /\ \A d \in DOMAIN t.classes :
                 c < d => t.classes[c].end_index <= t.classes[d].start_index
<1>1. c # 0
  BY TypeFacts, LenProperties DEF Writing
<1>2. \A d \in DOMAIN t.classes : EndOf(t, d) = t.classes[d].end_index
  BY TypeFacts, LenProperties DEF Writing, EndOf
<1> QED BY <1>2, TypeFacts DEF Writing, Sound, InOrder, ClassInOrder, LabelsApart

LEMMA FunctionSpread ==
    ASSUME NEW t, Writing(t), NEW f \in DOMAIN t.functions
    PROVE  /\ t.functions[f] \in FunctionRefs /\ t.functions[f].index \in Nat
           /\ t.functions[f].index <= tape_size(t)
           /\ \A g \in DOMAIN t.functions : f < g => t.functions[f].index < t.functions[g].index
           /\ \A c \in DOMAIN t.classes :
                 t.functions[f].index < t.classes[c].start_index
                   \/ t.functions[f].index >= t.classes[c].end_index
<1>1. \A g \in DOMAIN t.functions : t.functions[g].index \in Nat /\ g \in Nat
  BY TypeFacts, LenProperties DEF Writing
<1>2. ASSUME NEW g \in DOMAIN t.functions, f < g
      PROVE  t.functions[f].index < t.functions[g].index
  BY <1>1, <1>2 DEF Writing, Sound, InOrder, Rising, LabelsApart
<1>3. ASSUME NEW c \in DOMAIN t.classes
      PROVE  t.functions[f].index < t.classes[c].start_index
               \/ t.functions[f].index >= t.classes[c].end_index
  <2>1. t.functions[f].index \notin t.classes[c].start_index .. t.classes[c].end_index - 1
    BY DEF Writing, LabelsApart
  <2> QED BY <1>1, <2>1, ClassSpread
<1> QED BY <1>2, <1>3, TypeFacts DEF Writing, Sound, InOrder

LEMMA MethodSpread ==
    ASSUME NEW t, Writing(t), NEW c \in DOMAIN t.classes,
           NEW methods, methods = t.classes[c].functions, NEW m \in DOMAIN methods
    PROVE  /\ methods \in Seq(FunctionRefs) /\ methods[m] \in FunctionRefs
           /\ methods[m].index \in Nat /\ OnceNamed(methods)
           /\ t.classes[c].start_index <= methods[m].index
           /\ methods[m].index < t.classes[c].end_index
           /\ \A n \in DOMAIN methods : m < n => methods[m].index < methods[n].index
<1>1. /\ methods \in Seq(FunctionRefs) /\ c # 0
      /\ \A n \in DOMAIN methods : methods[n].index \in Nat /\ n \in Nat
  BY TypeFacts, LenProperties DEF Writing
<1>2. methods[m] \in FunctionRefs
  BY <1>1, LenProperties
<1>3. Rising(methods) /\ OnceNamed(methods)
      /\ methods[m].index \in t.classes[c].start_index .. EndOf(t, c)
  BY DEF Writing, Sound, InOrder, ClassInOrder, NamedOnce
<1>4. methods[m].index < t.classes[c].end_index
      /\ \A n \in DOMAIN methods : m # n => methods[m].index # methods[n].index
  BY DEF Writing, LabelsApart
<1>5. t.classes[c].start_index <= methods[m].index
  BY <1>1, <1>3, ClassSpread, TypeFacts DEF Writing, EndOf
<1>6. ASSUME NEW n \in DOMAIN methods, m < n PROVE methods[m].index < methods[n].index
  BY <1>1, <1>3, <1>4, <1>6 DEF Rising
<1> QED BY <1>1, <1>2, <1>3, <1>4, <1>5, <1>6

-----------------------------------------------------------------------------
(* The part of a tape that the writer has passed.                           *)

LEMMA KeptFacts ==
    ASSUME NEW t \in Tapes
    PROVE  /\ KeptModule(t) \in Modules
           /\ KeptClasses(t) \in Seq(ClassRefs) /\ Len(KeptClasses(t)) = Len(t.classes)
           /\ \A c \in 1 .. Len(t.classes) :
                 /\ KeptClasses(t)[c] = KeptClass(t.classes[c])
                 /\ KeptClasses(t)[c].name = t.classes[c].name
<1>1. /\ t.classes \in Seq(ClassRefs) /\ Len(t.classes) \in Nat
      /\ DOMAIN t.classes = 1 .. Len(t.classes)
  BY TypeFacts, LenProperties
<1>2. ASSUME NEW cref \in ClassRefs
      PROVE  KeptClass(cref) \in ClassRefs /\ KeptClass(cref).name = cref.name
  <2>1. NotAsync(cref.functions) \in Seq(FunctionRefs)
    BY NotAsyncFacts DEF ClassRefs
  <2>2. KeptClass(cref) = SetFunctions(cref, NotAsync(cref.functions))
    BY DEF KeptClass, SetFunctions
  <2> QED BY <2>1, <2>2, WithFunctions
<1>3. \A c \in 1 .. Len(t.classes) : t.classes[c] \in ClassRefs
  BY <1>1, ElementOfSeq
<1>4. \A c \in 1 .. Len(t.classes) : KeptClasses(t)[c] = KeptClass(t.classes[c])
  BY <1>1 DEF KeptClasses
<1>5. KeptClasses(t) \in [1 .. Len(t.classes) -> ClassRefs]
  BY <1>1, <1>2, <1>3 DEF KeptClasses
<1>6. ASSUME NEW n \in Nat, NEW S, NEW s \in [1 .. n -> S]
      PROVE  s \in Seq(S) /\ Len(s) = n
  OBVIOUS
<1>7. KeptClasses(t) \in Seq(ClassRefs) /\ Len(KeptClasses(t)) = Len(t.classes)
  BY <1>1, <1>5, <1>6
<1>8. KeptModule(t) \in Modules
  BY DEF KeptModule, Tapes, Modules
<1>9. \A c \in 1 .. Len(t.classes) : KeptClasses(t)[c].name = t.classes[c].name
  BY <1>2, <1>3, <1>4
<1> QED BY <1>4, <1>7, <1>8, <1>9

Done(t, v) == Prefix(KeptClasses(t), v.class - 1)
DoneFunctions(t, v) == Prefix(NotAsync(t.functions), v.func - 1)

LEMMA PartPieces ==
    ASSUME NEW t, Writing(t), NEW v \in Writers, NEW e, NEW s, NEW f, Passed(t, v, e, s, f),
           v.i <= tape_size(t)
    PROVE  /\ KeptModule(t) \in Modules
           /\ Prefix(t.ins, v.i) \in Seq(Instructions) /\ Len(Prefix(t.ins, v.i)) = v.i
           /\ DoneFunctions(t, v) \in Seq(FunctionRefs)
           /\ Done(t, v) \in Seq(ClassRefs) /\ Len(Done(t, v)) = v.class - 1
<1>1. /\ t \in Tapes /\ t.ins \in Seq(Instructions) /\ t.functions \in Seq(FunctionRefs)
      /\ Len(t.functions) \in Nat /\ Len(t.classes) \in Nat /\ v.i \in 0 .. Len(t.ins)
  BY TypeFacts, LenProperties DEF Writing, Writers, tape_size
<1>2. /\ v.class - 1 \in 0 .. Len(t.classes) /\ v.func - 1 \in 0 .. Len(t.functions)
  BY <1>1, SMTT(30) DEF Passed
<1>3. PICK fs : fs = NotAsync(t.functions)
  OBVIOUS
<1>4. fs \in Seq(FunctionRefs) /\ Len(fs) = Len(t.functions)
  BY <1>1, <1>3, NotAsyncFacts
<1>5. DoneFunctions(t, v) \in Seq(FunctionRefs)
  BY <1>2, <1>3, <1>4, PrefixFacts DEF DoneFunctions
<1>6. PICK cs : cs = KeptClasses(t)
  OBVIOUS
<1>7. cs \in Seq(ClassRefs) /\ Len(cs) = Len(t.classes) /\ KeptModule(t) \in Modules
  BY <1>1, <1>6, KeptFacts
<1>8. Done(t, v) \in Seq(ClassRefs) /\ Len(Done(t, v)) = v.class - 1
  BY <1>2, <1>6, <1>7, PrefixFacts DEF Done
<1>9. Prefix(t.ins, v.i) \in Seq(Instructions) /\ Len(Prefix(t.ins, v.i)) = v.i
  BY <1>1, PrefixFacts
<1> QED BY <1>5, <1>7, <1>8, <1>9

LEMMA PartOutside ==
    ASSUME NEW t, Writing(t), NEW v \in Writers, NEW e, NEW s, NEW f, Passed(t, v, e, s, f),
           v.i <= tape_size(t), v.in_class = FALSE
    PROVE  LET p == Part(t, v)
           IN  /\ p = Partial(KeptModule(t), Prefix(t.ins, v.i), DoneFunctions(t, v),
                              Done(t, v), 0)
               /\ p \in Tapes /\ p.ok /\ tape_size(p) = v.i
<1>1. Part(t, v) = Partial(KeptModule(t), Prefix(t.ins, v.i), DoneFunctions(t, v),
                           Done(t, v), 0)
  BY DEF Part, Done, DoneFunctions
<1>2. PICK p : p = Part(t, v)
  OBVIOUS
<1>3. p \in Tapes /\ p.ok /\ p.ins = Prefix(t.ins, v.i)
  BY <1>1, <1>2, PartPieces, PartialFacts
<1>4. tape_size(p) = v.i
  BY <1>3, PartPieces DEF tape_size
<1> QED BY <1>1, <1>2, <1>3, <1>4

\* The open class and its methods.
LEMMA OpenPieces ==
    ASSUME NEW t, Writing(t), NEW v \in Writers, NEW e, NEW s, NEW f, Passed(t, v, e, s, f),
           v.in_class = TRUE
    PROVE  LET cref == t.classes[v.class]
               methods == Prefix(NotAsync(cref.functions), v.method - 1)
           IN  /\ v.class \in DOMAIN t.classes /\ cref \in ClassRefs
               /\ cref.fields \in Seq(Identifiers) /\ methods \in Seq(FunctionRefs)
               /\ OpenPart(t, v) = Open(cref, cref.fields, methods)
               /\ OpenPart(t, v) \in ClassRefs
<1>1. PICK cref : cref = t.classes[v.class]
  OBVIOUS
<1>2. /\ t.classes \in Seq(ClassRefs) /\ Len(t.classes) \in Nat
      /\ DOMAIN t.classes = 1 .. Len(t.classes)
  BY TypeFacts, LenProperties DEF Writing
<1>3. v.class \in DOMAIN t.classes /\ v.method \in 1 .. Len(cref.functions) + 1
  BY <1>1, <1>2 DEF Passed
<1>4. /\ cref \in ClassRefs /\ cref.fields \in Seq(Identifiers)
      /\ cref.functions \in Seq(FunctionRefs)
  BY <1>1, <1>3, TypeFacts DEF Writing
<1>5. PICK kept : kept = NotAsync(cref.functions)
  OBVIOUS
<1>6. kept \in Seq(FunctionRefs) /\ Len(kept) = Len(cref.functions) /\ Len(kept) \in Nat
  BY <1>4, <1>5, NotAsyncFacts, LenProperties
<1>7. PICK methods : methods = Prefix(kept, v.method - 1)
  OBVIOUS
<1>8. v.method - 1 \in 0 .. Len(kept)
  BY <1>3, <1>6
<1>9. methods \in Seq(FunctionRefs)
  BY <1>6, <1>7, <1>8, PrefixFacts
<1>10. OpenPart(t, v) = Open(cref, cref.fields, methods)
  BY <1>1, <1>5, <1>7 DEF OpenPart
<1>11. OpenPart(t, v) \in ClassRefs
  BY <1>4, <1>9, <1>10, OpenFacts
<1> QED BY <1>1, <1>3, <1>4, <1>5, <1>7, <1>9, <1>10, <1>11

LEMMA PartInside ==
    ASSUME NEW t, Writing(t), NEW v \in Writers, NEW e, NEW s, NEW f, Passed(t, v, e, s, f),
           v.i <= tape_size(t), v.in_class = TRUE
    PROVE  LET p == Part(t, v)
           IN  /\ p = Inside(KeptModule(t), Prefix(t.ins, v.i), DoneFunctions(t, v),
                             Done(t, v), OpenPart(t, v))
               /\ p \in Tapes /\ p.ok /\ tape_size(p) = v.i
<1>1. v.class \in Nat /\ v.class = Len(Done(t, v)) + 1
  BY PartPieces DEF Writers
<1>2. Part(t, v) = Partial(KeptModule(t), Prefix(t.ins, v.i), DoneFunctions(t, v),
                           Append(Done(t, v), OpenPart(t, v)), v.class)
  BY DEF Part, Done, DoneFunctions
<1>3. PICK p : p = Part(t, v)
  OBVIOUS
<1>4. p = Inside(KeptModule(t), Prefix(t.ins, v.i), DoneFunctions(t, v),
                 Done(t, v), OpenPart(t, v))
  BY <1>1, <1>2, <1>3 DEF Inside
<1>5. p \in Tapes /\ p.ok /\ p.ins = Prefix(t.ins, v.i)
  <2>1. OpenPart(t, v) \in ClassRefs
    BY OpenPieces
  <2>2. /\ KeptModule(t) \in Modules /\ Prefix(t.ins, v.i) \in Seq(Instructions)
        /\ DoneFunctions(t, v) \in Seq(FunctionRefs) /\ Done(t, v) \in Seq(ClassRefs)
    BY PartPieces
  <2> QED BY <1>4, <2>1, <2>2, InsideFacts
<1>6. tape_size(p) = v.i
  BY <1>5, PartPieces DEF tape_size
<1> QED BY <1>3, <1>4, <1>5, <1>6

-----------------------------------------------------------------------------
(* What the writer writes at an index.                                      *)

LEMMA ReadLineCases ==
    ASSUME NEW a, NEW line
    PROVE  /\ line.k = "ins" => ReadLine(a, line) = tape_add(a, line.ins[1])
           /\ line.k = "@" => ReadLine(a, line)
                 = tape_start_func_at_index(a, line.name, tape_size(a), FALSE)
           /\ line.k = "class" => ReadLine(a, line)
                 = tape_start_class_at_index(a, line.name, tape_size(a))
           /\ line.k = "endclass" => ReadLine(a, line)
                 = tape_end_class_at_index(a, tape_size(a))
           /\ line.k = "field" => ReadLine(a, line) = tape_field(a, line.name)
  BY DEF ReadLine, tape_read_ins

\* The writer goes from v to u, and what it has written leads a reader from the
\* part that v has passed to the one that u has.
Advance(t, v, u) ==
    \E l \in Seq(BodyLines) : u.lines = v.lines \o l /\ Reads(l, Part(t, v), Part(t, u))

LEMMA NoAdvance ==
    ASSUME NEW t, NEW v \in Writers, Part(t, v).ok
    PROVE  Advance(t, v, v)
<1>1. v.lines \in Seq(Lines) /\ <<>> \in Seq(BodyLines)
  BY EmptySeq DEF Writers
<1>2. v.lines \o <<>> = v.lines
  BY <1>1, ConcatEmptySeq
<1> QED BY <1>1, <1>2, ReadsNone DEF Advance

LEMMA AdvanceFurther ==
    ASSUME NEW t, NEW v \in Writers, NEW u, NEW x, Advance(t, v, u), Advance(t, u, x)
    PROVE  Advance(t, v, x)
<1>1. PICK l \in Seq(BodyLines) : u.lines = v.lines \o l /\ Reads(l, Part(t, v), Part(t, u))
  BY DEF Advance
<1>2. PICK m \in Seq(BodyLines) : x.lines = u.lines \o m /\ Reads(m, Part(t, u), Part(t, x))
  BY DEF Advance
<1>3. l \in Seq(Lines) /\ m \in Seq(Lines) /\ v.lines \in Seq(Lines)
  BY BodyIsLines DEF Writers
<1>4. x.lines = v.lines \o (l \o m)
  <2>1. (v.lines \o l) \o m = v.lines \o (l \o m)
    BY <1>3, LinesAssociate, Zenon
  <2>2. x.lines = (v.lines \o l) \o m
    BY <1>1, <1>2
  <2> QED BY <2>1, <2>2
<1>5. l \o m \in Seq(BodyLines) /\ Reads(l \o m, Part(t, v), Part(t, x))
  BY <1>1, <1>2, ConcatProperties, ReadsMore
<1> QED BY <1>4, <1>5 DEF Advance

LEMMA PartOk ==
    ASSUME NEW t, Writing(t), NEW v \in Writers, NEW e, NEW s, NEW f, Passed(t, v, e, s, f),
           v.i <= tape_size(t)
    PROVE  Part(t, v).ok
<1>1. v.in_class \in BOOLEAN
  BY DEF Writers
<1> QED BY <1>1, PartInside, PartOutside

\* The writer is before the end of its class, or behind it.
LEMMA PassedEnds ==
    ASSUME NEW t, Writing(t), NEW v \in Writers, NEW n \in Nat, Passed(t, v, n, n, n)
    PROVE  /\ v.in_class = FALSE => Passed(t, v, n + 1, n, n)
           /\ v.in_class = TRUE /\ t.classes[v.class].end_index # n
                => Passed(t, v, n + 1, n, n)
           /\ \A u \in Writers :
                 /\ v.in_class = TRUE /\ t.classes[v.class].end_index = n
                 /\ u.in_class = FALSE /\ u.class = v.class + 1 /\ u.func = v.func
                 => Passed(t, u, n + 1, n, n)
<1>1. /\ DOMAIN t.classes = 1 .. Len(t.classes) /\ Len(t.classes) \in Nat
      /\ v.class \in Nat
  BY TypeFacts, LenProperties DEF Writing, Passed
<1>2. \A c \in DOMAIN t.classes :
          /\ t.classes[c].start_index \in Nat /\ t.classes[c].end_index \in Nat
          /\ t.classes[c].start_index < t.classes[c].end_index
          /\ \A d \in DOMAIN t.classes :
                c < d => t.classes[c].end_index <= t.classes[d].start_index
  BY ClassSpread
<1>3. \A c \in DOMAIN t.classes : c < v.class <=> t.classes[c].end_index < n
  BY DEF Passed
<1>4. v.in_class = TRUE => v.class \in DOMAIN t.classes
  BY <1>1 DEF Passed
<1>5. \A c \in DOMAIN t.classes : t.classes[c].end_index = n => c = v.class /\ v.in_class = TRUE
  <2> SUFFICES ASSUME NEW c \in DOMAIN t.classes, t.classes[c].end_index = n
               PROVE  c = v.class /\ v.in_class = TRUE
    OBVIOUS
  <2>1. c >= v.class
    BY <1>1, <1>2, <1>3
  <2>2. ASSUME c > v.class PROVE FALSE
    <3>1. v.class \in DOMAIN t.classes
      BY <1>1, <2>2 DEF Passed
    <3>2. t.classes[v.class].end_index < n
      BY <1>2, <2>2, <3>1
    <3> QED BY <1>1, <1>3, <3>1, <3>2
  <2>3. c = v.class
    BY <1>1, <2>1, <2>2
  <2>4. t.classes[c].start_index < n
    BY <1>2
  <2>5. v.in_class = TRUE
    BY <1>1, <2>3, <2>4 DEF Passed
  <2> QED BY <2>3, <2>5
<1>6. ASSUME v.in_class = FALSE \/ t.classes[v.class].end_index # n
      PROVE  Passed(t, v, n + 1, n, n)
  <2>1. \A c \in DOMAIN t.classes : c < v.class <=> t.classes[c].end_index < n + 1
    BY <1>2, <1>3, <1>5, <1>6
  <2> QED BY <2>1 DEF Passed
<1>7. ASSUME NEW u \in Writers, v.in_class = TRUE, t.classes[v.class].end_index = n,
             u.in_class = FALSE, u.class = v.class + 1, u.func = v.func
      PROVE  Passed(t, u, n + 1, n, n)
  <2>1. u.class \in 1 .. Len(t.classes) + 1
    BY <1>1, <1>4, <1>7
  <2>2. \A c \in DOMAIN t.classes : c < u.class <=> t.classes[c].end_index < n + 1
    BY <1>1, <1>2, <1>3, <1>5, <1>7
  <2>3. ~(u.class <= Len(t.classes) /\ t.classes[u.class].start_index < n)
    <3>1. u.class <= Len(t.classes) => u.class \in DOMAIN t.classes
      BY <1>1, <2>1
    <3> QED BY <1>1, <1>2, <1>4, <1>7, <3>1
  <2> QED BY <1>7, <2>1, <2>2, <2>3 DEF Passed
<1> QED BY <1>6, <1>7

LEMMA WriteWord ==
    ASSUME NEW v \in Writers, NEW k \in Kinds, NEW name \in Identifiers
    PROVE  /\ v.lines \o Word(k, name) \in Seq(Lines)
           /\ Word(k, name) \in Seq(BodyLines)
<1>1. Word(k, name) \in Seq(BodyLines)
  BY WordFacts
<1>2. Word(k, name) \in Seq(Lines) /\ v.lines \in Seq(Lines)
  BY <1>1, BodyIsLines DEF Writers
<1> QED BY <1>1, <1>2, ConcatProperties

LEMMA AdvanceWord ==
    ASSUME NEW t, NEW v \in Writers, NEW u, NEW k \in Kinds,
           NEW name \in Identifiers, u.lines = v.lines \o Word(k, name),
           Part(t, v).ok, Part(t, u).ok,
           ReadLine(Part(t, v), Line(k, name, <<>>)) = Part(t, u)
    PROVE  Advance(t, v, u)
<1>1. Word(k, name) = <<Line(k, name, <<>>)>> /\ Word(k, name) \in Seq(BodyLines)
  BY WordFacts
<1>2. Reads(Word(k, name), Part(t, v), Part(t, u))
  BY <1>1, ReadsOne
<1> QED BY <1>1, <1>2 DEF Advance

\* At the end of a class all of its methods are passed.
LEMMA AllMethods ==
    ASSUME NEW t, Writing(t), NEW v \in Writers, NEW n \in Nat, Passed(t, v, n, n, n),
           v.in_class = TRUE, t.classes[v.class].end_index = n
    PROVE  OpenPart(t, v) = Open(t.classes[v.class], t.classes[v.class].fields,
                                 NotAsync(t.classes[v.class].functions))
<1>1. PICK cref : cref = t.classes[v.class]
  OBVIOUS
<1>2. PICK methods : methods = cref.functions
  OBVIOUS
<1>3. /\ v.class \in DOMAIN t.classes /\ methods \in Seq(FunctionRefs)
      /\ Len(methods) \in Nat /\ DOMAIN methods = 1 .. Len(methods)
  BY <1>1, <1>2, OpenPieces, LenProperties DEF ClassRefs
<1>4. \A m \in DOMAIN methods : methods[m].index < n
  BY <1>1, <1>2, <1>3, MethodSpread
<1>5. /\ v.method \in 1 .. Len(methods) + 1
      /\ \A m \in DOMAIN methods : m < v.method <=> methods[m].index < n
  BY <1>1, <1>2 DEF Passed
<1>6. v.method - 1 = Len(methods)
  BY <1>3, <1>4, <1>5
<1>7. NotAsync(methods) \in Seq(FunctionRefs) /\ Len(NotAsync(methods)) = Len(methods)
  BY <1>3, NotAsyncFacts
<1>8. Prefix(NotAsync(methods), v.method - 1) = NotAsync(methods)
  BY <1>6, <1>7, PrefixEnds
<1> QED BY <1>1, <1>2, <1>8 DEF OpenPart

LEMMA EndClassStep ==
    ASSUME NEW t, Writing(t), NEW v \in Writers, NEW n \in Nat, n <= tape_size(t),
           v.i = n, Passed(t, v, n, n, n), NEW u, u = WriteEndClass(t, v)
    PROVE  u \in Writers /\ u.i = n /\ Passed(t, u, n + 1, n, n) /\ Advance(t, v, u)
<1>1. Part(t, v).ok /\ v.in_class \in BOOLEAN
  BY PartOk DEF Writers
<1>2. CASE ~(v.in_class = TRUE /\ t.classes[v.class].end_index = n)
  <2>1. u = v
    BY <1>1, <1>2 DEF WriteEndClass
  <2> QED BY <1>1, <1>2, <2>1, PassedEnds, NoAdvance
<1>3. CASE v.in_class = TRUE /\ t.classes[v.class].end_index = n
  <2>1. PICK cref : cref = t.classes[v.class]
    OBVIOUS
  <2>2. v.class \in DOMAIN t.classes /\ cref \in ClassRefs /\ cref.name \in Identifiers
    BY <1>3, <2>1, OpenPieces DEF ClassRefs
  <2>3. PICK lines : lines = v.lines \o Word("endclass", cref.name)
    OBVIOUS
  <2>4. "endclass" \in Kinds
    BY DEF Kinds
  <2>5. PICK next : next = v.class + 1
    OBVIOUS
  <2>6. lines \in Seq(Lines)
    BY <2>2, <2>3, <2>4, WriteWord
  <2>7. u = LeftClass(v, next, lines)
    BY <1>3, <2>1, <2>3, <2>5 DEF WriteEndClass, LeftClass
  <2>8. next \in Nat /\ v.class \in Nat
    BY <2>5 DEF Writers
  <2>9. /\ u \in Writers /\ u.i = n /\ u.in_class = FALSE /\ u.class = next
        /\ u.func = v.func /\ u.lines = lines
    <3>1. u.in_class = FALSE
      BY <2>6, <2>7, <2>8, LeftClassInClass
    <3>2. u.func = v.func /\ u.lines = lines
      BY <2>6, <2>7, <2>8, LeftClassFacts, SMTT(30)
    <3>3. u.i = v.i /\ u.class = next
      BY <2>6, <2>7, <2>8, LeftClassFacts, SMTT(30)
    <3>4. LeftClass(v, next, lines) \in Writers
      BY <2>6, <2>8, LeftClassFacts
    <3>5. u \in Writers
      BY <2>7, <3>4
    <3> QED BY <3>1, <3>2, <3>3, <3>5
  <2>10. Passed(t, u, n + 1, n, n)
    BY <1>3, <2>9, <2>5, PassedEnds
  <2>11. PICK m : m = KeptModule(t)
    OBVIOUS
  <2>12. PICK ins : ins = Prefix(t.ins, n)
    OBVIOUS
  <2>13. PICK fs : fs = DoneFunctions(t, v)
    OBVIOUS
  <2>14. PICK done : done = Done(t, v)
    OBVIOUS
  <2>15. /\ m \in Modules /\ ins \in Seq(Instructions) /\ fs \in Seq(FunctionRefs)
         /\ done \in Seq(ClassRefs)
    BY <2>11, <2>12, <2>13, <2>14, PartPieces
  <2>16. PICK p : p = Part(t, v)
    OBVIOUS
  <2>17. p = Inside(m, ins, fs, done, Open(cref, cref.fields, NotAsync(cref.functions)))
         /\ tape_size(p) = n
    BY <1>3, <2>1, <2>11, <2>12, <2>13, <2>14, <2>16, PartInside, AllMethods
  <2>18. tape_end_class_at_index(p, n) = Partial(m, ins, fs, Append(done, KeptClass(cref)), 0)
    BY <1>3, <2>1, <2>2, <2>15, <2>17, LineCloses
  <2>19. Append(done, KeptClass(cref)) = Done(t, u)
    <3>1. PICK cs : cs = KeptClasses(t)
      OBVIOUS
    <3>2. /\ cs \in Seq(ClassRefs) /\ Len(cs) = Len(t.classes)
          /\ v.class \in 1 .. Len(cs) /\ cs[v.class] = KeptClass(cref)
      BY <2>1, <2>2, <3>1, KeptFacts, TypeFacts, LenProperties DEF Writing
    <3>3. PICK k : k = v.class - 1
      OBVIOUS
    <3>4. k \in Nat /\ k < Len(cs) /\ k + 1 = v.class /\ u.class - 1 = k + 1
      BY <2>8, <2>9, <2>5, <3>2, <3>3, LenProperties
    <3>5. Prefix(cs, k + 1) = Append(Prefix(cs, k), cs[k + 1])
      BY <3>2, <3>4, PrefixStep
    <3> QED BY <2>14, <3>1, <3>2, <3>3, <3>4, <3>5 DEF Done
  <2>20. DoneFunctions(t, u) = fs
    BY <2>9, <2>13 DEF DoneFunctions
  <2>21. Part(t, u) = tape_end_class_at_index(p, n) /\ Part(t, u).ok
    BY <2>9, <2>10, <2>11, <2>12, <2>18, <2>19, <2>20, PartOutside
  <2>22. /\ Line("endclass", cref.name, <<>>).k = "endclass"
         /\ Word("endclass", cref.name) \in Seq(BodyLines)
    BY <2>2, <2>4, WordFacts
  <2>23. ReadLine(p, Line("endclass", cref.name, <<>>)) = Part(t, u)
    BY <2>17, <2>21, <2>22, ReadLineCases
  <2>24. Advance(t, v, u)
    BY <1>1, <2>2, <2>3, <2>9, <2>16, <2>21, <2>23, <2>4, AdvanceWord
  <2> QED BY <2>9, <2>10, <2>24
<1> QED BY <1>2, <1>3

\* The fields of a class as lines.
FieldLines(cref) == [k \in 1 .. Len(cref.fields) |-> Line("field", cref.fields[k], <<>>)]

LEMMA FieldLinesFacts ==
    ASSUME NEW cref \in ClassRefs
    PROVE  /\ FieldLines(cref) \in Seq(BodyLines) /\ Len(FieldLines(cref)) = Len(cref.fields)
           /\ \A k \in 1 .. Len(cref.fields) :
                 /\ cref.fields[k] \in Identifiers
                 /\ FieldLines(cref)[k].k = "field" /\ FieldLines(cref)[k].name = cref.fields[k]
<1>1. cref.fields \in Seq(Identifiers)
  BY DEF ClassRefs
<1>2. PICK fields \in Seq(Identifiers) : fields = cref.fields
  BY <1>1
<1>3. Len(fields) \in Nat /\ \A k \in 1 .. Len(fields) : fields[k] \in Identifiers
  BY LenProperties, ElementOfSeq
<1>4. "field" \in Kinds
  BY DEF Kinds
<1>5. \A k \in 1 .. Len(fields) : /\ Line("field", fields[k], <<>>) \in BodyLines
                                 /\ Line("field", fields[k], <<>>).k = "field"
                                 /\ Line("field", fields[k], <<>>).name = fields[k]
  BY <1>3, <1>4, WordFacts
<1>6. PICK ls : ls = [k \in 1 .. Len(fields) |-> Line("field", fields[k], <<>>)]
  OBVIOUS
<1>7. ls \in [1 .. Len(fields) -> BodyLines]
  BY <1>5, <1>6
<1>8. ASSUME NEW n \in Nat, NEW S, NEW x \in [1 .. n -> S]
      PROVE  x \in Seq(S) /\ Len(x) = n
  OBVIOUS
<1>9. ls \in Seq(BodyLines) /\ Len(ls) = Len(fields)
  BY <1>3, <1>7, <1>8
<1>10. \A k \in 1 .. Len(fields) : ls[k].k = "field" /\ ls[k].name = fields[k]
  BY <1>5, <1>6
<1>11. ls = FieldLines(cref)
  BY <1>2, <1>6 DEF FieldLines
<1> QED BY <1>2, <1>3, <1>9, <1>10, <1>11

LEMMA FieldsRead ==
    ASSUME NEW m \in Modules, NEW ins \in Seq(Instructions),
           NEW functions \in Seq(FunctionRefs), NEW done \in Seq(ClassRefs),
           NEW cref \in ClassRefs, IsInjective(cref.fields)
    PROVE  Reads(FieldLines(cref),
                 Inside(m, ins, functions, done, Open(cref, <<>>, <<>>)),
                 Inside(m, ins, functions, done, Open(cref, cref.fields, <<>>)))
<1>1. PICK fields : fields = cref.fields
  OBVIOUS
<1>2. PICK none : none = <<>>
  OBVIOUS
<1>3. /\ fields \in Seq(Identifiers) /\ Len(fields) \in Nat /\ none \in Seq(FunctionRefs)
      /\ DOMAIN fields = 1 .. Len(fields)
  BY <1>1, <1>2, LenProperties, EmptySeq DEF ClassRefs
<1>4. PICK ls : ls = FieldLines(cref)
  OBVIOUS
<1>5. /\ Len(ls) = Len(fields)
      /\ \A k \in 1 .. Len(fields) :
            fields[k] \in Identifiers /\ ls[k].k = "field" /\ ls[k].name = fields[k]
  BY <1>1, <1>4, FieldLinesFacts
<1>6. PICK g : g = [k \in 1 .. Len(fields) + 1 |->
                       Inside(m, ins, functions, done, Open(cref, Prefix(fields, k - 1), none))]
  OBVIOUS
<1>7. \A n \in 0 .. Len(fields) : Prefix(fields, n) \in Seq(Identifiers)
  BY <1>3, PrefixFacts
<1>8. ASSUME NEW k \in 1 .. Len(fields) + 1 PROVE g[k].ok
  <2>1. PICK x : x = Open(cref, Prefix(fields, k - 1), none)
    OBVIOUS
  <2>2. k - 1 \in 0 .. Len(fields)
    BY <1>3
  <2>3. x \in ClassRefs
    BY <1>3, <1>7, <2>1, <2>2, OpenFacts
  <2>4. g[k] = Inside(m, ins, functions, done, x)
    BY <1>6, <2>1
  <2> QED BY <2>3, <2>4, InsideFacts
<1>9. ASSUME NEW k \in 1 .. Len(fields) PROVE ReadLine(g[k], ls[k]) = g[k + 1]
  <2>1. PICK before : before = Prefix(fields, k - 1)
    OBVIOUS
  <2>2. PICK n : n = k - 1
    OBVIOUS
  <2>3. n \in Nat /\ n \in 0 .. Len(fields) /\ n < Len(fields) /\ n + 1 = k
        /\ k \in 1 .. Len(fields) + 1 /\ k + 1 \in 1 .. Len(fields) + 1 /\ (k + 1) - 1 = k
    BY <1>3, <2>2
  <2>4. /\ before \in Seq(Identifiers) /\ DOMAIN before = 1 .. n
        /\ \A a \in 1 .. n : before[a] = fields[a]
    BY <1>3, <2>1, <2>2, <2>3, PrefixFacts, ZenonT(40)
  <2>5. fields[k] \notin ToSet(before)
    <3>1. \A a, b \in 1 .. Len(fields) : fields[a] = fields[b] => a = b
      BY <1>1, <1>3 DEF IsInjective
    <3>2. \A a \in 1 .. n : fields[a] # fields[k]
      BY <2>3, <3>1
    <3>3. \A x \in ToSet(before) : \E a \in DOMAIN before : x = before[a]
      BY DEF ToSet
    <3> QED BY <2>4, <3>2, <3>3
  <2>6. Append(before, fields[k]) = Prefix(fields, k)
    BY <1>3, <2>1, <2>2, <2>3, PrefixStep
  <2>7. g[k] = Inside(m, ins, functions, done, Open(cref, before, none))
    BY <1>6, <2>1, <2>3
  <2>8. g[k + 1] = Inside(m, ins, functions, done, Open(cref, Prefix(fields, k), none))
    BY <1>6, <2>3
  <2>9. tape_field(g[k], fields[k])
          = Inside(m, ins, functions, done, Open(cref, Append(before, fields[k]), none))
    BY <1>3, <1>5, <2>4, <2>5, <2>7, LineFields
  <2>10. ReadLine(g[k], ls[k]) = tape_field(g[k], fields[k])
    <3>1. PICK line, a : line = ls[k] /\ a = g[k]
      OBVIOUS
    <3>2. line.k = "field" /\ line.name = fields[k]
      BY <1>5, <3>1
    <3> QED BY <3>1, <3>2, ReadLineCases, ZenonT(40)
  <2> QED BY <2>6, <2>8, <2>9, <2>10
<1>10. Prefix(fields, 0) = none /\ Prefix(fields, Len(fields)) = fields
  BY <1>2, <1>3, PrefixEnds
<1>11. g[1] = Inside(m, ins, functions, done, Open(cref, none, none))
  BY <1>3, <1>6, <1>10
<1>12. g[Len(ls) + 1] = Inside(m, ins, functions, done, Open(cref, fields, none))
  <2>1. PICK z : z = Len(fields) + 1
    OBVIOUS
  <2>2. z \in 1 .. Len(fields) + 1 /\ z - 1 = Len(fields)
    BY <1>3, <2>1
  <2>3. g[z] = Inside(m, ins, functions, done, Open(cref, Prefix(fields, Len(fields)), none))
    BY <1>6, <2>2
  <2> QED BY <1>5, <1>10, <2>1, <2>3
<1>13. Reads(ls, g[1], g[Len(ls) + 1])
  BY <1>5, <1>8, <1>9 DEF Reads
<1> QED BY <1>1, <1>2, <1>4, <1>11, <1>12, <1>13

\* A class that starts at the index is entered before its methods.
LEMMA PassedStarts ==
    ASSUME NEW t, Writing(t), NEW v \in Writers, NEW n \in Nat, Passed(t, v, n + 1, n, n)
    PROVE  /\ ~(v.class <= Len(t.classes) /\ v.in_class = FALSE
                  /\ t.classes[v.class].start_index = n)
                => Passed(t, v, n + 1, n + 1, n)
           /\ \A u \in Writers :
                 /\ v.class <= Len(t.classes) /\ v.in_class = FALSE
                 /\ t.classes[v.class].start_index = n
                 /\ u.in_class = TRUE /\ u.class = v.class /\ u.func = v.func /\ u.method = 1
                 => Passed(t, u, n + 1, n + 1, n)
<1>1. /\ DOMAIN t.classes = 1 .. Len(t.classes) /\ Len(t.classes) \in Nat
      /\ v.class \in Nat /\ v.class >= 1 /\ v.in_class \in BOOLEAN
  BY TypeFacts, LenProperties DEF Writing, Passed
<1>2. \A c \in DOMAIN t.classes : t.classes[c].start_index \in Nat
  BY ClassSpread
<1>3. v.class <= Len(t.classes) => v.class \in DOMAIN t.classes
  BY <1>1
<1>4. v.in_class <=> v.class <= Len(t.classes) /\ t.classes[v.class].start_index < n
  BY DEF Passed
<1>5. ASSUME ~(v.class <= Len(t.classes) /\ v.in_class = FALSE
                 /\ t.classes[v.class].start_index = n)
      PROVE  Passed(t, v, n + 1, n + 1, n)
  <2>1. v.in_class <=> v.class <= Len(t.classes) /\ t.classes[v.class].start_index < n + 1
    <3>1. CASE v.class <= Len(t.classes)
      <4>1. t.classes[v.class].start_index \in Nat
        BY <1>2, <1>3, <3>1
      <4> QED BY <1>1, <1>4, <1>5, <3>1, <4>1
    <3>2. CASE ~(v.class <= Len(t.classes))
      BY <1>4, <3>2
    <3> QED BY <3>1, <3>2
  <2> QED BY <2>1 DEF Passed
<1>6. ASSUME NEW u \in Writers, v.class <= Len(t.classes), v.in_class = FALSE,
             t.classes[v.class].start_index = n,
             u.in_class = TRUE, u.class = v.class, u.func = v.func, u.method = 1
      PROVE  Passed(t, u, n + 1, n + 1, n)
  <2>1. PICK methods : methods = t.classes[v.class].functions
    OBVIOUS
  <2>2. /\ Len(methods) \in Nat /\ DOMAIN methods = 1 .. Len(methods)
    BY <1>3, <1>6, <2>1, TypeFacts, LenProperties DEF Writing
  <2>3. \A m \in DOMAIN methods : methods[m].index \in Nat /\ n <= methods[m].index
    BY <1>3, <1>6, <2>1, MethodSpread
  <2>4. /\ u.method \in 1 .. Len(methods) + 1
        /\ \A m \in DOMAIN methods : m < u.method <=> methods[m].index < n
    BY <1>6, <2>2, <2>3
  <2>5. u.in_class <=> u.class <= Len(t.classes) /\ t.classes[u.class].start_index < n + 1
    BY <1>6
  <2> QED BY <1>6, <2>1, <2>4, <2>5 DEF Passed
<1> QED BY <1>5, <1>6

\* The name of a class is not the name of one before it.
LEMMA NewClass ==
    ASSUME NEW t, Writing(t), NEW c \in DOMAIN t.classes
    PROVE  ~Named(Prefix(KeptClasses(t), c - 1), t.classes[c].name)
<1>1. /\ Len(t.classes) \in Nat /\ DOMAIN t.classes = 1 .. Len(t.classes)
      /\ OnceNamed(t.classes)
  BY TypeFacts, LenProperties DEF Writing, Sound, NamedOnce
<1>2. PICK cs : cs = KeptClasses(t)
  OBVIOUS
<1>3. /\ cs \in Seq(ClassRefs) /\ Len(cs) = Len(t.classes)
      /\ \A d \in 1 .. Len(t.classes) : cs[d].name = t.classes[d].name
  BY <1>2, KeptFacts DEF Writing
<1>4. PICK k : k = c - 1
  OBVIOUS
<1>5. k \in 0 .. Len(cs) /\ \A d \in 1 .. k : d \in 1 .. Len(t.classes) /\ d # c
  BY <1>1, <1>3, <1>4
<1>6. PICK before : before = Prefix(cs, k)
  OBVIOUS
<1>7. DOMAIN before = 1 .. k /\ \A d \in 1 .. k : before[d] = cs[d]
  BY <1>3, <1>5, <1>6, PrefixFacts
<1>8. \A d \in 1 .. k : before[d].name = t.classes[d].name
  BY <1>3, <1>5, <1>7
<1>9. \A d \in 1 .. k : t.classes[d].name # t.classes[c].name
  BY <1>1, <1>5 DEF OnceNamed
<1>10. ~Named(before, t.classes[c].name)
  BY <1>7, <1>8, <1>9 DEF Named
<1> QED BY <1>2, <1>4, <1>6, <1>10


LEMMA ClassStep ==
    ASSUME NEW t, Writing(t), NEW v \in Writers, NEW n \in Nat, n <= tape_size(t),
           v.i = n, Passed(t, v, n + 1, n, n), NEW u, u = WriteClass(t, v)
    PROVE  u \in Writers /\ u.i = n /\ Passed(t, u, n + 1, n + 1, n) /\ Advance(t, v, u)
<1>1. Part(t, v).ok /\ v.in_class \in BOOLEAN
  BY PartOk DEF Writers
<1>2. CASE ~(v.class <= Len(t.classes) /\ v.in_class = FALSE
               /\ t.classes[v.class].start_index = n)
  <2>1. u = v
    BY <1>1, <1>2 DEF WriteClass
  <2> QED BY <1>1, <1>2, <2>1, PassedStarts, NoAdvance
<1>3. CASE v.class <= Len(t.classes) /\ v.in_class = FALSE
             /\ t.classes[v.class].start_index = n
  <2>1. PICK cref : cref = t.classes[v.class]
    OBVIOUS
  <2>2. v.class \in DOMAIN t.classes /\ v.class \in Nat
    BY <1>3, TypeFacts, LenProperties DEF Writing, Passed
  <2>3. cref \in ClassRefs /\ cref.name \in Identifiers /\ cref.start_index = n
    BY <1>3, <2>1, <2>2, ClassSpread DEF ClassRefs
  <2>4. "class" \in Kinds
    BY DEF Kinds
  <2>5. PICK word : word = Word("class", cref.name)
    OBVIOUS
  <2>6. PICK fields : fields = FieldLines(cref)
    OBVIOUS
  <2>7. PICK lines : lines = v.lines \o word \o fields
    OBVIOUS
  <2>8. /\ word \in Seq(BodyLines) /\ fields \in Seq(BodyLines) /\ v.lines \o word \in Seq(Lines)
    BY <2>3, <2>4, <2>5, <2>6, WriteWord, FieldLinesFacts
  <2>9. /\ word \in Seq(Lines) /\ fields \in Seq(Lines) /\ v.lines \in Seq(Lines)
    BY <2>8, BodyIsLines DEF Writers
  <2>10. lines = v.lines \o (word \o fields)
    <3>1. (v.lines \o word) \o fields = v.lines \o (word \o fields)
      BY <2>9, LinesAssociate, Zenon
    <3> QED BY <2>7, <3>1
  <2>11. lines \in Seq(Lines)
    BY <2>7, <2>8, <2>9, ConcatProperties
  <2>12. PICK one \in Nat : one = 1
    OBVIOUS
  <2>13. u = EnteredClass(v, one, lines)
    BY <1>3, <2>1, <2>5, <2>6, <2>7, <2>12 DEF WriteClass, EnteredClass, FieldLines
  <2>14. /\ u \in Writers /\ u.i = n /\ u.in_class = TRUE /\ u.class = v.class
         /\ u.method = 1 /\ u.func = v.func /\ u.lines = lines
    <3>1. u.in_class = TRUE
      BY <2>11, <2>13, EnteredClassInClass
    <3>2. u.func = v.func /\ u.lines = lines
      BY <2>11, <2>13, EnteredClassFacts
    <3>3. u.i = v.i /\ u.class = v.class /\ u.method = one
      BY <2>11, <2>13, EnteredClassFacts
    <3>4. EnteredClass(v, one, lines) \in Writers
      BY <2>11, EnteredClassFacts
    <3>5. u \in Writers
      BY <2>13, <3>4
    <3> QED BY <2>12, <3>1, <3>2, <3>3, <3>5
  <2>15. Passed(t, u, n + 1, n + 1, n)
    BY <1>3, <2>14, PassedStarts
  <2>16. PICK m : m = KeptModule(t)
    OBVIOUS
  <2>17. PICK ins : ins = Prefix(t.ins, n)
    OBVIOUS
  <2>18. PICK fs : fs = DoneFunctions(t, v)
    OBVIOUS
  <2>19. PICK done : done = Done(t, v)
    OBVIOUS
  <2>20. /\ m \in Modules /\ ins \in Seq(Instructions) /\ fs \in Seq(FunctionRefs)
         /\ done \in Seq(ClassRefs)
    BY <2>16, <2>17, <2>18, <2>19, PartPieces
  <2>21. PICK p : p = Part(t, v)
    OBVIOUS
  <2>22. p = Partial(m, ins, fs, done, 0) /\ tape_size(p) = n
    BY <1>3, <2>16, <2>17, <2>18, <2>19, <2>21, PartOutside
  <2>23. ~Named(done, cref.name)
    BY <2>1, <2>2, <2>19, NewClass DEF Done
  <2>24. PICK empty : empty = Inside(m, ins, fs, done, Open(cref, <<>>, <<>>))
    OBVIOUS
  <2>25. tape_start_class_at_index(p, cref.name, n) = empty
    BY <2>3, <2>20, <2>22, <2>23, <2>24, LineOpens DEF Inside
  <2>26. /\ word = <<Line("class", cref.name, <<>>)>>
         /\ Line("class", cref.name, <<>>).k = "class"
         /\ Line("class", cref.name, <<>>).name = cref.name
    BY <2>3, <2>4, <2>5, WordFacts
  <2>27. ReadLine(p, Line("class", cref.name, <<>>)) = empty
    BY <2>22, <2>25, <2>26, ReadLineCases
  <2>28. empty.ok
    <3>1. <<>> \in Seq(Identifiers) /\ <<>> \in Seq(FunctionRefs)
      BY EmptySeq
    <3>2. Open(cref, <<>>, <<>>) \in ClassRefs
      BY <2>3, <3>1, OpenFacts
    <3> QED BY <2>20, <2>24, <3>2, InsideFacts
  <2>29. Reads(word, p, empty)
    BY <1>1, <2>21, <2>26, <2>27, <2>28, ReadsOne
  <2>30. PICK full : full = Inside(m, ins, fs, done, Open(cref, cref.fields, <<>>))
    OBVIOUS
  <2>31. IsInjective(cref.fields)
    BY <2>1, <2>2 DEF Writing, Sound, NamedOnce
  <2>32. Reads(fields, empty, full)
    BY <2>3, <2>6, <2>20, <2>24, <2>30, <2>31, FieldsRead
  <2>33. Reads(word \o fields, p, full)
    BY <2>8, <2>29, <2>32, ReadsMore
  <2>34. OpenPart(t, u) = Open(cref, cref.fields, <<>>)
    <3>1. PICK kept : kept = NotAsync(cref.functions)
      OBVIOUS
    <3>2. kept \in Seq(FunctionRefs)
      BY <2>3, <3>1, NotAsyncFacts DEF ClassRefs
    <3>3. Prefix(kept, 0) = <<>> /\ u.method - 1 = 0
      BY <2>14, <3>2, PrefixEnds
    <3> QED BY <2>1, <2>14, <3>1, <3>3 DEF OpenPart
  <2>35. Done(t, u) = done /\ DoneFunctions(t, u) = fs
    BY <2>14, <2>18, <2>19 DEF Done, DoneFunctions
  <2>36. Part(t, u) = full
    BY <2>14, <2>15, <2>16, <2>17, <2>30, <2>34, <2>35, PartInside
  <2>37. word \o fields \in Seq(BodyLines)
    BY <2>8, ConcatProperties
  <2>38. Advance(t, v, u)
    BY <2>10, <2>14, <2>21, <2>33, <2>36, <2>37 DEF Advance
  <2> QED BY <2>14, <2>15, <2>38
<1> QED BY <1>2, <1>3

\* In a row of labels at different places those below n + 1 are those below n
\* and the one at n, if it is next.
LEMMA RowPassed ==
    ASSUME NEW refs \in Seq(FunctionRefs), NEW n \in Nat, NEW k \in 1 .. Len(refs) + 1,
           \A f, g \in DOMAIN refs : f < g => refs[f].index < refs[g].index,
           \A f \in DOMAIN refs : f < k <=> refs[f].index < n
    PROVE  /\ k <= Len(refs) /\ refs[k].index = n =>
                 /\ k + 1 \in 1 .. Len(refs) + 1
                 /\ \A f \in DOMAIN refs : f < k + 1 <=> refs[f].index < n + 1
           /\ ~(k <= Len(refs) /\ refs[k].index = n) =>
                 \A f \in DOMAIN refs : f < k <=> refs[f].index < n + 1
<1>1. /\ DOMAIN refs = 1 .. Len(refs) /\ Len(refs) \in Nat
      /\ \A f \in DOMAIN refs : refs[f] \in FunctionRefs
  BY LenProperties, ElementOfSeq
<1>2. \A f \in DOMAIN refs : refs[f].index \in Nat
  BY <1>1 DEF FunctionRefs
<1>3. k <= Len(refs) => k \in DOMAIN refs
  BY <1>1
<1>4. ASSUME k <= Len(refs), refs[k].index = n, NEW f \in DOMAIN refs
      PROVE  f < k + 1 <=> refs[f].index < n + 1
  <2>1. CASE f < k
    BY <1>1, <1>2, <2>1
  <2>2. CASE f = k
    BY <1>1, <1>4, <2>2
  <2>3. CASE f > k
    BY <1>1, <1>2, <1>3, <1>4, <2>3
  <2> QED BY <1>1, <2>1, <2>2, <2>3
<1>5. ASSUME ~(k <= Len(refs) /\ refs[k].index = n), NEW f \in DOMAIN refs
      PROVE  f < k <=> refs[f].index < n + 1
  <2>1. CASE f < k
    BY <1>1, <1>2, <2>1
  <2>2. CASE f = k
    BY <1>1, <1>2, <1>5, <2>2
  <2>3. CASE f > k
    <3>1. k \in DOMAIN refs
      BY <1>1, <2>3
    <3>2. /\ refs[k].index \in Nat /\ refs[f].index \in Nat /\ refs[k].index < refs[f].index
          /\ ~(refs[k].index < n) /\ refs[k].index # n
      BY <1>1, <1>2, <1>5, <2>3, <3>1
    <3> QED BY <1>1, <2>3, <3>2
  <2> QED BY <1>1, <2>1, <2>2, <2>3
<1> QED BY <1>1, <1>4, <1>5

\* In a class the module has no function.
LEMMA NoFunctionInside ==
    ASSUME NEW t, Writing(t), NEW v, NEW n \in Nat, NEW f, Passed(t, v, n + 1, n + 1, f),
           v.in_class = TRUE
    PROVE  /\ v.class \in DOMAIN t.classes
           /\ \A g \in DOMAIN t.functions : t.functions[g].index # n
<1>1. /\ v.class \in DOMAIN t.classes /\ v.class \in Nat
      /\ t.classes[v.class].start_index < n + 1 /\ ~(t.classes[v.class].end_index < n + 1)
  BY TypeFacts, LenProperties, SMTT(30) DEF Writing, Passed
<1>2. t.classes[v.class].start_index \in Nat /\ t.classes[v.class].end_index \in Nat
  BY <1>1, ClassSpread
<1>3. ASSUME NEW g \in DOMAIN t.functions PROVE t.functions[g].index # n
  BY <1>1, <1>2, FunctionSpread
<1> QED BY <1>1, <1>3

LEMMA FunctionRow ==
    ASSUME NEW t, Writing(t), NEW v, NEW e, NEW s, NEW n \in Nat, Passed(t, v, e, s, n)
    PROVE  /\ v.func \in 1 .. Len(t.functions) + 1
           /\ v.func <= Len(t.functions) /\ t.functions[v.func].index = n =>
                 /\ v.func + 1 \in 1 .. Len(t.functions) + 1
                 /\ \A f \in DOMAIN t.functions : f < v.func + 1 <=> t.functions[f].index < n + 1
           /\ ~(v.func <= Len(t.functions) /\ t.functions[v.func].index = n) =>
                 \A f \in DOMAIN t.functions : f < v.func <=> t.functions[f].index < n + 1
<1>1. PICK refs : refs = t.functions
  OBVIOUS
<1>2. PICK k : k = v.func
  OBVIOUS
<1>3. /\ refs \in Seq(FunctionRefs) /\ k \in 1 .. Len(refs) + 1
      /\ \A f \in DOMAIN refs : f < k <=> refs[f].index < n
  BY <1>1, <1>2, TypeFacts DEF Writing, Passed
<1>4. \A f, g \in DOMAIN refs : f < g => refs[f].index < refs[g].index
  BY <1>1, FunctionSpread
<1> QED BY <1>1, <1>2, <1>3, <1>4, RowPassed

LEMMA MethodRow ==
    ASSUME NEW t, Writing(t), NEW v, NEW e, NEW s, NEW n \in Nat, Passed(t, v, e, s, n),
           v.in_class = TRUE, v.class \in DOMAIN t.classes
    PROVE  LET methods == t.classes[v.class].functions
           IN  /\ v.method \in 1 .. Len(methods) + 1 /\ methods \in Seq(FunctionRefs)
               /\ v.method <= Len(methods) /\ methods[v.method].index = n =>
                     /\ v.method + 1 \in 1 .. Len(methods) + 1
                     /\ \A f \in DOMAIN methods : f < v.method + 1 <=> methods[f].index < n + 1
               /\ ~(v.method <= Len(methods) /\ methods[v.method].index = n) =>
                     \A f \in DOMAIN methods : f < v.method <=> methods[f].index < n + 1
<1> PICK methods : methods = t.classes[v.class].functions
  OBVIOUS
<1>1. PICK k : k = v.method
  OBVIOUS
<1>2. /\ methods \in Seq(FunctionRefs) /\ k \in 1 .. Len(methods) + 1
      /\ \A f \in DOMAIN methods : f < k <=> methods[f].index < n
  BY <1>1, TypeFacts DEF Writing, Passed
<1>3. \A f, g \in DOMAIN methods : f < g => methods[f].index < methods[g].index
  BY MethodSpread
<1>4. PICK refs : refs = methods
  OBVIOUS
<1>5. /\ refs \in Seq(FunctionRefs) /\ k \in 1 .. Len(refs) + 1
      /\ \A f \in DOMAIN refs : f < k <=> refs[f].index < n
      /\ \A f, g \in DOMAIN refs : f < g => refs[f].index < refs[g].index
  BY <1>2, <1>3, <1>4
<1>6. /\ k <= Len(refs) /\ refs[k].index = n =>
            /\ k + 1 \in 1 .. Len(refs) + 1
            /\ \A f \in DOMAIN refs : f < k + 1 <=> refs[f].index < n + 1
      /\ ~(k <= Len(refs) /\ refs[k].index = n) =>
            \A f \in DOMAIN refs : f < k <=> refs[f].index < n + 1
  BY <1>5, RowPassed
<1> QED BY <1>1, <1>2, <1>4, <1>6

\* A label is passed where it is: in the class, if there is one, or outside.
LEMMA PassedLabels ==
    ASSUME NEW t, Writing(t), NEW v \in Writers, NEW n \in Nat,
           Passed(t, v, n + 1, n + 1, n),
           NEW methods, methods = t.classes[v.class].functions
    PROVE  /\ v.in_class = TRUE /\ ~(v.method <= Len(methods) /\ methods[v.method].index = n)
                => Passed(t, v, n + 1, n + 1, n + 1)
           /\ v.in_class = FALSE
                /\ ~(v.func <= Len(t.functions) /\ t.functions[v.func].index = n)
                => Passed(t, v, n + 1, n + 1, n + 1)
           /\ \A u \in Writers :
                 /\ v.in_class = TRUE /\ v.method <= Len(methods)
                 /\ methods[v.method].index = n
                 /\ u.in_class = TRUE /\ u.class = v.class /\ u.func = v.func
                 /\ u.method = v.method + 1
                 => Passed(t, u, n + 1, n + 1, n + 1)
           /\ \A u \in Writers :
                 /\ v.in_class = FALSE /\ v.func <= Len(t.functions)
                 /\ t.functions[v.func].index = n
                 /\ u.in_class = FALSE /\ u.class = v.class /\ u.func = v.func + 1
                 => Passed(t, u, n + 1, n + 1, n + 1)
<1>1. ASSUME v.in_class = TRUE
      PROVE  \A f \in DOMAIN t.functions : f < v.func <=> t.functions[f].index < n + 1
  <2>1. \A g \in DOMAIN t.functions : t.functions[g].index # n
    BY <1>1, NoFunctionInside
  <2>2. DOMAIN t.functions = 1 .. Len(t.functions)
    BY TypeFacts, LenProperties DEF Writing
  <2>3. ~(v.func <= Len(t.functions) /\ t.functions[v.func].index = n)
    BY <2>1, <2>2 DEF Passed
  <2> QED BY <2>3, FunctionRow
<1>2. ASSUME v.in_class = TRUE, ~(v.method <= Len(methods) /\ methods[v.method].index = n)
      PROVE  Passed(t, v, n + 1, n + 1, n + 1)
  <2>1. v.class \in DOMAIN t.classes
    BY <1>2, NoFunctionInside
  <2>2. \A f \in DOMAIN methods : f < v.method <=> methods[f].index < n + 1
    BY <1>2, <2>1, MethodRow
  <2> QED BY <1>1, <1>2, <2>2 DEF Passed
<1>3. ASSUME v.in_class = FALSE,
             ~(v.func <= Len(t.functions) /\ t.functions[v.func].index = n)
      PROVE  Passed(t, v, n + 1, n + 1, n + 1)
  <2>1. \A f \in DOMAIN t.functions : f < v.func <=> t.functions[f].index < n + 1
    BY <1>3, FunctionRow
  <2> QED BY <1>3, <2>1 DEF Passed
<1>4. ASSUME NEW u \in Writers, v.in_class = TRUE, v.method <= Len(methods),
             methods[v.method].index = n,
             u.in_class = TRUE, u.class = v.class, u.func = v.func, u.method = v.method + 1
      PROVE  Passed(t, u, n + 1, n + 1, n + 1)
  <2>1. v.class \in DOMAIN t.classes
    BY <1>4, NoFunctionInside
  <2>2. /\ u.method \in 1 .. Len(methods) + 1
        /\ \A f \in DOMAIN methods : f < u.method <=> methods[f].index < n + 1
    <3>1. /\ v.method + 1 \in 1 .. Len(methods) + 1
          /\ \A f \in DOMAIN methods : f < v.method + 1 <=> methods[f].index < n + 1
      <4>1. v.in_class = TRUE /\ v.method <= Len(methods) /\ methods[v.method].index = n
        BY <1>4
      <4>2. t.classes[v.class].functions = methods
        OBVIOUS
      <4>3. LET row == t.classes[v.class].functions
            IN  v.method <= Len(row) /\ row[v.method].index = n
                  => /\ v.method + 1 \in 1 .. Len(row) + 1
                     /\ \A f \in DOMAIN row : f < v.method + 1 <=> row[f].index < n + 1
        BY <2>1, <4>1, MethodRow, ZenonT(40)
      <4> QED BY <4>1, <4>2, <4>3
    <3>2. u.method = v.method + 1
      BY <1>4
    <3> QED BY <3>1, <3>2
  <2> QED BY <1>1, <1>4, <2>2 DEF Passed
<1>5. ASSUME NEW u \in Writers, v.in_class = FALSE, v.func <= Len(t.functions),
             t.functions[v.func].index = n,
             u.in_class = FALSE, u.class = v.class, u.func = v.func + 1
      PROVE  Passed(t, u, n + 1, n + 1, n + 1)
  <2>1. /\ u.func \in 1 .. Len(t.functions) + 1
        /\ \A f \in DOMAIN t.functions : f < u.func <=> t.functions[f].index < n + 1
    BY <1>5, FunctionRow
  <2> QED BY <1>5, <2>1 DEF Passed
<1> QED BY <1>2, <1>3, <1>4, <1>5

LEMMA RowNext ==
    ASSUME NEW refs \in Seq(FunctionRefs), OnceNamed(refs), NEW k \in 1 .. Len(refs)
    PROVE  LET before == Prefix(NotAsync(refs), k - 1)
               ref == refs[k]
           IN  /\ before \in Seq(FunctionRefs) /\ ~Named(before, ref.name)
               /\ ref.name \in Identifiers /\ ref.index \in Nat
               /\ Append(before, FunctionRef(ref.name, ref.index, FALSE))
                    = Prefix(NotAsync(refs), k)
<1>1. Len(refs) \in Nat /\ refs[k] \in FunctionRefs
  BY LenProperties, ElementOfSeq
<1>2. refs[k].name \in Identifiers /\ refs[k].index \in Nat
  BY <1>1 DEF FunctionRefs
<1>3. PICK kept : kept = NotAsync(refs)
  OBVIOUS
<1>4. /\ kept \in Seq(FunctionRefs) /\ Len(kept) = Len(refs)
      /\ kept[k] = FunctionRef(refs[k].name, refs[k].index, FALSE)
  BY <1>3, NotAsyncFacts
<1>5. PICK n : n = k - 1
  OBVIOUS
<1>6. n \in Nat /\ n < Len(kept) /\ n + 1 = k /\ n \in 0 .. Len(kept)
  BY <1>1, <1>4, <1>5
<1>7. PICK before : before = Prefix(kept, n)
  OBVIOUS
<1>8. before \in Seq(FunctionRefs)
  BY <1>4, <1>6, <1>7, PrefixFacts
<1>9. Prefix(kept, k) = Append(before, kept[k])
  BY <1>4, <1>6, <1>7, PrefixStep
<1>10. ~Named(before, refs[k].name)
  BY <1>3, <1>5, <1>7, NotNamedBefore
<1> QED BY <1>2, <1>3, <1>4, <1>5, <1>7, <1>8, <1>9, <1>10

LEMMA ReadsMethod ==
    ASSUME NEW m \in Modules, NEW ins \in Seq(Instructions), NEW functions \in Seq(FunctionRefs),
           NEW done \in Seq(ClassRefs), NEW cref \in ClassRefs,
           NEW refs \in Seq(FunctionRefs), OnceNamed(refs), NEW k \in 1 .. Len(refs)
    PROVE  tape_start_func_at_index(
               Inside(m, ins, functions, done,
                      Open(cref, cref.fields, Prefix(NotAsync(refs), k - 1))),
               refs[k].name, refs[k].index, FALSE)
             = Inside(m, ins, functions, done,
                      Open(cref, cref.fields, Prefix(NotAsync(refs), k)))
<1>1. PICK methods : methods = Prefix(NotAsync(refs), k - 1)
  OBVIOUS
<1>2. PICK name : name = refs[k].name
  OBVIOUS
<1>3. PICK index : index = refs[k].index
  OBVIOUS
<1>4. /\ methods \in Seq(FunctionRefs) /\ ~Named(methods, name)
      /\ name \in Identifiers /\ index \in Nat
  BY <1>1, <1>2, <1>3, RowNext
<1>5. Append(methods, FunctionRef(name, index, FALSE)) = Prefix(NotAsync(refs), k)
  BY <1>1, <1>2, <1>3, RowNext
<1> PICK fields \in Seq(Identifiers) : fields = cref.fields
  BY DEF ClassRefs
<1>6. PICK x : x = Open(cref, fields, methods)
  OBVIOUS
<1>7. PICK ref : ref = FunctionRef(name, index, FALSE)
  OBVIOUS
<1>8. PICK t : t = Inside(m, ins, functions, done, x)
  OBVIOUS
<1>9. PICK u : u = tape_start_func_at_index(t, name, index, FALSE)
  OBVIOUS
<1>10. PICK c : c = t.current_class
  OBVIOUS
<1>11. /\ x \in ClassRefs /\ x.name = cref.name /\ x.start_index = cref.start_index
      /\ x.end_index = 0 /\ x.fields = fields /\ x.functions = methods
  BY <1>6, <1>4, OpenFacts
<1>12. /\ t \in Tapes /\ t.ok /\ c \in DOMAIN t.classes /\ c = Len(done) + 1
      /\ x = t.classes[c]
  BY <1>8, <1>10, <1>11, InsideFacts
<1>13. PICK y : y = SetFunctions(x, Append(methods, ref))
  OBVIOUS
<1>14. /\ Keeps(u, t) /\ Replaced(u, t, c, y) /\ u.current_class = c /\ u.ok
  <2>1. PICK none \in BOOLEAN : none = FALSE
    OBVIOUS
  <2>2. t.current_class \in DOMAIN t.classes
    BY <1>10, <1>12
  <2>3. /\ Keeps(u, t) /\ u.current_class = c
        /\ Replaced(u, t, c, SetFunctions(t.classes[c], Append(t.classes[c].functions, ref)))
        /\ (u.ok <=> t.ok /\ ~Named(t.classes[c].functions, name))
    BY <1>7, <1>9, <1>10, <1>12, <1>4, <2>1, <2>2, StartMethod
  <2> QED BY <1>11, <1>12, <1>13, <1>4, <2>3
<1>15. Append(methods, ref) \in Seq(FunctionRefs)
  BY <1>7, <1>4, FunctionRefFacts, AppendProperties
<1>16. /\ y \in ClassRefs /\ y.name = cref.name /\ y.start_index = cref.start_index
       /\ y.end_index = 0 /\ y.fields = fields /\ y.functions = Append(methods, ref)
  BY <1>11, <1>13, <1>15, WithFunctions
<1>17. y = Open(cref, y.fields, y.functions)
  BY <1>16, IsOpen
<1>18. u = Inside(m, ins, functions, done, y)
  BY <1>8, <1>10, <1>11, <1>12, <1>14, <1>16, InsideStep DEF Inside
<1> QED BY <1>6, <1>7, <1>8, <1>9, <1>16, <1>17, <1>18, <1>1, <1>2, <1>3, <1>5

\* A label in a class is read as a method of it.
LEMMA MethodStep ==
    ASSUME NEW t, Writing(t), NEW v \in Writers, NEW n \in Nat, n <= tape_size(t),
           v.i = n, Passed(t, v, n + 1, n + 1, n), v.in_class = TRUE,
           v.method <= Len(t.classes[v.class].functions),
           t.classes[v.class].functions[v.method].index = n,
           NEW u, u = WriteLabel(t, v)
    PROVE  u \in Writers /\ u.i = n /\ Passed(t, u, n + 1, n + 1, n + 1) /\ Advance(t, v, u)
<1>1. PICK cref : cref = t.classes[v.class]
  OBVIOUS
<1>2. PICK methods : methods = cref.functions
  OBVIOUS
<1>3. PICK k : k = v.method
  OBVIOUS
<1>4. PICK ref : ref = methods[k]
  OBVIOUS
<1>5. v.class \in DOMAIN t.classes /\ cref \in ClassRefs /\ cref.fields \in Seq(Identifiers)
  BY <1>1, OpenPieces
<1>6. methods \in Seq(FunctionRefs) /\ k \in 1 .. Len(methods) /\ OnceNamed(methods)
  <2>1. methods \in Seq(FunctionRefs) /\ k \in Nat
    BY <1>2, <1>3, <1>5 DEF ClassRefs, Writers
  <2>2. k \in 1 .. Len(methods) + 1
    BY <1>1, <1>2, <1>3 DEF Passed
  <2>3. k \in 1 .. Len(methods)
    BY <1>1, <1>2, <1>3, <2>1, <2>2, LenProperties
  <2>4. OnceNamed(methods)
    BY <1>1, <1>2, <1>5 DEF Writing, Sound, NamedOnce
  <2> QED BY <2>1, <2>3, <2>4
<1>7. ref.index = n
  BY <1>1, <1>2, <1>3, <1>4
<1>8. PICK before : before = Prefix(NotAsync(methods), k - 1)
  OBVIOUS
<1>9. /\ before \in Seq(FunctionRefs) /\ ~Named(before, ref.name)
      /\ ref.name \in Identifiers
      /\ Append(before, FunctionRef(ref.name, n, FALSE)) = Prefix(NotAsync(methods), k)
  BY <1>4, <1>6, <1>7, <1>8, RowNext
<1>10. "@" \in Kinds
  BY DEF Kinds
<1>11. PICK next : next = k + 1
  OBVIOUS
<1>12. PICK lines : lines = v.lines \o Word("@", ref.name)
  OBVIOUS
<1>13. lines \in Seq(Lines)
  BY <1>9, <1>10, <1>12, WriteWord
<1>14. next \in Nat /\ k \in Nat
  BY <1>6, <1>11
<1>15. u = PassedMethod(v, next, lines)
  BY <1>1, <1>2, <1>3, <1>4, <1>11, <1>12 DEF WriteLabel, PassedMethod
<1>16. /\ u \in Writers /\ u.i = n /\ u.in_class = TRUE /\ u.class = v.class
       /\ u.method = next /\ u.func = v.func /\ u.lines = lines
  <2>1. u.in_class = v.in_class
    BY <1>13, <1>14, <1>15, PassedMethodInClass
  <2>2. LET y == PassedMethod(v, next, lines)
        IN  /\ y \in Writers /\ y.i = v.i /\ y.class = v.class /\ y.method = next
            /\ y.func = v.func /\ y.lines = lines
    BY <1>13, <1>14, PassedMethodFacts
  <2> QED BY <1>15, <2>1, <2>2
<1>17. Passed(t, u, n + 1, n + 1, n + 1)
  <2>1. u.method = v.method + 1
    BY <1>3, <1>11, <1>16
  <2> QED BY <1>16, <2>1, PassedLabels
<1>18. PICK m : m = KeptModule(t)
  OBVIOUS
<1>19. PICK ins : ins = Prefix(t.ins, n)
  OBVIOUS
<1>20. PICK fs : fs = DoneFunctions(t, v)
  OBVIOUS
<1>21. PICK done : done = Done(t, v)
  OBVIOUS
<1>22. /\ m \in Modules /\ ins \in Seq(Instructions) /\ fs \in Seq(FunctionRefs)
       /\ done \in Seq(ClassRefs)
  BY <1>18, <1>19, <1>20, <1>21, PartPieces
<1>23. PICK p : p = Part(t, v)
  OBVIOUS
<1>24. OpenPart(t, v) = Open(cref, cref.fields, before)
  BY <1>1, <1>2, <1>3, <1>8 DEF OpenPart
<1>25. p = Inside(m, ins, fs, done, Open(cref, cref.fields, before))
       /\ tape_size(p) = n /\ p.ok
  BY <1>18, <1>19, <1>20, <1>21, <1>23, <1>24, PartInside
<1>26. tape_start_func_at_index(p, ref.name, n, FALSE)
         = Inside(m, ins, fs, done, Open(cref, cref.fields, Prefix(NotAsync(methods), k)))
  <2>1. tape_start_func_at_index(
            Inside(m, ins, fs, done,
                   Open(cref, cref.fields, Prefix(NotAsync(methods), k - 1))),
            methods[k].name, methods[k].index, FALSE)
          = Inside(m, ins, fs, done, Open(cref, cref.fields, Prefix(NotAsync(methods), k)))
    BY <1>5, <1>6, <1>22, ReadsMethod, ZenonT(40)
  <2> QED BY <1>4, <1>7, <1>8, <1>25, <2>1
<1>27. OpenPart(t, u) = Open(cref, cref.fields, Prefix(NotAsync(methods), k))
  <2>1. u.method - 1 = k
    BY <1>11, <1>14, <1>16
  <2> QED BY <1>1, <1>2, <1>16, <2>1 DEF OpenPart
<1>28. Done(t, u) = done /\ DoneFunctions(t, u) = fs
  BY <1>16, <1>20, <1>21 DEF Done, DoneFunctions
<1>29. Part(t, u) = tape_start_func_at_index(p, ref.name, n, FALSE) /\ Part(t, u).ok
  BY <1>16, <1>17, <1>18, <1>19, <1>26, <1>27, <1>28, PartInside
<1>30. Line("@", ref.name, <<>>).k = "@" /\ Line("@", ref.name, <<>>).name = ref.name
  BY <1>9, <1>10, WordFacts
<1>31. ReadLine(p, Line("@", ref.name, <<>>)) = Part(t, u)
  BY <1>25, <1>29, <1>30, ReadLineCases
<1>32. Advance(t, v, u)
  BY <1>9, <1>10, <1>12, <1>16, <1>23, <1>25, <1>29, <1>31, AdvanceWord
<1> QED BY <1>16, <1>17, <1>32

\* A label outside of the classes is read as a function of the module.
LEMMA FunctionStep ==
    ASSUME NEW t, Writing(t), NEW v \in Writers, NEW n \in Nat, n <= tape_size(t),
           v.i = n, Passed(t, v, n + 1, n + 1, n), v.in_class = FALSE,
           v.func <= Len(t.functions), t.functions[v.func].index = n,
           NEW u, u = WriteLabel(t, v)
    PROVE  u \in Writers /\ u.i = n /\ Passed(t, u, n + 1, n + 1, n + 1) /\ Advance(t, v, u)
<1>1. PICK refs : refs = t.functions
  OBVIOUS
<1>2. PICK k : k = v.func
  OBVIOUS
<1>3. PICK ref : ref = refs[k]
  OBVIOUS
<1>4. refs \in Seq(FunctionRefs) /\ k \in 1 .. Len(refs) /\ OnceNamed(refs)
  <2>1. refs \in Seq(FunctionRefs) /\ k \in Nat /\ OnceNamed(refs)
    BY <1>1, <1>2, TypeFacts DEF Writing, Sound, NamedOnce, Writers
  <2>2. k \in 1 .. Len(refs) + 1
    BY <1>1, <1>2 DEF Passed
  <2> QED BY <1>1, <1>2, <2>1, <2>2, LenProperties
<1>5. ref.index = n
  BY <1>1, <1>2, <1>3
<1>6. PICK before : before = Prefix(NotAsync(refs), k - 1)
  OBVIOUS
<1>7. /\ before \in Seq(FunctionRefs) /\ ~Named(before, ref.name)
      /\ ref.name \in Identifiers
      /\ Append(before, FunctionRef(ref.name, n, FALSE)) = Prefix(NotAsync(refs), k)
  BY <1>3, <1>4, <1>5, <1>6, RowNext
<1>8. "@" \in Kinds
  BY DEF Kinds
<1>9. PICK next : next = k + 1
  OBVIOUS
<1>10. PICK lines : lines = v.lines \o Word("@", ref.name)
  OBVIOUS
<1>11. lines \in Seq(Lines)
  BY <1>7, <1>8, <1>10, WriteWord
<1>12. next \in Nat /\ k \in Nat
  BY <1>4, <1>9
<1>13. u = PassedFunction(v, next, lines)
  BY <1>1, <1>2, <1>3, <1>9, <1>10 DEF WriteLabel, PassedFunction
<1>14. /\ u \in Writers /\ u.i = n /\ u.in_class = FALSE /\ u.class = v.class
       /\ u.func = next /\ u.lines = lines
  <2>1. u.in_class = v.in_class
    BY <1>11, <1>12, <1>13, PassedFunctionInClass
  <2>3. LET y == PassedFunction(v, next, lines)
        IN  /\ y \in Writers /\ y.i = v.i /\ y.class = v.class /\ y.method = v.method
            /\ y.func = next /\ y.lines = lines
    BY <1>11, <1>12, PassedFunctionFacts
  <2> QED BY <1>13, <2>1, <2>3
<1>15. Passed(t, u, n + 1, n + 1, n + 1)
  <2>1. u.func = v.func + 1
    BY <1>2, <1>9, <1>14
  <2> QED BY <1>14, <2>1, PassedLabels
<1>16. PICK m : m = KeptModule(t)
  OBVIOUS
<1>17. PICK ins : ins = Prefix(t.ins, n)
  OBVIOUS
<1>18. PICK done : done = Done(t, v)
  OBVIOUS
<1>19. m \in Modules /\ ins \in Seq(Instructions) /\ done \in Seq(ClassRefs)
  BY <1>16, <1>17, <1>18, PartPieces
<1>20. PICK p : p = Part(t, v)
  OBVIOUS
<1>21. DoneFunctions(t, v) = before
  BY <1>1, <1>2, <1>6 DEF DoneFunctions
<1>22. p = Partial(m, ins, before, done, 0) /\ tape_size(p) = n /\ p.ok
  BY <1>16, <1>17, <1>18, <1>20, <1>21, PartOutside
<1>23. tape_start_func_at_index(p, ref.name, n, FALSE)
         = Partial(m, ins, Prefix(NotAsync(refs), k), done, 0)
  <2>1. PICK name : name = ref.name
    OBVIOUS
  <2>2. name \in Identifiers /\ ~Named(before, name) /\ before \in Seq(FunctionRefs)
    BY <1>7, <2>1
  <2>3. tape_start_func_at_index(Partial(m, ins, before, done, 0), name, n, FALSE)
          = Partial(m, ins, Append(before, FunctionRef(name, n, FALSE)), done, 0)
    BY <1>19, <2>2, LineLabels
  <2> QED BY <1>7, <1>22, <2>1, <2>3
<1>24. DoneFunctions(t, u) = Prefix(NotAsync(refs), k)
  <2>1. u.func - 1 = k
    BY <1>9, <1>12, <1>14
  <2> QED BY <1>1, <2>1 DEF DoneFunctions
<1>25. Done(t, u) = done
  BY <1>14, <1>18 DEF Done
<1>26. Part(t, u) = tape_start_func_at_index(p, ref.name, n, FALSE) /\ Part(t, u).ok
  BY <1>14, <1>15, <1>16, <1>17, <1>23, <1>24, <1>25, PartOutside
<1>27. Line("@", ref.name, <<>>).k = "@" /\ Line("@", ref.name, <<>>).name = ref.name
  BY <1>7, <1>8, WordFacts
<1>28. ReadLine(p, Line("@", ref.name, <<>>)) = Part(t, u)
  BY <1>22, <1>26, <1>27, ReadLineCases
<1>29. Advance(t, v, u)
  BY <1>7, <1>8, <1>10, <1>14, <1>20, <1>22, <1>26, <1>28, AdvanceWord
<1> QED BY <1>14, <1>15, <1>29

LEMMA LabelStep ==
    ASSUME NEW t, Writing(t), NEW v \in Writers, NEW n \in Nat, n <= tape_size(t),
           v.i = n, Passed(t, v, n + 1, n + 1, n), NEW u, u = WriteLabel(t, v)
    PROVE  u \in Writers /\ u.i = n /\ Passed(t, u, n + 1, n + 1, n + 1) /\ Advance(t, v, u)
<1>1. Part(t, v).ok /\ v.in_class \in BOOLEAN
  BY PartOk DEF Writers
<1>2. PICK methods : methods = t.classes[v.class].functions
  OBVIOUS
<1>3. CASE v.in_class = TRUE /\ v.method <= Len(methods) /\ methods[v.method].index = n
  BY <1>2, <1>3, MethodStep
<1>4. CASE v.in_class = TRUE /\ ~(v.method <= Len(methods) /\ methods[v.method].index = n)
  <2>1. \A g \in DOMAIN t.functions : t.functions[g].index # n
    BY <1>4, NoFunctionInside
  <2>2. ~(v.func <= Len(t.functions) /\ t.functions[v.func].index = n)
    <3>1. DOMAIN t.functions = 1 .. Len(t.functions)
      BY TypeFacts, LenProperties DEF Writing
    <3> QED BY <2>1, <3>1 DEF Passed
  <2>3. u = v
    BY <1>2, <1>4, <2>2 DEF WriteLabel
  <2>4. Passed(t, v, n + 1, n + 1, n + 1)
    BY <1>2, <1>4, PassedLabels
  <2> QED BY <1>1, <2>3, <2>4, NoAdvance
<1>5. CASE v.in_class = FALSE /\ v.func <= Len(t.functions) /\ t.functions[v.func].index = n
  BY <1>5, FunctionStep, ZenonT(40)
<1>6. CASE v.in_class = FALSE
             /\ ~(v.func <= Len(t.functions) /\ t.functions[v.func].index = n)
  <2>1. u = v
    BY <1>6 DEF WriteLabel
  <2>2. Passed(t, v, n + 1, n + 1, n + 1)
    BY <1>6, PassedLabels
  <2> QED BY <1>1, <2>1, <2>2, NoAdvance
<1> QED BY <1>1, <1>3, <1>4, <1>5, <1>6

\* The instructions that the writer comes by on its way to the index n.
InsLines(t, v, n) == [k \in 1 .. n - v.i |-> Line("ins", "", <<t.ins[v.i + k]>>)]

LEMMA InsLinesFacts ==
    ASSUME NEW t \in Tapes, NEW v \in Writers, NEW n \in Nat, n <= tape_size(t)
    PROVE  /\ v.i = n => InsLines(t, v, n) = <<>>
           /\ v.i + 1 = n =>
                 /\ InsLines(t, v, n) = <<Line("ins", "", <<t.ins[n]>>)>>
                 /\ t.ins[n] \in Instructions
                 /\ Line("ins", "", <<t.ins[n]>>) \in BodyLines
                 /\ Line("ins", "", <<t.ins[n]>>).k = "ins"
                 /\ Line("ins", "", <<t.ins[n]>>).ins[1] = t.ins[n]
<1>1. PICK a : a = v.i
  OBVIOUS
<1>2. a \in Nat /\ t.ins \in Seq(Instructions) /\ Len(t.ins) \in Nat /\ n <= Len(t.ins)
  BY <1>1, TypeFacts, LenProperties DEF Writers, tape_size
<1>3. PICK row : row = InsLines(t, v, n)
  OBVIOUS
<1>4. row = [k \in 1 .. n - a |-> Line("ins", "", <<t.ins[a + k]>>)]
  BY <1>1, <1>3 DEF InsLines
<1>5. ASSUME NEW m \in Nat, NEW S, NEW s \in [1 .. m -> S]
      PROVE  s \in Seq(S) /\ Len(s) = m
  OBVIOUS
<1>6. ASSUME a = n PROVE row = <<>>
  <2>1. n - a = 0 /\ 1 .. 0 = {}
    BY <1>2, <1>6
  <2>2. row \in [1 .. 0 -> Lines]
    BY <1>4, <2>1
  <2>3. row \in Seq(Lines) /\ Len(row) = 0
    BY <1>5, <2>2
  <2> QED BY <2>3, EmptySeq
<1>7. ASSUME a + 1 = n
      PROVE  /\ row = <<Line("ins", "", <<t.ins[n]>>)>> /\ t.ins[n] \in Instructions
             /\ Line("ins", "", <<t.ins[n]>>) \in BodyLines
             /\ Line("ins", "", <<t.ins[n]>>).k = "ins"
             /\ Line("ins", "", <<t.ins[n]>>).ins[1] = t.ins[n]
  <2>1. n \in 1 .. Len(t.ins) /\ n - a = 1 /\ 1 .. 1 = {1}
    BY <1>2, <1>7
  <2>2. PICK x : x = t.ins[n]
    OBVIOUS
  <2>3. x \in Instructions
    BY <1>2, <2>1, <2>2, ElementOfSeq
  <2>4. PICK line : line = Line("ins", "", <<x>>)
    OBVIOUS
  <2>5. /\ <<x>> \in Seq(Instructions) /\ <<x>>[1] = x
    BY <2>3
  <2>6. /\ line \in BodyLines /\ line.k = "ins" /\ line.ins = <<x>>
    BY <2>4, <2>5 DEF Line, Lines, BodyLines
  <2>7. line.ins[1] = x
    BY <2>5, <2>6
  <2>8. \A k \in 1 .. 1 : a + k = n
    BY <1>2, <1>7
  <2>9. DOMAIN row = 1 .. 1 /\ row[1] = line
    BY <1>4, <2>1, <2>2, <2>4, <2>8
  <2>10. row \in [1 .. 1 -> BodyLines]
    BY <1>4, <2>1, <2>6, <2>9
  <2>11. row \in Seq(BodyLines) /\ Len(row) = 1
    BY <1>5, <2>10
  <2>12. <<line>> \in Seq(BodyLines) /\ Len(<<line>>) = 1 /\ <<line>>[1] = line
    BY <2>6
  <2>13. row = <<line>>
    BY <2>9, <2>11, <2>12, SeqEqual
  <2> QED BY <2>2, <2>3, <2>4, <2>6, <2>7, <2>13
<1> QED BY <1>1, <1>3, <1>6, <1>7

\* What is passed does not depend on the instructions.
LEMMA PassedKept ==
    ASSUME NEW t, NEW v \in Writers, NEW u \in Writers, NEW n, Passed(t, v, n, n, n),
           u.class = v.class, u.in_class = v.in_class, u.method = v.method, u.func = v.func
    PROVE  Passed(t, u, n, n, n)
  BY DEF Passed

\* The instructions before the index come first.
LEMMA InsStep ==
    ASSUME NEW t, Writing(t), NEW v \in Writers, NEW n \in Nat, n <= tape_size(t),
           v.i = (IF n = 0 THEN 0 ELSE n - 1), Passed(t, v, n, n, n),
           NEW u, u = instruction_write(t, v, n)
    PROVE  u \in Writers /\ u.i = n /\ Passed(t, u, n, n, n) /\ Advance(t, v, u)
<1>1. PICK row : row = InsLines(t, v, n)
  OBVIOUS
<1>2. PICK lines : lines = v.lines \o row
  OBVIOUS
<1>3. /\ t \in Tapes /\ v.i \in Nat /\ v.lines \in Seq(Lines) /\ v.i <= n
      /\ (v.i = n \/ v.i + 1 = n) /\ tape_size(t) \in Nat
  BY TypeFacts, LenProperties DEF Writing, Writers, tape_size
<1>4. Part(t, v).ok
  BY <1>3, PartOk
<1>5. row \in Seq(BodyLines)
  <2>1. CASE v.i = n
    BY <1>1, <1>3, <2>1, InsLinesFacts, EmptySeq, ZenonT(40)
  <2>2. CASE v.i + 1 = n
    <3>1. PICK line : line = Line("ins", "", <<t.ins[n]>>)
      OBVIOUS
    <3>2. line \in BodyLines /\ row = <<line>>
      BY <1>1, <1>3, <2>2, <3>1, InsLinesFacts
    <3> QED BY <3>2
  <2> QED BY <1>3, <2>1, <2>2
<1>6. lines \in Seq(Lines)
  BY <1>2, <1>3, <1>5, BodyIsLines, ConcatProperties
<1>7. u = PassedIns(v, n, lines)
  BY <1>1, <1>2 DEF instruction_write, PassedIns, InsLines
<1>8. LET y == PassedIns(v, n, lines)
      IN  /\ y \in Writers /\ y.i = n /\ y.class = v.class /\ y.method = v.method
          /\ y.func = v.func /\ y.lines = lines
  BY <1>6, PassedInsFacts
<1>9. PassedIns(v, n, lines).in_class = v.in_class
  BY <1>6, PassedInsInClass
<1>10. /\ u \in Writers /\ u.i = n /\ u.class = v.class /\ u.method = v.method
       /\ u.func = v.func /\ u.lines = lines /\ u.in_class = v.in_class
  BY <1>7, <1>8, <1>9
<1>11. Passed(t, u, n, n, n)
  BY <1>10, PassedKept
<1>12. PICK classes : classes = IF v.in_class THEN Append(Done(t, v), OpenPart(t, v)) ELSE Done(t, v)
  OBVIOUS
<1>13. PICK class : class = IF v.in_class THEN v.class ELSE 0
  OBVIOUS
<1>14. classes \in Seq(ClassRefs) /\ class \in Nat
  <2>1. CASE v.in_class = TRUE
    <3>1. Done(t, v) \in Seq(ClassRefs)
      BY <1>3, PartPieces
    <3>2. OpenPart(t, v) \in ClassRefs
      BY <2>1, OpenPieces
    <3> QED BY <1>12, <1>13, <2>1, <3>1, <3>2, AppendProperties DEF Writers
  <2>2. CASE v.in_class = FALSE
    BY <1>3, <1>12, <1>13, <2>2, PartPieces
  <2> QED BY <2>1, <2>2 DEF Writers
<1>15. PICK m : m = KeptModule(t)
  OBVIOUS
<1>16. PICK fs : fs = DoneFunctions(t, v)
  OBVIOUS
<1>17. m \in Modules /\ fs \in Seq(FunctionRefs)
  BY <1>3, <1>15, <1>16, PartPieces
<1>18. /\ Part(t, v) = Partial(m, Prefix(t.ins, v.i), fs, classes, class)
       /\ Part(t, u) = Partial(m, Prefix(t.ins, n), fs, classes, class)
  BY <1>10, <1>12, <1>13, <1>15, <1>16 DEF Part, OpenPart, Done, DoneFunctions
<1>19. Advance(t, v, u)
  <2>1. CASE v.i = n
    <3>1. row = <<>>
      BY <1>1, <1>3, <2>1, InsLinesFacts
    <3>2. Part(t, u) = Part(t, v)
      BY <1>18, <2>1
    <3>3. Reads(row, Part(t, v), Part(t, u))
      BY <1>4, <3>1, <3>2, ReadsNone
    <3> QED BY <1>2, <1>5, <1>10, <3>3 DEF Advance
  <2>2. CASE v.i + 1 = n
    <3>1. PICK x : x = t.ins[n]
      OBVIOUS
    <3>2. PICK line : line = Line("ins", "", <<x>>)
      OBVIOUS
    <3>3. /\ row = <<line>> /\ x \in Instructions /\ line.k = "ins" /\ line.ins[1] = x
      BY <1>1, <1>3, <2>2, <3>1, <3>2, InsLinesFacts
    <3>4. PICK before : before = Prefix(t.ins, v.i)
      OBVIOUS
    <3>5. /\ before \in Seq(Instructions) /\ Append(before, x) = Prefix(t.ins, n)
      <4>1. PICK k : k = v.i
        OBVIOUS
      <4>2. k \in Nat /\ k < Len(t.ins) /\ k + 1 = n /\ t.ins \in Seq(Instructions)
        BY <1>3, <2>2, <4>1, TypeFacts DEF tape_size
      <4>3. Prefix(t.ins, k + 1) = Append(Prefix(t.ins, k), t.ins[k + 1])
        BY <4>2, PrefixStep
      <4>4. Prefix(t.ins, v.i) \in Seq(Instructions)
        BY <1>3, PartPieces
      <4> QED BY <3>1, <3>4, <4>1, <4>2, <4>3, <4>4
    <3>6. tape_add(Partial(m, before, fs, classes, class), x)
            = Partial(m, Append(before, x), fs, classes, class)
      BY <1>14, <1>17, <3>3, <3>5, LineAdds
    <3>7. ReadLine(Part(t, v), line) = Part(t, u)
      BY <1>18, <3>3, <3>4, <3>5, <3>6, ReadLineCases
    <3>8. Part(t, u).ok
      BY <1>10, <1>11, PartOk
    <3>9. Reads(row, Part(t, v), Part(t, u))
      BY <1>4, <3>3, <3>7, <3>8, ReadsOne
    <3> QED BY <1>2, <1>5, <1>10, <3>9 DEF Advance
  <2> QED BY <1>3, <2>1, <2>2
<1> QED BY <1>10, <1>11, <1>19

\* Whatever is at an index, what is written there reads as what is passed there.
LEMMA WriteStep ==
    ASSUME NEW t, Writing(t), NEW v \in Writers, NEW n \in Nat, n <= tape_size(t),
           v.i = (IF n = 0 THEN 0 ELSE n - 1), Passed(t, v, n, n, n),
           NEW u, u = WriteAt(t, v, n)
    PROVE  u \in Writers /\ u.i = n /\ Passed(t, u, n + 1, n + 1, n + 1) /\ Advance(t, v, u)
<1>1. PICK a : a = instruction_write(t, v, n)
  OBVIOUS
<1>2. PICK b : b = WriteEndClass(t, a)
  OBVIOUS
<1>3. PICK c : c = WriteClass(t, b)
  OBVIOUS
<1>4. u = WriteLabel(t, c)
  BY <1>1, <1>2, <1>3 DEF WriteAt
<1>5. a \in Writers /\ a.i = n /\ Passed(t, a, n, n, n) /\ Advance(t, v, a)
  BY <1>1, InsStep
<1>6. b \in Writers /\ b.i = n /\ Passed(t, b, n + 1, n, n) /\ Advance(t, a, b)
  BY <1>2, <1>5, EndClassStep
<1>7. c \in Writers /\ c.i = n /\ Passed(t, c, n + 1, n + 1, n) /\ Advance(t, b, c)
  BY <1>3, <1>6, ClassStep
<1>8. u \in Writers /\ u.i = n /\ Passed(t, u, n + 1, n + 1, n + 1) /\ Advance(t, c, u)
  BY <1>4, <1>7, LabelStep
<1>9. Advance(t, v, c)
  BY <1>5, <1>6, <1>7, AdvanceFurther
<1> QED BY <1>8, <1>9, AdvanceFurther

-----------------------------------------------------------------------------
(* The first and the last part.                                             *)

Empty(t) == tape_module(tape_create, KeptModule(t))

LEMMA FirstPart ==
    ASSUME NEW t, Writing(t), NEW v \in Writers,
           v.i = 0, v.class = 1, v.in_class = FALSE, v.func = 1
    PROVE  Passed(t, v, 0, 0, 0) /\ Part(t, v) = Empty(t) /\ Empty(t).ok
<1>1. /\ t \in Tapes /\ Len(t.functions) \in Nat /\ Len(t.classes) \in Nat
      /\ DOMAIN t.functions = 1 .. Len(t.functions) /\ DOMAIN t.classes = 1 .. Len(t.classes)
      /\ t.ins \in Seq(Instructions) /\ t.functions \in Seq(FunctionRefs)
  BY TypeFacts, LenProperties DEF Writing
<1>2. \A c \in DOMAIN t.classes : t.classes[c].start_index \in Nat /\ t.classes[c].end_index \in Nat
  BY ClassSpread
<1>3. \A f \in DOMAIN t.functions : t.functions[f].index \in Nat
  BY FunctionSpread
<1>4. Passed(t, v, 0, 0, 0)
  <2>1. 1 <= Len(t.classes) => 1 \in DOMAIN t.classes
    BY <1>1
  <2>2. ~(v.class <= Len(t.classes) /\ t.classes[v.class].start_index < 0)
    BY <1>2, <2>1
  <2>3. \A c \in DOMAIN t.classes : c < v.class <=> t.classes[c].end_index < 0
    BY <1>1, <1>2
  <2>4. \A f \in DOMAIN t.functions : f < v.func <=> t.functions[f].index < 0
    BY <1>1, <1>3
  <2>5. v.class \in 1 .. Len(t.classes) + 1 /\ v.func \in 1 .. Len(t.functions) + 1
    BY <1>1
  <2> QED BY <2>2, <2>3, <2>4, <2>5 DEF Passed
<1>5. PICK m : m = KeptModule(t)
  OBVIOUS
<1>6. PICK fs : fs = NotAsync(t.functions)
  OBVIOUS
<1>7. PICK cs : cs = KeptClasses(t)
  OBVIOUS
<1>8. fs \in Seq(FunctionRefs) /\ cs \in Seq(ClassRefs)
  BY <1>1, <1>6, <1>7, NotAsyncFacts, KeptFacts
<1>9. Prefix(t.ins, 0) = <<>> /\ Prefix(fs, 0) = <<>> /\ Prefix(cs, 0) = <<>>
  BY <1>1, <1>8, PrefixEnds
<1>10. v.class - 1 = 0 /\ v.func - 1 = 0
  OBVIOUS
<1>11. Part(t, v) = Partial(m, <<>>, <<>>, <<>>, 0)
  BY <1>5, <1>6, <1>7, <1>9, <1>10 DEF Part
<1>12. Partial(m, <<>>, <<>>, <<>>, 0) = tape_module(tape_create, m)
  <2>1. PICK x \in Tapes : x = tape_create
    BY CreateFacts
  <2>2. PICK u : u = tape_module(x, m)
    OBVIOUS
  <2>3. m \in Identifiers \cup {"$", UNSET}
    BY <1>1, <1>5, KeptFacts DEF Modules
  <2>4. /\ u \in Tapes /\ u.module = m /\ u.ins = x.ins /\ u.functions = x.functions
        /\ u.classes = x.classes /\ u.current_class = x.current_class /\ (u.ok <=> x.ok)
    BY <2>2, <2>3, ModuleFacts
  <2>5. /\ u.ins = <<>> /\ u.functions = <<>> /\ u.classes = <<>> /\ u.current_class = 0
        /\ u.ok
    BY <2>1, <2>4, CreateFacts
  <2>6. u = Partial(m, <<>>, <<>>, <<>>, 0)
    BY <2>4, <2>5, IsPartial
  <2> QED BY <2>1, <2>2, <2>6
<1>13. tape_module(tape_create, m).ok
  BY DEF tape_module, tape_create
<1> QED BY <1>4, <1>5, <1>11, <1>12, <1>13 DEF Empty

\* The tape with what a text keeps of it in the place of what it has.
WithKept(t, m, functions, classes) ==
    [t EXCEPT !.module = m, !.functions = functions, !.classes = classes]

LEMMA WithKeptFacts ==
    ASSUME NEW t \in Tapes, NEW m \in Modules, NEW functions \in Seq(FunctionRefs),
           NEW classes \in Seq(ClassRefs)
    PROVE  LET u == WithKept(t, m, functions, classes)
           IN  /\ u \in Tapes /\ u.module = m /\ u.functions = functions
               /\ u.classes = classes /\ u.ins = t.ins /\ u.current_class = t.current_class
  BY DEF WithKept, Tapes, Modules

LEMMA WithKeptOk ==
    ASSUME NEW t \in Tapes, NEW m \in Modules, NEW functions \in Seq(FunctionRefs),
           NEW classes \in Seq(ClassRefs)
    PROVE  WithKept(t, m, functions, classes).ok = t.ok
  BY DEF WithKept, Tapes, Modules

LEMMA LastPart ==
    ASSUME NEW t, Writing(t), NEW v \in Writers, v.i = tape_size(t),
           NEW n, n = tape_size(t) + 1, Passed(t, v, n, n, n)
    PROVE  Part(t, v) = KeptByText(t)
<1>1. /\ t \in Tapes /\ t.ok /\ t.current_class = 0
      /\ Len(t.functions) \in Nat /\ Len(t.classes) \in Nat /\ tape_size(t) \in Nat
      /\ DOMAIN t.functions = 1 .. Len(t.functions) /\ DOMAIN t.classes = 1 .. Len(t.classes)
      /\ t.ins \in Seq(Instructions) /\ t.functions \in Seq(FunctionRefs)
  BY TypeFacts, LenProperties DEF Writing, tape_size
<1>2. v.class = Len(t.classes) + 1 /\ v.in_class = FALSE
  <2>1. \A c \in DOMAIN t.classes : t.classes[c].end_index < n
    BY <1>1, ClassSpread
  <2>2. \A c \in DOMAIN t.classes : c < v.class
    BY <2>1 DEF Passed
  <2>3. v.class \in 1 .. Len(t.classes) + 1
    BY DEF Passed
  <2>4. v.class = Len(t.classes) + 1
    BY <1>1, <2>2, <2>3
  <2>5. ~(v.class <= Len(t.classes))
    BY <1>1, <2>4
  <2> QED BY <2>4, <2>5 DEF Passed
<1>3. v.func = Len(t.functions) + 1
  <2>1. \A f \in DOMAIN t.functions : t.functions[f].index < n
    BY <1>1, FunctionSpread
  <2>2. \A f \in DOMAIN t.functions : f < v.func
    BY <2>1 DEF Passed
  <2>3. v.func \in 1 .. Len(t.functions) + 1
    BY DEF Passed
  <2> QED BY <1>1, <2>2, <2>3
<1>4. PICK m : m = KeptModule(t)
  OBVIOUS
<1>5. PICK fs : fs = NotAsync(t.functions)
  OBVIOUS
<1>6. PICK cs : cs = KeptClasses(t)
  OBVIOUS
<1>7. /\ m \in Modules /\ fs \in Seq(FunctionRefs) /\ Len(fs) = Len(t.functions)
      /\ cs \in Seq(ClassRefs) /\ Len(cs) = Len(t.classes)
  BY <1>1, <1>4, <1>5, <1>6, NotAsyncFacts, KeptFacts
<1>8. v.class - 1 = Len(cs) /\ v.func - 1 = Len(fs) /\ v.i = Len(t.ins)
  BY <1>1, <1>2, <1>3, <1>7 DEF tape_size
<1>9. /\ Prefix(t.ins, Len(t.ins)) = t.ins /\ Prefix(fs, Len(fs)) = fs
      /\ Prefix(cs, Len(cs)) = cs
  BY <1>1, <1>7, PrefixEnds
<1>10. Part(t, v) = Partial(m, t.ins, fs, cs, 0)
  BY <1>2, <1>4, <1>5, <1>6, <1>8, <1>9 DEF Part
<1>11. PICK u : u = WithKept(t, m, fs, cs)
  OBVIOUS
<1>12. WithKept(t, m, fs, cs) = KeptByText(t)
  BY <1>4, <1>5, <1>6 DEF WithKept, KeptByText, KeptModule, KeptClasses, KeptClass
<1>13. WithKept(t, m, fs, cs) \in Tapes
  BY <1>1, <1>7, WithKeptFacts
<1>14. /\ u.module = m /\ u.functions = fs /\ u.classes = cs
       /\ u.ins = t.ins /\ u.current_class = 0
  BY <1>1, <1>7, <1>11, WithKeptFacts
<1>15. u.ok
  BY <1>1, <1>7, <1>11, WithKeptOk
<1>16. u \in Tapes
  BY <1>11, <1>13
<1>17. u = Partial(m, t.ins, fs, cs, 0)
  BY <1>14, <1>15, <1>16, IsPartial
<1> QED BY <1>10, <1>11, <1>12, <1>17

-----------------------------------------------------------------------------
(* The header.                                                              *)

LEMMA HeaderFacts ==
    ASSUME NEW t \in Tapes
    PROVE  Header(t) \in Seq(Lines)
<1>1. <<>> \in Seq(Lines) /\ <<>> \in Seq(Instructions)
  BY EmptySeq
<1>2. t.module \in Modules
  BY DEF Tapes, Modules
<1>3. Line("module", t.module, <<>>) \in Lines
  BY <1>1, <1>2 DEF Line, Lines
<1>4. \A line \in Lines : <<line>> \in Seq(Lines)
  OBVIOUS
<1> QED BY <1>1, <1>3, <1>4 DEF Header, Word

\* The name of the module is read from the header, and then what is behind it.
LEMMA ReadHeader ==
    ASSUME NEW t \in Tapes, NEW body \in Seq(BodyLines), NEW lines, lines = Header(t) \o body
    PROVE  /\ tape_read_module(lines) = Empty(t)
           /\ (IF IsNamed(lines) THEN Tail(lines) ELSE lines) = body
<1>1. body \in Seq(Lines)
  BY BodyIsLines
<1>2. CASE t.module \in {"$", UNSET}
  <2>1. lines = body
    BY <1>1, <1>2, ConcatEmptySeq DEF Header
  <2>2. ASSUME body # <<>> PROVE Head(body).k # "module"
    <3>1. Head(body) \in BodyLines
      BY <2>2, HeadTailProperties
    <3> QED BY <3>1 DEF BodyLines
  <2>3. ~IsNamed(lines)
    BY <2>1, <2>2 DEF IsNamed
  <2>4. KeptModule(t) = "$"
    BY <1>2 DEF KeptModule
  <2> QED BY <2>1, <2>3, <2>4 DEF tape_read_module, Empty
<1>3. CASE t.module \notin {"$", UNSET}
  <2>1. PICK line : line = Line("module", t.module, <<>>)
    OBVIOUS
  <2>2. line.k = "module" /\ line.name = t.module
    BY <2>1 DEF Line
  <2>3. line \in Lines
    <3>1. <<>> \in Seq(Instructions) /\ t.module \in Modules
      BY EmptySeq DEF Tapes, Modules
    <3> QED BY <2>1, <3>1 DEF Line, Lines
  <2>4. lines = <<line>> \o body
    BY <1>3, <2>1 DEF Header, Word
  <2>5. lines # <<>> /\ Head(lines) = line /\ Tail(lines) = body
    BY <1>1, <2>3, <2>4
  <2>6. IsNamed(lines)
    BY <2>2, <2>5 DEF IsNamed
  <2>7. KeptModule(t) = t.module
    BY <1>3 DEF KeptModule
  <2> QED BY <2>2, <2>5, <2>6, <2>7 DEF tape_read_module, Empty
<1> QED BY <1>2, <1>3

-----------------------------------------------------------------------------
(* The writer and the reader.                                               *)

\* Before the index i the writer has passed what is below it, and what it has
\* written leads from an empty tape to the part of the tape that it has passed.
Written ==
    /\ w \in Writers /\ i <= tape_size(tape) + 1
    /\ w.i = (IF i = 0 THEN 0 ELSE i - 1)
    /\ Passed(tape, w, i, i, i)
    /\ \E body \in Seq(BodyLines) :
          w.lines = Header(tape) \o body /\ Reads(body, Empty(tape), Part(tape, w))

\* What is left to be read leads from the tape that is read to the one written.
LeftToRead == todo \in Seq(BodyLines) /\ Reads(todo, read, KeptByText(tape))

TextInv ==
    /\ TapeInv
    /\ stage # "build" => tape.ok /\ tape.current_class = 0
    /\ LabelsApart(tape) =>
          /\ stage = "write_text" => Written
          /\ stage = "read_text" => LeftToRead
          /\ stage = "from_text" => read = KeptByText(tape)

TextStages == {"write_text", "read_text", "from_text"}

\* The steps that have nothing to do with the text.
LEMMA OtherStep ==
    ASSUME TextInv, TapeInv', stage' \notin TextStages,
           \/ stage' = "build"
           \/ UNCHANGED tape /\ tape.ok /\ tape.current_class = 0
    PROVE  TextInv'
  BY DEF TextInv, TextStages

LEMMA IsWriting ==
    ASSUME TapeInv, tape.ok, tape.current_class = 0, LabelsApart(tape)
    PROVE  Writing(tape)
  BY DEF TapeInv, TypeOK, Writing

LEMMA StartTextStep ==
    ASSUME TextInv, TapeInv', StartText
    PROVE  TextInv'
<1>1. /\ UNCHANGED tape /\ tape.ok /\ tape.current_class = 0 /\ stage' = "write_text" /\ i' = 0
      /\ tape \in Tapes
  BY DEF StartText, TextInv, TapeInv, TypeOK
<1>2. PICK u : u = w'
  OBVIOUS
<1>3. u = [Writer EXCEPT !.lines = Header(tape)]
  BY <1>2 DEF StartText
<1>4. /\ u \in Writers /\ u.i = 0 /\ u.class = 1 /\ u.func = 1 /\ u.lines = Header(tape)
  <2>1. PICK lines : lines = Header(tape)
    OBVIOUS
  <2>2. lines \in Seq(Lines)
    BY <1>1, <2>1, HeaderFacts
  <2>3. u = [i |-> 0, class |-> 1, in_class |-> FALSE, method |-> 1, func |-> 1, lines |-> lines]
    BY <1>3, <2>1 DEF Writer
  <2> QED BY <2>1, <2>2, <2>3 DEF Writers
<1>5. u.in_class = FALSE
  BY <1>3 DEF Writer
<1>6. ASSUME LabelsApart(tape) PROVE Written'
  <2>1. Writing(tape)
    BY <1>1, <1>6, IsWriting DEF TextInv
  <2>2. Passed(tape, u, 0, 0, 0) /\ Part(tape, u) = Empty(tape) /\ Empty(tape).ok
    BY <1>4, <1>5, <2>1, FirstPart
  <2>3. Reads(<<>>, Empty(tape), Part(tape, u))
    BY <2>2, ReadsNone
  <2>4. <<>> \in Seq(BodyLines) /\ Header(tape) \o <<>> = Header(tape)
    BY <1>1, EmptySeq, HeaderFacts, ConcatEmptySeq
  <2>5. 0 <= tape_size(tape) + 1
    BY <1>1, TypeFacts, LenProperties DEF tape_size
  <2> QED BY <1>1, <1>2, <1>4, <2>2, <2>3, <2>4, <2>5 DEF Written
<1> QED BY <1>1, <1>6 DEF TextInv

LEMMA WriteIndexStep ==
    ASSUME TextInv, TapeInv', WriteIndex
    PROVE  TextInv'
<1>1. /\ UNCHANGED <<tape, stage>> /\ stage = "write_text" /\ tape.ok /\ tape.current_class = 0
      /\ i <= tape_size(tape) /\ i \in Nat /\ tape \in Tapes
  BY DEF WriteIndex, TextInv, TapeInv, TypeOK
<1>2. PICK n \in Nat : n = i
  BY <1>1
<1>3. PICK u : u = w'
  OBVIOUS
<1>4. u = WriteAt(tape, w, n) /\ i' = n + 1
  BY <1>2, <1>3 DEF WriteIndex
<1>5. ASSUME LabelsApart(tape) PROVE Written'
  <2>1. Writing(tape)
    BY <1>1, <1>5, IsWriting DEF TextInv
  <2>2. /\ w \in Writers /\ w.i = (IF n = 0 THEN 0 ELSE n - 1) /\ Passed(tape, w, n, n, n)
    BY <1>1, <1>2, <1>5 DEF TextInv, Written
  <2>3. PICK body \in Seq(BodyLines) :
            w.lines = Header(tape) \o body /\ Reads(body, Empty(tape), Part(tape, w))
    BY <1>1, <1>5 DEF TextInv, Written
  <2>4. u \in Writers /\ u.i = n /\ Passed(tape, u, n + 1, n + 1, n + 1) /\ Advance(tape, w, u)
    BY <1>1, <1>2, <1>4, <2>1, <2>2, WriteStep
  <2>5. PICK l \in Seq(BodyLines) :
            u.lines = w.lines \o l /\ Reads(l, Part(tape, w), Part(tape, u))
    BY <2>4 DEF Advance
  <2>6. PICK more : more = body \o l
    OBVIOUS
  <2>7. more \in Seq(BodyLines)
    BY <2>6, ConcatProperties
  <2>8. u.lines = Header(tape) \o more
    <3>1. PICK head : head = Header(tape)
      OBVIOUS
    <3>2. head \in Seq(Lines) /\ body \in Seq(Lines) /\ l \in Seq(Lines)
      BY <1>1, <3>1, HeaderFacts, BodyIsLines
    <3>3. (head \o body) \o l = head \o (body \o l)
      BY <3>2, LinesAssociate, Zenon
    <3> QED BY <2>3, <2>5, <2>6, <3>1, <3>3
  <2>9. Reads(more, Empty(tape), Part(tape, u))
    BY <2>3, <2>5, <2>6, ReadsMore
  <2>10. i' <= tape_size(tape) + 1 /\ u.i = (IF i' = 0 THEN 0 ELSE i' - 1)
    <3>1. tape_size(tape) \in Nat
      BY <1>1, TypeFacts, LenProperties DEF tape_size
    <3> QED BY <1>1, <1>2, <1>4, <2>4, <3>1
  <2> QED BY <1>1, <1>3, <1>4, <2>4, <2>7, <2>8, <2>9, <2>10 DEF Written
<1> QED BY <1>1, <1>5 DEF TextInv

LEMMA StartReadingStep ==
    ASSUME TextInv, TapeInv', StartReading
    PROVE  TextInv'
<1>1. /\ UNCHANGED tape /\ stage = "write_text" /\ stage' = "read_text" /\ tape.ok
      /\ tape.current_class = 0 /\ i > tape_size(tape) /\ i \in Nat /\ tape \in Tapes
  BY DEF StartReading, TextInv, TapeInv, TypeOK
<1>2. ASSUME LabelsApart(tape) PROVE LeftToRead'
  <2>1. Writing(tape)
    BY <1>1, <1>2, IsWriting DEF TextInv
  <2>2. PICK body \in Seq(BodyLines) :
            w.lines = Header(tape) \o body /\ Reads(body, Empty(tape), Part(tape, w))
    BY <1>1, <1>2 DEF TextInv, Written
  <2>3. PICK n : n = tape_size(tape) + 1
    OBVIOUS
  <2>4. i = n /\ w \in Writers /\ w.i = tape_size(tape) /\ Passed(tape, w, n, n, n)
    <3>1. tape_size(tape) \in Nat
      BY <1>1, TypeFacts, LenProperties DEF tape_size
    <3>2. /\ w \in Writers /\ i <= tape_size(tape) + 1
          /\ w.i = (IF i = 0 THEN 0 ELSE i - 1) /\ Passed(tape, w, i, i, i)
      BY <1>1, <1>2 DEF TextInv, Written
    <3>3. i = n
      BY <1>1, <2>3, <3>1, <3>2
    <3>4. w.i = tape_size(tape)
      BY <1>1, <3>1, <3>2
    <3> QED BY <3>2, <3>3, <3>4
  <2>5. Part(tape, w) = KeptByText(tape)
    BY <2>1, <2>3, <2>4, LastPart
  <2>6. /\ tape_read_module(w.lines) = Empty(tape)
        /\ (IF IsNamed(w.lines) THEN Tail(w.lines) ELSE w.lines) = body
    BY <1>1, <2>2, ReadHeader
  <2>7. read' = Empty(tape) /\ todo' = body
    BY <2>6 DEF StartReading
  <2> QED BY <1>1, <2>2, <2>5, <2>7 DEF LeftToRead
<1> QED BY <1>1, <1>2 DEF TextInv

LEMMA ReadNextStep ==
    ASSUME TextInv, TapeInv', ReadNext
    PROVE  TextInv'
<1>1. /\ UNCHANGED <<tape, stage>> /\ stage = "read_text" /\ tape.ok /\ tape.current_class = 0
      /\ todo # <<>>
  BY DEF ReadNext, TextInv
<1>2. ASSUME LabelsApart(tape) PROVE LeftToRead'
  <2>1. todo \in Seq(BodyLines) /\ Reads(todo, read, KeptByText(tape))
    BY <1>1, <1>2 DEF TextInv, LeftToRead
  <2>2. Reads(Tail(todo), ReadLine(read, Head(todo)), KeptByText(tape))
    BY <1>1, <2>1, ReadsNext
  <2>3. Tail(todo) \in Seq(BodyLines)
    BY <1>1, <2>1, HeadTailProperties
  <2>4. read' = ReadLine(read, Head(todo)) /\ todo' = Tail(todo)
    BY DEF ReadNext
  <2> QED BY <1>1, <2>2, <2>3, <2>4 DEF LeftToRead
<1> QED BY <1>1, <1>2 DEF TextInv

LEMMA EndTextStep ==
    ASSUME TextInv, TapeInv', EndText
    PROVE  TextInv'
<1>1. /\ UNCHANGED <<tape, read>> /\ stage = "read_text" /\ stage' = "from_text" /\ tape.ok
      /\ tape.current_class = 0 /\ todo = <<>>
  BY DEF EndText, TextInv
<1>2. ASSUME LabelsApart(tape) PROVE read = KeptByText(tape)
  <2>1. todo \in Seq(BodyLines) /\ Reads(todo, read, KeptByText(tape))
    BY <1>1, <1>2 DEF TextInv, LeftToRead
  <2> QED BY <1>1, <2>1, ReadsEnds, LenProperties
<1> QED BY <1>1, <1>2 DEF TextInv

LEMMA NextText == TextInv /\ [Next]_vars => TextInv'
<1> SUFFICES ASSUME TextInv, [Next]_vars PROVE TextInv'
  OBVIOUS
<1>1. TapeInv'
  BY NextTape DEF TextInv
<1>2. stage # "build" => tape.ok /\ tape.current_class = 0
  BY DEF TextInv
<1>3. CASE NameModule \/ AddInstruction \/ StartFunction \/ StartClass \/ AddField
             \/ EndClass \/ AppendStatement
  <2>1. stage' = "build"
    BY <1>3 DEF NameModule, AddInstruction, StartFunction, StartClass, AddField, EndClass,
                AppendStatement, Building
  <2> QED BY <1>1, <2>1, OtherStep DEF TextStages
<1>4. CASE StartText
  BY <1>1, <1>4, StartTextStep
<1>5. CASE WriteIndex
  BY <1>1, <1>5, WriteIndexStep
<1>6. CASE StartReading
  BY <1>1, <1>6, StartReadingStep
<1>7. CASE ReadNext
  BY <1>1, <1>7, ReadNextStep
<1>8. CASE EndText
  BY <1>1, <1>8, EndTextStep
<1>9. CASE StartBytecode \/ InternClass \/ InternFunction \/ InternInstruction
             \/ EndIntern \/ WriteBytecode
  <2>1. UNCHANGED tape /\ tape.ok /\ tape.current_class = 0 /\ stage' \notin TextStages
    BY <1>2, <1>9 DEF StartBytecode, InternClass, InternFunction, InternInstruction, EndIntern,
                      WriteBytecode, Goto, TextStages
  <2> QED BY <1>1, <2>1, OtherStep
<1>10. CASE ReadFunction \/ StartReadClass \/ ReadMethod \/ EndReadClass \/ ReadInstruction
              \/ EndRead
  <2>1. UNCHANGED tape /\ tape.ok /\ tape.current_class = 0 /\ stage' \notin TextStages
    BY <1>2, <1>10 DEF ReadFunction, StartReadClass, ReadMethod, EndReadClass, ReadInstruction,
                       EndRead, Reading, Goto, TextStages
  <2> QED BY <1>1, <2>1, OtherStep
<1>11. CASE UNCHANGED vars
  BY <1>1, <1>11 DEF vars, TextInv, Written, LeftToRead
<1> QED BY <1>3, <1>4, <1>5, <1>6, <1>7, <1>8, <1>9, <1>10, <1>11 DEF Next

\* Any tape with its labels apart that is built without an error, written as text
\* and read again is the tape that it was, but for async: no line of the text is
\* an error for the reader, and every label is back at its index, in its class.
THEOREM TextRestored == Spec => []TextRestores
<1>1. Init => TextInv
  <2> SUFFICES ASSUME Init PROVE TextInv
    OBVIOUS
  <2>1. stage = "build"
    BY DEF Init
  <2> QED BY <2>1, InitTape DEF TextInv
<1>2. TextInv => TextRestores
  <2> SUFFICES ASSUME TextInv, LabelsApart(tape)
               PROVE  /\ stage = "read_text" => read.ok
                      /\ stage = "from_text" => read = KeptByText(tape)
    BY DEF TextRestores
  <2>1. ASSUME stage = "read_text" PROVE read.ok
    <3>1. todo \in Seq(BodyLines) /\ Reads(todo, read, KeptByText(tape))
      BY <2>1 DEF TextInv, LeftToRead
    <3> QED BY <3>1, ReadsEnds, LenProperties
  <2> QED BY <2>1 DEF TextInv
<1> QED BY <1>1, <1>2, NextText, PTL DEF Spec
=============================================================================
