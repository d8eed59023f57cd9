--------------------------- MODULE TapeFilesProofs ---------------------------
(* Proofs about the tapes that are built, for any names, instructions and  *)
(* numbers of calls: what each operation of program/tape.c does to a tape, *)
(* and that it leaves a tape well-formed.                                  *)
EXTENDS TapeFiles, SequenceTheorems, TLAPS

USE DEF tape_size

-----------------------------------------------------------------------------
(* Records.                                                                 *)

\* A tape, a class and a function are known by their fields.
LEMMA SameTape ==
    ASSUME NEW t \in Tapes, NEW u \in Tapes,
           t.module = u.module, t.ins = u.ins, t.functions = u.functions,
           t.classes = u.classes, t.current_class = u.current_class, t.ok <=> u.ok
    PROVE  t = u
<1>1. \A v \in Tapes : v = [module |-> v.module, ins |-> v.ins, functions |-> v.functions,
                             classes |-> v.classes, current_class |-> v.current_class,
                             ok |-> v.ok]
  BY DEF Tapes
<1>2. t.ok = u.ok
  BY DEF Tapes
<1> QED BY <1>1, <1>2

LEMMA SameClass ==
    ASSUME NEW c \in ClassRefs, NEW d \in ClassRefs,
           c.name = d.name, c.start_index = d.start_index, c.end_index = d.end_index,
           c.fields = d.fields, c.functions = d.functions
    PROVE  c = d
  BY DEF ClassRefs

LEMMA FunctionRefFacts ==
    ASSUME NEW name \in Identifiers, NEW index \in Nat, NEW is_async \in BOOLEAN
    PROVE  LET ref == FunctionRef(name, index, is_async)
           IN  /\ ref \in FunctionRefs
               /\ ref.name = name /\ ref.index = index /\ ref.is_async = is_async
  BY DEF FunctionRef, FunctionRefs

\* A class with other functions, fields, or another end.
SetFunctions(cref, functions) == [cref EXCEPT !.functions = functions]
SetFields(cref, fields) == [cref EXCEPT !.fields = fields]
SetEnd(cref, index) == [cref EXCEPT !.end_index = index]

LEMMA WithFunctions ==
    ASSUME NEW cref \in ClassRefs, NEW functions \in Seq(FunctionRefs)
    PROVE  LET d == SetFunctions(cref, functions)
           IN  /\ d \in ClassRefs /\ d.functions = functions
               /\ d.name = cref.name /\ d.fields = cref.fields
               /\ d.start_index = cref.start_index /\ d.end_index = cref.end_index
  BY DEF ClassRefs, SetFunctions

LEMMA WithFields ==
    ASSUME NEW cref \in ClassRefs, NEW fields \in Seq(Identifiers)
    PROVE  LET d == SetFields(cref, fields)
           IN  /\ d \in ClassRefs /\ d.fields = fields
               /\ d.name = cref.name /\ d.functions = cref.functions
               /\ d.start_index = cref.start_index /\ d.end_index = cref.end_index
  BY DEF ClassRefs, SetFields

LEMMA WithEnd ==
    ASSUME NEW cref \in ClassRefs, NEW index \in Nat
    PROVE  LET d == SetEnd(cref, index)
           IN  /\ d \in ClassRefs /\ d.end_index = index
               /\ d.name = cref.name /\ d.functions = cref.functions
               /\ d.start_index = cref.start_index /\ d.fields = cref.fields
  BY DEF ClassRefs, SetEnd

Update(t, classes, k, ok) == [t EXCEPT !.classes = classes, !.current_class = k, !.ok = ok]

LEMMA WithClasses ==
    ASSUME NEW t \in Tapes, NEW classes \in Seq(ClassRefs), NEW k \in Nat, NEW ok \in BOOLEAN
    PROVE  LET u == Update(t, classes, k, ok)
           IN  /\ u \in Tapes /\ u.classes = classes /\ u.ok = ok
               /\ u.module = t.module /\ u.ins = t.ins /\ u.functions = t.functions
               /\ u.current_class = k
  BY DEF Tapes, Update
-----------------------------------------------------------------------------
(* The operations, field by field.                                          *)

LEMMA SetClass ==
    ASSUME NEW t \in Tapes, NEW c \in DOMAIN t.classes, NEW cref \in ClassRefs
    PROVE  LET classes == [t.classes EXCEPT ![c] = cref]
           IN  /\ classes \in Seq(ClassRefs) /\ Len(classes) = Len(t.classes)
               /\ DOMAIN classes = DOMAIN t.classes
               /\ classes[c] = cref
               /\ \A d \in DOMAIN t.classes : d # c => classes[d] = t.classes[d]
<1>1. t.classes \in Seq(ClassRefs) /\ c \in 1 .. Len(t.classes)
  BY DEF Tapes
<1> QED BY <1>1, ExceptSeq

\* Everything but the classes is as in t.
Keeps(u, t) ==
    /\ u \in Tapes
    /\ u.module = t.module /\ u.ins = t.ins /\ u.functions = t.functions

\* Only the class c is another: it is cref.
Replaced(u, t, c, cref) ==
    /\ Len(u.classes) = Len(t.classes) /\ DOMAIN u.classes = DOMAIN t.classes
    /\ cref \in ClassRefs /\ u.classes[c] = cref
    /\ \A d \in DOMAIN t.classes : d # c => u.classes[d] = t.classes[d]

LEMMA ReplaceClass ==
    ASSUME NEW t \in Tapes, NEW c \in DOMAIN t.classes, NEW cref \in ClassRefs,
           NEW k \in Nat, NEW ok \in BOOLEAN
    PROVE  LET u == Update(t, [t.classes EXCEPT ![c] = cref], k, ok)
           IN  /\ Keeps(u, t) /\ Replaced(u, t, c, cref)
               /\ u.current_class = k /\ u.ok = ok
<1>1. PICK classes : classes = [t.classes EXCEPT ![c] = cref]
  OBVIOUS
<1>2. /\ classes \in Seq(ClassRefs) /\ Len(classes) = Len(t.classes)
      /\ DOMAIN classes = DOMAIN t.classes /\ classes[c] = cref
      /\ \A d \in DOMAIN t.classes : d # c => classes[d] = t.classes[d]
  BY <1>1, SetClass
<1>3. PICK u : u = Update(t, classes, k, ok)
  OBVIOUS
<1>4. /\ u \in Tapes /\ u.classes = classes /\ u.ok = ok
      /\ u.module = t.module /\ u.ins = t.ins /\ u.functions = t.functions
      /\ u.current_class = k
  BY <1>2, <1>3, WithClasses
<1>5. Keeps(u, t) /\ Replaced(u, t, c, cref)
  BY <1>2, <1>4 DEF Keeps, Replaced
<1> QED BY <1>1, <1>3, <1>4, <1>5

LEMMA AddFacts ==
    ASSUME NEW t \in Tapes, NEW ins \in Instructions
    PROVE  LET u == tape_add(t, ins)
           IN  /\ u \in Tapes /\ u.ins = Append(t.ins, ins)
               /\ u.module = t.module /\ u.functions = t.functions /\ u.classes = t.classes
               /\ u.current_class = t.current_class /\ (u.ok <=> t.ok)
<1>1. Append(t.ins, ins) \in Seq(Instructions)
  BY DEF Tapes
<1>2. ASSUME NEW all \in Seq(Instructions)
      PROVE  LET u == [t EXCEPT !.ins = all]
             IN  /\ u \in Tapes /\ u.ins = all
                 /\ u.module = t.module /\ u.functions = t.functions /\ u.classes = t.classes
                 /\ u.current_class = t.current_class /\ (u.ok <=> t.ok)
  BY DEF Tapes
<1> QED BY <1>1, <1>2 DEF tape_add

LEMMA StartModuleFunction ==
    ASSUME NEW t \in Tapes, t.current_class = 0,
           NEW name \in Identifiers, NEW index \in Nat, NEW is_async \in BOOLEAN
    PROVE  LET u == tape_start_func_at_index(t, name, index, is_async)
           IN  /\ u \in Tapes
               /\ u.functions = Append(t.functions, FunctionRef(name, index, is_async))
               /\ u.module = t.module /\ u.ins = t.ins /\ u.classes = t.classes
               /\ u.current_class = 0
               /\ u.ok <=> t.ok /\ ~Named(t.functions, name)
<1> DEFINE ref == FunctionRef(name, index, is_async)
<1>1. ref \in FunctionRefs
  BY FunctionRefFacts
<1>2. tape_start_func_at_index(t, name, index, is_async)
        = [t EXCEPT !.functions = Append(t.functions, ref),
                    !.ok = t.ok /\ ~Named(t.functions, name)]
  BY DEF tape_start_func_at_index, Tapes
<1>3. Append(t.functions, ref) \in Seq(FunctionRefs)
  BY <1>1 DEF Tapes
<1>4. ASSUME NEW fs \in Seq(FunctionRefs), NEW ok \in BOOLEAN
      PROVE  LET u == [t EXCEPT !.functions = fs, !.ok = ok]
             IN  /\ u \in Tapes /\ u.functions = fs
                 /\ u.module = t.module /\ u.ins = t.ins /\ u.classes = t.classes
                 /\ u.current_class = 0 /\ u.ok = ok
  BY DEF Tapes
<1> QED BY <1>2, <1>3, <1>4, ZenonT(40) DEF Tapes, Named

LEMMA StartMethod ==
    ASSUME NEW t \in Tapes, t.current_class \in DOMAIN t.classes,
           NEW name \in Identifiers, NEW index \in Nat, NEW is_async \in BOOLEAN
    PROVE  LET c == t.current_class
               methods == t.classes[c].functions
               cref == SetFunctions(t.classes[c],
                                    Append(methods, FunctionRef(name, index, is_async)))
               u == tape_start_func_at_index(t, name, index, is_async)
           IN  /\ Keeps(u, t) /\ Replaced(u, t, c, cref) /\ u.current_class = c
               /\ u.ok <=> t.ok /\ ~Named(methods, name)
<1> DEFINE c == t.current_class
           methods == t.classes[c].functions
           ref == FunctionRef(name, index, is_async)
           cref == SetFunctions(t.classes[c], Append(methods, ref))
           ok == t.ok /\ ~Named(methods, name)
<1>1. t.classes[c] \in ClassRefs /\ c # 0 /\ c \in Nat /\ ok \in BOOLEAN
  BY DEF Tapes, Named
<1>2. Append(methods, ref) \in Seq(FunctionRefs)
  BY <1>1, FunctionRefFacts DEF ClassRefs
<1>3. cref \in ClassRefs
  BY <1>1, <1>2, WithFunctions
<1>4. tape_start_func_at_index(t, name, index, is_async)
        = Update(t, [t.classes EXCEPT ![c] = cref], c, ok)
  BY <1>1 DEF tape_start_func_at_index, Tapes, Update, SetFunctions
<1> HIDE DEF ok, cref, c
<1>5. c \in DOMAIN t.classes
  BY DEF c
<1>6. LET u == Update(t, [t.classes EXCEPT ![c] = cref], c, ok)
      IN  Keeps(u, t) /\ Replaced(u, t, c, cref) /\ u.current_class = c /\ u.ok = ok
  BY <1>1, <1>3, <1>5, ReplaceClass
<1> USE DEF ok, cref, c
<1> QED BY <1>4, <1>6, Zenon

LEMMA StartClassFacts ==
    ASSUME NEW t \in Tapes, NEW name \in Identifiers, NEW index \in Nat
    PROVE  LET cref == _classref_init(name, index)
               u == tape_start_class_at_index(t, name, index)
           IN  /\ Keeps(u, t)
               /\ cref \in ClassRefs /\ u.classes = Append(t.classes, cref)
               /\ u.current_class = Len(t.classes) + 1
               /\ u.ok <=> t.ok /\ ~Named(t.classes, name)
<1> DEFINE cref == _classref_init(name, index)
           classes == Append(t.classes, cref)
           ok == t.ok /\ ~Named(t.classes, name)
<1>1. cref \in ClassRefs
  BY DEF _classref_init, ClassRefs
<1>2. classes \in Seq(ClassRefs) /\ Len(t.classes) + 1 \in Nat /\ ok \in BOOLEAN
  BY <1>1 DEF Tapes, Named
<1>3. tape_start_class_at_index(t, name, index)
        = Update(t, classes, Len(t.classes) + 1, ok)
  BY DEF tape_start_class_at_index, Update
<1> HIDE DEF classes, ok
<1>4. LET u == Update(t, classes, Len(t.classes) + 1, ok)
      IN  /\ Keeps(u, t) /\ u.classes = classes /\ u.current_class = Len(t.classes) + 1
          /\ u.ok = ok
  BY <1>2, WithClasses DEF Keeps
<1> USE DEF classes, ok
<1> QED BY <1>1, <1>3, <1>4

LEMMA EndClassFacts ==
    ASSUME NEW t \in Tapes, t.current_class \in DOMAIN t.classes, NEW index \in Nat
    PROVE  LET c == t.current_class
               cref == SetEnd(t.classes[c], index)
               u == tape_end_class_at_index(t, index)
           IN  /\ Keeps(u, t) /\ Replaced(u, t, c, cref) /\ u.current_class = 0
               /\ u.ok <=> t.ok
<1> DEFINE c == t.current_class
           cref == SetEnd(t.classes[c], index)
<1>1. t.classes[c] \in ClassRefs /\ c # 0 /\ t.ok \in BOOLEAN
  BY DEF Tapes
<1>2. cref \in ClassRefs
  BY <1>1, WithEnd
<1>3. tape_end_class_at_index(t, index)
        = Update(t, [t.classes EXCEPT ![c] = cref], 0, t.ok)
  BY <1>1 DEF tape_end_class_at_index, Tapes, Update, SetEnd
<1> HIDE DEF cref, c
<1>4. c \in DOMAIN t.classes
  BY DEF c
<1>5. LET u == Update(t, [t.classes EXCEPT ![c] = cref], 0, t.ok)
      IN  Keeps(u, t) /\ Replaced(u, t, c, cref) /\ u.current_class = 0 /\ (u.ok <=> t.ok)
  BY <1>1, <1>2, <1>4, ReplaceClass
<1> USE DEF cref, c
<1> QED BY <1>3, <1>5

LEMMA FieldFacts ==
    ASSUME NEW t \in Tapes, t.current_class \in DOMAIN t.classes, NEW field \in Identifiers
    PROVE  LET c == t.current_class
               fields == t.classes[c].fields
               cref == SetFields(t.classes[c], Append(fields, field))
               u == tape_field(t, field)
           IN  /\ Keeps(u, t) /\ Replaced(u, t, c, cref) /\ u.current_class = c
               /\ u.ok <=> t.ok /\ field \notin ToSet(fields)
<1> DEFINE c == t.current_class
           fields == t.classes[c].fields
           cref == SetFields(t.classes[c], Append(fields, field))
           ok == t.ok /\ field \notin ToSet(fields)
<1>1. t.classes[c] \in ClassRefs /\ c # 0 /\ c \in Nat /\ ok \in BOOLEAN
  BY DEF Tapes
<1>2. Append(fields, field) \in Seq(Identifiers)
  BY <1>1 DEF ClassRefs
<1>3. cref \in ClassRefs
  BY <1>1, <1>2, WithFields
<1>4. tape_field(t, field)
        = Update(t, [t.classes EXCEPT ![c] = cref], c, ok)
  BY <1>1 DEF tape_field, Tapes, Update, SetFields
<1> HIDE DEF ok, cref, c
<1>5. c \in DOMAIN t.classes
  BY DEF c
<1>6. LET u == Update(t, [t.classes EXCEPT ![c] = cref], c, ok)
      IN  Keeps(u, t) /\ Replaced(u, t, c, cref) /\ u.current_class = c /\ u.ok = ok
  BY <1>1, <1>3, <1>5, ReplaceClass
<1> USE DEF ok, cref, c
<1> QED BY <1>4, <1>6, Zenon
-----------------------------------------------------------------------------
(* Rows of labels.                                                          *)

LEMMA RisingAppend ==
    ASSUME NEW refs \in Seq(FunctionRefs), NEW r \in FunctionRefs,
           Rising(refs), \A f \in DOMAIN refs : refs[f].index <= r.index
    PROVE  Rising(Append(refs, r))
  BY AppendProperties DEF Rising

LEMMA OnceNamedAppend ==
    ASSUME NEW S, NEW refs \in Seq(S), NEW r \in S,
           OnceNamed(refs), ~Named(refs, r.name)
    PROVE  OnceNamed(Append(refs, r))
  BY AppendProperties DEF OnceNamed, Named

LEMMA InjectiveAppend ==
    ASSUME NEW fields \in Seq(Identifiers), NEW field \in Identifiers,
           IsInjective(fields), field \notin ToSet(fields)
    PROVE  IsInjective(Append(fields, field))
  BY AppendProperties DEF IsInjective, ToSet

LEMMA TypeFacts ==
    ASSUME NEW t \in Tapes
    PROVE  /\ t.ins \in Seq(Instructions) /\ tape_size(t) \in Nat
           /\ t.functions \in Seq(FunctionRefs) /\ t.classes \in Seq(ClassRefs)
           /\ t.current_class \in Nat /\ t.ok \in BOOLEAN
           /\ \A f \in DOMAIN t.functions :
                 t.functions[f] \in FunctionRefs /\ t.functions[f].index \in Nat
           /\ \A c \in DOMAIN t.classes :
                 /\ t.classes[c] \in ClassRefs
                 /\ t.classes[c].start_index \in Nat /\ t.classes[c].end_index \in Nat
                 /\ t.classes[c].functions \in Seq(FunctionRefs)
                 /\ t.classes[c].fields \in Seq(Identifiers)
                 /\ \A m \in DOMAIN t.classes[c].functions :
                       t.classes[c].functions[m].index \in Nat
<1>1. /\ t.ins \in Seq(Instructions) /\ t.functions \in Seq(FunctionRefs)
      /\ t.classes \in Seq(ClassRefs) /\ t.current_class \in Nat /\ t.ok \in BOOLEAN
  BY DEF Tapes
<1>2. ASSUME NEW S, NEW seq \in Seq(S), NEW k \in DOMAIN seq PROVE seq[k] \in S
  BY LenProperties, ElementOfSeq
<1>3. ASSUME NEW f \in FunctionRefs PROVE f.index \in Nat
  BY DEF FunctionRefs
<1>4. ASSUME NEW c \in ClassRefs
      PROVE  /\ c.start_index \in Nat /\ c.end_index \in Nat
             /\ c.functions \in Seq(FunctionRefs) /\ c.fields \in Seq(Identifiers)
  BY DEF ClassRefs
<1>5. \A f \in DOMAIN t.functions : t.functions[f] \in FunctionRefs
  BY <1>1, <1>2
<1>6. \A c \in DOMAIN t.classes : t.classes[c] \in ClassRefs
  BY <1>1, <1>2
<1>7. \A c \in DOMAIN t.classes : \A m \in DOMAIN t.classes[c].functions :
         t.classes[c].functions[m] \in FunctionRefs
  BY <1>2, <1>4, <1>6
<1>8. Len(t.ins) \in Nat
  BY <1>1, LenProperties
<1> QED BY <1>1, <1>3, <1>4, <1>5, <1>6, <1>7, <1>8

-----------------------------------------------------------------------------
(* Each call leaves a tape well-formed.                                     *)

Sound(t) == InOrder(t) /\ NamedOnce(t)

LEMMA AddSound ==
    ASSUME NEW t \in Tapes, NEW ins \in Instructions, Sound(t)
    PROVE  Sound(tape_add(t, ins))
<1> DEFINE u == tape_add(t, ins)
<1>1. /\ u \in Tapes /\ u.functions = t.functions /\ u.classes = t.classes
      /\ u.current_class = t.current_class /\ tape_size(u) = tape_size(t) + 1
  BY AddFacts, TypeFacts
<1> HIDE DEF u
<1>2. NamedOnce(u)
  BY <1>1 DEF Sound, NamedOnce
<1>3. \A c \in DOMAIN t.classes : EndOf(u, c) = IF c = t.current_class THEN tape_size(t) + 1
                                                ELSE EndOf(t, c)
  BY <1>1 DEF EndOf
<1>4. ASSUME NEW c \in DOMAIN t.classes PROVE ClassInOrder(u, c)
  BY <1>1, <1>3, TypeFacts, SMTT(30) DEF Sound, InOrder, ClassInOrder, EndOf
<1>5. ASSUME NEW c \in DOMAIN t.classes, NEW d \in DOMAIN t.classes, c < d
      PROVE  EndOf(u, c) <= t.classes[d].start_index
  BY <1>3, <1>5, TypeFacts DEF Sound, InOrder
<1>6. InOrder(u)
  BY <1>1, <1>4, <1>5, TypeFacts DEF Sound, InOrder
<1> QED BY <1>2, <1>6 DEF Sound, u

LEMMA ModuleFunctionSound ==
    ASSUME NEW t \in Tapes, Sound(t), t.current_class = 0,
           NEW name \in Identifiers, NEW is_async \in BOOLEAN, ~Named(t.functions, name)
    PROVE  Sound(tape_start_func_at_index(t, name, tape_size(t), is_async))
<1> DEFINE u == tape_start_func_at_index(t, name, tape_size(t), is_async)
           ref == FunctionRef(name, tape_size(t), is_async)
<1>0. /\ ref \in FunctionRefs /\ ref.name = name /\ ref.index = tape_size(t)
      /\ tape_size(t) \in Nat
  BY FunctionRefFacts, TypeFacts
<1>1. /\ u \in Tapes /\ u.functions = Append(t.functions, ref) /\ u.classes = t.classes
      /\ u.current_class = 0 /\ u.ins = t.ins
  BY <1>0, StartModuleFunction, SMTT(30)
<1> HIDE DEF u, ref
<1>2. Rising(u.functions) /\ OnceNamed(u.functions)
  BY <1>0, <1>1, TypeFacts, RisingAppend, OnceNamedAppend DEF Sound, InOrder, NamedOnce
<1>3. \A f \in DOMAIN u.functions : u.functions[f].index <= tape_size(u)
  BY <1>0, <1>1, TypeFacts, AppendProperties DEF Sound, InOrder
<1>4. \A c \in DOMAIN t.classes : EndOf(u, c) = EndOf(t, c)
  BY <1>1 DEF EndOf
<1>5. InOrder(u)
  BY <1>1, <1>2, <1>3, <1>4 DEF Sound, InOrder, ClassInOrder
<1>6. NamedOnce(u)
  BY <1>1, <1>2 DEF Sound, NamedOnce
<1> QED BY <1>5, <1>6 DEF Sound, u

\* One class of a tape is another: that the tape is sound depends on that class.
LEMMA ReplacedSound ==
    ASSUME NEW t \in Tapes, Sound(t), NEW u \in Tapes, NEW c \in DOMAIN t.classes,
           NEW cref, Replaced(u, t, c, cref), u.ins = t.ins, u.functions = t.functions,
           t.current_class = c, u.current_class \in {0, c}, EndOf(u, c) = EndOf(t, c),
           cref.name = t.classes[c].name, cref.start_index = t.classes[c].start_index,
           Rising(cref.functions), OnceNamed(cref.functions), IsInjective(cref.fields),
           \A m \in DOMAIN cref.functions :
               cref.functions[m].index \in cref.start_index .. EndOf(t, c)
    PROVE  Sound(u)
<1>1. c = Len(t.classes) /\ DOMAIN u.classes = DOMAIN t.classes /\ Len(u.classes) = c
  BY TypeFacts DEF Sound, InOrder, Replaced
<1>2. \A d \in DOMAIN t.classes : EndOf(u, d) = EndOf(t, d)
  BY DEF EndOf, Replaced
<1>3. \A d \in DOMAIN t.classes : ClassInOrder(u, d)
  BY <1>2 DEF Sound, InOrder, ClassInOrder, Replaced
<1>4. \A d \in DOMAIN t.classes : u.classes[d].start_index = t.classes[d].start_index
                                 /\ u.classes[d].name = t.classes[d].name
  BY DEF Replaced
<1>5. InOrder(u)
  BY <1>1, <1>2, <1>3, <1>4 DEF Sound, InOrder
<1>6. NamedOnce(u)
  BY <1>1, <1>4 DEF Sound, NamedOnce, OnceNamed, Replaced
<1> QED BY <1>5, <1>6 DEF Sound

LEMMA MethodSound ==
    ASSUME NEW t \in Tapes, Sound(t), t.current_class \in DOMAIN t.classes,
           NEW name \in Identifiers, NEW is_async \in BOOLEAN,
           ~Named(t.classes[t.current_class].functions, name)
    PROVE  Sound(tape_start_func_at_index(t, name, tape_size(t), is_async))
<1>1. PICK c : c = t.current_class
  OBVIOUS
<1>2. PICK old : old = t.classes[c]
  OBVIOUS
<1>3. PICK ref : ref = FunctionRef(name, tape_size(t), is_async)
  OBVIOUS
<1>4. PICK cref : cref = SetFunctions(old, Append(old.functions, ref))
  OBVIOUS
<1>5. PICK u : u = tape_start_func_at_index(t, name, tape_size(t), is_async)
  OBVIOUS
<1>6. /\ ref \in FunctionRefs /\ ref.name = name /\ ref.index = tape_size(t)
      /\ tape_size(t) \in Nat /\ c \in DOMAIN t.classes /\ old \in ClassRefs
      /\ old.functions \in Seq(FunctionRefs)
  BY <1>1, <1>2, <1>3, FunctionRefFacts, TypeFacts
<1>7. Keeps(u, t) /\ Replaced(u, t, c, cref) /\ u.current_class = c
  BY <1>1, <1>2, <1>3, <1>4, <1>5, <1>6, StartMethod
<1>8. Append(old.functions, ref) \in Seq(FunctionRefs)
  BY <1>6, AppendProperties
<1>9. /\ cref.functions = Append(old.functions, ref) /\ cref.name = old.name
      /\ cref.start_index = old.start_index /\ cref.fields = old.fields
  BY <1>4, <1>6, <1>8, WithFunctions
<1>10. /\ Rising(old.functions) /\ OnceNamed(old.functions) /\ IsInjective(old.fields)
       /\ \A m \in DOMAIN old.functions :
             old.functions[m].index \in old.start_index .. EndOf(t, c)
       /\ EndOf(t, c) = tape_size(t) /\ old.start_index <= tape_size(t)
       /\ old.start_index \in Nat
  BY <1>1, <1>2, <1>6, TypeFacts DEF Sound, InOrder, ClassInOrder, NamedOnce, EndOf
<1>11. Rising(cref.functions)
  BY <1>6, <1>9, <1>10, RisingAppend
<1>12. OnceNamed(cref.functions)
  BY <1>1, <1>2, <1>6, <1>9, <1>10, OnceNamedAppend
<1>13. \A m \in DOMAIN cref.functions :
           cref.functions[m].index \in cref.start_index .. EndOf(t, c)
  BY <1>6, <1>9, <1>10, AppendProperties
<1>14. u.ins = t.ins /\ EndOf(u, c) = EndOf(t, c) /\ u \in Tapes /\ u.functions = t.functions
  BY <1>1, <1>7 DEF Keeps, EndOf
<1>15. Sound(u)
  BY <1>1, <1>2, <1>6, <1>7, <1>9, <1>10, <1>11, <1>12, <1>13, <1>14, ReplacedSound
<1> QED BY <1>5, <1>15

LEMMA FieldSound ==
    ASSUME NEW t \in Tapes, Sound(t), t.current_class \in DOMAIN t.classes,
           NEW field \in Identifiers,
           field \notin ToSet(t.classes[t.current_class].fields)
    PROVE  Sound(tape_field(t, field))
<1>1. PICK c : c = t.current_class
  OBVIOUS
<1>2. PICK old : old = t.classes[c]
  OBVIOUS
<1>3. PICK cref : cref = SetFields(old, Append(old.fields, field))
  OBVIOUS
<1>4. PICK u : u = tape_field(t, field)
  OBVIOUS
<1>5. c \in DOMAIN t.classes /\ old \in ClassRefs /\ old.fields \in Seq(Identifiers)
  BY <1>1, <1>2, TypeFacts
<1>6. Keeps(u, t) /\ Replaced(u, t, c, cref) /\ u.current_class = c
  BY <1>1, <1>2, <1>3, <1>4, FieldFacts
<1>7. Append(old.fields, field) \in Seq(Identifiers)
  BY <1>5, AppendProperties
<1>8. /\ cref.fields = Append(old.fields, field) /\ cref.name = old.name
      /\ cref.start_index = old.start_index /\ cref.functions = old.functions
  BY <1>3, <1>5, <1>7, WithFields
<1>9. /\ Rising(old.functions) /\ OnceNamed(old.functions) /\ IsInjective(old.fields)
      /\ \A m \in DOMAIN old.functions :
            old.functions[m].index \in old.start_index .. EndOf(t, c)
  BY <1>2, <1>5 DEF Sound, InOrder, ClassInOrder, NamedOnce
<1>10. IsInjective(cref.fields)
  BY <1>1, <1>2, <1>5, <1>8, <1>9, InjectiveAppend
<1>11. u.ins = t.ins /\ EndOf(u, c) = EndOf(t, c) /\ u \in Tapes /\ u.functions = t.functions
  BY <1>1, <1>6 DEF Keeps, EndOf
<1>12. Sound(u)
  BY <1>1, <1>2, <1>5, <1>6, <1>8, <1>9, <1>10, <1>11, ReplacedSound
<1> QED BY <1>4, <1>12

LEMMA EndClassSound ==
    ASSUME NEW t \in Tapes, Sound(t), t.current_class \in DOMAIN t.classes
    PROVE  Sound(tape_end_class(t))
<1>1. PICK c : c = t.current_class
  OBVIOUS
<1>2. PICK old : old = t.classes[c]
  OBVIOUS
<1>3. PICK cref : cref = SetEnd(old, tape_size(t))
  OBVIOUS
<1>4. PICK u : u = tape_end_class(t)
  OBVIOUS
<1>5. c \in DOMAIN t.classes /\ old \in ClassRefs /\ tape_size(t) \in Nat /\ c # 0
  BY <1>1, <1>2, TypeFacts
<1>6. Keeps(u, t) /\ Replaced(u, t, c, cref) /\ u.current_class = 0
  BY <1>1, <1>2, <1>3, <1>4, <1>5, EndClassFacts DEF tape_end_class
<1>7. /\ cref.end_index = tape_size(t) /\ cref.name = old.name /\ cref.fields = old.fields
      /\ cref.start_index = old.start_index /\ cref.functions = old.functions
  BY <1>3, <1>5, WithEnd
<1>8. /\ Rising(old.functions) /\ OnceNamed(old.functions) /\ IsInjective(old.fields)
      /\ \A m \in DOMAIN old.functions :
            old.functions[m].index \in old.start_index .. EndOf(t, c)
  BY <1>2, <1>5 DEF Sound, InOrder, ClassInOrder, NamedOnce
<1>9. u.classes[c] = cref
  BY <1>6 DEF Replaced
<1>10. u.ins = t.ins /\ EndOf(u, c) = EndOf(t, c) /\ u \in Tapes /\ u.functions = t.functions
  BY <1>1, <1>5, <1>6, <1>7, <1>9 DEF Keeps, EndOf
<1>11. Sound(u)
  BY <1>1, <1>2, <1>5, <1>6, <1>7, <1>8, <1>10, ReplacedSound
<1> QED BY <1>4, <1>11

LEMMA StartClassSound ==
    ASSUME NEW t \in Tapes, Sound(t), t.current_class = 0,
           NEW name \in Identifiers, ~Named(t.classes, name)
    PROVE  Sound(tape_start_class(t, name))
<1>1. PICK cref : cref = _classref_init(name, tape_size(t))
  OBVIOUS
<1>2. PICK u : u = tape_start_class(t, name)
  OBVIOUS
<1>3. PICK k : k = Len(t.classes) + 1
  OBVIOUS
<1>4. /\ tape_size(t) \in Nat /\ t.classes \in Seq(ClassRefs)
      /\ Len(t.classes) \in Nat /\ DOMAIN t.classes = 1 .. Len(t.classes)
  BY TypeFacts, LenProperties
<1>5. /\ Keeps(u, t) /\ cref \in ClassRefs /\ u.classes = Append(t.classes, cref)
      /\ u.current_class = k
  BY <1>1, <1>2, <1>3, <1>4, StartClassFacts DEF tape_start_class
<1>6. /\ cref.name = name /\ cref.start_index = tape_size(t)
      /\ cref.functions = <<>> /\ cref.fields = <<>>
  BY <1>1 DEF _classref_init
<1>7. /\ Len(u.classes) = k /\ DOMAIN u.classes = DOMAIN t.classes \cup {k}
      /\ u.classes[k] = cref
      /\ \A d \in DOMAIN t.classes : u.classes[d] = t.classes[d] /\ d < k
  BY <1>3, <1>4, <1>5, AppendProperties
<1>8. u.ins = t.ins /\ u.functions = t.functions /\ u \in Tapes
  BY <1>5 DEF Keeps
<1>9. /\ EndOf(u, k) = tape_size(t)
      /\ \A d \in DOMAIN t.classes : EndOf(u, d) = EndOf(t, d) /\ EndOf(t, d) <= tape_size(t)
  BY <1>4, <1>5, <1>7, <1>8 DEF EndOf, Sound, InOrder, ClassInOrder
<1>10. ClassInOrder(u, k)
  BY <1>4, <1>6, <1>7, <1>8, <1>9 DEF ClassInOrder, Rising
<1>11. ASSUME NEW d \in DOMAIN t.classes PROVE ClassInOrder(u, d)
  BY <1>7, <1>8, <1>9 DEF Sound, InOrder, ClassInOrder
<1>12. ASSUME NEW d \in DOMAIN u.classes, NEW e \in DOMAIN u.classes, d < e
       PROVE  EndOf(u, d) <= u.classes[e].start_index
  <2>1. d \in DOMAIN t.classes
    BY <1>3, <1>4, <1>7, <1>12
  <2>2. CASE e = k
    BY <1>6, <1>7, <1>9, <2>1, <2>2
  <2>3. CASE e # k
    BY <1>7, <1>9, <1>12, <2>1, <2>3 DEF Sound, InOrder
  <2> QED BY <2>2, <2>3
<1>13. InOrder(u)
  BY <1>5, <1>7, <1>8, <1>10, <1>11, <1>12 DEF Sound, InOrder
<1>14. OnceNamed(u.classes)
  BY <1>4, <1>5, <1>6, OnceNamedAppend DEF Sound, NamedOnce
<1>15. NamedOnce(u)
  BY <1>6, <1>7, <1>8, <1>14 DEF Sound, NamedOnce, OnceNamed, IsInjective
<1> QED BY <1>2, <1>13, <1>15 DEF Sound

\* The code of one instruction, with the label of a function behind it.
Statement(ins, name, is_async) ==
    [tape_create EXCEPT !.ins = <<ins>>, !.functions = <<FunctionRef(name, 1, is_async)>>]

LEMMA AppendFacts ==
    ASSUME NEW t \in Tapes, NEW ins \in Instructions,
           NEW name \in Identifiers, NEW is_async \in BOOLEAN
    PROVE  LET u == tape_append(t, Statement(ins, name, is_async))
               ref == FunctionRef(name, tape_size(t) + 1, is_async)
           IN  /\ u \in Tapes
               /\ u.classes = t.classes /\ u.current_class = t.current_class
               /\ u.module = t.module /\ (u.ok <=> t.ok)
               /\ u.ins = Append(t.ins, ins) /\ u.functions = Append(t.functions, ref)
<1>1. PICK ref : ref = FunctionRef(name, tape_size(t) + 1, is_async)
  OBVIOUS
<1>2. PICK u : u = tape_append(t, Statement(ins, name, is_async))
  OBVIOUS
<1>3. /\ tape_size(t) \in Nat /\ t.ins \in Seq(Instructions)
      /\ t.functions \in Seq(FunctionRefs)
  BY TypeFacts
<1>4. ref \in FunctionRefs
  BY <1>1, <1>3, FunctionRefFacts
<1>5. /\ Statement(ins, name, is_async).ins = <<ins>>
      /\ Statement(ins, name, is_async).functions = <<FunctionRef(name, 1, is_async)>>
  BY DEF Statement, tape_create
<1>6. [FunctionRef(name, 1, is_async) EXCEPT !.index = @ + tape_size(t)] = ref
  BY <1>1, <1>3 DEF FunctionRef
<1>7. LET fs == <<FunctionRef(name, 1, is_async)>>
      IN  [k \in 1 .. Len(fs) |-> [fs[k] EXCEPT !.index = @ + tape_size(t)]] = <<ref>>
  BY <1>6
<1>8. t.ins \o <<ins>> = Append(t.ins, ins) /\ t.functions \o <<ref>> = Append(t.functions, ref)
  BY <1>3, <1>4, AppendIsConcat
<1>9. u = [t EXCEPT !.ins = Append(t.ins, ins), !.functions = Append(t.functions, ref)]
  BY <1>2, <1>5, <1>7, <1>8 DEF tape_append
<1>10. ASSUME NEW all \in Seq(Instructions), NEW fs \in Seq(FunctionRefs)
       PROVE  LET v == [t EXCEPT !.ins = all, !.functions = fs]
              IN  /\ v \in Tapes /\ v.ins = all /\ v.functions = fs
                  /\ v.classes = t.classes /\ v.current_class = t.current_class
                  /\ v.module = t.module /\ (v.ok <=> t.ok)
  BY DEF Tapes
<1>11. Append(t.ins, ins) \in Seq(Instructions) /\ Append(t.functions, ref) \in Seq(FunctionRefs)
  BY <1>3, <1>4, AppendProperties
<1>12. /\ u \in Tapes /\ u.ins = Append(t.ins, ins) /\ u.functions = Append(t.functions, ref)
       /\ u.classes = t.classes /\ u.current_class = t.current_class
       /\ u.module = t.module /\ (u.ok <=> t.ok)
  BY <1>9, <1>10, <1>11
<1> QED BY <1>1, <1>2, <1>12 DEF Keeps

LEMMA AppendSound ==
    ASSUME NEW t \in Tapes, Sound(t), NEW ins \in Instructions,
           NEW name \in Identifiers, NEW is_async \in BOOLEAN, ~Named(t.functions, name)
    PROVE  Sound(tape_append(t, Statement(ins, name, is_async)))
<1>1. PICK ref : ref = FunctionRef(name, tape_size(t) + 1, is_async)
  OBVIOUS
<1>2. PICK u : u = tape_append(t, Statement(ins, name, is_async))
  OBVIOUS
<1>3. /\ tape_size(t) \in Nat /\ t.ins \in Seq(Instructions)
      /\ t.functions \in Seq(FunctionRefs)
      /\ ref \in FunctionRefs /\ ref.name = name /\ ref.index = tape_size(t) + 1
  BY <1>1, TypeFacts, FunctionRefFacts
<1>4. /\ u \in Tapes /\ u.ins = Append(t.ins, ins) /\ u.functions = Append(t.functions, ref)
      /\ u.classes = t.classes /\ u.current_class = t.current_class
  BY <1>1, <1>2, AppendFacts
<1>5. tape_size(u) = tape_size(t) + 1
  BY <1>3, <1>4, AppendProperties
<1>6. \A f \in DOMAIN t.functions : t.functions[f].index <= tape_size(t)
                                   /\ t.functions[f].index \in Nat
  BY TypeFacts DEF Sound, InOrder
<1>7. Rising(u.functions) /\ OnceNamed(u.functions)
  BY <1>3, <1>4, <1>6, RisingAppend, OnceNamedAppend DEF Sound, InOrder, NamedOnce
<1>8. \A f \in DOMAIN u.functions : u.functions[f].index <= tape_size(u)
  BY <1>3, <1>4, <1>5, <1>6, AppendProperties
<1>9. NamedOnce(u)
  BY <1>4, <1>7 DEF Sound, NamedOnce
<1>10. \A c \in DOMAIN t.classes : EndOf(u, c) = IF c = t.current_class THEN tape_size(t) + 1
                                                 ELSE EndOf(t, c)
  BY <1>4, <1>5 DEF EndOf
<1>11. ASSUME NEW c \in DOMAIN t.classes PROVE ClassInOrder(u, c)
  <2>1. /\ ClassInOrder(t, c) /\ u.classes[c] = t.classes[c]
        /\ t.classes[c].start_index \in Nat /\ EndOf(t, c) \in Nat
        /\ \A m \in DOMAIN t.classes[c].functions : t.classes[c].functions[m].index \in Nat
    BY <1>3, <1>4, TypeFacts DEF Sound, InOrder, EndOf
  <2>2. EndOf(u, c) \in {EndOf(t, c), tape_size(t) + 1}
    BY <1>10
  <2> QED BY <1>3, <1>5, <2>1, <2>2 DEF ClassInOrder
<1>12. ASSUME NEW c \in DOMAIN t.classes, NEW d \in DOMAIN t.classes, c < d
       PROVE  EndOf(u, c) <= t.classes[d].start_index
  <2>1. c # t.current_class
    BY <1>12, TypeFacts, LenProperties DEF Sound, InOrder
  <2> QED BY <1>10, <1>12, <2>1 DEF Sound, InOrder
<1>13. InOrder(u)
  BY <1>4, <1>7, <1>8, <1>11, <1>12 DEF Sound, InOrder
<1> QED BY <1>2, <1>9, <1>13 DEF Sound

LEMMA ModuleFacts ==
    ASSUME NEW t \in Tapes, NEW name \in Identifiers \cup {"$", UNSET}
    PROVE  LET u == tape_module(t, name)
           IN  /\ u \in Tapes /\ u.module = name /\ u.ins = t.ins
               /\ u.functions = t.functions /\ u.classes = t.classes
               /\ u.current_class = t.current_class /\ (u.ok <=> t.ok)
  BY DEF tape_module, Tapes

LEMMA CreateFacts ==
    /\ tape_create \in Tapes /\ tape_create.module = UNSET /\ tape_create.ins = <<>>
    /\ tape_create.functions = <<>> /\ tape_create.classes = <<>>
    /\ tape_create.current_class = 0 /\ tape_create.ok
  BY DEF tape_create, Tapes

LEMMA CreateSound ==
    ASSUME NEW u \in Tapes, u.ins = <<>>, u.functions = <<>>, u.classes = <<>>,
           u.current_class = 0
    PROVE  Sound(u)
  BY DEF Sound, InOrder, NamedOnce, Rising, OnceNamed

-----------------------------------------------------------------------------
(* The invariant of the tape that is built.                                 *)

\* A call that fails leaves a tape that is not used.
TapeInv ==
    /\ TypeOK
    /\ tape.ok => Sound(tape)

LEMMA InitTape == Init => TapeInv
<1> SUFFICES ASSUME Init PROVE TapeInv
  OBVIOUS
<1>1. tape = tape_create /\ stage = "build" /\ i = 0 /\ j = 0
  BY DEF Init
<1>2. tape \in Tapes /\ Sound(tape)
  BY <1>1, CreateFacts, CreateSound
<1> QED BY <1>1, <1>2 DEF TapeInv, TypeOK, Stages

\* What a call returns, and that it is sound if the call does not fail.
Good(u) == u \in Tapes /\ (u.ok => Sound(u))

LEMMA OpenClass ==
    ASSUME NEW t \in Tapes, Sound(t), t.current_class # 0
    PROVE  t.current_class \in DOMAIN t.classes
  BY TypeFacts, LenProperties DEF Sound, InOrder

\* Without an open class these calls fail, and nothing else changes.
LEMMA NoClass ==
    ASSUME NEW t \in Tapes, t.current_class = 0
    PROVE  /\ \A field \in Identifiers :
                  tape_field(t, field) \in Tapes /\ ~tape_field(t, field).ok
           /\ tape_end_class(t) \in Tapes /\ ~tape_end_class(t).ok
<1>1. [t EXCEPT !.ok = FALSE] \in Tapes /\ ~[t EXCEPT !.ok = FALSE].ok
  BY DEF Tapes
<1> QED BY <1>1 DEF tape_field, tape_end_class, tape_end_class_at_index

LEMMA BuildGood ==
    ASSUME NEW t \in Tapes, t.ok, Sound(t)
    PROVE  /\ \A ins \in Instructions : Good(tape_add(t, ins))
           /\ \A name \in Identifiers : Good(tape_field(t, name))
           /\ Good(tape_end_class(t))
           /\ t.current_class = 0 =>
                 \A name \in Identifiers : Good(tape_start_class(t, name))
           /\ \A name \in Identifiers, is_async \in BOOLEAN :
                 Good(_tape_start_func(t, name, is_async))
           /\ \A ins \in Instructions, name \in Identifiers, is_async \in BOOLEAN :
                 ~Named(t.functions, name) =>
                     Good(tape_append(t, Statement(ins, name, is_async)))
<1>0. tape_size(t) \in Nat
  BY TypeFacts
<1>1. ASSUME NEW ins \in Instructions PROVE Good(tape_add(t, ins))
  BY AddFacts, AddSound DEF Good
<1>2. ASSUME NEW name \in Identifiers, NEW is_async \in BOOLEAN
      PROVE  Good(_tape_start_func(t, name, is_async))
  <2>1. CASE t.current_class = 0
    BY <1>0, <2>1, StartModuleFunction, ModuleFunctionSound DEF Good, _tape_start_func
  <2>2. CASE t.current_class # 0
    BY <1>0, <2>2, OpenClass, StartMethod, MethodSound DEF Good, Keeps, _tape_start_func
  <2> QED BY <2>1, <2>2
<1>3. ASSUME t.current_class = 0, NEW name \in Identifiers
      PROVE  Good(tape_start_class(t, name))
  BY <1>0, <1>3, StartClassFacts, StartClassSound DEF Good, Keeps, tape_start_class
<1>4. ASSUME NEW name \in Identifiers PROVE Good(tape_field(t, name))
  <2>1. CASE t.current_class = 0
    BY <2>1, NoClass DEF Good
  <2>2. CASE t.current_class # 0
    BY <2>2, OpenClass, FieldFacts, FieldSound DEF Good, Keeps
  <2> QED BY <2>1, <2>2
<1>5. Good(tape_end_class(t))
  <2>1. CASE t.current_class = 0
    BY <2>1, NoClass DEF Good
  <2>2. CASE t.current_class # 0
    BY <1>0, <2>2, OpenClass, EndClassFacts, EndClassSound DEF Good, Keeps, tape_end_class
  <2> QED BY <2>1, <2>2
<1>6. ASSUME NEW ins \in Instructions, NEW name \in Identifiers, NEW is_async \in BOOLEAN,
             ~Named(t.functions, name)
      PROVE  Good(tape_append(t, Statement(ins, name, is_async)))
  BY <1>6, AppendFacts, AppendSound DEF Good
<1> QED BY <1>1, <1>2, <1>3, <1>4, <1>5, <1>6

LEMMA BuildStep ==
    ASSUME TapeInv, NEW t, Good(t), Building(t)
    PROVE  TapeInv'
<1>1. tape' = t /\ i' \in Nat /\ UNCHANGED <<stage, j>>
  BY DEF Building, TapeInv, TypeOK
<1> QED BY <1>1 DEF TapeInv, TypeOK, Good

\* The loops leave the tape alone.
LEMMA LoopStep ==
    ASSUME TapeInv, UNCHANGED tape, stage' \in Stages, i' \in Nat, j' \in Nat
    PROVE  TapeInv'
  BY DEF TapeInv, TypeOK

LEMMA NextTape == TapeInv /\ [Next]_vars => TapeInv'
<1> SUFFICES ASSUME TapeInv, [Next]_vars PROVE TapeInv'
  OBVIOUS
<1> USE DEF Stages
<1>0. tape \in Tapes /\ stage \in Stages /\ i \in Nat /\ j \in Nat /\ (tape.ok => Sound(tape))
  BY DEF TapeInv, TypeOK
<1>1. CASE NameModule
  <2>1. PICK name \in Identifiers \cup {"$"} :
            tape = tape_create /\ Building(tape_module(tape, name))
    BY <1>1 DEF NameModule
  <2>2. Good(tape_module(tape, name))
    BY <2>1, ModuleFacts, CreateFacts, CreateSound DEF Good
  <2> QED BY <2>1, <2>2, BuildStep
<1>2. CASE AddInstruction
  <2>1. PICK ins \in Instructions : Building(tape_add(tape, ins))
    BY <1>2 DEF AddInstruction
  <2>2. Good(tape_add(tape, ins))
    BY <1>0, <2>1, AddFacts, AddSound DEF Good, Building
  <2> QED BY <2>1, <2>2, BuildStep
<1>3. CASE StartFunction
  <2>1. PICK name \in Identifiers, is_async \in BOOLEAN :
            Building(_tape_start_func(tape, name, is_async))
    BY <1>3 DEF StartFunction
  <2> QED BY <1>0, <2>1, BuildGood, BuildStep DEF Building
<1>4. CASE StartClass
  <2>1. PICK name \in Identifiers :
            tape.current_class = 0 /\ Building(tape_start_class(tape, name))
    BY <1>4 DEF StartClass
  <2> QED BY <1>0, <2>1, BuildGood, BuildStep DEF Building
<1>5. CASE AddField
  <2>1. PICK name \in Identifiers :
            Building(tape_field(tape, name))
    BY <1>5 DEF AddField
  <2> QED BY <1>0, <2>1, BuildGood, BuildStep DEF Building
<1>6. CASE EndClass
  BY <1>0, <1>6, BuildGood, BuildStep DEF EndClass, Building
<1>7. CASE AppendStatement
  <2>1. PICK ins \in Instructions, name \in Identifiers, is_async \in BOOLEAN :
            /\ ~Named(tape.functions, name)
            /\ Building(tape_append(tape, Statement(ins, name, is_async)))
    BY <1>7 DEF AppendStatement, Statement
  <2> QED BY <1>0, <2>1, BuildGood, BuildStep DEF Building
<1>8. CASE StartText
  BY <1>0, <1>8, LoopStep DEF StartText
<1>9. CASE WriteIndex
  BY <1>0, <1>9, LoopStep DEF WriteIndex
<1>10. CASE StartReading
  BY <1>0, <1>10, LoopStep DEF StartReading
<1>11. CASE ReadNext
  BY <1>0, <1>11, LoopStep DEF ReadNext
<1>12. CASE EndText
  BY <1>0, <1>12, LoopStep DEF EndText
<1>13. CASE StartBytecode
  BY <1>0, <1>13, LoopStep DEF StartBytecode, Goto
<1>14. CASE InternClass
  BY <1>0, <1>14, LoopStep DEF InternClass
<1>15. CASE InternFunction
  BY <1>0, <1>15, LoopStep DEF InternFunction
<1>16. CASE InternInstruction
  BY <1>0, <1>16, LoopStep DEF InternInstruction
<1>17. CASE EndIntern
  BY <1>0, <1>17, LoopStep DEF EndIntern, Goto
<1>18. CASE WriteBytecode
  BY <1>0, <1>18, LoopStep DEF WriteBytecode, Goto
<1>19. CASE ReadFunction
  BY <1>0, <1>19, LoopStep DEF ReadFunction, Reading
<1>20. CASE StartReadClass
  BY <1>0, <1>20, LoopStep DEF StartReadClass, Reading
<1>21. CASE ReadMethod
  BY <1>0, <1>21, LoopStep DEF ReadMethod, Reading
<1>22. CASE EndReadClass
  BY <1>0, <1>22, LoopStep DEF EndReadClass, Reading
<1>23. CASE ReadInstruction
  BY <1>0, <1>23, LoopStep DEF ReadInstruction, Reading
<1>24. CASE EndRead
  BY <1>0, <1>24, LoopStep DEF EndRead, Goto, Reading
<1>25. CASE UNCHANGED vars
  BY <1>0, <1>25, LoopStep DEF vars
<1> QED BY <1>1, <1>2, <1>3, <1>4, <1>5, <1>6, <1>7, <1>8, <1>9, <1>10, <1>11, <1>12, <1>13, <1>14, <1>15, <1>16, <1>17, <1>18, <1>19, <1>20, <1>21, <1>22, <1>23, <1>24, <1>25 DEF Next

\* Whatever a tape is built with and whatever file it is in, the loops of the
\* writers and the readers work on a tape, with counters of its parts.
THEOREM TapeTypes == Spec => []TypeOK
<1> DEFINE Inv == TapeInv
<1>1. Inv => TypeOK
  BY DEF TapeInv
<1> QED BY <1>1, InitTape, NextTape, PTL DEF Spec

\* A tape that is built without an error is well-formed: labels are in the order
\* of the code, classes do not overlap, and each name is used once.
THEOREM TapesWellFormed == Spec => []WellFormed
<1>1. TapeInv => WellFormed
  BY DEF TapeInv, WellFormed, Sound
<1> QED BY <1>1, InitTape, NextTape, PTL DEF Spec
=============================================================================
