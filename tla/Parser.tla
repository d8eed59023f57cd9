-------------------------------- MODULE Parser --------------------------------
(***************************************************************************)
(* The parser of lang/parser/parser.c: ordered choice over a queue of      *)
(* tokens, with the tokens of an abandoned alternative pushed back.  The   *)
(* grammar is data, one field per production, and Match runs it.  A token  *)
(* is a type, a name and a number.  Only TLC uses this module: Match       *)
(* recurs over the grammar.                                                *)
(***************************************************************************)
EXTENDS Integers, Sequences, SequencesExt, TLC

Token(t, id, n) == [t |-> t, id |-> id, n |-> n]

-----------------------------------------------------------------------------
(* Syntax trees: a leaf has a token, an inner node two trees below it.      *)
(* exp is the production that made the tree, "" as long as none has.        *)

SyntaxTree(token, kids) == [exp |-> "", token |-> token, kids |-> kids]
match_epsilon == SyntaxTree(<<>>, <<>>)
_is_epsilon(tree) == tree.token = <<>> /\ tree.kids = <<>>
_is_newline(tree) == tree.token # <<>> /\ tree.token[1].t = "ENDLINE"

\* Mutant: the left part of a tree is pushed back after the right part.
RECURSIVE RollbackBackwards(_, _)
RollbackBackwards(tree, q) ==
    tree.token \o
    (IF tree.kids = <<>> THEN q
     ELSE RollbackBackwards(tree.kids[2], RollbackBackwards(tree.kids[1], q)))

\* Pushes the tokens of a tree back to the front of the queue, the last one
\* first.
RECURSIVE _match_rollback(_, _)
_match_rollback(tree, q) ==
    tree.token \o
    (IF tree.kids = <<>> THEN q
     ELSE _match_rollback(tree.kids[1], _match_rollback(tree.kids[2], q)))

\* Newlines do not survive in a tree with anything else, and are not pushed
\* back with it.
_match_merge(parent, child) ==
    CASE _is_epsilon(child) -> parent
      [] _is_epsilon(parent) -> child
      [] _is_newline(child) -> parent
      [] _is_newline(parent) -> child
      [] OTHER -> SyntaxTree(<<>>, <<parent, child>>)

-----------------------------------------------------------------------------
(* The combinators.                                                         *)

Type(t) == [c |-> "type", t |-> t]
Rule(name) == [c |-> "rule", name |-> name]
Or(alternatives) == [c |-> "or", of |-> alternatives]
And(parts) == [c |-> "and", of |-> parts]
Opt(g) == [c |-> "opt", of |-> g]
Epsilon == [c |-> "epsilon"]
Ln(g) == And(<<g, Opt(Type("ENDLINE"))>>)
TypeLn(t) == Ln(Type(t))

\* Shapes that several productions have.
Between(open, g, close) == And(<<TypeLn(open), g, TypeLn(close)>>)
Empty(open, close) == And(<<TypeLn(open), TypeLn(close)>>)
ListTail(g, self) == Or(<<And(<<And(<<TypeLn("COMMA"), g>>), Rule(self)>>), Epsilon>>)
Suffix(types, self) ==
    Or([i \in 1 .. Len(types) |-> And(<<Type(types[i]), Rule(self)>>)] \o <<Epsilon>>)

-----------------------------------------------------------------------------
(* The grammar.                                                             *)

primary_expressions ==
    [identifier |-> Or(<<Type("WORD"), Type("CLASS"), Type("MODULE_T"),
                         Type("ASYNC"), Type("THEN")>>),
     new_expression |-> Type("NEW"),
     constant |-> Or(<<Type("INTEGER"), Type("FLOATING")>>),
     string_literal |-> Type("STR"),
     array_declaration |->
        Or(<<And(<<Type("LBRAC"), Type("RBRAC")>>),
             And(<<Type("LBRAC"), Rule("tuple_expression"), Type("RBRAC")>>)>>),
     map_declaration_entry |->
        And(<<Rule("postfix_expression"), TypeLn("COLON"),
              Ln(Rule("postfix_expression"))>>),
     map_declaration_entry1 |->
        ListTail(Ln(Rule("map_declaration_entry")), "map_declaration_entry1"),
     map_declaration_list |->
        And(<<Rule("map_declaration_entry"), Rule("map_declaration_entry1")>>),
     map_declaration |->
        Or(<<Empty("LBRCE", "RBRCE"),
             Between("LBRCE", Ln(Rule("map_declaration_list")), "RBRCE")>>),
     length_expression |->
        And(<<Type("PIPE"), Rule("tuple_expression"), Type("PIPE")>>),
     primary_expression |->
        Or(<<Rule("anon_function_definition"), Rule("identifier"),
             Rule("new_expression"), Rule("constant"), Rule("string_literal"),
             Rule("array_declaration"), Rule("map_declaration"),
             Rule("length_expression"),
             And(<<Type("LPAREN"), Rule("tuple_expression"), Type("RPAREN")>>)>>),
     primary_expression_no_constants |->
        Or(<<Rule("anon_function_definition"), Rule("identifier"),
             Rule("string_literal"), Rule("array_declaration"),
             Rule("map_declaration"),
             And(<<Type("LPAREN"), Rule("tuple_expression"), Type("RPAREN")>>)>>),
     postfix_expression1 |->
        Or(<<And(<<Type("LBRAC"), Rule("tuple_expression"), Type("RBRAC"),
                   Rule("postfix_expression1")>>),
             And(<<TypeLn("LPAREN"), TypeLn("RPAREN"), Rule("postfix_expression1")>>),
             And(<<TypeLn("LPAREN"), Rule("tuple_expression"), TypeLn("RPAREN"),
                   Rule("postfix_expression1")>>),
             And(<<Opt(Type("ENDLINE")), Type("PERIOD"),
                   Or(<<Rule("identifier"), Rule("new_expression")>>),
                   Rule("postfix_expression1")>>),
             Epsilon>>),
     postfix_expression |->
        Or(<<And(<<Rule("primary_expression_no_constants"),
                   Rule("postfix_expression1")>>),
             Rule("primary_expression")>>),
     range_expression |->
        And(<<Rule("postfix_expression"),
              Opt(And(<<Type("COLON"), Rule("postfix_expression"),
                        Opt(And(<<Type("COLON"), Rule("postfix_expression")>>))>>))>>)]

\* From the tightest to the loosest: each is made of the one above it.
operator_expressions ==
    [unary_expression |->
        Or([i \in 1 .. 5 |->
              And(<<Type(<<"TILDE", "EXCLAIM", "MINUS", "CONST_T", "AWAIT">>[i]),
                    Rule("unary_expression")>>)] \o <<Rule("range_expression")>>),
     binary_and_expression1 |-> Suffix(<<"AMPER">>, "binary_and_expression"),
     binary_and_expression |->
        And(<<Rule("unary_expression"), Rule("binary_and_expression1")>>),
     binary_xor_expression1 |-> Suffix(<<"CARET">>, "binary_xor_expression"),
     binary_xor_expression |->
        And(<<Rule("binary_and_expression"), Rule("binary_xor_expression1")>>),
     binary_or_expression1 |-> Suffix(<<"PIPE">>, "binary_or_expression"),
     binary_or_expression |->
        And(<<Rule("binary_xor_expression"), Rule("binary_or_expression1")>>),
     multiplicative_expression1 |->
        Suffix(<<"STAR", "FSLASH", "PERCENT">>, "multiplicative_expression"),
     multiplicative_expression |->
        And(<<Rule("binary_or_expression"), Rule("multiplicative_expression1")>>),
     additive_expression1 |-> Suffix(<<"PLUS", "MINUS">>, "additive_expression"),
     additive_expression |->
        And(<<Rule("multiplicative_expression"), Rule("additive_expression1")>>),
     in_expression1 |->
        Or(<<And(<<Or(<<Type("IN"), Type("NOTIN")>>), Rule("additive_expression"),
                   Rule("in_expression1")>>),
             Epsilon>>),
     in_expression |-> And(<<Rule("additive_expression"), Rule("in_expression1")>>),
     relational_expression1 |->
        Suffix(<<"LTHAN", "GTHAN", "LTHANEQ", "GTHANEQ">>, "relational_expression"),
     relational_expression |->
        And(<<Rule("in_expression"), Rule("relational_expression1")>>),
     equality_expression1 |-> Suffix(<<"EQUIV", "NEQUIV">>, "equality_expression"),
     equality_expression |->
        And(<<Rule("relational_expression"), Rule("equality_expression1")>>),
     and_expression1 |-> Suffix(<<"AND_T">>, "and_expression"),
     and_expression |-> And(<<Rule("equality_expression"), Rule("and_expression1")>>),
     or_expression1 |-> Suffix(<<"OR_T">>, "or_expression"),
     or_expression |-> And(<<Rule("and_expression"), Rule("or_expression1")>>),
     is_expression |->
        Or(<<And(<<Rule("or_expression"), TypeLn("IS_T"), Rule("or_expression")>>),
             Rule("or_expression")>>),
     conditional_expression |->
        Or(<<And(<<TypeLn("IF_T"), Ln(Rule("is_expression")), Opt(TypeLn("THEN")),
                   Ln(Rule("conditional_expression")), TypeLn("ELSE"),
                   Rule("conditional_expression")>>),
             And(<<TypeLn("IF_T"), Ln(Rule("is_expression")), Opt(TypeLn("THEN")),
                   Rule("conditional_expression")>>),
             Rule("is_expression")>>)]

assignment_expressions ==
    [const_assignment_expression |-> And(<<TypeLn("CONST_T"), Rule("identifier")>>),
     array_index_assignment |-> Between("LBRAC", Rule("tuple_expression"), "RBRAC"),
     function_call_args |->
        Or(<<Empty("LPAREN", "RPAREN"),
             Between("LPAREN", Rule("tuple_expression"), "RPAREN")>>),
     field_extension |->
        Or(<<Rule("array_index_assignment"), Rule("function_call_args"), Epsilon>>),
     field_set_value |-> And(<<Type("PERIOD"), Rule("identifier")>>),
     field_suffix |-> Or(<<Rule("field_set_value"), Rule("array_index_assignment")>>),
     field_next |-> And(<<Rule("field_suffix"), Rule("field_expression1")>>),
     field_expression1 |->
        Or(<<And(<<Rule("field_extension"), Rule("field_next")>>),
             Rule("field_next"), Epsilon>>),
     field_expression |-> And(<<Rule("identifier"), Rule("field_expression1")>>),
     assignment_lhs_single |->
        Or(<<Rule("const_assignment_expression"), Rule("field_expression")>>),
     assignment_tuple_list1 |->
        ListTail(Rule("assignment_lhs"), "assignment_tuple_list1"),
     assignment_tuple_list |->
        And(<<Rule("assignment_lhs"), Rule("assignment_tuple_list1")>>),
     assignment_tuple |-> Between("LPAREN", Rule("assignment_tuple_list"), "RPAREN"),
     assignment_array |-> Between("LBRAC", Rule("assignment_tuple_list"), "RBRAC"),
     assignment_lhs |->
        Or(<<Rule("assignment_tuple"), Rule("assignment_array"),
             Rule("assignment_lhs_single")>>),
     assignment_expression |->
        Or(<<And(<<Rule("assignment_lhs"), TypeLn("EQUALS"),
                   Rule("conditional_expression")>>),
             Rule("conditional_expression")>>),
     tuple_expression1 |->
        Or(<<And(<<TypeLn("COMMA"), Rule("assignment_expression"),
                   Rule("tuple_expression1")>>),
             Epsilon>>),
     tuple_expression |->
        And(<<Rule("assignment_expression"), Rule("tuple_expression1")>>),
     expression_statement |-> Ln(Rule("tuple_expression"))]

\* The heads of the two for statements, with or without parentheses.
foreach_head ==
    And(<<Rule("assignment_lhs"), TypeLn("IN"), Rule("conditional_expression")>>)
for_head ==
    And(<<Rule("assignment_expression"), TypeLn("COMMA"),
          Rule("conditional_expression"), TypeLn("COMMA"),
          Ln(Rule("assignment_expression"))>>)
for_with(head) ==
    And(<<And(<<TypeLn("FOR"), Or(<<Between("LPAREN", head, "RPAREN"), head>>)>>),
          Rule("statement")>>)
try_part ==
    And(<<TypeLn("TRY"), Ln(Rule("statement")),
          And(<<TypeLn("CATCH"), Rule("catch_assign")>>)>>)

statement_forms ==
    [foreach_statement |-> for_with(foreach_head),
     for_statement |-> for_with(for_head),
     while_statement |->
        And(<<And(<<TypeLn("WHILE"), Ln(Rule("conditional_expression"))>>),
              Rule("statement")>>),
     iteration_statement |->
        Or(<<Rule("while_statement"), Rule("foreach_statement"),
             Rule("for_statement")>>),
     compound_statement |->
        Or(<<Empty("LBRCE", "RBRCE"),
             Between("LBRCE", Ln(Rule("statement_list")), "RBRCE")>>),
     selection_statement |->
        And(<<Type("IF_T"), Ln(Rule("tuple_expression")), Ln(Rule("statement")),
              Opt(And(<<TypeLn("ELSE"), Rule("statement")>>))>>),
     exit_statement |-> TypeLn("EXIT_T"),
     raise_statement |->
        And(<<TypeLn("RAISE"), Ln(Rule("assignment_expression"))>>),
     catch_assign |->
        Or(<<Between("LPAREN", Rule("assignment_lhs"), "RPAREN"),
             Rule("assignment_lhs")>>),
     try_statement |->
        Or(<<And(<<try_part, Ln(Rule("statement"))>>),
             And(<<try_part, Ln(Rule("statement"))>>)>>),
     jump_statement |->
        Or(<<And(<<Type("RETURN"), TypeLn("LPAREN"), Rule("tuple_expression"),
                   TypeLn("RPAREN")>>),
             And(<<Type("RETURN"), Rule("tuple_expression")>>),
             Type("RETURN")>>),
     break_statement |->
        And(<<Or(<<Type("BREAK"), Type("CONTINUE")>>), Type("ENDLINE")>>),
     statement |->
        Or(<<Rule("exit_statement"), Rule("raise_statement"),
             Rule("try_statement"), Rule("selection_statement"),
             Rule("compound_statement"), Rule("iteration_statement"),
             Rule("jump_statement"), Rule("break_statement"),
             Rule("expression_statement")>>),
     statement_list1 |->
        Or(<<And(<<Rule("statement"), Rule("statement_list1")>>), Epsilon>>),
     statement_list |-> And(<<Rule("statement"), Rule("statement_list1")>>)]

function_definitions ==
    [function_arg_default_value |->
        And(<<TypeLn("EQUALS"), Rule("conditional_expression")>>),
     function_arg_elt_with_default |->
        And(<<Rule("identifier"), Rule("function_arg_default_value")>>),
     function_arg_elt |->
        Or(<<Rule("function_arg_elt_with_default"), Rule("identifier")>>),
     const_function_argument |->
        And(<<TypeLn("CONST_T"), Rule("function_arg_elt")>>),
     function_argument |->
        Or(<<Rule("const_function_argument"), Rule("function_arg_elt")>>),
     function_argument_list1 |->
        ListTail(Rule("function_argument"), "function_argument_list1"),
     function_argument_list |->
        And(<<Rule("function_argument"), Rule("function_argument_list1")>>),
     function_arguments_present |->
        Between("LPAREN", Rule("function_argument_list"), "RPAREN"),
     function_arguments_no_args |-> Empty("LPAREN", "RPAREN"),
     function_arguments |->
        Or(<<Rule("function_arguments_present"),
             Rule("function_arguments_no_args")>>),
     def_identifier |-> And(<<Type("DEF"), Rule("identifier")>>),
     function_signature_no_qualifier |->
        And(<<Rule("def_identifier"), Rule("function_arguments")>>),
     function_qualifier |-> Or(<<TypeLn("ASYNC"), TypeLn("CONST_T")>>),
     function_qualifier_list1 |->
        Or(<<And(<<Rule("function_qualifier"), Rule("function_qualifier_list1")>>),
             Epsilon>>),
     function_qualifier_list |->
        And(<<Rule("function_qualifier"), Rule("function_qualifier_list1")>>),
     function_signature_with_qualifier |->
        And(<<Rule("function_signature_no_qualifier"),
              Rule("function_qualifier_list")>>),
     function_signature |->
        Or(<<Rule("function_signature_with_qualifier"),
             Rule("function_signature_no_qualifier")>>),
     function_definition |-> And(<<Rule("function_signature"), Rule("statement")>>),
     anon_signature_no_qualifier |-> Rule("function_arguments"),
     anon_signature_with_qualifier |->
        And(<<Rule("anon_signature_no_qualifier"), Rule("function_qualifier_list")>>),
     anon_signature |->
        Or(<<Rule("anon_signature_with_qualifier"),
             Rule("anon_signature_no_qualifier")>>),
     anon_function_lambda_lhs |-> Or(<<Rule("anon_signature"), Rule("identifier")>>),
     anon_function_lambda_rhs |->
        And(<<TypeLn("RARROW"), Rule("assignment_expression")>>),
     anon_function_definition |->
        Or(<<And(<<Rule("anon_function_lambda_lhs"),
                   Rule("anon_function_lambda_rhs")>>),
             And(<<Rule("anon_signature"), Rule("compound_statement")>>)>>)]

method_definitions ==
    [method_identifier |->
        And(<<Type("METHOD"),
              Or(<<Rule("identifier"), Type("EQUIV"), Type("NEQUIV"),
                   And(<<Type("LBRAC"), Type("RBRAC"), Type("EQUALS")>>),
                   And(<<Type("LBRAC"), Type("RBRAC")>>)>>)>>),
     method_signature_no_qualifier |->
        And(<<Rule("method_identifier"), Rule("function_arguments")>>),
     method_signature_with_qualifier |->
        And(<<Rule("method_signature_no_qualifier"),
              Rule("function_qualifier_list")>>),
     method_signature |->
        Or(<<Rule("method_signature_with_qualifier"),
             Rule("method_signature_no_qualifier")>>),
     method_definition |-> And(<<Rule("method_signature"), Rule("statement")>>),
     new_arg_var |-> Or(<<Rule("new_field_arg"), Rule("identifier")>>),
     new_field_arg |-> And(<<TypeLn("FIELD"), Rule("identifier")>>),
     new_arg_default_value |->
        And(<<TypeLn("EQUALS"), Rule("conditional_expression")>>),
     new_arg_elt_with_default |->
        And(<<Rule("new_arg_var"), Rule("new_arg_default_value")>>),
     new_arg_elt |-> Or(<<Rule("new_arg_elt_with_default"), Rule("new_arg_var")>>),
     const_new_argument |-> And(<<TypeLn("CONST_T"), Rule("new_arg_elt")>>),
     new_argument |-> Or(<<Rule("const_new_argument"), Rule("new_arg_elt")>>),
     new_argument_list1 |-> ListTail(Rule("new_argument"), "new_argument_list1"),
     new_argument_list |->
        And(<<Rule("new_argument"), Rule("new_argument_list1")>>),
     new_arguments_present |->
        Between("LPAREN", Rule("new_argument_list"), "RPAREN"),
     new_arguments_no_args |-> Empty("LPAREN", "RPAREN"),
     new_arguments |->
        Or(<<Rule("new_arguments_present"), Rule("new_arguments_no_args")>>),
     new_identifier |-> Rule("new_expression"),
     new_signature_nonconst |->
        And(<<Rule("new_identifier"), Rule("new_arguments")>>),
     new_signature_const |->
        And(<<Rule("new_signature_nonconst"), TypeLn("CONST_T")>>),
     new_signature |->
        Or(<<Rule("new_signature_const"), Rule("new_signature_nonconst")>>),
     new_definition |-> And(<<Rule("new_signature"), Rule("statement")>>)]

class_definitions ==
    [identifier_list1 |-> ListTail(Rule("identifier"), "identifier_list1"),
     identifier_list |-> And(<<Rule("identifier"), Rule("identifier_list1")>>),
     field_statement |-> And(<<TypeLn("FIELD"), Rule("identifier_list")>>),
     class_statement |->
        Ln(Or(<<Rule("new_definition"), Rule("field_statement"),
                Rule("method_definition")>>)),
     class_statement_list1 |->
        Or(<<And(<<Ln(Rule("class_statement")), Rule("class_statement_list1")>>),
             Epsilon>>),
     class_statement_list |->
        And(<<Ln(Rule("class_statement")), Rule("class_statement_list1")>>),
     parent_class_list1 |->
        ListTail(Ln(Rule("identifier")), "parent_class_list1"),
     parent_class_list |->
        And(<<Ln(Rule("identifier")), Rule("parent_class_list1")>>),
     parent_classes |-> And(<<TypeLn("COLON"), Rule("parent_class_list")>>),
     class_compound_statement |->
        Or(<<Empty("LBRCE", "RBRCE"),
             Between("LBRCE", Ln(Rule("class_statement_list")), "RBRCE")>>),
     class_name_and_inheritance |->
        And(<<Ln(Rule("identifier")), Opt(Rule("parent_classes"))>>),
     class_definition_no_annotation |->
        And(<<And(<<Type("CLASS"), Rule("class_name_and_inheritance")>>),
              Or(<<Rule("class_compound_statement"),
                   Ln(Rule("class_statement"))>>)>>),
     annotation_not_called |->
        Or(<<And(<<Rule("identifier"), Type("PERIOD"), Rule("identifier")>>),
             Rule("identifier")>>),
     annotation_no_arguments |->
        And(<<Rule("annotation_not_called"), Type("LPAREN"), Type("RPAREN")>>),
     annotation_with_arguments |->
        And(<<Rule("annotation_not_called"), Type("LPAREN"),
              Rule("tuple_expression"), Type("RPAREN")>>),
     annotation |->
        And(<<Type("AT"),
              Or(<<Rule("annotation_with_arguments"),
                   Rule("annotation_no_arguments"),
                   Rule("annotation_not_called")>>)>>),
     class_definition_with_annotation |->
        And(<<Ln(Rule("annotation")), Rule("class_definition_no_annotation")>>),
     class_definition |->
        Or(<<Rule("class_definition_with_annotation"),
             Rule("class_definition_no_annotation")>>)]

file_level_statements ==
    [import_statement |->
        Or(<<And(<<Type("IMPORT"), Rule("identifier"), Type("AS"),
                   Rule("identifier"), Type("ENDLINE")>>),
             And(<<Type("IMPORT"), Rule("identifier"), Type("ENDLINE")>>)>>),
     module_statement |->
        And(<<Type("MODULE_T"), Rule("identifier"), Type("ENDLINE")>>),
     file_level_statement |->
        Or(<<Rule("module_statement"), Rule("import_statement"),
             Rule("class_definition"), Rule("function_definition"),
             Rule("statement")>>),
     file_level_statement_list1 |->
        Or(<<And(<<Rule("file_level_statement"),
                   Rule("file_level_statement_list1")>>),
             Epsilon>>),
     file_level_statement_list |->
        And(<<Rule("file_level_statement"), Rule("file_level_statement_list1")>>)]

Grammar ==
    primary_expressions @@ operator_expressions @@ assignment_expressions
      @@ statement_forms @@ function_definitions @@ method_definitions
      @@ class_definitions @@ file_level_statements

-----------------------------------------------------------------------------
(* The tokens a parsing function can begin with, and "" if it can match     *)
(* nothing.  One that cannot begin with the token at the front returns      *)
(* without having touched the queue, so a choice passes it over.            *)

RECURSIVE BeginningsOf(_, _, _)
BeginningsOf(g, grammar, known) ==
    CASE g.c = "type" -> {g.t}
      [] g.c = "epsilon" -> {""}
      [] g.c = "opt" -> BeginningsOf(g.of, grammar, known) \cup {""}
      [] g.c = "rule" -> IF g.name \in DOMAIN known THEN known[g.name]
                         ELSE BeginningsOf(grammar[g.name], grammar, known)
      [] g.c = "or" -> UNION {BeginningsOf(g.of[i], grammar, known) : i \in DOMAIN g.of}
      [] g.c = "and" ->
            LET first == BeginningsOf(g.of[1], grammar, known)
            IN  IF "" \in first /\ Len(g.of) > 1
                THEN (first \ {""}) \cup BeginningsOf(And(Tail(g.of)), grammar, known)
                ELSE first

\* TLC evaluates a function once when it is the result of @@.
Beginnings ==
    [name \in DOMAIN Grammar |-> BeginningsOf(Rule(name), Grammar, <<>>)] @@ <<>>

CanBegin(g, p) ==
    LET first == BeginningsOf(g, p.grammar, p.beginnings)
    IN  "" \in first \/ (p.q # <<>> /\ Head(p.q).t \in first)

-----------------------------------------------------------------------------
(* Running the grammar, one call or return of a parsing function at a time. *)
(* The state of the parser p is the queue q of the lexer, the functions     *)
(* that were called, the last one on top, and the function to call next or  *)
(* what the last one returned.  A frame is a function, the alternative or   *)
(* part it is at, and the trees it has so far.  The grammar goes with the   *)
(* state.                                                                   *)

ToCall(g) == [c |-> "call", g |-> g]
Return(ok, tree) == [c |-> "return", ok |-> ok, tree |-> tree]
_no_match == Return(FALSE, match_epsilon)
Frame(g, k, trees) == [g |-> g, k |-> k, trees |-> trees]

Top(p) == p.frames[Len(p.frames)]
Enter(p, frame, g) ==
    [p EXCEPT !.frames = Append(@, frame), !.todo = ToCall(g)]
Leave(p, result) == [p EXCEPT !.frames = Front(@), !.todo = result]

\* A token of the type that is wanted is taken from the queue.
Type_fn(p) ==
    IF p.q # <<>> /\ Head(p.q).t = p.todo.g.t
    THEN [p EXCEPT !.q = Tail(@), !.todo = Return(TRUE, SyntaxTree(<<Head(p.q)>>, <<>>))]
    ELSE [p EXCEPT !.todo = _no_match]

\* Goes on with the alternatives of g after the k-th.
Or_fn(p, g, k) ==
    LET rest == {i \in k + 1 .. Len(g.of) : CanBegin(g.of[i], p)}
        next == CHOOSE i \in rest : \A j \in rest : i <= j
    IN  IF rest = {} THEN [p EXCEPT !.todo = _no_match]
                     ELSE Enter(p, Frame(g, next, <<>>), g.of[next])

CallStep(p) ==
    LET g == p.todo.g
    IN  CASE g.c = "type" -> Type_fn(p)
          [] g.c = "epsilon" -> [p EXCEPT !.todo = Return(TRUE, match_epsilon)]
          [] g.c = "opt" -> IF CanBegin(g.of, p)
                            THEN Enter(p, Frame(g, 1, <<>>), g.of)
                            ELSE [p EXCEPT !.todo = Return(TRUE, match_epsilon)]
          [] g.c = "rule" -> Enter(p, Frame(g, 1, <<>>), p.grammar[g.name])
          [] g.c = "or" -> Or_fn(p, g, 0)
          [] g.c = "and" -> Enter(p, Frame(g, 1, <<>>), g.of[1])

\* The parts one after the other.  When one does not match, the trees of those
\* before it are pushed back.  And(a, b, c) merges a with what b and c merged
\* to.
And_fn(p, top, result) ==
    LET trees == Append(top.trees, result.tree)
    IN  IF ~result.ok
        THEN [Leave(p, _no_match) EXCEPT
                 !.q = FoldRight(_match_rollback, top.trees, @)]
        ELSE IF top.k < Len(top.g.of)
        THEN Enter([p EXCEPT !.frames = Front(@)],
                   Frame(top.g, top.k + 1, trees), top.g.of[top.k + 1])
        ELSE Leave(p, Return(TRUE, FoldRight(_match_merge, Front(trees), Last(trees))))

\* The name of a tree is that of the innermost production that returned it;
\* what an abandoned alternative did to the queue stays.
ReturnStep(p) ==
    LET top == Top(p)
        result == p.todo
    IN  CASE top.g.c = "rule" ->
                Leave(p, IF result.tree.exp = ""
                         THEN [result EXCEPT !.tree.exp = top.g.name] ELSE result)
          [] top.g.c = "opt" ->
                Leave(p, IF result.ok THEN result ELSE Return(TRUE, match_epsilon))
          [] top.g.c = "or" ->
                IF result.ok THEN Leave(p, result)
                             ELSE Or_fn(Leave(p, result), top.g, top.k)
          [] top.g.c = "and" -> And_fn(p, top, result)

Returned(p) == p.todo.c = "return" /\ p.frames = <<>>

\* At most 2^n steps; TLC recurs n deep.
RECURSIVE Steps(_, _)
Steps(p, n) ==
    IF n = 0 THEN IF p.todo.c = "call" THEN CallStep(p) ELSE ReturnStep(p)
    ELSE LET half == Steps(p, n - 1)
         IN  IF Returned(half) THEN half ELSE Steps(half, n - 1)

MaxSteps == 20

\* The tree of a file, and the tokens nobody took: any are an error.
parse_file(tokens) ==
    Steps([q |-> tokens, frames |-> <<>>,
           todo |-> ToCall(Rule("file_level_statement_list")),
           grammar |-> Grammar, beginnings |-> Beginnings], MaxSteps)
=============================================================================
