------------------------------- MODULE Populate -------------------------------
(***************************************************************************)
(* The populators of lang/semantics: from the syntax tree of the parser to *)
(* the tree that the producers of Codegen take.  They know the shape of a  *)
(* syntax tree by the production that made it and by the tokens in it.     *)
(* Where the code calls ERROR, fails an ASSERT or dereferences NULL the    *)
(* result is an error node.  Only TLC uses this module: the populators     *)
(* recur over the tree.                                                    *)
(***************************************************************************)
EXTENDS Integers, Sequences, SequencesExt, Codegen

ErrorNode == Node("error", "", 0, <<>>)
NULL == [exp |-> "NULL", token |-> <<>>, kids |-> <<>>]

first(s) == IF s.kids = <<>> THEN NULL ELSE s.kids[1]
second(s) == IF s.kids = <<>> THEN NULL ELSE s.kids[2]
IS_LEAF(s) == s.token # <<>>
IS_TOKEN(s, t) == IS_LEAF(s) /\ s.token[1].t = t
IS_SYNTAX(s, exp) == s.exp = exp
Text(s) == IF IS_LEAF(s) THEN s.token[1].id ELSE "NULL"

RECURSIVE populate_expression(_), populate_assignment(_)

\* The right-nested list that a production and its "1" production make:
\* an element, and a rest that is either another list or the last element.
RECURSIVE RightList(_, _)
RightList(s, rest) ==
    IF IS_SYNTAX(s, rest) THEN <<first(s)>> \o RightList(second(s), rest) ELSE <<s>>

\* A list with commas: {COMMA, last} or {{COMMA, element}, rest}.
RECURSIVE CommaList(_)
CommaList(s) ==
    IF IS_TOKEN(first(s), "COMMA") THEN <<second(s)>>
    ELSE <<second(first(s))>> \o CommaList(second(s))

populate_each(trees) == [i \in 1 .. Len(trees) |-> populate_expression(trees[i])] \o <<>>

-----------------------------------------------------------------------------
(* Primary and postfix expressions.                                         *)

Populate_identifier(s) == Node("id", s.token[1].id, 0, <<>>)
Populate_constant(s) == Node("const", "", s.token[1].n, <<>>)
Populate_string_literal(s) == Node("string", s.token[1].id, 0, <<>>)

\* {COMMA, last} or {COMMA, {element, rest}}.
RECURSIVE tuple_rest(_)
tuple_rest(tuple1) ==
    LET next == second(tuple1)
    IN  IF IS_LEAF(next) \/ ~IS_SYNTAX(second(next), "tuple_expression1")
        THEN <<next>>
        ELSE <<first(next)>> \o tuple_rest(second(next))

Populate_tuple_expression(s) ==
    Node("tuple", "", 0, populate_each(<<first(s)>> \o tuple_rest(second(s))))

\* The elements of an unparenthesised tuple are those of the array.
Populate_array_declaration(s) ==
    IF IS_LEAF(second(s)) THEN Node("array", "", 0, <<>>)
    ELSE LET exp == populate_expression(first(second(s)))
         IN  Node("array", "", 0, IF exp.k = "tuple" THEN exp.kids ELSE <<exp>>)

Populate_primary_expression(s) ==
    IF IS_TOKEN(first(s), "LPAREN")
    THEN Node("paren", "", 0, <<populate_expression(first(second(s)))>>)
    ELSE ErrorNode

populate_map_dec_entry(s) == populate_each(<<first(s), second(second(s))>>)

RECURSIVE map_entries(_)
map_entries(remaining) ==
    IF IS_SYNTAX(remaining, "map_declaration_entry") THEN <<remaining>>
    ELSE IF IS_TOKEN(first(remaining), "COMMA") THEN map_entries(second(remaining))
    ELSE <<second(first(remaining))>> \o map_entries(second(remaining))

Populate_map_declaration(s) ==
    LET body == first(second(s))
        entries == IF IS_SYNTAX(body, "map_declaration_entry") THEN <<body>>
                   ELSE <<first(body)>> \o map_entries(second(body))
    IN  IF IS_TOKEN(second(s), "RBRCE") THEN Node("map", "", 0, <<>>)
        ELSE Node("map", "", 0,
                  Concat([i \in 1 .. Len(entries) |-> populate_map_dec_entry(entries[i])]))

\* The suffixes of a postfix expression, from left to right.
RECURSIVE postfix_helper(_)

postfix_period(tail) ==
    IF IS_SYNTAX(tail, "identifier") \/ IS_TOKEN(tail, "NEW")
    THEN <<Node("field", Text(tail), 0, <<>>)>>
    ELSE <<Node("field", Text(first(tail)), 0, <<>>)>> \o postfix_helper(second(tail))

\* Mutant: something is expected between the parentheses.
ArgumentExpected(suffix, type, closer) ==
    LET inside == second(suffix)
        args == Node(type, "", 0, <<populate_expression(first(inside))>>)
    IN  IF IS_TOKEN(second(inside), closer) THEN <<args>>
        ELSE <<args>> \o postfix_helper(second(second(inside)))

\* {open, close}, {open, {close, more}}, {open, {e, close}} or
\* {open, {e, {close, more}}}.
postfix_surround_helper(suffix, type, closer) ==
    LET inside == second(suffix)
        args == Node(type, "", 0, <<populate_expression(first(inside))>>)
    IN  IF IS_TOKEN(inside, closer)
        THEN <<Node(type, "", 0, <<>>)>>
        ELSE IF IS_TOKEN(first(inside), closer)
        THEN <<Node(type, "", 0, <<>>)>> \o postfix_helper(second(inside))
        ELSE IF IS_TOKEN(second(inside), closer)
        THEN <<args>>
        ELSE <<args>> \o postfix_helper(second(second(inside)))

postfix_helper(suffix) ==
    CASE IS_TOKEN(first(suffix), "PERIOD") -> postfix_period(second(suffix))
      [] IS_TOKEN(first(suffix), "LPAREN") ->
            postfix_surround_helper(suffix, "call", "RPAREN")
      [] IS_TOKEN(first(suffix), "LBRAC") ->
            postfix_surround_helper(suffix, "index", "RBRAC")
      [] OTHER -> <<ErrorNode>>

\* A field that is followed by a call is a method call.
RECURSIVE WithSuffixes(_, _)
WithSuffixes(prefix, suffixes) ==
    IF suffixes = <<>> THEN prefix
    ELSE IF suffixes[1].k = "field" /\ Len(suffixes) > 1 /\ suffixes[2].k = "call"
    THEN WithSuffixes(Node("method", suffixes[1].id, 0, <<prefix>> \o suffixes[2].kids),
                      From(suffixes, 3))
    ELSE WithSuffixes([suffixes[1] EXCEPT !.kids = <<prefix>> \o @], Tail(suffixes))

Populate_postfix_expression(s) ==
    WithSuffixes(populate_expression(first(s)), postfix_helper(second(s)))

Populate_range_expression(s) ==
    LET after == second(second(s))
        start == first(s)
    IN  Node("range", "", 0,
             populate_each(IF IS_TOKEN(first(second(after)), "COLON")
                           THEN <<start, second(second(after)), first(after)>>
                           ELSE <<start, after>>))

-----------------------------------------------------------------------------
(* Operators.                                                               *)

unary_token_to_type ==
    [TILDE |-> "~", EXCLAIM |-> "!", MINUS |-> "-", CONST_T |-> "const",
     AWAIT |-> "await"]

Populate_unary_expression(s) ==
    Node("unary", unary_token_to_type[first(s).token[1].t], 0,
         <<populate_expression(second(s))>>)

relational_type_for_token ==
    [STAR |-> "MULT", FSLASH |-> "DIV", PERCENT |-> "MOD", PLUS |-> "ADD",
     MINUS |-> "SUB", LTHAN |-> "LT", GTHAN |-> "GT", LTHANEQ |-> "LTE",
     GTHANEQ |-> "GTE", EQUIV |-> "EQ", NEQUIV |-> "NEQ", AND_T |-> "and",
     OR_T |-> "or", AMPER |-> "BAND", CARET |-> "BXOR", PIPE |-> "BOR"]

\* a op b op c is {a, {op, {b, {op, c}}}}: the right operand is of the same
\* production as long as there are more.
RECURSIVE BiSuffixes(_, _)
BiSuffixes(cur_suffix, exp) ==
    LET op == relational_type_for_token[first(cur_suffix).token[1].t]
        second_exp == second(cur_suffix)
    IN  IF IS_SYNTAX(second_exp, exp)
        THEN <<[op |-> op, exp |-> first(second_exp)]>>
               \o BiSuffixes(second(second_exp), exp)
        ELSE <<[op |-> op, exp |-> second_exp]>>

\* The producers apply the operators from left to right; those of `and` and
\* `or` take all operands at once.
BiExpressionPopulate(s) ==
    LET suffixes == BiSuffixes(second(s), s.exp)
        exps == populate_each([i \in 1 .. Len(suffixes) |-> suffixes[i].exp])
        start == populate_expression(first(s))
    IN  IF s.exp \in {"and_expression", "or_expression"}
        THEN Node(suffixes[1].op, "", 0, <<start>> \o exps)
        ELSE FoldLeft(LAMBDA left, i :
                         Node("binary", suffixes[i].op, 0, <<left, exps[i]>>),
                      start, [i \in 1 .. Len(exps) |-> i])

Populate_in_expression(s) ==
    Node("in", IF IS_TOKEN(first(second(s)), "NOTIN") THEN "notin" ELSE "in", 0,
         populate_each(<<first(s), second(second(s))>>))

Populate_is_expression(s) ==
    Node("is", "", 0, populate_each(<<first(s), second(second(s))>>))

\* {IF, {condition, body}} where the body may follow THEN and may be in front
\* of {ELSE, other}.  The code looks for THEN below the body, so a body that
\* is a single token is a NULL dereference.
RECURSIVE if_else_parts(_, _)
if_else_parts(if_tree, exp) ==
    LET rest == second(second(if_tree))
        if_body == IF IS_TOKEN(first(rest), "THEN") THEN second(rest) ELSE rest
        has_else == IS_TOKEN(first(second(if_body)), "ELSE")
        else_body == second(second(if_body))
        cond == populate_expression(first(second(if_tree)))
    IN  IF IS_LEAF(rest) THEN <<ErrorNode>>
        ELSE IF ~has_else THEN <<cond, populate_expression(if_body)>>
        ELSE <<cond, populate_expression(first(if_body))>> \o
             (IF IS_SYNTAX(else_body, exp) THEN if_else_parts(else_body, exp)
                                           ELSE <<populate_expression(else_body)>>)

populate_if_else(s) == Node("if", "", 0, if_else_parts(s, s.exp))

-----------------------------------------------------------------------------
(* Assignments.                                                             *)

populate_single_postfixes(s) ==
    LET inside == second(s)
    IN  CASE IS_SYNTAX(s, "array_index_assignment") ->
                Node("index", "", 0, <<populate_expression(first(inside))>>)
          [] IS_SYNTAX(s, "function_call_args") ->
                Node("call", "", 0, IF IS_TOKEN(inside, "RPAREN") THEN <<>>
                                    ELSE <<populate_expression(first(inside))>>)
          [] IS_SYNTAX(s, "field_set_value") -> Node("field", Text(inside), 0, <<>>)
          [] OTHER -> ErrorNode

RECURSIVE single_suffixes(_)
single_suffixes(cur) ==
    IF cur.exp \in {"field_expression1", "field_next"}
    THEN <<populate_single_postfixes(first(cur))>> \o single_suffixes(second(cur))
    ELSE <<populate_single_postfixes(cur)>>

\* The last suffix is what is set.
populate_single_complex(s) ==
    LET suffixes == single_suffixes(second(s))
        object == WithSuffixes(populate_expression(first(s)), Front(suffixes))
    IN  [Last(suffixes) EXCEPT !.kids = <<object>> \o @]

populate_single(s) ==
    CASE IS_SYNTAX(s, "identifier") -> Node("var", Text(s), 0, <<>>)
      [] IS_SYNTAX(s, "const_assignment_expression") ->
            Node("var", Text(second(s)), 1, <<>>)
      [] IS_SYNTAX(s, "field_expression") -> populate_single_complex(s)

populate_list(s) ==
    LET list == first(second(s))
        elements == IF IS_LEAF(list) \/ ~IS_SYNTAX(second(list), "assignment_tuple_list1")
                    THEN <<list>>
                    ELSE <<first(list)>> \o CommaList(second(list))
    IN  [i \in 1 .. Len(elements) |-> populate_assignment(elements[i])] \o <<>>

populate_assignment(s) ==
    CASE s.exp \in {"identifier", "const_assignment_expression", "field_expression"} ->
            populate_single(s)
      [] s.exp \in {"assignment_tuple", "assignment_array"} ->
            Node("tuple", "", 0, populate_list(s))
      [] OTHER -> ErrorNode

Populate_assignment_expression(s) ==
    Node("assign", "", 0,
         <<populate_assignment(first(s)), populate_expression(second(second(s)))>>)

-----------------------------------------------------------------------------
(* Statements.                                                              *)

Populate_compound_statement(s) ==
    LET list == first(second(s))
    IN  Node("seq", "", 0,
             IF IS_TOKEN(second(s), "RBRCE") THEN <<>>
             ELSE IF ~IS_SYNTAX(list, "statement_list") THEN <<populate_expression(list)>>
             ELSE populate_each(<<first(list)>>
                                  \o RightList(second(list), "statement_list1")))

\* {{TRY, {body, {CATCH, target}}}, handler}.
Populate_try_statement(s) ==
    LET catch == second(second(first(s)))
        target == IF IS_SYNTAX(second(catch), "catch_assign")
                  THEN first(second(second(catch))) ELSE second(catch)
    IN  Node("try", "", 0,
             <<populate_expression(first(second(first(s)))),
               populate_assignment(target), populate_expression(second(s))>>)

Populate_raise_statement(s) ==
    Node("raise", "", 0, <<populate_expression(second(s))>>)

Populate_jump_statement(s) ==
    LET exp == second(s)
        parenthesised == IS_TOKEN(first(exp), "LPAREN")
                           /\ ~IS_SYNTAX(exp, "primary_expression")
    IN  Node("return", "", 0,
             IF IS_TOKEN(s, "RETURN") THEN <<>>
             ELSE <<populate_expression(IF parenthesised THEN first(second(exp))
                                                         ELSE exp)>>)

Populate_break_statement(s) ==
    Node(IF IS_TOKEN(s, "BREAK") THEN "break" ELSE "continue", "", 0, <<>>)

Populate_exit_statement(s) == Node("exit", "", 0, <<>>)

\* {{FOR, inner}, body}; the inner part may be in parentheses.
for_inner(s) ==
    LET inner == second(first(s))
    IN  IF IS_TOKEN(first(inner), "LPAREN") THEN first(second(inner)) ELSE inner

Populate_foreach_statement(s) ==
    LET inner == for_inner(s)
    IN  Node("foreach", "", 0,
             <<populate_assignment(first(inner)),
               populate_expression(second(second(inner))),
               populate_expression(second(s))>>)

Populate_for_statement(s) ==
    LET inner == for_inner(s)
        rest == second(second(inner))
    IN  Node("for", "", 0,
             populate_each(<<first(inner), first(rest), second(second(rest)), second(s)>>))

Populate_while_statement(s) ==
    Node("while", "", 0, populate_each(<<second(first(s)), second(s)>>))

-----------------------------------------------------------------------------
(* Functions.  A node's number says whether a function is async: 1 if it    *)
(* is, 0 if not, 2 if the code never sets it.                               *)

\* Both populate_argument and populate_constructor_argument: the second also
\* takes fields.
populate_argument(s) ==
    LET const == s.exp \in {"const_function_argument", "const_new_argument"}
        elt == IF const THEN second(s) ELSE s
        default == elt.exp \in {"function_arg_elt_with_default",
                                "new_arg_elt_with_default"}
        var == IF default THEN first(elt) ELSE elt
        field == IS_SYNTAX(var, "new_field_arg")
    IN  Node(IF field THEN "field" ELSE "var",
             Text(IF field THEN second(var) ELSE var), IF const THEN 1 ELSE 0,
             IF default THEN <<populate_expression(second(second(elt)))>> ELSE <<>>)

set_function_args(s) ==
    LET args == IF s.exp \in {"function_argument_list", "new_argument_list"}
                THEN <<first(s)>> \o CommaList(second(s)) ELSE <<s>>
    IN  [i \in 1 .. Len(args) |-> populate_argument(args[i])] \o <<>>

\* One or two qualifiers, each made by the production for one.
populate_function_qualifiers(s, default) ==
    LET list == IF IS_SYNTAX(s, "function_qualifier_list")
                THEN <<first(s), second(s)>> ELSE <<s>>
    IN  [ok |-> \A i \in DOMAIN list : IS_SYNTAX(list[i], "function_qualifier"),
         async |-> IF \E i \in DOMAIN list : IS_TOKEN(list[i], "ASYNC")
                   THEN 1 ELSE default]

set_method_def(fn_identifier) ==
    LET fn_name == second(fn_identifier)
    IN  CASE IS_LEAF(fn_name) ->
               (CASE IS_TOKEN(fn_name, "EQUIV") -> "EQ_FN_NAME"
                  [] IS_TOKEN(fn_name, "NEQUIV") -> "NEQ_FN_NAME"
                  [] OTHER -> Text(fn_name))
          [] IS_TOKEN(second(fn_name), "RBRAC") -> "ARRAYLIKE_INDEX_KEY"
          [] OTHER -> "ARRAYLIKE_SET_KEY"

fn_name_of(fn_identifier) ==
    CASE IS_SYNTAX(fn_identifier, "def_identifier") -> Text(second(fn_identifier))
      [] IS_SYNTAX(fn_identifier, "method_identifier") -> set_method_def(fn_identifier)
      [] IS_SYNTAX(fn_identifier, "new_expression") -> "CONSTRUCTOR_KEY"

WithQualifier == {"function_signature_with_qualifier",
                  "method_signature_with_qualifier", "new_signature_const"}
NoArguments == {"function_arguments_no_args", "new_arguments_no_args"}

\* Functions, methods and constructors.
populate_function_variant(s) ==
    LET qualified == first(s).exp \in WithQualifier
        func_sig == IF qualified THEN first(first(s)) ELSE first(s)
        qualifiers == populate_function_qualifiers(second(first(s)), 0)
        args == second(func_sig)
        params == IF args.exp \in NoArguments THEN <<>>
                  ELSE set_function_args(first(second(args)))
    IN  IF qualified /\ ~qualifiers.ok THEN ErrorNode
        ELSE Node("function", fn_name_of(first(func_sig)),
                  IF qualified THEN qualifiers.async ELSE 0,
                  Append(params, populate_expression(second(s))))

\* With a qualifier neither is_const nor is_async is set beforehand.
populate_anon_function(s) ==
    LET qualified == IS_SYNTAX(first(s), "anon_signature_with_qualifier")
        args == IF qualified THEN first(first(s)) ELSE first(s)
        qualifiers == populate_function_qualifiers(second(first(s)), 2)
        params == CASE args.exp \in NoArguments -> <<>>
                    [] IS_SYNTAX(args, "identifier") -> set_function_args(args)
                    [] OTHER -> set_function_args(first(second(args)))
        body == IF IS_SYNTAX(second(s), "anon_function_lambda_rhs")
                THEN second(second(s)) ELSE second(s)
    IN  IF qualified /\ ~qualifiers.ok THEN ErrorNode
        ELSE Node("anon", "$anon", IF qualified THEN qualifiers.async ELSE 0,
                  Append(params, populate_expression(body)))

-----------------------------------------------------------------------------
(* Classes.  The nodes below a class are its annotation, its parents, its   *)
(* fields, its constructor and its methods, in that order.                  *)

parent_class(s) == Node("parent", Text(s), 0, <<>>)

populate_class_def(s) ==
    LET parents == second(second(s))
        list == IF IS_SYNTAX(parents, "identifier") THEN <<parents>>
                ELSE <<first(parents)>> \o CommaList(second(parents))
    IN  IF IS_SYNTAX(s, "identifier") THEN [name |-> Text(s), parents |-> <<>>]
        ELSE [name |-> Text(first(s)),
              parents |-> [i \in 1 .. Len(list) |-> parent_class(list[i])] \o <<>>]

member(id) == Node("member", id, 0, <<>>)

populate_field_statements(s) ==
    LET list == second(s)
        names == IF ~IS_SYNTAX(list, "identifier_list") THEN <<list>>
                 ELSE <<first(list)>> \o CommaList(second(list))
    IN  [i \in 1 .. Len(names) |-> member(Text(names[i]))] \o <<>>

\* A parameter of the constructor that is a field is one of the class too.
constructor_fields(f) ==
    LET params == SelectSeq(Front(f.kids), LAMBDA p : p.k = "field")
    IN  [i \in 1 .. Len(params) |-> member(params[i].id)] \o <<>>

Parts(fields, constructor, methods) ==
    [fields |-> fields, constructor |-> constructor, methods |-> methods]

\* A later constructor replaces an earlier one, whose fields stay.
with_constructor(class, f) ==
    [class EXCEPT !.constructor = <<f>>,
       !.fields = @ \o (IF f.k = "error" THEN <<>> ELSE constructor_fields(f))]

populate_class_statement(class, s) ==
    CASE IS_SYNTAX(s, "field_statement") ->
            [class EXCEPT !.fields = @ \o populate_field_statements(s)]
      [] IS_SYNTAX(s, "method_definition") ->
            [class EXCEPT !.methods = Append(@, populate_function_variant(s))]
      [] IS_SYNTAX(s, "new_definition") ->
            with_constructor(class, populate_function_variant(s))
      [] OTHER -> [class EXCEPT !.methods = Append(@, ErrorNode)]

class_statements(body) ==
    LET list == first(second(body))
    IN  CASE ~IS_SYNTAX(body, "class_compound_statement") -> <<body>>
          [] IS_TOKEN(second(body), "RBRCE") -> <<>>
          [] ~IS_SYNTAX(list, "class_statement_list") -> <<list>>
          [] OTHER -> <<first(list)>> \o RightList(second(list), "class_statement_list1")

class_node(def, annot, class) ==
    Node("class", def.name, 0,
         annot \o def.parents \o class.fields \o class.constructor \o class.methods)

populate_class(s, annot) ==
    class_node(populate_class_def(second(first(s))), annot,
               FoldLeft(populate_class_statement, Parts(<<>>, <<>>, <<>>),
                        class_statements(second(s))))

\* The node's number says whether the annotation has a prefix.
populate_annotation(s) ==
    LET annot == second(s)
        called == annot.exp \in {"annotation_no_arguments", "annotation_with_arguments"}
        class == IF called THEN first(annot) ELSE annot
        prefix == IF IS_SYNTAX(class, "identifier") THEN <<>>
                  ELSE <<Populate_identifier(first(class))>>
        args == IF IS_SYNTAX(annot, "annotation_with_arguments")
                THEN <<populate_expression(first(second(second(annot))))>> ELSE <<>>
    IN  Node("annotation",
             Text(IF prefix = <<>> THEN class ELSE second(second(class))),
             Len(prefix), prefix \o args)

-----------------------------------------------------------------------------
(* A file.  The nodes below a module are its name, if it has one, and what  *)
(* its statements are, in their order.                                      *)

populate_fi_statement(s) ==
    LET annotated == IS_SYNTAX(s, "class_definition_with_annotation")
    IN  CASE IS_SYNTAX(s, "module_statement") -> Node("name", Text(second(s)), 0, <<>>)
          [] IS_SYNTAX(s, "import_statement") ->
                IF IS_SYNTAX(second(s), "identifier")
                THEN Node("import", Text(second(s)), 0, <<>>) ELSE ErrorNode
          [] s.exp \in {"class_definition_no_annotation",
                        "class_definition_with_annotation"} ->
                populate_class(IF annotated THEN second(s) ELSE s,
                               IF annotated THEN <<populate_annotation(first(s))>> ELSE <<>>)
          [] IS_SYNTAX(s, "function_definition") -> populate_function_variant(s)
          [] OTHER -> populate_expression(s)

module_node(nodes) ==
    LET names == SelectSeq(nodes, LAMBDA x : x.k = "name")
    IN  IF Len(names) > 1 THEN ErrorNode
        ELSE Node("module", IF names = <<>> THEN "" ELSE names[1].id, 0,
                  SelectSeq(nodes, LAMBDA x : x.k # "name"))

populate_module_def(s) ==
    LET list == <<first(s)>> \o RightList(second(s), "file_level_statement_list1")
    IN  module_node([i \in 1 .. Len(list) |-> populate_fi_statement(list[i])] \o <<>>)

\* The populator that is registered for the production.
populate_expression(s) ==
    CASE s.exp = "identifier" -> Populate_identifier(s)
      [] s.exp = "constant" -> Populate_constant(s)
      [] s.exp = "string_literal" -> Populate_string_literal(s)
      [] s.exp = "tuple_expression" -> Populate_tuple_expression(s)
      [] s.exp = "array_declaration" -> Populate_array_declaration(s)
      [] s.exp = "map_declaration" -> Populate_map_declaration(s)
      [] s.exp \in {"primary_expression", "primary_expression_no_constants"} ->
            Populate_primary_expression(s)
      [] s.exp = "postfix_expression" -> Populate_postfix_expression(s)
      [] s.exp = "range_expression" -> Populate_range_expression(s)
      [] s.exp = "unary_expression" -> Populate_unary_expression(s)
      [] s.exp \in {"binary_and_expression", "binary_xor_expression",
                    "binary_or_expression", "multiplicative_expression",
                    "additive_expression", "relational_expression",
                    "equality_expression", "and_expression", "or_expression"} ->
            BiExpressionPopulate(s)
      [] s.exp = "in_expression" -> Populate_in_expression(s)
      [] s.exp = "is_expression" -> Populate_is_expression(s)
      [] s.exp \in {"conditional_expression", "selection_statement"} ->
            populate_if_else(s)
      [] s.exp = "anon_function_definition" -> populate_anon_function(s)
      [] s.exp = "assignment_expression" -> Populate_assignment_expression(s)
      [] s.exp = "foreach_statement" -> Populate_foreach_statement(s)
      [] s.exp = "for_statement" -> Populate_for_statement(s)
      [] s.exp = "while_statement" -> Populate_while_statement(s)
      [] s.exp = "compound_statement" -> Populate_compound_statement(s)
      [] s.exp = "try_statement" -> Populate_try_statement(s)
      [] s.exp = "raise_statement" -> Populate_raise_statement(s)
      [] s.exp = "jump_statement" -> Populate_jump_statement(s)
      [] s.exp = "break_statement" -> Populate_break_statement(s)
      [] s.exp = "exit_statement" -> Populate_exit_statement(s)
      [] s.exp = "file_level_statement_list" -> populate_module_def(s)
      [] OTHER -> ErrorNode
=============================================================================
