---------------------------- MODULE Expressions ----------------------------
(***************************************************************************)
(* The expressions of the language (src/ast.rs) and their evaluation       *)
(* (eval_expr and what it calls, src/runtime/mod.rs).                      *)
(*                                                                         *)
(* A scope is a function from names to values: the variables of a request, *)
(* with the parameters of a closure laid over them.  Operators of the same *)
(* name as a function of the program are that function.                    *)
(***************************************************************************)
EXTENDS Values, TLC

Lit(value) == [tag |-> "lit", value |-> value]
Var(name) == [tag |-> "var", name |-> name]
Object(fields) == [tag |-> "object", fields |-> fields]
Array(items) == [tag |-> "array", items |-> items]
Property(object, field) == [tag |-> "property", object |-> object, field |-> field]
BinaryOp(left, op, right) == [tag |-> "binary", left |-> left, op |-> op, right |-> right]
\* The three sorts of callee of Expression::Call: a name, a property of an
\* object, any other expression.
FunctionCall(name, args) == [tag |-> "function", name |-> name, args |-> args]
MethodCall(object, name, args) ==
    [tag |-> "method", object |-> object, name |-> name, args |-> args]
OtherCall(callee, args) == [tag |-> "apply", callee |-> callee, args |-> args]

-----------------------------------------------------------------------------
(* Scopes.                                                                  *)

get_var(scope, name) == IF name \in DOMAIN scope THEN scope[name] ELSE Undefined
Bound(scope, name, value) == (name :> value) @@ scope

-----------------------------------------------------------------------------
(* Built-in functions and methods on evaluated arguments.                   *)

StrEach(texts) == [i \in DOMAIN texts |-> Str(texts[i])]

ArgCount ==
    [len |-> 1, contains |-> 2, starts_with |-> 2, ends_with |-> 2, lower |-> 1,
     upper |-> 1, trim |-> 1, replace |-> 3, split |-> 2, join |-> 2, string |-> 1,
     number |-> 1, bool |-> 1, is_null |-> 1, is_empty |-> 1]

\* Functions of texts; whatever is given is made a text first.
OfTexts(function, texts) ==
    CASE function = "starts_with" -> Bool(StartsWith(texts[1], texts[2]))
      [] function = "ends_with" -> Bool(EndsWith(texts[1], texts[2]))
      [] function = "lower" -> Str(Lower(texts[1]))
      [] function = "upper" -> Str(Upper(texts[1]))
      [] function = "trim" -> Str(Trim(texts[1]))
      [] function = "replace" -> Str(ReplaceText(texts[1], texts[2], texts[3]))
      [] function = "split" -> Arr(StrEach(Split(texts[1], texts[2])))
      [] function = "string" -> Str(texts[1])

\* Functions of values.
OfValues(function, args) ==
    CASE function = "len" -> value_len(args[1])
      [] function = "contains" -> contains_value(args[1], args[2])
      [] function = "join" -> join_array(args[1], as_string(args[2]))
      [] function = "number" -> IF args[1].t = "num" THEN Float(args[1].v) ELSE Failure
      [] function = "bool" -> Bool(truthy(args[1]))
      [] function = "is_null" -> Bool(args[1].t = "null")
      [] function = "is_empty" -> Bool(is_empty(args[1]))

eval_builtin_call(function, args) ==
    IF function = "format"
      THEN IF args = << >> THEN Failure ELSE Str(Formatted(as_string(args[1]), Tail(args)))
    ELSE IF function \notin DOMAIN ArgCount THEN Failure
    ELSE IF Len(args) # ArgCount[function] THEN Failure
    ELSE IF function \in {"len", "contains", "join", "number", "bool", "is_null", "is_empty"}
      THEN OfValues(function, args)
    ELSE OfTexts(function, [i \in DOMAIN args |-> as_string(args[i])])

\* A method is the function of its name with the receiver as first argument.
Methods == {"len", "contains", "starts_with", "ends_with", "lower", "upper", "trim",
            "replace", "split", "join"}
eval_method_call(receiver, method, args) ==
    IF method \in Methods THEN eval_builtin_call(method, <<receiver>> \o args) ELSE Failure

Arithmetic(l, op, r) ==
    CASE op = "+" -> Float(l + r)
      [] op = "-" -> Float(l - r)
      [] op = "*" -> Float((l * r) \div 10)
      [] op = "/" -> Quotient(l, r)
      [] op = "%" -> Remainder(l, r)
      [] op = ">" -> Bool(l > r)
      [] op = "<" -> Bool(l < r)
      [] op = ">=" -> Bool(l >= r)
      [] op = "<=" -> Bool(l <= r)

eval_binary(left, op, right) ==
    CASE op = "==" -> Bool(Same(left, right))
      [] op = "!=" -> Bool(~Same(left, right))
      [] op = "&&" -> Bool(truthy(left) /\ truthy(right))
      [] op = "||" -> Bool(truthy(left) \/ truthy(right))
      [] op = "+" /\ "str" \in {left.t, right.t} -> Str(as_string(left) \o as_string(right))
      [] OTHER -> IF left.t = "num" /\ right.t = "num"
                    THEN Arithmetic(left.v, op, right.v) ELSE Failure

-----------------------------------------------------------------------------
(* Evaluation.  Parts are evaluated in order and the first error is the     *)
(* result; both operands of && and || are evaluated.  The fields of an      *)
(* object have no order, so which of several errors is returned is open.    *)

\* The expressions right inside one, in order; by name for an object.
Parts(e) ==
    CASE e.tag = "object" -> e.fields
      [] e.tag = "array" -> e.items
      [] e.tag = "property" -> <<e.object>>
      [] e.tag = "binary" -> <<e.left, e.right>>
      [] e.tag = "function" -> e.args
      [] e.tag = "method" -> <<e.object>> \o e.args
      [] e.tag = "apply" -> <<e.callee>> \o e.args
      [] OTHER -> << >>

FirstError(values) ==
    values[CHOOSE i \in DOMAIN values :
             IsError(values[i]) /\ \A j \in 1 .. (i - 1) : ~IsError(values[j])]

AnyError(values) == \E i \in DOMAIN values : IsError(values[i])

\* The value of an expression whose parts have these values.
Combined(e, values) ==
    IF AnyError(values)
      THEN IF e.tag = "object" THEN values[CHOOSE k \in DOMAIN values : IsError(values[k])]
           ELSE FirstError(values)
    ELSE CASE e.tag = "object" -> Obj(values)
           [] e.tag = "array" -> Arr(values)
           [] e.tag = "property" -> get_property(values[1], e.field)
           [] e.tag = "binary" -> eval_binary(values[1], e.op, values[2])
           [] e.tag = "function" -> eval_builtin_call(e.name, values)
           [] e.tag = "method" -> eval_method_call(values[1], e.name, Tail(values))

RECURSIVE eval_expr(_, _)
eval_expr(e, scope) ==
    LET Values(parts) == [i \in DOMAIN parts |-> eval_expr(parts[i], scope)]
    IN  CASE e.tag = "lit" -> e.value
          [] e.tag = "var" -> get_var(scope, e.name)
          [] e.tag = "apply" -> Failure
          [] OTHER -> Combined(e, Values(Parts(e)))
=============================================================================
