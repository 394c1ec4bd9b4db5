------------------------------- MODULE Values -------------------------------
(***************************************************************************)
(* The JSON values endpoints compute with, and the conversions and         *)
(* comparisons of src/runtime/mod.rs on them.                              *)
(*                                                                         *)
(* A text is a sequence of character codes, since the program orders       *)
(* texts, and numbers as texts when it compares a number with anything     *)
(* else.  A number is a count of tenths together with the representation   *)
(* serde_json keeps: an integer and a float of the same value print and    *)
(* compare differently.  Quotients are rounded to tenths, as a double      *)
(* rounds them further right.                                              *)
(***************************************************************************)
EXTENDS Integers, Sequences, FiniteSets

Null == [t |-> "null"]
Bool(b) == [t |-> "bool", v |-> b]
Integer(n) == [t |-> "num", v |-> 10 * n, int |-> TRUE]
Float(tenths) == [t |-> "num", v |-> tenths, int |-> FALSE]
Str(text) == [t |-> "str", v |-> text]
Arr(items) == [t |-> "arr", v |-> items]
Obj(fields) == [t |-> "obj", v |-> fields]

\* What is returned instead of a value: a name nobody bound, any other error
\* of the evaluation, or the panic a sort without an order can end in.
Undefined == [t |-> "undefined"]
Failure == [t |-> "failure"]
Unordered == [t |-> "unordered"]
IsError(x) == x.t \in {"undefined", "failure", "unordered"}

\* Equality of serde_json values: an integer is not the float of its value.
RECURSIVE Same(_, _)
Same(x, y) ==
    /\ x.t = y.t
    /\ CASE x.t \in {"arr", "obj"} ->
               /\ DOMAIN x.v = DOMAIN y.v
               /\ \A i \in DOMAIN x.v : Same(x.v[i], y.v[i])
         [] OTHER -> x = y

-----------------------------------------------------------------------------
(* Texts.                                                                   *)

TextNull == <<110, 117, 108, 108>>
TextTrue == <<116, 114, 117, 101>>
TextFalse == <<102, 97, 108, 115, 101>>
TextLen == <<108, 101, 110>>
Braces == <<123, 125>>
Space == 32

\* The byte order of two texts.
TextLess(s, t) ==
    \E i \in DOMAIN t :
        /\ \A j \in 1 .. (i - 1) : j \in DOMAIN s /\ s[j] = t[j]
        /\ i \in DOMAIN s => s[i] < t[i]

StartsWith(s, p) == Len(p) <= Len(s) /\ SubSeq(s, 1, Len(p)) = p
EndsWith(s, p) == Len(p) <= Len(s) /\ SubSeq(s, Len(s) - Len(p) + 1, Len(s)) = p
Occurrences(s, p) ==
    {i \in 1 .. (Len(s) - Len(p) + 1) : SubSeq(s, i, i + Len(p) - 1) = p}

RECURSIVE Joined(_, _)
Joined(texts, separator) ==
    IF texts = << >> THEN << >>
    ELSE IF Len(texts) = 1 THEN texts[1]
    ELSE texts[1] \o separator \o Joined(Tail(texts), separator)

\* str::split: parts between occurrences taken from the left; around every
\* character when the separator is empty.
RECURSIVE Split(_, _)
Split(s, separator) ==
    IF separator = << >>
    THEN << << >> >> \o [i \in DOMAIN s |-> <<s[i]>>] \o << << >> >>
    ELSE IF Occurrences(s, separator) = {} THEN <<s>>
    ELSE LET at == CHOOSE i \in Occurrences(s, separator) :
                       \A j \in Occurrences(s, separator) : i <= j
         IN  <<SubSeq(s, 1, at - 1)>>
               \o Split(SubSeq(s, at + Len(separator), Len(s)), separator)

ReplaceText(s, from, to) == Joined(Split(s, from), to)

RECURSIVE Trim(_)
Trim(s) ==
    IF s # << >> /\ Head(s) = Space THEN Trim(Tail(s))
    ELSE IF s # << >> /\ s[Len(s)] = Space THEN Trim(SubSeq(s, 1, Len(s) - 1))
    ELSE s

Lower(s) == [i \in DOMAIN s |-> IF s[i] \in 65 .. 90 THEN s[i] + 32 ELSE s[i]]
Upper(s) == [i \in DOMAIN s |-> IF s[i] \in 97 .. 122 THEN s[i] - 32 ELSE s[i]]

-----------------------------------------------------------------------------
(* Conversions.                                                             *)

RECURSIVE Digits(_)
Digits(n) == IF n < 10 THEN <<48 + n>> ELSE Append(Digits(n \div 10), 48 + (n % 10))

\* serde_json prints an integer without, a float always with a fraction.
NumberText(x) ==
    LET abs == IF x.v < 0 THEN -x.v ELSE x.v
    IN  (IF x.v < 0 THEN <<45>> ELSE << >>) \o Digits(abs \div 10)
          \o (IF x.int THEN << >> ELSE <<46, 48 + (abs % 10)>>)

Quoted(text) == <<34>> \o text \o <<34>>

\* The keys of an object in the order serde_json keeps them.
RECURSIVE SortedKeys(_)
SortedKeys(keys) ==
    IF keys = {} THEN << >>
    ELSE LET least == CHOOSE k \in keys : \A j \in keys : ~TextLess(j, k)
         IN  <<least>> \o SortedKeys(keys \ {least})

\* Compact JSON.
RECURSIVE ToJson(_)
ToJson(x) ==
    CASE x.t = "str" -> Quoted(x.v)
      [] x.t = "num" -> NumberText(x)
      [] x.t = "bool" -> IF x.v THEN TextTrue ELSE TextFalse
      [] x.t = "null" -> TextNull
      [] x.t = "arr" -> <<91>> \o Joined([i \in DOMAIN x.v |-> ToJson(x.v[i])], <<44>>) \o <<93>>
      [] x.t = "obj" ->
           LET keys == SortedKeys(DOMAIN x.v)
               field(k) == Quoted(k) \o <<58>> \o ToJson(x.v[k])
           IN  <<123>> \o Joined([i \in DOMAIN keys |-> field(keys[i])], <<44>>) \o <<125>>

as_string(x) == IF x.t = "str" THEN x.v ELSE ToJson(x)

truthy(x) ==
    CASE x.t = "bool" -> x.v
      [] x.t = "null" -> FALSE
      [] x.t = "num" -> x.v # 0
      [] x.t \in {"str", "arr"} -> x.v # << >>
      [] x.t = "obj" -> DOMAIN x.v # {}

is_empty(x) ==
    CASE x.t = "null" -> TRUE
      [] x.t \in {"str", "arr"} -> x.v = << >>
      [] x.t = "obj" -> DOMAIN x.v = {}
      [] x.t \in {"bool", "num"} -> FALSE

\* The counts as_usize accepts: integers that are not negative, whichever way
\* they are represented.
IsCount(x) == x.t = "num" /\ x.v >= 0 /\ x.v % 10 = 0
as_usize(x) == x.v \div 10

\* json!(x / y) and json!(x % y): a quotient by zero is no number and becomes
\* null; a remainder has the sign of the dividend.
Quotient(x, y) == IF y = 0 THEN Null ELSE Float((10 * x * (IF y < 0 THEN -1 ELSE 1)) \div
                                                (IF y < 0 THEN -y ELSE y))
Remainder(x, y) ==
    LET abs(n) == IF n < 0 THEN -n ELSE n
    IN  IF y = 0 THEN Null
        ELSE Float((IF x < 0 THEN -1 ELSE 1) * (abs(x) % abs(y)))

\* compare_json(left, right) = Less.
Before(l, r) ==
    CASE l.t = "num" /\ r.t = "num" -> l.v < r.v
      [] l.t = "bool" /\ r.t = "bool" -> ~l.v /\ r.v
      [] OTHER -> TextLess(as_string(l), as_string(r))

value_len(x) ==
    CASE x.t \in {"arr", "str"} -> Integer(Len(x.v))
      [] x.t = "obj" -> Integer(Cardinality(DOMAIN x.v))
      [] OTHER -> Failure

contains_value(container, needle) ==
    CASE container.t = "str" -> Bool(Occurrences(container.v, as_string(needle)) # {})
      [] container.t = "arr" -> Bool(\E i \in DOMAIN container.v : Same(container.v[i], needle))
      [] container.t = "obj" -> Bool(as_string(needle) \in DOMAIN container.v)
      [] OTHER -> Failure

get_property(x, field) ==
    CASE x.t = "obj" -> IF field \in DOMAIN x.v THEN x.v[field] ELSE Null
      [] x.t \in {"arr", "str"} /\ field = TextLen -> Integer(Len(x.v))
      [] OTHER -> Failure

join_array(x, separator) ==
    IF x.t # "arr" THEN Failure
    ELSE Str(Joined([i \in DOMAIN x.v |-> as_string(x.v[i])], separator))

\* Each argument replaces the first braces left in the text so far, or is
\* appended when there are none.
RECURSIVE Formatted(_, _)
Formatted(text, args) ==
    IF args = << >> THEN text
    ELSE LET parts == Split(text, Braces)
             arg == as_string(Head(args))
         IN  Formatted(IF Len(parts) > 1
                         THEN parts[1] \o arg \o Joined(Tail(parts), Braces)
                         ELSE text \o arg,
                       Tail(args))
=============================================================================
