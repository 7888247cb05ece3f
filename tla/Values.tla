-------------------------------- MODULE Values --------------------------------
(***************************************************************************)
(* value_to_variant and extract_value (src/ext/opcua/helpers/values.c):    *)
(* what becomes of a Ruby value on its way into an OPC UA variant and back. *)
(*                                                                         *)
(* A Ruby value is [k, v], its class and an integer that stands for its    *)
(* contents, or an array of such values. A variant is [t, array, v], a     *)
(* scalar being a sequence of one. A float is told apart by its integral   *)
(* part only, a time is a number of fractions of a second, a boolean 0 or 1. *)
(* The widths of integers are constants.                                   *)
(***************************************************************************)
EXTENDS Integers, Sequences

CONSTANTS
    Half8, Half16, Half32,  \* n bits hold -HalfN..HalfN-1, or 0..2*HalfN-1
    HalfFix,                \* fixnums are -HalfFix..HalfFix-1
    Exact,                  \* a double holds the integers up to Exact
    Round(_),               \* the double for an integer
    Tick,                   \* fractions of a second that Ruby tells apart
    Text, Ascii, Blank,     \* the contents of strings, those in ASCII, the empty one
    Cut                     \* the part of a text before its first NUL

ASSUME ValuesAssumption ==
    /\ Half8 \in Nat \ {0} /\ Half16 \in Nat /\ Half32 \in Nat
    /\ 2 * Half8 <= Half16 /\ 2 * Half16 <= Half32 /\ 2 * Half32 <= HalfFix
    /\ HalfFix \in Nat /\ Exact \in Nat /\ Tick \in Nat \ {0}
    /\ \A n \in -HalfFix..(HalfFix - 1) :
         Round(n) \in Int /\ (n \in -Exact..Exact => Round(n) = n)
    /\ Text \subseteq Int /\ Ascii \subseteq Text /\ Blank \in Ascii
    /\ Cut \in [Text -> Text]

-----------------------------------------------------------------------------
(* Types *)

IntType   == {"sbyte", "byte", "int16", "uint16", "int32", "uint32"}
Signs     == {"sbyte", "int16", "int32"}
Narrow    == {"sbyte", "byte", "int16", "uint16"}    \* converted through NUM2INT
Half(t)   == IF t \in {"sbyte", "byte"} THEN Half8
             ELSE IF t \in {"int16", "uint16"} THEN Half16 ELSE Half32
\* what the bits of type t can hold
Bits(t)   == IF t \in Signs THEN -Half(t)..(Half(t) - 1) ELSE 0..(2 * Half(t) - 1)

\* UA_TYPES[i] is UaType[i + 1]
UaType == <<"boolean", "sbyte", "byte", "int16", "uint16", "int32", "uint32", "int64",
            "uint64", "float", "double", "string", "datetime", "guid", "bytestring",
            "xmlelement", "nodeid">>
Type   == {UaType[i] : i \in DOMAIN UaType}

Fixnum  == -HalfFix..(HalfFix - 1)
Scalar  == [k : {"int"}, v : Fixnum] \cup [k : {"float", "time"}, v : Int]
             \cup [k : {"bool"}, v : {0, 1}] \cup [k : {"str", "sym"}, v : Text]
             \cup [k : {"binary"}, v : Text \ Ascii]  \* a string without an encoding
             \cup [k : {"nil", "other"}, v : {0}]     \* other: a bignum, a hash, ...
Stringy == {"str", "sym", "binary"}
Kind    == {"int", "float", "time", "bool", "nil", "other"} \cup Stringy
Ruby    == Scalar \cup [k : {"array"}, a : Seq(Scalar)]
\* what is read back
Read    == [k : Kind, v : Int] \cup [k : {"array"}, a : Seq([k : Kind, v : Int])]
Variant == [t : Type \cup {"none"}, array : BOOLEAN, v : Seq(Int)]

\* a variant that C can hold: integers within the width of their type
Sound(x) ==
    /\ x \in Variant
    /\ x.t \in IntType => \A i \in DOMAIN x.v : x.v[i] \in Bits(x.t)

Nil   == [k |-> "nil", v |-> 0]
False == [k |-> "bool", v |-> 0]
Unset == [t |-> "none", array |-> FALSE, v |-> <<>>]

-----------------------------------------------------------------------------
(* value_to_variant: the variant made, or why there is none *)

Done(x) == [r |-> "done", x |-> x]
NotDone == [r |-> "not", x |-> Unset]
Raise   == [r |-> "raise", x |-> Unset]

One(t, n)  == [t |-> t, array |-> FALSE, v |-> <<n>>]
Many(t, s) == [t |-> t, array |-> TRUE, v |-> s]

\* mutant of Wrap: the bits beyond the width are kept
NoWrap(n, t) == n
\* an assignment to a C integer of type t
Wrap(n, t) == IF t \in Signs THEN ((n + Half(t)) % (2 * Half(t))) - Half(t)
                             ELSE n % (2 * Half(t))

Seconds(n) == n - (n % Tick)

\* a fixnum takes the proposed type if that is one of six, else INT32
Target(p) == IF p \in IntType THEN p ELSE "int32"
TextTarget(p) == IF p \in {"bytestring", "nodeid"} THEN p ELSE "string"

FromInt(n, p) ==
    IF Target(p) \in Narrow /\ n \notin Bits("int32")
      THEN Raise                                     \* NUM2INT
      ELSE Done(One(Target(p), Wrap(n, Target(p))))

FromScalar(x, p) ==
    CASE x.k = "int"   -> FromInt(x.v, p)
      [] x.k = "float" -> Done(One("double", x.v))
      [] x.k = "time"  -> Done(One("datetime", Seconds(x.v)))
      [] x.k = "bool"  -> Done(One("boolean", x.v))
      [] x.k \in Stringy -> Done(One(TextTarget(p), Cut[x.v]))
      [] OTHER -> NotDone

Number(x) == CASE x.k = "int" -> Round(x.v) [] x.k = "float" -> x.v [] OTHER -> 0
Letters(x) == IF x.k \in Stringy THEN Cut[x.v] ELSE Blank

\* value_to_array: the class of the first element decides for all. An array of
\* times becomes the first bytes of 1970-01-01, 8 of which make a DateTime.
FromArray(a, first) ==
    CASE first = "time" ->
           IF \E i \in DOMAIN a : a[i] = False
             THEN Raise
             ELSE Done(Many("boolean", [i \in DOMAIN a |-> IF i % 8 = 1 THEN 0 ELSE 1]))
      [] first = "bool" ->
           Done(Many("boolean", [i \in DOMAIN a |-> IF a[i] = False THEN 0 ELSE 1]))
      [] first \in {"int", "float"} ->
           Done(Many("double", [i \in DOMAIN a |-> Number(a[i])]))
      [] first \in Stringy ->
           Done(Many("string", [i \in DOMAIN a |-> Letters(a[i])]))
      [] OTHER -> NotDone

\* of an empty array, the memory where a first element would be is read
First(a) == IF a = <<>> THEN Kind ELSE {a[1].k}

Conversions(x, p) ==
    IF x.k = "array" THEN {FromArray(x.a, first) : first \in First(x.a)}
                     ELSE {FromScalar(x, p)}

-----------------------------------------------------------------------------
(* extract_value *)

\* CHR2FIX keeps eight bits
ReadInt(t, n) == IF t \in {"sbyte", "byte"} THEN n % (2 * Half8) ELSE n

\* The bytes come without an encoding, and only what is ASCII is given the locale's:
\* to Ruby any other text is not equal to the one that was written.
ReadText(n) == [k |-> IF n \in Ascii THEN "str" ELSE "binary", v |-> n]

ReadOne(t, n) ==
    CASE t = "datetime" -> [k |-> "time", v |-> Seconds(n)]
      [] t = "boolean"  -> [k |-> "bool", v |-> n]
      [] t \in {"float", "double"} -> [k |-> "float", v |-> n]
      [] t \in IntType -> [k |-> "int", v |-> ReadInt(t, n)]
      [] t \in {"string", "bytestring"} -> ReadText(n)
      [] OTHER -> Nil

NotInArrays == {"sbyte", "byte", "bytestring"}

Extract(x) ==
    IF ~x.array THEN IF x.v = <<>> THEN Nil ELSE ReadOne(x.t, x.v[1])
    ELSE IF x.v = <<>> \/ x.t \in NotInArrays \/ ReadOne(x.t, 0) = Nil THEN Nil
    ELSE [k |-> "array", a |-> [i \in DOMAIN x.v |-> ReadOne(x.t, x.v[i])]]

-----------------------------------------------------------------------------
(* For reference: which values come back from a variable of type t as they were  *)
(* written, and no others do. Of those that the type itself could hold, missing  *)
(* are: all for FLOAT, INT64 and UINT64, integers for DOUBLE, the negative ones   *)
(* for SBYTE, those beyond INT32 where no type is set, fractions of a second,     *)
(* texts that are not ASCII or have a NUL, empty arrays and arrays of times.      *)

IntBack(n, t) ==
    CASE t = "sbyte" -> n \in Bits("byte")       \* stored as a negative from Half8 on
      [] t \in IntType \ {"sbyte"} -> n \in Bits(t)
      [] t = "any" -> n \in Bits("int32")
      [] OTHER -> FALSE

TextBack(x) == Cut[x.v] = x.v /\ (x.k = "binary" \/ x.v \in Ascii)

ScalarBack(x, t) ==
    CASE x.k = "int"   -> IntBack(x.v, t)
      [] x.k = "float" -> t \in {"double", "any"}
      [] x.k = "time"  -> t \in {"datetime", "any"} /\ x.v % Tick = 0
      [] x.k = "bool"  -> t \in {"boolean", "any"}
      [] x.k \in Stringy -> t \in {"string", "bytestring", "any"} /\ TextBack(x)
      [] OTHER -> FALSE

ElementBack(x, t) ==
    CASE x.k = "int"   -> t \in {"double", "any"} /\ Round(x.v) = x.v
      [] x.k = "float" -> t \in {"double", "any"}
      [] x.k = "bool"  -> t \in {"boolean", "any"}
      [] x.k \in Stringy -> t \in {"string", "any"} /\ TextBack(x)
      [] OTHER -> FALSE

\* arrays of one kind of thing
Alike(x, y) == \E K \in {{"int", "float"}, {"bool"}, Stringy} : x.k \in K /\ y.k \in K

ComesBack(x, t) ==
    IF x.k = "array"
      THEN x.a # <<>> /\ \A i \in DOMAIN x.a : ElementBack(x.a[i], t) /\ Alike(x.a[i], x.a[1])
      ELSE ScalarBack(x, t)

\* as what: a symbol as a string, an integer in an array as a float
SameScalar(x)  == IF x.k = "sym" THEN [x EXCEPT !.k = "str"] ELSE x
SameElement(x) == IF x.k = "int" THEN [x EXCEPT !.k = "float"] ELSE SameScalar(x)
Same(x) == IF x.k = "array" THEN [k |-> "array", a |-> [i \in DOMAIN x.a |-> SameElement(x.a[i])]]
           ELSE SameScalar(x)
=============================================================================
