----------------------------- MODULE MCExchange -----------------------------
(***************************************************************************)
(* Exchange for TLC: bytes of two bits, shorts of three, ints of four.     *)
(***************************************************************************)
EXTENDS Exchange

\* rounding to the nearest, ties to the even mantissa, up to twice Exact
MCRound(n) == IF n \in -Exact..Exact THEN n
              ELSE IF n % 4 = 1 THEN n - 1 ELSE IF n % 4 = 3 THEN n + 1 ELSE n

\* texts: 0 is empty, 1 a word, 2 is 1, a NUL and something more, 3 is not ASCII, 4 is 1,
\* a NUL and 3
MCText == 0..4
MCAscii == 0..2
MCCut == [s \in MCText |-> IF s \in {2, 4} THEN 1 ELSE s]

X(k, n) == [k |-> k, v |-> n]
Array(a) == [k |-> "array", a |-> a]

Scalars == {X("int", n) : n \in Fixnum} \cup {X("float", 3), X("float", -20)}
             \cup {X("time", 4), X("time", 5)} \cup {X("bool", 0), X("bool", 1)}
             \cup {X("str", s) : s \in Text} \cup {X("sym", 1), X("binary", 3), Nil, X("other", 0)}
Elements == {X("int", 3), X("int", 17), X("float", 3), X("time", 5), X("bool", 0),
             X("bool", 1), X("str", 2), X("str", 3), X("binary", 3), X("sym", 1), Nil}
Arrays == {Array(<<>>)} \cup {Array(<<x>>) : x \in Elements}
            \cup {Array(<<x, y>>) : x, y \in Elements}

Variants == {One(t, 0) : t \in Type} \cup {One("sbyte", -1), One("datetime", 5),
             Many("double", <<3, -3>>), Many("sbyte", <<1>>), Many("int64", <<1>>), Unset}

MCWritten == Scalars \cup Arrays
MCPassed == {X("int", n) : n \in {-1, 1, 5, -9}} \cup {X("time", 4), X("str", 1), X("str", 2),
              X("str", 3), X("binary", 3), X("sym", 1), Nil, Array(<<X("str", 1)>>), Array(<<X("time", 4), X("bool", 0)>>)}
MCStale == {One("uint16", 1), One("string", 1)}
MCNodeType == Type \cup {"any", "custom"}
MCSignature == {<<>>, <<"uint16">>, <<"string", "sbyte">>, <<"custom">>}
=============================================================================
