---------------------------- MODULE ExchangeProofs ----------------------------
(***************************************************************************)
(* Theorems about Values and Exchange, for every width, every set of       *)
(* values and every kind of variable and method.                           *)
(***************************************************************************)
EXTENDS Exchange, TLAPS

-----------------------------------------------------------------------------
(* Arithmetic modulo a width *)

LEMMA ModRange == ASSUME NEW m \in Nat \ {0}, NEW y \in Int PROVE y % m \in 0..(m - 1)
OBVIOUS

LEMMA ModId == ASSUME NEW m \in Nat \ {0}, NEW y \in 0..(m - 1) PROVE y % m = y
OBVIOUS

LEMMA HalfFacts ==
    /\ \A t : Half(t) \in Nat \ {0}
    /\ \A t \in Narrow : Bits(t) \subseteq Bits("int32")
    /\ \A t \in IntType : Bits(t) \subseteq Fixnum
<1> USE ValuesAssumption
<1>1. \A t : Half(t) \in Nat \ {0} BY DEF Half
<1>2. ASSUME NEW t \in Narrow PROVE Bits(t) \subseteq Bits("int32")
  BY <1>2 DEF Narrow, Bits, Half, Signs
<1>3. ASSUME NEW t \in IntType PROVE Bits(t) \subseteq Fixnum
  BY <1>3 DEF IntType, Bits, Half, Signs, Fixnum
<1> QED BY <1>1, <1>2, <1>3

\* An assignment to a C integer leaves what its bits can hold.
LEMMA WrapInBits == ASSUME NEW n \in Int, NEW t PROVE Wrap(n, t) \in Bits(t)
<1>1. Half(t) \in Nat \ {0} /\ 2 * Half(t) \in Nat \ {0} BY HalfFacts
<1>2. CASE t \in Signs
  <2>0. n + Half(t) \in Int BY <1>1
  <2>1. (n + Half(t)) % (2 * Half(t)) \in 0..(2 * Half(t) - 1) BY <1>1, <2>0, ModRange
  <2> QED BY <1>1, <1>2, <2>1 DEF Wrap, Bits
<1>3. CASE t \notin Signs
  <2>1. n % (2 * Half(t)) \in 0..(2 * Half(t) - 1) BY <1>1, ModRange
  <2> QED BY <1>3, <2>1 DEF Wrap, Bits
<1> QED BY <1>2, <1>3

\* and changes nothing about what they can.
LEMMA WrapId == ASSUME NEW t, NEW n \in Bits(t) PROVE Wrap(n, t) = n /\ n \in Int
<1>1. Half(t) \in Nat \ {0} /\ 2 * Half(t) \in Nat \ {0} BY HalfFacts
<1>2. CASE t \in Signs
  <2>1. n + Half(t) \in 0..(2 * Half(t) - 1) /\ n \in Int BY <1>1, <1>2 DEF Bits
  <2>2. (n + Half(t)) % (2 * Half(t)) = n + Half(t) BY <1>1, <2>1, ModId
  <2> QED BY <1>1, <1>2, <2>1, <2>2 DEF Wrap
<1>3. CASE t \notin Signs
  <2>1. n \in 0..(2 * Half(t) - 1) BY <1>3 DEF Bits
  <2>2. n % (2 * Half(t)) = n BY <1>1, <2>1, ModId
  <2> QED BY <1>3, <2>1, <2>2 DEF Wrap
<1> QED BY <1>2, <1>3

LEMMA SecondsFacts ==
    ASSUME NEW n \in Int
    PROVE  /\ Seconds(n) \in Int
           /\ Seconds(Seconds(n)) = n <=> n % Tick = 0
<1>1. Tick \in Nat \ {0} BY ValuesAssumption
<1>2. n % Tick \in 0..(Tick - 1) BY <1>1, ModRange
<1>3. (n - (n % Tick)) % Tick = 0
  <2>1. ASSUME NEW w \in Nat \ {0}, NEW y \in Int PROVE (y - (y % w)) % w = 0 OBVIOUS
  <2> QED BY <1>1, <2>1
<1> QED BY <1>1, <1>2, <1>3 DEF Seconds

-----------------------------------------------------------------------------
(* Conversions and back *)

LEMMA IntTarget ==
    ASSUME NEW t, NEW p, p = t \/ (t = "any" /\ p = "none")
    PROVE  /\ Target(p) \in IntType /\ "int32" \in IntType
           /\ t = "any" => Target(p) = "int32"
           /\ t \in IntType => Target(p) = t
           /\ t # "any" /\ Target(p) = t => t \in IntType
BY DEF Target, IntType

\* What is read of an integer just written is that integer for the integers of the type,
\* of an SBYTE for those of a BYTE.
LEMMA ReadWrapped ==
    ASSUME NEW t \in IntType, NEW n \in Int
    PROVE  ReadInt(t, Wrap(n, t)) = n <=> n \in Bits(IF t = "sbyte" THEN "byte" ELSE t)
<1>1. Wrap(n, t) \in Bits(t) BY WrapInBits
<1>2. Half8 \in Nat \ {0} /\ 2 * Half8 \in Nat \ {0} BY ValuesAssumption
<1>3. Bits("byte") = 0..(2 * Half8 - 1) /\ Bits("sbyte") = -Half8..(Half8 - 1)
  BY DEF Bits, Half, Signs
<1>4. CASE t = "sbyte"
  <2>1. ReadInt(t, Wrap(n, t)) \in Bits("byte") BY <1>1, <1>2, <1>3, <1>4, ModRange DEF ReadInt, Bits, Half, Signs
  <2>2. ASSUME n \in Bits("byte") PROVE Wrap(n, t) % (2 * Half8) = n
    <3>1. Wrap(n, t) = ((n + Half8) % (2 * Half8)) - Half8 BY <1>4 DEF Wrap, Signs, Half
    <3>2. CASE n < Half8
      <4>1. n + Half8 \in 0..(2 * Half8 - 1) BY <1>2, <1>3, <2>2, <3>2
      <4>2. (n + Half8) % (2 * Half8) = n + Half8 BY <1>2, <4>1, ModId
      <4>3. Wrap(n, t) = n BY <1>2, <3>1, <4>2
      <4> QED BY <1>2, <1>3, <2>2, <4>3, ModId
    <3>3. CASE n >= Half8
      <4> DEFINE m == n - Half8
      <4>1. m \in 0..(2 * Half8 - 1) BY <1>2, <1>3, <2>2, <3>3
      <4>2. (n + Half8) % (2 * Half8) = m
        <5>1. n + Half8 = m + 2 * Half8 BY <1>2
        <5>2. (m + 2 * Half8) % (2 * Half8) = m
          <6>1. ASSUME NEW w \in Nat \ {0}, NEW y \in 0..(w - 1) PROVE (y + w) % w = y OBVIOUS
          <6> HIDE DEF m
          <6> QED BY <1>2, <4>1, <6>1
        <5> QED BY <5>1, <5>2
      <4>3. Wrap(n, t) = n - 2 * Half8 BY <1>2, <3>1, <4>2
      <4>4. (n - 2 * Half8) % (2 * Half8) = n
        <5>1. ASSUME NEW w \in Nat \ {0}, NEW y \in 0..(w - 1) PROVE (y - w) % w = y OBVIOUS
        <5> QED BY <1>2, <1>3, <2>2, <5>1
      <4> QED BY <4>3, <4>4
    <3> QED BY <1>2, <3>2, <3>3
  <2> QED BY <1>4, <2>1, <2>2 DEF ReadInt
<1>5. CASE t # "sbyte"
  <2>1. ReadInt(t, Wrap(n, t)) = Wrap(n, t)
    <3>1. CASE t = "byte" BY <1>1, <1>2, <1>3, <3>1, ModId DEF ReadInt
    <3>2. CASE t # "byte" BY <1>5, <3>2 DEF ReadInt
    <3> QED BY <3>1, <3>2
  <2> QED BY <1>1, <1>5, <2>1, WrapId
<1> QED BY <1>4, <1>5

\* An integer comes back just from the types that IntBack says.
LEMMA IntRoundTrip ==
    ASSUME NEW t, NEW n \in Fixnum, NEW p, p = t \/ (t = "any" /\ p = "none"), t # "none"
    PROVE  LET o == FromInt(n, p) IN
             /\ o = Raise \/ o = Done(One(Target(p), Wrap(n, Target(p))))
             /\ IntBack(n, t) <=> /\ o # Raise /\ (t = "any" \/ Target(p) = t)
                                  /\ ReadInt(Target(p), Wrap(n, Target(p))) = n
<1> DEFINE o == FromInt(n, p)
           T == Target(p)
<1>1. n \in Int BY ValuesAssumption DEF Fixnum
<1>2. Raise # Done(One(T, Wrap(n, T))) BY DEF Raise, Done
<1>3. o = IF T \in Narrow /\ n \notin Bits("int32") THEN Raise ELSE Done(One(T, Wrap(n, T)))
  BY DEF FromInt
<1>4. T \in IntType BY IntTarget
<1>5. ReadInt(T, Wrap(n, T)) = n <=> n \in Bits(IF T = "sbyte" THEN "byte" ELSE T)
  BY <1>1, <1>4, ReadWrapped
<1>6. CASE t = "any"
  <2>1. T = "int32" /\ T \notin Narrow /\ T # "sbyte" BY <1>6, IntTarget DEF Narrow
  <2>2. IntBack(n, t) <=> n \in Bits("int32") BY <1>6 DEF IntBack, IntType
  <2> QED BY <1>2, <1>3, <1>5, <1>6, <2>1, <2>2
<1>7. CASE t \in IntType
  <2>1. T = t /\ t # "any" BY <1>7, IntTarget DEF IntType
  <2>2. IntBack(n, t) <=> n \in Bits(IF T = "sbyte" THEN "byte" ELSE T)
    BY <1>7, <2>1 DEF IntBack, IntType
  <2>3. T \in Narrow => Bits(IF T = "sbyte" THEN "byte" ELSE T) \subseteq Bits("int32")
    BY HalfFacts DEF Narrow
  <2> QED BY <1>2, <1>3, <1>5, <2>1, <2>2, <2>3
<1>8. CASE t # "any" /\ t \notin IntType
  <2>1. T # t BY <1>8, IntTarget
  <2>2. ~IntBack(n, t) BY <1>8 DEF IntBack, IntType
  <2> QED BY <1>2, <1>3, <1>8, <2>1, <2>2
<1> QED BY <1>6, <1>7, <1>8

\* A text comes back just if it is ASCII or without an encoding, and has no NUL.
LEMMA TextRead ==
    ASSUME NEW x \in Scalar, x.k \in Stringy
    PROVE  ReadText(Cut[x.v]) = SameScalar(x) <=> TextBack(x)
<1>1. x = [k |-> x.k, v |-> x.v] /\ x.v \in Text /\ (x.k = "binary" => x.v \notin Ascii)
  BY DEF Scalar, Stringy
<1>2. SameScalar(x) = [k |-> IF x.k = "sym" THEN "str" ELSE x.k, v |-> x.v]
  BY <1>1 DEF SameScalar
<1>3. ReadText(Cut[x.v]) = [k |-> IF Cut[x.v] \in Ascii THEN "str" ELSE "binary", v |-> Cut[x.v]]
  BY DEF ReadText
<1>4. ReadText(Cut[x.v]) = SameScalar(x) =>
        /\ Cut[x.v] = x.v
        /\ (IF Cut[x.v] \in Ascii THEN "str" ELSE "binary") = (IF x.k = "sym" THEN "str" ELSE x.k)
  BY <1>2, <1>3
<1> QED BY <1>1, <1>2, <1>3, <1>4 DEF TextBack, Stringy

\* A scalar comes back just if ScalarBack says so.
LEMMA ScalarRoundTrip ==
    ASSUME NEW t, NEW x \in Scalar, NEW p, p = t \/ (t = "any" /\ p = "none"), t # "none"
    PROVE  LET o == FromScalar(x, p) IN
             /\ o.r = "done" => ~o.x.array
             /\ ScalarBack(x, t) <=> o.r = "done" /\ Fits(o.x, t) /\ Extract(o.x) = SameScalar(x)
<1> DEFINE o == FromScalar(x, p)
           Back == o.r = "done" /\ Fits(o.x, t) /\ Extract(o.x) = SameScalar(x)
<1>0. \A u, n : One(u, n).t = u /\ ~One(u, n).array /\ One(u, n).v = <<n>> BY DEF One
<1>1. \A u, n : Extract(One(u, n)) = ReadOne(u, n)
  <2> TAKE u, n
  <2>1. <<n>> # <<>> /\ <<n>>[1] = n OBVIOUS
  <2> QED BY <1>0, <2>1 DEF Extract
<1>2. ASSUME NEW u, NEW n, o = Done(One(u, n))
      PROVE  /\ o.r = "done" => ~o.x.array
             /\ Back <=> (t = "any" \/ u = t) /\ ReadOne(u, n) = SameScalar(x)
  BY <1>0, <1>1, <1>2 DEF Done, Fits
<1> SUFFICES (o.r = "done" => ~o.x.array) /\ (ScalarBack(x, t) <=> Back)
  OBVIOUS
<1>3. ASSUME o.r # "done", ~ScalarBack(x, t)
      PROVE  (o.r = "done" => ~o.x.array) /\ (ScalarBack(x, t) <=> Back)
  BY <1>3
<1> HIDE DEF Back
<1>4. CASE x.k = "int"
  <2>1. x.v \in Fixnum /\ x = [k |-> "int", v |-> x.v] BY <1>4 DEF Scalar
  <2>2. o = FromInt(x.v, p) /\ (ScalarBack(x, t) <=> IntBack(x.v, t))
    BY <1>4 DEF FromScalar, ScalarBack, Stringy
  <2>3. SameScalar(x) = [k |-> "int", v |-> x.v] BY <1>4, <2>1 DEF SameScalar
  <2> DEFINE T == Target(p)
             w == Wrap(x.v, T)
  <2>4. CASE o = Raise
    <3>1. ~IntBack(x.v, t) BY <2>1, <2>2, <2>4, IntRoundTrip
    <3> QED BY <1>3, <2>2, <2>4, <3>1 DEF Raise
  <2>5. CASE o = Done(One(T, w))
    <3>1. o # Raise BY <2>5 DEF Done, Raise
    <3>2. IntBack(x.v, t) <=> (t = "any" \/ T = t) /\ ReadInt(T, w) = x.v
      BY <2>1, <2>2, <3>1, IntRoundTrip
    <3>3. ReadOne(T, w) = [k |-> "int", v |-> ReadInt(T, w)] BY IntTarget DEF ReadOne, IntType
    <3>4. ReadOne(T, w) = SameScalar(x) <=> ReadInt(T, w) = x.v
      <4>1. \A y, z : [k |-> "int", v |-> y] = [k |-> "int", v |-> z] <=> y = z OBVIOUS
      <4> QED BY <2>3, <3>3, <4>1
    <3> QED BY <1>2, <2>2, <2>5, <3>2, <3>4
  <2> QED BY <2>1, <2>2, <2>4, <2>5, IntRoundTrip
<1>5. CASE x.k = "float"
  <2>1. x = [k |-> "float", v |-> x.v] BY <1>5 DEF Scalar
  <2>2. o = Done(One("double", x.v)) BY <1>5 DEF FromScalar, Stringy
  <2>3. ReadOne("double", x.v) = SameScalar(x) BY <1>5, <2>1 DEF ReadOne, IntType, SameScalar
  <2>4. ScalarBack(x, t) <=> t \in {"double", "any"} BY <1>5 DEF ScalarBack, Stringy
  <2> QED BY <1>2, <2>2, <2>3, <2>4
<1>6. CASE x.k = "time"
  <2>1. x = [k |-> "time", v |-> x.v] /\ x.v \in Int BY <1>6 DEF Scalar
  <2>2. o = Done(One("datetime", Seconds(x.v))) BY <1>6 DEF FromScalar, Stringy
  <2>3. ReadOne("datetime", Seconds(x.v)) = [k |-> "time", v |-> Seconds(Seconds(x.v))]
    BY DEF ReadOne, IntType
  <2>4. SameScalar(x) = [k |-> "time", v |-> x.v] BY <1>6, <2>1 DEF SameScalar
  <2>5. Seconds(Seconds(x.v)) = x.v <=> x.v % Tick = 0 BY <2>1, SecondsFacts
  <2>6. ReadOne("datetime", Seconds(x.v)) = SameScalar(x) <=> x.v % Tick = 0
    <3>1. \A y, z : [k |-> "time", v |-> y] = [k |-> "time", v |-> z] <=> y = z OBVIOUS
    <3> QED BY <2>3, <2>4, <2>5, <3>1
  <2>7. ScalarBack(x, t) <=> t \in {"datetime", "any"} /\ x.v % Tick = 0 BY <1>6 DEF ScalarBack, Stringy
  <2> QED BY <1>2, <2>2, <2>6, <2>7
<1>7. CASE x.k = "bool"
  <2>1. x = [k |-> "bool", v |-> x.v] BY <1>7 DEF Scalar
  <2>2. o = Done(One("boolean", x.v)) BY <1>7 DEF FromScalar, Stringy
  <2>3. ReadOne("boolean", x.v) = SameScalar(x) BY <1>7, <2>1 DEF ReadOne, IntType, SameScalar
  <2>4. ScalarBack(x, t) <=> t \in {"boolean", "any"} BY <1>7 DEF ScalarBack, Stringy
  <2> QED BY <1>2, <2>2, <2>3, <2>4
<1>8. CASE x.k \in Stringy
  <2> DEFINE T == TextTarget(p)
  <2>1. o = Done(One(T, Cut[x.v])) BY <1>8 DEF FromScalar, Stringy
  <2>2. ScalarBack(x, t) <=> t \in {"string", "bytestring", "any"} /\ TextBack(x)
    BY <1>8 DEF ScalarBack, Stringy
  <2>3. CASE T = "nodeid"
    <3>1. t = "nodeid" BY <2>3 DEF TextTarget
    <3>2. ReadOne(T, Cut[x.v]) = Nil BY <2>3 DEF ReadOne, IntType
    <3>3. SameScalar(x).k \in Stringy BY <1>8 DEF SameScalar, Stringy, Scalar
    <3>4. Nil.k \notin Stringy BY DEF Nil, Stringy
    <3> QED BY <1>2, <2>1, <2>2, <3>1, <3>2, <3>3, <3>4
  <2>4. CASE T \in {"string", "bytestring"}
    <3>1. t \in {"string", "bytestring", "any"} <=> t = "any" \/ T = t BY <2>4 DEF TextTarget
    <3>2. ReadOne(T, Cut[x.v]) = ReadText(Cut[x.v]) BY <2>4 DEF ReadOne, IntType
    <3> QED BY <1>2, <1>8, <2>1, <2>2, <3>1, <3>2, TextRead
  <2> QED BY <2>3, <2>4 DEF TextTarget
<1>9. CASE x.k \in {"nil", "other"}
  <2>1. o.r = "not" BY <1>9 DEF FromScalar, NotDone, Stringy
  <2>2. ~ScalarBack(x, t) BY <1>9 DEF ScalarBack, Stringy
  <2> QED BY <1>3, <2>1, <2>2
<1>10. x.k \in {"int", "float", "time", "bool", "nil", "other"} \cup Stringy BY DEF Scalar, Stringy
<1> QED BY <1>4, <1>5, <1>6, <1>7, <1>8, <1>9, <1>10

\* An array comes back just if each of its elements does and all are of one kind.
LEMMA ArrayRoundTrip ==
    ASSUME NEW t, NEW a \in Seq(Scalar), NEW first \in First(a)
    PROVE  LET o == FromArray(a, first) IN
             /\ o.r = "done" => o.x.array
             /\ (a # <<>> /\ \A i \in DOMAIN a : ElementBack(a[i], t) /\ Alike(a[i], a[1]))
                <=> /\ o.r = "done" /\ Fits(o.x, t)
                    /\ Extract(o.x) = [k |-> "array", a |-> [i \in DOMAIN a |-> SameElement(a[i])]]
<1> DEFINE o == FromArray(a, first)
           S == [i \in DOMAIN a |-> SameElement(a[i])]
           Back == o.r = "done" /\ Fits(o.x, t) /\ Extract(o.x) = [k |-> "array", a |-> S]
           Each == a # <<>> /\ \A i \in DOMAIN a : ElementBack(a[i], t) /\ Alike(a[i], a[1])
<1> SUFFICES (o.r = "done" => o.x.array) /\ (Each <=> Back) OBVIOUS
<1>1. DOMAIN a = 1..Len(a) /\ Len(a) \in Nat /\ \A i \in DOMAIN a : a[i] \in Scalar
  OBVIOUS
<1>2. \A u, s : Many(u, s).t = u /\ Many(u, s).array /\ Many(u, s).v = s BY DEF Many
<1>r. Raise.r = "raise" /\ NotDone.r = "not" BY DEF Raise, NotDone
<1>3. ASSUME a = <<>> PROVE (o.r = "done" => o.x.array) /\ ~Each /\ ~Back
  <2>1. DOMAIN a = {} BY <1>3
  <2>2. ASSUME NEW u, NEW s, o = Done(Many(u, s)), s = <<>> PROVE o.x.array /\ Extract(o.x) = Nil
    BY <1>2, <2>2 DEF Done, Extract
  <2>3. \A s : Nil # [k |-> "array", a |-> s]
    <3>1. Nil.k = "nil" BY DEF Nil
    <3>2. \A s : [k |-> "array", a |-> s].k = "array" OBVIOUS
    <3> QED BY <3>1, <3>2
  <2>4. \A f : [i \in DOMAIN a |-> f[i]] = <<>> BY <2>1
  <2>5. /\ [i \in DOMAIN a |-> IF i % 8 = 1 THEN 0 ELSE 1] = <<>>
        /\ [i \in DOMAIN a |-> IF a[i] = False THEN 0 ELSE 1] = <<>>
        /\ [i \in DOMAIN a |-> Number(a[i])] = <<>> /\ [i \in DOMAIN a |-> Letters(a[i])] = <<>>
    BY <2>1
  <2>6. (\E u, s : o = Done(Many(u, s)) /\ s = <<>>) \/ o = Raise \/ o = NotDone
    BY <2>5 DEF FromArray, Stringy
  <2> QED BY <1>3, <1>r, <2>2, <2>3, <2>6
<1>4. ASSUME NEW u, NEW s, o = Done(Many(u, s)), DOMAIN s = DOMAIN a, a # <<>>,
             u \in {"boolean", "double", "string"},
             \A i \in DOMAIN a : /\ ReadOne(u, s[i]) = SameElement(a[i]) /\ (t = "any" \/ u = t)
                                 <=> ElementBack(a[i], t) /\ Alike(a[i], a[1])
      PROVE  o.x.array /\ (Each <=> Back)
  <2>1. o.r = "done" /\ o.x = Many(u, s) BY <1>4 DEF Done
  <2>2. 1 \in DOMAIN a /\ s # <<>>
    <3>1. DOMAIN <<>> = {} OBVIOUS
    <3>2. 1 \in DOMAIN a BY <1>4
    <3> QED BY <1>4, <3>1, <3>2
  <2>3. u \notin NotInArrays /\ ReadOne(u, 0) # Nil
    BY <1>4 DEF NotInArrays, ReadOne, Nil, ReadText, IntType
  <2>4. Extract(o.x) = [k |-> "array", a |-> [i \in DOMAIN s |-> ReadOne(u, s[i])]]
    BY <1>2, <2>1, <2>2, <2>3 DEF Extract
  <2> DEFINE R == [i \in DOMAIN a |-> ReadOne(u, s[i])]
  <2>5. Extract(o.x) = [k |-> "array", a |-> R] BY <1>4, <2>4
  <2>6. Extract(o.x) = [k |-> "array", a |-> S] <=> R = S
    <3>1. \A y, z : [k |-> "array", a |-> y] = [k |-> "array", a |-> z] <=> y = z OBVIOUS
    <3> HIDE DEF R, S
    <3> QED BY <2>5, <3>1
  <2>7. R = S <=> \A i \in DOMAIN a : ReadOne(u, s[i]) = SameElement(a[i])
    <3>1. ASSUME R = S, NEW i \in DOMAIN a PROVE ReadOne(u, s[i]) = SameElement(a[i])
      <4>1. R[i] = S[i] BY <3>1
      <4> QED BY <4>1
    <3>2. ASSUME \A i \in DOMAIN a : ReadOne(u, s[i]) = SameElement(a[i]) PROVE R = S
      BY <3>2
    <3> QED BY <3>1, <3>2
  <2>8. Fits(o.x, t) <=> t = "any" \/ u = t BY <1>2, <2>1 DEF Fits
  <2> QED BY <1>2, <1>4, <2>1, <2>2, <2>6, <2>7, <2>8
<1>5. ASSUME a # <<>> PROVE first = a[1].k /\ 1 \in DOMAIN a /\ a[1] \in Scalar
  BY <1>1, <1>5 DEF First
<1>6. CASE a # <<>> /\ first = "bool"
  <2> DEFINE s == [i \in DOMAIN a |-> IF a[i] = False THEN 0 ELSE 1]
  <2>1. o = Done(Many("boolean", s)) BY <1>6 DEF FromArray, Stringy
  <2>2. ASSUME NEW i \in DOMAIN a
        PROVE  ReadOne("boolean", s[i]) = SameElement(a[i]) /\ (t = "any" \/ "boolean" = t)
               <=> ElementBack(a[i], t) /\ Alike(a[i], a[1])
    <3>1. ReadOne("boolean", s[i]) = [k |-> "bool", v |-> s[i]] BY DEF ReadOne, IntType
    <3>2. Alike(a[i], a[1]) <=> a[i].k = "bool" BY <1>5, <1>6 DEF Alike, Stringy
    <3>3. CASE a[i].k = "bool"
      <4>1. a[i] = [k |-> "bool", v |-> a[i].v] /\ a[i].v \in {0, 1}
        BY <1>1, <3>3 DEF Scalar
      <4>2. s[i] = a[i].v BY <4>1 DEF False
      <4>3. SameElement(a[i]) = a[i] BY <3>3 DEF SameElement, SameScalar
      <4>4. ElementBack(a[i], t) <=> t \in {"boolean", "any"} BY <3>3 DEF ElementBack, Stringy
      <4> QED BY <3>1, <3>2, <3>3, <4>1, <4>2, <4>3, <4>4
    <3>4. CASE a[i].k # "bool"
      <4>1. SameElement(a[i]).k # "bool" BY <1>1, <3>4 DEF SameElement, SameScalar, Scalar
      <4>2. [k |-> "bool", v |-> s[i]].k = "bool" OBVIOUS
      <4> QED BY <3>1, <3>2, <3>4, <4>1, <4>2
    <3> QED BY <3>3, <3>4
  <2> QED BY <1>4, <1>6, <2>1, <2>2
<1>7. CASE a # <<>> /\ first \in {"int", "float"}
  <2> DEFINE s == [i \in DOMAIN a |-> Number(a[i])]
  <2>1. o = Done(Many("double", s)) BY <1>7 DEF FromArray, Stringy
  <2>2. ASSUME NEW i \in DOMAIN a
        PROVE  ReadOne("double", s[i]) = SameElement(a[i]) /\ (t = "any" \/ "double" = t)
               <=> ElementBack(a[i], t) /\ Alike(a[i], a[1])
    <3>1. ReadOne("double", s[i]) = [k |-> "float", v |-> s[i]] BY DEF ReadOne, IntType
    <3>2. Alike(a[i], a[1]) <=> a[i].k \in {"int", "float"} BY <1>5, <1>7 DEF Alike, Stringy
    <3>3. CASE a[i].k = "float"
      <4>1. a[i] = [k |-> "float", v |-> a[i].v] BY <1>1, <3>3 DEF Scalar
      <4>2. SameElement(a[i]) = a[i] /\ s[i] = a[i].v BY <3>3 DEF SameElement, SameScalar, Number
      <4>3. ElementBack(a[i], t) <=> t \in {"double", "any"} BY <3>3 DEF ElementBack, Stringy
      <4> QED BY <3>1, <3>2, <3>3, <4>1, <4>2, <4>3
    <3>4. CASE a[i].k = "int"
      <4>1. a[i] = [k |-> "int", v |-> a[i].v] BY <1>1, <3>4 DEF Scalar
      <4>2. SameElement(a[i]) = [k |-> "float", v |-> a[i].v] BY <3>4, <4>1 DEF SameElement
      <4>3. s[i] = Round(a[i].v) BY <3>4 DEF Number
      <4>4. ElementBack(a[i], t) <=> t \in {"double", "any"} /\ Round(a[i].v) = a[i].v
        BY <3>4 DEF ElementBack, Stringy
      <4>5. \A y, z : [k |-> "float", v |-> y] = [k |-> "float", v |-> z] <=> y = z OBVIOUS
      <4> QED BY <3>1, <3>2, <3>4, <4>2, <4>3, <4>4, <4>5
    <3>5. CASE a[i].k \notin {"int", "float"}
      <4>1. SameElement(a[i]).k # "float" BY <1>1, <3>5 DEF SameElement, SameScalar, Scalar
      <4>2. [k |-> "float", v |-> s[i]].k = "float" OBVIOUS
      <4> QED BY <3>1, <3>2, <3>5, <4>1, <4>2
    <3> QED BY <3>3, <3>4, <3>5
  <2> QED BY <1>4, <1>7, <2>1, <2>2
<1>8. CASE a # <<>> /\ first \in Stringy
  <2> DEFINE s == [i \in DOMAIN a |-> Letters(a[i])]
  <2>1. o = Done(Many("string", s)) BY <1>8 DEF FromArray, Stringy
  <2>2. ASSUME NEW i \in DOMAIN a
        PROVE  ReadOne("string", s[i]) = SameElement(a[i]) /\ (t = "any" \/ "string" = t)
               <=> ElementBack(a[i], t) /\ Alike(a[i], a[1])
    <3>1. ReadOne("string", s[i]) = ReadText(s[i]) BY DEF ReadOne, IntType
    <3>2. Alike(a[i], a[1]) <=> a[i].k \in Stringy BY <1>5, <1>8 DEF Alike, Stringy
    <3>3. CASE a[i].k \in Stringy
      <4>1. s[i] = Cut[a[i].v] BY <3>3 DEF Letters
      <4>2. SameElement(a[i]) = SameScalar(a[i]) BY <3>3 DEF SameElement, Stringy
      <4>3. ElementBack(a[i], t) <=> t \in {"string", "any"} /\ TextBack(a[i])
        BY <3>3 DEF ElementBack, Stringy
      <4>4. ReadText(Cut[a[i].v]) = SameScalar(a[i]) <=> TextBack(a[i]) BY <1>1, <3>3, TextRead
      <4> QED BY <3>1, <3>2, <3>3, <4>1, <4>2, <4>3, <4>4
    <3>4. CASE a[i].k \notin Stringy
      <4>1. SameElement(a[i]).k \notin {"str", "binary"}
        BY <1>1, <3>4 DEF SameElement, SameScalar, Scalar, Stringy
      <4>2. ReadText(s[i]).k \in {"str", "binary"} BY DEF ReadText
      <4> QED BY <3>1, <3>2, <3>4, <4>1, <4>2
    <3> QED BY <3>3, <3>4
  <2> QED BY <1>4, <1>8, <2>1, <2>2
<1>9. CASE a # <<>> /\ first \notin {"bool", "int", "float"} \cup Stringy
  <2>1. ~ElementBack(a[1], t) BY <1>5, <1>9 DEF ElementBack, Stringy
  <2>2. CASE first = "time"
    <3> DEFINE s == [i \in DOMAIN a |-> IF i % 8 = 1 THEN 0 ELSE 1]
    <3>1. o = Raise \/ o = Done(Many("boolean", s)) BY <2>2 DEF FromArray, Stringy
    <3>2. ASSUME o = Done(Many("boolean", s)) PROVE o.x.array /\ ~Back
      <4>1. o.x = Many("boolean", s) BY <3>2 DEF Done
      <4>2. DOMAIN s = DOMAIN a /\ s # <<>>
        <5>1. DOMAIN <<>> = {} OBVIOUS
        <5> QED BY <1>5, <1>9, <5>1
      <4> HIDE DEF s
      <4>3. ReadOne("boolean", 0) # Nil /\ "boolean" \notin NotInArrays
        BY DEF ReadOne, Nil, NotInArrays, IntType
      <4>4. Extract(o.x) = [k |-> "array", a |-> [i \in DOMAIN s |-> ReadOne("boolean", s[i])]]
        BY <1>2, <4>1, <4>2, <4>3 DEF Extract
      <4>5. Extract(o.x).a[1].k = "bool"
        <5>1. Extract(o.x).a = [i \in DOMAIN s |-> ReadOne("boolean", s[i])] BY <4>4
        <5>2. Extract(o.x).a[1] = ReadOne("boolean", s[1]) BY <1>5, <1>9, <4>2, <5>1
        <5> QED BY <5>2 DEF ReadOne, IntType
      <4>6. S[1].k = "time" BY <1>5, <1>9, <2>2 DEF SameElement, SameScalar
      <4>7. [k |-> "array", a |-> S].a = S OBVIOUS
      <4> QED BY <1>2, <4>1, <4>5, <4>6, <4>7
    <3> QED BY <1>5, <1>9, <1>r, <2>1, <3>1, <3>2
  <2>3. CASE first # "time"
    <3>1. o = NotDone BY <1>9, <2>3 DEF FromArray, Stringy
    <3> QED BY <1>5, <1>9, <1>r, <2>1, <3>1
  <2> QED BY <2>2, <2>3
<1> HIDE DEF Back, Each
<1> QED BY <1>3, <1>6, <1>7, <1>8, <1>9

\* The two together: a value comes back from a variable just if ComesBack says so, for
\* every width, text and float.
THEOREM RoundTrip ==
    ASSUME NEW t, NEW x \in Ruby, NEW p, p = t \/ (t = "any" /\ p = "none"), t # "none",
           NEW o \in Conversions(x, p)
    PROVE  /\ ComesBack(x, t) <=> o.r = "done" /\ Fits(o.x, t) /\ Extract(o.x) = Same(x)
           /\ o.r = "done" => (o.x.array <=> x.k = "array")
<1>1. CASE x.k = "array"
  <2>1. x.a \in Seq(Scalar) BY <1>1 DEF Ruby, Scalar
  <2>2. PICK first \in First(x.a) : o = FromArray(x.a, first) BY <1>1 DEF Conversions
  <2>3. Same(x) = [k |-> "array", a |-> [i \in DOMAIN x.a |-> SameElement(x.a[i])]]
    BY <1>1 DEF Same
  <2>4. ComesBack(x, t) <=> x.a # <<>> /\ \A i \in DOMAIN x.a : ElementBack(x.a[i], t) /\ Alike(x.a[i], x.a[1])
    BY <1>1 DEF ComesBack
  <2> QED BY <1>1, <2>1, <2>2, <2>3, <2>4, ArrayRoundTrip
<1>2. CASE x.k # "array"
  <2>1. x \in Scalar BY <1>2 DEF Ruby
  <2>2. (ComesBack(x, t) <=> ScalarBack(x, t)) /\ o = FromScalar(x, p) /\ Same(x) = SameScalar(x)
    BY <1>2 DEF ComesBack, Conversions, Same
  <2> QED BY <1>2, <2>1, <2>2, ScalarRoundTrip
<1> QED BY <1>1, <1>2

-----------------------------------------------------------------------------
(* Types *)

LEMMA TypeFacts ==
    /\ IntType \cup {"double", "datetime", "boolean", "string", "bytestring", "nodeid"} \subseteq Type
    /\ \A t \in Type : t # "any" /\ t # "custom" /\ t # "none"
<1>1. DOMAIN UaType = 1..17 BY DEF UaType
<1>2. /\ UaType[1] = "boolean" /\ UaType[2] = "sbyte" /\ UaType[3] = "byte"
      /\ UaType[4] = "int16" /\ UaType[5] = "uint16" /\ UaType[6] = "int32"
      /\ UaType[7] = "uint32" /\ UaType[11] = "double" /\ UaType[12] = "string"
      /\ UaType[13] = "datetime" /\ UaType[15] = "bytestring" /\ UaType[17] = "nodeid"
  BY DEF UaType
<1>3. \A i \in 1..17 : UaType[i] \in Type BY <1>1 DEF Type
<1>4. IntType \cup {"double", "datetime", "boolean", "string", "bytestring", "nodeid"} \subseteq Type
  BY <1>2, <1>3 DEF IntType
<1>5. \A i \in 1..17 : UaType[i] # "any" /\ UaType[i] # "custom" /\ UaType[i] # "none"
  BY DEF UaType
<1> QED BY <1>1, <1>4, <1>5 DEF Type

\* The proposal made from the number of a type is that type.
LEMMA ProposalFacts ==
    /\ \A t \in Type : Proposal(t) = t
    /\ Proposal("any") = "none" /\ Proposal("custom") = "none"
<1>1. DOMAIN UaType = 1..17 BY DEF UaType
<1>2. ASSUME NEW t \in Type PROVE Proposal(t) = t
  <2>1. t # "any" /\ t # "custom" BY TypeFacts
  <2>2. \E i \in DOMAIN UaType : UaType[i] = t BY DEF Type
  <2>3. IdOf(t) \in DOMAIN UaType /\ UaType[IdOf(t)] = t
    BY <2>1, <2>2 DEF IdOf
  <2>4. IdOf(t) - 1 + 1 = IdOf(t) BY <1>1, <2>3
  <2> QED BY <2>1, <2>3, <2>4 DEF Proposal, TypeAt
<1>3. Proposal("any") = "none"
  <2>1. IdOf("any") = 24 BY DEF IdOf
  <2>2. 23 + 1 \notin DOMAIN UaType /\ 24 - 1 = 23 BY <1>1
  <2> QED BY <2>1, <2>2 DEF Proposal, TypeAt
<1> QED BY <1>2, <1>3 DEF Proposal

LEMMA SoundFacts ==
    /\ Sound(Unset)
    /\ \A t \in Type \ IntType : \A n \in Int : Sound(One(t, n))
    /\ \A t \in IntType : \A n \in Bits(t) : Sound(One(t, n))
    /\ \A t \in Type \ IntType : \A s \in Seq(Int) : Sound(Many(t, s))
<1>1. <<>> \in Seq(Int) /\ \A n \in Int : <<n>> \in Seq(Int) /\ DOMAIN <<n>> = {1} /\ <<n>>[1] = n
  OBVIOUS
<1>2. Sound(Unset) BY <1>1 DEF Sound, Unset, Variant, IntType
<1>3. \A t \in Type \ IntType : \A n \in Int : Sound(One(t, n)) BY <1>1 DEF Sound, One, Variant
<1>4. ASSUME NEW t \in IntType, NEW n \in Bits(t) PROVE Sound(One(t, n))
  <2>1. t \in Type /\ n \in Int BY TypeFacts, WrapId
  <2> QED BY <1>1, <2>1 DEF Sound, One, Variant
<1>5. \A t \in Type \ IntType : \A s \in Seq(Int) : Sound(Many(t, s)) BY DEF Sound, Many, Variant
<1> QED BY <1>2, <1>3, <1>4, <1>5

\* Whatever is converted, C can hold it.
LEMMA ConversionsSound ==
    ASSUME NEW x \in Ruby, NEW p, NEW o \in Conversions(x, p)
    PROVE  Sound(o.x) /\ (o.r # "done" => o.x = Unset) /\ o.r \in {"done", "not", "raise"}
<1>0. /\ Sound(NotDone.x) /\ NotDone.r = "not" /\ NotDone.x = Unset
      /\ Sound(Raise.x) /\ Raise.r = "raise" /\ Raise.x = Unset
      /\ \A y : Done(y).r = "done" /\ Done(y).x = y
  BY SoundFacts DEF NotDone, Raise, Done
<1>t. /\ {"double", "datetime", "boolean", "string", "bytestring", "nodeid"} \subseteq Type \ IntType
  BY TypeFacts DEF IntType
<1>c. \A s \in Text : Cut[s] \in Int BY ValuesAssumption
<1>1. ASSUME x \in Scalar, o = FromScalar(x, p)
      PROVE  Sound(o.x) /\ (o.r # "done" => o.x = Unset) /\ o.r \in {"done", "not", "raise"}
  <2>1. CASE x.k = "int"
    <3>1. x.v \in Int BY <1>1, <2>1, ValuesAssumption DEF Scalar, Fixnum
    <3>2. Target(p) \in IntType BY DEF Target, IntType
    <3>3. Sound(One(Target(p), Wrap(x.v, Target(p)))) BY <3>1, <3>2, WrapInBits, SoundFacts
    <3>4. o = FromInt(x.v, p) BY <1>1, <2>1 DEF FromScalar, Stringy
    <3> QED BY <1>0, <3>3, <3>4 DEF FromInt
  <2>2. CASE x.k = "float"
    <3>1. x.v \in Int /\ o = Done(One("double", x.v)) BY <1>1, <2>2 DEF Scalar, FromScalar, Stringy
    <3> QED BY <1>0, <1>t, <3>1, SoundFacts
  <2>3. CASE x.k = "time"
    <3>1. x.v \in Int /\ o = Done(One("datetime", Seconds(x.v)))
      BY <1>1, <2>3 DEF Scalar, FromScalar, Stringy
    <3>2. Seconds(x.v) \in Int BY <3>1, SecondsFacts
    <3> QED BY <1>0, <1>t, <3>1, <3>2, SoundFacts
  <2>4. CASE x.k = "bool"
    <3>1. x.v \in Int /\ o = Done(One("boolean", x.v)) BY <1>1, <2>4 DEF Scalar, FromScalar, Stringy
    <3> QED BY <1>0, <1>t, <3>1, SoundFacts
  <2>5. CASE x.k \in Stringy
    <3>1. x.v \in Text /\ o = Done(One(TextTarget(p), Cut[x.v]))
      BY <1>1, <2>5 DEF Scalar, FromScalar, Stringy
    <3>2. TextTarget(p) \in {"string", "bytestring", "nodeid"} BY DEF TextTarget
    <3> QED BY <1>0, <1>t, <1>c, <3>1, <3>2, SoundFacts
  <2>6. CASE x.k \in {"nil", "other"}
    BY <1>0, <1>1, <2>6 DEF FromScalar, Stringy
  <2> QED BY <1>1, <2>1, <2>2, <2>3, <2>4, <2>5, <2>6 DEF Scalar, Stringy
<1>2. ASSUME NEW a \in Seq(Scalar), NEW first, o = FromArray(a, first)
      PROVE  Sound(o.x) /\ (o.r # "done" => o.x = Unset) /\ o.r \in {"done", "not", "raise"}
  <2>1. DOMAIN a = 1..Len(a) /\ Len(a) \in Nat /\ \A i \in DOMAIN a : a[i] \in Scalar OBVIOUS
  <2>2. \A s : (DOMAIN s = DOMAIN a /\ s = [i \in DOMAIN a |-> s[i]] /\ \A i \in DOMAIN a : s[i] \in Int)
                  => s \in Seq(Int)
    BY <2>1
  <2>3. CASE first = "time"
    <3> DEFINE s == [i \in DOMAIN a |-> IF i % 8 = 1 THEN 0 ELSE 1]
    <3>1. s \in Seq(Int) BY <2>2
    <3>2. o = Raise \/ o = Done(Many("boolean", s)) BY <1>2, <2>3 DEF FromArray, Stringy
    <3> QED BY <1>0, <1>t, <3>1, <3>2, SoundFacts
  <2>4. CASE first = "bool"
    <3> DEFINE s == [i \in DOMAIN a |-> IF a[i] = False THEN 0 ELSE 1]
    <3>1. s \in Seq(Int) BY <2>2
    <3>2. o = Done(Many("boolean", s)) BY <1>2, <2>4 DEF FromArray, Stringy
    <3> QED BY <1>0, <1>t, <3>1, <3>2, SoundFacts
  <2>5. CASE first \in {"int", "float"}
    <3> DEFINE s == [i \in DOMAIN a |-> Number(a[i])]
    <3>1. ASSUME NEW i \in DOMAIN a PROVE s[i] \in Int
      <4>1. a[i] \in Scalar BY <2>1
      <4>2. CASE a[i].k = "int"
        <5>1. a[i].v \in Fixnum BY <4>1, <4>2 DEF Scalar
        <5> QED BY <4>2, <5>1, ValuesAssumption DEF Number, Fixnum
      <4>3. CASE a[i].k = "float"
        BY <4>1, <4>3 DEF Number, Scalar
      <4>4. CASE a[i].k \notin {"int", "float"} BY <4>4 DEF Number
      <4> QED BY <4>2, <4>3, <4>4
    <3>2. s \in Seq(Int) BY <2>2, <3>1
    <3>3. o = Done(Many("double", s)) BY <1>2, <2>5 DEF FromArray, Stringy
    <3> QED BY <1>0, <1>t, <3>2, <3>3, SoundFacts
  <2>6. CASE first \in Stringy
    <3> DEFINE s == [i \in DOMAIN a |-> Letters(a[i])]
    <3>1. ASSUME NEW i \in DOMAIN a PROVE s[i] \in Int
      <4>1. a[i] \in Scalar BY <2>1
      <4>2. a[i].k \in Stringy => Cut[a[i].v] \in Int BY <1>c, <4>1 DEF Scalar, Stringy
      <4>3. Blank \in Int BY ValuesAssumption
      <4> QED BY <4>2, <4>3 DEF Letters
    <3>2. s \in Seq(Int) BY <2>2, <3>1
    <3>3. o = Done(Many("string", s)) BY <1>2, <2>6 DEF FromArray, Stringy
    <3> QED BY <1>0, <1>t, <3>2, <3>3, SoundFacts
  <2>7. CASE first \notin {"time", "bool", "int", "float"} \cup Stringy
    BY <1>0, <1>2, <2>7 DEF FromArray, Stringy
  <2> QED BY <2>3, <2>4, <2>5, <2>6, <2>7
<1>3. CASE x.k = "array"
  <2>1. x.a \in Seq(Scalar) BY <1>3 DEF Ruby, Scalar
  <2>2. \E first : o = FromArray(x.a, first) BY <1>3 DEF Conversions
  <2> QED BY <1>2, <2>1, <2>2
<1>4. CASE x.k # "array"
  <2>1. x \in Scalar /\ o = FromScalar(x, p) BY <1>4 DEF Ruby, Conversions
  <2> QED BY <1>1, <2>1
<1> QED BY <1>3, <1>4

LEMMA Listed == ASSUME NEW S, NEW n \in Nat, NEW s \in [1..n -> S] PROVE s \in Seq(S)
<1>1. Seq(S) = UNION {[1..k -> S] : k \in Nat} OBVIOUS
<1> QED BY <1>1, Zenon

LEMMA ExtractTyped == ASSUME NEW x, Sound(x) PROVE Extract(x) \in Read
<1>1. /\ x.array \in BOOLEAN /\ x.v \in Seq(Int) BY DEF Sound, Variant
<1>2. Nil \in [k : Kind, v : Int] BY DEF Nil, Kind
<1>3. ASSUME NEW t, NEW n \in Int PROVE ReadOne(t, n) \in [k : Kind, v : Int]
  <2>1. Seconds(n) \in Int BY SecondsFacts
  <2>2. ReadInt(t, n) \in Int
    <3>1. 2 * Half8 \in Nat \ {0} BY ValuesAssumption
    <3>2. n % (2 * Half8) \in Int BY <3>1, ModRange
    <3> QED BY <3>2 DEF ReadInt
  <2> QED BY <1>2, <2>1, <2>2 DEF ReadOne, Kind, IntType, Stringy, ReadText
<1>4. CASE ~x.array
  <2>1. x.v # <<>> => x.v[1] \in Int BY <1>1
  <2> QED BY <1>2, <1>3, <1>4, <2>1 DEF Extract, Read
<1>5. CASE x.array
  <2> DEFINE s == [i \in DOMAIN x.v |-> ReadOne(x.t, x.v[i])]
  <2>1. DOMAIN x.v = 1..Len(x.v) /\ Len(x.v) \in Nat /\ \A i \in DOMAIN x.v : x.v[i] \in Int
    BY <1>1
  <2>2. \A i \in DOMAIN x.v : s[i] \in [k : Kind, v : Int] BY <1>3, <2>1
  <2>3. s \in Seq([k : Kind, v : Int])
    <3> HIDE DEF s
    <3>1. s = [i \in 1..Len(x.v) |-> s[i]] BY <2>1 DEF s
    <3>2. s \in [1..Len(x.v) -> [k : Kind, v : Int]] BY <2>1, <2>2, <3>1
    <3>3. Len(x.v) \in Nat BY <2>1
    <3> QED BY <3>2, <3>3, Listed
  <2>4. Extract(x) = Nil \/ Extract(x) = [k |-> "array", a |-> s] BY <1>5 DEF Extract
  <2> QED BY <1>2, <2>3, <2>4 DEF Read
<1> QED BY <1>1, <1>4, <1>5

-----------------------------------------------------------------------------
(* Values *)

LEMMA TypeFactsOfTarget ==
    ASSUME TypeOK, IsNode
    PROVE  target.type \in Type \cup {"any", "custom"} /\ (target.what = "own" => target.type = "any")
<1>1. target \in Own \cup Others BY DEF TypeOK, IsNode, Method
<1> QED BY <1>1, ExchangeAssumption DEF Own, Others

\* Nothing comes back from a variable of a custom type: its variants have another.
LEMMA NothingCustom ==
    /\ \A x \in Ruby : ~ComesBack(x, "custom")
    /\ \A x : Sound(x) => ~Fits(x, "custom")
<1>1. \A y : ~ScalarBack(y, "custom") /\ ~ElementBack(y, "custom")
  BY DEF ScalarBack, ElementBack, IntBack, IntType, Stringy
<1>2. ASSUME NEW x \in Ruby, x.k = "array" PROVE ~ComesBack(x, "custom")
  <2>1. x.a \in Seq(Scalar) BY <1>2 DEF Ruby, Scalar
  <2>2. x.a # <<>> => 1 \in DOMAIN x.a BY <2>1
  <2> QED BY <1>1, <1>2, <2>2 DEF ComesBack
<1>3. ASSUME NEW x, Sound(x) PROVE ~Fits(x, "custom")
  <2>1. x.t \in Type \cup {"none"} BY <1>3 DEF Sound, Variant
  <2> QED BY <2>1, TypeFacts DEF Fits
<1> QED BY <1>1, <1>2, <1>3 DEF ComesBack

\* A client's conversion for the variable in use.
LEMMA ForTarget ==
    ASSUME TypeOK, IsNode, NEW x \in Ruby, NEW o \in Conversions(x, Proposal(target.type))
    PROVE  ComesBack(x, target.type) <=>
             o.r = "done" /\ Fits(o.x, target.type) /\ Extract(o.x) = Same(x)
<1>1. CASE target.type = "custom"
  <2>1. Sound(o.x) BY ConversionsSound
  <2> QED BY <1>1, <2>1, NothingCustom
<1>2. CASE target.type # "custom"
  <2>1. target.type \in Type \/ target.type = "any" BY <1>2, TypeFactsOfTarget
  <2>2. Proposal(target.type) = target.type \/ (target.type = "any" /\ Proposal(target.type) = "none")
    BY <2>1, ProposalFacts
  <2>3. target.type # "none" BY <2>1, TypeFacts
  <2> QED BY <2>2, <2>3, RoundTrip
<1> QED BY <1>1, <1>2

LEMMA UnknownFacts == Unknown \notin Ruby
BY DEF Unknown, Ruby, Scalar

\* What becomes of a value that is converted to o.
Outcome(x, o) ==
    \/ o.r = "done" /\ Fits(o.x, target.type) /\ held' = o.x /\ outcome' = "stored"
    \/ o.r = "not" /\ outcome' = "ignored" /\ UNCHANGED held
    \/ /\ o.r = "raise" \/ (o.r = "done" /\ ~Fits(o.x, target.type))
       /\ outcome' = "refused" /\ UNCHANGED held

\* A step that writes, or tries to.
LEMMA WriteStep ==
    ASSUME TypeOK, ReadsBack, IsNode, NEW x \in Written, NEW o,
           Sound(o.x),
           ComesBack(x, target.type) <=>
             o.r = "done" /\ Fits(o.x, target.type) /\ Extract(o.x) = Same(x),
           Outcome(x, o), put' = x, UNCHANGED <<target, call, gone>>
    PROVE  TypeOK' /\ ReadsBack'
<1>1. x \in Ruby BY ExchangeAssumption
<1>2. Sound(held') /\ outcome' \in {"stored", "ignored", "refused"} /\ put' \in Ruby \cup {Unknown}
  BY <1>1 DEF TypeOK, Outcome
<1>3. TypeOK' BY <1>2 DEF TypeOK
<1>4. target' = target OBVIOUS
<1>5. outcome' = "stored" =>
        o.r = "done" /\ Fits(o.x, target.type) /\ held' = o.x
  BY DEF Outcome
<1>6. ComesBack(x, target.type) => outcome' = "stored" BY DEF Outcome
<1>7. ReadsBack'
  <2>1. ComesBack(x, target.type) => outcome' = "stored" /\ Extract(held') = Same(x)
    BY <1>5, <1>6
  <2>2. ~ComesBack(x, target.type) => (outcome' = "stored" => Extract(held') # Same(x))
    BY <1>5
  <2> QED BY <1>4, <2>1, <2>2 DEF ReadsBack, Value, IsNode
<1> QED BY <1>3, <1>7

LEMMA ClientWriteStep ==
    ASSUME TypeOK, ReadsBack, NEW x \in Written, ClientWrite(x) PROVE TypeOK' /\ ReadsBack'
<1>1. x \in Ruby /\ IsNode /\ put' = x /\ UNCHANGED <<target, call, gone>>
  BY ExchangeAssumption DEF ClientWrite
<1>2. PICK o \in Conversions(x, Proposal(target.type)) : Outcome(x, o)
  BY DEF ClientWrite, Outcome
<1>3. Sound(o.x) BY <1>1, ConversionsSound
<1>4. ComesBack(x, target.type) <=>
        o.r = "done" /\ Fits(o.x, target.type) /\ Extract(o.x) = Same(x)
  BY <1>1, ForTarget
<1> QED BY <1>1, <1>2, <1>3, <1>4, WriteStep

LEMMA OwnWriteStep ==
    ASSUME TypeOK, ReadsBack, NEW x \in Written, OwnWrite(x) PROVE TypeOK' /\ ReadsBack'
<1>1. x \in Ruby /\ IsNode /\ target.type = "any" /\ put' = x /\ UNCHANGED <<target, call, gone>>
  <2>1. x \in Ruby /\ IsNode /\ target.what = "own" BY ExchangeAssumption DEF OwnWrite, IsNode
  <2> QED BY <2>1, TypeFactsOfTarget DEF OwnWrite
<1>2. PICK o \in Conversions(x, "none") : Outcome(x, o)
  BY <1>1 DEF OwnWrite, Outcome, Fits
<1>3. Sound(o.x) BY <1>1, ConversionsSound
<1>4. ComesBack(x, target.type) <=>
        o.r = "done" /\ Fits(o.x, target.type) /\ Extract(o.x) = Same(x)
  BY <1>1, RoundTrip
<1> QED BY <1>1, <1>2, <1>3, <1>4, WriteStep

LEMMA OtherWrites ==
    ASSUME TypeOK, ReadsBack,
           \/ \E x \in Written : \E p \in Type \cup {"none"} : ClientWriteBlind(x, p)
           \/ \E x \in Foreign : ForeignWrite(x)
    PROVE  TypeOK' /\ ReadsBack'
<1>1. /\ Sound(held') /\ put' = Unknown /\ UNCHANGED <<target, call, gone, outcome>>
  <2>1. ASSUME NEW x \in Written, NEW p, ClientWriteBlind(x, p)
        PROVE  Sound(held') /\ put' = Unknown /\ UNCHANGED <<target, call, gone, outcome>>
    <3>1. x \in Ruby BY ExchangeAssumption
    <3>2. PICK o \in Conversions(x, p) : held' = o.x BY <2>1 DEF ClientWriteBlind
    <3>3. Sound(held') BY <3>1, <3>2, ConversionsSound
    <3> QED BY <2>1, <3>3 DEF ClientWriteBlind
  <2>2. ASSUME NEW x \in Foreign, ForeignWrite(x)
        PROVE  Sound(held') /\ put' = Unknown /\ UNCHANGED <<target, call, gone, outcome>>
    <3>1. Sound(x) BY ExchangeAssumption
    <3> QED BY <2>2, <3>1 DEF ForeignWrite
  <2> QED BY <2>1, <2>2
<1>2. TypeOK' BY <1>1 DEF TypeOK
<1>3. ReadsBack' BY <1>1 DEF ReadsBack, IsNode
<1> QED BY <1>2, <1>3

-----------------------------------------------------------------------------
(* Calls *)

LEMMA GivensFacts == ASSUME NEW given \in Givens PROVE given \in Seq(Passed)
<1>1. \A x \in Passed : <<x>> \in Seq(Passed) OBVIOUS
<1>2. \A x, y \in Passed : <<x, y>> \in Seq(Passed) OBVIOUS
<1>3. <<>> \in Seq(Passed) OBVIOUS
<1>4. CASE given = <<>> BY <1>3, <1>4
<1>5. CASE \E x \in Passed : given = <<x>> BY <1>1, <1>5
<1>6. CASE \E x, y \in Passed : given = <<x, y>> BY <1>2, <1>6
<1> QED BY <1>4, <1>5, <1>6 DEF Givens

\* What is sent for an argument, C can hold.
LEMMA SendableSound ==
    ASSUME NEW given \in Seq(Passed), NEW i \in DOMAIN given, NEW x \in Sendable(given, i)
    PROVE  Sound(x)
<1>1. given[i] \in Ruby BY ExchangeAssumption
<1>2. CASE x \in Stale BY <1>2, ExchangeAssumption
<1>3. CASE \E o \in Outcomes(given, i) : x = o.x
  <2>1. PICK o \in Outcomes(given, i) : x = o.x BY <1>3
  <2>2. PICK p \in ArgProposal(i) : o \in Conversions(given[i], p) BY <2>1 DEF Outcomes
  <2> QED BY <1>1, <2>1, <2>2, ConversionsSound
<1> QED BY <1>2, <1>3 DEF Sendable

\* An argument that is not nil is sent as an acceptable variant that reads the same just
\* if it is no array and comes back from a variable of the input's type.
LEMMA SendableExact ==
    ASSUME NEW given \in Seq(Passed), NEW i \in DOMAIN given, i \in 1..Arity,
           target.inputs[i] \in Type \cup {"custom"}, given[i] # Nil,
           NEW x \in Sendable(given, i)
    PROVE  given[i].k # "array" /\ ComesBack(given[i], target.inputs[i]) <=>
             ~x.array /\ Fits(x, target.inputs[i]) /\ Extract(x) = Same(given[i])
<1> DEFINE t == target.inputs[i]
<1>1. given[i] \in Ruby /\ Sound(x) BY ExchangeAssumption, SendableSound
<1>2. CASE t = "custom" BY <1>1, <1>2, NothingCustom
<1>3. CASE t # "custom"
  <2>1. t \in Type /\ t # "none" BY <1>3, TypeFacts
  <2>2. ArgProposal(i) = {t} BY <1>3, <2>1, ProposalFacts DEF ArgProposal
  <2>3. Outcomes(given, i) = Conversions(given[i], t) BY <2>2 DEF Outcomes
  <2>4. ASSUME NEW o \in Outcomes(given, i), o.r = "done", x = o.x
        PROVE  given[i].k # "array" /\ ComesBack(given[i], t) <=>
                 ~x.array /\ Fits(x, t) /\ Extract(x) = Same(given[i])
    <3>1. o \in Conversions(given[i], t) BY <2>3
    <3>2. /\ ComesBack(given[i], t) <=> o.r = "done" /\ Fits(o.x, t) /\ Extract(o.x) = Same(given[i])
          /\ o.x.array <=> given[i].k = "array"
      <4>1. given[i] \in Ruby /\ t # "none" BY <1>1, <2>1
      <4> HIDE DEF t
      <4>2. /\ ComesBack(given[i], t) <=> o.r = "done" /\ Fits(o.x, t) /\ Extract(o.x) = Same(given[i])
            /\ o.r = "done" => (o.x.array <=> given[i].k = "array")
        BY <3>1, <4>1, RoundTrip
      <4> QED BY <2>4, <4>2
    <3> QED BY <2>4, <3>2
  <2>5. ASSUME NotDone \in Outcomes(given, i)
        PROVE  /\ ~(given[i].k # "array" /\ ComesBack(given[i], t))
               /\ ~(~x.array /\ Fits(x, t) /\ Extract(x) = Same(given[i]))
    <3>1. NotDone.r # "done" BY DEF NotDone
    <3>2. ~ComesBack(given[i], t) BY <1>1, <2>1, <2>3, <2>5, <3>1, RoundTrip
    <3>3. given[i].k \in {"array", "other"}
      <4>1. ASSUME given[i].k # "array" PROVE given[i].k = "other"
        <5>1. given[i] \in Scalar /\ FromScalar(given[i], t) = NotDone
          BY <1>1, <2>3, <2>5, <4>1 DEF Ruby, Conversions
        <5>2. \A y : Done(y).r = "done" /\ Raise.r = "raise" BY DEF Done, Raise
        <5>3. given[i].k \in {"nil", "other"}
          BY <3>1, <5>1, <5>2 DEF FromScalar, FromInt, Scalar, Stringy, NotDone
        <5>4. given[i].k = "nil" => given[i] = Nil BY <5>1 DEF Scalar, Nil
        <5> QED BY <5>3, <5>4
      <4> QED BY <4>1
    <3>4. Same(given[i]).k = given[i].k
      BY <3>3 DEF Same, SameScalar
    <3>5. ~x.array => Extract(x).k \notin {"array", "other"}
      BY DEF Extract, ReadOne, ReadText, Nil, IntType
    <3> QED BY <3>2, <3>3, <3>4, <3>5
  <2> QED BY <2>4, <2>5 DEF Sendable
<1> QED BY <1>2, <1>3

\* What the caller gets of the block's value.
LEMMA ResultExact ==
    ASSUME NEW x \in Ruby, NEW o \in Conversions(x, "none")
    PROVE  Extract(o.x) = Same(x) <=> ComesBack(x, "any") \/ x = Nil
<1>1. ComesBack(x, "any") <=> o.r = "done" /\ Extract(o.x) = Same(x)
  BY RoundTrip DEF Fits
<1>2. Extract(Unset) = Nil BY DEF Extract, Unset
<1>3. x = Nil => o.x = Unset
  <2>1. Nil.k = "nil" BY DEF Nil
  <2>2. x = Nil => o = FromScalar(Nil, "none") BY <2>1 DEF Conversions
  <2>3. FromScalar(Nil, "none") = NotDone BY <2>1 DEF FromScalar, Stringy
  <2> QED BY <2>2, <2>3 DEF NotDone
<1>4. Same(Nil) = Nil BY DEF Same, SameScalar, Nil
<1>5. Same(x) = Nil => x = Nil
  <2>1. ASSUME Same(x) = Nil PROVE x.k = "nil"
    <3>1. Same(x).k = "nil" BY <2>1 DEF Nil
    <3>2. CASE x.k = "array" BY <3>1, <3>2 DEF Same
    <3>3. CASE x.k = "sym"
      <4>1. x \in Scalar BY <3>3 DEF Ruby
      <4>2. Same(x).k = "str" BY <3>3, <4>1 DEF Same, SameScalar, Scalar
      <4> QED BY <3>1, <4>2
    <3>4. CASE x.k \notin {"array", "sym"} BY <3>1, <3>4 DEF Same, SameScalar
    <3> QED BY <3>2, <3>3, <3>4
  <2>2. x.k = "nil" => x = Nil BY DEF Ruby, Scalar, Nil
  <2> QED BY <2>1, <2>2
<1>6. o.r # "done" => o.x = Unset BY ConversionsSound
<1>7. CASE o.r = "done"
  <2>1. x # Nil
    <3>1. Nil.k = "nil" /\ NotDone.r = "not" BY DEF Nil, NotDone
    <3>2. x = Nil => o = NotDone
      <4>1. x = Nil => o = FromScalar(Nil, "none") BY <3>1 DEF Conversions
      <4>2. FromScalar(Nil, "none") = NotDone BY <3>1 DEF FromScalar, Stringy
      <4> QED BY <4>1, <4>2
    <3> QED BY <1>7, <3>1, <3>2
  <2> QED BY <1>1, <1>7, <2>1
<1>8. CASE o.r # "done"
  BY <1>1, <1>2, <1>4, <1>5, <1>6, <1>8
<1> QED BY <1>7, <1>8

ArgBack(i) == call.given[i].k # "array" /\ ComesBack(call.given[i], target.inputs[i])
ArgSent(i) == /\ ~call.sent[i].array /\ Fits(call.sent[i], target.inputs[i])
              /\ Extract(call.sent[i]) = Same(call.given[i])
\* What a call keeps while it is on its way.
CallSent ==
    call.pc = "sent" /\ Len(call.given) = Arity =>
      /\ Len(call.sent) = Arity
      /\ \A i \in 1..Arity : call.given[i] # Nil => (ArgBack(i) <=> ArgSent(i))

LEMMA NilLost == \A t : ~ComesBack(Nil, t)
BY DEF ComesBack, ScalarBack, Nil, Stringy

CallInv ==
    /\ CallSent /\ CallFaithful
    /\ call.served <=> call.pc = "serving" \/ (call.pc = "answered" /\ call.served)

CallType == [pc : {"idle", "sent", "serving", "answered"}, given : Seq(Passed),
             sent : Seq(Variant), seen : Seq(Read), ret : Ruby, result : Read,
             served : BOOLEAN]

LEMMA IdleTyped == Idle \in CallType /\ DOMAIN Idle.sent = {}
<1>1. <<>> \in Seq(Passed) /\ <<>> \in Seq(Variant) /\ <<>> \in Seq(Read) /\ DOMAIN <<>> = {}
  OBVIOUS
<1>2. Nil \in Ruby /\ Nil \in Read BY DEF Nil, Ruby, Scalar, Read, Kind
<1> QED BY <1>1, <1>2 DEF Idle, CallType

LEMMA CallStep ==
    ASSUME TypeOK, ReadsBack, CallInv, NEW given \in Givens, Call(given)
    PROVE  TypeOK' /\ ReadsBack' /\ CallInv'
<1>1. given \in Seq(Passed) BY GivensFacts
<1>2. UNCHANGED <<target, held, gone, put, outcome>> /\ call.pc = "idle" /\ IsMethod BY DEF Call
<1>3. PICK sent :
        /\ DOMAIN sent = DOMAIN given /\ sent = [i \in DOMAIN given |-> sent[i]]
        /\ \A i \in DOMAIN given : sent[i] \in Sendable(given, i)
        /\ Called(given, sent)
  BY DEF Call
<1>4. \A i \in DOMAIN given : Sound(sent[i]) BY <1>1, <1>3, SendableSound
<1>5. sent \in Seq(Variant) /\ DOMAIN sent = 1..Len(given) /\ Len(sent) = Len(given)
  <2>1. \A i \in DOMAIN given : sent[i] \in Variant BY <1>4 DEF Sound
  <2>2. DOMAIN given = 1..Len(given) /\ Len(given) \in Nat BY <1>1
  <2>3. sent = [i \in 1..Len(given) |-> sent[i]] BY <1>3, <2>2
  <2> HIDE <1>3
  <2> QED BY <2>1, <2>2, <2>3
<1>6. call \in CallType BY DEF TypeOK, CallType
<1>7. /\ call' \in CallType
      /\ call'.pc = "sent" /\ call'.given = given /\ call'.sent = sent
      /\ call'.served = call.served
  BY <1>1, <1>3, <1>5, <1>6 DEF Called, CallType
<1>8. TypeOK'
  <2>1. \A i \in DOMAIN call'.sent : Sound(call'.sent[i]) BY <1>4, <1>5, <1>7, <1>3
  <2> QED BY <1>2, <1>7, <2>1 DEF TypeOK, CallType
<1>9. ReadsBack' BY <1>2 DEF ReadsBack, IsNode, Value
<1>10. CallSent'
  <2> SUFFICES ASSUME Len(given) = Arity
               PROVE  /\ Len(call'.sent) = Arity
                      /\ \A i \in 1..Arity : call'.given[i] # Nil => (ArgBack(i)' <=> ArgSent(i)')
    BY <1>2, <1>7 DEF CallSent, Arity
  <2>1. target \in Method BY <1>2 DEF TypeOK, IsMethod, Own, Others
  <2>2. target.inputs \in Seq(Type \cup {"custom"}) BY <2>1, ExchangeAssumption DEF Method
  <2>3. \A i \in 1..Arity : target.inputs[i] \in Type \cup {"custom"} BY <2>2 DEF Arity
  <2>4. DOMAIN given = 1..Arity BY <1>1
  <2>5. ASSUME NEW i \in 1..Arity, given[i] # Nil PROVE ArgBack(i)' <=> ArgSent(i)'
    <3>1. given[i].k # "array" /\ ComesBack(given[i], target.inputs[i]) <=>
            ~sent[i].array /\ Fits(sent[i], target.inputs[i]) /\ Extract(sent[i]) = Same(given[i])
      BY <1>1, <1>3, <2>3, <2>4, <2>5, SendableExact
    <3> QED BY <1>2, <1>7, <3>1 DEF ArgBack, ArgSent
  <2> QED BY <1>5, <1>7, <2>5
<1>11. CallFaithful' BY <1>7 DEF CallFaithful
<1>12. call'.served = FALSE BY <1>2, <1>6, <1>7 DEF CallInv, CallType
<1> QED BY <1>7, <1>8, <1>9, <1>10, <1>11, <1>12 DEF CallInv

LEMMA CallUnreadStep ==
    ASSUME TypeOK, ReadsBack, CallInv, CallUnread
    PROVE  TypeOK' /\ ReadsBack' /\ CallInv'
<1>1. UNCHANGED <<target, held, put, outcome, call>> /\ gone' \in BOOLEAN
  BY DEF CallUnread
<1>2. ReadsBack' BY <1>1 DEF ReadsBack, IsNode, Value
<1> QED BY <1>1, <1>2 DEF TypeOK, CallInv, CallSent, CallFaithful, ArgsBack, AsGiven, ArgBack, ArgSent, Arity

LEMMA CallShortStep ==
    ASSUME TypeOK, ReadsBack, CallInv, NEW given \in Givens, CallShort(given) \/ CallGarbage(given)
    PROVE  TypeOK' /\ ReadsBack' /\ CallInv'
<1>1. given \in Seq(Passed) BY GivensFacts
<1>2. UNCHANGED <<target, held, put, outcome>> /\ gone' \in BOOLEAN
  BY DEF CallShort, CallGarbage, TypeOK
<1>3. ReadsBack' BY <1>2 DEF ReadsBack, IsNode, Value
<1>4. CASE UNCHANGED call
  BY <1>2, <1>3, <1>4 DEF TypeOK, CallInv, CallSent, CallFaithful, ArgsBack, AsGiven, ArgBack, ArgSent, Arity
<1>5. CASE call' # call
  <2> DEFINE sent == [i \in DOMAIN given |-> Unset]
  <2>1. Called(given, sent) /\ Len(given) < Arity /\ call.pc = "idle"
    BY <1>5 DEF CallShort, CallGarbage
  <2>2. Unset \in Variant /\ Sound(Unset) BY SoundFacts DEF Sound
  <2>3. sent \in Seq(Variant) /\ \A i \in DOMAIN sent : Sound(sent[i])
    <3>1. DOMAIN given = 1..Len(given) /\ Len(given) \in Nat BY <1>1
    <3> QED BY <2>2, <3>1
  <2>4. call \in CallType BY DEF TypeOK, CallType
  <2> HIDE DEF sent
  <2>5. /\ call' \in CallType
        /\ call'.pc = "sent" /\ call'.given = given /\ call'.sent = sent
        /\ call'.served = call.served
    BY <1>1, <2>1, <2>3, <2>4 DEF Called, CallType
  <2>6. TypeOK' BY <1>2, <2>3, <2>5 DEF TypeOK, CallType
  <2>7. Len(given) # Arity
    <3>1. Len(given) \in Nat BY <1>1
    <3> QED BY <2>1, <3>1
  <2>8. Len(call'.given) # Arity' BY <1>2, <2>5, <2>7 DEF Arity
  <2>9. call'.served = FALSE BY <2>1, <2>4, <2>5 DEF CallInv, CallType
  <2> QED BY <1>3, <2>5, <2>6, <2>8, <2>9 DEF CallInv, CallSent, CallFaithful
<1> QED BY <1>4, <1>5

LEMMA RefuseStep ==
    ASSUME TypeOK, ReadsBack, CallInv, Refuse \/ CallReturn
    PROVE  TypeOK' /\ ReadsBack' /\ CallInv'
<1>1. UNCHANGED <<target, held, gone, put, outcome>> BY DEF Refuse, CallReturn
<1>2. ReadsBack' BY <1>1 DEF ReadsBack, IsNode, Value
<1>3. call \in CallType BY DEF TypeOK, CallType
<1>4. CASE Refuse
  <2>1. /\ call' \in CallType /\ call'.pc = "answered" /\ call.pc = "sent"
        /\ call'.given = call.given /\ call'.sent = call.sent /\ call'.served = call.served
    BY <1>3, <1>4 DEF Refuse, CallType
  <2>2. TypeOK' BY <1>1, <2>1 DEF TypeOK, CallType
  <2>3. Len(call.given) = Arity => ~ArgsBack
    <3> SUFFICES ASSUME Len(call.given) = Arity, ArgsBack PROVE FALSE OBVIOUS
    <3>1. ~Acceptable BY <1>4 DEF Refuse
    <3>2. \A i \in 1..Arity : ArgBack(i) /\ call.given[i] # Nil BY NilLost DEF ArgsBack, ArgBack
    <3>3. Len(call.sent) = Arity /\ \A i \in 1..Arity : ArgSent(i)
      BY <2>1, <3>2 DEF CallInv, CallSent
    <3> QED BY <3>1, <3>3 DEF Acceptable, ArgSent
  <2>4. (Len(call.given) = Arity => ~ArgsBack)' BY <1>1, <2>1, <2>3 DEF ArgsBack, Arity
  <2>5. call'.served = FALSE BY <1>3, <2>1 DEF CallInv, CallType
  <2> QED BY <1>2, <2>1, <2>2, <2>4, <2>5 DEF CallInv, CallSent, CallFaithful
<1>5. CASE CallReturn
  <2>1. call' = Idle BY <1>5 DEF CallReturn
  <2>2. call' \in CallType /\ DOMAIN call'.sent = {} BY <2>1, IdleTyped
  <2>3. TypeOK' BY <1>1, <2>2 DEF TypeOK, CallType
  <2>4. call'.pc = "idle" /\ call'.served = FALSE BY <2>1 DEF Idle
  <2> QED BY <1>2, <2>3, <2>4 DEF CallInv, CallSent, CallFaithful
<1> QED BY <1>4, <1>5

LEMMA ServeStep ==
    ASSUME TypeOK, ReadsBack, CallInv, Serve PROVE TypeOK' /\ ReadsBack' /\ CallInv'
<1>1. UNCHANGED <<target, held, gone, put, outcome>> /\ call.pc = "sent" BY DEF Serve
<1>2. ReadsBack' BY <1>1 DEF ReadsBack, IsNode, Value
<1>3. call \in CallType BY DEF TypeOK, CallType
<1> DEFINE seen == [i \in DOMAIN call.sent |-> Extract(call.sent[i])]
<1>4. seen \in Seq(Read)
  <2>1. call.sent \in Seq(Variant) BY <1>3 DEF CallType
  <2>2. DOMAIN call.sent = 1..Len(call.sent) /\ Len(call.sent) \in Nat BY <2>1
  <2>3. \A i \in DOMAIN call.sent : Extract(call.sent[i]) \in Read BY ExtractTyped DEF TypeOK
  <2> QED BY <2>2, <2>3
<1>5. call' = [call EXCEPT !.pc = "serving", !.served = TRUE, !.seen = seen] BY DEF Serve
<1>6. ASSUME Len(call.given) = Arity
      PROVE  LET Got == seen = [i \in DOMAIN call.given |-> Same(call.given[i])] IN
               /\ ArgsBack => Got
               /\ ~ArgsBack /\ Got => \E i \in 1..Arity : call.given[i] = Nil
  <2>1. call.sent \in Seq(Variant) /\ call.given \in Seq(Passed) BY <1>3 DEF CallType
  <2>2. Acceptable /\ Len(call.sent) = Arity BY DEF Serve, Acceptable
  <2>3. DOMAIN call.sent = 1..Arity /\ DOMAIN call.given = 1..Arity BY <1>6, <2>1, <2>2
  <2>4. \A i \in 1..Arity : call.given[i] # Nil => (ArgBack(i) <=> ArgSent(i))
    BY <1>1, <1>6 DEF CallInv, CallSent
  <2>5. ASSUME ArgsBack, NEW i \in 1..Arity PROVE Extract(call.sent[i]) = Same(call.given[i])
    <3>1. ArgBack(i) /\ call.given[i] # Nil BY <2>5, NilLost DEF ArgsBack, ArgBack
    <3> QED BY <2>4, <3>1 DEF ArgSent
  <2>6. ASSUME seen = [i \in DOMAIN call.given |-> Same(call.given[i])], NEW i \in 1..Arity,
               call.given[i] # Nil
        PROVE  ArgBack(i)
    <3>1. seen[i] = Same(call.given[i]) BY <2>3, <2>6
    <3>2. Extract(call.sent[i]) = Same(call.given[i]) BY <2>3, <3>1
    <3>3. ArgSent(i) BY <2>2, <3>2 DEF Acceptable, ArgSent
    <3> QED BY <2>4, <2>6, <3>3
  <2>7. ArgsBack => seen = [i \in DOMAIN call.given |-> Same(call.given[i])] BY <2>3, <2>5
  <2>8. ArgsBack <=> \A i \in 1..Arity : ArgBack(i) BY DEF ArgsBack, ArgBack
  <2> QED BY <2>6, <2>7, <2>8
<1> HIDE DEF seen
<1>7. /\ call' \in CallType /\ call'.pc = "serving" /\ call'.served /\ call'.seen = seen
      /\ call'.given = call.given /\ call'.sent = call.sent
  BY <1>3, <1>4, <1>5 DEF CallType
<1>8. TypeOK' BY <1>1, <1>7 DEF TypeOK, CallType
<1>9. Arity' = Arity /\ (ArgsBack' <=> ArgsBack)
      /\ (AsGiven' <=> seen = [i \in DOMAIN call.given |-> Same(call.given[i])])
  BY <1>1, <1>7 DEF ArgsBack, AsGiven, Arity
<1>10. CallFaithful'
  <2> SUFFICES ASSUME Len(call'.given) = Arity'
               PROVE  /\ ArgsBack' => call'.served /\ AsGiven'
                      /\ ~ArgsBack' /\ call'.served /\ AsGiven' => \E i \in 1..Arity' : call'.given[i] = Nil
    BY <1>7 DEF CallFaithful
  <2> QED BY <1>6, <1>7, <1>9
<1> QED BY <1>2, <1>7, <1>8, <1>10 DEF CallInv, CallSent

LEMMA BlockReturnStep ==
    ASSUME TypeOK, ReadsBack, CallInv, NEW x \in Passed, BlockReturn(x)
    PROVE  TypeOK' /\ ReadsBack' /\ CallInv'
<1>1. UNCHANGED <<target, held, gone, put, outcome>> /\ call.pc = "serving" BY DEF BlockReturn
<1>2. ReadsBack' BY <1>1 DEF ReadsBack, IsNode, Value
<1>3. call \in CallType /\ x \in Ruby BY ExchangeAssumption DEF TypeOK, CallType
<1>4. PICK o \in Conversions(x, "none") :
        call' = [call EXCEPT !.pc = "answered", !.ret = x,
                             !.result = IF target.returns THEN Extract(o.x) ELSE Nil]
  BY DEF BlockReturn
<1>5. Extract(o.x) \in Read /\ Nil \in Read
  <2>1. Extract(o.x) \in Read BY <1>3, ConversionsSound, ExtractTyped
  <2>2. Nil \in Read BY DEF Nil, Read, Kind
  <2> QED BY <2>1, <2>2
<1>6. /\ call' \in CallType /\ call'.pc = "answered" /\ call'.ret = x
      /\ call'.result = (IF target.returns THEN Extract(o.x) ELSE Nil)
      /\ call'.seen = call.seen /\ call'.served = call.served
      /\ call'.given = call.given /\ call'.sent = call.sent
  BY <1>3, <1>4, <1>5 DEF CallType
<1>7. TypeOK' BY <1>1, <1>6 DEF TypeOK, CallType
<1>8. Arity' = Arity /\ (ArgsBack' <=> ArgsBack) /\ (AsGiven' <=> AsGiven) /\ target' = target
  BY <1>1, <1>6 DEF ArgsBack, AsGiven, Arity
<1>9. Extract(o.x) = Same(x) <=> ComesBack(x, "any") \/ x = Nil BY <1>3, ResultExact
<1>10. CallFaithful'
  <2>1. call'.pc \in {"serving", "answered"} /\ Len(call'.given) = Arity' =>
         /\ ArgsBack' => call'.served /\ AsGiven'
         /\ ~ArgsBack' /\ call'.served /\ AsGiven' => \E i \in 1..Arity' : call'.given[i] = Nil
    BY <1>1, <1>6, <1>8 DEF CallInv, CallFaithful
  <2>2. call'.served /\ target'.returns =>
         (call'.result = Same(call'.ret) <=> ComesBack(call'.ret, "any") \/ call'.ret = Nil)
    BY <1>6, <1>8, <1>9
  <2> QED BY <2>1, <2>2 DEF CallFaithful
<1> QED BY <1>2, <1>6, <1>7, <1>10 DEF CallInv, CallSent

-----------------------------------------------------------------------------

LEMMA ExchangeInit == Init => TypeOK /\ ReadsBack /\ CallInv
<1> SUFFICES ASSUME Init PROVE TypeOK /\ ReadsBack /\ CallInv OBVIOUS
<1>1. Idle \in CallType /\ DOMAIN Idle.sent = {} BY IdleTyped
<1>2. TypeOK BY <1>1, SoundFacts DEF Init, TypeOK, CallType
<1>3. Idle.pc = "idle" /\ Idle.served = FALSE BY DEF Idle
<1> QED BY <1>2, <1>3 DEF Init, ReadsBack, CallInv, CallSent, CallFaithful

LEMMA ExchangeNext ==
    TypeOK /\ ReadsBack /\ CallInv /\ [Next]_vars => TypeOK' /\ ReadsBack' /\ CallInv'
<1> SUFFICES ASSUME TypeOK, ReadsBack, CallInv, [Next]_vars
             PROVE  TypeOK' /\ ReadsBack' /\ CallInv'
  OBVIOUS
<1>1. UNCHANGED <<target, call>> => CallInv'
  BY DEF CallInv, CallSent, CallFaithful, ArgsBack, AsGiven, ArgBack, ArgSent, Arity
<1>2. ASSUME NEW x \in Written, ClientWrite(x) PROVE TypeOK' /\ ReadsBack' /\ CallInv'
  BY <1>1, <1>2, ClientWriteStep DEF ClientWrite
<1>3. ASSUME NEW x \in Written, OwnWrite(x) PROVE TypeOK' /\ ReadsBack' /\ CallInv'
  BY <1>1, <1>3, OwnWriteStep DEF OwnWrite
<1>4. ASSUME \/ \E x \in Written : \E p \in Type \cup {"none"} : ClientWriteBlind(x, p)
             \/ \E x \in Foreign : ForeignWrite(x)
      PROVE  TypeOK' /\ ReadsBack' /\ CallInv'
  BY <1>1, <1>4, OtherWrites DEF ClientWriteBlind, ForeignWrite
<1>5. ASSUME NEW given \in Givens, Call(given) PROVE TypeOK' /\ ReadsBack' /\ CallInv'
  BY <1>5, CallStep
<1>6. ASSUME NEW given \in Givens, CallShort(given) \/ CallGarbage(given)
      PROVE  TypeOK' /\ ReadsBack' /\ CallInv'
  BY <1>6, CallShortStep
<1>7. CASE Refuse \/ CallReturn BY <1>7, RefuseStep
<1>8. CASE Serve BY <1>8, ServeStep
<1>9. ASSUME NEW x \in Passed, BlockReturn(x) PROVE TypeOK' /\ ReadsBack' /\ CallInv'
  BY <1>9, BlockReturnStep
<1>9a. CASE CallUnread BY <1>9a, CallUnreadStep
<1>10. CASE UNCHANGED vars
  BY <1>1, <1>10 DEF vars, TypeOK, ReadsBack, IsNode, Value
<1> QED BY <1>2, <1>3, <1>4, <1>5, <1>6, <1>7, <1>8, <1>9, <1>9a, <1>10 DEF Next

LEMMA ExchangeInvariant == Spec => [](TypeOK /\ ReadsBack /\ CallInv)
BY ExchangeInit, ExchangeNext, PTL DEF Spec

\* Exchange.TypeOK is an invariant: no conversion leaves an integer outside the width
\* of its type, whatever is written, proposed or left on the stack.
THEOREM WidthsKept == Spec => []TypeOK
BY ExchangeInvariant, PTL

\* A value comes back from a variable, unrefused and as it was written, just if ComesBack
\* lists it, for all widths, texts and floats (client.c:62-90, server.c:833-852): which
\* ones are missing is said there.
THEOREM WritesReadBack == Spec => []ReadsBack
BY ExchangeInvariant, PTL

\* A method's block gets the arguments of the call just if each comes back from a variable
\* of its input's type, and the caller the block's value just if that comes back from a
\* variable without one (client.c:508-567, server.c:203-234).
THEOREM CallsFaithful == Spec => []CallFaithful
<1>1. CallInv => CallFaithful BY DEF CallInv
<1> QED BY <1>1, ExchangeInvariant, PTL
=============================================================================
