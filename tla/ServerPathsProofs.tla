------------------------- MODULE ServerPathsProofs -------------------------
(***************************************************************************)
(* Theorems about the paths that Server makes up: manifest never asks for  *)
(* one that exists (NoClash), for every value of the constants.            *)
(*                                                                         *)
(* A path names a place: the names on the way from Objects to the node.    *)
(* In the order of this module: induction over the natural numbers; what   *)
(* delete! takes along; places; the tree that the nodes with paths form;   *)
(* the walks of manifest and of the library; the steps, one lemma each.    *)
(***************************************************************************)
EXTENDS ServerProofs, FiniteSetTheorems, SequenceTheorems, WellFoundedInduction

-----------------------------------------------------------------------------
(* Induction over the natural numbers, from the library's theorem that the   *)
(* finite subsets of a set are well-founded                                  *)

\* A set of natural numbers has a least element: the intervals from 0 to its elements have a
\* smallest one among them.
LEMMA LeastElement ==
    ASSUME NEW S \in SUBSET Nat, S # {}
    PROVE  \E x \in S : \A y \in S : x <= y
<1> DEFINE Cuts == {0..x : x \in S}
           R == StrictSubsetOrdering(Nat)
<1>1. IsWellFoundedOn(R, FiniteSubsetsOf(Nat)) BY FS_StrictSubsetOrderingWellFounded
<1>2. \A x \in Nat : IsFiniteSet(0..x) /\ 0..x \subseteq Nat BY FS_Interval
<1>3. Cuts \subseteq FiniteSubsetsOf(Nat) /\ Cuts # {} BY <1>2 DEF FiniteSubsetsOf
<1>4. \E T \in Cuts : \A U \in Cuts : <<U, T>> \notin R
  <2> HIDE DEF R, Cuts
  <2> QED BY <1>1, <1>3, WFMin
<1>5. PICK x \in S : \A y \in S : <<0..y, 0..x>> \notin R BY <1>4
<1>6. ASSUME NEW y \in S, y < x PROVE FALSE
  <2>1. 0..y \subseteq 0..x /\ 0..y # 0..x BY <1>6
  <2> QED BY <1>2, <1>5, <2>1 DEF StrictSubsetOrdering
<1> QED BY <1>5, <1>6

\* Induction over the natural numbers, for the set of those that have the property.
LEMMA SetInduction ==
    ASSUME NEW A, 0 \in A, \A n \in Nat : n \in A => n + 1 \in A
    PROVE  Nat \subseteq A
<1> SUFFICES ASSUME Nat \ A # {} PROVE FALSE OBVIOUS
<1>1. PICK x \in Nat \ A : \A y \in Nat \ A : x <= y BY LeastElement
<1>2. x # 0 /\ x - 1 \in Nat /\ ~(x <= x - 1) /\ x = (x - 1) + 1 BY <1>1
<1> QED BY <1>1, <1>2

\* the values f takes in K steps of G from s
Run(f, K, V, G, s) == f \in [0..K -> V] /\ f[0] = s /\ \A k \in 1..K : f[k] = G[f[k - 1]]

\* What is defined from the value before exists, for as many steps as wanted.
LEMMA Iterates ==
    ASSUME NEW V, NEW G \in [V -> V], NEW s \in V, NEW K \in Nat
    PROVE  \E f : Run(f, K, V, G, s)
<1> USE DEF Run
<1> DEFINE A == {n \in Nat : \E f : Run(f, n, V, G, s)}
<1>1. 0 \in A
  <2>1. Run([k \in 0..0 |-> s], 0, V, G, s) OBVIOUS
  <2> QED BY <2>1
<1>2. ASSUME NEW n \in Nat, n \in A PROVE n + 1 \in A
  <2>1. PICK f : Run(f, n, V, G, s) BY <1>2
  <2> DEFINE g == [k \in 0..(n + 1) |-> IF k = n + 1 THEN G[f[n]] ELSE f[k]]
  <2>2. \A k \in 0..(n + 1) : k # n + 1 => k \in 0..n OBVIOUS
  <2>3. f[n] \in V /\ G[f[n]] \in V BY <2>1
  <2>4. g \in [0..(n + 1) -> V] BY <2>1, <2>2, <2>3
  <2>5. g[0] = s BY <2>1
  <2>6. ASSUME NEW k \in 1..(n + 1) PROVE g[k] = G[g[k - 1]]
    <3>1. k - 1 \in 0..n /\ k - 1 # n + 1 /\ k \in 0..(n + 1) /\ k - 1 \in 0..(n + 1) OBVIOUS
    <3>2. g[k - 1] = f[k - 1] BY <3>1
    <3>3. CASE k = n + 1 BY <3>1, <3>2, <3>3
    <3>4. CASE k # n + 1
      <4>1. k \in 1..n BY <3>4
      <4> QED BY <2>1, <3>1, <3>2, <3>4, <4>1
    <3> QED BY <3>3, <3>4
  <2>7. Run(g, n + 1, V, G, s) BY <2>4, <2>5, <2>6
  <2> HIDE DEF g
  <2> QED BY <2>7
<1>3. Nat \subseteq A
  <2> HIDE DEF A
  <2> QED BY <1>1, <1>2, SetInduction
<1> QED BY <1>3

-----------------------------------------------------------------------------
(* What delete! takes along *)

\* the references that start in it, and what is left without a parent outside of it
Inside(above)  == {pair \in references : pair[1] \in above}
Spread(above)  == above \cup (Targets(Inside(above)) \ Targets(references \ Inside(above)))
\* n, and all that a reference leads to
Reach(n) == {n} \cup Targets(references)

\* There is not more to be reached than references lead to.
LEMMA ReachFacts ==
    ASSUME IsFiniteSet(references), NEW n
    PROVE  /\ IsFiniteSet(Reach(n)) /\ Cardinality(Reach(n)) <= Cardinality(references) + 1
           /\ \A above \in SUBSET Reach(n) : Spread(above) \in SUBSET Reach(n)
<1> DEFINE all == Targets(references)
           f == [pair \in references |-> pair[2]]
<1>1. f \in Surjection(references, all) BY DEF Surjection, Targets
<1>2. IsFiniteSet(all) /\ Cardinality(all) <= Cardinality(references)
  <2> HIDE DEF f, all
  <2> QED BY <1>1, FS_Surjection
<1>3. Cardinality(all) \in Nat /\ Cardinality(references) \in Nat BY <1>2, FS_CardinalityType
<1>4. /\ IsFiniteSet(all \cup {n}) /\ Cardinality(all \cup {n}) <= Cardinality(all) + 1
      /\ Cardinality(all \cup {n}) \in Nat
  <2>1. /\ IsFiniteSet(all \cup {n})
        /\ Cardinality(all \cup {n}) = IF n \in all THEN Cardinality(all) ELSE Cardinality(all) + 1
    BY <1>2, FS_AddElement
  <2> HIDE DEF all
  <2> QED BY <1>3, <2>1
<1>5. Reach(n) = all \cup {n} BY DEF Reach
<1>6. Cardinality(Reach(n)) <= Cardinality(references) + 1
  <2> HIDE DEF all
  <2> QED BY <1>2, <1>3, <1>4, <1>5
<1>7. \A above \in SUBSET Reach(n) : Spread(above) \in SUBSET Reach(n)
  BY DEF Spread, Inside, Targets, Reach
<1> QED BY <1>4, <1>5, <1>6, <1>7

\* Below takes the steps from n down, as many as there are references.
LEMMA BelowSteps ==
    ASSUME IsFiniteSet(references), NEW n
    PROVE  \E f \in [0..Cardinality(references) -> SUBSET Reach(n)] :
              /\ f[0] = {n} /\ \A k \in 1..Cardinality(references) : f[k] = Spread(f[k - 1])
              /\ Below(n) = f[Cardinality(references)]
<1> DEFINE K == Cardinality(references)
           V == SUBSET Reach(n)
           G == [above \in V |-> Spread(above)]
<1>1. K \in Nat BY FS_CardinalityType
<1>2. \A above \in V : Spread(above) \in V BY ReachFacts
<1>3. {n} \in V BY DEF Reach
<1>4. PICK f : Run(f, K, V, G, {n})
  <2>1. G \in [V -> V] BY <1>2
  <2> HIDE DEF G, V, K
  <2> QED BY <1>1, <1>3, <2>1, Iterates
<1>5. f \in [0..K -> V] /\ f[0] = {n} /\ \A k \in 1..K : f[k] = G[f[k - 1]] BY <1>4 DEF Run
<1> DEFINE Next1(above) == above \cup (Targets({pair \in references : pair[1] \in above})
                            \ Targets(references \ {pair \in references : pair[1] \in above}))
           h == CHOOSE d : d = [k \in 0..K |-> IF k = 0 THEN {n} ELSE Next1(d[k - 1])]
<1>6. \A above : Next1(above) = Spread(above) BY DEF Spread, Inside
<1>7. \A k \in 1..K : f[k] = Spread(f[k - 1])
  <2>1. ASSUME NEW k \in 1..K PROVE f[k] = Spread(f[k - 1])
    <3>1. k - 1 \in 0..K BY <1>1
    <3>2. f[k - 1] \in V BY <1>5, <3>1
    <3> QED BY <1>5, <3>2
  <2> QED BY <2>1
<1>8. f = [k \in 0..K |-> IF k = 0 THEN {n} ELSE Next1(f[k - 1])]
  <2>1. \A k \in 0..K : f[k] = IF k = 0 THEN {n} ELSE Next1(f[k - 1])
    <3> HIDE DEF Next1, K
    <3>1. \A k \in 0..K : k = 0 \/ k \in 1..K BY <1>1
    <3> QED BY <1>5, <1>6, <1>7, <3>1
  <2> HIDE DEF Next1, V
  <2> QED BY <1>5, <2>1
<1>9. h = [k \in 0..K |-> IF k = 0 THEN {n} ELSE Next1(h[k - 1])] BY <1>8
<1>10. Below(n) = h[K] BY DEF Below
<1> HIDE DEF h
<1>11. h[0] = {n} /\ \A k \in 1..K : h[k] = Spread(h[k - 1])
  <2> HIDE DEF Next1, K
  <2>1. 0 \in 0..K /\ \A k \in 1..K : k \in 0..K /\ k # 0 BY <1>1
  <2> QED BY <1>6, <1>9, <2>1
<1>12. h \in [0..K -> V]
  <2> DEFINE A == {k \in Nat : k \in 0..K => h[k] \in V}
  <2>1. 0 \in A BY <1>3, <1>11
  <2>2. ASSUME NEW k \in Nat, k \in A PROVE k + 1 \in A
    <3>1. CASE k + 1 \notin 0..K BY <3>1
    <3>2. CASE k + 1 \in 0..K
      <4>1. k \in 0..K /\ k + 1 \in 1..K /\ (k + 1) - 1 = k BY <1>1, <3>2
      <4>2. h[k] \in V BY <2>2, <4>1
      <4>3. h[k + 1] = Spread(h[k]) BY <1>11, <4>1
      <4> QED BY <1>2, <4>2, <4>3
    <3> QED BY <3>1, <3>2
  <2>3. Nat \subseteq A
    <3> HIDE DEF A
    <3> QED BY <2>1, <2>2, SetInduction
  <2>4. \A k \in 0..K : h[k] \in V BY <1>1, <2>3
  <2>5. h = [k \in 0..K |-> h[k]] BY <1>9
  <2> HIDE DEF K, V
  <2> QED BY <2>4, <2>5
<1> QED BY <1>10, <1>11, <1>12

\* After that many steps nothing is left to be reached: what is only referred to from
\* below n is below n itself.
LEMMA BelowClosed ==
    ASSUME IsFiniteSet(references), NEW n
    PROVE  n \in Below(n) /\ Spread(Below(n)) = Below(n)
<1> DEFINE K == Cardinality(references)
<1>1. K \in Nat BY FS_CardinalityType
<1>2. PICK f \in [0..K -> SUBSET Reach(n)] :
              /\ f[0] = {n} /\ \A k \in 1..K : f[k] = Spread(f[k - 1])
              /\ Below(n) = f[K]
  BY BelowSteps
<1>3. \A above \in SUBSET Reach(n) : IsFiniteSet(above) /\ Cardinality(above) \in Nat
  BY ReachFacts, FS_Subset, FS_CardinalityType
<1> HIDE DEF K
<1> DEFINE Grown(k) == n \in f[k] /\ (Spread(f[k]) = f[k] \/ Cardinality(f[k]) >= k + 1)
           A == {k \in Nat : k \in 0..K => Grown(k)}
<1>4. 0 \in A
  <2>1. Cardinality({n}) = 1 BY FS_Singleton
  <2>2. Cardinality(f[0]) = 1 /\ n \in f[0] BY <1>2, <2>1, Zenon
  <2> QED BY <2>2
<1>5. ASSUME NEW k \in Nat, k \in A PROVE k + 1 \in A
  <2>1. CASE k + 1 \notin 0..K BY <2>1
  <2>2. CASE k + 1 \in 0..K
    <3>1. k \in 0..K /\ k + 1 \in 1..K /\ (k + 1) - 1 = k BY <1>1, <2>2
    <3>2. Grown(k) /\ f[k + 1] = Spread(f[k]) /\ f[k + 1] \in SUBSET Reach(n)
      BY <1>2, <1>5, <2>2, <3>1
    <3>3. f[k] \subseteq f[k + 1] BY <3>2 DEF Spread
    <3>4. CASE Spread(f[k]) = f[k] BY <3>2, <3>4
    <3>5. CASE Spread(f[k]) # f[k] /\ Cardinality(f[k]) >= k + 1
      <4>1. IsFiniteSet(f[k + 1]) /\ Cardinality(f[k + 1]) \in Nat /\ Cardinality(f[k]) \in Nat
        BY <1>2, <1>3, <3>1, <3>2
      <4>2. Cardinality(f[k]) <= Cardinality(f[k + 1]) /\ Cardinality(f[k + 1]) # Cardinality(f[k])
        BY <3>2, <3>3, <3>5, <4>1, FS_Subset
      <4>3. Cardinality(f[k + 1]) >= (k + 1) + 1 BY <3>5, <4>1, <4>2
      <4> QED BY <3>2, <3>3, <4>3
    <3> QED BY <3>2, <3>4, <3>5
  <2> QED BY <2>1, <2>2
<1>6. Nat \subseteq A
  <2> HIDE DEF A
  <2> QED BY <1>4, <1>5, SetInduction
<1>7. Grown(K) /\ f[K] \in SUBSET Reach(n) BY <1>1, <1>2, <1>6
<1>8. CASE Cardinality(f[K]) >= K + 1
  <2>1. /\ IsFiniteSet(Reach(n)) /\ Cardinality(Reach(n)) <= K + 1
        /\ Spread(f[K]) \in SUBSET Reach(n)
    BY <1>7, ReachFacts DEF K
  <2>2. Cardinality(f[K]) <= Cardinality(Reach(n)) /\ Cardinality(f[K]) \in Nat
        /\ Cardinality(Reach(n)) \in Nat /\ (Cardinality(Reach(n)) = Cardinality(f[K]) => Reach(n) = f[K])
    BY <1>3, <1>7, <2>1, FS_Subset, FS_CardinalityType
  <2>3. Reach(n) = f[K] BY <1>1, <1>8, <2>1, <2>2
  <2>4. f[K] \subseteq Spread(f[K]) BY DEF Spread
  <2>5. Spread(f[K]) = f[K] BY <2>1, <2>3, <2>4
  <2> QED BY <1>2, <1>7, <2>5
<1> QED BY <1>2, <1>7, <1>8

-----------------------------------------------------------------------------
(* Places *)

\* What a path made of two looks like.
LEMMA Joined ==
    ASSUME NEW s \in Seq(Token), NEW t \in Seq(Token)
    PROVE  /\ s \o t \in Seq(Token) /\ Len(s) \in Nat /\ Len(t) \in Nat
           /\ Len(s \o t) = Len(s) + Len(t)
           /\ \A k \in 1..(Len(s) + Len(t)) : (s \o t)[k] = IF k <= Len(s) THEN s[k] ELSE t[k - Len(s)]
BY ConcatProperties, LenProperties

\* one step further down
Under(s, x) == s \o <<"/", x>>

\* Two places are one only if the parents' places and the names are.
LEMMA StepsApart ==
    ASSUME NEW s \in Seq(Token), NEW t \in Seq(Token), NEW x \in Token, NEW y \in Token,
           Under(s, x) = Under(t, y)
    PROVE  s = t /\ x = y
<1> DEFINE u == s \o <<"/", x>>
           v == t \o <<"/", y>>
<1>0. u = v BY DEF Under
<1>1. Len(s) \in Nat /\ Len(t) \in Nat /\ Len(u) = Len(s) + 2 /\ Len(v) = Len(t) + 2 BY DEF Token
<1>2. Len(s) = Len(t) BY <1>0, <1>1
<1>3. u[Len(s) + 2] = x /\ v[Len(t) + 2] = y BY <1>1 DEF Token
<1>4. \A k \in 1..Len(s) : u[k] = s[k] BY <1>1 DEF Token
<1>5. \A k \in 1..Len(t) : v[k] = t[k] BY <1>1 DEF Token
<1>6. s = t BY <1>0, <1>2, <1>4, <1>5
<1> QED BY <1>0, <1>2, <1>3, <1>6

\* The place of a path is a path, and has at least one name.
LEMMA BareFacts ==
    ASSUME NEW p \in Seq(Token), WellFormed(p)
    PROVE  Bare(p) \in Seq(Token) /\ Len(Bare(p)) \in Nat /\ Len(Bare(p)) >= 1
<1>1. Len(p) \in Nat /\ Len(p) >= 1 BY DEF WellFormed
<1>2. CASE Len(p) % 2 = 1 BY <1>1, <1>2 DEF Bare
<1>3. CASE Len(p) % 2 # 1
  <2>1. Len(p) >= 2 BY <1>1, <1>3
  <2>2. Tail(p) \in Seq(Token) /\ Len(Tail(p)) = Len(p) - 1 BY <2>1
  <2> QED BY <1>1, <1>3, <2>1, <2>2 DEF Bare
<1> QED BY <1>2, <1>3

\* One step further down, with the leading slash or without, the place is one step further
\* down.
LEMMA StepFacts ==
    ASSUME NEW p \in Seq(Token), WellFormed(p), NEW name \in Token
    PROVE  /\ p \o <<"/", name>> \in Seq(Token) /\ WellFormed(p \o <<"/", name>>)
           /\ Bare(p \o <<"/", name>>) = Bare(p) \o <<"/", name>>
<1> DEFINE step == <<"/", name>>
<1>1. step \in Seq(Token) /\ Len(step) = 2 BY DEF Token
<1>2. Len(p) \in Nat /\ Len(p) >= 1 BY DEF WellFormed
<1> HIDE DEF step
<1> DEFINE longer == p \o step
<1>3. /\ longer \in Seq(Token) /\ Len(longer) = Len(p) + 2
      /\ \A k \in 1..(Len(p) + 2) : longer[k] = IF k <= Len(p) THEN p[k] ELSE step[k - Len(p)]
  BY <1>1, <1>2, Joined
<1> HIDE DEF longer
<1>3a. longer[1] = p[1] BY <1>2, <1>3
<1>4. (Len(p) + 2) % 2 = Len(p) % 2 BY <1>2
<1>5. WellFormed(longer) BY <1>2, <1>3, <1>3a, <1>4 DEF WellFormed
<1>6. Tail(longer) = Tail(p) \o step
  <2> DEFINE rest == Tail(p)
             sum == rest \o step
  <2>1. p # <<>> /\ longer # <<>> BY <1>2, <1>3
  <2>2. /\ rest \in Seq(Token) /\ Len(rest) = Len(p) - 1
        /\ \A k \in 1..(Len(p) - 1) : rest[k] = p[k + 1]
    BY <2>1, HeadTailProperties
  <2>3. /\ Tail(longer) \in Seq(Token) /\ Len(Tail(longer)) = Len(p) + 1
        /\ \A k \in 1..(Len(p) + 1) : Tail(longer)[k] = longer[k + 1]
    BY <1>2, <1>3, <2>1, HeadTailProperties
  <2> HIDE DEF rest
  <2>4. /\ sum \in Seq(Token) /\ Len(sum) = Len(p) + 1
        /\ \A k \in 1..(Len(p) + 1) : sum[k] = IF k <= Len(p) - 1 THEN rest[k] ELSE step[k - (Len(p) - 1)]
    <3>1. /\ sum \in Seq(Token) /\ Len(sum) = Len(rest) + Len(step)
          /\ \A k \in 1..(Len(rest) + Len(step)) :
                sum[k] = IF k <= Len(rest) THEN rest[k] ELSE step[k - Len(rest)]
      BY <1>1, <2>2, Joined
    <3>2. Len(rest) + Len(step) = Len(p) + 1 BY <1>1, <1>2, <2>2
    <3> HIDE DEF sum
    <3> QED BY <2>2, <3>1, <3>2
  <2> HIDE DEF sum
  <2>5. ASSUME NEW k \in 1..(Len(p) + 1) PROVE Tail(longer)[k] = sum[k]
    <3>1. k + 1 \in 1..(Len(p) + 2) /\ (k + 1) - Len(p) = k - (Len(p) - 1) BY <1>2
    <3>2. Tail(longer)[k] = IF k + 1 <= Len(p) THEN p[k + 1] ELSE step[(k + 1) - Len(p)]
      BY <1>3, <2>3, <3>1
    <3>3. CASE k <= Len(p) - 1
      <4>1. k \in 1..(Len(p) - 1) /\ k + 1 <= Len(p) BY <1>2, <3>3
      <4> QED BY <2>2, <2>4, <3>2, <3>3, <4>1
    <3>4. CASE ~(k <= Len(p) - 1)
      <4>1. ~(k + 1 <= Len(p)) BY <1>2, <3>4
      <4> QED BY <2>4, <3>1, <3>2, <3>4, <4>1
    <3> QED BY <3>3, <3>4
  <2>6. Tail(longer) = sum BY <2>3, <2>4, <2>5, SeqEqual
  <2> QED BY <2>6 DEF sum, rest
<1>7. Bare(longer) = Bare(p) \o step BY <1>3, <1>4, <1>6 DEF Bare, longer
<1> QED BY <1>3, <1>5, <1>7 DEF step, longer

\* The same for a leading slash that was not there.
LEMMA SlashFacts ==
    ASSUME NEW p \in Seq(Token), WellFormed(p), Len(p) % 2 = 1
    PROVE  /\ <<"/">> \o p \in Seq(Token) /\ WellFormed(<<"/">> \o p)
           /\ Bare(<<"/">> \o p) = Bare(p)
<1>1. <<"/">> \in Seq(Token) /\ Len(<<"/">>) = 1 BY DEF Token
<1>2. Len(p) \in Nat /\ Len(p) >= 1 BY DEF WellFormed
<1> DEFINE slash == <<"/">>
           longer == slash \o p
<1>3. slash \in Seq(Token) /\ Len(slash) = 1 /\ slash[1] = "/" BY <1>1
<1> HIDE DEF slash
<1>4. /\ longer \in Seq(Token) /\ Len(longer) = Len(p) + 1
      /\ \A k \in 1..(Len(p) + 1) : longer[k] = IF k <= 1 THEN slash[k] ELSE p[k - 1]
  BY <1>2, <1>3, Joined
<1> HIDE DEF longer
<1>5. longer[1] = "/" /\ longer # <<>> BY <1>2, <1>3, <1>4
<1>6. Tail(longer) = p
  <2>1. /\ Tail(longer) \in Seq(Token) /\ Len(Tail(longer)) = Len(p)
        /\ \A k \in 1..Len(p) : Tail(longer)[k] = longer[k + 1]
    BY <1>2, <1>4, <1>5, HeadTailProperties
  <2>2. \A k \in 1..Len(p) : Tail(longer)[k] = p[k]
    <3>1. \A k \in 1..Len(p) : k + 1 \in 1..(Len(p) + 1) /\ ~(k + 1 <= 1) /\ (k + 1) - 1 = k BY <1>2
    <3> QED BY <1>4, <2>1, <3>1
  <2> QED BY <2>1, <2>2, SeqEqual
<1>7. (Len(p) + 1) % 2 = 0 BY <1>2
<1>8. WellFormed(longer) BY <1>2, <1>4, <1>5 DEF WellFormed
<1>9. Bare(longer) = Bare(p) BY <1>4, <1>6, <1>7 DEF Bare
<1> QED BY <1>4, <1>8, <1>9 DEF slash, longer

\* What is created in an object has the place of its name in the object.
LEMMA ChildPathFacts ==
    ASSUME NEW p \in Seq(Token), WellFormed(p), NEW name \in Token
    PROVE  /\ WellFormed(ChildPath(p, name))
           /\ Bare(ChildPath(p, name)) = Bare(p) \o <<"/", name>>
<1>1. Len(p) \in Nat /\ Len(p) >= 1 BY DEF WellFormed
<1>2. CASE p[1] = "/"
  <2>1. ChildPath(p, name) = <<>> \o p \o <<"/", name>> BY <1>2 DEF ChildPath
  <2>2. <<>> \o p = p OBVIOUS
  <2> QED BY <2>1, <2>2, StepFacts
<1>3. CASE p[1] # "/"
  <2>1. ChildPath(p, name) = (<<"/">> \o p) \o <<"/", name>> BY <1>3 DEF ChildPath
  <2>2. Len(p) % 2 = 1 BY <1>1, <1>3 DEF WellFormed
  <2> DEFINE s == <<"/">> \o p
  <2>3. s \in Seq(Token) /\ WellFormed(s) /\ Bare(s) = Bare(p) BY <2>2, SlashFacts
  <2> HIDE DEF s
  <2>4. WellFormed(s \o <<"/", name>>) /\ Bare(s \o <<"/", name>>) = Bare(s) \o <<"/", name>>
    BY <2>3, StepFacts
  <2> QED BY <2>1, <2>3, <2>4 DEF s
<1> QED BY <1>2, <1>3

\* And so has a manifested object.
LEMMA ObjectPathFacts ==
    ASSUME NEW parent \in Id, parent.kind = "str" => WellFormed(parent.path), NEW name \in Token
    PROVE  /\ WellFormed(ObjectPath(parent, name))
           /\ Bare(ObjectPath(parent, name)) = Place(parent, name)
<1>1. parent.path \in Seq(Token) BY DEF Id
<1>2. CASE parent.kind = "str"
  <2>1. Append(parent.path, "/") \o <<name>> = parent.path \o <<"/", name>>
    <3>1. "/" \in Token BY DEF Token
    <3> QED BY <1>1, <3>1
  <2>2. ObjectPath(parent, name) = parent.path \o <<"/", name>> BY <1>2, <2>1 DEF ObjectPath
  <2> QED BY <1>1, <1>2, <2>2, StepFacts DEF Place
<1>3. CASE parent.kind # "str"
  <2>1. ObjectPath(parent, name) = <<>> \o <<name>> BY <1>3 DEF ObjectPath
  <2>2. <<>> \o <<name>> = <<name>> OBVIOUS
  <2>3. Len(<<name>>) = 1 /\ 1 % 2 = 1 OBVIOUS
  <2> QED BY <1>3, <2>1, <2>2, <2>3 DEF Place, WellFormed, Bare
<1> QED BY <1>2, <1>3

\* Objects, and what has a path
Placing(parent) == parent = Objects \/ (parent.kind = "str" /\ WellFormed(parent.path))

\* The place of a name in an object that has a path.
LEMMA PlaceFacts ==
    ASSUME NEW n \in Id, Placing(n), n # Objects, NEW x \in Token
    PROVE  /\ n.kind = "str" /\ Bare(n.path) \in Seq(Token) /\ Len(Bare(n.path)) \in Nat
           /\ Len(Bare(n.path)) >= 1 /\ Place(n, x) = Bare(n.path) \o <<"/", x>>
           /\ Len(Place(n, x)) = Len(Bare(n.path)) + 2
<1>1. n.path \in Seq(Token) /\ WellFormed(n.path) /\ n.kind = "str" BY DEF Id, Placing
<1>2. Bare(n.path) \in Seq(Token) /\ Len(Bare(n.path)) \in Nat /\ Len(Bare(n.path)) >= 1
  BY <1>1, BareFacts
<1>3. <<"/", x>> \in Seq(Token) /\ Len(<<"/", x>>) = 2 BY DEF Token
<1>4. Place(n, x) = Bare(n.path) \o <<"/", x>> BY <1>1 DEF Place
<1>5. Len(Place(n, x)) = Len(Bare(n.path)) + 2 BY <1>2, <1>3, <1>4, Joined
<1> QED BY <1>1, <1>2, <1>4, <1>5

\* The place of a name among the objects that have none above them.
LEMMA RootFacts ==
    ASSUME NEW x
    PROVE  Place(Objects, x) = <<x>> /\ Len(Place(Objects, x)) = 1 /\ Objects.kind # "str"
<1>1. Objects.kind # "str" BY DEF Objects, NumericIn
<1> QED BY <1>1 DEF Place

\* One place belongs to one name in one object.
LEMMA PlacesApart ==
    ASSUME NEW m \in Id, Placing(m), NEW n \in Id, Placing(n), NEW x \in Token, NEW y \in Token,
           Place(m, x) = Place(n, y)
    PROVE  /\ x = y
           /\ \/ m = Objects /\ n = Objects
              \/ m.kind = "str" /\ n.kind = "str" /\ Bare(m.path) = Bare(n.path)
<1>1. CASE m = Objects /\ n = Objects
  <2>1. <<x>> = <<y>> BY <1>1, RootFacts
  <2> QED BY <1>1, <2>1
<1>2. CASE m = Objects /\ n # Objects
  <2>1. Len(Place(n, y)) = Len(Bare(n.path)) + 2 /\ Len(Bare(n.path)) \in Nat BY <1>2, PlaceFacts
  <2>2. Len(Place(m, x)) = 1 BY <1>2, RootFacts
  <2>3. Len(Bare(n.path)) + 2 = 1 BY <2>1, <2>2, Zenon
  <2> QED BY <2>1, <2>3
<1>3. CASE m # Objects /\ n = Objects
  <2>1. Len(Place(m, x)) = Len(Bare(m.path)) + 2 /\ Len(Bare(m.path)) \in Nat BY <1>3, PlaceFacts
  <2>2. Len(Place(n, y)) = 1 BY <1>3, RootFacts
  <2>3. Len(Bare(m.path)) + 2 = 1 BY <2>1, <2>2, Zenon
  <2> QED BY <2>1, <2>3
<1>4. CASE m # Objects /\ n # Objects
  <2>1. m.kind = "str" /\ Bare(m.path) \in Seq(Token) /\ Place(m, x) = Bare(m.path) \o <<"/", x>>
    BY <1>4, PlaceFacts
  <2>2. n.kind = "str" /\ Bare(n.path) \in Seq(Token) /\ Place(n, y) = Bare(n.path) \o <<"/", y>>
    BY <1>4, PlaceFacts
  <2>3. Bare(m.path) \o <<"/", x>> = Bare(n.path) \o <<"/", y>> BY <2>1, <2>2
  <2> DEFINE s == Bare(m.path)
             t == Bare(n.path)
  <2>4. s = t /\ x = y
    <3>1. s \in Seq(Token) /\ t \in Seq(Token) /\ Under(s, x) = Under(t, y)
      BY <2>1, <2>2, <2>3 DEF Under
    <3> HIDE DEF s, t
    <3> QED BY <3>1, StepsApart
  <2> QED BY <2>1, <2>2, <2>4
<1> QED BY <1>1, <1>2, <1>3, <1>4

\* A place is longer than the one it is in.
LEMMA PlacesGrow ==
    ASSUME NEW n \in Id, n.kind = "str", WellFormed(n.path), NEW x \in Token
    PROVE  Len(Bare(n.path)) < Len(Place(n, x))
<1>1. n.path \in Seq(Token) BY DEF Id
<1>2. Bare(n.path) \in Seq(Token) /\ Len(Bare(n.path)) \in Nat BY <1>1, BareFacts
<1>3. <<"/", x>> \in Seq(Token) /\ Len(<<"/", x>>) = 2 BY DEF Token
<1>4. Len(Bare(n.path) \o <<"/", x>>) = Len(Bare(n.path)) + 2 BY <1>2, <1>3, Joined
<1> QED BY <1>2, <1>4 DEF Place

-----------------------------------------------------------------------------
(* The tree of paths *)

\* Names stay as they are where the store grows.
LEMMA NamesKept ==
    ASSUME ServerInv, Grows
    PROVE  \A m \in DOMAIN nodes : m \in DOMAIN nodes' /\ nodes'[m].name = nodes[m].name
BY InvFacts DEF Grows, TypeOK, Node

\* At most one node has the place of the parent.
Single(parent) ==
    parent.kind = "str" => \A q \in Pathed : Bare(q.path) = Bare(parent.path) => q = parent

\* Objects and the nodes that have a path can be looked up by their place.
LEMMA PathedFacts ==
    ASSUME ServerInv, PathTree, NEW n \in Pathed
    PROVE  n \in Id /\ n.kind = "str" /\ n \in DOMAIN nodes /\ Placing(n) /\ Single(n) /\ n.num = 0
<1>1. n \in DOMAIN nodes /\ n.kind = "str" BY DEF Pathed
<1>2. n \in Id /\ n.num = 0 BY <1>1, InvFacts DEF TypeOK, ServerInv, NodeInv, WellNumbered
<1>3. WellFormed(n.path) BY DEF PathTree, Placed
<1>4. Single(n) BY DEF PathTree, Single
<1> QED BY <1>1, <1>2, <1>3, <1>4 DEF Placing

\* The parent that a node's path names is the one it hangs on.
LEMMA ParentFacts ==
    ASSUME ServerInv, PathTree, NEW n \in Pathed
    PROVE  \E parent \in Id : /\ <<parent, n>> \in references /\ Placing(parent)
                              /\ nodes[n].name \in QName /\ Bare(n.path) = Place(parent, Text(n))
<1>1. PICK parent \in Pathed \cup {Objects} :
        <<parent, n>> \in references /\ Bare(n.path) = Place(parent, Text(n))
  BY DEF PathTree, Placed
<1>2. nodes[n].name \in QName BY DEF PathTree, Placed
<1>3. parent \in Id
  <2>1. parent \in DOMAIN nodes BY <1>1, InvFacts DEF TypeOK
  <2> QED BY <2>1, InvFacts DEF TypeOK
<1>4. Placing(parent) BY <1>1, PathedFacts DEF Placing
<1> QED BY <1>1, <1>2, <1>3, <1>4

\* Where an object has no child of a name, the place of that name in it is free.
LEMMA FreePlace ==
    ASSUME ServerInv, PathTree, NEW parent \in Id, Placing(parent), Single(parent),
           NEW name \in Name, Apart(parent, name)
    PROVE  \A m \in Pathed : Bare(m.path) # Place(parent, name)
<1> SUFFICES ASSUME NEW m \in Pathed, Bare(m.path) = Place(parent, name) PROVE FALSE OBVIOUS
<1>1. PICK q \in Id : /\ <<q, m>> \in references /\ Placing(q)
                      /\ nodes[m].name \in QName /\ Bare(m.path) = Place(q, Text(m))
  BY ParentFacts
<1> DEFINE other == Text(m)
<1>2. Place(q, other) = Place(parent, name) BY <1>1, Zenon
<1>3. name \in Token /\ other \in Token BY <1>1, TextFacts DEF Token
<1>4. /\ other = name
      /\ \/ q = Objects /\ parent = Objects
         \/ q.kind = "str" /\ parent.kind = "str" /\ Bare(q.path) = Bare(parent.path)
  <2>1. ASSUME NEW x \in Token, NEW y \in Token, Place(q, x) = Place(parent, y)
        PROVE  /\ x = y
               /\ \/ q = Objects /\ parent = Objects
                  \/ q.kind = "str" /\ parent.kind = "str" /\ Bare(q.path) = Bare(parent.path)
    BY <1>1, <2>1, PlacesApart
  <2> HIDE DEF other
  <2> QED BY <1>2, <1>3, <2>1
<1>5. q \in DOMAIN nodes /\ m \in DOMAIN nodes BY <1>1, InvFacts DEF TypeOK
<1>6. q = parent BY <1>4, <1>5 DEF Single, Pathed
<1>7. m \in Children(parent) BY <1>1, <1>5, <1>6 DEF Children
<1>8. nodes[m].name # Nil BY <1>1, IdAssumption
<1> QED BY <1>4, <1>7, <1>8 DEF Apart

\* What has no path can be added anywhere, if the declarations in a type stay apart.
LEMMA OthersAdded ==
    ASSUME ServerInv, PathTree, Grows, references \subseteq references',
           \A m \in DOMAIN nodes' \ DOMAIN nodes : m.kind # "str",
           \A r, s \in references' \ references : r = s,
           \A r \in references' \ references :
              /\ r[2].kind # "str" /\ r[2] # Objects
              /\ Declaring(r[1]) /\ nodes'[r[2]].name # Nil => Apart(r[1], nodes'[r[2]].name[2])
    PROVE  PathTree'
<1>0. references \subseteq (DOMAIN nodes) \X (DOMAIN nodes) BY InvFacts DEF TypeOK
<1>1. \A m : m \in Pathed' => m \in Pathed BY DEF Pathed
<1>1a. \A m \in DOMAIN nodes : m \in DOMAIN nodes' /\ nodes'[m].name = nodes[m].name BY NamesKept
<1>2. ASSUME NEW n \in Pathed' PROVE Placed(n)'
  <2>1. Placed(n) /\ n \in DOMAIN nodes BY <1>1 DEF PathTree, Pathed
  <2>2. nodes'[n].name = nodes[n].name BY <1>1a, <2>1
  <2>3. \A p : p \in Pathed \cup {Objects} => p \in Pathed' \cup {Objects}'
    BY <1>1a DEF Pathed, Objects, NumericIn
  <2>4. PICK p \in Pathed \cup {Objects} : <<p, n>> \in references /\ Bare(n.path) = Place(p, Text(n))
    BY <2>1 DEF Placed
  <2>5. p \in Pathed' \cup {Objects}' /\ <<p, n>> \in references' /\ Bare(n.path) = Place(p, nodes'[n].name[2])
    BY <2>2, <2>3, <2>4 DEF Text
  <2> QED BY <2>1, <2>2, <2>5 DEF Placed, Bare, WellFormed, Place, Text, QName
<1>3. ASSUME NEW m \in Pathed', NEW n \in Pathed', Bare(m.path) = Bare(n.path) PROVE m = n
  BY <1>1, <1>3 DEF PathTree
<1>3a. \A r \in references' : r[2] # Objects BY DEF PathTree
<1>4. ASSUME NEW r \in references', NEW s \in references', r[2] = s[2], r[2].kind = "str" PROVE r = s
  BY <1>4 DEF PathTree
<1>5. ASSUME NEW t \in DOMAIN nodes', Declaring(t), NEW c, <<t, c>> \in references',
             NEW d, <<t, d>> \in references', nodes'[c].name # Nil, nodes'[d].name # Nil,
             nodes'[c].name[2] = nodes'[d].name[2]
      PROVE c = d
  <2>2. ASSUME NEW e, <<t, e>> \in references
        PROVE  t \in DOMAIN nodes /\ e \in Children(t) /\ nodes'[e].name = nodes[e].name
    BY <1>0, <1>1a, <2>2 DEF Children
  <2>3. CASE <<t, c>> \in references /\ <<t, d>> \in references
    <3>1. c \in Named(Children(t)) /\ d \in Named(Children(t)) BY <1>5, <2>2, <2>3 DEF Named
    <3>2. Text(c) = Text(d) /\ t \in DOMAIN nodes BY <1>5, <2>2, <2>3 DEF Text
    <3> QED BY <1>5, <3>1, <3>2 DEF PathTree
  <2>4. CASE <<t, c>> \in references /\ <<t, d>> \notin references
    <3>1. c \in Children(t) /\ nodes[c].name # Nil /\ Text(c) = nodes'[d].name[2]
      BY <1>5, <2>2, <2>4 DEF Text
    <3> QED BY <1>5, <2>4, <3>1 DEF Apart
  <2>5. CASE <<t, c>> \notin references /\ <<t, d>> \in references
    <3>1. d \in Children(t) /\ nodes[d].name # Nil /\ Text(d) = nodes'[c].name[2]
      BY <1>5, <2>2, <2>5 DEF Text
    <3> QED BY <1>5, <2>5, <3>1 DEF Apart
  <2>6. CASE <<t, c>> \notin references /\ <<t, d>> \notin references
    <3>1. <<t, c>> = <<t, d>> BY <1>5, <2>6
    <3> QED BY <3>1
  <2> QED BY <2>3, <2>4, <2>5, <2>6
<1>6. \A t \in DOMAIN nodes' : Declaring(t) =>
         \A c, d \in Named(Children(t))' : Text(c)' = Text(d)' => c = d
  BY <1>5 DEF Named, Children, Text
<1> QED BY <1>2, <1>3, <1>3a, <1>4, <1>6 DEF PathTree, Bare, Declaring, Objects, NumericIn

\* A node with a path can be added in the object its path names, if the name is new there.
LEMMA PathedAdded ==
    ASSUME ServerInv, PathTree, NEW n \in Id, n.kind = "str", WellFormed(n.path),
           NEW parent \in Id, Placing(parent), Single(parent), ~Declaring(parent),
           NEW node, node.name \in QName, Bare(n.path) = Place(parent, node.name[2]),
           Apart(parent, node.name[2]), AddNode(n, parent, node)
    PROVE  PathTree'
<1>1. CASE ~Added(n, parent)
  <2>1. nodes' = nodes /\ references' = references BY <1>1 DEF AddNode
  <2>2. Grows BY <2>1 DEF Grows
  <2> QED BY <2>1, <2>2, OthersAdded
<1>2. CASE Added(n, parent)
  <2>0. references \subseteq (DOMAIN nodes) \X (DOMAIN nodes) BY InvFacts DEF TypeOK
  <2>1. /\ n \notin DOMAIN nodes /\ parent \in DOMAIN nodes
        /\ DOMAIN nodes' = DOMAIN nodes \cup {n} /\ nodes'[n] = node
        /\ \A m \in DOMAIN nodes : nodes'[m] = nodes[m]
        /\ references' = references \cup {<<parent, n>>}
    BY <1>2 DEF Added, AddNode, Live
  <2>2. \A m : m \in Pathed' <=> m \in Pathed \/ m = n BY <2>1 DEF Pathed
  <2>3. \A m \in Pathed : Bare(m.path) # Bare(n.path)
    <3>0. node.name[2] \in Name BY DEF QName
    <3>1. \A m \in Pathed : Bare(m.path) # Place(parent, node.name[2]) BY <3>0, FreePlace
    <3> QED BY <3>1
  <2>4. ASSUME NEW m \in Pathed' PROVE Placed(m)'
    <3>1. CASE m = n
      <4>1. parent \in Pathed' \cup {Objects}' BY <2>1 DEF Pathed, Placing, Objects, NumericIn
      <4>2. <<parent, m>> \in references' /\ Bare(m.path) = Place(parent, nodes'[m].name[2])
            /\ WellFormed(m.path) /\ nodes'[m].name \in QName
        BY <2>1, <3>1
      <4> QED BY <4>1, <4>2 DEF Placed, Bare, WellFormed, Place, Text, QName
    <3>2. CASE m \in Pathed
      <4>1. Placed(m) /\ m \in DOMAIN nodes BY <3>2 DEF PathTree, Pathed
      <4>2. nodes'[m] = nodes[m] BY <2>1, <4>1
      <4>3. PICK p \in Pathed \cup {Objects} : <<p, m>> \in references /\ Bare(m.path) = Place(p, Text(m))
        BY <4>1 DEF Placed
      <4>4. p \in Pathed' \cup {Objects}' /\ <<p, m>> \in references' /\ Bare(m.path) = Place(p, nodes'[m].name[2])
        BY <2>1, <2>2, <4>2, <4>3 DEF Objects, NumericIn, Text
      <4> QED BY <4>1, <4>2, <4>4 DEF Placed, Bare, WellFormed, Place, Text, QName
    <3> QED BY <2>2, <3>1, <3>2
  <2>5. ASSUME NEW l \in Pathed', NEW m \in Pathed', Bare(l.path) = Bare(m.path) PROVE l = m
    BY <2>2, <2>3, <2>5 DEF PathTree
  <2>5a. \A r \in references' : r[2] # Objects
    <3>1. n # Objects BY DEF Objects, NumericIn
    <3> QED BY <2>1, <3>1 DEF PathTree
  <2>6. ASSUME NEW r \in references', NEW s \in references', r[2] = s[2], r[2].kind = "str" PROVE r = s
    <3>1. \A u \in references : u[2] # n BY <2>0, <2>1
    <3> QED BY <2>1, <2>6, <3>1 DEF PathTree
  <2>7. ASSUME NEW t \in DOMAIN nodes', Declaring(t), NEW c \in Named(Children(t))',
               NEW d \in Named(Children(t))', Text(c)' = Text(d)'
        PROVE c = d
    <3>1. <<t, c>> \in references' /\ <<t, d>> \in references' /\ nodes'[c].name # Nil /\ nodes'[d].name # Nil
      BY DEF Named, Children
    <3>2. <<t, c>> \in references /\ <<t, d>> \in references BY <2>1, <2>7, <3>1
    <3>3. t \in DOMAIN nodes /\ c \in DOMAIN nodes /\ d \in DOMAIN nodes BY <2>0, <3>2
    <3>4. c \in Named(Children(t)) /\ d \in Named(Children(t)) /\ Text(c) = Text(d)
      BY <2>1, <2>7, <3>1, <3>2, <3>3 DEF Named, Children, Text
    <3> QED BY <2>7, <3>3, <3>4 DEF PathTree
  <2> QED BY <2>4, <2>5, <2>5a, <2>6, <2>7 DEF PathTree, Bare, Declaring, Objects, NumericIn
<1> QED BY <1>1, <1>2

-----------------------------------------------------------------------------
(* The walks *)

\* PathWalk, with the store of nodes and the references as parameters.
ManifestWalk(w, store, refs) ==
    /\ w.to # Objects /\ (w.to.kind = "str" => WellFormed(w.to.path))
    /\ w.op = "manifest" =>
         /\ w.to.kind = "str"
         /\ \A c, d \in w.todo : store[c].name # Nil /\ store[d].name # Nil
                                /\ store[c].name[2] = store[d].name[2] => c = d
         /\ \A c \in w.todo, e \in DOMAIN store :
               store[c].name # Nil /\ store[e].name # Nil /\ <<w.to, e>> \in refs =>
                  store[e].name[2] # store[c].name[2]
         /\ \A q \in DOMAIN store : q.kind = "str" /\ Bare(q.path) = Bare(w.to.path) => q = w.to

\* Every walk is above w.
Above(ws, w) ==
    w.to.kind = "str" => \A k \in DOMAIN ws : ws[k].to.kind = "str" =>
                            Len(Bare(ws[k].to.path)) < Len(Bare(w.to.path))
\* Downward, with the walks as a parameter.
GoDown(ws) ==
    \A j, k \in DOMAIN ws :
        j < k /\ ws[j].to.kind = "str" /\ ws[k].to.kind = "str" =>
            Len(Bare(ws[j].to.path)) < Len(Bare(ws[k].to.path))

PathWalks(ws, store, refs) == (\A k \in DOMAIN ws : ManifestWalk(ws[k], store, refs)) /\ GoDown(ws)

\* What the invariant says of the walks.
LEMMA PathInvFacts ==
    ASSUME PathInv
    PROVE  /\ NoClash /\ IsFiniteSet(references)
           /\ proper => PathTree /\ PathWalks(walks, nodes, references)
BY DEF PathInv, PathWalks, PathWalk, ManifestWalk, Downward, GoDown, Apart, Named, Text, Children, Pathed

\* What a step has to show.
LEMMA PathStep ==
    ASSUME NoClash', IsFiniteSet(references'),
           proper' => PathTree' /\ PathWalks(walks', nodes', references')
    PROVE  PathInv'
<1>1. ASSUME PathWalks(walks', nodes', references')
      PROVE  (\A k \in DOMAIN walks : PathWalk(walks[k]))' /\ Downward'
  <2>1. ASSUME NEW k \in DOMAIN walks' PROVE PathWalk(walks[k])'
    <3>1. ManifestWalk(walks'[k], nodes', references') BY <1>1, <2>1 DEF PathWalks
    <3> QED BY <3>1 DEF PathWalk, ManifestWalk, Apart, Named, Text, Children, Pathed, Bare, WellFormed, Objects, NumericIn
  <2>2. Downward' BY <1>1 DEF PathWalks, Downward, GoDown, Bare
  <2> QED BY <2>1, <2>2
<1> QED BY <1>1 DEF PathInv

\* A walk stays as it should be while others add to other objects.
LEMMA WalkKept ==
    ASSUME ServerInv, NEW w, ManifestWalk(w, nodes, references), GoodWalk(w, nodes), Grows,
           w.op = "manifest" =>
              /\ \A r \in references' \ references : r[1] # w.to
              /\ \A m \in DOMAIN nodes' \ DOMAIN nodes : m.kind = "str" => Bare(m.path) # Bare(w.to.path)
    PROVE  ManifestWalk(w, nodes', references')
<1>0. references \subseteq (DOMAIN nodes) \X (DOMAIN nodes) BY InvFacts DEF TypeOK
<1>1. \A m \in DOMAIN nodes : m \in DOMAIN nodes' /\ nodes'[m].name = nodes[m].name BY NamesKept
<1>2. \A c \in w.todo : c \in DOMAIN nodes BY DEF GoodWalk
<1>3. ASSUME w.op = "manifest"
      PROVE  /\ \A c, d \in w.todo : nodes'[c].name # Nil /\ nodes'[d].name # Nil
                                    /\ nodes'[c].name[2] = nodes'[d].name[2] => c = d
             /\ \A c \in w.todo, e \in DOMAIN nodes' :
                   nodes'[c].name # Nil /\ nodes'[e].name # Nil /\ <<w.to, e>> \in references' =>
                      nodes'[e].name[2] # nodes'[c].name[2]
             /\ \A q \in DOMAIN nodes' : q.kind = "str" /\ Bare(q.path) = Bare(w.to.path) => q = w.to
  <2>1. \A c, d \in w.todo : nodes'[c].name # Nil /\ nodes'[d].name # Nil
                            /\ nodes'[c].name[2] = nodes'[d].name[2] => c = d
    BY <1>1, <1>2, <1>3 DEF ManifestWalk
  <2>2. ASSUME NEW c \in w.todo, NEW e \in DOMAIN nodes', nodes'[c].name # Nil, nodes'[e].name # Nil,
               <<w.to, e>> \in references'
        PROVE  nodes'[e].name[2] # nodes'[c].name[2]
    <3>1. <<w.to, e>> \in references BY <1>3, <2>2
    <3>2. e \in DOMAIN nodes BY <1>0, <3>1
    <3>3. nodes'[e].name = nodes[e].name /\ nodes'[c].name = nodes[c].name BY <1>1, <1>2, <3>2
    <3> QED BY <1>3, <2>2, <3>1, <3>2, <3>3 DEF ManifestWalk
  <2>3. \A q \in DOMAIN nodes' : q.kind = "str" /\ Bare(q.path) = Bare(w.to.path) => q = w.to
    BY <1>3 DEF ManifestWalk
  <2> QED BY <2>1, <2>2, <2>3
<1> QED BY <1>3 DEF ManifestWalk

\* A walk with one child less.
LEMMA WalkShorter ==
    ASSUME NEW w \in Frame, NEW c, NEW store, NEW refs, ManifestWalk(w, store, refs)
    PROVE  ManifestWalk([w EXCEPT !.todo = @ \ {c}], store, refs)
<1> DEFINE v == [w EXCEPT !.todo = @ \ {c}]
<1>1. v.op = w.op /\ v.to = w.to /\ v.todo \subseteq w.todo BY DEF Frame
<1> HIDE DEF v
<1>2. ManifestWalk(v, store, refs) BY <1>1 DEF ManifestWalk
<1> QED BY <1>2 DEF v

\* One child is done, and perhaps its own walk begun.
LEMMA PathWalksStep ==
    ASSUME walks \in Seq(Frame), walks # <<>>, NEW c, NEW w \in Frame, NEW store, NEW refs,
           \A k \in 1..(Len(walks) - 1) : ManifestWalk(walks[k], store, refs),
           ManifestWalk([Top EXCEPT !.todo = @ \ {c}], store, refs),
           GoDown(walks),
           \/ walks' = Done(c)
           \/ walks' = Descend(c, w) /\ ManifestWalk(w, store, refs) /\ Above(walks, w)
    PROVE  PathWalks(walks', store, refs)
<1>1. /\ Len(walks) \in Nat \ {0} /\ DOMAIN walks = 1..Len(walks)
      /\ Len(walks) \in DOMAIN walks /\ Top \in Frame /\ Top = walks[Len(walks)]
  BY TopFacts
<1>2. /\ Done(c) \in Seq(Frame) /\ Len(Done(c)) = Len(walks)
      /\ \A k \in 1..Len(walks) : k # Len(walks) => Done(c)[k] = walks[k]
      /\ Done(c)[Len(walks)] = [Top EXCEPT !.todo = @ \ {c}]
  BY DoneFacts
<1>3. \A k \in 1..Len(walks) :
        Done(c)[k].op = walks[k].op /\ Done(c)[k].to = walks[k].to /\ ManifestWalk(Done(c)[k], store, refs)
  <2>1. ASSUME NEW k \in 1..Len(walks)
        PROVE Done(c)[k].op = walks[k].op /\ Done(c)[k].to = walks[k].to /\ ManifestWalk(Done(c)[k], store, refs)
    <3>1. CASE k = Len(walks) BY <1>1, <1>2, <3>1 DEF Frame
    <3>2. CASE k # Len(walks)
      <4>1. k \in 1..(Len(walks) - 1) BY <1>1, <3>2
      <4> QED BY <1>2, <3>2, <4>1
    <3> QED BY <3>1, <3>2
  <2> QED BY <2>1
<1>4. CASE walks' = Done(c)
  <2>1. DOMAIN walks' = 1..Len(walks) BY <1>2, <1>4
  <2>2. GoDown(walks') BY <1>1, <1>3, <1>4, <2>1 DEF GoDown
  <2> QED BY <1>3, <1>4, <2>1, <2>2 DEF PathWalks
<1>5. CASE walks' = Descend(c, w) /\ ManifestWalk(w, store, refs) /\ Above(walks, w)
  <2>1. walks' = Append(Done(c), w) BY <1>5 DEF Descend
  <2>2. /\ DOMAIN walks' = 1..(Len(walks) + 1)
        /\ \A k \in 1..Len(walks) : walks'[k] = Done(c)[k]
        /\ walks'[Len(walks) + 1] = w
    BY <1>2, <2>1, AppendFacts
  <2>3. \A k \in 1..(Len(walks) + 1) : k \in 1..Len(walks) \/ k = Len(walks) + 1 BY <1>1
  <2>4. \A k \in DOMAIN walks' : ManifestWalk(walks'[k], store, refs) BY <1>3, <1>5, <2>2, <2>3
  <2>5. ASSUME NEW j \in DOMAIN walks', NEW k \in DOMAIN walks', j < k, walks'[j].to.kind = "str",
               walks'[k].to.kind = "str"
        PROVE  Len(Bare(walks'[j].to.path)) < Len(Bare(walks'[k].to.path))
    <3>1. j \in 1..Len(walks) BY <1>1, <2>2, <2>5
    <3>2. walks'[j].op = walks[j].op /\ walks'[j].to = walks[j].to BY <1>3, <2>2, <3>1
    <3>3. CASE k \in 1..Len(walks)
      <4>1. walks'[k].to = walks[k].to BY <1>3, <2>2, <3>3
      <4> QED BY <1>1, <2>5, <3>1, <3>2, <3>3, <4>1 DEF GoDown
    <3>4. CASE k = Len(walks) + 1 BY <1>1, <1>5, <2>2, <2>5, <3>1, <3>2, <3>4 DEF Above
    <3> QED BY <2>2, <2>3, <3>3, <3>4
  <2> QED BY <2>4, <2>5 DEF PathWalks, GoDown
<1> QED BY <1>4, <1>5

\* The walk on top is over.
LEMMA PathWalksFront ==
    ASSUME walks \in Seq(Frame), walks # <<>>, NEW store, NEW refs, PathWalks(walks, store, refs)
    PROVE  PathWalks(SubSeq(walks, 1, Len(walks) - 1), store, refs)
<1> DEFINE front == SubSeq(walks, 1, Len(walks) - 1)
<1>1. Len(walks) \in Nat \ {0} /\ DOMAIN walks = 1..Len(walks) BY TopFacts
<1>2. DOMAIN front = 1..(Len(walks) - 1) /\ \A k \in 1..(Len(walks) - 1) : front[k] = walks[k]
  BY <1>1, FrontFacts
<1> HIDE DEF front
<1>3. PathWalks(front, store, refs) BY <1>1, <1>2 DEF PathWalks, GoDown
<1> QED BY <1>3 DEF front

\* The first walk.
LEMMA PathWalksFirst ==
    ASSUME NEW w \in Frame, NEW store, NEW refs, ManifestWalk(w, store, refs)
    PROVE  PathWalks(<<w>>, store, refs)
<1>1. DOMAIN <<w>> = {1} /\ <<w>>[1] = w BY SingleFacts
<1>2. \A j, k \in DOMAIN <<w>> : ~(j < k) BY <1>1
<1> QED BY <1>1, <1>2 DEF PathWalks, GoDown

-----------------------------------------------------------------------------
(* Steps *)

\* What the library has changed when it was asked for a node, whether it added it or not.
LEMMA AddEffect ==
    ASSUME NEW n, NEW parent, NEW node, AddNode(n, parent, node) \/ UNCHANGED <<nodes, references>>
    PROVE  /\ Grows /\ references \subseteq references' /\ references' \subseteq references \cup {<<parent, n>>}
           /\ \A m \in DOMAIN nodes' \ DOMAIN nodes : m = n /\ nodes'[m] = node
           /\ \A r \in references' \ references : r = <<parent, n>> /\ nodes'[n] = node
<1>1. CASE UNCHANGED <<nodes, references>> BY <1>1 DEF Grows
<1>2. CASE AddNode(n, parent, node) /\ Added(n, parent)
  <2>1. n \notin DOMAIN nodes BY <1>2 DEF Added, Live
  <2>2. /\ DOMAIN nodes' = DOMAIN nodes \cup {n} /\ nodes'[n] = node
        /\ \A m \in DOMAIN nodes : nodes'[m] = nodes[m]
        /\ references' = references \cup {<<parent, n>>}
    BY <1>2, <2>1 DEF AddNode
  <2> QED BY <2>2 DEF Grows
<1>3. CASE AddNode(n, parent, node) /\ ~Added(n, parent) BY <1>1, <1>3 DEF AddNode
<1> QED BY <1>1, <1>2, <1>3

\* A store that does not change has the same tree.
LEMMA SameTree ==
    ASSUME ServerInv, PathTree, UNCHANGED <<nodes, references>>
    PROVE  PathTree'
<1>1. Grows BY DEF Grows
<1>2. /\ references \subseteq references' /\ references' \ references = {}
      /\ DOMAIN nodes' \ DOMAIN nodes = {}
  OBVIOUS
<1> QED BY <1>1, <1>2, OthersAdded

\* One reference more leaves finitely many.
LEMMA StillFinite ==
    ASSUME IsFiniteSet(references), NEW r, references' \subseteq references \cup {r}
    PROVE  IsFiniteSet(references')
BY FS_AddElement, FS_Subset

\* The steps that leave the store and the walks alone.
LEMMA QuietPathStep ==
    ASSUME ServerInv, PathInv, UNCHANGED <<nodes, references, walks, proper, clash>>
    PROVE  PathInv'
<1>1. NoClash' /\ IsFiniteSet(references') BY PathInvFacts DEF NoClash
<1> QED BY <1>1, PathInvFacts, SameTree, PathStep

\* A declaration is added, or refused.
LEMMA DeclarationAdded ==
    ASSUME ServerInv, PathInv, NEW n, n.kind = "num", n # Objects, NEW parent, NEW node,
           AddNode(n, parent, node) \/ UNCHANGED <<nodes, references>>,
           proper' => proper /\ (node.name # Nil => Apart(parent, node.name[2])),
           clash' = clash,
           \/ walks' = <<>>
           \/ \E w \in Frame : walks' = <<w>> /\ w.op # "manifest" /\ w.to = n
    PROVE  PathInv'
<1>1. /\ Grows /\ references \subseteq references' /\ references' \subseteq references \cup {<<parent, n>>}
      /\ \A m \in DOMAIN nodes' \ DOMAIN nodes : m = n
      /\ \A r \in references' \ references : r = <<parent, n>> /\ nodes'[n] = node
  BY AddEffect
<1>2. NoClash' BY PathInvFacts DEF NoClash
<1>3. IsFiniteSet(references') BY <1>1, PathInvFacts, StillFinite
<1>4. ASSUME proper' PROVE PathTree'
  <2>1. proper /\ PathTree /\ (node.name # Nil => Apart(parent, node.name[2])) BY <1>4, PathInvFacts
  <2>2. ASSUME NEW r \in references' \ references
        PROVE  /\ r[2].kind # "str" /\ r[2] # Objects
               /\ nodes'[r[2]].name # Nil => Apart(r[1], nodes'[r[2]].name[2])
    <3>1. r[1] = parent /\ r[2] = n /\ nodes'[n] = node BY <1>1
    <3> QED BY <2>1, <3>1
  <2>3. \A m \in DOMAIN nodes' \ DOMAIN nodes : m.kind # "str" BY <1>1
  <2>4. \A r, s \in references' \ references : r = s BY <1>1
  <2> QED BY <1>1, <2>1, <2>2, <2>3, <2>4, OthersAdded
<1>5. PathWalks(walks', nodes', references')
  <2>1. CASE walks' = <<>> BY <2>1 DEF PathWalks, GoDown
  <2>2. CASE \E w \in Frame : walks' = <<w>> /\ w.op # "manifest" /\ w.to = n
    <3>1. PICK w \in Frame : walks' = <<w>> /\ w.op # "manifest" /\ w.to = n BY <2>2
    <3>2. ManifestWalk(w, nodes', references') BY <3>1 DEF ManifestWalk
    <3> QED BY <3>1, <3>2, PathWalksFirst
  <2> QED BY <2>1, <2>2
<1> QED BY <1>2, <1>3, <1>4, <1>5, PathStep

\* The number an id is taken from is not the one of Objects.
LEMMA NumericFacts ==
    ASSUME ServerInv, nodecounter <= MaxNum
    PROVE  Numeric(nodecounter).kind = "num" /\ Numeric(nodecounter) # Objects
<1>1. nodecounter # MaxNum + 1 BY InvFacts
<1> QED BY <1>1 DEF Numeric, Objects, NumericIn

\* add_object_type, add_reference_type, add_variable, add_variable_rw, add_method
LEMMA TypePathStep ==
    ASSUME ServerInv, PathInv, NEW super, AddObjectType(super)
    PROVE  PathInv'
<1>1. [StdNode("type") EXCEPT !.type = super].name = Nil BY DEF StdNode
<1>2. /\ \/ AddNode(Numeric(nodecounter), super, [StdNode("type") EXCEPT !.type = super])
         \/ UNCHANGED <<nodes, references>>
      /\ walks' = <<>> /\ proper' = proper /\ clash' = clash /\ nodecounter <= MaxNum
  BY DEF AddObjectType, InRuby, history, Take
<1> QED BY <1>1, <1>2, NumericFacts, DeclarationAdded

LEMMA ReferenceTypePathStep ==
    ASSUME ServerInv, PathInv, NEW top, NEW accepted, AddReferenceType(top, accepted)
    PROVE  PathInv'
<1>1. StdNode("reference").name = Nil BY DEF StdNode
<1>2. /\ \/ AddNode(Numeric(nodecounter), top, StdNode("reference"))
         \/ UNCHANGED <<nodes, references>>
      /\ walks' = <<>> /\ proper' = proper /\ clash' = clash /\ nodecounter <= MaxNum
  BY DEF AddReferenceType, InRuby, history, Take
<1> QED BY <1>1, <1>2, NumericFacts, DeclarationAdded

LEMMA DeclarationPathStep ==
    ASSUME ServerInv, PathInv, NEW parent, NEW class, NEW name, NEW b,
           AddDeclaration(parent, class, name, b)
    PROVE  PathInv'
<1> DEFINE node == [class |-> class, name |-> Qualified(name), type |-> Nil, rule |-> "mandatory",
                    block |-> b, meant |-> b, copied |-> FALSE]
<1>1. node.name[2] = name BY DEF Qualified
<1>2. /\ AddNode(Numeric(nodecounter), parent, node) /\ nodecounter <= MaxNum
      /\ walks' = <<>> /\ proper' = (proper /\ Apart(parent, name)) /\ clash' = clash
  BY DEF AddDeclaration, InRuby, Take
<1> HIDE DEF node
<1> QED BY <1>1, <1>2, NumericFacts, DeclarationAdded

\* add_object
LEMMA ObjectPathStep ==
    ASSUME ServerInv, ServerInv', PathInv, NEW parent, NEW name, NEW t, NEW arg,
           AddObject(parent, name, t, arg)
    PROVE  PathInv'
<1> DEFINE n == Numeric(nodecounter)
           node == NewObject(Qualified(name), t)
           w == Walk("finish", t, n, Required(t), TRUE, TRUE, RuleOf(arg))
<1>1. node.name[2] = name BY DEF NewObject, Qualified
<1>2. /\ AddNode(n, parent, node) \/ UNCHANGED <<nodes, references>>
      /\ walks' = <<>> \/ walks' = <<w>>
      /\ (proper' => proper /\ Apart(parent, name)) /\ clash' = clash /\ nodecounter <= MaxNum
  BY DEF AddObject, InRuby, Take
<1>3. w.op # "manifest" /\ w.to = n BY DEF Walk
<1>4. n.kind = "num" /\ n # Objects BY <1>2, NumericFacts
<1>5. ASSUME walks' = <<w>> PROVE w \in Frame
  <2>1. walks' \in Seq(Frame) BY DEF ServerInv, TypeOK
  <2> HIDE DEF w
  <2> QED BY <1>5, <2>1
<1> HIDE DEF n, node, w
<1> QED BY <1>1, <1>2, <1>3, <1>4, <1>5, DeclarationAdded

\* delete!: what has a path goes with the only object that leads to it
LEMMA DeletePathStep ==
    ASSUME ServerInv, PathInv, NEW n, Delete(n)
    PROVE  PathInv'
<1> DEFINE gone == Below(n)
<1>1. /\ nodes' = [m \in DOMAIN nodes \ gone |-> nodes[m]]
      /\ references' = {r \in references : r[1] \notin gone /\ r[2] \notin gone}
      /\ walks' = <<>> /\ proper' = proper /\ clash' = clash
  BY DEF Delete, InRuby, history
<1>2. NoClash' /\ IsFiniteSet(references)
      /\ (proper => PathTree) BY <1>1, PathInvFacts DEF NoClash
<1>3. Spread(gone) = gone BY <1>2, BelowClosed
<1> HIDE DEF gone
<1>4. IsFiniteSet(references')
  <2>1. references' \in SUBSET references BY <1>1
  <2> QED BY <1>2, <2>1, FS_Subset
<1>5. PathWalks(walks', nodes', references') BY <1>1 DEF PathWalks, GoDown
<1>6. ASSUME PathTree PROVE PathTree'
  <2>0. references \subseteq (DOMAIN nodes) \X (DOMAIN nodes) BY InvFacts DEF TypeOK
  <2>1. /\ DOMAIN nodes' \subseteq DOMAIN nodes /\ \A m \in DOMAIN nodes' : nodes'[m] = nodes[m] /\ m \notin gone
        /\ \A m : m \in Pathed' => m \in Pathed
    BY <1>1 DEF Pathed
  <2>2. ASSUME NEW m \in Pathed' PROVE Placed(m)'
    <3>1. Placed(m) /\ m \in DOMAIN nodes' /\ nodes'[m] = nodes[m] /\ m \notin gone /\ m.kind = "str"
      BY <1>6, <2>1 DEF PathTree, Pathed
    <3>2. PICK p \in Pathed \cup {Objects} : <<p, m>> \in references /\ Bare(m.path) = Place(p, Text(m))
      BY <3>1 DEF Placed
    <3>3. p \notin gone
      <4> SUFFICES ASSUME p \in gone PROVE FALSE OBVIOUS
      <4>1. <<p, m>> \in Inside(gone) BY <3>2 DEF Inside
      <4>2. m \in Targets(Inside(gone)) BY <4>1 DEF Targets
      <4>3. m \notin Targets(references \ Inside(gone))
        <5> SUFFICES ASSUME NEW r \in references, r \notin Inside(gone), r[2] = m PROVE FALSE
          BY DEF Targets
        <5>1. r = <<p, m>> BY <1>6, <3>1, <3>2 DEF PathTree
        <5> QED BY <4>1, <5>1
      <4>4. m \in gone BY <1>3, <4>2, <4>3 DEF Spread
      <4> QED BY <3>1, <4>4
    <3>4. <<p, m>> \in references' BY <1>1, <3>1, <3>2, <3>3
    <3>5. p \in Pathed' \cup {Objects}'
      <4>1. p \in DOMAIN nodes BY <2>0, <3>2
      <4>2. p \in DOMAIN nodes' BY <1>1, <3>3, <4>1
      <4> QED BY <3>2, <4>2 DEF Pathed, Objects, NumericIn
    <3>6. Bare(m.path) = Place(p, nodes'[m].name[2]) BY <3>1, <3>2 DEF Text
    <3> QED BY <3>1, <3>4, <3>5, <3>6 DEF Placed, Bare, WellFormed, Place, Text, QName
  <2>3. \A l, m \in Pathed' : Bare(l.path) = Bare(m.path) => l = m BY <1>6, <2>1 DEF PathTree
  <2>4. \A r \in references' : r[2] # Objects BY <1>1, <1>6 DEF PathTree
  <2>5. \A r, s \in references' : r[2] = s[2] /\ r[2].kind = "str" => r = s BY <1>1, <1>6 DEF PathTree
  <2>6. ASSUME NEW t \in DOMAIN nodes', Declaring(t), NEW c \in Named(Children(t))',
               NEW d \in Named(Children(t))', Text(c)' = Text(d)'
        PROVE c = d
    <3>1. /\ c \in DOMAIN nodes' /\ d \in DOMAIN nodes' /\ <<t, c>> \in references' /\ <<t, d>> \in references'
          /\ nodes'[c].name # Nil /\ nodes'[d].name # Nil
      BY DEF Named, Children
    <3>2. c \in Named(Children(t)) /\ d \in Named(Children(t)) /\ Text(c) = Text(d) /\ t \in DOMAIN nodes
      BY <1>1, <2>1, <2>6, <3>1 DEF Named, Children, Text
    <3> QED BY <1>6, <2>6, <3>2 DEF PathTree
  <2> QED BY <2>2, <2>3, <2>4, <2>5, <2>6 DEF PathTree, Bare, Declaring, Objects, NumericIn
<1> QED BY <1>1, <1>2, <1>4, <1>5, <1>6, PathStep

\* A path that manifest asks for is free, and the tree keeps its shape when it is added.
LEMMA PathAdded ==
    ASSUME ServerInv, PathTree,
           NEW parent \in Id, Placing(parent), Single(parent), ~Declaring(parent),
           NEW n \in Id, n.kind = "str", WellFormed(n.path),
           NEW node, node.name \in QName, Bare(n.path) = Place(parent, node.name[2]),
           Apart(parent, node.name[2]),
           AddNode(n, parent, node) \/ UNCHANGED <<nodes, references>>
    PROVE  /\ n \notin DOMAIN nodes /\ parent # n /\ PathTree'
           /\ \A q \in DOMAIN nodes' : q.kind = "str" /\ Bare(q.path) = Bare(n.path) => q = n
<1>1. \A m \in Pathed : Bare(m.path) # Bare(n.path)
  <2>0. node.name[2] \in Name BY DEF QName
  <2>1. \A m \in Pathed : Bare(m.path) # Place(parent, node.name[2]) BY <2>0, FreePlace
  <2> QED BY <2>1
<1>2. n \notin DOMAIN nodes BY <1>1 DEF Pathed
<1>3. parent # n
  <2> SUFFICES ASSUME parent = n PROVE FALSE OBVIOUS
  <2>1. node.name[2] \in Token BY DEF Token, QName
  <2>2. Len(Bare(n.path)) < Len(Place(n, node.name[2])) BY <2>1, PlacesGrow
  <2>3. Bare(n.path) \in Seq(Token) BY BareFacts DEF Id
  <2>4. Len(Bare(n.path)) \in Nat BY <2>3
  <2>5. Place(n, node.name[2]) = Bare(n.path) OBVIOUS
  <2> QED BY <2>2, <2>4, <2>5
<1>4. PathTree'
  <2>1. CASE AddNode(n, parent, node) BY <2>1, PathedAdded
  <2>2. CASE UNCHANGED <<nodes, references>> BY <2>2, SameTree
  <2> QED BY <2>1, <2>2
<1>5. \A q \in DOMAIN nodes' : q.kind = "str" /\ Bare(q.path) = Bare(n.path) => q = n
  <2>1. \A m \in DOMAIN nodes' \ DOMAIN nodes : m = n BY AddEffect
  <2> QED BY <1>1, <2>1 DEF Pathed
<1> QED BY <1>2, <1>3, <1>4, <1>5

\* The walk through a type for an object that is new.
LEMMA NewWalk ==
    ASSUME ServerInv, PathTree, Grows, NEW n, n \notin DOMAIN nodes, n.kind = "str", WellFormed(n.path),
           NEW parent, parent # n, references' \subseteq references \cup {<<parent, n>>},
           \A q \in DOMAIN nodes' : q.kind = "str" /\ Bare(q.path) = Bare(n.path) => q = n,
           NEW t, Declaring(t), NEW w, w.op = "manifest", w.to = n, w.todo = Children(t)
    PROVE  ManifestWalk(w, nodes', references')
<1>0. references \subseteq (DOMAIN nodes) \X (DOMAIN nodes) BY InvFacts DEF TypeOK
<1>1. n # Objects BY DEF Objects, NumericIn
<1>2. ASSUME NEW c \in Children(t), NEW d \in Children(t), nodes'[c].name # Nil,
             nodes'[d].name # Nil, nodes'[c].name[2] = nodes'[d].name[2]
      PROVE  c = d
  <2>1. c \in DOMAIN nodes /\ d \in DOMAIN nodes /\ t \in DOMAIN nodes BY <1>0 DEF Children
  <2>2. nodes'[c].name = nodes[c].name /\ nodes'[d].name = nodes[d].name BY <2>1, NamesKept
  <2>3. c \in Named(Children(t)) /\ d \in Named(Children(t)) /\ Text(c) = Text(d)
    BY <1>2, <2>2 DEF Named, Text
  <2> QED BY <2>1, <2>3 DEF PathTree
<1>3. ASSUME NEW e, <<n, e>> \in references' PROVE FALSE
  <2>1. <<n, e>> \notin references BY <1>0
  <2>2. <<n, e>> = <<parent, n>> BY <1>3, <2>1
  <2> QED BY <2>2
<1> QED BY <1>1, <1>2, <1>3 DEF ManifestWalk

\* manifest
LEMMA ManifestPathStep ==
    ASSUME ServerInv, ServerInv', PathInv, NEW parent \in Instances, NEW name \in Name, NEW live,
           NEW t, Manifest(parent, name, t, live)
    PROVE  PathInv'
<1> DEFINE p == ObjectPath(parent, name)
           n == Path(p)
           node == NewObject(Qualified(name), t)
           w == Walk("manifest", t, n, Children(t), IsType(t) /\ Added(n, parent), live, "mandatory")
<1>1. /\ AddNode(n, parent, node) \/ UNCHANGED <<nodes, references>>
      /\ walks' = <<w>>
      /\ proper' = (proper /\ Apart(parent, name) /\ Live(parent)
                      /\ (parent = Objects \/ parent.kind = "str"))
      /\ clash' = (clash \/ (proper' /\ Live(n)))
  BY DEF Manifest
<1>2. node.name \in QName /\ node.name[2] = name BY InvFacts DEF NewObject, Qualified, QName
<1>3. w.op = "manifest" /\ w.to = n /\ w.todo = Children(t) BY DEF Walk
<1>4. n.kind = "str" /\ n.path = p BY DEF Path
<1>5. parent \in Id /\ ~Declaring(parent) /\ Declaring(t)
  <2>1. t \in Types(known) \cup Types(dead) BY DEF Manifest
  <2> QED BY <2>1, HandleFacts
<1>6. n \in Id BY <1>5, PathFacts, IdFacts, InvFacts
<1>7. name \in Token BY DEF Token
<1> HIDE DEF node, w
<1>8. w \in Frame
  <2>1. walks' \in Seq(Frame) BY DEF ServerInv, TypeOK
  <2> QED BY <1>1, <2>1
<1>9. ASSUME proper' PROVE ~Live(n) /\ PathTree' /\ ManifestWalk(w, nodes', references')
  <2>1. /\ proper /\ PathTree /\ Apart(parent, name) /\ parent \in DOMAIN nodes
        /\ parent = Objects \/ parent.kind = "str"
    BY <1>1, <1>9, PathInvFacts DEF Live
  <2>2. Placing(parent) /\ Single(parent) /\ (parent.kind = "str" => WellFormed(parent.path))
    <3>1. CASE parent = Objects BY <3>1, RootFacts DEF Placing, Single
    <3>2. CASE parent.kind = "str"
      <4>1. parent \in Pathed BY <2>1, <3>2 DEF Pathed
      <4>2. Placing(parent) /\ Single(parent) BY <2>1, <4>1, PathedFacts
      <4>3. parent # Objects BY <3>2, RootFacts
      <4> QED BY <4>2, <4>3 DEF Placing
    <3> QED BY <2>1, <3>1, <3>2
  <2>3. WellFormed(p) /\ Bare(p) = Place(parent, name) BY <1>5, <1>7, <2>2, ObjectPathFacts
  <2> HIDE DEF p, n
  <2>4. WellFormed(n.path) /\ Bare(n.path) = Place(parent, node.name[2]) BY <1>2, <1>4, <2>3
  <2>5. /\ n \notin DOMAIN nodes /\ parent # n /\ PathTree'
        /\ \A q \in DOMAIN nodes' : q.kind = "str" /\ Bare(q.path) = Bare(n.path) => q = n
    BY <1>1, <1>2, <1>4, <1>5, <1>6, <2>1, <2>2, <2>4, PathAdded
  <2>6. Grows /\ references' \subseteq references \cup {<<parent, n>>} BY <1>1, AddEffect
  <2>7. ManifestWalk(w, nodes', references')
    BY <1>3, <1>4, <1>5, <2>1, <2>4, <2>5, <2>6, NewWalk
  <2> QED BY <2>5, <2>7 DEF Live
<1>10. NoClash' BY <1>1, <1>9, PathInvFacts DEF NoClash
<1>11. IsFiniteSet(references')
  <2>1. references' \subseteq references \cup {<<parent, n>>} BY <1>1, AddEffect
  <2> QED BY <2>1, PathInvFacts, StillFinite
<1>12. ASSUME proper' PROVE PathWalks(walks', nodes', references')
  BY <1>1, <1>8, <1>9, <1>12, PathWalksFirst
<1> QED BY <1>9, <1>10, <1>11, <1>12, PathStep

\* What manifest creates under the walk on top, and what it leaves to do.
LEMMA ChildAdded ==
    ASSUME ServerInv, PathTree, PathWalks(walks, nodes, references), walks # <<>>, Top.op = "manifest",
           NEW c \in Top.todo, Manifested(c),
           NEW n, n = Path(ChildPath(Top.to.path, Text(c))),
           NEW node, node.name = nodes[c].name,
           AddNode(n, Top.to, node) \/ UNCHANGED <<nodes, references>>
    PROVE  /\ n \in Id /\ n.kind = "str" /\ n \notin DOMAIN nodes /\ WellFormed(n.path) /\ Top.to # n /\ PathTree'
           /\ \A q \in DOMAIN nodes' : q.kind = "str" /\ Bare(q.path) = Bare(n.path) => q = n
           /\ \A k \in DOMAIN walks : walks[k].to.kind = "str" =>
                 Len(Bare(walks[k].to.path)) < Len(Bare(n.path))
           /\ \A k \in 1..(Len(walks) - 1) : ManifestWalk(walks[k], nodes', references')
           /\ ManifestWalk([Top EXCEPT !.todo = @ \ {c}], nodes', references')
           /\ GoDown(walks)
<1> DEFINE name == Text(c)
           p == ChildPath(Top.to.path, name)
<1>1. /\ Len(walks) \in Nat \ {0} /\ DOMAIN walks = 1..Len(walks)
      /\ Len(walks) \in DOMAIN walks /\ Top \in Frame /\ Top = walks[Len(walks)]
      /\ walks \in Seq(Frame)
  BY TopFacts, InvFacts
<1>2. /\ c \in DOMAIN nodes /\ c \in Id /\ NodeInv(c) /\ Top.to \in Id /\ GoodWalk(Top, nodes)
      /\ nodes[c].name \in QName /\ nodes[c].name # Nil /\ name \in Name /\ name \in Token
  BY ChildFacts, TextFacts, IdAssumption DEF Manifested, NodeInv, Declared, Token
<1>3. ManifestWalk(Top, nodes, references) BY <1>1 DEF PathWalks
<1>4. /\ Top.to.kind = "str" /\ WellFormed(Top.to.path) /\ Placing(Top.to) /\ Single(Top.to)
      /\ Apart(Top.to, name) /\ ~Declaring(Top.to)
  <2>1. Top.to.kind = "str" /\ WellFormed(Top.to.path) BY <1>3 DEF ManifestWalk
  <2>2. Single(Top.to) BY <1>3 DEF ManifestWalk, Single, Pathed
  <2>3. Apart(Top.to, name) BY <1>2, <1>3, <2>1 DEF ManifestWalk, Apart, Text, Children
  <2>4. ~Declaring(Top.to) BY <1>2 DEF GoodWalk, Declaring
  <2> QED BY <2>1, <2>2, <2>3, <2>4 DEF Placing
<1>5. Top.to.path \in Seq(Token) BY <1>2 DEF Id
<1>6. n \in Id /\ n.kind = "str" /\ n.path = p BY <1>2, <1>5, PathFacts, IdFacts, InvFacts DEF Path
<1>7. WellFormed(p) /\ Bare(p) = Place(Top.to, name) BY <1>2, <1>4, <1>5, ChildPathFacts DEF Place
<1> HIDE DEF p, name
<1>8. node.name \in QName /\ node.name[2] = name BY <1>2 DEF name, Text
<1>9. WellFormed(n.path) /\ Bare(n.path) = Place(Top.to, node.name[2]) BY <1>6, <1>7, <1>8
<1>10. /\ n \notin DOMAIN nodes /\ Top.to # n /\ PathTree'
       /\ \A q \in DOMAIN nodes' : q.kind = "str" /\ Bare(q.path) = Bare(n.path) => q = n
  BY <1>2, <1>4, <1>6, <1>8, <1>9, PathAdded
<1>11. /\ Grows /\ references' \subseteq references \cup {<<Top.to, n>>}
       /\ \A m \in DOMAIN nodes' \ DOMAIN nodes : m = n /\ nodes'[m] = node
       /\ \A r \in references' \ references : r = <<Top.to, n>> /\ nodes'[n] = node
  BY AddEffect
<1>12. Len(Bare(Top.to.path)) < Len(Bare(n.path)) /\ Len(Bare(n.path)) \in Nat /\ Len(Bare(Top.to.path)) \in Nat
  <2>1. Len(Bare(Top.to.path)) < Len(Place(Top.to, node.name[2])) BY <1>2, <1>4, <1>8, PlacesGrow
  <2>2. n.path \in Seq(Token) BY <1>6 DEF Id
  <2> QED BY <1>4, <1>5, <1>9, <2>1, <2>2, BareFacts
<1>13. GoDown(walks) BY DEF PathWalks
<1>14. ASSUME NEW k \in 1..(Len(walks) - 1), walks[k].to.kind = "str"
       PROVE  /\ walks[k].to.path \in Seq(Token) /\ Len(Bare(walks[k].to.path)) \in Nat
              /\ Len(Bare(walks[k].to.path)) < Len(Bare(Top.to.path))
  <2>1. k \in DOMAIN walks /\ k < Len(walks) /\ walks[k] \in Frame BY <1>1, <1>14
  <2>2. ManifestWalk(walks[k], nodes, references) BY <2>1 DEF PathWalks
  <2>3. walks[k].to.path \in Seq(Token) /\ WellFormed(walks[k].to.path)
    BY <1>14, <2>1, <2>2 DEF ManifestWalk, Frame, Id
  <2>4. Len(Bare(walks[k].to.path)) < Len(Bare(Top.to.path)) BY <1>1, <1>4, <1>13, <1>14, <2>1 DEF GoDown
  <2> QED BY <2>3, <2>4, BareFacts
<1>15. ASSUME NEW k \in DOMAIN walks, walks[k].to.kind = "str"
       PROVE  Len(Bare(walks[k].to.path)) < Len(Bare(n.path))
  <2>1. CASE k = Len(walks) BY <1>1, <1>12, <2>1
  <2>2. CASE k # Len(walks)
    <3>1. k \in 1..(Len(walks) - 1) BY <1>1, <2>2
    <3> QED BY <1>12, <1>14, <1>15, <3>1
  <2> QED BY <2>1, <2>2
<1>16. ASSUME NEW k \in 1..(Len(walks) - 1) PROVE ManifestWalk(walks[k], nodes', references')
  <2>1. k \in DOMAIN walks BY <1>1
  <2>2. ManifestWalk(walks[k], nodes, references) /\ GoodWalk(walks[k], nodes)
    BY <2>1, InvFacts DEF PathWalks
  <2>3. ASSUME walks[k].op = "manifest"
        PROVE  /\ \A r \in references' \ references : r[1] # walks[k].to
               /\ \A m \in DOMAIN nodes' \ DOMAIN nodes : m.kind = "str" => Bare(m.path) # Bare(walks[k].to.path)
    <3>1. /\ Len(Bare(walks[k].to.path)) \in Nat
          /\ Len(Bare(walks[k].to.path)) < Len(Bare(Top.to.path))
          /\ Len(Bare(walks[k].to.path)) < Len(Bare(n.path))
      BY <1>14, <1>15, <2>1, <2>2, <2>3 DEF ManifestWalk
    <3>2. Top.to # walks[k].to BY <1>12, <3>1
    <3>3. Bare(n.path) # Bare(walks[k].to.path) BY <1>12, <3>1
    <3> QED BY <1>11, <3>2, <3>3
  <2> QED BY <1>11, <2>2, <2>3, WalkKept
<1>17. ManifestWalk([Top EXCEPT !.todo = @ \ {c}], nodes', references')
  <2> DEFINE v == [Top EXCEPT !.todo = @ \ {c}]
  <2>1. v.op = Top.op /\ v.to = Top.to /\ v.todo = Top.todo \ {c} BY <1>1 DEF Frame
  <2> HIDE DEF v
  <2>2. \A d \in DOMAIN nodes : d \in DOMAIN nodes' /\ nodes'[d].name = nodes[d].name BY <1>11, NamesKept
  <2>2a. \A d \in Top.todo : d \in DOMAIN nodes BY <1>2 DEF GoodWalk
  <2>3. \A d, e \in v.todo : nodes'[d].name # Nil /\ nodes'[e].name # Nil
                            /\ nodes'[d].name[2] = nodes'[e].name[2] => d = e
    BY <1>3, <2>1, <2>2, <2>2a DEF ManifestWalk
  <2>4. ASSUME NEW d \in v.todo, NEW e \in DOMAIN nodes', nodes'[d].name # Nil, nodes'[e].name # Nil,
               <<Top.to, e>> \in references'
        PROVE  nodes'[e].name[2] # nodes'[d].name[2]
    <3>0. d \in Top.todo /\ d # c /\ nodes'[d].name = nodes[d].name BY <2>1, <2>2, <2>2a
    <3>1. CASE <<Top.to, e>> \in references
      <4>1. e \in DOMAIN nodes BY <3>1, InvFacts DEF TypeOK
      <4>2. nodes'[e].name = nodes[e].name BY <2>2, <4>1
      <4> QED BY <1>3, <2>4, <3>0, <3>1, <4>1, <4>2 DEF ManifestWalk
    <3>2. CASE <<Top.to, e>> \notin references
      <4>1. <<Top.to, e>> = <<Top.to, n>> /\ nodes'[n] = node BY <1>11, <2>4, <3>2
      <4>2. nodes'[e].name = nodes[c].name BY <4>1
      <4>3. nodes[d].name[2] # nodes[c].name[2] BY <1>2, <1>3, <2>4, <3>0 DEF ManifestWalk
      <4> QED BY <3>0, <4>2, <4>3
    <3> QED BY <3>1, <3>2
  <2>5. \A q \in DOMAIN nodes' : q.kind = "str" /\ Bare(q.path) = Bare(Top.to.path) => q = Top.to
    <3>1. Bare(n.path) # Bare(Top.to.path) BY <1>12
    <3> QED BY <1>3, <1>11, <3>1 DEF ManifestWalk
  <2>6. Top.to # Objects BY <1>3 DEF ManifestWalk
  <2>7. ManifestWalk(v, nodes', references') BY <1>4, <2>1, <2>3, <2>4, <2>5, <2>6 DEF ManifestWalk
  <2> QED BY <2>7 DEF v
<1> QED BY <1>6, <1>9, <1>10, <1>13, <1>15, <1>16, <1>17

\* manifest_iter creates a variable or a method
LEMMA ManifestLeafPathStep == ASSUME ServerInv, PathInv, ManifestLeaf PROVE PathInv'
<1>1. walks # <<>> /\ Top.op = "manifest" /\ proper' = proper
  BY DEF ManifestLeaf, Walking
<1>2. PICK c \in Top.todo :
        LET n == Path(ChildPath(Top.to.path, Text(c))) IN
        /\ Manifested(c)
        /\ AddNode(n, Top.to, [nodes[c] EXCEPT !.rule = "mandatory", !.block = BlockOf(c),
                                               !.copied = (c.kind = "gen")])
        /\ clash' = (clash \/ (proper /\ Live(n)))
        /\ walks' = Done(c)
  BY DEF ManifestLeaf
<1> DEFINE n == Path(ChildPath(Top.to.path, Text(c)))
           node == [nodes[c] EXCEPT !.rule = "mandatory", !.block = BlockOf(c),
                                    !.copied = (c.kind = "gen")]
<1>3. AddNode(n, Top.to, node) /\ clash' = (clash \/ (proper /\ Live(n))) BY <1>2
<1>4. node.name = nodes[c].name BY <1>1, ChildFacts DEF Node
<1>5. n = Path(ChildPath(Top.to.path, Text(c))) OBVIOUS
<1> HIDE DEF n, node
<1>6. ASSUME proper PROVE n \notin DOMAIN nodes /\ PathTree' /\ PathWalks(walks', nodes', references')
  <2>1. PathTree /\ PathWalks(walks, nodes, references) BY <1>6, PathInvFacts
  <2>2. /\ n \notin DOMAIN nodes /\ PathTree'
        /\ \A k \in 1..(Len(walks) - 1) : ManifestWalk(walks[k], nodes', references')
        /\ ManifestWalk([Top EXCEPT !.todo = @ \ {c}], nodes', references')
        /\ GoDown(walks)
    BY <1>1, <1>2, <1>3, <1>4, <1>5, <2>1, ChildAdded
  <2>3. walks \in Seq(Frame) /\ Top \in Frame BY <1>1, InvFacts
  <2>4. PathWalks(walks', nodes', references') BY <1>1, <1>2, <2>2, <2>3, PathWalksStep
  <2> QED BY <2>2, <2>4
<1>7. NoClash' BY <1>3, <1>6, PathInvFacts DEF NoClash, Live
<1>8. IsFiniteSet(references')
  <2>1. references' \subseteq references \cup {<<Top.to, n>>} BY <1>3, AddEffect
  <2> QED BY <2>1, PathInvFacts, StillFinite
<1> QED BY <1>1, <1>6, <1>7, <1>8, PathStep

\* manifest_iter creates an object, and walks its declarations next
LEMMA ManifestObjectPathStep == ASSUME ServerInv, ServerInv', PathInv, ManifestObject PROVE PathInv'
<1>1. walks # <<>> /\ Top.op = "manifest" /\ proper' = proper
  BY DEF ManifestObject, Walking
<1>2. PICK c \in Top.todo :
        LET n == Path(ChildPath(Top.to.path, Text(c)))
            typed == Live(nodes[c].type)
        IN  /\ Manifested(c)
            /\ \/ AddNode(n, Top.to, NewObject(nodes[c].name, nodes[c].type))
               \/ UNCHANGED <<nodes, references>>
            /\ clash' = (clash \/ (proper /\ Live(n)))
            /\ walks' = Descend(c, Walk("manifest", c, n, Children(c),
                                        typed /\ Added(n, Top.to), Top.live, "mandatory"))
  BY DEF ManifestObject
<1> DEFINE n == Path(ChildPath(Top.to.path, Text(c)))
           node == NewObject(nodes[c].name, nodes[c].type)
           w == Walk("manifest", c, n, Children(c), Live(nodes[c].type) /\ Added(n, Top.to), Top.live,
                     "mandatory")
<1>3. /\ AddNode(n, Top.to, node) \/ UNCHANGED <<nodes, references>>
      /\ clash' = (clash \/ (proper /\ Live(n)))
      /\ walks' = Descend(c, w)
  BY <1>2
<1>4. node.name = nodes[c].name BY DEF NewObject
<1>5. n = Path(ChildPath(Top.to.path, Text(c))) OBVIOUS
<1>6. w.op = "manifest" /\ w.to = n /\ w.todo = Children(c) BY DEF Walk
<1> HIDE DEF n, node, w
<1>7. walks \in Seq(Frame) /\ Top \in Frame /\ Len(walks) \in Nat /\ Declaring(c)
  BY <1>1, InvFacts, TopFacts, ChildFacts
<1>8. w \in Frame
  <2>1. walks' \in Seq(Frame) BY DEF ServerInv, TypeOK
  <2>2. Done(c) \in Seq(Frame) BY <1>1, <1>7, DoneFacts
  <2>3. walks' = Append(Done(c), w) BY <1>3 DEF Descend
  <2>4. Len(Done(c)) \in Nat /\ Len(walks') = Len(Done(c)) + 1 /\ walks'[Len(Done(c)) + 1] = w
    BY <2>2, <2>3
  <2> QED BY <2>1, <2>4
<1>9. ASSUME proper PROVE n \notin DOMAIN nodes /\ PathTree' /\ PathWalks(walks', nodes', references')
  <2>1. PathTree /\ PathWalks(walks, nodes, references) BY <1>9, PathInvFacts
  <2>2. /\ n \notin DOMAIN nodes /\ n.kind = "str" /\ WellFormed(n.path) /\ Top.to # n /\ PathTree'
        /\ \A q \in DOMAIN nodes' : q.kind = "str" /\ Bare(q.path) = Bare(n.path) => q = n
        /\ \A k \in DOMAIN walks : walks[k].to.kind = "str" => Len(Bare(walks[k].to.path)) < Len(Bare(n.path))
        /\ \A k \in 1..(Len(walks) - 1) : ManifestWalk(walks[k], nodes', references')
        /\ ManifestWalk([Top EXCEPT !.todo = @ \ {c}], nodes', references')
        /\ GoDown(walks)
    BY <1>1, <1>2, <1>3, <1>4, <1>5, <2>1, ChildAdded
  <2>3. Grows /\ references' \subseteq references \cup {<<Top.to, n>>} BY <1>3, AddEffect
  <2>4. ManifestWalk(w, nodes', references') BY <1>6, <1>7, <2>1, <2>2, <2>3, NewWalk
  <2>5. Above(walks, w) BY <1>6, <2>2 DEF Above
  <2>6. PathWalks(walks', nodes', references') BY <1>1, <1>3, <1>7, <1>8, <2>2, <2>4, <2>5, PathWalksStep
  <2> QED BY <2>2, <2>6
<1>10. NoClash' BY <1>3, <1>9, PathInvFacts DEF NoClash, Live
<1>11. IsFiniteSet(references')
  <2>1. references' \subseteq references \cup {<<Top.to, n>>} BY <1>3, AddEffect
  <2> QED BY <2>1, PathInvFacts, StillFinite
<1> QED BY <1>1, <1>9, <1>10, <1>11, PathStep

\* The steps that leave the store alone, and go on with the walks.
LEMMA WalkingPathStep ==
    ASSUME ServerInv, PathInv, UNCHANGED <<nodes, references, proper, clash>>,
           proper => (PathTree /\ PathWalks(walks, nodes, references) => PathWalks(walks', nodes, references))
    PROVE  PathInv'
<1>1. NoClash' /\ IsFiniteSet(references') BY PathInvFacts DEF NoClash
<1>2. ASSUME proper' PROVE PathTree' /\ PathWalks(walks', nodes', references')
  <2>1. PathTree /\ PathWalks(walks, nodes, references) BY <1>2, PathInvFacts
  <2> QED BY <1>2, <2>1, SameTree
<1> QED BY <1>1, <1>2, PathStep

LEMMA ManifestSkipPathStep == ASSUME ServerInv, PathInv, ManifestSkip PROVE PathInv'
<1>1. walks # <<>> /\ UNCHANGED <<nodes, references, proper, clash>>
  BY DEF ManifestSkip, Walking, library, history
<1>2. PICK c \in Top.todo : walks' = Done(c) BY DEF ManifestSkip
<1>3. /\ walks \in Seq(Frame) /\ Top \in Frame /\ Top = walks[Len(walks)]
      /\ Len(walks) \in DOMAIN walks /\ DOMAIN walks = 1..Len(walks) /\ Len(walks) \in Nat
  BY <1>1, InvFacts, TopFacts
<1>4. ASSUME PathWalks(walks, nodes, references) PROVE PathWalks(walks', nodes, references)
  <2>1. GoDown(walks) /\ \A k \in DOMAIN walks : ManifestWalk(walks[k], nodes, references)
    BY <1>4 DEF PathWalks
  <2>2. ManifestWalk([Top EXCEPT !.todo = @ \ {c}], nodes, references) BY <1>3, <2>1, WalkShorter
  <2>3. \A k \in 1..(Len(walks) - 1) : ManifestWalk(walks[k], nodes, references) BY <1>3, <2>1
  <2> QED BY <1>1, <1>2, <1>3, <2>1, <2>2, <2>3, PathWalksStep
<1> QED BY <1>1, <1>4, WalkingPathStep

LEMMA WalkReturnPathStep == ASSUME ServerInv, PathInv, WalkReturn PROVE PathInv'
<1>1. walks # <<>> /\ UNCHANGED <<references, proper, clash>>
      /\ walks' = SubSeq(walks, 1, Len(walks) - 1)
  BY DEF WalkReturn, Walking, history
<1>2. walks \in Seq(Frame) BY InvFacts
<1>3. Grows /\ DOMAIN nodes' = DOMAIN nodes BY ReturnGrows
<1>4. NoClash' /\ IsFiniteSet(references') BY <1>1, PathInvFacts DEF NoClash
<1>5. ASSUME proper' PROVE PathTree' /\ PathWalks(walks', nodes', references')
  <2>1. PathTree /\ PathWalks(walks, nodes, references) BY <1>1, <1>5, PathInvFacts
  <2>2. /\ references \subseteq references' /\ references' \ references = {}
        /\ DOMAIN nodes' \ DOMAIN nodes = {}
    BY <1>1, <1>3
  <2>3. PathTree' BY <1>3, <2>1, <2>2, OthersAdded
  <2>4. ASSUME NEW k \in DOMAIN walks PROVE ManifestWalk(walks[k], nodes', references')
    <3>1. ManifestWalk(walks[k], nodes, references) /\ GoodWalk(walks[k], nodes)
      BY <2>1, InvFacts DEF PathWalks
    <3> QED BY <1>3, <2>2, <3>1, WalkKept
  <2>5. PathWalks(walks, nodes', references') BY <2>1, <2>4 DEF PathWalks
  <2> QED BY <1>1, <1>2, <2>3, <2>5, PathWalksFront
<1> QED BY <1>4, <1>5, PathStep

\* a walk of manifest becomes one of the library's
LEMMA ManifestFinishPathStep == ASSUME ServerInv, PathInv, ManifestFinish PROVE PathInv'
<1>1. walks # <<>> /\ UNCHANGED <<nodes, references, proper, clash>>
      /\ walks' = [walks EXCEPT ![Len(walks)].op = "finish", ![Len(walks)].todo = ToFinish]
  BY DEF ManifestFinish, Walking, library, history
<1> DEFINE v == [Top EXCEPT !.op = "finish", !.todo = ToFinish]
<1>2. /\ walks \in Seq(Frame) /\ Top \in Frame /\ Top = walks[Len(walks)]
      /\ Len(walks) \in DOMAIN walks /\ DOMAIN walks = 1..Len(walks)
  BY <1>1, InvFacts, TopFacts
<1>3. v.op = "finish" /\ v.to = Top.to BY <1>2 DEF Frame
<1>4. DOMAIN walks' = DOMAIN walks /\ \A k \in DOMAIN walks : walks'[k] = IF k = Len(walks) THEN v ELSE walks[k]
  BY <1>1, <1>2 DEF Top
<1> HIDE DEF v
<1>5. ASSUME PathWalks(walks, nodes, references) PROVE PathWalks(walks', nodes, references)
  <2>1. GoDown(walks) /\ \A k \in DOMAIN walks : ManifestWalk(walks[k], nodes, references)
    BY <1>5 DEF PathWalks
  <2>2. ManifestWalk(v, nodes, references) BY <1>2, <1>3, <2>1 DEF ManifestWalk
  <2>3. \A k \in DOMAIN walks : /\ walks'[k].to = walks[k].to
                                /\ walks'[k].op = "manifest" => walks[k].op = "manifest"
    BY <1>2, <1>3, <1>4
  <2>4. GoDown(walks') BY <1>4, <2>1, <2>3 DEF GoDown
  <2> QED BY <1>4, <2>1, <2>2, <2>4 DEF PathWalks
<1> QED BY <1>1, <1>5, WalkingPathStep

\* What hangs on an object has a longer path than the walks that led to it.
LEMMA ChildAbove ==
    ASSUME ServerInv, PathTree, PathWalks(walks, nodes, references), walks # <<>>, Top.op # "manifest",
           NEW e, <<Top.to, e>> \in references, NEW w, w.to = e
    PROVE  Above(walks, w)
<1> SUFFICES ASSUME e.kind = "str", NEW k \in DOMAIN walks, walks[k].to.kind = "str"
             PROVE  Len(Bare(walks[k].to.path)) < Len(Bare(e.path))
  BY DEF Above
<1>1. /\ Len(walks) \in Nat \ {0} /\ DOMAIN walks = 1..Len(walks) /\ walks \in Seq(Frame)
      /\ Len(walks) \in DOMAIN walks /\ Top \in Frame /\ Top = walks[Len(walks)]
  BY TopFacts, InvFacts
<1>2. k \in 1..Len(walks) /\ walks[k] \in Frame BY <1>1
<1>3. e \in Pathed BY InvFacts DEF TypeOK, Pathed
<1>4. PICK q \in Id : /\ <<q, e>> \in references /\ Placing(q)
                      /\ nodes[e].name \in QName /\ Bare(e.path) = Place(q, Text(e))
  BY <1>3, ParentFacts
<1>5. q = Top.to
  <2>1. <<q, e>> = <<Top.to, e>> BY <1>4 DEF PathTree
  <2> QED BY <2>1
<1>6. Top.to # Objects /\ ManifestWalk(walks[k], nodes, references) /\ GoDown(walks)
  BY <1>1 DEF PathWalks, ManifestWalk
<1>7. q.kind = "str" /\ WellFormed(q.path) /\ q.path \in Seq(Token) BY <1>4, <1>5, <1>6 DEF Placing, Id
<1>8. Text(e) \in Token BY <1>4, TextFacts DEF Token
<1>9. Len(Bare(q.path)) < Len(Bare(e.path))
  <2>1. Len(Bare(q.path)) < Len(Place(q, Text(e))) BY <1>7, <1>8, PlacesGrow
  <2> QED BY <1>4, <2>1
<1>10. k = Len(walks) \/ Len(Bare(walks[k].to.path)) < Len(Bare(q.path))
  <2>1. k # Len(walks) => k < Len(walks) BY <1>1, <1>2
  <2> QED BY <1>1, <1>5, <1>6, <1>7, <2>1 DEF GoDown
<1>11. Len(Bare(q.path)) \in Nat BY <1>7, BareFacts
<1>12. Len(Bare(walks[k].to.path)) \in Nat
  <2>1. walks[k].to.path \in Seq(Token) /\ WellFormed(walks[k].to.path)
    BY <1>2, <1>6 DEF ManifestWalk, Frame, Id
  <2> QED BY <2>1, BareFacts
<1>13. Len(Bare(e.path)) \in Nat
  <2>1. e.path \in Seq(Token) /\ WellFormed(e.path) BY <1>3, PathedFacts, RootFacts DEF Placing, Id
  <2> QED BY <2>1, BareFacts
<1> QED BY <1>1, <1>5, <1>9, <1>10, <1>11, <1>12, <1>13

\* the library finds a required child in place
LEMMA CopyExistingPathStep == ASSUME ServerInv, ServerInv', PathInv, CopyExisting PROVE PathInv'
<1>1. walks # <<>> /\ Top.op # "manifest" /\ UNCHANGED <<nodes, references, proper, clash>>
  BY DEF CopyExisting, Walking, library, history
<1>2. PICK c \in Top.todo, e \in Children(Top.to) :
        walks' = Done(c) \/ walks' = Descend(c, Merge(c, e, Inner(c), Top.live))
  BY DEF CopyExisting
<1> DEFINE w == Merge(c, e, Inner(c), Top.live)
<1>3. w.op = "merge" /\ w.to = e BY DEF Walk, Merge
<1>4. walks' = Done(c) \/ walks' = Descend(c, w) BY <1>2
<1> HIDE DEF w
<1>5. /\ walks \in Seq(Frame) /\ Top \in Frame /\ Top = walks[Len(walks)]
      /\ Len(walks) \in DOMAIN walks /\ DOMAIN walks = 1..Len(walks) /\ Len(walks) \in Nat
  BY <1>1, InvFacts, TopFacts
<1>6. ASSUME PathTree, PathWalks(walks, nodes, references) PROVE PathWalks(walks', nodes, references)
  <2>1. GoDown(walks) /\ \A k \in DOMAIN walks : ManifestWalk(walks[k], nodes, references)
    BY <1>6 DEF PathWalks
  <2>2. ManifestWalk([Top EXCEPT !.todo = @ \ {c}], nodes, references) BY <1>5, <2>1, WalkShorter
  <2>3. \A k \in 1..(Len(walks) - 1) : ManifestWalk(walks[k], nodes, references) BY <1>5, <2>1
  <2>4. CASE walks' = Done(c) BY <1>1, <1>5, <2>1, <2>2, <2>3, <2>4, PathWalksStep
  <2>5. CASE walks' = Descend(c, w)
    <3>1. w \in Frame
      <4>1. walks' \in Seq(Frame) BY DEF ServerInv, TypeOK
      <4>2. Done(c) \in Seq(Frame) BY <1>1, <1>5, DoneFacts
      <4>3. walks' = Append(Done(c), w) BY <2>5 DEF Descend
      <4>4. Len(Done(c)) \in Nat /\ Len(walks') = Len(Done(c)) + 1 /\ walks'[Len(Done(c)) + 1] = w
        BY <4>2, <4>3
      <4> QED BY <4>1, <4>4
    <3>2. <<Top.to, e>> \in references BY DEF Children
    <3>3. e # Objects BY <1>6, <3>2 DEF PathTree
    <3>4. ManifestWalk(w, nodes, references)
      <4>1. e \in DOMAIN nodes BY ChildrenFacts
      <4>2. e.kind = "str" => WellFormed(e.path) BY <1>6, <4>1 DEF PathTree, Pathed, Placed
      <4> QED BY <1>3, <3>3, <4>2 DEF ManifestWalk
    <3>5. Above(walks, w) BY <1>1, <1>3, <1>6, <3>2, ChildAbove
    <3> QED BY <1>1, <1>5, <2>1, <2>2, <2>3, <2>5, <3>1, <3>4, <3>5, PathWalksStep
  <2> QED BY <1>4, <2>4, <2>5
<1> QED BY <1>1, <1>6, WalkingPathStep

\* What the library adds where it copies: no path, and in a declaration no name that is there.
LEMMA CopyAdded ==
    ASSUME ServerInv, PathTree, PathWalks(walks, nodes, references), walks # <<>>, Top.op # "manifest",
           NEW c, Declaring(Top.to) => Apart(Top.to, Text(c)), Grows, references \subseteq references',
           NEW x, x.kind # "str", x # Objects, nodes'[x].name = nodes[c].name \/ references' = references,
           \A m \in DOMAIN nodes' \ DOMAIN nodes : m = x,
           \A r \in references' \ references : r = <<Top.to, x>>
    PROVE  /\ PathTree' /\ GoDown(walks)
           /\ \A k \in 1..(Len(walks) - 1) : ManifestWalk(walks[k], nodes', references')
           /\ ManifestWalk([Top EXCEPT !.todo = @ \ {c}], nodes', references')
<1>1. /\ Len(walks) \in Nat \ {0} /\ DOMAIN walks = 1..Len(walks) /\ walks \in Seq(Frame)
      /\ Len(walks) \in DOMAIN walks /\ Top \in Frame /\ Top = walks[Len(walks)]
  BY TopFacts, InvFacts
<1>2. GoDown(walks) /\ \A k \in DOMAIN walks : ManifestWalk(walks[k], nodes, references)
  BY DEF PathWalks
<1>3. PathTree'
  <2>1. \A m \in DOMAIN nodes' \ DOMAIN nodes : m.kind # "str" OBVIOUS
  <2>2. \A r, s \in references' \ references : r = s OBVIOUS
  <2>3. ASSUME NEW r \in references' \ references
        PROVE  /\ r[2].kind # "str" /\ r[2] # Objects
               /\ Declaring(r[1]) => Apart(r[1], nodes'[r[2]].name[2])
    <3>1. r[1] = Top.to /\ r[2] = x /\ nodes'[x].name = nodes[c].name OBVIOUS
    <3> QED BY <3>1 DEF Text
  <2> QED BY <2>1, <2>2, <2>3, OthersAdded
<1>4. ASSUME NEW k \in 1..(Len(walks) - 1) PROVE ManifestWalk(walks[k], nodes', references')
  <2>1. k \in DOMAIN walks /\ k < Len(walks) /\ walks[k] \in Frame BY <1>1
  <2>2. ManifestWalk(walks[k], nodes, references) /\ GoodWalk(walks[k], nodes) BY <1>2, <2>1, InvFacts
  <2>3. ASSUME walks[k].op = "manifest" PROVE Top.to # walks[k].to
    <3> SUFFICES ASSUME Top.to = walks[k].to PROVE FALSE OBVIOUS
    <3>1. /\ Top.to.kind = "str" /\ walks[k].to.path \in Seq(Token) /\ WellFormed(walks[k].to.path)
      BY <2>1, <2>2, <2>3 DEF ManifestWalk, Frame, Id
    <3>2. Len(Bare(walks[k].to.path)) < Len(Bare(Top.to.path)) BY <1>1, <1>2, <2>1, <2>3, <3>1 DEF GoDown
    <3>3. Len(Bare(walks[k].to.path)) \in Nat BY <3>1, BareFacts
    <3> QED BY <3>2, <3>3
  <2>4. \A m \in DOMAIN nodes' \ DOMAIN nodes : m.kind # "str" OBVIOUS
  <2>5. ASSUME walks[k].op = "manifest"
        PROVE  /\ \A r \in references' \ references : r[1] # walks[k].to
               /\ \A m \in DOMAIN nodes' \ DOMAIN nodes : m.kind = "str" => Bare(m.path) # Bare(walks[k].to.path)
    BY <2>3, <2>4, <2>5
  <2> QED BY <2>2, <2>5, WalkKept
<1>5. ManifestWalk([Top EXCEPT !.todo = @ \ {c}], nodes', references')
  <2> DEFINE v == [Top EXCEPT !.todo = @ \ {c}]
  <2>1. v.op = Top.op /\ v.to = Top.to BY <1>1 DEF Frame
  <2>2. Top.to # Objects /\ (Top.to.kind = "str" => WellFormed(Top.to.path)) BY <1>1, <1>2 DEF ManifestWalk
  <2> HIDE DEF v
  <2>3. ManifestWalk(v, nodes', references') BY <2>1, <2>2 DEF ManifestWalk
  <2> QED BY <2>3 DEF v
<1> QED BY <1>2, <1>3, <1>4, <1>5

\* the library copies a required child, or shares a method
LEMMA CopyMissingPathStep == ASSUME ServerInv, ServerInv', PathInv, CopyMissing PROVE PathInv'
<1>1. walks # <<>> /\ Top.op # "manifest" /\ clash' = clash
  BY DEF CopyMissing, Walking
<1>2. PICK c \in Top.todo :
        LET g == Generated(Top.to, nodes[c].name) IN
        /\ \/ /\ references' = references \cup {<<Top.to, c>>}
              /\ walks' = Done(c)
              /\ nodes' = nodes
           \/ /\ AddNode(g, Top.to, [nodes[c] EXCEPT !.block = Nil, !.copied = TRUE])
              /\ walks' = Done(c) \/ walks' = Descend(c, Merge(c, g, Inner(c), Top.live))
        /\ proper' = (proper /\ (Top.to.num # 0 => Apart(Top.to, Text(c))))
  BY DEF CopyMissing
<1> DEFINE g == Generated(Top.to, nodes[c].name)
           node == [nodes[c] EXCEPT !.block = Nil, !.copied = TRUE]
           w == Merge(c, g, Inner(c), Top.live)
<1>3. /\ c \in DOMAIN nodes /\ NodeInv(c) /\ Declaring(c) /\ nodes[c] \in Node
      /\ Top \in Frame /\ Top.to \in Id /\ walks \in Seq(Frame)
  BY <1>1, ChildFacts, InvFacts
<1>4. c.kind # "str" /\ c # Objects BY <1>3 DEF NodeInv, WellNumbered, Declaring
<1>5. g.kind = "gen" BY <1>3 DEF Generated, Id
<1>6. g # Objects /\ g.kind # "str" BY <1>5 DEF Objects, NumericIn
<1>7. node.name = nodes[c].name BY <1>3 DEF Node
<1>8. w.op = "merge" /\ w.to = g BY DEF Walk, Merge
<1>9. proper' => proper /\ (Declaring(Top.to) => Apart(Top.to, Text(c))) BY <1>2 DEF Declaring
<1>10. \/ references' = references \cup {<<Top.to, c>>} /\ walks' = Done(c) /\ nodes' = nodes
       \/ AddNode(g, Top.to, node) /\ (walks' = Done(c) \/ walks' = Descend(c, w))
  BY <1>2
<1> HIDE DEF g, node, w
<1>11. NoClash' BY <1>1, PathInvFacts DEF NoClash
<1>12. IsFiniteSet(references')
  <2>1. CASE references' = references \cup {<<Top.to, c>>} BY <2>1, PathInvFacts, StillFinite
  <2>2. CASE AddNode(g, Top.to, node)
    <3>1. references' \subseteq references \cup {<<Top.to, g>>} BY <2>2, AddEffect
    <3> QED BY <3>1, PathInvFacts, StillFinite
  <2> QED BY <1>10, <2>1, <2>2
<1>13. ASSUME proper' PROVE PathTree' /\ PathWalks(walks', nodes', references')
  <2>0. PathTree /\ PathWalks(walks, nodes, references) BY <1>9, <1>13, PathInvFacts
  <2>1. CASE references' = references \cup {<<Top.to, c>>} /\ walks' = Done(c) /\ nodes' = nodes
    <3>1. Grows /\ references \subseteq references' /\ nodes'[c].name = nodes[c].name
          /\ DOMAIN nodes' \ DOMAIN nodes = {} /\ \A r \in references' \ references : r = <<Top.to, c>>
      BY <2>1 DEF Grows
    <3>2. /\ PathTree' /\ GoDown(walks)
          /\ \A k \in 1..(Len(walks) - 1) : ManifestWalk(walks[k], nodes', references')
          /\ ManifestWalk([Top EXCEPT !.todo = @ \ {c}], nodes', references')
      BY <1>1, <1>4, <1>9, <1>13, <2>0, <3>1, CopyAdded
    <3>3. PathWalks(walks', nodes', references') BY <1>1, <1>3, <2>1, <3>2, PathWalksStep
    <3> QED BY <3>2, <3>3
  <2>2. CASE AddNode(g, Top.to, node) /\ (walks' = Done(c) \/ walks' = Descend(c, w))
    <3>1. /\ Grows /\ references \subseteq references'
          /\ \A m \in DOMAIN nodes' \ DOMAIN nodes : m = g
          /\ \A r \in references' \ references : r = <<Top.to, g>> /\ nodes'[g] = node
      BY <2>2, AddEffect
    <3>2. nodes'[g].name = nodes[c].name \/ references' = references BY <1>7, <3>1
    <3>3. /\ PathTree' /\ GoDown(walks)
          /\ \A k \in 1..(Len(walks) - 1) : ManifestWalk(walks[k], nodes', references')
          /\ ManifestWalk([Top EXCEPT !.todo = @ \ {c}], nodes', references')
      BY <1>1, <1>6, <1>9, <1>13, <2>0, <3>1, <3>2, CopyAdded
    <3>4. CASE walks' = Done(c) BY <1>1, <1>3, <3>3, <3>4, PathWalksStep
    <3>5. CASE walks' = Descend(c, w)
      <4>1. w \in Frame
        <5>1. walks' \in Seq(Frame) BY DEF ServerInv, TypeOK
        <5>2. Done(c) \in Seq(Frame) BY <1>1, <1>3, DoneFacts
        <5>3. walks' = Append(Done(c), w) BY <3>5 DEF Descend
        <5>4. Len(Done(c)) \in Nat /\ Len(walks') = Len(Done(c)) + 1 /\ walks'[Len(Done(c)) + 1] = w
          BY <5>2, <5>3
        <5> QED BY <5>1, <5>4
      <4>2. ManifestWalk(w, nodes', references') BY <1>6, <1>8 DEF ManifestWalk
      <4>3. Above(walks, w) BY <1>6, <1>8 DEF Above
      <4> QED BY <1>1, <1>3, <3>3, <3>5, <4>1, <4>2, <4>3, PathWalksStep
    <3> QED BY <2>2, <3>3, <3>4, <3>5
  <2> QED BY <1>10, <2>1, <2>2
<1> QED BY <1>11, <1>12, <1>13, PathStep

-----------------------------------------------------------------------------
(* The theorems *)

\* The server starts in the invariant.
LEMMA InitPath == Init => PathInv
<1> SUFFICES ASSUME Init PROVE PathInv OBVIOUS
<1>1. references = {} /\ walks = <<>> /\ clash = FALSE BY DEF Init
<1>2. \A n \in DOMAIN nodes : n.kind # "str" BY DEF Init, Preset, StdIds, Objects, BaseType, FolderType, NumericIn
<1>3. Pathed = {} BY <1>2 DEF Pathed
<1>4. \A t : Named(Children(t)) = {} BY <1>1 DEF Named, Children
<1>5. PathTree BY <1>1, <1>3, <1>4 DEF PathTree
<1>6. DOMAIN walks = {} BY <1>1
<1>7. IsFiniteSet(references) BY <1>1, FS_EmptySet
<1> QED BY <1>1, <1>5, <1>6, <1>7 DEF PathInv, NoClash, Downward

\* Every step keeps the inductive invariant.
LEMMA PathInvStep == ServerInv /\ PathInv /\ [Next]_vars => PathInv'
<1> SUFFICES ASSUME ServerInv, PathInv, [Next]_vars PROVE PathInv' OBVIOUS
<1>0. ServerInv' BY ServerInvStep
<1>1. CASE \/ AddNamespace \/ (\E k \in Active : ActiveNamespace(k))
           \/ (\E self \in Owners : AddReference(self)) \/ UNCHANGED vars
  <2>1. UNCHANGED <<nodes, references, walks, proper, clash>>
    BY <1>1 DEF AddNamespace, ActiveNamespace, AddReference, vars, library, history
  <2> QED BY <2>1, QuietPathStep
<1>2. CASE \/ \E super \in Types(known) : AddObjectType(super)
           \/ \E top \in StdIds, accepted \in BOOLEAN : AddReferenceType(top, accepted)
  BY <1>2, TypePathStep, ReferenceTypePathStep
<1>3. CASE \E parent \in Owners, name \in Name, b \in Block \cup {Nil} :
             AddVariable(parent, name, b) \/ AddMethod(parent, name, b)
  BY <1>3, DeclarationPathStep DEF AddVariable, AddMethod
<1>4. CASE \E parent \in Owners, t \in Types(known), name \in Name, arg \in Argument :
             AddObject(parent, name, t, arg)
  BY <1>0, <1>4, ObjectPathStep
<1>5. CASE \E live \in BOOLEAN : \E t \in Types(IF live THEN known ELSE dead) :
             \E parent \in Instances, name \in Name : Manifest(parent, name, t, live)
  BY <1>0, <1>5, ManifestPathStep
<1>6. CASE ManifestSkip \/ ManifestLeaf \/ ManifestObject \/ ManifestFinish
  BY <1>0, <1>6, ManifestSkipPathStep, ManifestLeafPathStep, ManifestObjectPathStep, ManifestFinishPathStep
<1>7. CASE CopyExisting \/ CopyMissing \/ WalkReturn
  BY <1>0, <1>7, CopyExistingPathStep, CopyMissingPathStep, WalkReturnPathStep
<1>8. CASE \E n \in Deletable : Delete(n) BY <1>8, DeletePathStep
<1> QED BY <1>1, <1>2, <1>3, <1>4, <1>5, <1>6, <1>7, <1>8 DEF Next, Call

\* The tree of the instances is the tree of their paths, as long as siblings have names of
\* their own and manifest is called on objects that exist and have paths.
THEOREM PathInvariant == Spec => []PathInv
<1>1. Init => ServerInv /\ PathInv BY InitInv, InitPath
<1>2. (ServerInv /\ PathInv) /\ [Next]_vars => (ServerInv /\ PathInv)'
  BY ServerInvStep, PathInvStep
<1> QED BY <1>1, <1>2, PTL DEF Spec

\* manifest asks for no path that exists.
THEOREM NoPathTwice == Spec => []NoClash
<1>1. PathInv => NoClash BY DEF PathInv
<1> QED BY <1>1, PathInvariant, PTL
=============================================================================
