-------------------------- MODULE ServerExactProofs --------------------------
(***************************************************************************)
(* Theorems about what Server puts into a new object: exactly the children *)
(* that are declared for it (Exact), for every value of the constants.     *)
(*                                                                         *)
(* In the order of this module: the supertypes that are climbed to; what   *)
(* an id tells of the nodes a node hangs on (ShapeInv), action by action;  *)
(* the walks, which never lead back to a new object or to what it is made  *)
(* from (Onward), so that what each has got (Progress) grows by the child  *)
(* it is done with, and by nothing else; the steps, one lemma each.        *)
(***************************************************************************)
EXTENDS ServerPathsProofs

-----------------------------------------------------------------------------
(* Supertypes *)

\* Nodes are added, and those there are stay as they are.
Adds == DOMAIN nodes \subseteq DOMAIN nodes' /\ \A m \in DOMAIN nodes : nodes'[m] = nodes[m]

\* They keep what Hierarchy looks at.
TypesKept ==
    /\ DOMAIN nodes \subseteq DOMAIN nodes'
    /\ \A m \in DOMAIN nodes : nodes'[m].type = nodes[m].type /\ nodes'[m].class = nodes[m].class

\* AddEffect, of a node that is asked for.
LEMMA AddKeeps ==
    ASSUME NEW n, NEW parent, NEW node, AddNode(n, parent, node) \/ UNCHANGED <<nodes, references>>
    PROVE  /\ Adds /\ references \subseteq references' /\ references' \subseteq references \cup {<<parent, n>>}
           /\ \A m \in DOMAIN nodes' \ DOMAIN nodes : m = n /\ nodes'[m] = node
           /\ \A r \in references' \ references : r = <<parent, n>> /\ nodes'[n] = node
<1>1. Adds
  <2>1. CASE UNCHANGED <<nodes, references>> BY <2>1 DEF Adds
  <2>2. CASE AddNode(n, parent, node) BY <2>2 DEF AddNode, Added, Live, Adds
  <2> QED BY <2>1, <2>2
<1> QED BY <1>1, AddEffect

\* Hierarchy, with the store of nodes as a parameter.
Climb(store, below) == below \cup {store[s].type : s \in below \cap DOMAIN store}
TypesIn(store, S)   == {s \in S \cap DOMAIN store : store[s].class = "type"}
HierarchyIn(store, t) ==
    LET up[k \in 0..MaxNum] ==
          IF k = 0 THEN {t}
          ELSE LET below == up[k - 1] IN
               below \cup {store[s].type : s \in below \cap DOMAIN store}
    IN  {s \in up[MaxNum] \cap DOMAIN store : store[s].class = "type"}

\* f climbs from t, as often as Hierarchy does
Climbing(f, store, t) == f[0] = {t} /\ \A k \in 1..MaxNum : f[k] = Climb(store, f[k - 1])

\* Hierarchy takes the steps from t up.
LEMMA ClimbSteps ==
    ASSUME NEW store, NEW t
    PROVE  \E f : Climbing(f, store, t) /\ HierarchyIn(store, t) = TypesIn(store, f[MaxNum])
<1> DEFINE all == {t} \cup {store[s].type : s \in DOMAIN store}
           V == SUBSET all
           G == [below \in V |-> Climb(store, below)]
           Up(below) == below \cup {store[s].type : s \in below \cap DOMAIN store}
           h == CHOOSE d : d = [k \in 0..MaxNum |-> IF k = 0 THEN {t} ELSE Up(d[k - 1])]
<1>1. MaxNum \in Nat BY ServerAssumption
<1>2. \A below \in V : Climb(store, below) \in V BY DEF Climb
<1>3. {t} \in V OBVIOUS
<1>4. PICK f : Run(f, MaxNum, V, G, {t})
  <2>1. G \in [V -> V] BY <1>2
  <2> HIDE DEF G, V
  <2> QED BY <1>1, <1>3, <2>1, Iterates
<1>5. f \in [0..MaxNum -> V] /\ f[0] = {t} /\ \A k \in 1..MaxNum : f[k] = G[f[k - 1]] BY <1>4 DEF Run
<1>6. \A below : Up(below) = Climb(store, below) BY DEF Climb
<1> HIDE DEF Up
<1>7. \A k \in 1..MaxNum : f[k] = Climb(store, f[k - 1])
  <2>1. ASSUME NEW k \in 1..MaxNum PROVE f[k] = Climb(store, f[k - 1])
    <3>1. k - 1 \in 0..MaxNum BY <1>1
    <3>2. f[k - 1] \in V BY <1>5, <3>1
    <3> HIDE DEF V
    <3> QED BY <1>5, <3>2
  <2> QED BY <2>1
<1>8. f = [k \in 0..MaxNum |-> IF k = 0 THEN {t} ELSE Up(f[k - 1])]
  <2>1. \A k \in 0..MaxNum : f[k] = IF k = 0 THEN {t} ELSE Up(f[k - 1])
    <3>1. \A k \in 0..MaxNum : k = 0 \/ k \in 1..MaxNum BY <1>1
    <3> QED BY <1>5, <1>6, <1>7, <3>1
  <2> HIDE DEF V
  <2> QED BY <1>5, <2>1
<1>9. h = [k \in 0..MaxNum |-> IF k = 0 THEN {t} ELSE Up(h[k - 1])] BY <1>8
<1>10. HierarchyIn(store, t) = TypesIn(store, h[MaxNum]) BY DEF HierarchyIn, TypesIn, Up
<1> HIDE DEF h
<1>11. h[0] = {t} /\ \A k \in 1..MaxNum : h[k] = Climb(store, h[k - 1])
  <2>1. 0 \in 0..MaxNum /\ \A k \in 1..MaxNum : k \in 0..MaxNum /\ k # 0 BY <1>1
  <2> QED BY <1>6, <1>9, <2>1
<1> QED BY <1>10, <1>11 DEF Climbing

\* What holds of t, and of a set that is one step further up, holds of all of them.
LEMMA ClimbInduction ==
    ASSUME NEW store, NEW t, NEW f, Climbing(f, store, t), NEW P, {t} \in P,
           \A below \in P : Climb(store, below) \in P
    PROVE  \A k \in 0..MaxNum : f[k] \in P
<1>1. MaxNum \in Nat BY ServerAssumption
<1> DEFINE A == {k \in Nat : k \in 0..MaxNum => f[k] \in P}
<1>2. 0 \in A BY DEF Climbing
<1>3. ASSUME NEW k \in Nat, k \in A PROVE k + 1 \in A
  <2>1. CASE k + 1 \notin 0..MaxNum BY <2>1
  <2>2. CASE k + 1 \in 0..MaxNum
    <3>1. k \in 0..MaxNum /\ k + 1 \in 1..MaxNum /\ (k + 1) - 1 = k BY <1>1, <2>2
    <3>2. f[k + 1] = Climb(store, f[k]) BY <3>1 DEF Climbing
    <3> QED BY <1>3, <3>1, <3>2
  <2> QED BY <2>1, <2>2
<1>4. Nat \subseteq A
  <2> HIDE DEF A
  <2> QED BY <1>2, <1>3, SetInduction
<1> QED BY <1>1, <1>4

\* A type is one of its hierarchy.
LEMMA HierarchyTop ==
    ASSUME NEW store, NEW t \in DOMAIN store, store[t].class = "type"
    PROVE  t \in HierarchyIn(store, t)
<1>1. PICK f : Climbing(f, store, t) /\ HierarchyIn(store, t) = TypesIn(store, f[MaxNum])
  BY ClimbSteps
<1> DEFINE all == {t} \cup {store[s].type : s \in DOMAIN store}
           P == {S \in SUBSET all : t \in S}
<1>2. {t} \in P OBVIOUS
<1>3. \A below \in P : Climb(store, below) \in P BY DEF Climb
<1>4. f[MaxNum] \in P
  <2>1. MaxNum \in 0..MaxNum BY ServerAssumption
  <2> HIDE DEF P
  <2> QED BY <1>1, <1>2, <1>3, <2>1, ClimbInduction
<1> QED BY <1>1, <1>4 DEF TypesIn

\* Nodes that are no supertypes change no hierarchy.
LEMMA HierarchyKept ==
    ASSUME TypesKept, NEW t,
           \A m \in DOMAIN nodes' \ DOMAIN nodes : m # t /\ \A s \in DOMAIN nodes : nodes[s].type # m
    PROVE  HierarchyIn(nodes', t) = HierarchyIn(nodes, t)
<1>1. PICK f : Climbing(f, nodes, t) /\ HierarchyIn(nodes, t) = TypesIn(nodes, f[MaxNum])
  BY ClimbSteps
<1>2. PICK g : Climbing(g, nodes', t) /\ HierarchyIn(nodes', t) = TypesIn(nodes', g[MaxNum])
  BY ClimbSteps
<1>3. MaxNum \in Nat BY ServerAssumption
<1> DEFINE all == {t} \cup {nodes[s].type : s \in DOMAIN nodes}
           A == {k \in Nat : k \in 0..MaxNum => f[k] \subseteq all /\ f[k] = g[k]}
<1>4. 0 \in A BY <1>1, <1>2 DEF Climbing
<1>5. ASSUME NEW k \in Nat, k \in A PROVE k + 1 \in A
  <2>1. CASE k + 1 \notin 0..MaxNum BY <2>1
  <2>2. CASE k + 1 \in 0..MaxNum
    <3>1. k \in 0..MaxNum /\ k + 1 \in 1..MaxNum /\ (k + 1) - 1 = k BY <1>3, <2>2
    <3>2. f[k + 1] = Climb(nodes, f[k]) /\ g[k + 1] = Climb(nodes', g[k])
      BY <1>1, <1>2, <3>1 DEF Climbing
    <3>3. f[k] \subseteq all /\ f[k] = g[k] BY <1>5, <3>1
    <3>4. f[k] \cap DOMAIN nodes' = f[k] \cap DOMAIN nodes BY <3>3 DEF TypesKept
    <3>5. \A s \in f[k] \cap DOMAIN nodes : nodes'[s].type = nodes[s].type BY DEF TypesKept
    <3>6. Climb(nodes', f[k]) = Climb(nodes, f[k]) BY <3>4, <3>5 DEF Climb
    <3>7. Climb(nodes, f[k]) \subseteq all BY <3>3 DEF Climb
    <3> QED BY <3>2, <3>3, <3>6, <3>7
  <2> QED BY <2>1, <2>2
<1>6. Nat \subseteq A
  <2> HIDE DEF A
  <2> QED BY <1>4, <1>5, SetInduction
<1>7. f[MaxNum] \subseteq all /\ f[MaxNum] = g[MaxNum] BY <1>3, <1>6
<1>8. TypesIn(nodes', g[MaxNum]) = TypesIn(nodes, f[MaxNum]) BY <1>7 DEF TypesIn, TypesKept
<1> QED BY <1>1, <1>2, <1>8

\* The hierarchy before a step and after it.
LEMMA HierarchyFacts == \A t : Hierarchy(t) = HierarchyIn(nodes, t) /\ Hierarchy(t)' = HierarchyIn(nodes', t)
BY DEF Hierarchy, HierarchyIn

-----------------------------------------------------------------------------
(* What ids tell, and a node that is added or taken away *)

\* What a new node has to be, for it to tell what it hangs on.
NewShape(n, parent, node) ==
    /\ n.kind = "num" => n.path = <<>>
    /\ (n.kind = "gen") <=> (n.copies # <<>>)
    /\ n.kind = "gen" => node.class # "method" /\ node.name \in QName /\ n = Generated(parent, node.name)
    /\ node.type # Nil => node.type \in Id /\ node.type.kind = "num" /\ WellNumbered(node.type)
    /\ node.class = "type" => /\ n.kind = "num" /\ node.type = parent /\ nodes[parent].class = "type"
                              /\ parent \in Preset \/ parent.num < n.num
\* And what it may hang on.
NewLink(n, parent, node) ==
    /\ n \notin Preset
    /\ node.class = "type" => nodes[parent].class = "type"
    /\ node.class # "method" =>
         /\ Declaring(n) => Declaring(parent)
         /\ n.kind = "num" =>
              parent.kind = "num" /\ nodes[parent].class \in {"type", "object", "method", "standard"}

\* The library is asked for a node of the right shape, or for nothing.
Asked(n, parent, node) ==
    \/ UNCHANGED <<nodes, references>>
    \/ /\ AddNode(n, parent, node)
       /\ Added(n, parent) => NewShape(n, parent, node) /\ NewLink(n, parent, node)

\* The conditions on a handle.
HandleShape(h, store) ==
    h.id.kind = "num" /\ h.id \in DOMAIN store =>
        store[h.id].class = h.class \/ h.id \in Preset \ StdIds

\* The condition on what the standard has in the way of the counter.
PresetShape(n, store, counter) ==
    IF n \in DOMAIN store THEN store[n].class \in {"type", "standard"} ELSE n.num < counter

\* No handle has the number that the counter gives out next, and no node and no type of a node,
\* unless the standard has it.
LEMMA CounterFree ==
    ASSUME ServerInv, ShapeInv, nodecounter <= MaxNum, NEW n, n = Numeric(nodecounter)
    PROVE  /\ n.kind = "num" /\ n.path = <<>> /\ n.copies = <<>> /\ n.num = nodecounter
           /\ n # Objects /\ n \notin StdIds /\ Declaring(n)
           /\ \A h \in known \cup dead : h.id # n
           /\ n \in DOMAIN nodes => n \in Preset \ StdIds
           /\ n \notin DOMAIN nodes => n \notin Preset /\ \A m \in DOMAIN nodes : nodes[m].type # n
<1>1. nodecounter \in Nat \ {0} /\ default_ns \in 0..MaxNs /\ MaxNum \in Nat BY InvFacts
<1>2. n.kind = "num" /\ n.ns = default_ns /\ n.num = nodecounter /\ n.path = <<>> /\ n.copies = <<>>
  BY DEF Numeric, NumericIn
<1>3. n \notin StdIds /\ n # Objects
  BY <1>1, <1>2 DEF StdIds, Objects, BaseType, FolderType, NumericIn
<1>4. WellNumbered(n) => n \in Preset BY <1>1, <1>2 DEF WellNumbered
<1>5. n \in DOMAIN nodes => n \in Preset \ StdIds BY <1>3, <1>4 DEF ServerInv, NodeInv
<1>6. n \notin DOMAIN nodes => n \notin Preset
  <2> SUFFICES ASSUME n \notin DOMAIN nodes, n \in Preset PROVE FALSE OBVIOUS
  <2>1. n.num < nodecounter BY <1>3 DEF ShapeInv, Live
  <2> QED BY <1>1, <1>2, <2>1
<1>7. ASSUME n \notin DOMAIN nodes, NEW m \in DOMAIN nodes, nodes[m].type = n PROVE FALSE
  <2>1. n # Nil
    <3>2. n \in Id BY InvFacts, IdFacts
    <3> QED BY <3>2, IdAssumption
  <2>2. Shaped(m) BY DEF ShapeInv
  <2> QED BY <1>4, <1>6, <1>7, <2>1, <2>2 DEF Shaped
<1>8. \A h \in known \cup dead : h.id # n BY <1>1, <1>2, <1>3 DEF ServerInv, HandleInv
<1>9. Declaring(n) BY <1>1, <1>2, <1>3 DEF Declaring
<1> QED BY <1>2, <1>3, <1>5, <1>6, <1>7, <1>8, <1>9

\* The shapes stay when the library is asked for a node of the right shape.
LEMMA ShapeAdded ==
    ASSUME ServerInv, ShapeInv, NEW n, n.kind = "num" => n = Numeric(nodecounter) /\ nodecounter <= MaxNum,
           NEW parent, NEW node, Asked(n, parent, node), nodecounter' \in {nodecounter, nodecounter + 1},
           \A h \in (known' \cup dead') \ (known \cup dead) :
              h.id.kind = "num" => h.id = n /\ h.class = node.class
    PROVE  ShapeInv'
<1>0. references \subseteq (DOMAIN nodes) \X (DOMAIN nodes) /\ DOMAIN nodes \subseteq Id
      /\ nodecounter \in Nat
  BY InvFacts DEF TypeOK
<1>1. /\ Adds /\ references \subseteq references' /\ references' \subseteq references \cup {<<parent, n>>}
      /\ \A m \in DOMAIN nodes' \ DOMAIN nodes : m = n /\ nodes'[m] = node
      /\ \A r \in references' \ references : r = <<parent, n>> /\ nodes'[n] = node
  BY AddKeeps DEF Asked
<1>2. ASSUME (DOMAIN nodes' \ DOMAIN nodes) \cup (references' \ references) # {}
      PROVE  /\ n \notin DOMAIN nodes /\ parent \in DOMAIN nodes /\ n \in DOMAIN nodes' /\ nodes'[n] = node
             /\ <<parent, n>> \in references' /\ nodes'[parent] = nodes[parent] /\ parent # n
             /\ NewShape(n, parent, node) /\ NewLink(n, parent, node)
  <2>1. AddNode(n, parent, node) /\ NewShape(n, parent, node) /\ NewLink(n, parent, node) /\ Added(n, parent)
    BY <1>2 DEF Asked, AddNode
  <2>2. n \notin DOMAIN nodes /\ parent \in DOMAIN nodes BY <2>1 DEF Added, Live
  <2>3. /\ DOMAIN nodes' = DOMAIN nodes \cup {n} /\ nodes'[n] = node
        /\ references' = references \cup {<<parent, n>>}
    BY <2>1, <2>2 DEF AddNode
  <2> QED BY <1>1, <2>1, <2>2, <2>3 DEF Adds
<1>3. ASSUME NEW t \in Id, WellNumbered(t) PROVE WellNumbered(t)'
  <2>1. t.num \in Nat BY <1>3 DEF Id
  <2>2. t.num < nodecounter => t.num < nodecounter' BY <1>0, <2>1
  <2> QED BY <1>3, <2>2 DEF WellNumbered, Preset, StdIds, Objects, BaseType, FolderType, NumericIn
<1>4. ASSUME NEW m \in DOMAIN nodes' PROVE Shaped(m)'
  <2>1. CASE m \notin DOMAIN nodes
    <3>1. m = n /\ nodes'[m] = node BY <1>1, <2>1
    <3>2. /\ n \notin DOMAIN nodes /\ parent \in DOMAIN nodes' /\ <<parent, n>> \in references'
          /\ nodes'[parent] = nodes[parent]
          /\ NewShape(n, parent, node)
      BY <1>1, <1>2, <2>1 DEF Adds
    <3>3. n.kind = "gen" => \E q \in DOMAIN nodes' : <<q, n>> \in references' /\ n = Generated(q, nodes'[n].name)
      BY <3>1, <3>2 DEF NewShape
    <3>4. node.type # Nil => WellNumbered(node.type)' BY <1>3, <3>2 DEF NewShape
    <3>5. node.class = "type" => /\ n.kind = "num" /\ (node.type \in Preset \/ node.type.num < n.num)
                                 /\ nodes'[node.type].class = "type"
      BY <3>2 DEF NewShape
    <3>6. n \notin Preset /\ (node.type # Nil => node.type.kind = "num") BY <1>2, <2>1 DEF NewShape, NewLink
    <3>7. /\ n.kind = "num" => n.path = <<>>
          /\ (n.kind = "gen") <=> (n.copies # <<>>)
          /\ n.kind = "gen" => node.class # "method" /\ node.name \in QName
      BY <3>2 DEF NewShape
    <3> QED BY <3>1, <3>3, <3>4, <3>5, <3>6, <3>7
        DEF Shaped, Live, Generated, Preset, StdIds, Objects, BaseType, FolderType, NumericIn, QName
  <2>2. CASE m \in DOMAIN nodes
    <3>1. Shaped(m) /\ nodes'[m] = nodes[m] BY <1>1, <2>2 DEF ShapeInv, Adds
    <3>2. m.kind = "gen" => \E q \in DOMAIN nodes' : <<q, m>> \in references' /\ m = Generated(q, nodes'[m].name)
      BY <1>1, <3>1 DEF Shaped, Adds
    <3>3. nodes[m].type # Nil => WellNumbered(nodes[m].type)'
      <4>1. nodes[m].type \in Id \cup {Nil} BY <2>2, InvFacts DEF TypeOK, Node
      <4> QED BY <1>3, <3>1, <4>1 DEF Shaped
    <3>4. ASSUME nodes[m].type # Nil, nodes[m].class = "type", nodes[m].type \in DOMAIN nodes'
          PROVE  nodes'[nodes[m].type].class = "type"
      <4>1. CASE nodes[m].type \in DOMAIN nodes
        BY <1>1, <3>1, <3>4, <4>1 DEF Shaped, Live, Adds
      <4>2. CASE nodes[m].type \notin DOMAIN nodes
        <5>1. nodes[m].type = n BY <1>1, <3>4, <4>2
        <5>2. n = Numeric(nodecounter) /\ nodecounter <= MaxNum BY <3>1, <3>4, <5>1 DEF Shaped
        <5> QED BY <2>2, <4>2, <5>1, <5>2, CounterFree
      <4> QED BY <4>1, <4>2
    <3> QED BY <3>1, <3>2, <3>3, <3>4
        DEF Shaped, Live, Generated, Preset, StdIds, Objects, BaseType, FolderType, NumericIn, QName
  <2> QED BY <2>1, <2>2
<1>5. ASSUME NEW r \in references' PROVE Linked(r)'
  <2>1. CASE r \in references
    <3>1. Linked(r) /\ nodes'[r[1]] = nodes[r[1]] /\ nodes'[r[2]] = nodes[r[2]]
      BY <1>0, <1>1, <2>1 DEF ShapeInv, Adds
    <3> QED BY <3>1 DEF Linked, Declaring, Preset, StdIds, Objects, BaseType, FolderType, NumericIn
  <2>2. CASE r \notin references
    <3>1. r = <<parent, n>> /\ nodes'[n] = node BY <1>1, <2>2
    <3>2. nodes'[parent] = nodes[parent] /\ parent # n /\ NewLink(n, parent, node) BY <1>2, <2>2
    <3>3. r[1] = parent /\ r[2] = n BY <3>1
    <3> HIDE <3>1
    <3>4. nodes'[n] = node BY <3>1
    <3> QED BY <3>2, <3>3, <3>4 DEF NewLink, Linked, Declaring, Preset, StdIds, Objects, BaseType, FolderType, NumericIn
  <2> QED BY <2>1, <2>2
<1>6. ASSUME NEW r \in references', NEW s \in references', r[2] = s[2], nodes'[r[2]].class # "method"
      PROVE  r = s
  <2>1. \A u \in references : nodes'[u[2]] = nodes[u[2]] /\ u[2] \in DOMAIN nodes BY <1>0, <1>1 DEF Adds
  <2>2. CASE r \in references /\ s \in references BY <1>6, <2>1, <2>2 DEF ShapeInv
  <2>3. CASE r \notin references /\ s \notin references
    <3>1. r = <<parent, n>> /\ s = <<parent, n>> BY <1>1, <2>3
    <3> QED BY <3>1
  <2>4. CASE r \notin references /\ s \in references
    <3>1. r = <<parent, n>> /\ n \notin DOMAIN nodes BY <1>1, <1>2, <2>4
    <3> QED BY <1>6, <2>1, <2>4, <3>1
  <2>5. CASE r \in references /\ s \notin references
    <3>1. s = <<parent, n>> /\ n \notin DOMAIN nodes BY <1>1, <1>2, <2>5
    <3> QED BY <1>6, <2>1, <2>5, <3>1
  <2> QED BY <2>2, <2>3, <2>4, <2>5
<1>7. ASSUME NEW h \in known' \cup dead' PROVE HandleShape(h, nodes')
  <2>1. CASE h \in known \cup dead
    <3>1. HandleShape(h, nodes) BY <2>1 DEF ShapeInv, HandleShape, Live
    <3>2. h.id.kind = "num" /\ h.id \in DOMAIN nodes' => h.id \in DOMAIN nodes /\ nodes'[h.id] = nodes[h.id]
      <4> SUFFICES ASSUME h.id.kind = "num", h.id \in DOMAIN nodes'
                   PROVE  h.id \in DOMAIN nodes /\ nodes'[h.id] = nodes[h.id]
        OBVIOUS
      <4>1. h.id \in DOMAIN nodes
        <5> SUFFICES ASSUME h.id \notin DOMAIN nodes PROVE FALSE OBVIOUS
        <5>1. h.id = n /\ n = Numeric(nodecounter) /\ nodecounter <= MaxNum BY <1>1
        <5> QED BY <2>1, <5>1, CounterFree
      <4> QED BY <1>1, <4>1 DEF Adds
    <3> QED BY <3>1, <3>2 DEF HandleShape
  <2>2. CASE h \notin known \cup dead
    <3> SUFFICES ASSUME h.id.kind = "num" PROVE HandleShape(h, nodes') BY DEF HandleShape
    <3>1. h.id = n /\ h.class = node.class /\ n = Numeric(nodecounter) /\ nodecounter <= MaxNum BY <2>2
    <3>2. n \in DOMAIN nodes => n \in Preset \ StdIds BY <3>1, CounterFree
    <3>3. n \in DOMAIN nodes' => n \in DOMAIN nodes \/ nodes'[n] = node BY <1>1
    <3> QED BY <3>1, <3>2, <3>3 DEF HandleShape
  <2> QED BY <2>1, <2>2
<1>8. ASSUME NEW p \in Preset \ StdIds PROVE PresetShape(p, nodes', nodecounter')
  <2>1. CASE p \in DOMAIN nodes
    <3>1. nodes[p].class \in {"type", "standard"} BY <2>1 DEF ShapeInv, Live
    <3> QED BY <1>1, <2>1, <3>1 DEF PresetShape, Adds
  <2>2. CASE p \notin DOMAIN nodes
    <3>1. p.num < nodecounter /\ p.num \in Nat
      BY <2>2, ServerAssumption DEF ShapeInv, Live, Preset, NumericIn
    <3>2. p \notin DOMAIN nodes'
      <4> SUFFICES ASSUME p \in DOMAIN nodes' PROVE FALSE OBVIOUS
      <4>1. p = n /\ NewLink(n, parent, node) BY <1>1, <1>2, <2>2
      <4> QED BY <4>1 DEF NewLink
    <3> QED BY <1>0, <3>1, <3>2 DEF PresetShape
  <2> QED BY <2>1, <2>2
<1> QED BY <1>4, <1>5, <1>6, <1>7, <1>8
    DEF ShapeInv, HandleShape, PresetShape, Live, Preset, StdIds, Objects, BaseType, FolderType, NumericIn

\* A method is shared with an instance.
LEMMA MethodShared ==
    ASSUME ServerInv, ShapeInv, NEW to, NEW c, nodes[c].class = "method", c \notin Preset,
           references' = references \cup {<<to, c>>}, UNCHANGED <<nodes, known, dead, nodecounter>>
    PROVE  ShapeInv'
<1>1. \A r \in references' : r \in references \/ (r[2] = c /\ nodes[r[2]].class = "method") OBVIOUS
<1>2. ASSUME NEW m \in DOMAIN nodes' PROVE Shaped(m)'
  <2>1. Shaped(m) BY DEF ShapeInv
  <2>2. ASSUME NEW t, WellNumbered(t) PROVE WellNumbered(t)'
    BY <2>2 DEF WellNumbered, Preset, StdIds, Objects, BaseType, FolderType, NumericIn
  <2>3. m.kind = "gen" => \E q \in DOMAIN nodes' : <<q, m>> \in references' /\ m = Generated(q, nodes'[m].name)
    BY <2>1 DEF Shaped
  <2> QED BY <2>1, <2>2, <2>3
      DEF Shaped, Live, Generated, Preset, StdIds, Objects, BaseType, FolderType, NumericIn, QName
<1>3. ASSUME NEW r \in references' PROVE Linked(r)'
  <2>1. CASE r \in references
    <3>1. Linked(r) BY <2>1 DEF ShapeInv
    <3> QED BY <3>1 DEF Linked, Declaring, Preset, StdIds, Objects, BaseType, FolderType, NumericIn
  <2>2. CASE r[2] = c /\ nodes[r[2]].class = "method"
    BY <2>2 DEF Linked, Declaring, Preset, StdIds, Objects, BaseType, FolderType, NumericIn
  <2> QED BY <1>1, <2>1, <2>2
<1>4. \A r, s \in references' : r[2] = s[2] /\ nodes'[r[2]].class # "method" => r = s
  BY <1>1 DEF ShapeInv
<1>5. \A h \in known' \cup dead' : HandleShape(h, nodes') BY DEF ShapeInv, HandleShape, Live
<1>6. \A p \in Preset \ StdIds : PresetShape(p, nodes', nodecounter') BY DEF ShapeInv, PresetShape, Live
<1> QED BY <1>2, <1>3, <1>4, <1>5, <1>6
    DEF ShapeInv, HandleShape, PresetShape, Live, Preset, StdIds, Objects, BaseType, FolderType, NumericIn

\* Nothing is left hanging on what is deleted.
LEMMA ShapeDeleted ==
    ASSUME ServerInv, ShapeInv, IsFiniteSet(references), NEW n \in Deletable, Delete(n)
    PROVE  ShapeInv'
<1> DEFINE gone == Below(n)
<1>1. /\ nodes' = [m \in DOMAIN nodes \ gone |-> nodes[m]]
      /\ references' = {r \in references : r[1] \notin gone /\ r[2] \notin gone}
      /\ known' = known /\ dead' \subseteq known \cup dead /\ nodecounter' = nodecounter
  BY DEF Delete, server, TypeHandles
<1>2. Spread(gone) = gone BY BelowClosed
<1>0. references \subseteq (DOMAIN nodes) \X (DOMAIN nodes) BY InvFacts DEF TypeOK
<1> HIDE DEF gone
<1>3. \A m \in DOMAIN nodes' : m \in DOMAIN nodes /\ m \notin gone /\ nodes'[m] = nodes[m] BY <1>1
<1>4. ASSUME NEW m \in DOMAIN nodes', NEW p, <<p, m>> \in references, nodes[m].class # "method"
      PROVE  p \notin gone
  <2> SUFFICES ASSUME p \in gone PROVE FALSE OBVIOUS
  <2>1. <<p, m>> \in Inside(gone) BY <1>4 DEF Inside
  <2>2. m \in Targets(Inside(gone)) BY <2>1 DEF Targets
  <2>3. m \notin Targets(references \ Inside(gone))
    <3> SUFFICES ASSUME NEW r \in references, r \notin Inside(gone), r[2] = m PROVE FALSE
      BY DEF Targets
    <3>1. r = <<p, m>> BY <1>4 DEF ShapeInv
    <3> QED BY <2>1, <3>1
  <2>4. m \in gone BY <1>2, <2>2, <2>3 DEF Spread
  <2> QED BY <1>3, <2>4
<1>5. ASSUME NEW m \in DOMAIN nodes' PROVE Shaped(m)'
  <2>1. Shaped(m) /\ nodes'[m] = nodes[m] /\ m \notin gone BY <1>3 DEF ShapeInv
  <2>2. m.kind = "gen" => \E q \in DOMAIN nodes' : <<q, m>> \in references' /\ m = Generated(q, nodes'[m].name)
    <3> SUFFICES ASSUME m.kind = "gen"
                 PROVE  \E q \in DOMAIN nodes' : <<q, m>> \in references' /\ m = Generated(q, nodes'[m].name)
      OBVIOUS
    <3>1. PICK q \in DOMAIN nodes : <<q, m>> \in references /\ m = Generated(q, nodes[m].name)
      BY <2>1 DEF Shaped
    <3>2. q \notin gone BY <1>4, <2>1, <3>1 DEF Shaped
    <3>3. q \in DOMAIN nodes' /\ <<q, m>> \in references' BY <1>1, <2>1, <3>1, <3>2
    <3> QED BY <2>1, <3>1, <3>3
  <2>3. nodes[m].type \in DOMAIN nodes' => nodes[m].type \in DOMAIN nodes /\ nodes'[nodes[m].type] = nodes[nodes[m].type]
    BY <1>3
  <2> QED BY <1>1, <2>1, <2>2, <2>3
      DEF Shaped, Live, Generated, WellNumbered, Preset, StdIds, Objects, BaseType, FolderType, NumericIn, QName
<1>6. ASSUME NEW r \in references' PROVE Linked(r)'
  <2>1. r \in references /\ r[1] \in DOMAIN nodes' /\ r[2] \in DOMAIN nodes' BY <1>0, <1>1
  <2>2. Linked(r) /\ nodes'[r[1]] = nodes[r[1]] /\ nodes'[r[2]] = nodes[r[2]] BY <1>3, <2>1 DEF ShapeInv
  <2> QED BY <2>2 DEF Linked, Declaring, Preset, StdIds, Objects, BaseType, FolderType, NumericIn
<1>7. ASSUME NEW r \in references', NEW s \in references', r[2] = s[2], nodes'[r[2]].class # "method"
      PROVE  r = s
  <2>1. r \in references /\ s \in references /\ r[2] \in DOMAIN nodes' BY <1>0, <1>1
  <2>2. nodes[r[2]].class # "method" BY <1>3, <1>7, <2>1
  <2> QED BY <1>7, <2>1, <2>2 DEF ShapeInv
<1>8. ASSUME NEW h \in known' \cup dead' PROVE HandleShape(h, nodes')
  <2>1. HandleShape(h, nodes) BY <1>1 DEF ShapeInv, HandleShape, Live
  <2> QED BY <1>3, <2>1 DEF HandleShape
<1>9. ASSUME NEW p \in Preset \ StdIds PROVE PresetShape(p, nodes', nodecounter')
  <2>1. CASE p \in DOMAIN nodes /\ p \in gone
    <3>1. gone \subseteq {n} \cup Targets(references)
      <4>1. PICK f \in [0..Cardinality(references) -> SUBSET Reach(n)] : Below(n) = f[Cardinality(references)]
        BY BelowSteps
      <4>2. Cardinality(references) \in 0..Cardinality(references) BY FS_CardinalityType
      <4> QED BY <4>1, <4>2 DEF Reach, gone
    <3>2. p \notin Targets(references) BY DEF ShapeInv, Linked, Targets
    <3>3. p = n BY <2>1, <3>1, <3>2
    <3>4. p.num < nodecounter BY <3>3 DEF Deletable
    <3> QED BY <1>1, <2>1, <3>4 DEF PresetShape
  <2>2. CASE ~(p \in DOMAIN nodes /\ p \in gone) BY <1>1, <2>2 DEF ShapeInv, PresetShape, Live
  <2> QED BY <2>1, <2>2
<1> QED BY <1>5, <1>6, <1>7, <1>8, <1>9
    DEF ShapeInv, HandleShape, PresetShape, Live, Preset, StdIds, Objects, BaseType, FolderType, NumericIn

-----------------------------------------------------------------------------
(* What ids tell: declarations *)

\* What handles on types are on.
LEMMA OwnerFacts ==
    ASSUME ServerInv, ShapeInv
    PROVE  /\ \A p \in Types(known) \cup Types(dead) :
                /\ p.kind = "num" /\ WellNumbered(p) /\ Declaring(p) /\ p \in Id
                /\ p \in DOMAIN nodes => nodes[p].class \in {"type", "object", "method", "standard"}
           /\ \A p \in Owners : p \in Types(known) /\ p \notin StdIds
<1>1. ASSUME NEW p \in Types(known) \cup Types(dead)
      PROVE  /\ p.kind = "num" /\ WellNumbered(p) /\ Declaring(p) /\ p \in Id
             /\ p \in DOMAIN nodes => nodes[p].class \in {"type", "object", "method", "standard"}
  <2>1. PICK h \in known \cup dead :
           h.id = p /\ h.class \in {"type", "object", "method"} /\ p.kind = "num"
    BY DEF Types, TypeHandles
  <2>2. WellNumbered(p) BY <2>1 DEF ServerInv, HandleInv
  <2>3. p \in DOMAIN nodes => nodes[p].class = h.class \/ p \in Preset \ StdIds
    BY <2>1 DEF ShapeInv, Live
  <2>4. p \in DOMAIN nodes /\ p \in Preset \ StdIds => nodes[p].class \in {"type", "standard"}
    BY DEF ShapeInv, Live
  <2>5. p \in Id /\ Declaring(p) BY HandleFacts
  <2> QED BY <2>1, <2>2, <2>3, <2>4, <2>5
<1>2. ASSUME NEW p \in Owners PROVE p \in Types(known) /\ p \notin StdIds
  BY <1>2 DEF Owners
<1> QED BY <1>1, <1>2

\* What a declaration, an object or a type is added to.
LEMMA OwnerLink ==
    ASSUME ServerInv, ShapeInv, nodecounter <= MaxNum, NEW parent \in Types(known),
           NEW n, n = Numeric(nodecounter), NEW node,
           Added(n, parent), node.class = "type" => nodes[parent].class = "type"
    PROVE  NewLink(n, parent, node)
<1>1. n \notin Preset /\ n.kind = "num" BY CounterFree DEF Added, Live
<1>2. /\ Declaring(parent) /\ parent.kind = "num"
      /\ nodes[parent].class \in {"type", "object", "method", "standard"}
  BY OwnerFacts DEF Added, Live
<1> QED BY <1>1, <1>2 DEF NewLink

\* The walks lead to no standard object.
Grounded == \A k \in DOMAIN walks : walks[k].to # Objects

\* The steps that add a node with a number, or none.
LEMMA TypeShapeStep ==
    ASSUME ServerInv, ShapeInv, NEW super \in Types(known), AddObjectType(super)
    PROVE  ShapeInv' /\ Grounded'
<1> DEFINE n == Numeric(nodecounter)
           node == [StdNode("type") EXCEPT !.type = super]
<1>1. /\ IF IsType(super) THEN AddNode(n, super, node) ELSE UNCHANGED <<nodes, references>>
      /\ walks' = <<>> /\ nodecounter' = nodecounter + 1
      /\ known' = known \cup {HandleOn(n, "type")} /\ dead' = dead /\ nodecounter <= MaxNum
  BY DEF AddObjectType, InRuby, Take
<1>2. node.class = "type" /\ node.type = super BY DEF StdNode
<1>3. n.kind = "num" /\ n.path = <<>> /\ n.copies = <<>> /\ n.num = nodecounter BY <1>1, CounterFree
<1>4. n = Numeric(nodecounter) OBVIOUS
<1> HIDE DEF n, node
<1>5. super.kind = "num" /\ WellNumbered(super) /\ super \in Id BY OwnerFacts
<1>6. ASSUME IsType(super), Added(n, super) PROVE NewShape(n, super, node) /\ NewLink(n, super, node)
  <2>1. nodes[super].class = "type" BY <1>6 DEF IsType
  <2>2. super \in Preset \/ super.num < n.num BY <1>3, <1>5 DEF WellNumbered
  <2>3. NewShape(n, super, node) BY <1>2, <1>3, <1>5, <2>1, <2>2 DEF NewShape
  <2>4. NewLink(n, super, node) BY <1>1, <1>4, <1>6, <2>1, OwnerLink
  <2> QED BY <2>3, <2>4
<1>7. \A h \in (known' \cup dead') \ (known \cup dead) : h.id = n /\ h.class = node.class
  BY <1>1, <1>2 DEF HandleOn
<1>8. Asked(n, super, node) BY <1>1, <1>6 DEF Asked
<1>9. ShapeInv' BY <1>1, <1>4, <1>7, <1>8, ShapeAdded
<1> QED BY <1>1, <1>9 DEF Grounded

\* add_reference_type
LEMMA ReferenceTypeShapeStep ==
    ASSUME ServerInv, ShapeInv, NEW top, NEW accepted, AddReferenceType(top, accepted)
    PROVE  ShapeInv' /\ Grounded'
<1> DEFINE n == Numeric(nodecounter)
           node == StdNode("reference")
<1>1. /\ AddNode(n, top, node) \/ UNCHANGED <<nodes, references>>
      /\ walks' = <<>> /\ nodecounter' = nodecounter + 1
      /\ known' = known \cup {HandleOn(n, "reference")} /\ dead' = dead /\ top \in Types(known)
      /\ nodecounter <= MaxNum
  BY DEF AddReferenceType, InRuby, Take
<1>2. node.class = "reference" /\ node.type = Nil BY DEF StdNode
<1>3. n.kind = "num" /\ n.path = <<>> /\ n.copies = <<>> BY <1>1, CounterFree
<1>4. n = Numeric(nodecounter) OBVIOUS
<1> HIDE DEF n, node
<1>5. ASSUME Added(n, top) PROVE NewShape(n, top, node) /\ NewLink(n, top, node)
  <2>1. NewShape(n, top, node) BY <1>2, <1>3 DEF NewShape
  <2>2. NewLink(n, top, node) BY <1>1, <1>2, <1>4, <1>5, OwnerLink
  <2> QED BY <2>1, <2>2
<1>6. \A h \in (known' \cup dead') \ (known \cup dead) : h.id = n /\ h.class = node.class
  BY <1>1, <1>2 DEF HandleOn
<1>7. Asked(n, top, node) BY <1>1, <1>5 DEF Asked
<1>8. ShapeInv' BY <1>1, <1>4, <1>6, <1>7, ShapeAdded
<1> QED BY <1>1, <1>8 DEF Grounded

\* add_variable and add_method
LEMMA DeclarationShapeStep ==
    ASSUME ServerInv, ShapeInv, NEW parent \in Owners, NEW class \in {"variable", "method"}, NEW name, NEW b,
           AddDeclaration(parent, class, name, b)
    PROVE  ShapeInv' /\ Grounded'
<1> DEFINE n == Numeric(nodecounter)
           node == [class |-> class, name |-> Qualified(name), type |-> Nil, rule |-> "mandatory",
                    block |-> b, meant |-> b, copied |-> FALSE]
<1>1. /\ AddNode(n, parent, node)
      /\ walks' = <<>> /\ nodecounter' = nodecounter + 1
      /\ known' = known \cup {HandleOn(n, class)} /\ dead' = dead /\ nodecounter <= MaxNum
  BY DEF AddDeclaration, InRuby, Take
<1>2. node.class = class /\ node.type = Nil OBVIOUS
<1>3. n.kind = "num" /\ n.path = <<>> /\ n.copies = <<>> BY <1>1, CounterFree
<1>4. n = Numeric(nodecounter) OBVIOUS
<1> HIDE DEF n, node
<1>5. ASSUME Added(n, parent) PROVE NewShape(n, parent, node) /\ NewLink(n, parent, node)
  <2>1. NewShape(n, parent, node) BY <1>2, <1>3 DEF NewShape
  <2>2. NewLink(n, parent, node) BY <1>1, <1>2, <1>4, <1>5, OwnerFacts, OwnerLink
  <2> QED BY <2>1, <2>2
<1>6. \A h \in (known' \cup dead') \ (known \cup dead) : h.id = n /\ h.class = node.class
  BY <1>1, <1>2 DEF HandleOn
<1>7. Asked(n, parent, node) BY <1>1, <1>5 DEF Asked
<1>8. ShapeInv' BY <1>1, <1>4, <1>6, <1>7, ShapeAdded
<1> QED BY <1>1, <1>8 DEF Grounded

\* add_object
LEMMA ObjectShapeStep ==
    ASSUME ServerInv, ServerInv', ShapeInv, NEW parent \in Owners, NEW name, NEW t \in Types(known), NEW arg,
           AddObject(parent, name, t, arg)
    PROVE  ShapeInv' /\ Grounded'
<1> DEFINE n == Numeric(nodecounter)
           node == NewObject(Qualified(name), t)
           w == Walk("finish", t, n, Required(t), TRUE, TRUE, RuleOf(arg))
<1>1. /\ AddNode(n, parent, node) \/ UNCHANGED <<nodes, references>>
      /\ walks' = <<>> \/ walks' = <<w>>
      /\ nodecounter' = nodecounter + 1
      /\ known' = known \cup {HandleOn(n, "object")} /\ dead' = dead /\ nodecounter <= MaxNum
  BY DEF AddObject, InRuby, Take
<1>2. node.class = "object" /\ node.type = t /\ w.to = n BY DEF Walk, NewObject
<1>3. n.kind = "num" /\ n.path = <<>> /\ n.copies = <<>> /\ n # Objects BY <1>1, CounterFree
<1>4. n = Numeric(nodecounter) OBVIOUS
<1>5. walks' \in Seq(Frame) BY DEF ServerInv, TypeOK
<1> HIDE DEF n, node, w
<1>6. ASSUME Added(n, parent) PROVE NewShape(n, parent, node) /\ NewLink(n, parent, node)
  <2>1. NewShape(n, parent, node) BY <1>2, <1>3, OwnerFacts DEF NewShape
  <2>2. NewLink(n, parent, node) BY <1>1, <1>2, <1>4, <1>6, OwnerFacts, OwnerLink
  <2> QED BY <2>1, <2>2
<1>7. \A h \in (known' \cup dead') \ (known \cup dead) : h.id = n /\ h.class = node.class
  BY <1>1, <1>2 DEF HandleOn
<1>8. Asked(n, parent, node) BY <1>1, <1>6 DEF Asked
<1>9. ShapeInv' BY <1>1, <1>4, <1>7, <1>8, ShapeAdded
<1>10. Grounded'
  <2>1. CASE walks' = <<>> BY <2>1 DEF Grounded
  <2>2. CASE walks' = <<w>>
    <3>1. w \in Frame BY <1>5, <2>2
    <3>2. DOMAIN walks' = {1} /\ walks'[1] = w BY <2>2, <3>1, SingleFacts
    <3> QED BY <1>2, <1>3, <3>2 DEF Grounded, Objects, NumericIn
  <2> QED BY <1>1, <2>1, <2>2
<1> QED BY <1>9, <1>10

\* The steps that leave the store alone.
LEMMA QuietShapeStep ==
    ASSUME ServerInv, ShapeInv, UNCHANGED <<nodes, references>>,
           nodecounter' \in {nodecounter, nodecounter + 1},
           \/ known' \cup dead' \subseteq known \cup dead
           \/ /\ nodecounter <= MaxNum
              /\ \A h \in (known' \cup dead') \ (known \cup dead) :
                    h.id.kind = "num" => h.id = Numeric(nodecounter) /\ h.class = "reference"
    PROVE  ShapeInv'
<1> DEFINE n == Numeric(nodecounter)
           path == Path(<<>>)
           node == StdNode("reference")
<1>1. node.class = "reference" /\ n = Numeric(nodecounter) /\ path.kind = "str" BY DEF StdNode, Path
<1>2. Asked(n, n, node) /\ Asked(path, path, node) BY DEF Asked
<1> HIDE DEF n, node, path
<1>3. CASE known' \cup dead' \subseteq known \cup dead
  <2>1. path.kind = "num" => path = Numeric(nodecounter) /\ nodecounter <= MaxNum BY <1>1
  <2>2. \A h \in (known' \cup dead') \ (known \cup dead) :
           h.id.kind = "num" => h.id = path /\ h.class = node.class
    BY <1>3
  <2> QED BY <1>2, <2>1, <2>2, ShapeAdded
<1>4. CASE /\ nodecounter <= MaxNum
           /\ \A h \in (known' \cup dead') \ (known \cup dead) :
                 h.id.kind = "num" => h.id = Numeric(nodecounter) /\ h.class = "reference"
  BY <1>1, <1>2, <1>4, ShapeAdded
<1> QED BY <1>3, <1>4

\* What manifest creates has a path, and a name to end it.
LEMMA PathShape ==
    ASSUME ServerInv, NEW n, n.kind = "str", n.num = 0, n.copies = <<>>, NEW parent, NEW node, node.class # "type",
           node.type # Nil => node.type \in Id /\ node.type.kind = "num" /\ WellNumbered(node.type)
    PROVE  NewShape(n, parent, node) /\ NewLink(n, parent, node) /\ n # Objects
<1>1. n # Objects /\ n \notin Preset /\ ~Declaring(n)
  BY DEF Preset, StdIds, Objects, BaseType, FolderType, NumericIn, Declaring
<1> QED BY <1>1 DEF NewShape, NewLink

-----------------------------------------------------------------------------
(* What ids tell: manifest *)

\* The walks after a child is done with: those below the top are the same, the top has one
\* child less, and perhaps there is one more.
OneDone(c) ==
    /\ \A k \in 1..(Len(walks) - 1) : walks'[k] = walks[k]
    /\ walks'[Len(walks)].op = Top.op /\ walks'[Len(walks)].fresh = Top.fresh
    /\ walks'[Len(walks)].from = Top.from /\ walks'[Len(walks)].to = Top.to
    /\ walks'[Len(walks)].todo = Top.todo \ {c} /\ walks'[Len(walks)].rule = Top.rule

\* The numbers up to N and to N + 1.
LEMMA Indices ==
    ASSUME NEW N \in Nat
    PROVE  /\ \A k \in 1..(N - 1) : k \in 1..N /\ k # N /\ k < N
           /\ \A k \in 1..N : k \in 1..(N + 1) /\ (k = N \/ k \in 1..(N - 1))
           /\ \A k \in 1..(N + 1) : k \in 1..N \/ k = N + 1
OBVIOUS

\* What a walk that is done with a child, and perhaps steps down to w, leaves of the walks.
LEMMA StepFrames ==
    ASSUME ServerInv, ServerInv', walks # <<>>, NEW c, NEW w, walks' = Done(c) \/ walks' = Descend(c, w)
    PROVE  /\ OneDone(c) /\ Len(walks) \in Nat \ {0} /\ DOMAIN walks = 1..Len(walks)
           /\ walks' = Done(c) => DOMAIN walks' = 1..Len(walks)
           /\ walks' = Descend(c, w) => DOMAIN walks' = 1..(Len(walks) + 1) /\ walks'[Len(walks) + 1] = w
<1>1. /\ walks \in Seq(Frame) /\ Len(walks) \in Nat \ {0} /\ DOMAIN walks = 1..Len(walks)
      /\ Len(walks) \in DOMAIN walks /\ Top \in Frame /\ Top = walks[Len(walks)]
      /\ walks' \in Seq(Frame)
  BY InvFacts, TopFacts DEF ServerInv, TypeOK
<1>2. /\ Done(c) \in Seq(Frame) /\ Len(Done(c)) = Len(walks)
      /\ \A k \in 1..Len(walks) : k # Len(walks) => Done(c)[k] = walks[k]
      /\ Done(c)[Len(walks)] = [Top EXCEPT !.todo = @ \ {c}]
  BY <1>1, DoneFacts
<1>3. \A k \in 1..(Len(walks) - 1) : k \in 1..Len(walks) /\ k # Len(walks) BY <1>1, Indices
<1> DEFINE v == [Top EXCEPT !.todo = @ \ {c}]
<1>4. v.op = Top.op /\ v.fresh = Top.fresh /\ v.from = Top.from /\ v.to = Top.to /\ v.todo = Top.todo \ {c}
      /\ v.rule = Top.rule
  BY <1>1 DEF Frame
<1>5. Done(c)[Len(walks)] = v BY <1>2
<1> HIDE DEF v
<1>6. CASE walks' = Done(c)
  <2>1. OneDone(c) BY <1>2, <1>3, <1>4, <1>5, <1>6 DEF OneDone
  <2>2. DOMAIN walks' = 1..Len(walks) BY <1>2, <1>6
  <2>3. walks' # Descend(c, w)
    <3>1. Len(Append(Done(c), w)) = Len(Done(c)) + 1 BY <1>2
    <3> QED BY <1>1, <1>2, <1>6, <3>1 DEF Descend
  <2> QED BY <1>1, <2>1, <2>2, <2>3
<1>7. CASE walks' = Descend(c, w)
  <2>1. walks' = Append(Done(c), w) BY <1>7 DEF Descend
  <2>2. Len(Done(c)) \in Nat /\ Len(walks') = Len(Done(c)) + 1 /\ walks'[Len(Done(c)) + 1] = w
    BY <1>2, <2>1
  <2>3. w \in Frame BY <1>1, <2>2
  <2>4. /\ DOMAIN walks' = 1..(Len(walks) + 1)
        /\ \A k \in 1..Len(walks) : walks'[k] = Done(c)[k]
        /\ walks'[Len(walks) + 1] = w
    BY <1>2, <2>1, <2>3, AppendFacts
  <2>5. OneDone(c)
    <3>1. walks'[Len(walks)] = v BY <1>1, <1>5, <2>4
    <3> QED BY <1>2, <1>3, <1>4, <2>4, <3>1 DEF OneDone
  <2>6. walks' # Done(c) BY <1>1, <1>2, <2>2
  <2> QED BY <1>1, <2>4, <2>5, <2>6
<1> QED BY <1>6, <1>7

\* The new walk is the only one that may lead to a standard object.
LEMMA StepGrounded ==
    ASSUME ServerInv, ServerInv', Grounded, walks # <<>>, NEW c, NEW w,
           walks' = Done(c) \/ (walks' = Descend(c, w) /\ w.to # Objects)
    PROVE  Grounded'
<1>1. /\ OneDone(c) /\ Len(walks) \in Nat \ {0} /\ DOMAIN walks = 1..Len(walks)
      /\ walks' = Done(c) => DOMAIN walks' = 1..Len(walks)
      /\ walks' = Descend(c, w) => DOMAIN walks' = 1..(Len(walks) + 1) /\ walks'[Len(walks) + 1] = w
  BY StepFrames
<1>2. \A k \in 1..Len(walks) : walks'[k].to = walks[k].to
  <2>1. \A k \in 1..Len(walks) : k = Len(walks) \/ k \in 1..(Len(walks) - 1) BY <1>1, Indices
  <2> QED BY <1>1, <2>1 DEF OneDone, Top
<1>3. \A k \in 1..(Len(walks) + 1) : k \in 1..Len(walks) \/ k = Len(walks) + 1 BY <1>1, Indices
<1>4. \A k \in DOMAIN walks' : k \in 1..Len(walks) \/ (k = Len(walks) + 1 /\ walks' = Descend(c, w))
  BY <1>1, <1>3
<1> QED BY <1>1, <1>2, <1>4 DEF Grounded, Objects, NumericIn

\* The conditions on the type of a node are those on the type of what it is made from.
LEMMA TypeShape ==
    ASSUME ServerInv, ShapeInv, NEW c \in DOMAIN nodes, nodes[c].type # Nil
    PROVE  nodes[c].type \in Id /\ nodes[c].type.kind = "num" /\ WellNumbered(nodes[c].type)
<1>1. nodes[c].type \in Id BY InvFacts DEF TypeOK, Node
<1>2. Shaped(c) BY DEF ShapeInv
<1> QED BY <1>1, <1>2 DEF Shaped

\* manifest
LEMMA ManifestShapeStep ==
    ASSUME ServerInv, ServerInv', ShapeInv, NEW parent \in Instances, NEW name \in Name, NEW live,
           NEW t \in Types(known) \cup Types(dead), Manifest(parent, name, t, live)
    PROVE  ShapeInv' /\ Grounded'
<1> DEFINE p == ObjectPath(parent, name)
           n == Path(p)
           node == NewObject(Qualified(name), t)
           w == Walk("manifest", t, n, Children(t), IsType(t) /\ Added(n, parent), live, "mandatory")
<1>1. /\ AddNode(n, parent, node) \/ UNCHANGED <<nodes, references>>
      /\ walks' = <<w>> /\ nodecounter' = nodecounter
      /\ known' = known \cup {HandleOn(n, "object")} /\ dead' = dead
  BY DEF Manifest, server
<1>2. node.class = "object" /\ node.type = t /\ w.to = n BY DEF Walk, NewObject
<1>3. n.kind = "str" /\ n.num = 0 /\ n.copies = <<>> BY DEF Path
<1>6. t.kind = "num" /\ WellNumbered(t) /\ t \in Id BY OwnerFacts
<1>7. walks' \in Seq(Frame) BY DEF ServerInv, TypeOK
<1> HIDE DEF p, n, node, w
<1>8. NewShape(n, parent, node) /\ NewLink(n, parent, node) /\ n # Objects
  BY <1>2, <1>3, <1>6, PathShape
<1>9. Asked(n, parent, node) BY <1>1, <1>8 DEF Asked
<1>10. \A h \in (known' \cup dead') \ (known \cup dead) : h.id.kind # "num"
  BY <1>1, <1>3 DEF HandleOn
<1>11. ShapeInv' BY <1>1, <1>3, <1>9, <1>10, ShapeAdded
<1>12. w \in Frame BY <1>1, <1>7
<1>13. DOMAIN walks' = {1} /\ walks'[1] = w BY <1>1, <1>12, SingleFacts
<1>14. Grounded' BY <1>2, <1>8, <1>13 DEF Grounded, Objects, NumericIn
<1> QED BY <1>11, <1>14

\* What manifest creates under the walk on top is new in shape.
LEMMA ChildShape ==
    ASSUME ServerInv, ShapeInv, walks # <<>>, Top.op = "manifest", NEW c \in Top.todo, Manifested(c),
           NEW n, n = Path(ChildPath(Top.to.path, Text(c))),
           NEW node, node.class = nodes[c].class, node.type = nodes[c].type
    PROVE  NewShape(n, Top.to, node) /\ NewLink(n, Top.to, node) /\ n # Objects /\ n.kind = "str"
<1>1. c \in DOMAIN nodes /\ NodeInv(c) BY ChildFacts
<1>2. nodes[c].class # "type" BY <1>1 DEF NodeInv, Manifested, Declared
<1>3. n.kind = "str" /\ n.num = 0 /\ n.copies = <<>> BY DEF Path
<1>4. node.class # "type" /\ (node.type # Nil => node.type \in Id /\ node.type.kind = "num" /\ WellNumbered(node.type))
  BY <1>1, <1>2, TypeShape
<1> QED BY <1>3, <1>4, PathShape

\* manifest_iter creates a variable or a method.
LEMMA ManifestLeafShapeStep ==
    ASSUME ServerInv, ServerInv', ShapeInv, Grounded, ManifestLeaf
    PROVE  ShapeInv' /\ Grounded'
<1>1. walks # <<>> /\ Top.op = "manifest" /\ nodecounter' = nodecounter /\ UNCHANGED <<known, dead>>
  BY DEF ManifestLeaf, Walking, server, ruby
<1>2. PICK c \in Top.todo :
        LET n == Path(ChildPath(Top.to.path, Text(c))) IN
        /\ Manifested(c)
        /\ AddNode(n, Top.to, [nodes[c] EXCEPT !.rule = "mandatory", !.block = BlockOf(c),
                                               !.copied = (c.kind = "gen")])
        /\ walks' = Done(c)
  BY DEF ManifestLeaf
<1> DEFINE n == Path(ChildPath(Top.to.path, Text(c)))
           node == [nodes[c] EXCEPT !.rule = "mandatory", !.block = BlockOf(c),
                                    !.copied = (c.kind = "gen")]
<1>3. AddNode(n, Top.to, node) BY <1>2
<1>4. node.class = nodes[c].class /\ node.type = nodes[c].type BY <1>1, ChildFacts DEF Node
<1>5. n = Path(ChildPath(Top.to.path, Text(c))) OBVIOUS
<1> HIDE DEF n, node
<1>6. NewShape(n, Top.to, node) /\ NewLink(n, Top.to, node) /\ n # Objects /\ n.kind = "str"
  BY <1>1, <1>2, <1>4, <1>5, ChildShape
<1>7. Asked(n, Top.to, node) BY <1>3, <1>6 DEF Asked
<1>8. (known' \cup dead') \ (known \cup dead) = {} BY <1>1
<1>9. ShapeInv' BY <1>1, <1>6, <1>7, <1>8, ShapeAdded
<1>10. Grounded' BY <1>1, <1>2, StepGrounded
<1> QED BY <1>9, <1>10

\* manifest_iter creates an object.
LEMMA ManifestObjectShapeStep ==
    ASSUME ServerInv, ServerInv', ShapeInv, Grounded, ManifestObject
    PROVE  ShapeInv' /\ Grounded'
<1>1. walks # <<>> /\ Top.op = "manifest" /\ nodecounter' = nodecounter /\ dead' = dead
  BY DEF ManifestObject, Walking, server
<1>2. PICK c \in Top.todo :
        LET n == Path(ChildPath(Top.to.path, Text(c)))
            typed == Live(nodes[c].type)
        IN  /\ Manifested(c)
            /\ nodes[c].class = "object"
            /\ \/ AddNode(n, Top.to, NewObject(nodes[c].name, nodes[c].type))
               \/ UNCHANGED <<nodes, references>>
            /\ Found(n)
            /\ walks' = Descend(c, Walk("manifest", c, n, Children(c),
                                        typed /\ Added(n, Top.to), Top.live, "mandatory"))
  BY DEF ManifestObject
<1> DEFINE n == Path(ChildPath(Top.to.path, Text(c)))
           node == NewObject(nodes[c].name, nodes[c].type)
           w == Walk("manifest", c, n, Children(c), Live(nodes[c].type) /\ Added(n, Top.to), Top.live,
                     "mandatory")
<1>3. /\ AddNode(n, Top.to, node) \/ UNCHANGED <<nodes, references>>
      /\ Found(n) /\ walks' = Descend(c, w)
  BY <1>2
<1>4. node.class = nodes[c].class /\ node.type = nodes[c].type BY <1>2 DEF NewObject
<1>5. n = Path(ChildPath(Top.to.path, Text(c))) /\ w.to = n BY DEF Walk
<1> HIDE DEF n, node, w
<1>6. NewShape(n, Top.to, node) /\ NewLink(n, Top.to, node) /\ n # Objects /\ n.kind = "str"
  BY <1>1, <1>2, <1>4, <1>5, ChildShape
<1>7. Asked(n, Top.to, node) BY <1>3, <1>6 DEF Asked
<1>8. \A h \in (known' \cup dead') \ (known \cup dead) : h.id.kind # "num"
  BY <1>1, <1>3, <1>6 DEF Found, HandleOn
<1>9. ShapeInv' BY <1>1, <1>6, <1>7, <1>8, ShapeAdded
<1>10. Grounded' BY <1>1, <1>3, <1>5, <1>6, StepGrounded
<1> QED BY <1>9, <1>10

-----------------------------------------------------------------------------
(* What ids tell: the library's copying *)

\* An id that the library makes up.
LEMMA GeneratedFacts ==
    ASSUME NEW to \in Id, NEW qname \in QName, NEW g, g = Generated(to, qname)
    PROVE  /\ g.kind = "gen" /\ g.ns = to.ns /\ g.num = to.num /\ g.path = to.path
           /\ g.copies = Append(to.copies, qname) /\ to.copies \in Seq(QName)
           /\ g \notin Preset /\ g # Objects
           /\ Declaring(g) => Declaring(to) \/ to = Objects
<1>1. to.copies \in Seq(QName) BY DEF Id
<1>2. /\ g.kind = "gen" /\ g.ns = to.ns /\ g.num = to.num /\ g.path = to.path
      /\ g.copies = Append(to.copies, qname)
  BY DEF Generated, Id
<1>3. g \notin Preset /\ g # Objects BY <1>2 DEF Preset, StdIds, Objects, BaseType, FolderType, NumericIn
<1> QED BY <1>1, <1>2, <1>3 DEF Declaring

\* The last of a sequence that a name is added to.
LEMMA AppendSteps ==
    ASSUME NEW s \in Seq(QName), NEW x \in QName
    PROVE  /\ Len(Append(s, x)) = Len(s) + 1 /\ Append(s, x)[Len(s) + 1] = x /\ Append(s, x) # <<>>
           /\ Len(s) \in Nat
OBVIOUS

\* Appending loses nothing.
LEMMA AppendsApart ==
    ASSUME NEW s \in Seq(QName), NEW t \in Seq(QName), NEW x \in QName, NEW y \in QName,
           Append(s, x) = Append(t, y)
    PROVE  s = t /\ x = y
<1>1. Len(s) = Len(t) /\ x = y BY AppendSteps
<1>2. \A k \in 1..Len(s) : Append(s, x)[k] = s[k] OBVIOUS
<1>3. \A k \in 1..Len(t) : Append(t, y)[k] = t[k] OBVIOUS
<1> QED BY <1>1, <1>2, <1>3

\* Who made the id of a node can be told from it.
LEMMA KindFacts ==
    ASSUME ServerInv, ShapeInv, NEW m \in DOMAIN nodes
    PROVE  /\ m \in Id /\ m.kind \in {"num", "str", "gen"} /\ Shaped(m)
           /\ (m.kind = "gen") <=> (m.copies # <<>>)
           /\ m.kind = "num" => m.path = <<>> /\ m.num # 0
           /\ m.kind = "str" => m.num = 0
<1>1. m \in Id /\ m.kind \in {"num", "str", "gen"} BY InvFacts DEF TypeOK, Id
<1>2. NodeInv(m) /\ Shaped(m) BY DEF ServerInv, ShapeInv
<1> QED BY <1>1, <1>2 DEF NodeInv, WellNumbered, Shaped

\* The ids that the library makes up are unique.
LEMMA GeneratedFree ==
    ASSUME ServerInv, ShapeInv, NEW to \in DOMAIN nodes, NEW qname \in QName, Namesakes(to, qname) = {},
           NEW g, g = Generated(to, qname)
    PROVE  g \notin DOMAIN nodes
<1> SUFFICES ASSUME g \in DOMAIN nodes PROVE FALSE OBVIOUS
<1>1. to \in Id BY KindFacts
<1>2. /\ g.kind = "gen" /\ g.ns = to.ns /\ g.num = to.num /\ g.path = to.path
      /\ g.copies = Append(to.copies, qname) /\ to.copies \in Seq(QName)
  BY <1>1, GeneratedFacts
<1>3. Shaped(g) BY DEF ShapeInv
<1>4. PICK p \in DOMAIN nodes : <<p, g>> \in references /\ g = Generated(p, nodes[g].name)
  BY <1>2, <1>3 DEF Shaped
<1> DEFINE other == nodes[g].name
<1>5. p \in Id /\ other \in QName BY <1>2, <1>3, KindFacts DEF Shaped
<1>6. g = Generated(p, other) BY <1>4
<1> HIDE DEF other
<1>7. /\ g.ns = p.ns /\ g.num = p.num /\ g.path = p.path
      /\ g.copies = Append(p.copies, other) /\ p.copies \in Seq(QName)
  BY <1>5, <1>6, GeneratedFacts
<1>8. p.copies = to.copies /\ other = qname
  <2>1. Append(p.copies, other) = Append(to.copies, qname) BY <1>2, <1>7
  <2> DEFINE s == p.copies
             t == to.copies
  <2>2. s \in Seq(QName) /\ t \in Seq(QName) /\ Append(s, other) = Append(t, qname) BY <1>2, <1>7, <2>1
  <2> HIDE DEF s, t
  <2>3. s = t /\ other = qname BY <1>5, <2>2, AppendsApart
  <2> QED BY <2>3 DEF s, t
<1>9. p.ns = to.ns /\ p.num = to.num /\ p.path = to.path BY <1>2, <1>7
<1>10. p.kind = to.kind BY <1>8, <1>9, KindFacts
<1>11. p = to BY <1>1, <1>5, <1>8, <1>9, <1>10 DEF Id
<1>12. g \in Namesakes(to, qname) BY <1>4, <1>8, <1>11 DEF Namesakes, Children, other
<1> QED BY <1>12

\* The library finds a child.
LEMMA CopyExistingShapeStep ==
    ASSUME ServerInv, ServerInv', ShapeInv, Grounded, CopyExisting
    PROVE  ShapeInv' /\ Grounded'
<1>1. walks # <<>> /\ UNCHANGED <<nodes, references, known, dead, nodecounter>>
  BY DEF CopyExisting, Walking, library, server, ruby
<1>2. PICK c \in Top.todo, e \in Children(Top.to) :
        walks' = Done(c) \/ walks' = Descend(c, Merge(c, e, Inner(c), Top.live))
  BY DEF CopyExisting
<1> DEFINE w == Merge(c, e, Inner(c), Top.live)
<1>3. w.to = e /\ (walks' = Done(c) \/ walks' = Descend(c, w)) BY <1>2 DEF Walk, Merge
<1> HIDE DEF w
<1>4. <<Top.to, e>> \in references BY DEF Children
<1>5. e # Objects
  <2>1. Linked(<<Top.to, e>>) BY <1>4 DEF ShapeInv
  <2> QED BY <2>1 DEF Linked, Preset, StdIds
<1>6. (known' \cup dead') \ (known \cup dead) = {} BY <1>1
<1>7. ShapeInv' BY <1>1, <1>6, QuietShapeStep
<1>8. Grounded' BY <1>1, <1>3, <1>5, StepGrounded
<1> QED BY <1>7, <1>8

\* What the library copies is new in shape.
LEMMA CopyShape ==
    ASSUME ServerInv, ShapeInv, Grounded, walks # <<>>, Top.op # "manifest", NEW c \in Top.todo,
           nodes[c].class # "method", NEW g, g = Generated(Top.to, nodes[c].name),
           NEW node, node.class = nodes[c].class, node.type = nodes[c].type, node.name = nodes[c].name
    PROVE  NewShape(g, Top.to, node) /\ NewLink(g, Top.to, node)
<1>1. c \in DOMAIN nodes /\ Top.to \in Id /\ DeclaredIn(nodes, c) /\ Top.to \in DOMAIN nodes
  BY ChildFacts DEF GoodWalk
<1>2. nodes[c].name \in QName /\ nodes[c].class # "type" BY <1>1 DEF DeclaredIn
<1>3. Top.to # Objects BY TopFacts, InvFacts DEF Grounded
<1> DEFINE to == Top.to
           qname == nodes[c].name
<1>4. to \in DOMAIN nodes /\ to # Objects /\ to \in Id /\ qname \in QName /\ g = Generated(to, qname)
      /\ node.name = qname
  BY <1>1, <1>2, <1>3
<1>5. node.class # "type" /\ node.class # "method" BY <1>2
<1>6. node.type # Nil => node.type \in Id /\ node.type.kind = "num" /\ WellNumbered(node.type)
  BY <1>1, TypeShape
<1> HIDE DEF to, qname
<1>7. /\ g.kind = "gen" /\ g.copies = Append(to.copies, qname) /\ to.copies \in Seq(QName)
      /\ g \notin Preset
      /\ Declaring(g) => Declaring(to)
  BY <1>4, GeneratedFacts
<1>8. g.copies # <<>> BY <1>4, <1>7, AppendSteps
<1>9. NewShape(g, to, node) BY <1>4, <1>5, <1>6, <1>7, <1>8 DEF NewShape
<1>10. NewLink(g, to, node) BY <1>5, <1>7 DEF NewLink
<1> QED BY <1>9, <1>10 DEF to

\* The library copies a child, or shares a method.
LEMMA CopyMissingShapeStep ==
    ASSUME ServerInv, ServerInv', ShapeInv, Grounded, CopyMissing
    PROVE  ShapeInv' /\ Grounded'
<1>1. walks # <<>> /\ Top.op # "manifest" /\ UNCHANGED <<dead, nodecounter>>
  BY DEF CopyMissing, Walking, server
<1>2. PICK c \in Top.todo :
        LET g == Generated(Top.to, nodes[c].name) IN
        \/ /\ nodes[c].class = "method" /\ references' = references \cup {<<Top.to, c>>}
           /\ walks' = Done(c)
           /\ nodes' = nodes /\ known' = known
        \/ /\ nodes[c].class # "method"
           /\ AddNode(g, Top.to, [nodes[c] EXCEPT !.block = Nil, !.copied = TRUE])
           /\ walks' = Done(c) \/ walks' = Descend(c, Merge(c, g, Inner(c), Top.live))
           /\ Found(g) \/ known' = known
  BY DEF CopyMissing
<1> DEFINE g == Generated(Top.to, nodes[c].name)
           node == [nodes[c] EXCEPT !.block = Nil, !.copied = TRUE]
           w == Merge(c, g, Inner(c), Top.live)
<1>3. \/ /\ nodes[c].class = "method" /\ references' = references \cup {<<Top.to, c>>}
         /\ walks' = Done(c) /\ nodes' = nodes /\ known' = known
      \/ /\ nodes[c].class # "method" /\ AddNode(g, Top.to, node)
         /\ walks' = Done(c) \/ walks' = Descend(c, w)
         /\ Found(g) \/ known' = known
  BY <1>2
<1>4. node.class = nodes[c].class /\ node.type = nodes[c].type /\ node.name = nodes[c].name
  BY <1>1, ChildFacts DEF Node
<1>5. g = Generated(Top.to, nodes[c].name) /\ w.to = g BY DEF Walk, Merge
<1>6. /\ c \in DOMAIN nodes /\ NodeInv(c) /\ Declaring(c) /\ Top.to \in Id /\ DeclaredIn(nodes, c)
      /\ c \in Top.todo
  BY <1>1, ChildFacts DEF GoodWalk
<1>7. g # Objects /\ g.kind = "gen"
  <2>1. nodes[c].name \in QName BY <1>6 DEF DeclaredIn
  <2> QED BY <1>5, <1>6, <2>1, GeneratedFacts
<1> HIDE DEF g, node, w
<1>8. CASE /\ nodes[c].class = "method" /\ references' = references \cup {<<Top.to, c>>}
           /\ walks' = Done(c) /\ nodes' = nodes /\ known' = known
  <2>1. c \notin Preset
    <3>1. c \notin Preset \ StdIds BY <1>6, <1>8 DEF ShapeInv, Live
    <3>2. c.kind = "num" => c.num < nodecounter BY <1>6, <1>8 DEF NodeInv, Callable
    <3>3. nodecounter \in 1..(MaxNum + 1) /\ MaxNum \in Nat BY InvFacts
    <3>4. c \notin StdIds BY <3>2, <3>3 DEF StdIds, Objects, BaseType, FolderType, NumericIn
    <3> QED BY <3>1, <3>4
  <2>2. ShapeInv' BY <1>1, <1>8, <2>1, MethodShared
  <2>3. Grounded' BY <1>1, <1>8, StepGrounded
  <2> QED BY <2>2, <2>3
<1>9. CASE /\ nodes[c].class # "method" /\ AddNode(g, Top.to, node)
           /\ walks' = Done(c) \/ walks' = Descend(c, w)
           /\ Found(g) \/ known' = known
  <2>1. NewShape(g, Top.to, node) /\ NewLink(g, Top.to, node) BY <1>1, <1>4, <1>5, <1>9, CopyShape
  <2>2. Asked(g, Top.to, node) BY <1>9, <2>1 DEF Asked
  <2>3. \A h \in (known' \cup dead') \ (known \cup dead) : h.id.kind # "num"
    BY <1>1, <1>7, <1>9 DEF Found, HandleOn
  <2>4. ShapeInv' BY <1>1, <1>7, <2>2, <2>3, ShapeAdded
  <2>5. Grounded' BY <1>1, <1>5, <1>7, <1>9, StepGrounded
  <2> QED BY <2>4, <2>5
<1> QED BY <1>3, <1>8, <1>9

\* A modelling rule tells nothing of what ids tell.
SameShapes ==
    /\ DOMAIN nodes' = DOMAIN nodes
    /\ \A m \in DOMAIN nodes : /\ nodes'[m].class = nodes[m].class /\ nodes'[m].name = nodes[m].name
                               /\ nodes'[m].type = nodes[m].type
LEMMA ShapesSame ==
    ASSUME ServerInv, ShapeInv, SameShapes, UNCHANGED <<references, known, dead, nodecounter>>
    PROVE  ShapeInv'
<1>0. references \subseteq (DOMAIN nodes) \X (DOMAIN nodes) BY InvFacts DEF TypeOK
<1>1. ASSUME NEW m \in DOMAIN nodes' PROVE Shaped(m)'
  <2>1. Shaped(m) /\ m \in DOMAIN nodes BY DEF ShapeInv, SameShapes
  <2>2. ASSUME NEW t, WellNumbered(t) PROVE WellNumbered(t)'
    BY <2>2 DEF WellNumbered, Preset, StdIds, Objects, BaseType, FolderType, NumericIn
  <2>3. m.kind = "gen" => \E q \in DOMAIN nodes' : <<q, m>> \in references' /\ m = Generated(q, nodes'[m].name)
    BY <2>1 DEF Shaped, SameShapes
  <2>4. nodes[m].type \in DOMAIN nodes => nodes'[nodes[m].type].class = nodes[nodes[m].type].class
    BY DEF SameShapes
  <2> QED BY <2>1, <2>2, <2>3, <2>4
      DEF Shaped, SameShapes, Live, Generated, Preset, StdIds, Objects, BaseType, FolderType, NumericIn, QName
<1>2. ASSUME NEW r \in references' PROVE Linked(r)'
  <2>1. Linked(r) /\ r[1] \in DOMAIN nodes /\ r[2] \in DOMAIN nodes BY <1>0 DEF ShapeInv
  <2>2. nodes'[r[1]].class = nodes[r[1]].class /\ nodes'[r[2]].class = nodes[r[2]].class
    BY <2>1 DEF SameShapes
  <2> QED BY <2>1, <2>2 DEF Linked, Declaring, Preset, StdIds, Objects, BaseType, FolderType, NumericIn
<1>3. \A r, s \in references' : r[2] = s[2] /\ nodes'[r[2]].class # "method" => r = s
  BY <1>0 DEF ShapeInv, SameShapes
<1>4. \A h \in known' \cup dead' : HandleShape(h, nodes') BY DEF ShapeInv, SameShapes, HandleShape, Live
<1>5. \A p \in Preset \ StdIds : PresetShape(p, nodes', nodecounter')
  BY DEF ShapeInv, SameShapes, PresetShape, Live
<1> QED BY <1>1, <1>2, <1>3, <1>4, <1>5
    DEF ShapeInv, HandleShape, PresetShape, Live, Preset, StdIds, Objects, BaseType, FolderType, NumericIn

\* The end of a walk changes a modelling rule at the most.
LEMMA ReturnSame == ASSUME ServerInv, WalkReturn PROVE SameShapes
<1>1. DOMAIN nodes' = DOMAIN nodes /\ Grows BY ReturnGrows
<1>2. \A m \in DOMAIN nodes : nodes[m] \in Node BY InvFacts DEF TypeOK
<1> QED BY <1>1, <1>2 DEF Grows, SameShapes, Node

\* The steps of a walk that add nothing.
LEMMA WalkShapeStep ==
    ASSUME ServerInv, ServerInv', ShapeInv, Grounded, ManifestSkip \/ ManifestFinish \/ WalkReturn
    PROVE  ShapeInv' /\ Grounded'
<1>1. walks # <<>> /\ UNCHANGED <<references, known, dead, nodecounter>>
  BY DEF ManifestSkip, ManifestFinish, WalkReturn, Walking, library, server, ruby
<1>2. SameShapes
  <2>1. CASE ManifestSkip \/ ManifestFinish
    <3>1. nodes' = nodes BY <2>1 DEF ManifestSkip, ManifestFinish, library
    <3> QED BY <3>1 DEF SameShapes
  <2>2. CASE WalkReturn BY <2>2, ReturnSame
  <2> QED BY <2>1, <2>2
<1>3. ShapeInv' BY <1>1, <1>2, ShapesSame
<1>4. /\ walks \in Seq(Frame) /\ Top \in Frame /\ Top = walks[Len(walks)]
      /\ Len(walks) \in DOMAIN walks /\ DOMAIN walks = 1..Len(walks) /\ Len(walks) \in Nat \ {0}
  BY <1>1, InvFacts, TopFacts
<1>5. CASE ManifestSkip
  <2>1. PICK c \in Top.todo : walks' = Done(c) BY <1>5 DEF ManifestSkip
  <2> QED BY <1>1, <1>3, <2>1, StepGrounded
<1>6. CASE ManifestFinish
  <2> DEFINE v == [Top EXCEPT !.op = "finish", !.todo = ToFinish]
  <2>1. v.to = Top.to BY <1>4 DEF Frame
  <2>2. DOMAIN walks' = DOMAIN walks /\ \A k \in DOMAIN walks : walks'[k] = IF k = Len(walks) THEN v ELSE walks[k]
    BY <1>4, <1>6 DEF ManifestFinish, Top
  <2> HIDE DEF v
  <2>3. Grounded' BY <1>4, <2>1, <2>2 DEF Grounded, Objects, NumericIn
  <2> QED BY <1>3, <2>3
<1>7. CASE WalkReturn
  <2>1. walks' = SubSeq(walks, 1, Len(walks) - 1) BY <1>7 DEF WalkReturn
  <2>2. DOMAIN walks' = 1..(Len(walks) - 1) /\ \A k \in 1..(Len(walks) - 1) : walks'[k] = walks[k]
    BY <1>4, <2>1, FrontFacts
  <2>3. Grounded' BY <1>4, <2>2 DEF Grounded, Objects, NumericIn
  <2> QED BY <1>3, <2>3
<1> QED BY <1>5, <1>6, <1>7

\* Every step keeps what ids tell, and which references there are.
LEMMA ShapeStep ==
    ASSUME ServerInv, ServerInv', PathInv, ShapeInv, Grounded, [Next]_vars
    PROVE  ShapeInv' /\ Grounded'
<1>1. CASE \/ AddNamespace \/ (\E k \in Active : ActiveNamespace(k)) \/ UNCHANGED vars
           \/ (\E self \in Owners : AddReference(self))
  <2>1. /\ UNCHANGED <<nodes, references, walks, dead>> /\ nodecounter' \in {nodecounter, nodecounter + 1}
        /\ \/ known' = known
           \/ known' = known \cup {HandleOn(Numeric(nodecounter), "reference")} /\ nodecounter <= MaxNum
    BY <1>1 DEF AddNamespace, ActiveNamespace, AddReference, Take, vars, library, server, ruby
  <2>2. \/ known' \cup dead' \subseteq known \cup dead
        \/ /\ nodecounter <= MaxNum
           /\ \A h \in (known' \cup dead') \ (known \cup dead) :
                 h.id.kind = "num" => h.id = Numeric(nodecounter) /\ h.class = "reference"
    BY <2>1 DEF HandleOn
  <2>3. ShapeInv' BY <2>1, <2>2, QuietShapeStep
  <2>4. Grounded' BY <2>1 DEF Grounded, Objects, NumericIn
  <2> QED BY <2>3, <2>4
<1>2. CASE \/ \E super \in Types(known) : AddObjectType(super)
           \/ \E top \in StdIds, accepted \in BOOLEAN : AddReferenceType(top, accepted)
  BY <1>2, TypeShapeStep, ReferenceTypeShapeStep
<1>3. CASE \E parent \in Owners, name \in Name, b \in Block \cup {Nil} :
             AddVariable(parent, name, b) \/ AddMethod(parent, name, b)
  BY <1>3, DeclarationShapeStep DEF AddVariable, AddMethod
<1>4. CASE \E parent \in Owners, t \in Types(known), name \in Name, arg \in Argument :
             AddObject(parent, name, t, arg)
  BY <1>4, ObjectShapeStep
<1>5. CASE \E live \in BOOLEAN : \E t \in Types(IF live THEN known ELSE dead) :
             \E parent \in Instances, name \in Name : Manifest(parent, name, t, live)
  BY <1>5, ManifestShapeStep
<1>6. CASE ManifestSkip \/ ManifestLeaf \/ ManifestObject \/ ManifestFinish
  BY <1>6, WalkShapeStep, ManifestLeafShapeStep, ManifestObjectShapeStep
<1>7. CASE CopyExisting \/ CopyMissing \/ WalkReturn
  BY <1>7, CopyExistingShapeStep, CopyMissingShapeStep, WalkShapeStep
<1>8. CASE \E n \in Deletable : Delete(n)
  <2>1. IsFiniteSet(references) BY PathInvFacts
  <2>2. walks' = <<>> BY <1>8 DEF Delete, InRuby
  <2> QED BY <1>8, <2>1, <2>2, ShapeDeleted DEF Grounded
<1> QED BY <1>1, <1>2, <1>3, <1>4, <1>5, <1>6, <1>7, <1>8 DEF Next, Call

-----------------------------------------------------------------------------
(* What is known of the walks *)

\* WalkShape, Onward and Progress, with the walks, the store of nodes, the references and the
\* active namespace as parameters.
ChildrenIn(n, store, refs)  == {c \in DOMAIN store : <<n, c>> \in refs}
MandatoryIn(n, store, refs) == {c \in ChildrenIn(n, store, refs) : store[c].rule = "mandatory"}
RequiredIn(t, store, refs)  == UNION {MandatoryIn(s, store, refs) : s \in HierarchyIn(store, t)}
NamesIn(S, store)           == {store[c].name : c \in S}
IntactIn(w, store, refs, ns) ==
    \A c \in ChildrenIn(w.from, store, refs) :
        c.ns = ns /\ (store[c].class = "object" => store[c].type \in DOMAIN store)

LeadsIn(w, store) == IF w.to \in DOMAIN store THEN store[w.to].class # "type" ELSE w.to.kind = "str"
ManifestIn(ws, k, store, refs) ==
    ws[k].op = "manifest" =>
        /\ \A j \in 1..(k - 1) : ws[j].op = "manifest"
        /\ ws[k].fresh <=> ws[k].to \in DOMAIN store
        /\ ws[k].todo \subseteq ChildrenIn(ws[k].from, store, refs)
SharedIn(ws, k, store, refs) ==
    IF k = 1
      THEN ws[k].to.kind = "num" => \A e \in ChildrenIn(ws[k].to, store, refs) :
                                        e.kind = "num" => store[e].class = "method"
      ELSE /\ ws[k].to.kind = "num" => store[ws[k].to].class \in {"method", "variable"}
           /\ ws[k].to.kind # "str" => ws[k].rule = "none"
FreshIn(ws, k, store, refs) ==
    ws[k].fresh =>
        /\ ws[k].op \in {"manifest", "finish"} /\ ws[k].to.kind # "gen"
        /\ ws[k].to \in DOMAIN store /\ ws[k].from \in DOMAIN store
        /\ Declaring(ws[k].from)
        /\ store[ws[k].to].class = "object" /\ store[ws[k].to].type \in DOMAIN store
        /\ IF k = 1
             THEN store[ws[k].from].class = "type" /\ store[ws[k].to].type = ws[k].from
             ELSE /\ store[ws[k].from].class = "object"
                  /\ ws[k - 1].fresh /\ <<ws[k - 1].from, ws[k].from>> \in refs
ShapeIn(ws, k, store, refs) ==
    /\ LeadsIn(ws[k], store) /\ ManifestIn(ws, k, store, refs)
    /\ SharedIn(ws, k, store, refs) /\ FreshIn(ws, k, store, refs)

OnwardIn(ws) ==
    \A j, k \in DOMAIN ws : ws[k].fresh => ws[j].to # ws[k].from /\ (k < j => ws[j].to # ws[k].to)

MadeIn(w, store, refs) == NamesIn(ChildrenIn(w.to, store, refs), store)
ProgressIn(w, store, refs, ns) ==
    w.fresh =>
        LET declared == MandatoryIn(w.from, store, refs)
            required == RequiredIn(store[w.to].type, store, refs)
            made     == MadeIn(w, store, refs)
        IN  /\ made \subseteq NamesIn(declared \cup required, store)
            /\ IntactIn(w, store, refs, ns) => NamesIn(declared \ w.todo, store) \subseteq made
            /\ w.op = "finish" => w.todo \subseteq required /\ NamesIn(required \ w.todo, store) \subseteq made

\* What has a number and hangs on a method is a variable or a method.
CallablesIn(store, refs) ==
    \A r \in refs : store[r[1]].class = "method" /\ r[2].kind = "num" => store[r[2]].class \in {"variable", "method"}

WalksIn(ws, store, refs, ns) ==
    /\ \A k \in DOMAIN ws : ShapeIn(ws, k, store, refs) /\ ProgressIn(ws[k], store, refs, ns)
    /\ OnwardIn(ws) /\ CallablesIn(store, refs)

\* The operators with parameters are those of Server.
LEMMA ParameterFacts ==
    /\ \A n : /\ Children(n) = ChildrenIn(n, nodes, references)
              /\ Mandatory(n) = MandatoryIn(n, nodes, references)
              /\ Required(n) = RequiredIn(n, nodes, references)
    /\ \A S : NamesOf(S) = NamesIn(S, nodes)
    /\ \A w : Intact(w) = IntactIn(w, nodes, references, default_ns)
<1>1. \A n : Children(n) = ChildrenIn(n, nodes, references) BY DEF Children, ChildrenIn
<1>2. \A n : Mandatory(n) = MandatoryIn(n, nodes, references) BY <1>1 DEF Mandatory, MandatoryIn
<1>3. \A n : Required(n) = RequiredIn(n, nodes, references) BY <1>2, HierarchyFacts DEF Required, RequiredIn
<1>4. \A S : NamesOf(S) = NamesIn(S, nodes) BY DEF NamesOf, NamesIn
<1>5. \A w : Intact(w) = IntactIn(w, nodes, references, default_ns) BY <1>1 DEF Intact, IntactIn, Live
<1> QED BY <1>1, <1>2, <1>3, <1>4, <1>5

\* What the invariant says of the walks.
LEMMA ExactInvFacts ==
    ASSUME ExactInv
    PROVE  ShapeInv /\ Grounded /\ (proper => WalksIn(walks, nodes, references, default_ns))
<1>1. ShapeInv /\ Grounded BY DEF ExactInv, Grounded
<1>2. ASSUME proper PROVE WalksIn(walks, nodes, references, default_ns)
  <2>1. ASSUME NEW k \in DOMAIN walks PROVE ShapeIn(walks, k, nodes, references)
    <3>1. WalkShape(k) BY <1>2 DEF ExactInv
    <3> QED BY <3>1, ParameterFacts
        DEF WalkShape, ShapeIn, LeadsIn, ManifestIn, SharedIn, FreshIn, Live
  <2>2. ASSUME NEW k \in DOMAIN walks PROVE ProgressIn(walks[k], nodes, references, default_ns)
    <3>1. Progress(walks[k]) BY <1>2 DEF ExactInv
    <3> QED BY <3>1, ParameterFacts DEF Progress, ProgressIn, MadeIn
  <2>3. OnwardIn(walks) /\ CallablesIn(nodes, references)
    BY <1>2 DEF ExactInv, Onward, OnwardIn, CallablesIn, Callable
  <2> QED BY <2>1, <2>2, <2>3 DEF WalksIn
<1> QED BY <1>1, <1>2

\* What a step has to show.
LEMMA ExactStep ==
    ASSUME ShapeInv', Grounded', proper' => WalksIn(walks', nodes', references', default_ns')
    PROVE  ExactInv'
<1>1. ASSUME proper'
      PROVE  /\ \A r \in references' :
                    nodes'[r[1]].class = "method" /\ r[2].kind = "num" => nodes'[r[2]].class \in {"variable", "method"}
             /\ (\A k \in DOMAIN walks : WalkShape(k) /\ Progress(walks[k]))' /\ Onward'
  <2>0. WalksIn(walks', nodes', references', default_ns') BY <1>1
  <2>1. ASSUME NEW k \in DOMAIN walks' PROVE WalkShape(k)'
    <3>1. ShapeIn(walks', k, nodes', references') BY <2>0 DEF WalksIn
    <3> QED BY <3>1
        DEF WalkShape, ShapeIn, LeadsIn, ManifestIn, SharedIn, FreshIn, Live, Children, ChildrenIn
  <2>2. ASSUME NEW k \in DOMAIN walks' PROVE Progress(walks[k])'
    <3>1. ProgressIn(walks'[k], nodes', references', default_ns') BY <2>0 DEF WalksIn
    <3> DEFINE w == walks'[k]
               t == nodes'[w.to].type
    <3>2. /\ Children(walks[k].to)' = ChildrenIn(w.to, nodes', references')
          /\ Mandatory(walks[k].from)' = MandatoryIn(w.from, nodes', references')
      BY DEF Children, ChildrenIn, Mandatory, MandatoryIn
    <3>3. Required(nodes[walks[k].to].type)' = RequiredIn(t, nodes', references')
      BY DEF Required, RequiredIn, Hierarchy, HierarchyIn, Mandatory, MandatoryIn, Children, ChildrenIn
    <3>4. Intact(walks[k])' = IntactIn(w, nodes', references', default_ns')
      BY DEF Intact, IntactIn, Live, Children, ChildrenIn
    <3> QED BY <3>1, <3>2, <3>3, <3>4 DEF Progress, ProgressIn, MadeIn, NamesOf, NamesIn
  <2>3. Onward' BY <2>0 DEF WalksIn, Onward, OnwardIn
  <2> QED BY <2>0, <2>1, <2>2, <2>3 DEF WalksIn, CallablesIn
<1> QED BY <1>1 DEF ExactInv, Grounded, Callable, Objects, NumericIn

-----------------------------------------------------------------------------
(* A step of a walk: what it keeps *)

\* What a step of a walk may do to the nodes and the references.
Copying ==
    /\ Adds /\ references \subseteq references' /\ default_ns' = default_ns
    /\ \A m \in DOMAIN nodes' \ DOMAIN nodes : m.kind # "num" /\ nodes'[m].class # "type"
    /\ \A r \in references' \ references :
          r[1] = Top.to /\ (r[2].kind # "num" \/ nodes'[r[2]].class = "method")

\* What it may do to the nodes that manifest creates things under.
Created == \A m \in DOMAIN nodes' \ DOMAIN nodes : \A k \in DOMAIN walks : m.kind = "str" => walks[k].to # m

\* Walk v goes on with walk w.
Continues(v, w) ==
    /\ v.from = w.from /\ v.to = w.to /\ v.fresh = w.fresh /\ v.rule = w.rule
    /\ (v.op = w.op /\ v.todo \subseteq w.todo) \/ (w.op = "manifest" /\ v.op = "finish")

\* What the new object of walk v, that goes on with walk w, has after the step.
Advances(v, w) ==
    LET declared == MandatoryIn(w.from, nodes, references)
        required == RequiredIn(nodes[w.to].type, nodes, references)
        made     == MadeIn(v, nodes', references')
    IN  /\ made \subseteq NamesIn(declared \cup required, nodes)
        /\ IntactIn(w, nodes, references, default_ns) => NamesIn(declared \ v.todo, nodes) \subseteq made
        /\ v.op = "finish" => v.todo \subseteq required /\ NamesIn(required \ v.todo, nodes) \subseteq made

\* Only what a step is about gets new children.
LEMMA ChildrenKept ==
    ASSUME ServerInv, Copying, NEW x
    PROVE  /\ ChildrenIn(x, nodes, references) \subseteq ChildrenIn(x, nodes', references')
           /\ x # Top.to => /\ ChildrenIn(x, nodes', references') = ChildrenIn(x, nodes, references)
                            /\ MandatoryIn(x, nodes', references') = MandatoryIn(x, nodes, references)
                            /\ NamesIn(ChildrenIn(x, nodes', references'), nodes')
                                  = NamesIn(ChildrenIn(x, nodes, references), nodes)
<1>1. references \subseteq (DOMAIN nodes) \X (DOMAIN nodes) BY InvFacts DEF TypeOK
<1>2. ChildrenIn(x, nodes, references) \subseteq ChildrenIn(x, nodes', references')
  BY DEF ChildrenIn, Copying, Adds
<1>3. ASSUME x # Top.to PROVE ChildrenIn(x, nodes', references') = ChildrenIn(x, nodes, references)
  <2>1. ASSUME NEW c, <<x, c>> \in references' PROVE <<x, c>> \in references
    BY <1>3, <2>1 DEF Copying
  <2>2. ASSUME NEW c, <<x, c>> \in references PROVE c \in DOMAIN nodes BY <1>1, <2>2
  <2> QED BY <1>2, <2>1, <2>2 DEF ChildrenIn
<1>4. \A c \in ChildrenIn(x, nodes, references) : nodes'[c] = nodes[c]
  BY DEF ChildrenIn, Copying, Adds
<1>5. ASSUME x # Top.to
      PROVE  MandatoryIn(x, nodes', references') = MandatoryIn(x, nodes, references)
  BY <1>3, <1>4, <1>5 DEF MandatoryIn
<1>6. ASSUME x # Top.to
      PROVE  NamesIn(ChildrenIn(x, nodes', references'), nodes') = NamesIn(ChildrenIn(x, nodes, references), nodes)
  BY <1>3, <1>4, <1>6 DEF NamesIn
<1> QED BY <1>2, <1>3, <1>5, <1>6

\* No type of a node is new.
LEMMA TypesNotNew ==
    ASSUME ServerInv, ServerInv', ShapeInv, Copying, NEW s \in DOMAIN nodes
    PROVE  nodes[s].type \in DOMAIN nodes' => nodes[s].type \in DOMAIN nodes
<1>1. DOMAIN nodes' \subseteq Id BY DEF ServerInv, TypeOK, Id, Token
<1>2. Shaped(s) BY DEF ShapeInv
<1>3. nodes[s].type \in DOMAIN nodes' => nodes[s].type # Nil BY <1>1, IdAssumption
<1> QED BY <1>2, <1>3 DEF Shaped, Copying

\* What a type requires stays, as long as no type gets children.
LEMMA RequiredKept ==
    ASSUME ServerInv, ServerInv', ShapeInv, Copying, LeadsIn(Top, nodes), NEW t \in DOMAIN nodes
    PROVE  RequiredIn(t, nodes', references') = RequiredIn(t, nodes, references)
<1>1. HierarchyIn(nodes', t) = HierarchyIn(nodes, t)
  <2>1. TypesKept BY DEF Copying, Adds, TypesKept
  <2>2. \A m \in DOMAIN nodes' \ DOMAIN nodes : m # t /\ \A s \in DOMAIN nodes : nodes[s].type # m
    BY TypesNotNew
  <2> QED BY <2>1, <2>2, HierarchyKept
<1>2. ASSUME NEW s \in HierarchyIn(nodes, t)
      PROVE  MandatoryIn(s, nodes', references') = MandatoryIn(s, nodes, references)
  <2>1. s \in DOMAIN nodes /\ nodes[s].class = "type" BY DEF HierarchyIn
  <2>2. s # Top.to BY <2>1 DEF LeadsIn
  <2> QED BY <2>2, ChildrenKept
<1> QED BY <1>1, <1>2 DEF RequiredIn

\* The names of nodes stay.
LEMMA NamesSame ==
    ASSUME Copying, NEW S \in SUBSET DOMAIN nodes
    PROVE  NamesIn(S, nodes') = NamesIn(S, nodes)
BY DEF NamesIn, Copying, Adds

\* What hangs on methods is not changed.
LEMMA CallablesKept ==
    ASSUME ServerInv, Copying, CallablesIn(nodes, references)
    PROVE  CallablesIn(nodes', references')
<1>1. references \subseteq (DOMAIN nodes) \X (DOMAIN nodes) BY InvFacts DEF TypeOK
<1>2. \A r \in references : nodes'[r[1]] = nodes[r[1]] /\ nodes'[r[2]] = nodes[r[2]]
  BY <1>1 DEF Copying, Adds
<1>3. \A r \in references' \ references : r[2].kind # "num" \/ nodes'[r[2]].class = "method" BY DEF Copying
<1> QED BY <1>2, <1>3 DEF CallablesIn

\* How far a walk has got after a step follows from how far it gets in the step.
LEMMA ProgressFrom ==
    ASSUME ServerInv, ServerInv', ShapeInv, Copying, LeadsIn(Top, nodes),
           NEW w, w.from # Top.to, w.to \in DOMAIN nodes, nodes[w.to].type \in DOMAIN nodes,
           NEW v, v.from = w.from, v.to = w.to, Advances(v, w)
    PROVE  ProgressIn(v, nodes', references', default_ns')
<1> DEFINE declared == MandatoryIn(w.from, nodes, references)
           required == RequiredIn(nodes[w.to].type, nodes, references)
           made     == MadeIn(v, nodes', references')
<1>1. nodes'[v.to] = nodes[w.to] BY DEF Copying, Adds
<1>2. MandatoryIn(v.from, nodes', references') = declared BY ChildrenKept
<1>3. RequiredIn(nodes'[v.to].type, nodes', references') = required BY <1>1, RequiredKept
<1>4. declared \subseteq DOMAIN nodes /\ required \subseteq DOMAIN nodes
  BY DEF MandatoryIn, ChildrenIn, RequiredIn
<1>5. IntactIn(v, nodes', references', default_ns') => IntactIn(w, nodes, references, default_ns)
  <2>1. ChildrenIn(v.from, nodes', references') = ChildrenIn(w.from, nodes, references) BY ChildrenKept
  <2>2. \A c \in ChildrenIn(w.from, nodes, references) : c \in DOMAIN nodes /\ nodes'[c] = nodes[c]
    BY DEF ChildrenIn, Copying, Adds
  <2>3. default_ns' = default_ns BY DEF Copying
  <2> QED BY <2>1, <2>2, <2>3, TypesNotNew DEF IntactIn
<1>6. /\ NamesIn(declared \cup required, nodes') = NamesIn(declared \cup required, nodes)
      /\ NamesIn(declared \ v.todo, nodes') = NamesIn(declared \ v.todo, nodes)
      /\ NamesIn(required \ v.todo, nodes') = NamesIn(required \ v.todo, nodes)
  <2>1. /\ declared \cup required \in SUBSET DOMAIN nodes
        /\ declared \ v.todo \in SUBSET DOMAIN nodes /\ required \ v.todo \in SUBSET DOMAIN nodes
    BY <1>4
  <2> HIDE DEF declared, required
  <2> QED BY <2>1, NamesSame
<1>7. /\ made \subseteq NamesIn(declared \cup required, nodes)
      /\ IntactIn(w, nodes, references, default_ns) => NamesIn(declared \ v.todo, nodes) \subseteq made
      /\ v.op = "finish" => v.todo \subseteq required /\ NamesIn(required \ v.todo, nodes) \subseteq made
  BY DEF Advances
<1> HIDE DEF declared, required, made
<1>8. /\ made \subseteq NamesIn(declared \cup required, nodes')
      /\ IntactIn(v, nodes', references', default_ns') => NamesIn(declared \ v.todo, nodes') \subseteq made
      /\ v.op = "finish" => v.todo \subseteq required /\ NamesIn(required \ v.todo, nodes') \subseteq made
  BY <1>5, <1>6, <1>7
<1> QED BY <1>2, <1>3, <1>8 DEF ProgressIn, made

\* A step under the top leaves the walks below it where they are.
LEMMA BelowAdvances ==
    ASSUME ServerInv, Copying, NEW w, w.fresh, w.to # Top.to, ProgressIn(w, nodes, references, default_ns)
    PROVE  Advances(w, w)
<1>1. MadeIn(w, nodes', references') = MadeIn(w, nodes, references) BY ChildrenKept DEF MadeIn
<1> QED BY <1>1 DEF ProgressIn, Advances

\* Where a walk leads to stays what it is.
LEMMA ShapeKept ==
    ASSUME ServerInv, Copying, Created, NEW k \in DOMAIN walks, k \in Nat, ShapeIn(walks, k, nodes, references),
           walks[k].op = "manifest" => walks[k].to.kind = "str",
           \A j \in 1..(k - 1) : walks'[j] = walks[j], Continues(walks'[k], walks[k])
    PROVE  ShapeIn(walks', k, nodes', references')
<1> DEFINE w == walks[k]
           v == walks'[k]
<1>1. v.from = w.from /\ v.to = w.to /\ v.fresh = w.fresh /\ v.rule = w.rule BY DEF Continues
<1>2. Adds /\ references \subseteq references' BY DEF Copying
<1>3. LeadsIn(w, nodes) /\ ManifestIn(walks, k, nodes, references) /\ SharedIn(walks, k, nodes, references)
      /\ FreshIn(walks, k, nodes, references)
  BY DEF ShapeIn
<1>4. LeadsIn(v, nodes')
  <2>1. CASE w.to \in DOMAIN nodes BY <1>1, <1>2, <1>3, <2>1 DEF LeadsIn, Adds
  <2>2. CASE w.to \notin DOMAIN nodes BY <1>1, <1>3, <2>2 DEF LeadsIn, Copying
  <2> QED BY <2>1, <2>2
<1>5. ManifestIn(walks', k, nodes', references')
  <2> SUFFICES ASSUME v.op = "manifest"
               PROVE  /\ \A j \in 1..(k - 1) : walks'[j].op = "manifest"
                      /\ v.fresh <=> v.to \in DOMAIN nodes'
                      /\ v.todo \subseteq ChildrenIn(v.from, nodes', references')
    BY DEF ManifestIn
  <2>1. w.op = "manifest" /\ v.todo \subseteq w.todo BY DEF Continues
  <2>2. /\ \A j \in 1..(k - 1) : walks[j].op = "manifest"
        /\ w.fresh <=> w.to \in DOMAIN nodes
        /\ w.todo \subseteq ChildrenIn(w.from, nodes, references)
    BY <1>3, <2>1 DEF ManifestIn
  <2>3. w.to \in DOMAIN nodes' <=> w.to \in DOMAIN nodes BY <1>2, <2>1 DEF Created, Adds
  <2>4. w.todo \subseteq ChildrenIn(w.from, nodes', references') BY <2>2, ChildrenKept
  <2> QED BY <1>1, <2>1, <2>2, <2>3, <2>4
<1>6. SharedIn(walks', k, nodes', references')
  <2>0. k # 1 /\ v.to.kind # "str" => v.rule = "none" BY <1>1, <1>3 DEF SharedIn
  <2> SUFFICES ASSUME v.to.kind = "num"
               PROVE  IF k = 1 THEN \A e \in ChildrenIn(v.to, nodes', references') :
                                        e.kind = "num" => nodes'[e].class = "method"
                               ELSE nodes'[v.to].class \in {"method", "variable"}
    BY <2>0 DEF SharedIn
  <2>1. w.to.kind = "num" /\ w.to \in DOMAIN nodes BY <1>1, <1>3 DEF LeadsIn
  <2>2. CASE k # 1 BY <1>1, <1>2, <1>3, <2>1, <2>2 DEF SharedIn, Adds
  <2>3. CASE k = 1
    <3>1. ASSUME NEW e \in ChildrenIn(v.to, nodes', references'), e.kind = "num"
          PROVE  nodes'[e].class = "method"
      <4>1. CASE <<w.to, e>> \in references
        <5>1. e \in DOMAIN nodes BY <4>1, InvFacts DEF TypeOK
        <5>2. e \in ChildrenIn(w.to, nodes, references) BY <4>1, <5>1 DEF ChildrenIn
        <5> QED BY <1>2, <1>3, <2>1, <2>3, <3>1, <5>1, <5>2 DEF SharedIn, Adds
      <4>2. CASE <<w.to, e>> \in references' \ references
        BY <3>1, <4>2 DEF Copying
      <4> QED BY <1>1, <4>1, <4>2 DEF ChildrenIn
    <3> QED BY <2>3, <3>1
  <2> QED BY <2>2, <2>3
<1>7. FreshIn(walks', k, nodes', references')
  <2> SUFFICES ASSUME v.fresh PROVE FreshIn(walks', k, nodes', references') BY DEF FreshIn
  <2>1. /\ w.op \in {"manifest", "finish"} /\ w.to.kind # "gen"
        /\ w.to \in DOMAIN nodes /\ w.from \in DOMAIN nodes /\ Declaring(w.from)
        /\ nodes[w.to].class = "object" /\ nodes[w.to].type \in DOMAIN nodes
        /\ IF k = 1
             THEN nodes[w.from].class = "type" /\ nodes[w.to].type = w.from
             ELSE /\ nodes[w.from].class = "object"
                  /\ walks[k - 1].fresh /\ <<walks[k - 1].from, w.from>> \in references
    BY <1>1, <1>3 DEF FreshIn
  <2>2. v.op \in {"manifest", "finish"} BY <2>1 DEF Continues
  <2>3. nodes'[v.to] = nodes[w.to] /\ nodes'[v.from] = nodes[w.from] BY <1>1, <1>2, <2>1 DEF Adds
  <2>4. \A x \in DOMAIN nodes : x \in DOMAIN nodes' BY <1>2 DEF Adds
  <2>5. k # 1 => walks'[k - 1] = walks[k - 1]
    <3>1. k >= 1
      <4>1. walks \in Seq(Frame) BY InvFacts
      <4> QED BY <4>1
    <3>2. k # 1 => k - 1 \in 1..(k - 1) BY <3>1
    <3> QED BY <3>2
  <2> QED BY <1>1, <1>2, <2>1, <2>2, <2>3, <2>4, <2>5 DEF FreshIn
<1> QED BY <1>4, <1>5, <1>6, <1>7 DEF ShapeIn

-----------------------------------------------------------------------------
(* A step of a walk: how far it gets *)

\* The walks below the top are the same, and the top goes on.
Advanced ==
    /\ \A k \in 1..(Len(walks) - 1) : walks'[k] = walks[k]
    /\ Continues(walks'[Len(walks)], Top)
    /\ Top.fresh => Advances(walks'[Len(walks)], Top)

\* Walk w leads on, and not to what a new object is or is made from.
LeadsOn(w) ==
    /\ \A k \in DOMAIN walks : walks[k].fresh => w.to # walks[k].from /\ w.to # walks[k].to
    /\ w.fresh => w.to # w.from /\ \A k \in DOMAIN walks : walks[k].to # w.from

\* The walks that go on.
LEMMA WalksAdvanced ==
    ASSUME ServerInv, ServerInv', ShapeInv, PathWalks(walks, nodes, references), walks # <<>>,
           WalksIn(walks, nodes, references, default_ns), Copying, Created, Advanced
    PROVE  \A k \in 1..Len(walks) : /\ ShapeIn(walks', k, nodes', references')
                                    /\ ProgressIn(walks'[k], nodes', references', default_ns')
                                    /\ Continues(walks'[k], walks[k])
<1>1. /\ Len(walks) \in Nat \ {0} /\ DOMAIN walks = 1..Len(walks) /\ Len(walks) \in DOMAIN walks
      /\ Top = walks[Len(walks)]
  BY InvFacts, TopFacts
<1>2. LeadsIn(Top, nodes) BY <1>1 DEF WalksIn, ShapeIn
<1> SUFFICES ASSUME NEW k \in 1..Len(walks)
             PROVE  /\ ShapeIn(walks', k, nodes', references')
                    /\ ProgressIn(walks'[k], nodes', references', default_ns')
                    /\ Continues(walks'[k], walks[k])
  OBVIOUS
<1>3. /\ ShapeIn(walks, k, nodes, references) /\ ProgressIn(walks[k], nodes, references, default_ns)
      /\ k \in DOMAIN walks
  BY <1>1 DEF WalksIn
<1>4. k = Len(walks) \/ k \in 1..(Len(walks) - 1) BY <1>1, Indices
<1>5. Continues(walks'[k], walks[k])
  <2>1. CASE k = Len(walks) BY <1>1, <2>1 DEF Advanced
  <2>2. CASE k \in 1..(Len(walks) - 1) BY <2>2 DEF Advanced, Continues
  <2> QED BY <1>4, <2>1, <2>2
<1>6. ShapeIn(walks', k, nodes', references')
  <2>1. walks[k].op = "manifest" => walks[k].to.kind = "str" BY <1>3 DEF PathWalks, ManifestWalk
  <2>2. \A j \in 1..(k - 1) : j \in 1..(Len(walks) - 1) BY <1>1
  <2>3. \A j \in 1..(k - 1) : walks'[j] = walks[j] BY <2>2 DEF Advanced
  <2>4. k \in Nat OBVIOUS
  <2> QED BY <1>3, <1>5, <2>1, <2>3, <2>4, ShapeKept
<1>7. ProgressIn(walks'[k], nodes', references', default_ns')
  <2>1. CASE ~walks[k].fresh BY <1>5, <2>1 DEF Continues, ProgressIn
  <2>2. CASE walks[k].fresh
    <3>1. walks[k].from # Top.to
      BY <1>1, <1>3, <2>2 DEF WalksIn, OnwardIn
    <3>2. walks[k].to \in DOMAIN nodes /\ nodes[walks[k].to].type \in DOMAIN nodes
      BY <1>3, <2>2 DEF ShapeIn, FreshIn
    <3>3. Advances(walks'[k], walks[k])
      <4>1. CASE k = Len(walks) BY <1>1, <2>2, <4>1 DEF Advanced
      <4>2. CASE k \in 1..(Len(walks) - 1)
        <5>1. k < Len(walks) BY <1>1, <4>2
        <5>2. walks[k].to # Top.to BY <1>1, <1>3, <2>2, <5>1 DEF WalksIn, OnwardIn
        <5>3. Advances(walks[k], walks[k]) BY <1>3, <2>2, <5>2, BelowAdvances
        <5> QED BY <4>2, <5>3 DEF Advanced
      <4> QED BY <1>4, <4>1, <4>2
    <3>4. walks'[k].from = walks[k].from /\ walks'[k].to = walks[k].to BY <1>5 DEF Continues
    <3> QED BY <1>2, <3>1, <3>2, <3>3, <3>4, ProgressFrom
  <2> QED BY <2>1, <2>2
<1> QED BY <1>5, <1>6, <1>7

\* A step that takes no step down.
LEMMA SameLevel ==
    ASSUME ServerInv, ServerInv', ShapeInv, PathWalks(walks, nodes, references), walks # <<>>,
           WalksIn(walks, nodes, references, default_ns), Copying, Created, Advanced,
           DOMAIN walks' = 1..Len(walks)
    PROVE  WalksIn(walks', nodes', references', default_ns')
<1>1. \A k \in 1..Len(walks) : /\ ShapeIn(walks', k, nodes', references')
                               /\ ProgressIn(walks'[k], nodes', references', default_ns')
                               /\ Continues(walks'[k], walks[k])
  BY WalksAdvanced
<1>2. DOMAIN walks = 1..Len(walks) BY InvFacts, TopFacts
<1>3. OnwardIn(walks') BY <1>1, <1>2 DEF WalksIn, OnwardIn, Continues
<1>4. CallablesIn(nodes', references') BY CallablesKept DEF WalksIn
<1> QED BY <1>1, <1>3, <1>4 DEF WalksIn

\* A step down.
LEMMA NextLevel ==
    ASSUME ServerInv, ServerInv', ShapeInv, PathWalks(walks, nodes, references), walks # <<>>,
           WalksIn(walks, nodes, references, default_ns), Copying, Created, Advanced,
           DOMAIN walks' = 1..(Len(walks) + 1), NEW w, walks'[Len(walks) + 1] = w, LeadsOn(w),
           ShapeIn(walks', Len(walks) + 1, nodes', references'),
           ProgressIn(w, nodes', references', default_ns')
    PROVE  WalksIn(walks', nodes', references', default_ns')
<1> DEFINE N == Len(walks)
<1>1. \A k \in 1..N : /\ ShapeIn(walks', k, nodes', references')
                      /\ ProgressIn(walks'[k], nodes', references', default_ns')
                      /\ Continues(walks'[k], walks[k])
  BY WalksAdvanced
<1>2. DOMAIN walks = 1..N /\ N \in Nat BY InvFacts, TopFacts
<1>3. \A k \in DOMAIN walks' : k \in 1..N \/ k = N + 1 BY <1>2, Indices
<1>4. OnwardIn(walks')
  <2> SUFFICES ASSUME NEW j \in DOMAIN walks', NEW k \in DOMAIN walks', walks'[k].fresh
               PROVE  walks'[j].to # walks'[k].from /\ (k < j => walks'[j].to # walks'[k].to)
    BY DEF OnwardIn
  <2>1. CASE k \in 1..N
    <3>1. walks'[k].from = walks[k].from /\ walks'[k].to = walks[k].to /\ walks[k].fresh /\ k \in DOMAIN walks
      BY <1>1, <1>2, <2>1 DEF Continues
    <3>2. CASE j \in 1..N
      <4>1. walks'[j].to = walks[j].to /\ j \in DOMAIN walks BY <1>1, <1>2, <3>2 DEF Continues
      <4> QED BY <3>1, <4>1 DEF WalksIn, OnwardIn
    <3>3. CASE j = N + 1 BY <3>1, <3>3 DEF LeadsOn
    <3> QED BY <1>3, <3>2, <3>3
  <2>2. CASE k = N + 1
    <3>1. w.to # w.from /\ \A i \in 1..N : walks[i].to # w.from BY <1>2, <2>2 DEF LeadsOn
    <3>2. \A i \in 1..N : walks'[i].to = walks[i].to /\ ~(k < i) BY <1>1, <1>2, <2>2 DEF Continues
    <3>3. CASE j \in 1..N BY <2>2, <3>1, <3>2, <3>3
    <3>4. CASE j = N + 1
      <4>1. ~(k < j) BY <1>2, <2>2, <3>4
      <4> QED BY <2>2, <3>1, <3>4, <4>1
    <3> QED BY <1>3, <3>3, <3>4
  <2> QED BY <1>3, <2>1, <2>2
<1>5. \A k \in DOMAIN walks' : /\ ShapeIn(walks', k, nodes', references')
                               /\ ProgressIn(walks'[k], nodes', references', default_ns')
  BY <1>1, <1>3
<1>6. CallablesIn(nodes', references') BY CallablesKept DEF WalksIn
<1> QED BY <1>4, <1>5, <1>6 DEF WalksIn

\* A step that asks the library for nothing.
LEMMA NothingCopied ==
    ASSUME ServerInv, UNCHANGED <<nodes, references, default_ns>>
    PROVE  Copying /\ Created
BY DEF Copying, Created, Adds

\* The top has one child less to look at.
LEMMA OneLess ==
    ASSUME NEW c, OneDone(c), Top.fresh => Advances(walks'[Len(walks)], Top)
    PROVE  Advanced
<1>1. Continues(walks'[Len(walks)], Top) BY DEF OneDone, Continues
<1> QED BY <1>1 DEF OneDone, Advanced

\* The new object gets no child, or the child c that is declared or required.
GetsNothing(c) ==
    /\ MadeIn(Top, nodes', references') = MadeIn(Top, nodes, references)
    /\ \/ /\ Top.op = "manifest"
          /\ IntactIn(Top, nodes, references, default_ns) => c \notin MandatoryIn(Top.from, nodes, references)
       \/ Top.op = "finish" /\ nodes[c].name \in MadeIn(Top, nodes, references)
GetsChild(c) ==
    /\ MadeIn(Top, nodes', references') = MadeIn(Top, nodes, references) \cup {nodes[c].name}
    /\ \/ Top.op = "manifest" /\ c \in MandatoryIn(Top.from, nodes, references)
       \/ Top.op = "finish" /\ c \in RequiredIn(nodes[Top.to].type, nodes, references)

\* Either way the walk on top gets on.
LEMMA TopAdvances ==
    ASSUME NEW c, OneDone(c), Top.fresh, ProgressIn(Top, nodes, references, default_ns), GetsNothing(c) \/ GetsChild(c)
    PROVE  Advances(walks'[Len(walks)], Top)
<1> DEFINE v == walks'[Len(walks)]
           declared == MandatoryIn(Top.from, nodes, references)
           required == RequiredIn(nodes[Top.to].type, nodes, references)
           before   == MadeIn(Top, nodes, references)
           after    == MadeIn(v, nodes', references')
<1>1. v.op = Top.op /\ v.to = Top.to /\ v.todo = Top.todo \ {c} BY DEF OneDone
<1>2. after = MadeIn(Top, nodes', references') BY <1>1 DEF MadeIn
<1>3. /\ before \subseteq NamesIn(declared \cup required, nodes)
      /\ IntactIn(Top, nodes, references, default_ns) => NamesIn(declared \ Top.todo, nodes) \subseteq before
      /\ Top.op = "finish" => Top.todo \subseteq required /\ NamesIn(required \ Top.todo, nodes) \subseteq before
  BY DEF ProgressIn
<1>4. after = before \/ after = before \cup {nodes[c].name} BY <1>2 DEF GetsNothing, GetsChild
<1> HIDE DEF v, declared, required, before, after
<1>5. after \subseteq NamesIn(declared \cup required, nodes)
  <2>1. CASE GetsNothing(c) BY <1>2, <1>3, <2>1 DEF GetsNothing, before, after
  <2>2. CASE GetsChild(c)
    <3>1. c \in declared \cup required BY <2>2 DEF GetsChild, declared, required
    <3>2. nodes[c].name \in NamesIn(declared \cup required, nodes) BY <3>1 DEF NamesIn
    <3> QED BY <1>3, <1>4, <3>2
  <2> QED BY <2>1, <2>2
<1>6. \A S : NamesIn(S \ v.todo, nodes) \subseteq NamesIn(S \ Top.todo, nodes) \cup {nodes[c].name}
  BY <1>1 DEF NamesIn
<1>7. nodes[c].name \in after \/ (Top.op = "manifest" /\ (IntactIn(Top, nodes, references, default_ns) => c \notin declared))
  BY <1>2 DEF GetsNothing, GetsChild, before, after, declared
<1>8. before \subseteq after BY <1>4
<1>9. ASSUME IntactIn(Top, nodes, references, default_ns) PROVE NamesIn(declared \ v.todo, nodes) \subseteq after
  <2>1. CASE nodes[c].name \in after BY <1>3, <1>6, <1>8, <1>9, <2>1
  <2>2. CASE c \notin declared
    <3>1. declared \ v.todo = declared \ Top.todo BY <1>1, <2>2
    <3> QED BY <1>3, <1>8, <1>9, <3>1
  <2> QED BY <1>7, <1>9, <2>1, <2>2
<1>10. ASSUME v.op = "finish" PROVE v.todo \subseteq required /\ NamesIn(required \ v.todo, nodes) \subseteq after
  <2>1. Top.op = "finish" BY <1>1, <1>10
  <2>2. nodes[c].name \in after BY <1>7, <2>1
  <2>3. v.todo \subseteq required BY <1>1, <1>3, <2>1
  <2> QED BY <1>3, <1>6, <1>8, <2>1, <2>2, <2>3
<1> QED BY <1>5, <1>9, <1>10 DEF Advances, v, declared, required, after

-----------------------------------------------------------------------------
(* The walks: steps that create nothing *)

\* What the invariant says of the walk on top.
LEMMA TopExact ==
    ASSUME ServerInv, walks # <<>>, WalksIn(walks, nodes, references, default_ns)
    PROVE  /\ Len(walks) \in Nat \ {0} /\ DOMAIN walks = 1..Len(walks) /\ Top = walks[Len(walks)]
           /\ LeadsIn(Top, nodes) /\ ProgressIn(Top, nodes, references, default_ns)
           /\ Top.op = "manifest" => /\ \A k \in DOMAIN walks : walks[k].op = "manifest"
                                     /\ Top.fresh <=> Top.to \in DOMAIN nodes
                                     /\ Top.todo \subseteq ChildrenIn(Top.from, nodes, references)
           /\ Top.fresh => /\ Top.op \in {"manifest", "finish"} /\ Top.from # Top.to
                           /\ Top.to \in DOMAIN nodes /\ nodes[Top.to].type \in DOMAIN nodes
           /\ \A k \in DOMAIN walks : walks[k].fresh =>
                 /\ walks[k].to \in DOMAIN nodes /\ walks[k].from \in DOMAIN nodes
                 /\ walks[k].to.kind # "gen" /\ nodes[walks[k].to].class = "object"
<1>1. Len(walks) \in Nat \ {0} /\ DOMAIN walks = 1..Len(walks) /\ Len(walks) \in DOMAIN walks /\ Top = walks[Len(walks)]
  BY InvFacts, TopFacts
<1>2. \A k \in DOMAIN walks : ShapeIn(walks, k, nodes, references) /\ ProgressIn(walks[k], nodes, references, default_ns)
  BY DEF WalksIn
<1>3. \A k \in DOMAIN walks : walks[k].fresh =>
                 /\ walks[k].to \in DOMAIN nodes /\ walks[k].from \in DOMAIN nodes
                 /\ walks[k].to.kind # "gen" /\ nodes[walks[k].to].class = "object"
                 /\ walks[k].op \in {"manifest", "finish"} /\ nodes[walks[k].to].type \in DOMAIN nodes
  BY <1>2 DEF ShapeIn, FreshIn
<1>4. Top.fresh => Top.from # Top.to BY <1>1 DEF WalksIn, OnwardIn
<1>5. ASSUME Top.op = "manifest"
      PROVE  /\ \A k \in DOMAIN walks : walks[k].op = "manifest"
             /\ Top.fresh <=> Top.to \in DOMAIN nodes
             /\ Top.todo \subseteq ChildrenIn(Top.from, nodes, references)
  <2>1. ManifestIn(walks, Len(walks), nodes, references) BY <1>1, <1>2 DEF ShapeIn
  <2>2. \A k \in DOMAIN walks : k = Len(walks) \/ k \in 1..(Len(walks) - 1) BY <1>1, Indices
  <2> QED BY <1>1, <1>5, <2>1, <2>2 DEF ManifestIn
<1> QED BY <1>1, <1>2, <1>3, <1>4, <1>5 DEF ShapeIn

\* manifest_iter passes over a child: it is not mandatory, or of another namespace.
LEMMA SkipWalksStep ==
    ASSUME ServerInv, ServerInv', ShapeInv, PathWalks(walks, nodes, references),
           WalksIn(walks, nodes, references, default_ns), ManifestSkip
    PROVE  WalksIn(walks', nodes', references', default_ns')
<1>1. /\ walks # <<>> /\ Top.op = "manifest" /\ UNCHANGED <<nodes, references, default_ns>>
  BY DEF ManifestSkip, Walking, library, server
<1>2. PICK c \in Top.todo : ~Manifested(c) /\ walks' = Done(c) BY DEF ManifestSkip
<1>3. OneDone(c) /\ DOMAIN walks' = 1..Len(walks) BY <1>1, <1>2, StepFrames
<1>4. Copying /\ Created BY <1>1, NothingCopied
<1>5. Top.fresh => Advances(walks'[Len(walks)], Top)
  <2>1. ProgressIn(Top, nodes, references, default_ns) /\ c \in ChildrenIn(Top.from, nodes, references)
    BY <1>1, TopExact
  <2>2. IntactIn(Top, nodes, references, default_ns) => c \notin MandatoryIn(Top.from, nodes, references)
    BY <1>2, <2>1 DEF IntactIn, MandatoryIn, Manifested
  <2>3. MadeIn(Top, nodes', references') = MadeIn(Top, nodes, references) BY <1>1
  <2>4. GetsNothing(c) BY <1>1, <2>2, <2>3 DEF GetsNothing
  <2> QED BY <1>3, <2>1, <2>4, TopAdvances
<1>6. Advanced BY <1>3, <1>5, OneLess
<1> QED BY <1>1, <1>3, <1>4, <1>6, SameLevel

\* manifest_iter is done, and the library takes over.
LEMMA FinishWalksStep ==
    ASSUME ServerInv, ServerInv', ShapeInv, PathWalks(walks, nodes, references),
           WalksIn(walks, nodes, references, default_ns), ManifestFinish
    PROVE  WalksIn(walks', nodes', references', default_ns')
<1>1. /\ walks # <<>> /\ Top.op = "manifest" /\ Top.todo = {} /\ UNCHANGED <<nodes, references, default_ns>>
      /\ walks' = [walks EXCEPT ![Len(walks)].op = "finish", ![Len(walks)].todo = ToFinish]
  BY DEF ManifestFinish, Walking, library, server
<1>2. /\ walks \in Seq(Frame) /\ Top \in Frame /\ Top = walks[Len(walks)]
      /\ Len(walks) \in DOMAIN walks /\ DOMAIN walks = 1..Len(walks) /\ Len(walks) \in Nat \ {0}
  BY <1>1, InvFacts, TopFacts
<1> DEFINE v == [Top EXCEPT !.op = "finish", !.todo = ToFinish]
<1>3. v.from = Top.from /\ v.to = Top.to /\ v.fresh = Top.fresh /\ v.op = "finish" /\ v.todo = ToFinish
      /\ v.rule = Top.rule
  BY <1>2 DEF Frame
<1>4. DOMAIN walks' = DOMAIN walks /\ \A k \in DOMAIN walks : walks'[k] = IF k = Len(walks) THEN v ELSE walks[k]
  BY <1>1, <1>2 DEF Top
<1> HIDE DEF v
<1>5. Copying /\ Created BY <1>1, NothingCopied
<1>6. ASSUME Top.fresh PROVE Advances(v, Top)
  <2> DEFINE declared == MandatoryIn(Top.from, nodes, references)
             required == RequiredIn(nodes[Top.to].type, nodes, references)
             made     == MadeIn(Top, nodes, references)
  <2>1. /\ ProgressIn(Top, nodes, references, default_ns)
        /\ Top.to \in DOMAIN nodes /\ nodes[Top.to].type \in DOMAIN nodes
    BY <1>1, <1>6, TopExact
  <2>2. ToFinish = required BY <2>1, ParameterFacts DEF ToFinish, Live
  <2>3. MadeIn(v, nodes', references') = made BY <1>1, <1>3 DEF MadeIn
  <2>4. /\ made \subseteq NamesIn(declared \cup required, nodes)
        /\ IntactIn(Top, nodes, references, default_ns) => NamesIn(declared \ Top.todo, nodes) \subseteq made
    BY <1>6, <2>1 DEF ProgressIn
  <2> HIDE DEF declared, required, made
  <2>5. NamesIn(declared \ v.todo, nodes) \subseteq NamesIn(declared \ Top.todo, nodes)
    BY <1>1 DEF NamesIn
  <2>6. NamesIn(required \ v.todo, nodes) \subseteq made BY <1>3, <2>2 DEF NamesIn
  <2> QED BY <1>3, <2>2, <2>3, <2>4, <2>5, <2>6 DEF Advances, declared, required
<1>7. Advanced
  <2>1. \A k \in 1..(Len(walks) - 1) : k \in DOMAIN walks /\ k # Len(walks) BY <1>2, Indices
  <2>2. \A k \in 1..(Len(walks) - 1) : walks'[k] = walks[k] BY <1>4, <2>1
  <2>3. walks'[Len(walks)] = v BY <1>2, <1>4
  <2>4. Continues(v, Top) BY <1>1, <1>3 DEF Continues
  <2> QED BY <1>6, <2>2, <2>3, <2>4 DEF Advanced
<1> QED BY <1>1, <1>2, <1>4, <1>5, <1>7, SameLevel

\* The modelling rule is given to an instance, which no type and no declaration has: what is
\* declared stays the same, as long as a walk goes on.
LEMMA RuleKept ==
    ASSUME ServerInv, PathTree, NEW to, to.kind = "str", NEW rule,
           nodes' = IF to \in DOMAIN nodes THEN [nodes EXCEPT ![to].rule = rule] ELSE nodes,
           UNCHANGED references, SameShapes, NEW x, Declaring(x)
    PROVE  MandatoryIn(x, nodes', references') = MandatoryIn(x, nodes, references)
<1>1. <<x, to>> \notin references
  <2> SUFFICES ASSUME <<x, to>> \in references PROVE FALSE OBVIOUS
  <2>1. to \in DOMAIN nodes BY InvFacts DEF TypeOK
  <2>2. to \in Pathed BY <2>1 DEF Pathed
  <2>3. PICK parent \in Pathed \cup {Objects} : <<parent, to>> \in references BY <2>2 DEF PathTree, Placed
  <2>4. ~Declaring(parent)
    <3>1. CASE parent = Objects BY <3>1 DEF Declaring
    <3>2. CASE parent \in Pathed BY <3>2 DEF Pathed, ServerInv, NodeInv, WellNumbered, Declaring
    <3> QED BY <3>1, <3>2
  <2>5. <<x, to>> = <<parent, to>> BY <2>3 DEF PathTree
  <2> QED BY <2>4, <2>5
<1>2. \A c \in DOMAIN nodes : c # to => nodes'[c] = nodes[c] OBVIOUS
<1>3. ChildrenIn(x, nodes', references') = ChildrenIn(x, nodes, references) BY DEF ChildrenIn, SameShapes
<1>4. \A c \in ChildrenIn(x, nodes, references) : c # to /\ c \in DOMAIN nodes BY <1>1 DEF ChildrenIn
<1> QED BY <1>2, <1>3, <1>4 DEF MandatoryIn

\* The library is done with an object.
LEMMA ReturnWalksStep ==
    ASSUME ServerInv, ServerInv', ShapeInv, PathTree, PathWalks(walks, nodes, references),
           WalksIn(walks, nodes, references, default_ns), WalkReturn
    PROVE  WalksIn(walks', nodes', references', default_ns')
<1>1. /\ walks # <<>> /\ UNCHANGED <<references, default_ns>>
      /\ walks' = SubSeq(walks, 1, Len(walks) - 1)
      /\ nodes' = IF Top.rule # "none" /\ Top.to \in DOMAIN nodes THEN [nodes EXCEPT ![Top.to].rule = Top.rule]
                                                                   ELSE nodes
  BY DEF WalkReturn, Walking, server, Live
<1>2. /\ walks \in Seq(Frame) /\ DOMAIN walks = 1..Len(walks) /\ Len(walks) \in Nat \ {0}
      /\ Top = walks[Len(walks)] /\ Len(walks) \in DOMAIN walks
  BY <1>1, InvFacts, TopFacts
<1>3. DOMAIN walks' = 1..(Len(walks) - 1) /\ \A k \in 1..(Len(walks) - 1) : walks'[k] = walks[k]
  BY <1>1, <1>2, FrontFacts
<1>4. \A k \in DOMAIN walks' : k \in DOMAIN walks /\ k \in Nat /\ walks'[k] = walks[k] BY <1>2, <1>3
<1>5. SameShapes BY ReturnSame
<1>6. references \subseteq (DOMAIN nodes) \X (DOMAIN nodes) BY InvFacts DEF TypeOK
<1>7. \A x : ChildrenIn(x, nodes', references') = ChildrenIn(x, nodes, references)
  BY <1>1, <1>5 DEF ChildrenIn, SameShapes
<1>8. OnwardIn(walks') BY <1>4 DEF WalksIn, OnwardIn
<1>9. CallablesIn(nodes', references') BY <1>1, <1>5, <1>6 DEF WalksIn, CallablesIn, SameShapes
<1>10. ASSUME NEW k \in DOMAIN walks', NEW x, Declaring(x)
       PROVE  MandatoryIn(x, nodes', references') = MandatoryIn(x, nodes, references)
  <2>1. CASE nodes' = nodes BY <1>1, <2>1
  <2>2. CASE nodes' # nodes
    <3>1. Len(walks) # 1 BY <1>2, <1>3, <1>10
    <3>2. SharedIn(walks, Len(walks), nodes, references) BY <1>2 DEF WalksIn, ShapeIn
    <3>3. Top.rule # "none" /\ Top.to \in DOMAIN nodes BY <1>1, <2>2
    <3>4. Top.to.kind = "str" BY <1>2, <3>1, <3>2, <3>3 DEF SharedIn
    <3> DEFINE to == Top.to
               rule == Top.rule
    <3>5. /\ to.kind = "str" /\ UNCHANGED references
          /\ nodes' = IF to \in DOMAIN nodes THEN [nodes EXCEPT ![to].rule = rule] ELSE nodes
      BY <1>1, <3>3, <3>4
    <3> HIDE DEF to, rule
    <3> QED BY <1>5, <1>10, <3>5, RuleKept
  <2> QED BY <2>1, <2>2
<1>11. ASSUME NEW k \in DOMAIN walks', NEW t \in DOMAIN nodes
       PROVE  RequiredIn(t, nodes', references') = RequiredIn(t, nodes, references)
  <2>1. HierarchyIn(nodes', t) = HierarchyIn(nodes, t)
    <3>1. TypesKept BY <1>5 DEF TypesKept, SameShapes
    <3>2. DOMAIN nodes' \ DOMAIN nodes = {} BY <1>5 DEF SameShapes
    <3> QED BY <3>1, <3>2, HierarchyKept
  <2>2. \A s \in HierarchyIn(nodes, t) : Declaring(s) BY DEF HierarchyIn, ServerInv, NodeInv
  <2>3. \A s \in HierarchyIn(nodes, t) : MandatoryIn(s, nodes', references') = MandatoryIn(s, nodes, references)
    BY <1>10, <2>2
  <2> QED BY <2>1, <2>3 DEF RequiredIn
<1>12. \A S \in SUBSET DOMAIN nodes : NamesIn(S, nodes') = NamesIn(S, nodes) BY <1>5 DEF NamesIn, SameShapes
<1>13. ASSUME NEW k \in DOMAIN walks' PROVE ShapeIn(walks', k, nodes', references')
  <2>1. ShapeIn(walks, k, nodes, references) BY <1>4 DEF WalksIn
  <2>2. LeadsIn(walks'[k], nodes') BY <1>4, <1>5, <2>1 DEF ShapeIn, LeadsIn, SameShapes
  <2>3. \A j \in 1..(k - 1) : j \in 1..(Len(walks) - 1) BY <1>2, <1>3
  <2>4. \A j \in 1..(k - 1) : walks'[j] = walks[j] BY <1>3, <2>3
  <2>5. ManifestIn(walks', k, nodes', references')
    <3>1. ManifestIn(walks, k, nodes, references) /\ DOMAIN nodes' = DOMAIN nodes
      BY <1>5, <2>1 DEF ShapeIn, SameShapes
    <3> QED BY <1>4, <1>7, <2>4, <3>1 DEF ManifestIn
  <2>6. SharedIn(walks', k, nodes', references')
    <3>1. SharedIn(walks, k, nodes, references) /\ LeadsIn(walks[k], nodes) BY <2>1 DEF ShapeIn
    <3>2. CASE k = 1
      <4>1. \A e \in ChildrenIn(walks[k].to, nodes, references) : nodes'[e].class = nodes[e].class
        BY <1>5 DEF ChildrenIn, SameShapes
      <4> QED BY <1>4, <1>7, <3>1, <3>2, <4>1 DEF SharedIn
    <3>3. CASE k # 1
      <4>1. walks[k].to.kind = "num" => nodes'[walks[k].to].class = nodes[walks[k].to].class
        BY <1>5, <3>1 DEF LeadsIn, SameShapes
      <4> QED BY <1>4, <3>1, <3>3, <4>1 DEF SharedIn
    <3> QED BY <3>2, <3>3
  <2>7. FreshIn(walks', k, nodes', references')
    <3> SUFFICES ASSUME walks'[k].fresh PROVE FreshIn(walks', k, nodes', references') BY DEF FreshIn
    <3>1. FreshIn(walks, k, nodes, references) /\ walks[k].fresh BY <1>4, <2>1 DEF ShapeIn
    <3>2. /\ walks[k].to \in DOMAIN nodes /\ walks[k].from \in DOMAIN nodes
          /\ nodes[walks[k].to].type \in DOMAIN nodes
      BY <3>1 DEF FreshIn
    <3>3. /\ nodes'[walks[k].to].class = nodes[walks[k].to].class
          /\ nodes'[walks[k].to].type = nodes[walks[k].to].type
          /\ nodes'[walks[k].from].class = nodes[walks[k].from].class
          /\ DOMAIN nodes' = DOMAIN nodes
      BY <1>5, <3>2 DEF SameShapes
    <3>4. k # 1 => walks'[k - 1] = walks[k - 1]
      <4>1. k # 1 => k - 1 \in 1..(k - 1) BY <1>3
      <4> QED BY <2>4, <4>1
    <3> QED BY <1>1, <1>4, <3>1, <3>3, <3>4 DEF FreshIn
  <2> QED BY <2>2, <2>5, <2>6, <2>7 DEF ShapeIn
<1>14. ASSUME NEW k \in DOMAIN walks' PROVE ProgressIn(walks'[k], nodes', references', default_ns')
  <2> DEFINE w == walks[k]
  <2> SUFFICES ASSUME w.fresh PROVE ProgressIn(w, nodes', references', default_ns') BY <1>4 DEF ProgressIn
  <2>1. /\ ProgressIn(w, nodes, references, default_ns)
        /\ w.to \in DOMAIN nodes /\ nodes[w.to].type \in DOMAIN nodes /\ Declaring(w.from)
    BY <1>4 DEF WalksIn, ShapeIn, FreshIn
  <2> DEFINE declared == MandatoryIn(w.from, nodes, references)
             required == RequiredIn(nodes[w.to].type, nodes, references)
             made     == MadeIn(w, nodes, references)
  <2>2. MandatoryIn(w.from, nodes', references') = declared BY <1>10, <2>1
  <2>3. RequiredIn(nodes'[w.to].type, nodes', references') = required BY <1>5, <1>11, <2>1 DEF SameShapes
  <2>4. MadeIn(w, nodes', references') = made
    <3>1. ChildrenIn(w.to, nodes, references) \in SUBSET DOMAIN nodes BY DEF ChildrenIn
    <3> QED BY <1>7, <1>12, <3>1 DEF MadeIn
  <2>5. declared \subseteq DOMAIN nodes /\ required \subseteq DOMAIN nodes
    BY DEF MandatoryIn, ChildrenIn, RequiredIn
  <2>6. IntactIn(w, nodes', references', default_ns') <=> IntactIn(w, nodes, references, default_ns)
    <3>1. \A c \in ChildrenIn(w.from, nodes, references) :
             c \in DOMAIN nodes /\ nodes'[c].class = nodes[c].class /\ nodes'[c].type = nodes[c].type
      BY <1>5 DEF ChildrenIn, SameShapes
    <3>2. DOMAIN nodes' = DOMAIN nodes BY <1>5 DEF SameShapes
    <3>3. ChildrenIn(w.from, nodes', references') = ChildrenIn(w.from, nodes, references) BY <1>7
    <3>4. default_ns' = default_ns BY <1>1
    <3> HIDE DEF w
    <3> QED BY <3>1, <3>2, <3>3, <3>4 DEF IntactIn
  <2>7. /\ made \subseteq NamesIn(declared \cup required, nodes)
        /\ IntactIn(w, nodes, references, default_ns) => NamesIn(declared \ w.todo, nodes) \subseteq made
        /\ w.op = "finish" => w.todo \subseteq required /\ NamesIn(required \ w.todo, nodes) \subseteq made
    BY <2>1 DEF ProgressIn
  <2> HIDE DEF declared, required, made
  <2>8. /\ NamesIn(declared \cup required, nodes') = NamesIn(declared \cup required, nodes)
        /\ NamesIn(declared \ w.todo, nodes') = NamesIn(declared \ w.todo, nodes)
        /\ NamesIn(required \ w.todo, nodes') = NamesIn(required \ w.todo, nodes)
    <3>1. /\ declared \cup required \in SUBSET DOMAIN nodes
          /\ declared \ w.todo \in SUBSET DOMAIN nodes /\ required \ w.todo \in SUBSET DOMAIN nodes
      BY <2>5
    <3> QED BY <1>12, <3>1
  <2>9. /\ made \subseteq NamesIn(declared \cup required, nodes')
        /\ IntactIn(w, nodes', references', default_ns') => NamesIn(declared \ w.todo, nodes') \subseteq made
        /\ w.op = "finish" => w.todo \subseteq required /\ NamesIn(required \ w.todo, nodes') \subseteq made
    BY <2>6, <2>7, <2>8
  <2> QED BY <2>2, <2>3, <2>4, <2>9 DEF ProgressIn
<1> QED BY <1>8, <1>9, <1>13, <1>14 DEF WalksIn

-----------------------------------------------------------------------------
(* The walks: manifest creates a child *)

\* What manifest asks the library for, as a step of a walk.
LEMMA CreateCopies ==
    ASSUME ServerInv, NEW n, n.kind = "str", n \notin DOMAIN nodes, NEW node, node.class # "type",
           \A k \in DOMAIN walks : walks[k].to # n,
           AddNode(n, Top.to, node) \/ UNCHANGED <<nodes, references>>, default_ns' = default_ns
    PROVE  /\ Copying /\ Created
           /\ n \in DOMAIN nodes' => nodes'[n] = node
<1>1. /\ Adds /\ references \subseteq references' /\ references' \subseteq references \cup {<<Top.to, n>>}
      /\ \A m \in DOMAIN nodes' \ DOMAIN nodes : m = n /\ nodes'[m] = node
      /\ \A r \in references' \ references : r = <<Top.to, n>> /\ nodes'[n] = node
  BY AddKeeps
<1>2. \A r \in references' \ references : r[1] = Top.to /\ r[2].kind # "num" BY <1>1
<1> QED BY <1>1, <1>2 DEF Copying, Created

\* A new node has no children yet.
LEMMA NoChildrenYet ==
    ASSUME ServerInv, NEW n, n \notin DOMAIN nodes, NEW parent, parent # n,
           references' \subseteq references \cup {<<parent, n>>}
    PROVE  ChildrenIn(n, nodes', references') = {}
<1>1. references \subseteq (DOMAIN nodes) \X (DOMAIN nodes) BY InvFacts DEF TypeOK
<1>2. \A m : <<n, m>> \notin references BY <1>1
<1>3. \A m : <<n, m>> # <<parent, n>> OBVIOUS
<1> QED BY <1>2, <1>3 DEF ChildrenIn

\* One more child, one more name.
LEMMA OneMoreName ==
    ASSUME ServerInv, NEW n, n \notin DOMAIN nodes, n.ns <= namespaces, NEW parent \in DOMAIN nodes,
           NEW node, AddNode(n, parent, node)
    PROVE  NamesIn(ChildrenIn(parent, nodes', references'), nodes')
              = NamesIn(ChildrenIn(parent, nodes, references), nodes) \cup {node.name}
<1>1. /\ DOMAIN nodes' = DOMAIN nodes \cup {n} /\ nodes'[n] = node
      /\ \A m \in DOMAIN nodes : nodes'[m] = nodes[m]
      /\ references' = references \cup {<<parent, n>>}
  BY DEF AddNode, Added, Live
<1>2. ChildrenIn(parent, nodes', references') = ChildrenIn(parent, nodes, references) \cup {n}
  <2>1. references \subseteq (DOMAIN nodes) \X (DOMAIN nodes) BY InvFacts DEF TypeOK
  <2>2. <<parent, n>> \notin references BY <2>1
  <2>3. \A c : <<parent, c>> \in references' <=> <<parent, c>> \in references \/ c = n BY <1>1
  <2>4. \A c : <<parent, c>> \in references => c \in DOMAIN nodes BY <2>1
  <2> QED BY <1>1, <2>3, <2>4 DEF ChildrenIn
<1>3. \A c \in ChildrenIn(parent, nodes, references) : nodes'[c].name = nodes[c].name
  BY <1>1 DEF ChildrenIn
<1> DEFINE before == ChildrenIn(parent, nodes, references)
<1>4. nodes'[n].name = node.name BY <1>1
<1> HIDE DEF before
<1>5. NamesIn(before \cup {n}, nodes') = NamesIn(before, nodes) \cup {node.name}
  BY <1>3, <1>4 DEF NamesIn, before
<1> QED BY <1>2, <1>5 DEF before

\* What is manifested is declared in the active namespace, so that is registered.
LEMMA PathNs ==
    ASSUME ServerInv, walks # <<>>, NEW c \in Top.todo, Manifested(c), NEW p, NEW n, n = Path(p)
    PROVE  n.ns <= namespaces
<1>1. NodeInv(c) /\ n.ns = c.ns BY ChildFacts DEF Manifested, Path
<1> QED BY <1>1 DEF NodeInv

\* manifest_iter creates a variable or a method.
LEMMA LeafWalksStep ==
    ASSUME ServerInv, ServerInv', ShapeInv, PathTree, PathWalks(walks, nodes, references),
           WalksIn(walks, nodes, references, default_ns), ManifestLeaf
    PROVE  WalksIn(walks', nodes', references', default_ns')
<1>1. walks # <<>> /\ Top.op = "manifest" /\ default_ns' = default_ns
  BY DEF ManifestLeaf, Walking, server
<1>2. PICK c \in Top.todo :
        LET n == Path(ChildPath(Top.to.path, Text(c))) IN
        /\ Manifested(c) /\ nodes[c].class \in {"variable", "method"}
        /\ AddNode(n, Top.to, [nodes[c] EXCEPT !.rule = "mandatory", !.block = BlockOf(c),
                                               !.copied = (c.kind = "gen")])
        /\ walks' = Done(c)
  BY DEF ManifestLeaf
<1> DEFINE n == Path(ChildPath(Top.to.path, Text(c)))
           node == [nodes[c] EXCEPT !.rule = "mandatory", !.block = BlockOf(c),
                                    !.copied = (c.kind = "gen")]
<1>3. AddNode(n, Top.to, node) BY <1>2
<1>4. node.class = nodes[c].class /\ node.name = nodes[c].name BY <1>1, ChildFacts DEF Node
<1>5. n = Path(ChildPath(Top.to.path, Text(c))) OBVIOUS
<1> HIDE DEF n, node
<1>6. n \notin DOMAIN nodes /\ n.kind = "str" /\ \A k \in DOMAIN walks : walks[k].to # n
  <2>1. /\ n \notin DOMAIN nodes /\ n.kind = "str"
        /\ \A k \in DOMAIN walks : walks[k].to.kind = "str" =>
              Len(Bare(walks[k].to.path)) < Len(Bare(n.path))
        /\ n \in Id /\ WellFormed(n.path)
    BY <1>1, <1>2, <1>3, <1>4, <1>5, ChildAdded
  <2>2. Len(Bare(n.path)) \in Nat BY <2>1, BareFacts DEF Id
  <2> QED BY <2>1, <2>2
<1>7. Copying /\ Created BY <1>1, <1>2, <1>3, <1>4, <1>6, CreateCopies
<1>8. OneDone(c) /\ DOMAIN walks' = 1..Len(walks) BY <1>1, <1>2, StepFrames
<1>9. ASSUME Top.fresh PROVE Advances(walks'[Len(walks)], Top)
  <2>1. /\ Top.to \in DOMAIN nodes /\ ProgressIn(Top, nodes, references, default_ns)
        /\ c \in ChildrenIn(Top.from, nodes, references)
    BY <1>1, <1>9, TopExact
  <2>2. n.ns <= namespaces BY <1>1, <1>2, <1>5, PathNs
  <2>3. MadeIn(Top, nodes', references') = MadeIn(Top, nodes, references) \cup {nodes[c].name}
    BY <1>3, <1>4, <1>6, <2>1, <2>2, OneMoreName DEF MadeIn
  <2>4. c \in MandatoryIn(Top.from, nodes, references) BY <1>2, <2>1 DEF Manifested, MandatoryIn
  <2>5. GetsChild(c) BY <1>1, <2>3, <2>4 DEF GetsChild
  <2> QED BY <1>8, <1>9, <2>1, <2>5, TopAdvances
<1>10. Advanced BY <1>8, <1>9, OneLess
<1> QED BY <1>1, <1>7, <1>8, <1>10, SameLevel

\* manifest_iter creates an object and steps down to it, whether it is there or not.
LEMMA ObjectWalksStep ==
    ASSUME ServerInv, ServerInv', ShapeInv, PathTree, PathWalks(walks, nodes, references),
           WalksIn(walks, nodes, references, default_ns), ManifestObject
    PROVE  WalksIn(walks', nodes', references', default_ns')
<1>1. walks # <<>> /\ Top.op = "manifest" /\ default_ns' = default_ns
  BY DEF ManifestObject, Walking, server
<1>2. PICK c \in Top.todo :
        LET n == Path(ChildPath(Top.to.path, Text(c)))
            typed == Live(nodes[c].type)
        IN  /\ Manifested(c) /\ nodes[c].class = "object"
            /\ IF typed
                 THEN AddNode(n, Top.to, NewObject(nodes[c].name, nodes[c].type))
                 ELSE UNCHANGED <<nodes, references>>
            /\ walks' = Descend(c, Walk("manifest", c, n, Children(c),
                                        typed /\ Added(n, Top.to), Top.live, "mandatory"))
  BY DEF ManifestObject
<1> DEFINE n == Path(ChildPath(Top.to.path, Text(c)))
           node == NewObject(nodes[c].name, nodes[c].type)
           typed == Live(nodes[c].type)
           w == Walk("manifest", c, n, Children(c), typed /\ Added(n, Top.to), Top.live, "mandatory")
           N == Len(walks)
<1>3. /\ IF typed THEN AddNode(n, Top.to, node) ELSE UNCHANGED <<nodes, references>>
      /\ walks' = Descend(c, w)
  BY <1>2
<1>4. node.class = "object" /\ node.name = nodes[c].name /\ node.type = nodes[c].type
  BY DEF NewObject
<1>5. n = Path(ChildPath(Top.to.path, Text(c))) OBVIOUS
<1>6. /\ w.op = "manifest" /\ w.from = c /\ w.to = n /\ w.todo = ChildrenIn(c, nodes, references)
      /\ w.fresh = (typed /\ Added(n, Top.to))
  BY ParameterFacts DEF Walk
<1>7. typed <=> nodes[c].type \in DOMAIN nodes BY DEF Live
<1> HIDE DEF n, node, typed, w
<1>0. n.ns <= namespaces BY <1>1, <1>2, <1>5, PathNs
<1>8. AddNode(n, Top.to, node) \/ UNCHANGED <<nodes, references>> BY <1>3
<1>9. n \notin DOMAIN nodes /\ n.kind = "str" /\ Top.to # n /\ \A k \in DOMAIN walks : walks[k].to # n
  <2>1. /\ n \notin DOMAIN nodes /\ n.kind = "str" /\ Top.to # n
        /\ \A k \in DOMAIN walks : walks[k].to.kind = "str" =>
              Len(Bare(walks[k].to.path)) < Len(Bare(n.path))
        /\ n \in Id /\ WellFormed(n.path)
    BY <1>1, <1>2, <1>4, <1>5, <1>8, ChildAdded
  <2>2. Len(Bare(n.path)) \in Nat BY <2>1, BareFacts DEF Id
  <2> QED BY <2>1, <2>2
<1>10. /\ Copying /\ Created
       /\ n \in DOMAIN nodes' => nodes'[n] = node
  BY <1>1, <1>4, <1>8, <1>9, CreateCopies
<1>11. /\ OneDone(c) /\ N \in Nat \ {0} /\ DOMAIN walks = 1..N
       /\ DOMAIN walks' = 1..(N + 1) /\ walks'[N + 1] = w
  BY <1>1, <1>3, StepFrames
<1>12. /\ \A k \in DOMAIN walks : walks[k].op = "manifest"
       /\ Top.fresh <=> Top.to \in DOMAIN nodes
       /\ c \in ChildrenIn(Top.from, nodes, references) /\ c \in DOMAIN nodes
       /\ \A k \in DOMAIN walks : walks[k].fresh => walks[k].to \in DOMAIN nodes /\ walks[k].from \in DOMAIN nodes
  <2>1. Top.todo \subseteq ChildrenIn(Top.from, nodes, references) BY <1>1, TopExact
  <2> QED BY <1>1, <2>1, TopExact DEF ChildrenIn
<1>13. ASSUME Top.fresh PROVE Advances(walks'[N], Top)
  <2>1. Top.to \in DOMAIN nodes /\ ProgressIn(Top, nodes, references, default_ns)
    BY <1>1, <1>13, TopExact
  <2>2. CASE typed
    <3>1. MadeIn(Top, nodes', references') = MadeIn(Top, nodes, references) \cup {nodes[c].name}
      BY <1>3, <1>4, <1>9, <1>0, <2>1, <2>2, OneMoreName DEF MadeIn
    <3>2. c \in MandatoryIn(Top.from, nodes, references) BY <1>2, <1>12 DEF Manifested, MandatoryIn
    <3>3. GetsChild(c) BY <1>1, <3>1, <3>2 DEF GetsChild
    <3> QED BY <1>11, <1>13, <2>1, <3>3, TopAdvances
  <2>3. CASE ~typed
    <3>1. ~IntactIn(Top, nodes, references, default_ns) BY <1>2, <1>7, <1>12, <2>3 DEF IntactIn
    <3>2. MadeIn(Top, nodes', references') = MadeIn(Top, nodes, references) BY <1>3, <2>3
    <3>3. GetsNothing(c) BY <1>1, <3>1, <3>2 DEF GetsNothing
    <3> QED BY <1>11, <1>13, <2>1, <3>3, TopAdvances
  <2> QED BY <2>2, <2>3
<1>14. Advanced BY <1>11, <1>13, OneLess
<1>15. Declaring(c) /\ \A k \in DOMAIN walks : walks[k].to # c
  <2>1. Declaring(c) /\ c.num # 0 BY <1>1, ChildFacts DEF Declaring
  <2> QED BY <1>12, <2>1, InvFacts DEF GoodWalk
<1>16. LeadsOn(w) BY <1>6, <1>9, <1>12, <1>15 DEF LeadsOn
<1>17. n \in DOMAIN nodes' <=> w.fresh
  BY <1>3, <1>6, <1>9 DEF AddNode, Added
<1>18. \A k \in 1..N : walks'[k].op = "manifest" /\ walks'[k].fresh = walks[k].fresh /\ walks'[k].from = walks[k].from
  <2>1. \A k \in 1..N : k = N \/ k \in 1..(N - 1) BY <1>11, Indices
  <2> QED BY <1>1, <1>11, <1>12, <2>1 DEF OneDone, Top
<1>19. ChildrenIn(c, nodes', references') = ChildrenIn(c, nodes, references)
  <2>1. c # Top.to
    <3>1. Top = walks[N] /\ N \in DOMAIN walks BY <1>11 DEF Top
    <3> QED BY <1>15, <3>1
  <2> QED BY <1>10, <2>1, ChildrenKept
<1>20. ShapeIn(walks', N + 1, nodes', references')
  <2>1. LeadsIn(w, nodes') BY <1>4, <1>6, <1>9, <1>10 DEF LeadsIn
  <2>2. ManifestIn(walks', N + 1, nodes', references')
    <3>1. \A j \in 1..((N + 1) - 1) : j \in 1..N BY <1>11
    <3> QED BY <1>6, <1>11, <1>17, <1>18, <1>19, <3>1 DEF ManifestIn
  <2>3. SharedIn(walks', N + 1, nodes', references')
    <3>1. N + 1 # 1 BY <1>11
    <3> QED BY <1>6, <1>9, <1>11, <3>1 DEF SharedIn
  <2>4. ASSUME w.fresh PROVE FreshIn(walks', N + 1, nodes', references')
    <3>1. nodes[c].type \in DOMAIN nodes /\ Top.fresh BY <1>6, <1>7, <1>12, <2>4 DEF Added, Live
    <3>2. n \in DOMAIN nodes' /\ nodes'[n].class = "object" /\ nodes'[n].type = nodes[c].type
      BY <1>4, <1>10, <1>17, <2>4
    <3>3. nodes[c].type \in DOMAIN nodes' /\ c \in DOMAIN nodes' /\ nodes'[c].class = "object"
      BY <1>2, <1>10, <1>12, <3>1 DEF Copying, Adds
    <3>4. N + 1 # 1 /\ (N + 1) - 1 = N /\ N \in 1..N BY <1>11
    <3>5. walks'[N].fresh /\ <<walks'[N].from, c>> \in references'
      <4>1. <<Top.from, c>> \in references BY <1>12 DEF ChildrenIn
      <4>2. walks'[N].fresh = Top.fresh /\ walks'[N].from = Top.from BY <1>11 DEF OneDone
      <4> QED BY <1>10, <3>1, <4>1, <4>2 DEF Copying
    <3> QED BY <1>6, <1>9, <1>11, <1>15, <3>2, <3>3, <3>4, <3>5 DEF FreshIn
  <2>5. FreshIn(walks', N + 1, nodes', references') BY <1>11, <2>4 DEF FreshIn
  <2> QED BY <1>11, <2>1, <2>2, <2>3, <2>5 DEF ShapeIn
<1>21. ProgressIn(w, nodes', references', default_ns')
  <2>1. references' \subseteq references \cup {<<Top.to, n>>} BY <1>8, AddKeeps
  <2>2. MadeIn(w, nodes', references') = {} BY <1>6, <1>9, <2>1, NoChildrenYet DEF MadeIn, NamesIn
  <2>3. MandatoryIn(w.from, nodes', references') \ w.todo = {} BY <1>6, <1>19 DEF MandatoryIn
  <2>4. NamesIn({}, nodes') = {} BY DEF NamesIn
  <2> QED BY <1>6, <2>2, <2>3, <2>4 DEF ProgressIn
<1> QED BY <1>1, <1>10, <1>11, <1>14, <1>16, <1>20, <1>21, NextLevel

-----------------------------------------------------------------------------
(* The walks: the library's copying *)

\* What a walk of the library leads on to.
LEMMA Merging ==
    ASSUME ServerInv, walks # <<>>, NEW c, NEW w, w.op = "merge", ~w.fresh, w.rule = "none",
           walks' = Descend(c, w), DOMAIN walks' = 1..(Len(walks) + 1), walks'[Len(walks) + 1] = w,
           w.to \in DOMAIN nodes', nodes'[w.to].class # "type",
           w.to.kind = "num" => nodes'[w.to].class \in {"method", "variable"}
    PROVE  /\ ShapeIn(walks', Len(walks) + 1, nodes', references')
           /\ ProgressIn(w, nodes', references', default_ns')
<1>1. Len(walks) + 1 # 1 BY InvFacts, TopFacts
<1>2. LeadsIn(w, nodes') BY DEF LeadsIn
<1>3. ManifestIn(walks', Len(walks) + 1, nodes', references') BY DEF ManifestIn
<1>4. SharedIn(walks', Len(walks) + 1, nodes', references') BY <1>1 DEF SharedIn
<1>5. FreshIn(walks', Len(walks) + 1, nodes', references') BY DEF FreshIn
<1> QED BY <1>2, <1>3, <1>4, <1>5 DEF ShapeIn, ProgressIn

\* The library finds a child of that name.
LEMMA ExistingWalksStep ==
    ASSUME ServerInv, ServerInv', ShapeInv, PathTree, PathWalks(walks, nodes, references),
           WalksIn(walks, nodes, references, default_ns), CopyExisting
    PROVE  WalksIn(walks', nodes', references', default_ns')
<1>1. /\ walks # <<>> /\ Top.op \in {"finish", "merge"} /\ UNCHANGED <<nodes, references, default_ns>>
  BY DEF CopyExisting, Walking, library, server
<1>2. PICK c \in Top.todo, e \in Children(Top.to) :
         /\ nodes[e].name = nodes[c].name
         /\ walks' = IF Inner(c) = {} THEN Done(c) ELSE Descend(c, Merge(c, e, Inner(c), Top.live))
  BY DEF CopyExisting
<1> DEFINE w == Merge(c, e, Inner(c), Top.live)
<1>3. walks' = Done(c) \/ walks' = Descend(c, w) BY <1>2
<1>4. w.op = "merge" /\ ~w.fresh /\ w.to = e /\ w.rule = "none" BY DEF Walk, Merge
<1> HIDE DEF w
<1>5. /\ OneDone(c) /\ Len(walks) \in Nat \ {0} /\ DOMAIN walks = 1..Len(walks)
      /\ walks' = Done(c) => DOMAIN walks' = 1..Len(walks)
      /\ walks' = Descend(c, w) => DOMAIN walks' = 1..(Len(walks) + 1) /\ walks'[Len(walks) + 1] = w
  BY <1>1, <1>3, StepFrames
<1>6. Copying /\ Created BY <1>1, NothingCopied
<1>7. e \in ChildrenIn(Top.to, nodes, references) /\ e \in DOMAIN nodes /\ <<Top.to, e>> \in references
  BY ParameterFacts DEF Children
<1>8. ASSUME Top.fresh PROVE Advances(walks'[Len(walks)], Top)
  <2>1. ProgressIn(Top, nodes, references, default_ns) BY <1>1, TopExact
  <2>2. Top.op = "finish" BY <1>1, <1>8, TopExact
  <2>3. nodes[c].name \in MadeIn(Top, nodes, references) BY <1>2, <1>7 DEF MadeIn, NamesIn
  <2>4. MadeIn(Top, nodes', references') = MadeIn(Top, nodes, references) BY <1>1
  <2>5. GetsNothing(c) BY <2>2, <2>3, <2>4 DEF GetsNothing
  <2> QED BY <1>5, <1>8, <2>1, <2>5, TopAdvances
<1>9. Advanced BY <1>5, <1>8, OneLess
<1>10. CASE walks' = Done(c) BY <1>1, <1>5, <1>6, <1>9, <1>10, SameLevel
<1>11. CASE walks' = Descend(c, w)
  <2>1. Linked(<<Top.to, e>>) BY <1>7 DEF ShapeInv
  <2>2. Top.to \in DOMAIN nodes BY <1>7, InvFacts DEF TypeOK
  <2>3. nodes[Top.to].class # "type" BY <1>1, <2>2, TopExact DEF LeadsIn
  <2>4. nodes[e].class # "type" BY <2>1, <2>3 DEF Linked
  <2>5. ASSUME e.kind = "num" PROVE nodes[e].class \in {"method", "variable"}
    <3> SUFFICES ASSUME nodes[e].class # "method" PROVE nodes[e].class = "variable" OBVIOUS
    <3>1. Top.to.kind = "num" /\ nodes[Top.to].class \in {"type", "object", "method", "standard"}
      BY <2>1, <2>5 DEF Linked
    <3>2. SharedIn(walks, Len(walks), nodes, references) BY <1>5 DEF WalksIn, ShapeIn
    <3>3. Top = walks[Len(walks)] BY DEF Top
    <3>4. CASE Len(walks) = 1 BY <1>7, <2>5, <3>1, <3>2, <3>3, <3>4 DEF SharedIn
    <3>5. CASE Len(walks) # 1
      <4>1. nodes[Top.to].class = "method" BY <3>1, <3>2, <3>3, <3>5 DEF SharedIn
      <4> DEFINE r == <<Top.to, e>>
      <4>2. r \in references /\ nodes[r[1]].class = "method" /\ r[2].kind = "num" BY <1>7, <2>5, <4>1
      <4>3. nodes[r[2]].class \in {"variable", "method"}
        <5> HIDE DEF r
        <5> QED BY <4>2 DEF WalksIn, CallablesIn
      <4> QED BY <4>3
    <3> QED BY <3>4, <3>5
  <2>6. ASSUME NEW k \in DOMAIN walks, walks[k].fresh PROVE e # walks[k].to
    <3>1. walks[k].to.kind # "gen" /\ nodes[walks[k].to].class = "object" BY <1>1, <2>6, TopExact
    <3>2. e.kind \in {"num", "str", "gen"} BY <1>7, InvFacts DEF TypeOK, Id
    <3>3. CASE e.kind = "str"
      <4>1. Above(walks, w) BY <1>1, <1>4, <1>7, ChildAbove
      <4>2. walks[k].to.kind = "str" => Len(Bare(walks[k].to.path)) < Len(Bare(e.path))
        BY <1>4, <3>3, <4>1 DEF Above
      <4>3. e.path \in Seq(Token) /\ WellFormed(e.path) /\ Len(Bare(e.path)) \in Nat
        <5>1. e \in Pathed BY <1>7, <3>3 DEF Pathed
        <5>2. e \in Id /\ WellFormed(e.path) BY <5>1 DEF PathTree, Placed, Pathed, ServerInv, TypeOK
        <5> QED BY <5>2, BareFacts DEF Id
      <4> QED BY <3>3, <4>2, <4>3
    <3>4. CASE e.kind = "num" BY <2>5, <3>1, <3>4
    <3> QED BY <3>1, <3>2, <3>3, <3>4
  <2>7. ASSUME NEW k \in DOMAIN walks, walks[k].fresh PROVE e # walks[k].from
    <3>1. FreshIn(walks, k, nodes, references) BY DEF WalksIn, ShapeIn
    <3>2. CASE k = 1 BY <2>4, <2>7, <3>1, <3>2 DEF FreshIn
    <3>3. CASE k # 1
      <4>1. /\ nodes[walks[k].from].class = "object"
            /\ walks[k - 1].fresh /\ <<walks[k - 1].from, walks[k].from>> \in references
        BY <2>7, <3>1, <3>3 DEF FreshIn
      <4>2. k - 1 \in DOMAIN walks /\ Len(walks) \in DOMAIN walks BY <1>5, <3>3
      <4>3. Top.to # walks[k - 1].from BY <4>1, <4>2 DEF WalksIn, OnwardIn, Top
      <4>4. ASSUME e = walks[k].from PROVE FALSE
        <5> DEFINE r == <<Top.to, e>>
                   s == <<walks[k - 1].from, e>>
        <5>1. r \in references /\ s \in references /\ r[2] = s[2] /\ nodes[r[2]].class # "method"
          BY <1>7, <4>1, <4>4
        <5>2. r = s BY <5>1 DEF ShapeInv
        <5> QED BY <4>3, <5>2
      <4> QED BY <4>4
    <3> QED BY <3>2, <3>3
  <2>8. LeadsOn(w) BY <1>4, <2>6, <2>7 DEF LeadsOn
  <2>9. /\ w.to \in DOMAIN nodes' /\ nodes'[w.to].class # "type"
        /\ w.to.kind = "num" => nodes'[w.to].class \in {"method", "variable"}
    BY <1>1, <1>4, <1>7, <2>4, <2>5
  <2>10. /\ ShapeIn(walks', Len(walks) + 1, nodes', references')
         /\ ProgressIn(w, nodes', references', default_ns')
    BY <1>1, <1>4, <1>5, <1>11, <2>9, Merging
  <2> QED BY <1>1, <1>5, <1>6, <1>9, <1>11, <2>8, <2>10, NextLevel
<1> QED BY <1>3, <1>10, <1>11

\* A shared method is one more name too.
LEMMA OneMoreMethod ==
    ASSUME ServerInv, NEW c \in DOMAIN nodes, NEW parent, UNCHANGED nodes,
           references' = references \cup {<<parent, c>>}
    PROVE  NamesIn(ChildrenIn(parent, nodes', references'), nodes')
              = NamesIn(ChildrenIn(parent, nodes, references), nodes) \cup {nodes[c].name}
<1>1. ChildrenIn(parent, nodes', references') = ChildrenIn(parent, nodes, references) \cup {c}
  <2>1. \A m : <<parent, m>> \in references' <=> <<parent, m>> \in references \/ m = c OBVIOUS
  <2> QED BY <2>1 DEF ChildrenIn
<1> QED BY <1>1 DEF NamesIn

\* The library copies a child, or shares a method.
LEMMA MissingWalksStep ==
    ASSUME ServerInv, ServerInv', ShapeInv, PathTree, PathWalks(walks, nodes, references),
           WalksIn(walks, nodes, references, default_ns), CopyMissing
    PROVE  WalksIn(walks', nodes', references', default_ns')
<1>1. /\ walks # <<>> /\ Top.op \in {"finish", "merge"} /\ default_ns' = default_ns
  BY DEF CopyMissing, Walking, server
<1>2. PICK c \in Top.todo :
        LET qname == nodes[c].name
            g == Generated(Top.to, qname)
        IN  /\ Namesakes(Top.to, qname) = {}
            /\ IF nodes[c].class = "method"
                 THEN /\ references' = references \cup {<<Top.to, c>>}
                      /\ walks' = Done(c)
                      /\ UNCHANGED nodes
                 ELSE /\ AddNode(g, Top.to, [nodes[c] EXCEPT !.block = Nil, !.copied = TRUE])
                      /\ walks' = IF Inner(c) = {} THEN Done(c)
                                  ELSE Descend(c, Merge(c, g, Inner(c), Top.live))
  BY DEF CopyMissing
<1> DEFINE g == Generated(Top.to, nodes[c].name)
           node == [nodes[c] EXCEPT !.block = Nil, !.copied = TRUE]
           w == Merge(c, g, Inner(c), Top.live)
<1>3. /\ c \in DOMAIN nodes /\ Top.to \in Id /\ Top.to \in DOMAIN nodes /\ DeclaredIn(nodes, c)
      /\ NodeInv(Top.to)
  BY <1>1, ChildFacts DEF GoodWalk, ServerInv
<1>4. nodes[c].name \in QName /\ nodes[c].class # "type" BY <1>3 DEF DeclaredIn
<1>5. node.class = nodes[c].class /\ node.name = nodes[c].name BY <1>1, ChildFacts DEF Node
<1>6. w.op = "merge" /\ ~w.fresh /\ w.to = g /\ w.rule = "none" BY DEF Walk, Merge
<1>7. g = Generated(Top.to, nodes[c].name) OBVIOUS
<1>8. /\ Namesakes(Top.to, nodes[c].name) = {}
      /\ nodes[c].class = "method" => references' = references \cup {<<Top.to, c>>} /\ UNCHANGED nodes
      /\ nodes[c].class # "method" => AddNode(g, Top.to, node)
      /\ walks' = Done(c) \/ (walks' = Descend(c, w) /\ nodes[c].class # "method")
  BY <1>2
<1> HIDE DEF g, node, w
<1>9. g.kind = "gen" /\ g \notin DOMAIN nodes /\ g.ns <= namespaces
  <2>1. g.kind = "gen" /\ g.ns = Top.to.ns BY <1>3, <1>4, <1>7, GeneratedFacts
  <2>2. Top.to.ns <= namespaces BY <1>3 DEF NodeInv
  <2> QED BY <1>3, <1>4, <1>7, <1>8, <2>1, <2>2, GeneratedFree
<1>10. /\ OneDone(c) /\ Len(walks) \in Nat \ {0} /\ DOMAIN walks = 1..Len(walks)
       /\ walks' = Done(c) => DOMAIN walks' = 1..Len(walks)
       /\ walks' = Descend(c, w) => DOMAIN walks' = 1..(Len(walks) + 1) /\ walks'[Len(walks) + 1] = w
  BY <1>1, <1>8, StepFrames
<1>11. Copying /\ Created
  <2>1. CASE nodes[c].class = "method"
    <3>1. \A r \in references' \ references : r[1] = Top.to /\ r[2] = c BY <1>8, <2>1
    <3> QED BY <1>1, <1>3, <1>8, <2>1, <3>1 DEF Copying, Created, Adds
  <2>2. CASE nodes[c].class # "method"
    <3>1. AddNode(g, Top.to, node) BY <1>8, <2>2
    <3>2. /\ Adds /\ references \subseteq references'
          /\ \A m \in DOMAIN nodes' \ DOMAIN nodes : m = g /\ nodes'[m] = node
          /\ \A r \in references' \ references : r = <<Top.to, g>>
      BY <3>1, AddKeeps
    <3>3. \A r \in references' \ references : r[1] = Top.to /\ r[2].kind # "num" BY <1>9, <3>2
    <3> QED BY <1>1, <1>4, <1>5, <1>9, <3>2, <3>3 DEF Copying, Created
  <2> QED BY <2>1, <2>2
<1>12. MadeIn(Top, nodes', references') = MadeIn(Top, nodes, references) \cup {nodes[c].name}
  <2>1. CASE nodes[c].class = "method" BY <1>3, <1>8, <2>1, OneMoreMethod DEF MadeIn
  <2>2. CASE nodes[c].class # "method"
    <3>1. AddNode(g, Top.to, node) BY <1>8, <2>2
    <3> QED BY <1>3, <1>5, <1>9, <3>1, OneMoreName DEF MadeIn
  <2> QED BY <2>1, <2>2
<1>13. ASSUME Top.fresh PROVE Advances(walks'[Len(walks)], Top)
  <2>1. ProgressIn(Top, nodes, references, default_ns) BY <1>1, TopExact
  <2>2. Top.op = "finish" BY <1>1, <1>13, TopExact
  <2>3. c \in RequiredIn(nodes[Top.to].type, nodes, references) BY <1>13, <2>1, <2>2 DEF ProgressIn
  <2>4. GetsChild(c) BY <1>12, <2>2, <2>3 DEF GetsChild
  <2> QED BY <1>10, <1>13, <2>1, <2>4, TopAdvances
<1>14. Advanced BY <1>10, <1>13, OneLess
<1>15. CASE walks' = Done(c) BY <1>1, <1>10, <1>11, <1>14, <1>15, SameLevel
<1>16. CASE walks' = Descend(c, w) /\ nodes[c].class # "method"
  <2>1. AddNode(g, Top.to, node) BY <1>8, <1>16
  <2>2. g \in DOMAIN nodes' /\ nodes'[g].class # "type"
    BY <1>3, <1>4, <1>5, <1>9, <2>1 DEF AddNode, Added, Live
  <2>3. \A k \in DOMAIN walks : walks[k].fresh => walks[k].to \in DOMAIN nodes /\ walks[k].from \in DOMAIN nodes
    BY <1>1, TopExact
  <2>4. LeadsOn(w) BY <1>6, <1>9, <2>3 DEF LeadsOn
  <2>5. /\ ShapeIn(walks', Len(walks) + 1, nodes', references')
        /\ ProgressIn(w, nodes', references', default_ns')
    BY <1>1, <1>6, <1>9, <1>10, <1>16, <2>2, Merging
  <2> QED BY <1>1, <1>10, <1>11, <1>14, <1>16, <2>4, <2>5, NextLevel
<1> QED BY <1>8, <1>15, <1>16

-----------------------------------------------------------------------------
(* The first walk, and the theorems *)

\* No walk, and nothing to say but what hangs on methods.
LEMMA NoWalks ==
    ASSUME walks' = <<>>, CallablesIn(nodes', references')
    PROVE  WalksIn(walks', nodes', references', default_ns')
<1>1. DOMAIN walks' = {} OBVIOUS
<1> QED BY <1>1 DEF WalksIn, OnwardIn

\* Variables and methods have numbers that the counter has given out.
LEMMA CallableNumbers ==
    ASSUME ServerInv
    PROVE  /\ \A n \in DOMAIN nodes \cap StdIds : nodes[n].class # "method"
           /\ references \subseteq (DOMAIN nodes) \X (DOMAIN nodes)
<1>1. \A n \in DOMAIN nodes : n.kind = "num" /\ nodes[n].class = "method" => n.num < nodecounter
  BY DEF ServerInv, NodeInv, Callable
<1>2. nodecounter \in 1..(MaxNum + 1) /\ MaxNum \in Nat BY InvFacts
<1>3. \A n \in StdIds : n.kind = "num" /\ ~(n.num < nodecounter)
  BY <1>2 DEF StdIds, Objects, BaseType, FolderType, NumericIn
<1> QED BY <1>1, <1>3, InvFacts DEF TypeOK

\* A node is added under a method only if it is a variable or a method.
LEMMA CallablesAdded ==
    ASSUME ServerInv, CallablesIn(nodes, references), NEW n, NEW parent, NEW node,
           AddNode(n, parent, node) \/ UNCHANGED <<nodes, references>>,
           Added(n, parent) /\ nodes[parent].class = "method" /\ n.kind = "num"
              => node.class \in {"variable", "method"}
    PROVE  CallablesIn(nodes', references')
<1>1. references \subseteq (DOMAIN nodes) \X (DOMAIN nodes) BY CallableNumbers
<1>2. CASE ~Added(n, parent) \/ UNCHANGED <<nodes, references>> BY <1>2 DEF AddNode
<1>3. CASE Added(n, parent) /\ AddNode(n, parent, node)
  <2>1. /\ nodes'[n] = node /\ nodes'[parent] = nodes[parent]
        /\ \A m \in DOMAIN nodes : nodes'[m] = nodes[m]
        /\ references' = references \cup {<<parent, n>>}
    BY <1>3 DEF AddNode, Added, Live
  <2>2. ASSUME NEW r \in references', nodes'[r[1]].class = "method", r[2].kind = "num"
        PROVE  nodes'[r[2]].class \in {"variable", "method"}
    <3>1. CASE r \in references
      <4>1. nodes'[r[1]] = nodes[r[1]] /\ nodes'[r[2]] = nodes[r[2]] BY <1>1, <2>1, <3>1
      <4> QED BY <2>2, <3>1, <4>1 DEF CallablesIn
    <3>2. CASE r = <<parent, n>>
      <4>1. r[1] = parent /\ r[2] = n BY <3>2
      <4> QED BY <1>3, <2>1, <2>2, <4>1
    <3> QED BY <2>1, <3>1, <3>2
  <2> QED BY <2>2 DEF CallablesIn
<1> QED BY <1>2, <1>3

\* What Ruby code calls only lowers proper.
LEMMA ProperCall == ASSUME Call, proper' PROVE proper
BY DEF Call, AddNamespace, ActiveNamespace, AddObjectType, AddReference, AddReferenceType, AddVariable,
       AddMethod, AddDeclaration, AddObject, Manifest, Delete, history

\* What Ruby code calls puts nothing else under methods either.
LEMMA CallablesCall ==
    ASSUME ServerInv, ShapeInv, CallablesIn(nodes, references), Call, proper'
    PROVE  CallablesIn(nodes', references')
<1>1. CASE \/ AddNamespace \/ \E k \in Active : ActiveNamespace(k)
           \/ \E self \in Owners : AddReference(self)
  <2>1. UNCHANGED <<nodes, references>> BY <1>1 DEF AddNamespace, ActiveNamespace, AddReference, library
  <2> QED BY <2>1
<1>2. ASSUME NEW super \in Types(known), AddObjectType(super) PROVE CallablesIn(nodes', references')
  <2> DEFINE n == Numeric(nodecounter)
             node == [StdNode("type") EXCEPT !.type = super]
  <2>1. IF IsType(super) THEN AddNode(n, super, node) ELSE UNCHANGED <<nodes, references>>
    BY <1>2 DEF AddObjectType
  <2> HIDE DEF n, node
  <2>2. CASE IsType(super)
    <3>1. nodes[super].class # "method" BY <2>2 DEF IsType
    <3> QED BY <2>1, <2>2, <3>1, CallablesAdded
  <2>3. CASE ~IsType(super) BY <2>1, <2>3
  <2> QED BY <2>2, <2>3
<1>3. ASSUME NEW top \in StdIds, NEW accepted, AddReferenceType(top, accepted)
      PROVE  CallablesIn(nodes', references')
  <2> DEFINE n == Numeric(nodecounter)
             node == StdNode("reference")
  <2>1. AddNode(n, top, node) \/ UNCHANGED <<nodes, references>> BY <1>3 DEF AddReferenceType
  <2>2. Added(n, top) => nodes[top].class # "method" BY CallableNumbers DEF Added, Live
  <2> HIDE DEF n, node
  <2> QED BY <2>1, <2>2, CallablesAdded
<1>4. ASSUME NEW parent, NEW class \in {"variable", "method"}, NEW name, NEW b,
             AddDeclaration(parent, class, name, b)
      PROVE  CallablesIn(nodes', references')
  <2> DEFINE n == Numeric(nodecounter)
             node == [class |-> class, name |-> Qualified(name), type |-> Nil, rule |-> "mandatory",
                      block |-> b, meant |-> b, copied |-> FALSE]
  <2>1. AddNode(n, parent, node) /\ node.class = class BY <1>4 DEF AddDeclaration
  <2> HIDE DEF n, node
  <2> QED BY <2>1, CallablesAdded
<1>5. ASSUME NEW parent, NEW name, NEW t, NEW arg, AddObject(parent, name, t, arg)
      PROVE  CallablesIn(nodes', references')
  <2> DEFINE n == Numeric(nodecounter)
             node == NewObject(Qualified(name), t)
  <2>1. /\ AddNode(n, parent, node) \/ UNCHANGED <<nodes, references>>
        /\ Live(parent) => nodes[parent].class # "method"
    BY <1>5 DEF AddObject
  <2>2. Added(n, parent) => nodes[parent].class # "method" BY <2>1 DEF Added
  <2> HIDE DEF n, node
  <2> QED BY <2>1, <2>2, CallablesAdded
<1>6. ASSUME NEW parent, NEW name, NEW t, NEW live, Manifest(parent, name, t, live)
      PROVE  CallablesIn(nodes', references')
  <2> DEFINE n == Path(ObjectPath(parent, name))
             node == NewObject(Qualified(name), t)
  <2>1. AddNode(n, parent, node) \/ UNCHANGED <<nodes, references>> BY <1>6 DEF Manifest
  <2>2. n.kind = "str" BY DEF Path
  <2> HIDE DEF n, node
  <2> QED BY <2>1, <2>2, CallablesAdded
<1>7. ASSUME NEW n, Delete(n) PROVE CallablesIn(nodes', references')
  <2> DEFINE gone == Below(n)
  <2>1. /\ nodes' = [m \in DOMAIN nodes \ gone |-> nodes[m]]
        /\ references' = {r \in references : r[1] \notin gone /\ r[2] \notin gone}
    BY <1>7 DEF Delete
  <2> HIDE DEF gone
  <2>2. references \subseteq (DOMAIN nodes) \X (DOMAIN nodes) BY CallableNumbers
  <2>3. \A r \in references' : r \in references /\ nodes'[r[1]] = nodes[r[1]] /\ nodes'[r[2]] = nodes[r[2]]
    BY <2>1, <2>2
  <2> QED BY <2>3 DEF CallablesIn
<1> QED BY <1>1, <1>2, <1>3, <1>4, <1>5, <1>6, <1>7 DEF Call, AddVariable, AddMethod

\* The first walk.
LEMMA FirstLevel ==
    ASSUME ServerInv', CallablesIn(nodes', references'), NEW w, walks' = <<w>>,
           w.fresh => w.to # w.from /\ Declaring(w.from),
           LeadsIn(w, nodes'), w.to.kind # "num" \/ ChildrenIn(w.to, nodes', references') = {},
           w.op = "manifest" =>
              (w.fresh <=> w.to \in DOMAIN nodes') /\ w.todo \subseteq ChildrenIn(w.from, nodes', references'),
           w.fresh => /\ w.op \in {"manifest", "finish"} /\ w.to.kind # "gen"
                      /\ w.to \in DOMAIN nodes' /\ w.from \in DOMAIN nodes' /\ nodes'[w.to].class = "object"
                      /\ nodes'[w.from].class = "type" /\ nodes'[w.to].type = w.from,
           ProgressIn(w, nodes', references', default_ns')
    PROVE  WalksIn(walks', nodes', references', default_ns')
<1>1. DOMAIN walks' = {1} /\ walks'[1] = w
  <2>1. walks' \in Seq(Frame) BY DEF ServerInv, TypeOK
  <2>2. w \in Frame BY <2>1
  <2> QED BY <2>2, SingleFacts
<1>2. ManifestIn(walks', 1, nodes', references') BY <1>1 DEF ManifestIn
<1>3. SharedIn(walks', 1, nodes', references') BY <1>1 DEF SharedIn
<1>4. FreshIn(walks', 1, nodes', references') BY <1>1 DEF FreshIn
<1>5. OnwardIn(walks') BY <1>1 DEF OnwardIn
<1> QED BY <1>1, <1>2, <1>3, <1>4, <1>5 DEF WalksIn, ShapeIn

\* add_object: the library finishes the declared object.
LEMMA AddObjectWalksStep ==
    ASSUME ServerInv, ServerInv', ShapeInv, CallablesIn(nodes', references'), NEW parent \in Owners,
           NEW t \in Types(known), NEW name, NEW arg, AddObject(parent, name, t, arg)
    PROVE  WalksIn(walks', nodes', references', default_ns')
<1> DEFINE n == Numeric(nodecounter)
           object == NewObject(Qualified(name), t)
           w == Walk("finish", t, n, Required(t), TRUE, TRUE, RuleOf(arg))
<1>1. /\ walks = <<>> /\ nodecounter <= MaxNum
      /\ IF IsType(t)
           THEN /\ AddNode(n, parent, object)
                /\ walks' = IF Added(n, parent) THEN <<w>> ELSE <<>>
           ELSE walks' = walks
  BY DEF AddObject, InRuby, Take
<1>2. object.class = "object" /\ object.type = t /\ object.rule = "none" BY DEF NewObject
<1>3. w.op = "finish" /\ w.from = t /\ w.to = n /\ w.todo = RequiredIn(t, nodes, references) /\ w.fresh
  BY ParameterFacts DEF Walk
<1>4. n = Numeric(nodecounter) OBVIOUS
<1> HIDE DEF n, object, w
<1>5. CASE walks' = <<>> BY <1>5, NoWalks
<1>6. CASE IsType(t) /\ Added(n, parent) /\ walks' = <<w>>
  <2>1. /\ DOMAIN nodes' = DOMAIN nodes \cup {n} /\ nodes'[n] = object
        /\ \A m \in DOMAIN nodes : nodes'[m] = nodes[m]
        /\ references' = references \cup {<<parent, n>>}
        /\ n \notin DOMAIN nodes /\ parent \in DOMAIN nodes
    BY <1>1, <1>6 DEF AddNode, Added, Live
  <2>2. n.kind = "num" /\ \A m \in DOMAIN nodes : nodes[m].type # n BY <1>1, <1>4, <2>1, CounterFree
  <2>3. t \in DOMAIN nodes /\ nodes[t].class = "type" /\ t # n /\ Declaring(t)
    <3>1. Declaring(t) BY OwnerFacts
    <3> QED BY <1>6, <2>1, <3>1 DEF IsType, Live
  <2>4. ChildrenIn(n, nodes', references') = {}
    <3>1. parent # n /\ references' \subseteq references \cup {<<parent, n>>} BY <2>1
    <3> QED BY <2>1, <3>1, NoChildrenYet
  <2>5. HierarchyIn(nodes', t) = HierarchyIn(nodes, t)
    <3>1. TypesKept BY <2>1 DEF TypesKept
    <3>2. \A m \in DOMAIN nodes' \ DOMAIN nodes : m = n BY <2>1
    <3> QED BY <2>2, <2>3, <3>1, <3>2, HierarchyKept
  <2>6. ASSUME NEW s PROVE MandatoryIn(s, nodes', references') = MandatoryIn(s, nodes, references)
    <3>1. references \subseteq (DOMAIN nodes) \X (DOMAIN nodes) BY InvFacts DEF TypeOK
    <3>2. ASSUME NEW m \in DOMAIN nodes PROVE <<s, m>> \in references' <=> <<s, m>> \in references
      <4>1. <<s, m>> # <<parent, n>> BY <2>1
      <4> QED BY <2>1, <4>1
    <3>3. \A m \in DOMAIN nodes' : nodes'[m].rule = "mandatory" => m \in DOMAIN nodes BY <1>2, <2>1
    <3> QED BY <2>1, <3>2, <3>3 DEF ChildrenIn, MandatoryIn
  <2>7. RequiredIn(t, nodes', references') = w.todo BY <1>3, <2>5, <2>6 DEF RequiredIn
  <2>8. MandatoryIn(t, nodes', references') \subseteq w.todo
    <3>1. t \in HierarchyIn(nodes', t) BY <2>1, <2>3, HierarchyTop
    <3> QED BY <2>7, <3>1 DEF RequiredIn
  <2>9. ProgressIn(w, nodes', references', default_ns')
    <3>1. MadeIn(w, nodes', references') = {} BY <1>3, <2>4 DEF MadeIn, NamesIn
    <3>2. MandatoryIn(w.from, nodes', references') \ w.todo = {} BY <1>3, <2>8
    <3>3. RequiredIn(nodes'[w.to].type, nodes', references') = w.todo BY <1>2, <1>3, <2>1, <2>7
    <3>4. w.todo \ w.todo = {} /\ NamesIn({}, nodes') = {} BY DEF NamesIn
    <3> QED BY <3>1, <3>2, <3>3, <3>4 DEF ProgressIn
  <2>10. LeadsIn(w, nodes') BY <1>2, <1>3, <2>1 DEF LeadsIn
  <2> QED BY <1>2, <1>3, <1>6, <2>1, <2>2, <2>3, <2>4, <2>9, <2>10, FirstLevel
<1> QED BY <1>1, <1>5, <1>6

\* manifest: the walk of the type begins.
LEMMA ManifestWalksStep ==
    ASSUME ServerInv, ServerInv', ShapeInv, CallablesIn(nodes', references'), NoClash', proper',
           NEW parent \in Instances, NEW name, NEW live, NEW t \in Types(known) \cup Types(dead),
           Manifest(parent, name, t, live)
    PROVE  WalksIn(walks', nodes', references', default_ns')
<1> DEFINE n == Path(ObjectPath(parent, name))
           object == NewObject(Qualified(name), t)
           w == Walk("manifest", t, n, Children(t), IsType(t) /\ Added(n, parent), live, "mandatory")
<1>1. /\ IF IsType(t) THEN AddNode(n, parent, object) ELSE UNCHANGED <<nodes, references>>
      /\ walks' = <<w>>
      /\ n \notin DOMAIN nodes /\ parent \in DOMAIN nodes
  BY DEF Manifest, NoClash, Live
<1>2. object.class = "object" /\ object.type = t BY DEF NewObject
<1>3. /\ w.op = "manifest" /\ w.from = t /\ w.to = n /\ w.todo = ChildrenIn(t, nodes, references)
      /\ w.fresh = (IsType(t) /\ Added(n, parent))
  BY ParameterFacts DEF Walk
<1>4. n.kind = "str" BY DEF Path
<1> HIDE DEF n, object, w
<1>5. t.kind = "num" /\ Declaring(t) /\ ~Declaring(parent) BY OwnerFacts, HandleFacts
<1>6. /\ Adds /\ references \subseteq references' /\ references' \subseteq references \cup {<<parent, n>>}
      /\ \A m \in DOMAIN nodes' \ DOMAIN nodes : m = n /\ nodes'[m] = object
      /\ \A r \in references' \ references : r = <<parent, n>>
  BY <1>1, AddKeeps
<1>7. w.fresh <=> n \in DOMAIN nodes' BY <1>1, <1>3 DEF AddNode, Added
<1>8. ChildrenIn(n, nodes', references') = {}
  <2>1. parent # n BY <1>1
  <2> QED BY <1>1, <1>6, <2>1, NoChildrenYet
<1>9. ChildrenIn(t, nodes', references') = ChildrenIn(t, nodes, references)
  <2>1. references \subseteq (DOMAIN nodes) \X (DOMAIN nodes) BY InvFacts DEF TypeOK
  <2>2. \A m : <<t, m>> \in references' <=> <<t, m>> \in references BY <1>5, <1>6
  <2>3. \A m : <<t, m>> \in references => m \in DOMAIN nodes BY <2>1
  <2> QED BY <1>6, <2>2, <2>3 DEF ChildrenIn, Adds
<1>10. ProgressIn(w, nodes', references', default_ns')
  <2>1. MadeIn(w, nodes', references') = {} BY <1>3, <1>8 DEF MadeIn, NamesIn
  <2>2. MandatoryIn(w.from, nodes', references') \ w.todo = {} BY <1>3, <1>9 DEF MandatoryIn
  <2>3. NamesIn({}, nodes') = {} BY DEF NamesIn
  <2> QED BY <1>3, <2>1, <2>2, <2>3 DEF ProgressIn
<1>11. LeadsIn(w, nodes') BY <1>1, <1>2, <1>3, <1>4, <1>6 DEF LeadsIn
<1>12. w.todo \subseteq ChildrenIn(w.from, nodes', references') BY <1>3, <1>9
<1>13. ASSUME w.fresh
       PROVE  /\ w.to \in DOMAIN nodes' /\ w.from \in DOMAIN nodes' /\ nodes'[w.to].class = "object"
              /\ nodes'[w.from].class = "type" /\ nodes'[w.to].type = w.from
  <2>1. n \in DOMAIN nodes' /\ nodes'[n] = object BY <1>1, <1>6, <1>7, <1>13
  <2>2. t \in DOMAIN nodes /\ nodes[t].class = "type" BY <1>3, <1>13 DEF IsType, Live
  <2> QED BY <1>2, <1>3, <1>6, <2>1, <2>2 DEF Adds
<1>14. w.to # w.from /\ w.to.kind = "str" /\ Declaring(w.from)
  <2>1. n # t BY <1>4, <1>5
  <2> QED BY <1>3, <1>4, <1>5, <2>1
<1> QED BY <1>1, <1>3, <1>7, <1>10, <1>11, <1>12, <1>13, <1>14, FirstLevel

\* While Ruby code runs there is no walk; manifest and add_object start one.
LEMMA CallWalks ==
    ASSUME InRuby, Call,
           ~ \E parent \in Owners, t \in Types(known), name \in Name, arg \in Argument :
                 AddObject(parent, name, t, arg),
           ~ \E live \in BOOLEAN : \E t \in Types(IF live THEN known ELSE dead) :
                 \E parent \in Instances, name \in Name : Manifest(parent, name, t, live)
    PROVE  walks' = <<>>
BY DEF Call, AddNamespace, ActiveNamespace, AddObjectType, AddReference, AddReferenceType, AddVariable, AddMethod,
       AddDeclaration, Delete, InRuby

\* Every step keeps what is known of the walks.
LEMMA WalksStepIn ==
    ASSUME ServerInv, ServerInv', PathInv, PathInv', ExactInv, [Next]_vars, proper'
    PROVE  WalksIn(walks', nodes', references', default_ns')
<1>1. ShapeInv /\ (proper => WalksIn(walks, nodes, references, default_ns)) BY ExactInvFacts
<1>2. NoClash' /\ (proper => PathTree /\ PathWalks(walks, nodes, references))
  <2>1. NoClash' BY DEF PathInv
  <2> QED BY <2>1, PathInvFacts
<1>3. CASE InRuby /\ Call
  <2>1. CallablesIn(nodes', references')
    <3>1. CallablesIn(nodes, references) BY <1>1, <1>3, ProperCall DEF WalksIn
    <3> QED BY <1>1, <1>3, <3>1, CallablesCall
  <2>2. CASE \E parent \in Owners, t \in Types(known), name \in Name, arg \in Argument :
               AddObject(parent, name, t, arg)
    BY <1>1, <2>1, <2>2, AddObjectWalksStep
  <2>3. CASE \E live \in BOOLEAN : \E t \in Types(IF live THEN known ELSE dead) :
               \E parent \in Instances, name \in Name : Manifest(parent, name, t, live)
    BY <1>1, <1>2, <2>1, <2>3, ManifestWalksStep
  <2>4. CASE walks' = <<>> BY <2>1, <2>4, NoWalks
  <2> QED BY <1>3, <2>2, <2>3, <2>4, CallWalks
<1>4. CASE ManifestSkip \/ ManifestLeaf \/ ManifestObject \/ ManifestFinish \/ CopyExisting \/ CopyMissing \/ WalkReturn
  <2>1. proper
    BY <1>4
       DEF ManifestSkip, ManifestLeaf, ManifestObject, ManifestFinish, CopyExisting, CopyMissing, WalkReturn, history
  <2> QED BY <1>1, <1>2, <1>4, <2>1, SkipWalksStep, LeafWalksStep, ObjectWalksStep, FinishWalksStep,
             ExistingWalksStep, MissingWalksStep, ReturnWalksStep
<1>5. CASE UNCHANGED vars
  <2>1. nodes' = nodes /\ references' = references /\ walks' = walks /\ default_ns' = default_ns /\ proper' = proper
    BY <1>5 DEF vars, library, server, history
  <2>2. WalksIn(walks, nodes, references, default_ns) BY <1>1, <2>1
  <2> QED BY <2>1, <2>2, Zenon
<1> QED BY <1>3, <1>4, <1>5 DEF Next

\* At the start there are the standard nodes, and no walk.
LEMMA InitExact == Init => ExactInv
<1> SUFFICES ASSUME Init PROVE ExactInv OBVIOUS
<1>1. /\ DOMAIN nodes = Preset /\ references = {} /\ walks = <<>> /\ dead = {}
      /\ known = {HandleOn(Objects, "object"), HandleOn(BaseType, "type"), HandleOn(FolderType, "type")}
  BY DEF Init
<1>2. PICK types \in SUBSET (Preset \ StdIds) :
          nodes = [n \in Preset |->
                     StdNode(CASE n = Objects                             -> "object"
                               [] n \in {BaseType, FolderType} \cup types -> "type"
                               [] OTHER                                   -> "standard")]
  BY DEF Init
<1>3. BaseType # Objects /\ FolderType # Objects /\ Objects \notin types
      /\ StdIds = {Objects, BaseType, FolderType} /\ StdIds \subseteq Preset
  BY ServerAssumption DEF StdIds, Preset, Objects, BaseType, FolderType, NumericIn
<1>4. \A n \in Preset : \E class \in {"object", "type", "standard"} :
         /\ nodes[n] = StdNode(class)
         /\ n = Objects => class = "object"
         /\ n \in {BaseType, FolderType} => class = "type"
         /\ n \notin StdIds => class \in {"type", "standard"}
  <2> SUFFICES ASSUME NEW n \in Preset
               PROVE  \E class \in {"object", "type", "standard"} :
                         /\ nodes[n] = StdNode(class)
                         /\ n = Objects => class = "object"
                         /\ n \in {BaseType, FolderType} => class = "type"
                         /\ n \notin StdIds => class \in {"type", "standard"}
    OBVIOUS
  <2>1. CASE n = Objects
    <3>1. n \notin {BaseType, FolderType} \cup types BY <1>3, <2>1
    <3>2. nodes[n] = StdNode("object") BY <1>2, <2>1, <3>1
    <3> QED BY <1>3, <2>1, <3>2
  <2>2. CASE n # Objects /\ n \in {BaseType, FolderType} \cup types
    <3>1. nodes[n] = StdNode("type") BY <1>2, <2>2
    <3> QED BY <2>2, <3>1
  <2>3. CASE n # Objects /\ n \notin {BaseType, FolderType} \cup types
    <3>1. nodes[n] = StdNode("standard") BY <1>2, <2>3
    <3> QED BY <2>3, <3>1
  <2> QED BY <2>1, <2>2, <2>3
<1>5. \A n \in Preset : n.kind = "num" /\ n.path = <<>> /\ n.copies = <<>>
  BY DEF Preset, StdIds, Objects, BaseType, FolderType, NumericIn
<1>6. ASSUME NEW n \in DOMAIN nodes PROVE Shaped(n)
  <2>1. nodes[n].type = Nil BY <1>1, <1>4 DEF StdNode
  <2> QED BY <1>1, <1>5, <2>1 DEF Shaped
<1>7. ASSUME NEW h \in known \cup dead, Live(h.id) PROVE nodes[h.id].class = h.class
  <2>1. \A n \in StdIds : nodes[n].class = IF n = Objects THEN "object" ELSE "type"
    BY <1>3, <1>4 DEF StdNode
  <2> QED BY <1>1, <1>3, <2>1 DEF HandleOn
<1>8. \A n \in Preset \ StdIds : Live(n) /\ nodes[n].class \in {"type", "standard"}
  BY <1>1, <1>4 DEF Live, StdNode
<1>9. ShapeInv BY <1>1, <1>6, <1>7, <1>8 DEF ShapeInv
<1>10. DOMAIN walks = {} BY <1>1
<1> QED BY <1>1, <1>9, <1>10 DEF ExactInv, Onward

\* Every step keeps the invariant.
LEMMA ExactInvStep == ServerInv /\ PathInv /\ ExactInv /\ [Next]_vars => ExactInv'
<1> SUFFICES ASSUME ServerInv, PathInv, ExactInv, [Next]_vars PROVE ExactInv' OBVIOUS
<1>1. ServerInv' /\ PathInv' BY ServerInvStep, PathInvStep
<1>2. ShapeInv /\ Grounded BY ExactInvFacts
<1>3. ShapeInv' /\ Grounded' BY <1>1, <1>2, ShapeStep
<1>4. proper' => WalksIn(walks', nodes', references', default_ns') BY <1>1, WalksStepIn
<1> QED BY <1>3, <1>4, ExactStep

-----------------------------------------------------------------------------
(* The theorems *)

\* What the ids tell, where walks lead, and how far each has got, whatever is declared, copied,
\* shared or deleted in between.
THEOREM ExactInvariant == Spec => []ExactInv
<1>1. Init => ServerInv /\ PathInv /\ ExactInv BY InitInv, InitPath, InitExact
<1>2. ServerInv /\ PathInv /\ ExactInv /\ [Next]_vars => (ServerInv /\ PathInv /\ ExactInv)'
  BY ServerInvStep, PathInvStep, ExactInvStep
<1> QED BY <1>1, <1>2, PTL DEF Spec

\* A walk that is done has got everything.
LEMMA ExactFollows == ServerInv /\ ExactInv => Exact
<1> SUFFICES ASSUME ServerInv, ExactInv,
                    proper /\ Walking("finish") /\ Top.todo = {} /\ Top.fresh,
                    nodes[Top.from].class = "type" \/ Intact(Top)
             PROVE  NamesOf(Children(Top.to)) = NamesOf(Mandatory(Top.from) \cup Required(nodes[Top.to].type))
  BY DEF Exact
<1>1. walks # <<>> /\ Top.op = "finish" BY DEF Walking
<1>2. Len(walks) \in DOMAIN walks /\ Top = walks[Len(walks)] BY <1>1, InvFacts, TopFacts
<1>3. WalkShape(Len(walks)) /\ Progress(Top) BY <1>2 DEF ExactInv
<1> DEFINE declared == Mandatory(Top.from)
           required == Required(nodes[Top.to].type)
           made     == NamesOf(Children(Top.to))
<1>4. /\ made \subseteq NamesOf(declared \cup required)
      /\ Intact(Top) => NamesOf(declared \ Top.todo) \subseteq made
      /\ NamesOf(required \ Top.todo) \subseteq made
  BY <1>1, <1>3 DEF Progress
<1>5. nodes[Top.from].class = "type" => declared \subseteq required
  <2> SUFFICES ASSUME nodes[Top.from].class = "type" PROVE declared \subseteq required OBVIOUS
  <2>1. Live(Top.from) /\ nodes[Top.to].type = Top.from BY <1>2, <1>3 DEF WalkShape
  <2>2. Top.from \in Hierarchy(Top.from) BY <2>1, HierarchyTop, HierarchyFacts DEF Live
  <2> QED BY <2>1, <2>2 DEF Required
<1> HIDE DEF declared, required, made
<1>6. NamesOf(required) \subseteq made
  <2>1. required \ Top.todo = required OBVIOUS
  <2> QED BY <1>4, <2>1
<1>7. NamesOf(declared) \subseteq made
  <2>1. declared \ Top.todo = declared OBVIOUS
  <2> QED BY <1>4, <1>5, <1>6, <2>1 DEF NamesOf
<1>8. NamesOf(declared \cup required) \subseteq made BY <1>6, <1>7 DEF NamesOf
<1> QED BY <1>4, <1>8 DEF declared, required, made

\* Once the library is done with a new object, its children have the names that what it is made
\* from declares and its type requires: manifest and the library's copying leave none out and
\* add no other, where what it is made from is a type or intact.
THEOREM ExactlyTheDeclared == Spec => []Exact
<1>1. ServerInv /\ ExactInv => Exact BY ExactFollows
<1> QED BY <1>1, ServerInvariant, ExactInvariant, PTL
=============================================================================
