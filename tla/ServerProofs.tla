---------------------------- MODULE ServerProofs ----------------------------
(***************************************************************************)
(* Theorems about Server, for every value of its constants.                *)
(***************************************************************************)
EXTENDS ServerInvariants, TLAPS

-----------------------------------------------------------------------------
(* Ids and nodes *)

\* The ids that the code and the library make up are ids.
LEMMA IdFacts ==
    ASSUME TypeOK
    PROVE  /\ nodecounter <= MaxNum => Numeric(nodecounter) \in Id
           /\ \A p \in Seq(Token) : Path(p) \in Id
           /\ \A to \in Id, qname \in QName : Generated(to, qname) \in Id
<1> USE ServerAssumption
<1>0. default_ns \in 0..MaxNs BY DEF TypeOK
<1>1. ASSUME nodecounter <= MaxNum PROVE Numeric(nodecounter) \in Id
  <2>1. nodecounter \in 0..MaxNum + 3 BY <1>1 DEF TypeOK
  <2>2. <<>> \in Seq(Token) /\ <<>> \in Seq(QName) OBVIOUS
  <2> QED BY <1>0, <2>1, <2>2 DEF Numeric, NumericIn, Id
<1>2. ASSUME NEW p \in Seq(Token) PROVE Path(p) \in Id
  <2>1. 0 \in 0..MaxNum + 3 OBVIOUS
  <2>2. <<>> \in Seq(QName) OBVIOUS
  <2> QED BY <1>0, <1>2, <2>1, <2>2 DEF Path, Id
<1>3. ASSUME NEW to \in Id, NEW qname \in QName PROVE Generated(to, qname) \in Id
  <2>1. Append(to.copies, qname) \in Seq(QName) BY DEF Id
  <2> QED BY <2>1 DEF Generated, Id
<1> QED BY <1>1, <1>2, <1>3

\* Paths of manifested objects and of what is created in them.
LEMMA PathFacts ==
    /\ \A p \in Seq(Token), name \in Name : ChildPath(p, name) \in Seq(Token)
    /\ \A parent \in Id, name \in Name : ObjectPath(parent, name) \in Seq(Token)
<1>1. ASSUME NEW p \in Seq(Token), NEW name \in Name PROVE ChildPath(p, name) \in Seq(Token)
  <2>1. <<"/", name>> \in Seq(Token) /\ <<>> \in Seq(Token) /\ <<"/">> \in Seq(Token) BY DEF Token
  <2>2. p \o <<"/", name>> \in Seq(Token) BY <2>1
  <2>3. (IF p[1] = "/" THEN <<>> ELSE <<"/">>) \in Seq(Token) BY <2>1
  <2> QED BY <2>1, <2>2, <2>3 DEF ChildPath
<1>2. ASSUME NEW parent \in Id, NEW name \in Name PROVE ObjectPath(parent, name) \in Seq(Token)
  <2>1. <<name>> \in Seq(Token) /\ <<>> \in Seq(Token) BY DEF Token
  <2>2. Append(parent.path, "/") \in Seq(Token) BY DEF Id, Token
  <2> QED BY <2>1, <2>2 DEF ObjectPath
<1> QED BY <1>1, <1>2

\* The text of a browse name.
LEMMA TextFacts == \A c : nodes[c].name \in QName => Text(c) \in Name
BY DEF Text, QName

\* What the library does when it is asked for a node.
LEMMA AddNodeFacts ==
    ASSUME TypeOK, NEW n \in Id, NEW parent \in Id, NEW node \in Node,
           AddNode(n, parent, node)
    PROVE  /\ DOMAIN nodes' \subseteq Id /\ \A m \in DOMAIN nodes' : nodes'[m] \in Node
           /\ references' \subseteq (DOMAIN nodes') \X (DOMAIN nodes')
           /\ DOMAIN nodes \subseteq DOMAIN nodes' /\ \A m \in DOMAIN nodes : nodes'[m] = nodes[m]
           /\ \A m \in DOMAIN nodes' \ DOMAIN nodes : m = n /\ nodes'[m] = node /\ m.ns <= namespaces
           /\ \A pair \in references' \ references : pair = <<parent, n>>
BY DEF AddNode, Added, Live, TypeOK

-----------------------------------------------------------------------------
(* Walks *)

\* Declared and WalkInv, with the store of nodes as a parameter.
DeclaredIn(store, n) == store[n].name \in QName /\ store[n].class # "type"
GoodWalk(w, store) ==
    /\ w.todo \subseteq DOMAIN store /\ \A c \in w.todo : Declaring(c)
    /\ w.op = "manifest" => w.to.num = 0
    /\ w.rule # "none" => w.to.kind = "str" \/ (w.to \in DOMAIN store /\ DeclaredIn(store, w.to))
    /\ w.op # "manifest" => \A c \in w.todo : DeclaredIn(store, c) /\ w.to \in DOMAIN store

\* Nodes are added, and of those there are no more than a modelling rule changes.
Grows ==
    /\ DOMAIN nodes \subseteq DOMAIN nodes'
    /\ \A m \in DOMAIN nodes :
          \/ nodes'[m] = nodes[m]
          \/ Declared(m) /\ \E r \in Rule : nodes'[m] = [nodes[m] EXCEPT !.rule = r]

\* A walk stays good when nodes are added.
LEMMA GrowthKeepsWalks ==
    ASSUME TypeOK, Grows, NEW w, GoodWalk(w, nodes)
    PROVE  GoodWalk(w, nodes')
<1>1. \A m \in DOMAIN nodes : m \in DOMAIN nodes' /\ nodes'[m].name = nodes[m].name
                               /\ nodes'[m].class = nodes[m].class
  BY DEF Grows, TypeOK, Node
<1> QED BY <1>1 DEF GoodWalk, DeclaredIn

\* The walk on top is one of the walks.
LEMMA TopFacts ==
    ASSUME walks \in Seq(Frame), walks # <<>>
    PROVE  /\ Len(walks) \in Nat \ {0} /\ DOMAIN walks = 1..Len(walks)
           /\ Len(walks) \in DOMAIN walks /\ Top \in Frame /\ Top = walks[Len(walks)]
BY DEF Top

\* Done takes one child from the walk on top.
LEMMA DoneFacts ==
    ASSUME walks \in Seq(Frame), walks # <<>>, NEW c
    PROVE  /\ Done(c) \in Seq(Frame) /\ Len(Done(c)) = Len(walks)
           /\ \A k \in 1..Len(walks) : k # Len(walks) => Done(c)[k] = walks[k]
           /\ Done(c)[Len(walks)] = [Top EXCEPT !.todo = @ \ {c}]
<1>1. [Top EXCEPT !.todo = @ \ {c}] \in Frame BY TopFacts DEF Frame
<1>2. Done(c) = [walks EXCEPT ![Len(walks)] = [Top EXCEPT !.todo = @ \ {c}]] BY DEF Done, Top
<1> QED BY <1>1, <1>2, TopFacts

\* The first walk.
LEMMA SingleFacts ==
    ASSUME NEW w \in Frame
    PROVE  <<w>> \in Seq(Frame) /\ DOMAIN <<w>> = {1} /\ <<w>>[1] = w
OBVIOUS

\* One walk more.
LEMMA AppendFacts ==
    ASSUME NEW s \in Seq(Frame), NEW w \in Frame
    PROVE  /\ Append(s, w) \in Seq(Frame) /\ DOMAIN Append(s, w) = 1..(Len(s) + 1)
           /\ \A k \in 1..Len(s) : Append(s, w)[k] = s[k]
           /\ Append(s, w)[Len(s) + 1] = w
OBVIOUS

\* One walk less.
LEMMA FrontFacts ==
    ASSUME NEW s \in Seq(Frame), Len(s) \in Nat \ {0}
    PROVE  /\ SubSeq(s, 1, Len(s) - 1) \in Seq(Frame)
           /\ DOMAIN SubSeq(s, 1, Len(s) - 1) = 1..(Len(s) - 1)
           /\ \A k \in 1..(Len(s) - 1) : SubSeq(s, 1, Len(s) - 1)[k] = s[k]
OBVIOUS

\* What the code does to the walks leaves good walks, if the new one is good.
LEMMA WalksStep ==
    ASSUME TypeOK, walks \in Seq(Frame), \A k \in DOMAIN walks : GoodWalk(walks[k], nodes), Grows,
           NEW w \in Frame, GoodWalk(w, nodes'), NEW c,
           \/ walks' = <<w>>
           \/ walks # <<>> /\ walks' = Done(c)
           \/ walks # <<>> /\ walks' = Descend(c, w)
           \/ walks # <<>> /\ walks' = SubSeq(walks, 1, Len(walks) - 1)
           \/ walks' = walks
    PROVE  walks' \in Seq(Frame) /\ \A k \in DOMAIN walks' : GoodWalk(walks'[k], nodes')
<1>0. \A k \in DOMAIN walks : GoodWalk(walks[k], nodes') BY GrowthKeepsWalks
<1>1. CASE walks' = <<w>> BY <1>1
<1>2. ASSUME walks # <<>>
      PROVE /\ Done(c) \in Seq(Frame) /\ DOMAIN Done(c) = 1..Len(walks) /\ Len(walks) \in Nat
            /\ Len(Done(c)) = Len(walks)
            /\ \A k \in 1..Len(walks) : GoodWalk(Done(c)[k], nodes')
  <2>1. Top \in Frame /\ Len(walks) \in DOMAIN walks /\ Top = walks[Len(walks)]
        /\ Len(walks) \in Nat /\ DOMAIN walks = 1..Len(walks)
    BY <1>2, TopFacts
  <2>2. GoodWalk([Top EXCEPT !.todo = @ \ {c}], nodes')
    <3>1. GoodWalk(Top, nodes') BY <1>0, <2>1
    <3> QED BY <2>1, <3>1 DEF GoodWalk, Frame
  <2>3. /\ Done(c) \in Seq(Frame) /\ Len(Done(c)) = Len(walks)
        /\ \A k \in 1..Len(walks) : k # Len(walks) => Done(c)[k] = walks[k]
        /\ Done(c)[Len(walks)] = [Top EXCEPT !.todo = @ \ {c}]
    BY <1>2, DoneFacts
  <2> QED BY <1>0, <2>1, <2>2, <2>3
<1>3. CASE walks # <<>> /\ walks' = Done(c) BY <1>2, <1>3
<1>4. CASE walks # <<>> /\ walks' = Descend(c, w)
  <2>1. walks' = Append(Done(c), w) BY <1>4 DEF Descend
  <2>2. Done(c) \in Seq(Frame) /\ Len(Done(c)) = Len(walks) /\ Len(walks) \in Nat BY <1>2, <1>4
  <2>3. /\ walks' \in Seq(Frame) /\ DOMAIN walks' = 1..(Len(walks) + 1)
        /\ \A k \in 1..Len(walks) : walks'[k] = Done(c)[k]
        /\ walks'[Len(walks) + 1] = w
    BY <2>1, <2>2, AppendFacts
  <2>4. \A k \in 1..Len(walks) : GoodWalk(walks'[k], nodes') BY <1>2, <1>4, <2>3
  <2>5. \A k \in 1..(Len(walks) + 1) : k \in 1..Len(walks) \/ k = Len(walks) + 1 BY <2>2
  <2> QED BY <2>3, <2>4, <2>5
<1>5. CASE walks # <<>> /\ walks' = SubSeq(walks, 1, Len(walks) - 1)
  <2>1. walks # <<>> BY <1>5
  <2>2. Len(walks) \in Nat \ {0} /\ DOMAIN walks = 1..Len(walks) BY <2>1, TopFacts
  <2>3. /\ walks' \in Seq(Frame) /\ DOMAIN walks' = 1..(Len(walks) - 1)
        /\ \A k \in 1..(Len(walks) - 1) : walks'[k] = walks[k]
    BY <1>5, <2>2, FrontFacts
  <2> QED BY <1>0, <2>2, <2>3
<1>6. CASE walks' = walks BY <1>0, <1>6
<1> QED BY <1>1, <1>3, <1>4, <1>5, <1>6

-----------------------------------------------------------------------------
(* Steps *)

\* What a step that only adds to the store has to show.
LEMMA GrowingStep ==
    ASSUME ServerInv, TypeOK', Grows, nodecounter' >= nodecounter,
           namespaces' \in {namespaces, namespaces + 1},
           \A k \in 1..(nodecounter - 1) : methods'[k] = methods[k],
           \A m \in (DOMAIN nodes') \ DOMAIN nodes : NodeInv(m)',
           \A pair \in references' \ references : Declaring(pair[1]) => Declaring(pair[2]),
           \A h \in (known' \cup dead') \ (known \cup dead) : HandleInv(h)',
           \A k \in DOMAIN walks' : GoodWalk(walks'[k], nodes')
    PROVE  ServerInv'
<1>0. TypeOK /\ nodecounter \in Nat /\ nodecounter' \in Nat BY DEF ServerInv, TypeOK
<1>1. ASSUME NEW m \in DOMAIN nodes PROVE NodeInv(m)'
  <2>1. NodeInv(m) /\ m \in Id /\ nodes[m] \in Node BY <1>0, <1>1 DEF ServerInv, TypeOK
  <2>2. m.num \in Nat BY <2>1, ServerAssumption DEF Id
  <2>3. WellNumbered(m)' BY <1>0, <2>1, <2>2 DEF NodeInv, WellNumbered, Preset, StdIds, Objects,
                                                 BaseType, FolderType, NumericIn
  <2>4. Callable(m) /\ m.kind = "num" =>
          m.num < nodecounter' /\ methods'[m.num] = methods[m.num]
    BY <1>0, <2>1, <2>2 DEF NodeInv, WellNumbered
  <2>5. /\ nodes'[m].class = nodes[m].class /\ nodes'[m].name = nodes[m].name
        /\ nodes'[m].block = nodes[m].block /\ nodes'[m].meant = nodes[m].meant
        /\ nodes'[m].copied = nodes[m].copied
        /\ nodes'[m].rule = nodes[m].rule \/ Declared(m)
    BY <1>1, <2>1 DEF Grows, Node
  <2>6. Declared(m) => Declared(m)' BY <2>5 DEF Declared, QName
  <2>7. Callable(m)' = Callable(m) BY <2>5 DEF Callable
  <2>8. m.ns <= namespaces'
    <3>1. m.ns \in Nat /\ namespaces \in Nat /\ namespaces' \in Nat
      BY <1>0, <2>1, ServerAssumption DEF Id, TypeOK
    <3> QED BY <2>1, <3>1 DEF NodeInv
  <2> QED BY <2>1, <2>3, <2>4, <2>5, <2>6, <2>7, <2>8 DEF NodeInv, Declaring, Objects, NumericIn
<1>2. ASSUME NEW h \in known \cup dead PROVE HandleInv(h)'
  <2>1. HandleInv(h) /\ h.id \in Id BY <1>0, <1>2 DEF ServerInv, TypeOK, Handle
  <2>2. h.id.num \in Nat BY <2>1, ServerAssumption DEF Id
  <2> QED BY <1>0, <2>1, <2>2 DEF HandleInv, WellNumbered, Declaring, Preset, StdIds, Objects,
                                 BaseType, FolderType, NumericIn
<1>3. \A k \in DOMAIN walks' : WalkInv(walks[k])'
  BY DEF WalkInv, GoodWalk, Declared, DeclaredIn, QName, Live, Declaring, Objects, NumericIn
<1>4. \A pair \in references' : Declaring(pair[1])' => Declaring(pair[2])'
  BY DEF ServerInv, Declaring, Objects, NumericIn
<1> QED BY <1>1, <1>2, <1>3, <1>4 DEF ServerInv

\* The facts about the constants, the counters and the walks that most steps need.
LEMMA InvFacts ==
    ASSUME ServerInv
    PROVE  /\ TypeOK /\ walks \in Seq(Frame) /\ \A k \in DOMAIN walks : GoodWalk(walks[k], nodes)
           /\ nodecounter \in 1..(MaxNum + 1) /\ default_ns \in 0..MaxNs /\ MaxNum \in Nat
           /\ walks # <<>> => Top \in Frame /\ GoodWalk(Top, nodes)
<1>1. TypeOK /\ walks \in Seq(Frame) BY DEF ServerInv, TypeOK
<1>2. \A k \in DOMAIN walks : GoodWalk(walks[k], nodes)
  BY DEF ServerInv, WalkInv, GoodWalk, Declared, DeclaredIn, Live
<1>3. nodecounter \in 1..(MaxNum + 1) /\ default_ns \in 0..MaxNs /\ MaxNum \in Nat
  BY <1>1, ServerAssumption DEF TypeOK
<1> QED BY <1>1, <1>2, <1>3, TopFacts

\* Declarations hold declarations.
LEMMA ChildrenFacts ==
    ASSUME ServerInv, NEW n
    PROVE  /\ Children(n) \subseteq DOMAIN nodes /\ Mandatory(n) \subseteq Children(n)
           /\ Declaring(n) => \A c \in Children(n) : Declaring(c)
           /\ \A c \in Mandatory(n) : nodes[c].rule = "mandatory" /\ DeclaredIn(nodes, c)
<1>1. \A c \in Children(n) : c \in DOMAIN nodes /\ <<n, c>> \in references BY DEF Children
<1>2. ASSUME Declaring(n), NEW c \in Children(n) PROVE Declaring(c)
  BY <1>1, <1>2 DEF ServerInv
<1>3. \A c \in Mandatory(n) : nodes[c].rule = "mandatory" /\ DeclaredIn(nodes, c)
  BY <1>1 DEF Mandatory, ServerInv, NodeInv, Declared, DeclaredIn
<1> QED BY <1>1, <1>2, <1>3 DEF Mandatory

\* What a type requires is declared, and mandatory.
LEMMA RequiredFacts ==
    ASSUME ServerInv, NEW t
    PROVE  /\ Required(t) \subseteq DOMAIN nodes
           /\ \A c \in Required(t) : Declaring(c) /\ nodes[c].rule = "mandatory" /\ DeclaredIn(nodes, c)
<1>1. \A s \in Hierarchy(t) : s \in DOMAIN nodes /\ nodes[s].class = "type" BY DEF Hierarchy
<1>2. \A s \in Hierarchy(t) : Declaring(s) BY <1>1 DEF ServerInv, NodeInv
<1>3. ASSUME NEW c \in Required(t) PROVE c \in DOMAIN nodes /\ Declaring(c) /\ nodes[c].rule = "mandatory"
                                         /\ DeclaredIn(nodes, c)
  <2>1. PICK s \in Hierarchy(t) : c \in Mandatory(s) BY <1>3 DEF Required
  <2> QED BY <1>2, <2>1, ChildrenFacts
<1> QED BY <1>3

\* A numeric id is taken: it is a declaration's, and below the counter from now on.
LEMMA TakeFacts ==
    ASSUME ServerInv, NEW class \in Class, Take(class)
    PROVE  /\ Numeric(nodecounter) \in Id /\ Declaring(Numeric(nodecounter))
           /\ Numeric(nodecounter).kind = "num" /\ Numeric(nodecounter).num = nodecounter
           /\ Numeric(nodecounter) \notin StdIds
           /\ \A m : m = Numeric(nodecounter) => WellNumbered(m)'
           /\ nodecounter \in 1..MaxNum /\ nodecounter' = nodecounter + 1
           /\ known' \subseteq Handle /\ \A h \in known' \ known : HandleInv(h)'
<1> DEFINE n == Numeric(nodecounter)
<1>1. /\ TypeOK /\ nodecounter \in 1..MaxNum /\ nodecounter' = nodecounter + 1
      /\ default_ns \in 0..MaxNs /\ MaxNum \in Nat
      /\ known' = known \cup {[id |-> n, class |-> class]}
  BY InvFacts, ServerAssumption DEF Take, HandleOn
<1>2. n \in Id BY <1>1, IdFacts
<1>3. n.kind = "num" /\ n.num = nodecounter /\ n.ns = default_ns BY DEF Numeric, NumericIn
<1>4. n.num # 0 /\ n \notin StdIds
  BY <1>1, <1>3 DEF StdIds, Objects, BaseType, FolderType, NumericIn
<1>5. ASSUME NEW m, m = n PROVE WellNumbered(m)'
  <2>1. m.kind = "num" /\ m.num = nodecounter BY <1>3, <1>5
  <2> QED BY <1>1, <2>1 DEF WellNumbered
<1>6. ASSUME NEW h \in known' \ known PROVE HandleInv(h)'
  <2>1. h.id = n BY <1>1, <1>6
  <2>2. WellNumbered(h.id)' BY <1>5, <2>1
  <2>3. Declaring(h.id) BY <1>4, <2>1 DEF Declaring, StdIds
  <2>4. h.id.num < nodecounter' BY <1>1, <1>3, <2>1
  <2> QED BY <2>2, <2>3, <2>4 DEF HandleInv, Declaring, Objects, NumericIn
<1>7. known' \subseteq Handle BY <1>1, <1>2 DEF TypeOK, Handle
<1> QED BY <1>1, <1>2, <1>3, <1>4, <1>5, <1>6, <1>7 DEF Declaring, StdIds

\* A handle's id is an id; of an owner, a type and an instance.
LEMMA HandleFacts ==
    ASSUME ServerInv
    PROVE  /\ \A p \in Owners : p \in Id
           /\ \A t \in Types(known) \cup Types(dead) : t \in Id /\ Declaring(t)
           /\ \A p \in Instances : p \in Id /\ ~Declaring(p)
<1>1. known \subseteq Handle /\ dead \subseteq Handle BY DEF ServerInv, TypeOK
<1>2. \A t \in Types(known) \cup Types(dead) : t \in Id /\ Declaring(t)
  BY <1>1 DEF Types, TypeHandles, Handle, ServerInv, HandleInv, WellNumbered, Declaring
<1>3. \A p \in Owners : p \in Id BY <1>2 DEF Owners
<1>4. \A p \in Instances : p \in Id /\ ~Declaring(p)
  BY <1>1 DEF Instances, Handle, Declaring
<1> QED BY <1>2, <1>3, <1>4

\* The steps that touch neither the store nor the walks.
LEMMA NamespaceStep ==
    ASSUME ServerInv, AddNamespace \/ \E k \in Active : ActiveNamespace(k)
    PROVE  ServerInv'
<1> USE DEF library, server, ruby, history
<1>1. TypeOK /\ TypeOK'
  BY ServerAssumption DEF ServerInv, TypeOK, AddNamespace, ActiveNamespace
<1>2. /\ UNCHANGED <<nodes, references, methods, nodecounter, walks, known, dead>>
  BY DEF AddNamespace, ActiveNamespace
<1>3. Grows BY <1>2 DEF Grows
<1>4. \A k \in DOMAIN walks' : GoodWalk(walks'[k], nodes') BY <1>2, InvFacts
<1>5. nodecounter' >= nodecounter /\ namespaces' \in {namespaces, namespaces + 1}
  BY <1>1, <1>2, InvFacts DEF AddNamespace, ActiveNamespace, TypeOK
<1> QED BY <1>1, <1>2, <1>3, <1>4, <1>5, GrowingStep

\* add_object_type
LEMMA AddObjectTypeStep ==
    ASSUME ServerInv, NEW super \in Types(known), AddObjectType(super)
    PROVE  ServerInv'
<1> DEFINE n == Numeric(nodecounter)
           node == [StdNode("type") EXCEPT !.type = super]
<1> USE DEF library, server, ruby, history
<1>0. /\ Take("type")
      /\ AddNode(n, super, node) \/ UNCHANGED <<nodes, references>>
      /\ UNCHANGED <<namespaces, default_ns, methods, walks, dead, history>>
  BY DEF AddObjectType
<1>1. super \in Id BY HandleFacts
<1>2. node \in Node /\ node.class = "type" /\ node.rule = "none"
  BY <1>1 DEF StdNode, Node, Class, Rule
<1>3. /\ n \in Id /\ Declaring(n) /\ nodecounter \in 1..MaxNum /\ nodecounter' = nodecounter + 1
      /\ n.kind = "num"
      /\ known' \subseteq Handle /\ \A h \in known' \ known : HandleInv(h)'
      /\ \A m : m = n => WellNumbered(m)'
  BY <1>0, TakeFacts DEF Class
<1>4. /\ DOMAIN nodes' \subseteq Id /\ \A m \in DOMAIN nodes' : nodes'[m] \in Node
      /\ references' \subseteq (DOMAIN nodes') \X (DOMAIN nodes')
      /\ DOMAIN nodes \subseteq DOMAIN nodes' /\ \A m \in DOMAIN nodes : nodes'[m] = nodes[m]
      /\ \A m \in DOMAIN nodes' \ DOMAIN nodes : m = n /\ nodes'[m] = node /\ m.ns <= namespaces
      /\ \A pair \in references' \ references : pair = <<super, n>>
  <2>1. CASE AddNode(n, super, node) BY <2>1, <1>1, <1>2, <1>3, AddNodeFacts, InvFacts
  <2>2. CASE UNCHANGED <<nodes, references>> BY <2>2, InvFacts DEF TypeOK
  <2> QED BY <1>0, <2>1, <2>2
<1>5. TypeOK' BY <1>0, <1>3, <1>4, InvFacts DEF TypeOK
<1>6. Grows BY <1>4 DEF Grows
<1>7. ASSUME NEW m \in DOMAIN nodes' \ DOMAIN nodes PROVE NodeInv(m)'
  <2>1. m = n /\ nodes'[m].class = "type" /\ nodes'[m].rule = "none" BY <1>2, <1>4, <1>7
  <2>2. WellNumbered(m)' /\ Declaring(m) /\ m.kind = "num" BY <1>3, <2>1
  <2>3. m.ns <= namespaces' BY <1>0, <1>4, <1>7
  <2> QED BY <2>1, <2>2, <2>3 DEF NodeInv, Callable, Declaring, Objects, NumericIn
<1>8. \A pair \in references' \ references : Declaring(pair[2]) BY <1>3, <1>4
<1>9. \A k \in DOMAIN walks' : GoodWalk(walks'[k], nodes')
  BY <1>0, <1>6, InvFacts, GrowthKeepsWalks
<1> QED BY <1>0, <1>3, <1>5, <1>6, <1>7, <1>8, <1>9, GrowingStep

\* add_reference_type
LEMMA AddReferenceTypeStep ==
    ASSUME ServerInv, NEW top \in StdIds, NEW accepted \in BOOLEAN, AddReferenceType(top, accepted)
    PROVE  ServerInv'
<1> DEFINE n == Numeric(nodecounter)
           node == StdNode("reference")
<1> USE DEF library, server, ruby, history
<1>0. /\ Take("reference")
      /\ AddNode(n, top, node) \/ UNCHANGED <<nodes, references>>
      /\ UNCHANGED <<namespaces, default_ns, methods, walks, dead, history>>
  BY DEF AddReferenceType
<1>1. top \in Types(known) BY DEF AddReferenceType
<1>2. top \in Id BY <1>1, HandleFacts
<1>3. node \in Node /\ node.class = "reference" /\ node.rule = "none"
  BY DEF StdNode, Node, Class, Rule
<1>4. /\ n \in Id /\ Declaring(n) /\ nodecounter \in 1..MaxNum /\ nodecounter' = nodecounter + 1
      /\ n.kind = "num"
      /\ known' \subseteq Handle /\ \A h \in known' \ known : HandleInv(h)'
      /\ \A m : m = n => WellNumbered(m)'
  BY <1>0, TakeFacts DEF Class
<1>5. /\ DOMAIN nodes' \subseteq Id /\ \A m \in DOMAIN nodes' : nodes'[m] \in Node
      /\ references' \subseteq (DOMAIN nodes') \X (DOMAIN nodes')
      /\ DOMAIN nodes \subseteq DOMAIN nodes' /\ \A m \in DOMAIN nodes : nodes'[m] = nodes[m]
      /\ \A m \in DOMAIN nodes' \ DOMAIN nodes : m = n /\ nodes'[m] = node /\ m.ns <= namespaces
      /\ \A pair \in references' \ references : pair = <<top, n>>
  <2>1. CASE AddNode(n, top, node) BY <2>1, <1>2, <1>3, <1>4, AddNodeFacts, InvFacts
  <2>2. CASE UNCHANGED <<nodes, references>> BY <2>2, InvFacts DEF TypeOK
  <2> QED BY <1>0, <2>1, <2>2
<1>6. TypeOK' BY <1>0, <1>4, <1>5, InvFacts DEF TypeOK
<1>7. Grows BY <1>5 DEF Grows
<1>8. ASSUME NEW m \in DOMAIN nodes' \ DOMAIN nodes PROVE NodeInv(m)'
  <2>1. m = n /\ nodes'[m].class = "reference" /\ nodes'[m].rule = "none" BY <1>3, <1>5, <1>8
  <2>2. WellNumbered(m)' /\ Declaring(m) /\ m.kind = "num" BY <1>4, <2>1
  <2>3. m.ns <= namespaces' BY <1>0, <1>5, <1>8
  <2> QED BY <2>1, <2>2, <2>3 DEF NodeInv, Callable, Declaring, Objects, NumericIn
<1>9. \A pair \in references' \ references : Declaring(pair[2]) BY <1>4, <1>5
<1>10. \A k \in DOMAIN walks' : GoodWalk(walks'[k], nodes')
  BY <1>0, <1>7, InvFacts, GrowthKeepsWalks
<1> QED BY <1>0, <1>4, <1>6, <1>7, <1>8, <1>9, <1>10, GrowingStep

\* add_reference
LEMMA AddReferenceStep ==
    ASSUME ServerInv, NEW self, AddReference(self)
    PROVE  ServerInv'
<1> USE DEF library, server, ruby, history
<1>0. /\ Take("reference")
      /\ UNCHANGED <<nodes, references, namespaces, default_ns, methods, walks, dead, history>>
  BY DEF AddReference
<1>1. /\ nodecounter \in 1..MaxNum /\ nodecounter' = nodecounter + 1
      /\ known' \subseteq Handle /\ \A h \in known' \ known : HandleInv(h)'
  BY <1>0, TakeFacts DEF Class
<1>2. TypeOK' BY <1>0, <1>1, InvFacts DEF TypeOK
<1>3. Grows BY <1>0 DEF Grows
<1>4. \A k \in DOMAIN walks' : GoodWalk(walks'[k], nodes') BY <1>0, InvFacts
<1> QED BY <1>0, <1>1, <1>2, <1>3, <1>4, GrowingStep

\* A browse name in the active namespace.
LEMMA QualifiedFacts ==
    ASSUME TypeOK, NEW name \in Name
    PROVE  Qualified(name) \in QName
BY ServerAssumption DEF Qualified, QName, TypeOK

\* An object as it is added.
LEMMA ObjectFacts ==
    ASSUME NEW qname \in QName, NEW t \in Id
    PROVE  /\ NewObject(qname, t) \in Node /\ NewObject(qname, t).class = "object"
           /\ NewObject(qname, t).name = qname /\ NewObject(qname, t).rule = "none"
           /\ NewObject(qname, t).type = t
BY DEF NewObject, Node, Class, Rule

\* add_variable, add_variable_rw, add_method
LEMMA AddDeclarationStep ==
    ASSUME ServerInv, NEW parent \in Owners, NEW class \in {"variable", "method"},
           NEW name \in Name, NEW b \in Block \cup {Nil},
           AddDeclaration(parent, class, name, b)
    PROVE  ServerInv'
<1> DEFINE n == Numeric(nodecounter)
           node == [class |-> class, name |-> Qualified(name), type |-> Nil, rule |-> "mandatory",
                    block |-> b, meant |-> b, copied |-> FALSE]
<1> USE DEF library, server, ruby, history
<1>0. /\ Take(class) /\ AddNode(n, parent, node)
      /\ methods' = [methods EXCEPT ![nodecounter] = b]
      /\ proper' \in BOOLEAN
      /\ UNCHANGED <<namespaces, default_ns, walks, dead, manifests, clash>>
  BY DEF AddDeclaration
<1>1. parent \in Id BY HandleFacts
<1>2. node \in Node /\ node.name \in QName
  <2>1. Qualified(name) \in QName BY QualifiedFacts, InvFacts
  <2> QED BY <2>1 DEF Node, Class, Rule
<1>3. /\ n \in Id /\ Declaring(n) /\ nodecounter \in 1..MaxNum /\ nodecounter' = nodecounter + 1
      /\ n.kind = "num" /\ n.num = nodecounter
      /\ known' \subseteq Handle /\ \A h \in known' \ known : HandleInv(h)'
      /\ \A m : m = n => WellNumbered(m)'
  BY <1>0, TakeFacts DEF Class
<1>4. /\ DOMAIN nodes' \subseteq Id /\ \A m \in DOMAIN nodes' : nodes'[m] \in Node
      /\ references' \subseteq (DOMAIN nodes') \X (DOMAIN nodes')
      /\ DOMAIN nodes \subseteq DOMAIN nodes' /\ \A m \in DOMAIN nodes : nodes'[m] = nodes[m]
      /\ \A m \in DOMAIN nodes' \ DOMAIN nodes : m = n /\ nodes'[m] = node /\ m.ns <= namespaces
      /\ \A pair \in references' \ references : pair = <<parent, n>>
  BY <1>0, <1>1, <1>2, <1>3, AddNodeFacts, InvFacts
<1>5. /\ methods \in [1..MaxNum -> Block \cup {Nil}] /\ methods' \in [1..MaxNum -> Block \cup {Nil}]
      /\ methods'[nodecounter] = b
      /\ \A k \in 1..(nodecounter - 1) : methods'[k] = methods[k]
  BY <1>0, <1>3, InvFacts DEF TypeOK
<1>6. TypeOK' BY <1>0, <1>3, <1>4, <1>5, InvFacts DEF TypeOK
<1>7. Grows BY <1>4 DEF Grows
<1>8. ASSUME NEW m \in DOMAIN nodes' \ DOMAIN nodes PROVE NodeInv(m)'
  <2>1. m = n /\ nodes'[m] = node BY <1>4, <1>8
  <2>2. WellNumbered(m)' /\ m.kind = "num" /\ m.num = nodecounter BY <1>3, <2>1
  <2>3. /\ nodes'[m].class # "type" /\ nodes'[m].name \in QName /\ nodes'[m].meant = b
    BY <1>2, <2>1
  <2>4. m.ns <= namespaces' BY <1>0, <1>4, <1>8
  <2> QED BY <1>3, <1>5, <2>2, <2>3, <2>4 DEF NodeInv, Declared, QName
<1>9. \A pair \in references' \ references : Declaring(pair[2]) BY <1>3, <1>4
<1>10. \A k \in DOMAIN walks' : GoodWalk(walks'[k], nodes')
  BY <1>0, <1>7, InvFacts, GrowthKeepsWalks
<1> QED BY <1>0, <1>3, <1>5, <1>6, <1>7, <1>8, <1>9, <1>10, GrowingStep

\* add_object, and what the library is to copy
LEMMA AddObjectStep ==
    ASSUME ServerInv, NEW parent \in Owners, NEW t \in Types(known), NEW name \in Name,
           NEW arg \in Argument, AddObject(parent, name, t, arg)
    PROVE  ServerInv'
<1> DEFINE n == Numeric(nodecounter)
           node == NewObject(Qualified(name), t)
           walk == Walk("finish", t, n, Required(t), TRUE, TRUE, RuleOf(arg))
<1> USE DEF library, server, ruby, history
<1>0. /\ Take("object") /\ walks = <<>>
      /\ \/ AddNode(n, parent, node) /\ Added(n, parent) /\ walks' = <<walk>>
         \/ AddNode(n, parent, node) /\ walks' = walks
         \/ UNCHANGED <<nodes, references, walks>>
      /\ proper' \in BOOLEAN
      /\ UNCHANGED <<namespaces, default_ns, methods, dead, manifests, clash>>
  BY DEF AddObject, InRuby
<1>1. parent \in Id /\ t \in Id BY HandleFacts
<1>2. node \in Node /\ node.class = "object" /\ node.name \in QName /\ node.rule = "none"
  BY <1>1, ObjectFacts, QualifiedFacts, InvFacts
<1>2a. RuleOf(arg) \in Rule BY DEF RuleOf, Argument, Rule
<1> HIDE DEF node
<1>3. /\ n \in Id /\ Declaring(n) /\ nodecounter \in 1..MaxNum /\ nodecounter' = nodecounter + 1
      /\ known' \subseteq Handle /\ \A h \in known' \ known : HandleInv(h)'
      /\ \A m : m = n => WellNumbered(m)'
  BY <1>0, TakeFacts DEF Class
<1>4. /\ DOMAIN nodes' \subseteq Id /\ \A m \in DOMAIN nodes' : nodes'[m] \in Node
      /\ references' \subseteq (DOMAIN nodes') \X (DOMAIN nodes')
      /\ DOMAIN nodes \subseteq DOMAIN nodes' /\ \A m \in DOMAIN nodes : nodes'[m] = nodes[m]
      /\ \A m \in DOMAIN nodes' \ DOMAIN nodes : m = n /\ nodes'[m] = node /\ m.ns <= namespaces
      /\ \A pair \in references' \ references : pair = <<parent, n>>
  <2>1. CASE AddNode(n, parent, node)
    BY <1>1, <1>2, <1>3, <2>1, AddNodeFacts, InvFacts
  <2>2. CASE UNCHANGED <<nodes, references, walks>> BY <2>2, InvFacts DEF TypeOK
  <2> QED BY <1>0, <2>1, <2>2
<1>5. Grows BY <1>4 DEF Grows
<1>6. walks' \in Seq(Frame) /\ \A k \in DOMAIN walks' : GoodWalk(walks'[k], nodes')
  <2>1. CASE walks' = walks BY <2>1, <1>5, InvFacts, GrowthKeepsWalks
  <2>2. CASE AddNode(n, parent, node) /\ Added(n, parent) /\ walks' = <<walk>>
    <3>1. n \in DOMAIN nodes' BY <2>2 DEF AddNode
    <3>2. Required(t) \subseteq DOMAIN nodes BY RequiredFacts
    <3>3. walk \in Frame BY <1>1, <1>2a, <1>3, <3>2, InvFacts DEF Walk, Frame, TypeOK
    <3>4. walk.op = "finish" /\ walk.to = n /\ walk.todo = Required(t) BY DEF Walk
    <3>5. \A c \in Required(t) : Declaring(c) /\ DeclaredIn(nodes', c)
      BY <1>4, <3>2, RequiredFacts DEF DeclaredIn
    <3>5a. nodes'[n] = node BY <1>4, <2>2, <3>1 DEF Added, Live
    <3>5b. DeclaredIn(nodes', n) BY <1>2, <3>5a DEF DeclaredIn
    <3>6. GoodWalk(walk, nodes') BY <1>4, <3>1, <3>2, <3>4, <3>5, <3>5b DEF GoodWalk
    <3>7. walks' \in Seq(Frame) /\ DOMAIN walks' = {1} /\ walks'[1] = walk
      BY <2>2, <3>3, SingleFacts
    <3> QED BY <3>6, <3>7
  <2> QED BY <1>0, <2>1, <2>2
<1>7. TypeOK' BY <1>0, <1>3, <1>4, <1>6, InvFacts DEF TypeOK
<1>8. ASSUME NEW m \in DOMAIN nodes' \ DOMAIN nodes PROVE NodeInv(m)'
  <2>1. m = n /\ nodes'[m] = node BY <1>4, <1>8
  <2>2. WellNumbered(m)' BY <1>3, <2>1
  <2>3. nodes'[m].class = "object" /\ nodes'[m].name \in QName BY <1>2, <2>1
  <2>4. m.ns <= namespaces' BY <1>0, <1>4, <1>8
  <2> QED BY <2>2, <2>3, <2>4 DEF NodeInv, Callable, Declared, QName
<1>9. \A pair \in references' \ references : Declaring(pair[2]) BY <1>3, <1>4
<1> QED BY <1>0, <1>3, <1>5, <1>6, <1>7, <1>8, <1>9, GrowingStep

\* manifest: the object itself, and the first walk
LEMMA ManifestStep ==
    ASSUME ServerInv, NEW parent \in Instances, NEW name \in Name, NEW live \in BOOLEAN,
           NEW t \in Types(IF live THEN known ELSE dead), Manifest(parent, name, t, live)
    PROVE  ServerInv'
<1> DEFINE n == Path(ObjectPath(parent, name))
           node == NewObject(Qualified(name), t)
           walk == Walk("manifest", t, n, Children(t), IsType(t) /\ Added(n, parent), live,
                        "mandatory")
<1> USE DEF library, server, ruby, history
<1>0. /\ t \in Types(known) \cup Types(dead)
      /\ known' = known \cup {HandleOn(n, "object")}
      /\ AddNode(n, parent, node) \/ UNCHANGED <<nodes, references>>
      /\ walks' = <<walk>>
      /\ manifests < MaxManifest /\ manifests' = manifests + 1
      /\ proper' \in BOOLEAN /\ clash' \in BOOLEAN
      /\ UNCHANGED <<namespaces, default_ns, methods, nodecounter, dead>>
  BY InvFacts DEF Manifest, Types, TypeHandles, TypeOK
<1>1. parent \in Id /\ ~Declaring(parent) /\ t \in Id /\ Declaring(t) BY <1>0, HandleFacts
<1>2. node \in Node /\ node.class = "object" /\ node.name \in QName
  BY <1>1, ObjectFacts, QualifiedFacts, InvFacts
<1> HIDE DEF node
<1>3. n \in Id /\ n.kind = "str" /\ n.num = 0 BY <1>1, PathFacts, IdFacts, InvFacts DEF Path
<1>4. /\ DOMAIN nodes' \subseteq Id /\ \A m \in DOMAIN nodes' : nodes'[m] \in Node
      /\ references' \subseteq (DOMAIN nodes') \X (DOMAIN nodes')
      /\ DOMAIN nodes \subseteq DOMAIN nodes' /\ \A m \in DOMAIN nodes : nodes'[m] = nodes[m]
      /\ \A m \in DOMAIN nodes' \ DOMAIN nodes : m = n /\ nodes'[m] = node /\ m.ns <= namespaces
      /\ \A pair \in references' \ references : pair = <<parent, n>>
  <2>1. CASE AddNode(n, parent, node)
    BY <1>1, <1>2, <1>3, <2>1, AddNodeFacts, InvFacts
  <2>2. CASE UNCHANGED <<nodes, references>> BY <2>2, InvFacts DEF TypeOK
  <2> QED BY <1>0, <2>1, <2>2
<1>5. Grows BY <1>4 DEF Grows
<1>6. walks' \in Seq(Frame) /\ \A k \in DOMAIN walks' : GoodWalk(walks'[k], nodes')
  <2>1. Children(t) \subseteq DOMAIN nodes /\ \A c \in Children(t) : Declaring(c)
    BY <1>1, ChildrenFacts
  <2>2. walk \in Frame
    <3>1. (IsType(t) /\ Added(n, parent)) \in BOOLEAN BY DEF IsType, Live, Added
    <3> QED BY <1>1, <1>3, <2>1, <3>1, InvFacts DEF Walk, Frame, TypeOK, Rule
  <2>3. walk.op = "manifest" /\ walk.to = n /\ walk.todo = Children(t) BY DEF Walk
  <2>4. GoodWalk(walk, nodes') BY <1>3, <1>4, <2>1, <2>3 DEF GoodWalk
  <2> QED BY <1>0, <2>2, <2>4
<1>7. known' \subseteq Handle BY <1>0, <1>3, InvFacts DEF TypeOK, Handle, HandleOn, Class
<1>8. TypeOK' BY <1>0, <1>4, <1>6, <1>7, InvFacts, ServerAssumption DEF TypeOK
<1>9. ASSUME NEW m \in DOMAIN nodes' \ DOMAIN nodes PROVE NodeInv(m)'
  <2>1. m = n /\ nodes'[m] = node BY <1>4, <1>9
  <2>2. nodes'[m].class = "object" /\ nodes'[m].name \in QName /\ m.kind = "str" /\ m.num = 0
    BY <1>2, <1>3, <2>1
  <2>3. m.ns <= namespaces' BY <1>0, <1>4, <1>9
  <2> QED BY <2>2, <2>3 DEF NodeInv, Callable, WellNumbered, Declared, QName
<1>10. ASSUME NEW h \in known' \ known PROVE HandleInv(h)'
  <2>1. h.id = n /\ h.class = "object" BY <1>0, <1>10 DEF HandleOn
  <2>2. h.id.kind = "str" /\ h.id.num = 0 BY <1>3, <2>1
  <2> QED BY <2>1, <2>2 DEF HandleInv, WellNumbered
<1>11. nodecounter' >= nodecounter BY <1>0, InvFacts
<1>12. \A pair \in references' \ references : ~Declaring(pair[1]) BY <1>1, <1>4
<1> QED BY <1>0, <1>5, <1>6, <1>8, <1>9, <1>10, <1>11, <1>12, GrowingStep

\* A child still to come, on top: a declaration that is there.
LEMMA ChildFacts ==
    ASSUME ServerInv, walks # <<>>, NEW c \in Top.todo
    PROVE  /\ c \in DOMAIN nodes /\ c \in Id /\ nodes[c] \in Node /\ NodeInv(c) /\ Declaring(c)
           /\ Top \in Frame /\ Top.to \in Id /\ GoodWalk(Top, nodes)
BY InvFacts DEF GoodWalk, ServerInv, TypeOK, Frame

\* manifest_iter passes over a child
LEMMA ManifestSkipStep == ASSUME ServerInv, ManifestSkip PROVE ServerInv'
<1> USE DEF library, server, ruby, history
<1>1. PICK c \in Top.todo : walks' = Done(c) BY DEF ManifestSkip
<1>2. walks # <<>> /\ UNCHANGED <<library, server, ruby, history>> BY DEF ManifestSkip, Walking
<1>3. Grows BY <1>2 DEF Grows
<1>4. walks' \in Seq(Frame) /\ \A k \in DOMAIN walks' : GoodWalk(walks'[k], nodes')
  <2>1. Top \in Frame /\ GoodWalk(Top, nodes') BY <1>2, InvFacts
  <2> QED BY <1>1, <1>2, <1>3, <2>1, InvFacts, WalksStep
<1>5. TypeOK' BY <1>2, <1>4, InvFacts DEF TypeOK
<1>6. nodecounter' >= nodecounter BY <1>2, InvFacts
<1> QED BY <1>2, <1>3, <1>4, <1>5, <1>6, GrowingStep

\* What the end of a walk changes in the store: a modelling rule.
LEMMA ReturnGrows ==
    ASSUME ServerInv, WalkReturn
    PROVE  DOMAIN nodes' = DOMAIN nodes /\ (\A m \in DOMAIN nodes : nodes'[m] \in Node) /\ Grows
<1>1. /\ walks # <<>> /\ walks' = SubSeq(walks, 1, Len(walks) - 1)
      /\ nodes' = nodes \/ (/\ Top.rule # "none" /\ Live(Top.to)
                           /\ nodes' = [nodes EXCEPT ![Top.to].rule = Top.rule])
  BY DEF WalkReturn, Walking
<1>2. Top \in Frame /\ GoodWalk(Top, nodes) BY <1>1, InvFacts
<1>3. CASE nodes' = nodes BY <1>3, InvFacts DEF Grows, TypeOK
<1>4. CASE Top.rule # "none" /\ Live(Top.to) /\ nodes' = [nodes EXCEPT ![Top.to].rule = Top.rule]
  <2>1. Top.rule \in Rule BY <1>2 DEF Frame
  <2>2. Top.to \in DOMAIN nodes /\ NodeInv(Top.to) BY <1>4 DEF Live, ServerInv
  <2>3. Declared(Top.to) BY <1>2, <1>4, <2>2 DEF GoodWalk, NodeInv, Declared, DeclaredIn
  <2>4. DOMAIN nodes' = DOMAIN nodes /\ \A m \in DOMAIN nodes :
          nodes'[m] = IF m = Top.to THEN [nodes[m] EXCEPT !.rule = Top.rule] ELSE nodes[m]
    BY <1>4
  <2>5. \A m \in DOMAIN nodes : nodes[m] \in Node BY InvFacts DEF TypeOK
  <2>6. \A m \in DOMAIN nodes : nodes'[m] \in Node BY <2>1, <2>4, <2>5 DEF Node
  <2> QED BY <2>1, <2>3, <2>4, <2>6 DEF Grows
<1> QED BY <1>1, <1>3, <1>4

\* a walk is over: back to the one below
LEMMA WalkReturnStep == ASSUME ServerInv, WalkReturn PROVE ServerInv'
<1> USE DEF library, server, ruby, history
<1>1. /\ walks # <<>> /\ walks' = SubSeq(walks, 1, Len(walks) - 1)
      /\ UNCHANGED <<references, namespaces, server, ruby, history>>
  BY DEF WalkReturn, Walking
<1>2. Top \in Frame /\ GoodWalk(Top, nodes) BY <1>1, InvFacts
<1>3. DOMAIN nodes' = DOMAIN nodes /\ (\A m \in DOMAIN nodes : nodes'[m] \in Node) /\ Grows
  BY ReturnGrows
<1>4. walks' \in Seq(Frame) /\ \A k \in DOMAIN walks' : GoodWalk(walks'[k], nodes')
  <2>1. GoodWalk(Top, nodes') BY <1>2, <1>3, InvFacts, GrowthKeepsWalks
  <2> QED BY <1>1, <1>2, <1>3, <2>1, InvFacts, WalksStep
<1>5. TypeOK' BY <1>1, <1>3, <1>4, InvFacts DEF TypeOK
<1>6. nodecounter' >= nodecounter BY <1>1, InvFacts
<1> QED BY <1>1, <1>3, <1>4, <1>5, <1>6, GrowingStep

\* What is copied along with a declaration is declared, and mandatory.
LEMMA InnerFacts ==
    ASSUME ServerInv, NEW c, Declaring(c)
    PROVE  /\ Inner(c) \subseteq DOMAIN nodes /\ Inner(c) \subseteq Id
           /\ \A d \in Inner(c) : Declaring(d) /\ DeclaredIn(nodes, d)
BY InvFacts, ChildrenFacts DEF Inner, TypeOK

\* the library finds a required child in place
LEMMA CopyExistingStep == ASSUME ServerInv, CopyExisting PROVE ServerInv'
<1> USE DEF library, server, ruby, history
<1>1. walks # <<>> /\ UNCHANGED <<library, server, ruby, history>> BY DEF CopyExisting, Walking
<1>2. PICK c \in Top.todo, e \in Children(Top.to) :
        walks' = Done(c) \/ walks' = Descend(c, Merge(c, e, Inner(c), Top.live))
  BY DEF CopyExisting
<1> DEFINE walk == Merge(c, e, Inner(c), Top.live)
<1>3. Grows BY <1>1 DEF Grows
<1>4. walk \in Frame /\ GoodWalk(walk, nodes')
  <2>1. c \in Id /\ Declaring(c) /\ Top \in Frame BY <1>1, ChildFacts
  <2>2. e \in DOMAIN nodes /\ e \in Id BY InvFacts, ChildrenFacts DEF TypeOK
  <2>3. /\ Inner(c) \subseteq DOMAIN nodes /\ Inner(c) \subseteq Id
        /\ \A d \in Inner(c) : Declaring(d) /\ DeclaredIn(nodes, d)
    BY <2>1, InnerFacts
  <2>4. walk \in Frame BY <2>1, <2>2, <2>3 DEF Merge, Walk, Frame, Rule
  <2>5. walk.op = "merge" /\ walk.to = e /\ walk.todo = Inner(c) /\ walk.rule = "none"
    BY DEF Merge, Walk
  <2> QED BY <1>1, <2>2, <2>3, <2>4, <2>5 DEF GoodWalk
<1>5. walks' \in Seq(Frame) /\ \A k \in DOMAIN walks' : GoodWalk(walks'[k], nodes')
  BY <1>1, <1>2, <1>3, <1>4, InvFacts, WalksStep
<1>6. TypeOK' BY <1>1, <1>5, InvFacts DEF TypeOK
<1>7. nodecounter' >= nodecounter BY <1>1, InvFacts
<1> QED BY <1>1, <1>3, <1>5, <1>6, <1>7, GrowingStep

\* The block manifest finds for a declaration under a numeric id is the one it was given.
LEMMA BlockFacts ==
    ASSUME ServerInv, NEW c \in DOMAIN nodes, c \in Id, NodeInv(c), Declaring(c), Callable(c)
    PROVE  /\ BlockOf(c) \in Block \cup {Nil}
           /\ c.kind # "gen" => BlockOf(c) = nodes[c].meant
<1>1. c.kind \in {"num", "str", "gen"} /\ c.num \in Nat
  BY InvFacts, ServerAssumption DEF Id
<1>2. c.kind = "str" => FALSE BY DEF Declaring, NodeInv, WellNumbered
<1>3. c.kind = "num" => c.num \in 1..MaxNum
  BY <1>1, InvFacts DEF NodeInv, WellNumbered
<1>4. methods \in [1..MaxNum -> Block \cup {Nil}] BY InvFacts DEF TypeOK
<1> QED BY <1>1, <1>2, <1>3, <1>4 DEF BlockOf, NodeInv

\* manifest_iter creates a variable or a method
LEMMA ManifestLeafStep == ASSUME ServerInv, ManifestLeaf PROVE ServerInv'
<1> USE DEF library, server, ruby, history
<1>1. walks # <<>> /\ Top.op = "manifest"
      /\ UNCHANGED <<namespaces, server, ruby, manifests, proper>>
  BY DEF ManifestLeaf, Walking
<1>2. PICK c \in Top.todo :
        /\ Manifested(c) /\ nodes[c].class \in {"variable", "method"}
        /\ AddNode(Path(ChildPath(Top.to.path, Text(c))), Top.to,
                   [nodes[c] EXCEPT !.rule = "mandatory", !.block = BlockOf(c),
                                    !.copied = (c.kind = "gen")])
        /\ clash' \in BOOLEAN
        /\ walks' = Done(c)
  <2>1. \A x \in BOOLEAN : \A y : (x \/ y) \in BOOLEAN OBVIOUS
  <2>2. clash \in BOOLEAN BY InvFacts DEF TypeOK
  <2> QED BY <2>1, <2>2 DEF ManifestLeaf
<1> DEFINE n == Path(ChildPath(Top.to.path, Text(c)))
           node == [nodes[c] EXCEPT !.rule = "mandatory", !.block = BlockOf(c),
                                    !.copied = (c.kind = "gen")]
<1>3. /\ c \in DOMAIN nodes /\ c \in Id /\ nodes[c] \in Node /\ NodeInv(c) /\ Declaring(c)
      /\ Top \in Frame /\ Top.to \in Id /\ GoodWalk(Top, nodes)
  BY <1>1, ChildFacts
<1>4. Top.to.num = 0 /\ ~Declaring(Top.to) BY <1>1, <1>3 DEF GoodWalk, Declaring
<1>5. nodes[c].name \in QName BY <1>2, <1>3 DEF Manifested, NodeInv, Declared
<1>6. n \in Id /\ n.kind = "str" /\ n.num = 0
  <2>1. Top.to.path \in Seq(Token) BY <1>3 DEF Id
  <2>2. ChildPath(Top.to.path, Text(c)) \in Seq(Token) BY <1>5, <2>1, PathFacts, TextFacts
  <2> QED BY <2>2, IdFacts, InvFacts DEF Path
<1>7. /\ BlockOf(c) \in Block \cup {Nil}
      /\ Callable(c) /\ c.kind # "gen" => BlockOf(c) = nodes[c].meant
  BY <1>2, <1>3, BlockFacts DEF Callable
<1>8. /\ node \in Node /\ node.class = nodes[c].class /\ node.name = nodes[c].name
      /\ node.block = BlockOf(c) /\ node.meant = nodes[c].meant
      /\ node.copied = (c.kind = "gen")
  BY <1>3, <1>7 DEF Node, Rule
<1>9. /\ DOMAIN nodes' \subseteq Id /\ \A m \in DOMAIN nodes' : nodes'[m] \in Node
      /\ references' \subseteq (DOMAIN nodes') \X (DOMAIN nodes')
      /\ DOMAIN nodes \subseteq DOMAIN nodes' /\ \A m \in DOMAIN nodes : nodes'[m] = nodes[m]
      /\ \A m \in DOMAIN nodes' \ DOMAIN nodes : m = n /\ nodes'[m] = node /\ m.ns <= namespaces
      /\ \A pair \in references' \ references : pair = <<Top.to, n>>
  BY <1>2, <1>3, <1>6, <1>8, AddNodeFacts, InvFacts
<1>10. Grows BY <1>9 DEF Grows
<1>11. walks' \in Seq(Frame) /\ \A k \in DOMAIN walks' : GoodWalk(walks'[k], nodes')
  <2>1. GoodWalk(Top, nodes') BY <1>3, <1>10, GrowthKeepsWalks, InvFacts
  <2> QED BY <1>1, <1>2, <1>3, <1>10, <2>1, InvFacts, WalksStep
<1>12. TypeOK' BY <1>1, <1>2, <1>9, <1>11, InvFacts DEF TypeOK
<1>13. ASSUME NEW m \in DOMAIN nodes' \ DOMAIN nodes PROVE NodeInv(m)'
  <2>1. m.kind = "str" /\ m.num = 0 BY <1>6, <1>9, <1>13
  <2>2. nodes'[m].class # "type" /\ nodes'[m].name \in QName
    BY <1>2, <1>5, <1>8, <1>9, <1>13
  <2>3. ASSUME ~nodes'[m].copied PROVE nodes'[m].block = nodes'[m].meant
    <3>1. nodes'[m] = node BY <1>9, <1>13
    <3>2. c.kind # "gen" BY <1>8, <2>3, <3>1
    <3> QED BY <1>2, <1>7, <1>8, <3>1, <3>2 DEF Callable
  <2>4. m.ns <= namespaces' BY <1>1, <1>9, <1>13
  <2> QED BY <2>1, <2>2, <2>3, <2>4 DEF NodeInv, WellNumbered, Declared, QName
<1>14. nodecounter' >= nodecounter BY <1>1, InvFacts
<1>15. \A pair \in references' \ references : ~Declaring(pair[1]) BY <1>4, <1>9
<1> QED BY <1>1, <1>10, <1>11, <1>12, <1>13, <1>14, <1>15, GrowingStep

\* Found gives out a handle on an object's node.
LEMMA FoundFacts ==
    ASSUME ServerInv, DOMAIN nodes' \subseteq Id, NEW n, n.kind # "num", n.kind = "str" => n.num = 0,
           Found(n) \/ known' = known
    PROVE  known' \subseteq Handle /\ \A h \in known' \ known : HandleInv(h)'
<1>0. known \subseteq Handle BY InvFacts DEF TypeOK
<1>1. ASSUME NEW h \in known' \ known PROVE h \in Handle /\ HandleInv(h)'
  <2>1. n \in DOMAIN nodes' /\ h = HandleOn(n, "object") BY <1>1 DEF Found
  <2>2. h.id = n /\ h.class = "object" BY <2>1 DEF HandleOn
  <2>3. h \in Handle BY <2>1 DEF HandleOn, Handle, Class
  <2> QED BY <2>2, <2>3 DEF HandleInv, WellNumbered
<1> QED BY <1>0, <1>1

\* manifest_iter creates an object, and walks its declarations next
LEMMA ManifestObjectStep == ASSUME ServerInv, ManifestObject PROVE ServerInv'
<1> USE DEF library, server, ruby, history
<1>1. walks # <<>> /\ Top.op = "manifest"
      /\ UNCHANGED <<namespaces, server, dead, manifests, proper>>
  BY DEF ManifestObject, Walking
<1>2. PICK c \in Top.todo :
        LET n == Path(ChildPath(Top.to.path, Text(c)))
            typed == Live(nodes[c].type)
        IN  /\ Manifested(c) /\ nodes[c].class = "object"
            /\ \/ typed /\ AddNode(n, Top.to, NewObject(nodes[c].name, nodes[c].type))
               \/ UNCHANGED <<nodes, references>>
            /\ Found(n)
            /\ clash' \in BOOLEAN
            /\ walks' = Descend(c, Walk("manifest", c, n, Children(c),
                                        typed /\ Added(n, Top.to), Top.live, "mandatory"))
  <2>1. \A x \in BOOLEAN : \A y : (x \/ y) \in BOOLEAN OBVIOUS
  <2>2. clash \in BOOLEAN BY InvFacts DEF TypeOK
  <2> QED BY <2>1, <2>2 DEF ManifestObject
<1> DEFINE n == Path(ChildPath(Top.to.path, Text(c)))
           fresh == Live(nodes[c].type) /\ Added(n, Top.to)
           node == NewObject(nodes[c].name, nodes[c].type)
           walk == Walk("manifest", c, n, Children(c), fresh, Top.live, "mandatory")
<1>3. /\ c \in DOMAIN nodes /\ c \in Id /\ nodes[c] \in Node /\ NodeInv(c) /\ Declaring(c)
      /\ Top \in Frame /\ Top.to \in Id /\ GoodWalk(Top, nodes)
  BY <1>1, ChildFacts
<1>4. Top.to.num = 0 /\ ~Declaring(Top.to) BY <1>1, <1>3 DEF GoodWalk, Declaring
<1>5. nodes[c].name \in QName BY <1>2, <1>3 DEF Manifested, NodeInv, Declared
<1>6. n \in Id /\ n.kind = "str" /\ n.num = 0
  <2>1. Top.to.path \in Seq(Token) BY <1>3 DEF Id
  <2>2. ChildPath(Top.to.path, Text(c)) \in Seq(Token) BY <1>5, <2>1, PathFacts, TextFacts
  <2> QED BY <2>2, IdFacts, InvFacts DEF Path
<1>7. Live(nodes[c].type) => node \in Node /\ node.class = "object" /\ node.name = nodes[c].name
  <2>1. Live(nodes[c].type) => nodes[c].type \in Id BY InvFacts DEF Live, TypeOK
  <2> QED BY <1>5, <2>1, ObjectFacts
<1> HIDE DEF node
<1>8. /\ DOMAIN nodes' \subseteq Id /\ \A m \in DOMAIN nodes' : nodes'[m] \in Node
      /\ references' \subseteq (DOMAIN nodes') \X (DOMAIN nodes')
      /\ DOMAIN nodes \subseteq DOMAIN nodes' /\ \A m \in DOMAIN nodes : nodes'[m] = nodes[m]
      /\ \A m \in DOMAIN nodes' \ DOMAIN nodes : m = n /\ nodes'[m] = node /\ m.ns <= namespaces
                                             /\ Live(nodes[c].type)
      /\ \A pair \in references' \ references : pair = <<Top.to, n>>
  <2>1. CASE Live(nodes[c].type) /\ AddNode(n, Top.to, node)
    BY <1>3, <1>6, <1>7, <2>1, AddNodeFacts, InvFacts
  <2>2. CASE UNCHANGED <<nodes, references>> BY <2>2, InvFacts DEF TypeOK
  <2> QED BY <1>2, <2>1, <2>2 DEF node
<1>9. Grows BY <1>8 DEF Grows
<1>10. walks' \in Seq(Frame) /\ \A k \in DOMAIN walks' : GoodWalk(walks'[k], nodes')
  <2>1. Children(c) \subseteq DOMAIN nodes /\ \A d \in Children(c) : Declaring(d)
    BY <1>3, ChildrenFacts
  <2>2. walk \in Frame
    <3>1. fresh \in BOOLEAN BY DEF Live, Added
    <3> QED BY <1>3, <1>6, <2>1, <3>1, InvFacts DEF Walk, Frame, TypeOK, Rule
  <2>3. walk.op = "manifest" /\ walk.to = n /\ walk.todo = Children(c) BY DEF Walk
  <2>4. GoodWalk(walk, nodes') BY <1>6, <1>8, <2>1, <2>3 DEF GoodWalk
  <2>5. walks' = Descend(c, walk) BY <1>2
  <2> HIDE DEF walk
  <2> QED BY <1>1, <1>9, <2>2, <2>4, <2>5, InvFacts, WalksStep
<1>11. known' \subseteq Handle /\ \A h \in known' \ known : HandleInv(h)'
  <2>1. Found(n) BY <1>2
  <2> QED BY <1>6, <1>8, <2>1, FoundFacts
<1>12. clash' \in BOOLEAN BY <1>2
<1>13. TypeOK' BY <1>1, <1>8, <1>10, <1>11, <1>12, InvFacts DEF TypeOK
<1>14. ASSUME NEW m \in DOMAIN nodes' \ DOMAIN nodes PROVE NodeInv(m)'
  <2>1. m.kind = "str" /\ m.num = 0 BY <1>6, <1>8, <1>14
  <2>2. nodes'[m].class = "object" /\ nodes'[m].name \in QName BY <1>5, <1>7, <1>8, <1>14
  <2>3. m.ns <= namespaces' BY <1>1, <1>8, <1>14
  <2> QED BY <2>1, <2>2, <2>3 DEF NodeInv, WellNumbered, Callable, Declared, QName
<1>15. nodecounter' >= nodecounter BY <1>1, InvFacts
<1>16. \A pair \in references' \ references : ~Declaring(pair[1]) BY <1>4, <1>8
<1> QED BY <1>1, <1>9, <1>10, <1>11, <1>13, <1>14, <1>15, <1>16, GrowingStep

\* addNode_finish: the library's copying begins
LEMMA ManifestFinishStep == ASSUME ServerInv, ManifestFinish PROVE ServerInv'
<1> USE DEF library, server, ruby, history
<1> DEFINE walk == [Top EXCEPT !.op = "finish", !.todo = ToFinish]
<1>1. walks # <<>> /\ UNCHANGED <<library, server, ruby, history>>
  BY DEF ManifestFinish, Walking
<1>2. walks' = [walks EXCEPT ![Len(walks)] = walk]
  BY DEF ManifestFinish, Top
<1>3. Grows BY <1>1 DEF Grows
<1>4. /\ Top \in Frame /\ Len(walks) \in DOMAIN walks /\ Top = walks[Len(walks)]
      /\ Len(walks) \in Nat \ {0} /\ DOMAIN walks = 1..Len(walks)
  BY <1>1, TopFacts, InvFacts
<1>5. /\ ToFinish \subseteq DOMAIN nodes
      /\ \A c \in ToFinish : Declaring(c) /\ DeclaredIn(nodes, c) /\ Top.to \in DOMAIN nodes
  BY RequiredFacts DEF ToFinish, Live
<1>6. walk \in Frame /\ walk.op = "finish" /\ walk.todo = ToFinish /\ walk.to = Top.to
      /\ walk.rule = Top.rule
  BY <1>4, <1>5, InvFacts DEF Frame, TypeOK
<1>7. GoodWalk(walk, nodes')
  <2>1. GoodWalk(Top, nodes') BY <1>1, InvFacts
  <2> QED BY <1>1, <1>5, <1>6, <2>1 DEF GoodWalk
<1>8. walks' \in Seq(Frame) /\ \A k \in DOMAIN walks' : GoodWalk(walks'[k], nodes')
  <2>1. walks' \in Seq(Frame) /\ DOMAIN walks' = DOMAIN walks BY <1>2, <1>4, <1>6, InvFacts
  <2>2. \A k \in DOMAIN walks : walks'[k] = IF k = Len(walks) THEN walk ELSE walks[k]
    BY <1>2
  <2>3. \A k \in DOMAIN walks : GoodWalk(walks[k], nodes') BY <1>1, InvFacts
  <2> HIDE DEF walk
  <2> QED BY <1>7, <2>1, <2>2, <2>3
<1>9. TypeOK' BY <1>1, <1>8, InvFacts DEF TypeOK
<1>10. nodecounter' >= nodecounter BY <1>1, InvFacts
<1> QED BY <1>1, <1>3, <1>8, <1>9, <1>10, GrowingStep

\* the library copies a required child, or shares a method
LEMMA CopyMissingStep == ASSUME ServerInv, CopyMissing PROVE ServerInv'
<1> USE DEF library, server, ruby, history
<1>1. /\ walks # <<>> /\ Top.op # "manifest" /\ proper' \in BOOLEAN
      /\ UNCHANGED <<namespaces, server, dead, manifests, clash>>
  BY DEF CopyMissing, Walking
<1>2. PICK c \in Top.todo :
        LET g == Generated(Top.to, nodes[c].name) IN
        \/ /\ references' = references \cup {<<Top.to, c>>}
           /\ walks' = Done(c)
           /\ UNCHANGED <<nodes, known>>
        \/ /\ AddNode(g, Top.to, [nodes[c] EXCEPT !.block = Nil, !.copied = TRUE])
           /\ walks' = Done(c) \/ walks' = Descend(c, Merge(c, g, Inner(c), Top.live))
           /\ Found(g) \/ UNCHANGED known
  BY DEF CopyMissing
<1> DEFINE g == Generated(Top.to, nodes[c].name)
           node == [nodes[c] EXCEPT !.block = Nil, !.copied = TRUE]
           walk == Merge(c, g, Inner(c), Top.live)
<1>3. /\ c \in DOMAIN nodes /\ c \in Id /\ nodes[c] \in Node /\ NodeInv(c) /\ Declaring(c)
      /\ Top \in Frame /\ Top.to \in Id /\ GoodWalk(Top, nodes)
  BY <1>1, ChildFacts
<1>4. Top.to \in DOMAIN nodes /\ DeclaredIn(nodes, c) BY <1>1, <1>3 DEF GoodWalk
<1>5. nodes[c].name \in QName /\ nodes[c].class # "type" BY <1>4 DEF DeclaredIn
<1>6. g \in Id /\ g.kind = "gen" /\ g.num = Top.to.num /\ g.ns <= namespaces
  <2>1. g \in Id BY <1>3, <1>5, IdFacts, InvFacts
  <2>2. g.kind = "gen" /\ g.num = Top.to.num /\ g.ns = Top.to.ns BY <1>3 DEF Generated, Id
  <2>3. Top.to.ns <= namespaces BY <1>4 DEF ServerInv, NodeInv
  <2> QED BY <2>1, <2>2, <2>3
<1> HIDE DEF g
<1>7. node \in Node /\ node.class = nodes[c].class /\ node.name = nodes[c].name
  BY <1>3 DEF Node
<1> HIDE DEF node
<1>8. CASE /\ references' = references \cup {<<Top.to, c>>}
           /\ walks' = Done(c)
           /\ UNCHANGED <<nodes, known>>
  <2>1. Grows BY <1>8 DEF Grows
  <2>2. walks' \in Seq(Frame) /\ \A k \in DOMAIN walks' : GoodWalk(walks'[k], nodes')
    BY <1>1, <1>3, <1>8, <2>1, GrowthKeepsWalks, InvFacts, WalksStep
  <2>3. references' \subseteq (DOMAIN nodes') \X (DOMAIN nodes')
    BY <1>3, <1>4, <1>8, InvFacts DEF TypeOK
  <2>4. TypeOK' BY <1>1, <1>8, <2>2, <2>3, InvFacts DEF TypeOK
  <2>5. nodecounter' >= nodecounter BY <1>1, InvFacts
  <2>6. \A pair \in references' \ references : Declaring(pair[2]) BY <1>3, <1>8
  <2> QED BY <1>1, <1>8, <2>1, <2>2, <2>4, <2>5, <2>6, GrowingStep
<1>9. CASE /\ AddNode(g, Top.to, node)
           /\ walks' = Done(c) \/ walks' = Descend(c, walk)
           /\ Found(g) \/ UNCHANGED known
  <2>1. /\ DOMAIN nodes' \subseteq Id /\ \A m \in DOMAIN nodes' : nodes'[m] \in Node
        /\ references' \subseteq (DOMAIN nodes') \X (DOMAIN nodes')
        /\ DOMAIN nodes \subseteq DOMAIN nodes' /\ \A m \in DOMAIN nodes : nodes'[m] = nodes[m]
        /\ \A m \in DOMAIN nodes' \ DOMAIN nodes : m = g /\ nodes'[m] = node /\ m.ns <= namespaces
        /\ \A pair \in references' \ references : pair = <<Top.to, g>>
    BY <1>3, <1>6, <1>7, <1>9, AddNodeFacts, InvFacts
  <2>2. g \in DOMAIN nodes' BY <1>4, <1>6, <1>9 DEF AddNode, Added, Live
  <2>3. Grows BY <2>1 DEF Grows
  <2>4. walk \in Frame /\ GoodWalk(walk, nodes')
    <3>1. /\ Inner(c) \subseteq DOMAIN nodes /\ Inner(c) \subseteq Id
          /\ \A d \in Inner(c) : Declaring(d) /\ DeclaredIn(nodes, d)
      BY <1>3, InnerFacts
    <3>2. walk \in Frame BY <1>3, <1>6, <3>1 DEF Merge, Walk, Frame, Rule
    <3>3. walk.op = "merge" /\ walk.to = g /\ walk.todo = Inner(c) /\ walk.rule = "none"
      BY DEF Merge, Walk
    <3> QED BY <2>1, <2>2, <3>1, <3>2, <3>3 DEF GoodWalk, DeclaredIn
  <2> HIDE DEF walk
  <2>5. walks' \in Seq(Frame) /\ \A k \in DOMAIN walks' : GoodWalk(walks'[k], nodes')
    BY <1>1, <1>9, <2>3, <2>4, InvFacts, WalksStep
  <2>6. known' \subseteq Handle /\ \A h \in known' \ known : HandleInv(h)'
    BY <1>6, <1>9, <2>1, FoundFacts
  <2>7. TypeOK' BY <1>1, <2>1, <2>5, <2>6, InvFacts DEF TypeOK
  <2>8. ASSUME NEW m \in DOMAIN nodes' \ DOMAIN nodes PROVE NodeInv(m)'
    <3>1. m.kind = "gen" BY <1>6, <2>1, <2>8
    <3>2. nodes'[m].class # "type" /\ nodes'[m].name \in QName BY <1>5, <1>7, <2>1, <2>8
    <3>3. m.ns <= namespaces' BY <1>1, <2>1, <2>8
    <3> QED BY <3>1, <3>2, <3>3 DEF NodeInv, WellNumbered, Declared, QName
  <2>9. \A pair \in references' \ references : Declaring(pair[1]) => Declaring(pair[2])
    <3>1. Declaring(Top.to) => Declaring(g) BY <1>6 DEF Declaring, Objects, NumericIn
    <3> QED BY <2>1, <3>1
  <2>10. nodecounter' >= nodecounter BY <1>1, InvFacts
  <2> QED BY <1>1, <2>3, <2>5, <2>6, <2>7, <2>8, <2>9, <2>10, GrowingStep
<1> QED BY <1>2, <1>8, <1>9 DEF g, node

\* delete!
LEMMA DeleteStep == ASSUME ServerInv, NEW n \in Deletable, Delete(n) PROVE ServerInv'
<1> USE DEF library, server, ruby, history
<1>1. /\ nodes' = [m \in DOMAIN nodes \ Below(n) |-> nodes[m]]
      /\ references' = {pair \in references : pair[1] \notin Below(n) /\ pair[2] \notin Below(n)}
      /\ dead' \subseteq dead \cup known
      /\ walks = <<>> /\ UNCHANGED <<namespaces, server, walks, known, history>>
  BY DEF Delete, InRuby, TypeHandles
<1>2. DOMAIN nodes' \subseteq DOMAIN nodes /\ \A m \in DOMAIN nodes' : nodes'[m] = nodes[m]
  BY <1>1
<1>3. references' \subseteq (DOMAIN nodes') \X (DOMAIN nodes')
  BY <1>1, InvFacts DEF TypeOK
<1>4. TypeOK' BY <1>1, <1>2, <1>3, InvFacts DEF TypeOK
<1>5. ASSUME NEW m \in DOMAIN nodes' PROVE NodeInv(m)'
  <2>1. NodeInv(m) BY <1>2 DEF ServerInv
  <2>2. nodes'[m] = nodes[m] BY <1>2
  <2>3. Declared(m)' = Declared(m) /\ Callable(m)' = Callable(m)
    BY <2>2 DEF Declared, Callable, QName
  <2>4. WellNumbered(m)' = WellNumbered(m) /\ Declaring(m)' = Declaring(m)
    BY <1>1 DEF WellNumbered, Preset, StdIds, Objects, BaseType, FolderType, NumericIn, Declaring
  <2> QED BY <1>1, <2>1, <2>2, <2>3, <2>4 DEF NodeInv
<1>6. ASSUME NEW h \in known' \cup dead' PROVE HandleInv(h)'
  <2>1. HandleInv(h) BY <1>1 DEF ServerInv
  <2> QED BY <1>1, <2>1 DEF HandleInv, WellNumbered, Declaring, Preset, StdIds, Objects,
                            BaseType, FolderType, NumericIn
<1>7. \A pair \in references' : Declaring(pair[1])' => Declaring(pair[2])'
  BY <1>1 DEF ServerInv, Declaring, Objects, NumericIn
<1> QED BY <1>1, <1>4, <1>5, <1>6, <1>7 DEF ServerInv

-----------------------------------------------------------------------------
(* The theorems *)

\* The server starts in the invariant.
LEMMA InitInv == Init => ServerInv
<1> SUFFICES ASSUME Init PROVE ServerInv OBVIOUS
<1>0. MaxNum \in Nat /\ MaxNs \in Nat \ {0} /\ MaxManifest \in Nat BY ServerAssumption
<1>1. \A k \in 1..(MaxNum + 3) :
        LET n == NumericIn(0, k) IN n \in Id /\ n.kind = "num" /\ n.num = k /\ n.ns = 0
  <2>1. <<>> \in Seq(Token) /\ <<>> \in Seq(QName) OBVIOUS
  <2> QED BY <1>0, <2>1 DEF NumericIn, Id
<1>2. Preset \subseteq Id /\ \A n \in Preset : n.kind = "num" /\ n.num # 0
  <2>1. \A n \in Preset : \E k \in 1..(MaxNum + 3) : n = NumericIn(0, k)
    BY <1>0, ServerAssumption DEF Preset, StdIds, Objects, BaseType, FolderType
  <2> QED BY <1>1, <2>1
<1>3. BaseType # Objects /\ FolderType # Objects /\ StdIds \subseteq Preset
      /\ \A k \in Standard : NumericIn(0, k) # Objects
  BY <1>0, <1>1, ServerAssumption DEF Objects, BaseType, FolderType, Preset, NumericIn
<1>4. /\ DOMAIN nodes = Preset
      /\ \A n \in Preset :
           /\ nodes[n] \in Node /\ nodes[n].rule = "none" /\ nodes[n].class \in {"type", "object", "standard"}
           /\ nodes[n].class = "type" => n # Objects
  <2>1. PICK types \in SUBSET (Preset \ StdIds) :
          nodes = [n \in Preset |->
                     StdNode(CASE n = Objects                             -> "object"
                               [] n \in {BaseType, FolderType} \cup types -> "type"
                               [] OTHER                                   -> "standard")]
    BY DEF Init
  <2>2. Objects \notin types BY <2>1 DEF StdIds
  <2>3. \A class \in Class : StdNode(class) \in Node /\ StdNode(class).rule = "none"
                            /\ StdNode(class).class = class
    BY DEF StdNode, Node, Class, Rule
  <2>4. ASSUME NEW n \in Preset
        PROVE  \E class \in {"type", "object", "standard"} :
                  nodes[n] = StdNode(class) /\ (class = "type" => n # Objects)
    <3>1. CASE n = Objects
      <4>1. n \notin {BaseType, FolderType} \cup types BY <1>3, <2>2, <3>1
      <4>2. nodes[n] = StdNode("object") BY <2>1, <3>1, <4>1
      <4> QED BY <4>2
    <3>2. CASE n # Objects /\ n \in {BaseType, FolderType} \cup types BY <2>1, <3>2
    <3>3. CASE n # Objects /\ n \notin {BaseType, FolderType} \cup types BY <2>1, <3>3
    <3> QED BY <3>1, <3>2, <3>3
  <2>5. {"type", "object", "standard"} \subseteq Class BY DEF Class
  <2> QED BY <2>1, <2>3, <2>4, <2>5
<1>5. \A h \in known :
        h \in Handle /\ h.id \in StdIds /\ (h.class = "type" => h.id \in {BaseType, FolderType})
  BY <1>2, <1>3 DEF Init, HandleOn, Handle, Class, StdIds
<1>6. TypeOK
  <2>1. DOMAIN nodes \subseteq Id /\ \A n \in DOMAIN nodes : nodes[n] \in Node BY <1>2, <1>4
  <2>2. namespaces \in 1..MaxNs /\ default_ns \in 0..MaxNs /\ nodecounter \in 1..(MaxNum + 1)
    <3>1. namespaces = 1 /\ default_ns = 1 /\ nodecounter = 1 BY DEF Init
    <3> QED BY <1>0, <3>1
  <2>3. methods \in [1..MaxNum -> Block \cup {Nil}] BY DEF Init
  <2>4. walks \in Seq(Frame) /\ references = {} /\ dead = {} BY DEF Init
  <2>5. manifests \in 0..MaxManifest /\ proper \in BOOLEAN /\ clash \in BOOLEAN
    <3>1. manifests = 0 BY DEF Init
    <3>2. manifests \in 0..MaxManifest BY <1>0, <3>1
    <3>3. proper \in BOOLEAN /\ clash \in BOOLEAN BY DEF Init
    <3> QED BY <3>2, <3>3
  <2>6. known \subseteq Handle BY <1>5
  <2> QED BY <2>1, <2>2, <2>3, <2>4, <2>5, <2>6 DEF TypeOK
<1>7. \A n \in DOMAIN nodes : NodeInv(n)
  <2>1. \A n \in Preset : n.ns = 0 BY DEF Preset, StdIds, Objects, BaseType, FolderType, NumericIn
  <2>2. namespaces = 1 BY DEF Init
  <2> QED BY <1>2, <1>4, <2>1, <2>2 DEF NodeInv, WellNumbered, Declaring, Callable
<1>8. \A h \in known \cup dead : HandleInv(h)
  BY <1>2, <1>3, <1>5 DEF Init, HandleInv, WellNumbered, Declaring
<1>9. references = {} /\ walks = <<>> BY DEF Init
<1> QED BY <1>6, <1>7, <1>8, <1>9 DEF ServerInv

\* Every step keeps the inductive invariant.
LEMMA ServerInvStep == ServerInv /\ [Next]_vars => ServerInv'
<1> SUFFICES ASSUME ServerInv, [Next]_vars PROVE ServerInv' OBVIOUS
<1>1. ASSUME NEW parent \in Owners, NEW name \in Name, NEW b \in Block \cup {Nil},
             AddVariable(parent, name, b) \/ AddMethod(parent, name, b)
      PROVE ServerInv'
  BY <1>1, AddDeclarationStep DEF AddVariable, AddMethod
<1>2. ASSUME NEW parent \in Owners, NEW t \in Types(known), NEW name \in Name,
             NEW arg \in Argument, AddObject(parent, name, t, arg)
      PROVE ServerInv'
  BY <1>2, AddObjectStep
<1>3. CASE UNCHANGED vars
  <2>1. /\ nodes' = nodes /\ references' = references /\ namespaces' = namespaces
        /\ default_ns' = default_ns /\ methods' = methods /\ nodecounter' = nodecounter
        /\ walks' = walks /\ known' = known /\ dead' = dead
        /\ manifests' = manifests /\ proper' = proper /\ clash' = clash
    BY <1>3 DEF vars, library, server, ruby, history
  <2>2. Grows BY <2>1 DEF Grows
  <2>3. TypeOK' BY <2>1, InvFacts DEF TypeOK
  <2>4. \A k \in DOMAIN walks' : GoodWalk(walks'[k], nodes') BY <2>1, InvFacts
  <2>5. nodecounter' >= nodecounter BY <2>1, InvFacts
  <2> QED BY <2>1, <2>2, <2>3, <2>4, <2>5, GrowingStep
<1> QED
  BY <1>1, <1>2, <1>3, NamespaceStep, AddObjectTypeStep, AddReferenceTypeStep,
     AddReferenceStep, ManifestStep, ManifestSkipStep, ManifestLeafStep, ManifestObjectStep, ManifestFinishStep, CopyExistingStep,
     CopyMissingStep, WalkReturnStep, DeleteStep
  DEF Next, Call

\* The inductive invariant holds in every reachable state.
THEOREM ServerInvariant == Spec => []ServerInv
BY InitInv, ServerInvStep, PTL DEF Spec

\* Every variable keeps its type, in particular: no reference to a node that is gone.
THEOREM TypeCorrect == Spec => []TypeOK
<1>1. ServerInv => TypeOK BY DEF ServerInv
<1> QED BY <1>1, ServerInvariant, PTL

\* Instances call the block their own declaration was given.
THEOREM BlocksOfDeclarations == Spec => []DeclaredBlocks
<1>1. ServerInv => DeclaredBlocks BY DEF ServerInv, NodeInv, DeclaredBlocks
<1> QED BY <1>1, ServerInvariant, PTL

Fresh ==
    \A m \in DOMAIN nodes' \ DOMAIN nodes :
        m.kind = "num" => m = Numeric(nodecounter) /\ nodecounter <= MaxNum

\* The only numeric id that comes to denote a node is the one the counter gives out.
LEMMA NewNumbers ==
    ASSUME ServerInv, Next
    PROVE  Fresh
<1> USE DEF library, server, ruby, history
<1>0. ASSUME NEW n, NEW parent, NEW node, AddNode(n, parent, node)
      PROVE  \A m \in DOMAIN nodes' \ DOMAIN nodes : m = n
  BY <1>0 DEF AddNode
<1>1. CASE UNCHANGED nodes BY <1>1 DEF Fresh
<1>2. ASSUME NEW super, AddObjectType(super) PROVE Fresh
  BY <1>0, <1>1, <1>2 DEF AddObjectType, Take, Fresh
<1>3. ASSUME NEW parent, NEW class, NEW name, NEW b, AddDeclaration(parent, class, name, b) PROVE Fresh
  BY <1>0, <1>3 DEF AddDeclaration, Take, Fresh
<1>4. ASSUME NEW parent, NEW name, NEW t, NEW arg, AddObject(parent, name, t, arg) PROVE Fresh
  BY <1>0, <1>1, <1>4 DEF AddObject, Take, Fresh
<1>5. \A p : Path(p).kind = "str" BY DEF Path
<1>6. ASSUME NEW parent, NEW name, NEW t, NEW live, Manifest(parent, name, t, live) PROVE Fresh
  BY <1>0, <1>1, <1>5, <1>6 DEF Manifest, Fresh
<1>7. CASE ManifestLeaf BY <1>0, <1>5, <1>7 DEF ManifestLeaf, Fresh
<1>8. CASE ManifestObject BY <1>0, <1>1, <1>5, <1>8 DEF ManifestObject, Fresh
<1>9. CASE CopyMissing
  <2>1. PICK c \in Top.todo : \/ UNCHANGED nodes
                              \/ \E node : AddNode(Generated(Top.to, nodes[c].name), Top.to, node)
    BY <1>9 DEF CopyMissing
  <2>2. Top.to \in Id BY <1>9, InvFacts DEF CopyMissing, Walking, Frame
  <2>3. Generated(Top.to, nodes[c].name).kind = "gen" BY <2>2 DEF Generated, Id
  <2> QED BY <1>0, <1>1, <2>1, <2>3 DEF Fresh
<1>10. ASSUME NEW n, Delete(n) PROVE Fresh BY <1>10 DEF Delete, Fresh
<1>11. CASE AddNamespace \/ \E k \in Active : ActiveNamespace(k)
  BY <1>1, <1>11 DEF AddNamespace, ActiveNamespace
<1>12. CASE ManifestSkip \/ ManifestFinish \/ CopyExisting \/ WalkReturn
  BY <1>1, <1>12 DEF ManifestSkip, ManifestFinish, CopyExisting, WalkReturn, Fresh
<1>13. ASSUME NEW parent \in Owners, NEW name \in Name, NEW b \in Block \cup {Nil},
              AddVariable(parent, name, b) \/ AddMethod(parent, name, b)
       PROVE Fresh
  BY <1>3, <1>13 DEF AddVariable, AddMethod
<1>13a. ASSUME NEW top, NEW accepted, AddReferenceType(top, accepted) PROVE Fresh
  BY <1>0, <1>1, <1>13a DEF AddReferenceType, Take, Fresh
<1>13b. ASSUME NEW self, AddReference(self) PROVE Fresh BY <1>1, <1>13b DEF AddReference
<1>14. CASE \/ \E super \in Types(known) : AddObjectType(super)
            \/ \E self \in Owners : AddReference(self)
            \/ \E top \in StdIds, accepted \in BOOLEAN : AddReferenceType(top, accepted)
            \/ \E parent \in Owners, name \in Name, b \in Block \cup {Nil} :
                 AddVariable(parent, name, b) \/ AddMethod(parent, name, b)
  BY <1>2, <1>13, <1>13a, <1>13b, <1>14
<1>15. CASE \E parent \in Owners, t \in Types(known), name \in Name, arg \in Argument :
              AddObject(parent, name, t, arg)
  BY <1>4, <1>15
<1>16. CASE \E live \in BOOLEAN : \E t \in Types(IF live THEN known ELSE dead) :
              \E parent \in Instances, name \in Name : Manifest(parent, name, t, live)
  BY <1>6, <1>16
<1>17. CASE \E n \in Deletable : Delete(n) BY <1>10, <1>17
<1>18. Fresh BY <1>7, <1>8, <1>9, <1>11, <1>12, <1>14, <1>15, <1>16, <1>17 DEF Next, Call
<1> QED BY <1>18

\* A numeric id that denotes no node never comes to denote one.
THEOREM IdsNeverReused == Spec => StaleForGood
<1> DEFINE Stale == \A h \in known : h.id.kind = "num" /\ ~Live(h.id) => h.id \notin DOMAIN nodes'
<1>1. ASSUME ServerInv, Next PROVE Stale
  <2> SUFFICES ASSUME NEW h \in known, h.id.kind = "num", ~Live(h.id), h.id \in DOMAIN nodes'
               PROVE FALSE
    OBVIOUS
  <2>1. h.id = Numeric(nodecounter) BY <1>1, NewNumbers DEF Live, Fresh
  <2>2. h.id.num = nodecounter BY <2>1 DEF Numeric, NumericIn
  <2>3. nodecounter \in 1..(MaxNum + 1) /\ MaxNum \in Nat BY <1>1, InvFacts
  <2>4. CASE h.id \in StdIds
    <3>1. nodecounter = MaxNum + 1
      BY <2>2, <2>3, <2>4 DEF StdIds, Objects, BaseType, FolderType, NumericIn
    <3>2. nodecounter <= MaxNum BY <1>1, NewNumbers DEF Live, Fresh
    <3> QED BY <2>3, <3>1, <3>2
  <2>5. CASE h.id \notin StdIds BY <1>1, <2>2, <2>3, <2>5 DEF ServerInv, HandleInv
  <2> QED BY <2>4, <2>5
<1>2. ServerInv /\ [Next]_vars => [Stale]_vars BY <1>1
<1> QED BY <1>2, ServerInvariant, PTL DEF Spec, StaleForGood
=============================================================================
