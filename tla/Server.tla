------------------------------- MODULE Server -------------------------------
(***************************************************************************)
(* OPCUA::Server (src/ext/opcua/server/server.c) as the builder of an      *)
(* address space: types and their declarations (add_object_type,           *)
(* add_variable, add_method, add_object), reference types and references   *)
(* (add_reference_type, add_reference), manifest, which walks a type and   *)
(* creates a child with a path of its own for every mandatory declaration, *)
(* delete!, and the active namespace that every new id is put in.          *)
(*                                                                         *)
(* open62541 owns the nodes: it refuses an id that exists or a parent that *)
(* does not, and the code looks at neither answer. It also finishes each   *)
(* object by copying what its type requires and is not there yet (the      *)
(* comment on UA_Server_addNode_begin in legacy/open62541.h:22507-22527).  *)
(* One thread: while a walk is in progress no Ruby code runs.              *)
(***************************************************************************)
EXTENDS Integers, FiniteSets, Sequences

CONSTANTS
    Name,         \* the texts of browse names
    Block,        \* Ruby blocks
    Nil,          \* Qnil
    Standard,     \* the numbers that nodes of the standard have in namespace 0, of those
                  \* that nodecounter hands out
    MaxNum,       \* bound: numeric ids handed out
    MaxNs,        \* bound: namespaces
    Active,       \* bound: those that the program makes active by their number
    MaxManifest   \* bound: manifest calls

ASSUME ServerAssumption ==
    /\ Nil \notin Block
    /\ MaxNum \in Nat /\ Standard \subseteq 1..MaxNum
    /\ MaxNs \in Nat \ {0} /\ Active \subseteq 0..MaxNs
    /\ MaxManifest \in Nat

VARIABLES
    nodes,         \* id -> node, for the nodes there are (external)
    references,    \* forward, from the parent: <<node, component or subtype>> (external)
    namespaces,    \* namespaces registered (external)
    default_ns, methods, nodecounter,
    walks,         \* node_manifest_iter and the library's copying, innermost last
    known,         \* handles with exists = true that code looks at after their node is
                   \* gone: the ones declarations and manifest give out
    dead,          \* handles taken for types, with exists = false
    \* history
    manifests,     \* manifest calls so far
    proper,        \* siblings so far have names of their own, in whatever namespace,
                   \* objects were put into types and objects only, and manifest was
                   \* called on objects that exist and have a path
    clash          \* a path has been asked for that existed, while proper

library == <<nodes, references, namespaces>>
server  == <<default_ns, methods, nodecounter>>
ruby    == <<known, dead>>
history == <<manifests, proper, clash>>
vars    == <<library, server, walks, ruby, history>>

-----------------------------------------------------------------------------
(* Ids and nodes *)

\* standard: a node of the standard, which is no type
Class == {"type", "object", "variable", "method", "reference", "standard"}
Rule  == {"mandatory", "optional", "none"}
Token == Name \cup {"/"}

\* a browse name: the namespace it was given in, and its text
QName == (0..MaxNs) \X Name

\* num: from nodecounter, or from the standard; str: a path; gen: made up by the library
\* for a copy, told apart by the browse names of the copies down to it
Id == [kind : {"num", "str", "gen"}, ns : 0..MaxNs, num : 0..MaxNum + 3, path : Seq(Token),
       copies : Seq(QName)]

\* A path is told apart into its steps: the tokens are names, or the slash between them.
ASSUME IdAssumption == Nil \notin Id /\ Nil \notin QName /\ "/" \notin Name

NumericIn(ns, n) == [kind |-> "num", ns |-> ns, num |-> n, path |-> <<>>, copies |-> <<>>]

\* numbers that nodecounter does not reach
Objects    == NumericIn(0, MaxNum + 1)
BaseType   == NumericIn(0, MaxNum + 2)
FolderType == NumericIn(0, MaxNum + 3)
StdIds     == {Objects, BaseType, FolderType}
\* and numbers that it does
Preset     == StdIds \cup {NumericIn(0, k) : k \in Standard}

\* UA_NODEID_NUMERIC, UA_NODEID_STRING and UA_QUALIFIEDNAME in the active namespace
Numeric(n)      == NumericIn(default_ns, n)
Path(p)         == [kind |-> "str", ns |-> default_ns, num |-> 0, path |-> p, copies |-> <<>>]
Qualified(name) == <<default_ns, name>>
\* external: the library makes up an id for a child it copies, unique among the
\* nodes there are
Generated(to, qname) == [to EXCEPT !.kind = "gen", !.copies = Append(to.copies, qname)]

\* type: an object's type, or a type's supertype. Of the history fields, meant is
\* the block given to the declaration behind the node, copied tells that this
\* declaration is a copy the library made.
Node == [class : Class, name : QName \cup {Nil}, type : Id \cup {Nil}, rule : Rule,
         block : Block \cup {Nil}, meant : Block \cup {Nil}, copied : BOOLEAN]

\* a Ruby object on a node; it does not go away with the node
Handle == [id : Id, class : Class]
HandleOn(n, class) == [id |-> n, class |-> class]

StdNode(class) == [class |-> class, name |-> Nil, type |-> Nil, rule |-> "none",
                   block |-> Nil, meant |-> Nil, copied |-> FALSE]

Live(n)     == n \in DOMAIN nodes
Children(n) == {c \in DOMAIN nodes : <<n, c>> \in references}
Mandatory(n) == {c \in Children(n) : nodes[c].rule = "mandatory"}
NamesOf(S)  == {nodes[c].name : c \in S}
\* of a browse name
Text(c)     == nodes[c].name[2]

\* the type and its supertypes
Hierarchy(t) ==
    LET up[k \in 0..MaxNum] ==
          IF k = 0 THEN {t}
          ELSE LET below == up[k - 1] IN
               below \cup {nodes[s].type : s \in below \cap DOMAIN nodes}
    IN  {s \in up[MaxNum] \cap DOMAIN nodes : nodes[s].class = "type"}
\* what an object of this type requires
Required(t) == UNION {Mandatory(s) : s \in Hierarchy(t)}

Targets(pairs) == {pair[2] : pair \in pairs}
\* n and what only hangs on it
Below(n) ==
    LET down[k \in 0..Cardinality(references)] ==
          IF k = 0 THEN {n}
          ELSE LET above == down[k - 1]
                   inside == {pair \in references : pair[1] \in above}
               IN  above \cup (Targets(inside) \ Targets(references \ inside))
    IN  down[Cardinality(references)]

\* external: the node is added, unless its namespace is not registered, the id is taken or
\* the parent is not there
Added(n, parent) == n.ns <= namespaces /\ Live(parent) /\ ~Live(n)
AddNode(n, parent, node) ==
    IF Added(n, parent)
      THEN /\ nodes' = [m \in DOMAIN nodes \cup {n} |-> IF m = n THEN node ELSE nodes[m]]
           /\ references' = references \cup {<<parent, n>>}
      ELSE UNCHANGED <<nodes, references>>

-----------------------------------------------------------------------------

Init ==
    /\ \E types \in SUBSET (Preset \ StdIds) :
           nodes = [n \in Preset |->
                      StdNode(CASE n = Objects                             -> "object"
                                [] n \in {BaseType, FolderType} \cup types -> "type"
                                [] OTHER                                   -> "standard")]
    /\ references = {}
    /\ namespaces = 1 /\ default_ns = 1
    /\ methods = [k \in 1..MaxNum |-> Nil]
    /\ nodecounter = 1
    /\ walks = <<>>
    /\ known = {HandleOn(Objects, "object"), HandleOn(BaseType, "type"),
                HandleOn(FolderType, "type")}
    /\ dead = {}
    /\ manifests = 0 /\ proper = TRUE /\ clash = FALSE

\* Ruby code runs
InRuby == walks = <<>>

\* mutant of AddNamespace: every namespace counts its ids from the start
AddNamespaceRestart ==
    /\ InRuby /\ namespaces < MaxNs
    /\ namespaces' = namespaces + 1
    /\ default_ns' = namespaces + 1
    /\ nodecounter' = 1
    /\ UNCHANGED <<nodes, references, methods, walks, ruby, history>>

\* add_namespace with a new name (with a known one it is ActiveNamespace)
AddNamespace ==
    /\ InRuby /\ namespaces < MaxNs
    /\ namespaces' = namespaces + 1
    /\ default_ns' = namespaces + 1
    /\ UNCHANGED <<nodes, references, methods, nodecounter, walks, ruby, history>>

\* any integer is accepted
ActiveNamespace(k) ==
    /\ InRuby
    /\ default_ns' = k
    /\ UNCHANGED <<library, methods, nodecounter, walks, ruby, history>>

-----------------------------------------------------------------------------
(* Declarations: types, and what is added to them *)

\* handles of class TypeTopNode or TypeSubNode: on types, and on the objects and methods
\* declared in them, which have the class of the handle they were added through
TypeHandles(handles) ==
    {h \in handles : h.class \in {"type", "object", "method"} /\ h.id.kind = "num"
                     /\ h.id # Objects}
Types(handles) == {h.id : h \in TypeHandles(handles)}
\* those of class TypeSubNode
Owners == Types(known) \ StdIds

\* UA_NODEID_NUMERIC(default_ns, nodecounter++), and the handle on it, whatever
\* becomes of the node
Take(class) ==
    /\ nodecounter <= MaxNum
    /\ nodecounter' = nodecounter + 1
    /\ known' = known \cup {HandleOn(Numeric(nodecounter), class)}

\* external: the library refuses a supertype or a type that is none
IsType(t) == Live(t) /\ nodes[t].class = "type"

\* no child of parent has a browse name with this text
Apart(parent, name) == \A c \in Children(parent) : nodes[c].name # Nil => Text(c) # name

AddObjectType(super) ==
    /\ InRuby /\ super \in Types(known)
    /\ Take("type")
    /\ IF IsType(super)
         THEN AddNode(Numeric(nodecounter), super, [StdNode("type") EXCEPT !.type = super])
         ELSE UNCHANGED <<nodes, references>>
    /\ UNCHANGED <<namespaces, default_ns, methods, walks, dead, history>>

\* add_reference_type, which TypeTopNode has and ReferenceTopNode has not: the parent is an
\* object type, and whether the library accepts that is its own affair (external)
AddReferenceType(top, accepted) ==
    /\ InRuby /\ top \in Types(known) \cap StdIds
    /\ Take("reference")
    /\ IF accepted THEN AddNode(Numeric(nodecounter), top, StdNode("reference"))
                   ELSE UNCHANGED <<nodes, references>>
    /\ UNCHANGED <<namespaces, default_ns, methods, walks, dead, history>>

\* add_reference; self may be `to` and `type` as well. The reference is asked for from an
\* id that no node has: the library refuses, and the handle returned is on that id.
AddReference(self) ==
    /\ InRuby /\ self \in Owners
    /\ Take("reference")
    /\ UNCHANGED <<library, default_ns, methods, walks, dead, history>>

\* mutant: the block goes into the hash under the counter, which has moved on
AddDeclarationLate(parent, class, name, b) ==
    /\ InRuby /\ parent \in Owners
    /\ Take(class)
    /\ methods' = [methods EXCEPT ![nodecounter'] = b]
    /\ AddNode(Numeric(nodecounter), parent,
               [class |-> class, name |-> Qualified(name), type |-> Nil, rule |-> "mandatory",
                block |-> b, meant |-> b, copied |-> FALSE])
    /\ proper' = (proper /\ Apart(parent, name))
    /\ UNCHANGED <<namespaces, default_ns, walks, dead, manifests, clash>>

\* add_variable, add_variable_rw and add_method: the block goes into the hash, too
AddDeclaration(parent, class, name, b) ==
    /\ InRuby /\ parent \in Owners
    /\ Take(class)
    /\ methods' = [methods EXCEPT ![nodecounter] = b]
    /\ AddNode(Numeric(nodecounter), parent,
               [class |-> class, name |-> Qualified(name), type |-> Nil, rule |-> "mandatory",
                block |-> b, meant |-> b, copied |-> FALSE])
    /\ proper' = (proper /\ Apart(parent, name))
    /\ UNCHANGED <<namespaces, default_ns, walks, dead, manifests, clash>>
AddVariable(parent, name, b) == AddDeclaration(parent, "variable", name, b)
AddMethod(parent, name, b)   == AddDeclaration(parent, "method", name, b)

Argument == {"omitted", "nil", "mandatory", "optional"}
\* the third argument: nil adds no rule at all. Where it is omitted the code still reads
\* argv[2]; were nil to lie there, the outcome is the one of "nil".
RuleOf(arg) == CASE arg = "omitted" -> "mandatory"
                 [] arg = "nil"     -> "none"
                 [] OTHER           -> arg

\* one call of the iterator, or of the library's copying: its children still to come;
\* fresh: the object did not exist before; rule: the modelling rule it is given at the end
Frame == [op : {"manifest", "finish", "merge"}, from : Id, to : Id, todo : SUBSET Id,
          fresh : BOOLEAN, live : BOOLEAN, rule : Rule]
Walk(op, from, to, todo, fresh, live, rule) ==
    [op |-> op, from |-> from, to |-> to, todo |-> todo, fresh |-> fresh, live |-> live,
     rule |-> rule]
Merge(from, to, todo, live) == Walk("merge", from, to, todo, FALSE, live, "none")

\* an object as it is added: without a modelling rule
NewObject(qname, t) ==
    [class |-> "object", name |-> qname, type |-> t, rule |-> "none",
     block |-> Nil, meant |-> Nil, copied |-> FALSE]

\* UA_Server_addObjectNode: the library goes on to copy what the type requires
AddObject(parent, name, t, arg) ==
    LET n == Numeric(nodecounter)
    IN  /\ InRuby /\ parent \in Owners /\ t \in Types(known)
        /\ Take("object")
        /\ IF IsType(t)
             THEN /\ AddNode(n, parent, NewObject(Qualified(name), t))
                  /\ walks' = IF Added(n, parent)
                                THEN <<Walk("finish", t, n, Required(t), TRUE, TRUE, RuleOf(arg))>>
                                ELSE <<>>
             ELSE UNCHANGED <<nodes, references, walks>>
        /\ proper' = (proper /\ Apart(parent, name)
                      /\ (Live(parent) => nodes[parent].class # "method"))
        /\ UNCHANGED <<namespaces, default_ns, methods, dead, manifests, clash>>

-----------------------------------------------------------------------------
(* node_manifest, node_manifest_iter and node_add_object_ua_rec *)

Top == walks[Len(walks)]
Walking(op) == walks # <<>> /\ Top.op = op
Done(c)  == [walks EXCEPT ![Len(walks)].todo = @ \ {c}]
Descend(c, w) == Append(Done(c), w)

\* handles of class ObjectNode
Instances == {h.id : h \in {g \in known : g.class = "object" /\
                              (g.id = Objects \/ g.id.num = 0)}}

\* mutant: the path of the parent is left out
BareName(parent, name) == <<name>>
\* the id of a manifested object: the parent's path, if it has one, "/", and the name
ObjectPath(parent, name) ==
    (IF parent.kind = "str" THEN Append(parent.path, "/") ELSE <<>>) \o <<name>>

\* the id of what is created in it: a leading slash is added where there is none
ChildPath(path, name) ==
    (IF path[1] = "/" THEN <<>> ELSE <<"/">>) \o path \o <<"/", name>>

\* `live` is the exists flag of the type's handle: the code looks at the parent's twice
Manifest(parent, name, t, live) ==
    LET n == Path(ObjectPath(parent, name))
    IN  /\ InRuby /\ manifests < MaxManifest
        /\ parent \in Instances
        /\ t \in Types(IF live THEN known ELSE dead)
        /\ known' = known \cup {HandleOn(n, "object")}
        /\ IF IsType(t) THEN AddNode(n, parent, NewObject(Qualified(name), t))
                        ELSE UNCHANGED <<nodes, references>>
        /\ walks' = <<Walk("manifest", t, n, Children(t), IsType(t) /\ Added(n, parent), live,
                           "mandatory")>>
        /\ manifests' = manifests + 1
        /\ proper' = (proper /\ Apart(parent, name) /\ Live(parent)
                      /\ (parent = Objects \/ parent.kind = "str"))
        /\ clash' = (clash \/ (proper' /\ Live(n)))
        /\ UNCHANGED <<namespaces, server, dead>>

\* mutant: optional declarations are manifested as well
AnyRule(c) == c.ns = default_ns
\* children in another namespace than the active one are passed over
Manifested(c) == c.ns = default_ns /\ nodes[c].rule = "mandatory"

\* the hash knows the numeric ids that nodecounter has given out
BlockOf(c) == IF c.kind = "num" THEN methods[c.num] ELSE Nil

ManifestSkip ==
    /\ Walking("manifest")
    /\ \E c \in Top.todo : ~Manifested(c) /\ walks' = Done(c)
    /\ UNCHANGED <<library, server, ruby, history>>

\* the program can get a handle on the new object: ObjectNode#find
Found(n) == known' = known \cup {HandleOn(m, "object") : m \in {n} \cap DOMAIN nodes'}

\* a variable or a method
ManifestLeaf ==
    /\ Walking("manifest")
    /\ \E c \in Top.todo :
         LET n == Path(ChildPath(Top.to.path, Text(c))) IN
         /\ Manifested(c) /\ nodes[c].class \in {"variable", "method"}
         /\ AddNode(n, Top.to, [nodes[c] EXCEPT !.rule = "mandatory", !.block = BlockOf(c),
                                                !.copied = (c.kind = "gen")])
         /\ clash' = (clash \/ (proper /\ Live(n)))
         /\ walks' = Done(c)
    /\ UNCHANGED <<namespaces, server, ruby, manifests, proper>>

\* an object: its own declarations are walked next
ManifestObject ==
    /\ Walking("manifest")
    /\ \E c \in Top.todo :
         LET n == Path(ChildPath(Top.to.path, Text(c)))
             typed == Live(nodes[c].type)
         IN
         /\ Manifested(c) /\ nodes[c].class = "object"
         /\ IF typed
              THEN AddNode(n, Top.to, NewObject(nodes[c].name, nodes[c].type))
              ELSE UNCHANGED <<nodes, references>>
         /\ Found(n)
         /\ clash' = (clash \/ (proper /\ Live(n)))
         /\ walks' = Descend(c, Walk("manifest", c, n, Children(c),
                                     typed /\ Added(n, Top.to), Top.live, "mandatory"))
    /\ UNCHANGED <<namespaces, server, dead, manifests, proper>>

\* mutant: UA_Server_addNode_finish is not called
NoFinish == {}
\* UA_Server_addNode_finish: what the object's type requires
ToFinish == IF Live(Top.to) /\ Live(nodes[Top.to].type) THEN Required(nodes[Top.to].type) ELSE {}

ManifestFinish ==
    /\ Walking("manifest") /\ Top.todo = {}
    /\ walks' = [walks EXCEPT ![Len(walks)].op = "finish", ![Len(walks)].todo = ToFinish]
    /\ UNCHANGED <<library, server, ruby, history>>

-----------------------------------------------------------------------------
(* The library's copying (external): a required child that is not there, by *)
(* its browse name, is copied; an object with all it requires; a method is  *)
(* shared, with all that hangs on it. Blocks stay behind: they hang on the  *)
(* id.                                                                      *)

Namesakes(n, qname) == {e \in Children(n) : nodes[e].name = qname}
\* what is copied along with c
Inner(c) == IF nodes[c].class = "method" THEN {} ELSE Mandatory(c)

CopyExisting ==
    /\ Walking("finish") \/ Walking("merge")
    /\ \E c \in Top.todo, e \in Children(Top.to) :
         /\ nodes[e].name = nodes[c].name
         /\ walks' = IF Inner(c) = {} THEN Done(c) ELSE Descend(c, Merge(c, e, Inner(c), Top.live))
    /\ UNCHANGED <<library, server, ruby, history>>

CopyMissing ==
    /\ Walking("finish") \/ Walking("merge")
    /\ \E c \in Top.todo :
         LET qname == nodes[c].name
             g == Generated(Top.to, qname)
         IN
         /\ Namesakes(Top.to, qname) = {}
         /\ IF nodes[c].class = "method"
              THEN /\ references' = references \cup {<<Top.to, c>>}
                   /\ walks' = Done(c)
                   /\ UNCHANGED <<nodes, known>>
              ELSE /\ AddNode(g, Top.to, [nodes[c] EXCEPT !.block = Nil, !.copied = TRUE])
                   /\ walks' = IF Inner(c) = {} THEN Done(c)
                               ELSE Descend(c, Merge(c, g, Inner(c), Top.live))
                   /\ IF g.num = 0 /\ nodes[c].class = "object" THEN Found(g) ELSE UNCHANGED known
         /\ proper' = (proper /\ (Top.to.num # 0 => Apart(Top.to, Text(c))))
    /\ UNCHANGED <<namespaces, server, dead, manifests, clash>>

\* the modelling rule comes last: until then no walk takes the new object for declared
WalkReturn ==
    /\ Walking("finish") \/ Walking("merge")
    /\ Top.todo = {}
    /\ nodes' = IF Top.rule # "none" /\ Live(Top.to) THEN [nodes EXCEPT ![Top.to].rule = Top.rule]
                                                     ELSE nodes
    /\ walks' = SubSeq(walks, 1, Len(walks) - 1)
    /\ UNCHANGED <<references, namespaces, server, ruby, history>>

-----------------------------------------------------------------------------
(* delete!; Qfalse, and no change, if the library refuses *)

\* TypeSubNode, ObjectNode (server.objects is one) and ObjectVarNode have it, TypeTopNode and
\* the nodes of a reference type have not. What the library copies into a type cannot be
\* reached; a node of the standard is, through the handle of an add that met it.
Deletable == {n \in DOMAIN nodes \ {BaseType, FolderType} :
                 /\ nodes[n].class # "reference"
                 /\ n.kind = "gen" => n.num = 0
                 /\ n \in Preset \ StdIds => n.num < nodecounter}

\* mutant: UA_Server_deleteNode(.., .., false) leaves the references to the node
DeleteNodeOnly(n) ==
    /\ InRuby /\ n \in Deletable
    /\ nodes' = [m \in DOMAIN nodes \ Below(n) |-> nodes[m]]
    /\ dead' = dead \cup {h \in TypeHandles(known) : h.id = n}
    /\ UNCHANGED <<references, namespaces, server, walks, known, history>>

\* through one handle; others on the node, or on what goes with it, still say it exists
Delete(n) ==
    /\ InRuby /\ n \in Deletable
    /\ LET gone == Below(n) IN
       /\ nodes' = [m \in DOMAIN nodes \ gone |-> nodes[m]]
       /\ references' = {pair \in references : pair[1] \notin gone /\ pair[2] \notin gone}
    /\ dead' = dead \cup {h \in TypeHandles(known) : h.id = n}
    /\ UNCHANGED <<namespaces, server, walks, known, history>>

-----------------------------------------------------------------------------

\* what Ruby code may call
Call ==
    \/ AddNamespace
    \/ \E k \in Active : ActiveNamespace(k)
    \/ \E super \in Types(known) : AddObjectType(super)
    \/ \E self \in Owners : AddReference(self)
    \/ \E top \in StdIds, accepted \in BOOLEAN : AddReferenceType(top, accepted)
    \/ \E parent \in Owners, name \in Name, b \in Block \cup {Nil} :
         AddVariable(parent, name, b) \/ AddMethod(parent, name, b)
    \/ \E parent \in Owners, t \in Types(known), name \in Name, arg \in Argument :
         AddObject(parent, name, t, arg)
    \/ \E live \in BOOLEAN : \E t \in Types(IF live THEN known ELSE dead) :
         \E parent \in Instances, name \in Name : Manifest(parent, name, t, live)
    \/ \E n \in Deletable : Delete(n)

Next ==
    \/ InRuby /\ Call
    \/ ManifestSkip \/ ManifestLeaf \/ ManifestObject \/ ManifestFinish
    \/ CopyExisting \/ CopyMissing \/ WalkReturn

Spec == Init /\ [][Next]_vars

-----------------------------------------------------------------------------
(* Properties *)

TypeOK ==
    /\ DOMAIN nodes \subseteq Id /\ \A n \in DOMAIN nodes : nodes[n] \in Node
    /\ references \subseteq (DOMAIN nodes) \X (DOMAIN nodes)
    /\ namespaces \in 1..MaxNs /\ default_ns \in 0..MaxNs
    /\ methods \in [1..MaxNum -> Block \cup {Nil}]
    /\ nodecounter \in 1..(MaxNum + 1)
    /\ walks \in Seq(Frame)
    /\ known \subseteq Handle /\ dead \subseteq Handle
    /\ manifests \in 0..MaxManifest /\ proper \in BOOLEAN /\ clash \in BOOLEAN

Callable(n) == nodes[n].class \in {"variable", "method"}

\* A variable or method of an instance calls the block its own declaration was given,
\* in whatever namespace and order types are declared, deleted and manifested: the
\* hash of blocks has the bare number as its key (server.c:298, 417, 644-646, 666).
DeclaredBlocks ==
    \A n \in DOMAIN nodes :
        n.kind = "str" /\ Callable(n) /\ ~nodes[n].copied => nodes[n].block = nodes[n].meant

\* The same of every variable and method of an instance: README.md:154-155, "It is also
\* possible to add a block to the variable. The block is called whenever the variable
\* is changed."
EveryBlock ==
    \A n \in DOMAIN nodes :
        n.kind = "str" /\ Callable(n) => nodes[n].block = nodes[n].meant

\* manifest never asks for a path that exists, if siblings have names of their own and
\* it is called on objects that exist and have paths: paths with and without the leading slash
\* do not meet (server.c:613-619, 728-733).
NoClash == ~clash

\* what w is made from has no declaration that manifest passes over or cannot create
Intact(w) ==
    \A c \in Children(w.from) :
        c.ns = default_ns /\ (nodes[c].class = "object" => Live(nodes[c].type))

\* A new object ends up with a child for each mandatory declaration of what it is made
\* from and of its type and supertypes, and with no other. Where it is made from an object
\* declared in a type, those declarations have to be in the active namespace and their types
\* to exist still (server.c:470-495, 578, 609-612).
Exact ==
    /\ proper /\ Walking("finish") /\ Top.todo = {} /\ Top.fresh
    /\ nodes[Top.from].class = "type" \/ Intact(Top)
    => NamesOf(Children(Top.to)) = NamesOf(Mandatory(Top.from) \cup Required(nodes[Top.to].type))

\* A numeric id that denotes no node never comes to denote one: a handle on a node that
\* is gone cannot turn into a handle on another (server.c:17, 82, 187, 296, 411, 521).
StaleForGood ==
    [][\A h \in known : h.id.kind = "num" /\ ~Live(h.id) => h.id \notin DOMAIN nodes']_vars

\* server.c:720-721: "Target node does not exist anymore." is raised for a type whose
\* handle has lost its node.
TypeHandleLive == \A k \in DOMAIN walks : walks[k].live

=============================================================================
