-------------------------- MODULE ServerInvariants --------------------------
(***************************************************************************)
(* The inductive invariants that the proofs about Server rest on. They are *)
(* properties of the runs as well.                                         *)
(***************************************************************************)
EXTENDS Server

(* Of the types, of DeclaredBlocks and StaleForGood *)

\* types, what is declared in them and the nodes of the standard that may hold as much;
\* the rest are Objects and the instances
Declaring(n) == n.num # 0 /\ n # Objects

WellNumbered(n) ==
    /\ n.kind = "str" => n.num = 0
    /\ n.kind = "num" => n.num # 0 /\ (n \notin Preset => n.num < nodecounter)

\* what a modelling rule may be given to
Declared(n) == nodes[n].name \in QName /\ nodes[n].class # "type"

NodeInv(n) ==
    /\ WellNumbered(n) /\ n.ns <= namespaces
    /\ nodes[n].class = "type" => Declaring(n)
    /\ nodes[n].rule = "mandatory" \/ n.kind = "str" => Declared(n)
    /\ Callable(n) /\ n.kind = "num" => n.num < nodecounter /\ methods[n.num] = nodes[n].meant
    /\ Callable(n) /\ n.kind = "str" /\ ~nodes[n].copied => nodes[n].block = nodes[n].meant

HandleInv(h) ==
    /\ WellNumbered(h.id) /\ (h.class = "type" => Declaring(h.id))
    /\ h.id.kind = "num" => h.id \in StdIds \/ h.id.num < nodecounter

WalkInv(w) ==
    /\ w.todo \subseteq DOMAIN nodes /\ \A c \in w.todo : Declaring(c)
    /\ w.op = "manifest" => w.to.num = 0
    /\ w.rule # "none" => w.to.kind = "str" \/ (Live(w.to) /\ Declared(w.to))
    /\ w.op # "manifest" => \A c \in w.todo : Declared(c) /\ Live(w.to)

\* Ids are below the counter and the hash of blocks agrees with the declarations that
\* hold numeric ids; declarations contain declarations only, whatever manifest and the
\* library's copying still have to do.
ServerInv ==
    /\ TypeOK
    /\ \A n \in DOMAIN nodes : NodeInv(n)
    /\ \A pair \in references : Declaring(pair[1]) => Declaring(pair[2])
    /\ \A h \in known \cup dead : HandleInv(h)
    /\ \A k \in DOMAIN walks : WalkInv(walks[k])

-----------------------------------------------------------------------------
(* Of NoClash *)

\* the place a path names: manifest writes it with a leading slash or without
Bare(p) == IF Len(p) % 2 = 1 THEN p ELSE Tail(p)
WellFormed(p) == Len(p) >= 1 /\ (Len(p) % 2 = 0 => p[1] = "/")
Place(parent, name) ==
    IF parent.kind = "str" THEN Bare(parent.path) \o <<"/", name>> ELSE <<name>>

Named(S)  == {c \in S : nodes[c].name # Nil}
Pathed    == {n \in DOMAIN nodes : n.kind = "str"}
Placed(n) ==
    /\ WellFormed(n.path) /\ nodes[n].name \in QName
    /\ \E parent \in Pathed \cup {Objects} :
           <<parent, n>> \in references /\ Bare(n.path) = Place(parent, Text(n))

\* The tree of the instances is the tree of their places, and declarations are apart.
PathTree ==
    /\ \A n \in Pathed : Placed(n)
    /\ \A m, n \in Pathed : Bare(m.path) = Bare(n.path) => m = n
    /\ \A r \in references : r[2] # Objects
    /\ \A r, s \in references : r[2] = s[2] /\ r[2].kind = "str" => r = s
    /\ \A t \in DOMAIN nodes : Declaring(t) =>
          \A c, d \in Named(Children(t)) : Text(c) = Text(d) => c = d

\* What a walk of manifest has still to create is apart from what it has created.
PathWalk(w) ==
    /\ w.to # Objects /\ (w.to.kind = "str" => WellFormed(w.to.path))
    /\ w.op = "manifest" =>
         /\ w.to.kind = "str"
         /\ \A c, d \in Named(w.todo) : Text(c) = Text(d) => c = d
         /\ \A c \in Named(w.todo) : Apart(w.to, Text(c))
         /\ \A q \in Pathed : Bare(q.path) = Bare(w.to.path) => q = w.to

\* Each step down leads to a longer path.
Downward ==
    \A j, k \in DOMAIN walks :
        j < k /\ walks[j].to.kind = "str" /\ walks[k].to.kind = "str" =>
            Len(Bare(walks[j].to.path)) < Len(Bare(walks[k].to.path))

PathInv ==
    /\ NoClash /\ IsFiniteSet(references)
    /\ proper => PathTree /\ (\A k \in DOMAIN walks : PathWalk(walks[k])) /\ Downward

-----------------------------------------------------------------------------
(* Of Exact *)

\* Every id tells what its node hangs on: the ids the library makes up are unique.
Shaped(n) ==
    /\ n.kind = "num" => n.path = <<>>
    /\ (n.kind = "gen") <=> (n.copies # <<>>)
    /\ n.kind = "gen" =>
         /\ nodes[n].class # "method" /\ nodes[n].name \in QName
         /\ \E parent \in DOMAIN nodes :
                <<parent, n>> \in references /\ n = Generated(parent, nodes[n].name)
    /\ nodes[n].type # Nil =>
         /\ nodes[n].type.kind = "num" /\ WellNumbered(nodes[n].type)
         /\ n \notin Preset
         /\ nodes[n].class = "type" =>
              /\ n.kind = "num" /\ (nodes[n].type \in Preset \/ nodes[n].type.num < n.num)
              /\ Live(nodes[n].type) => nodes[nodes[n].type].class = "type"

\* Types hang on types, declarations on types, objects, methods and nodes of the standard;
\* an instance shares with its type methods, and methods only.
Linked(r) ==
    LET parent == nodes[r[1]]
        child  == nodes[r[2]]
    IN  /\ r[2] \notin Preset
        /\ child.class = "type" => parent.class = "type"
        /\ child.class # "method" =>
             /\ r[1] # r[2] /\ (Declaring(r[2]) => Declaring(r[1]))
             /\ r[2].kind = "num" =>
                  r[1].kind = "num" /\ parent.class \in {"type", "object", "method", "standard"}

ShapeInv ==
    /\ \A n \in DOMAIN nodes : Shaped(n)
    /\ \A r \in references : Linked(r)
    /\ \A n \in Preset \ StdIds :
          IF Live(n) THEN nodes[n].class \in {"type", "standard"} ELSE n.num < nodecounter
    /\ \A r, s \in references : r[2] = s[2] /\ nodes[r[2]].class # "method" => r = s
    /\ \A h \in known \cup dead : h.id.kind = "num" /\ Live(h.id) =>
          nodes[h.id].class = h.class \/ h.id \in Preset \ StdIds

\* Of the walk on level k: where it leads to, and from where.
WalkShape(k) ==
    LET w == walks[k] IN
    /\ IF Live(w.to) THEN nodes[w.to].class # "type" ELSE w.to.kind = "str"
    /\ w.op = "manifest" =>
         /\ \A j \in 1..(k - 1) : walks[j].op = "manifest"
         /\ w.fresh <=> Live(w.to)
         /\ w.todo \subseteq Children(w.from)
    /\ IF k = 1
         THEN w.to.kind = "num" =>
                \A e \in Children(w.to) : e.kind = "num" => nodes[e].class = "method"
         ELSE /\ w.to.kind = "num" => nodes[w.to].class \in {"method", "variable"}
              /\ w.to.kind # "str" => w.rule = "none"
    /\ w.fresh =>
         /\ w.op \in {"manifest", "finish"} /\ w.to.kind # "gen" /\ Live(w.to) /\ Live(w.from)
         /\ Declaring(w.from) /\ nodes[w.to].class = "object" /\ Live(nodes[w.to].type)
         /\ IF k = 1
              THEN nodes[w.from].class = "type" /\ nodes[w.to].type = w.from
              ELSE /\ nodes[w.from].class = "object"
                   /\ walks[k - 1].fresh /\ <<walks[k - 1].from, w.from>> \in references

\* No step leads back to a new object, or to what a new object is made from.
Onward ==
    \A j, k \in DOMAIN walks :
        walks[k].fresh => walks[j].to # walks[k].from /\ (k < j => walks[j].to # walks[k].to)

\* What a new object has so far, and what is still to come.
Progress(w) ==
    w.fresh =>
      LET made     == NamesOf(Children(w.to))
          declared == Mandatory(w.from)
          required == Required(nodes[w.to].type)
      IN  /\ made \subseteq NamesOf(declared \cup required)
          /\ Intact(w) => NamesOf(declared \ w.todo) \subseteq made
          /\ w.op = "finish" => w.todo \subseteq required /\ NamesOf(required \ w.todo) \subseteq made

ExactInv ==
    /\ ShapeInv /\ \A k \in DOMAIN walks : walks[k].to # Objects
    /\ proper => /\ \A r \in references :
                      nodes[r[1]].class = "method" /\ r[2].kind = "num" => Callable(r[2])
                 /\ (\A k \in DOMAIN walks : WalkShape(k) /\ Progress(walks[k])) /\ Onward
=============================================================================
