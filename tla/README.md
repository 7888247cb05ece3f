# Specifications of opcua-smart

opcua-smart is a Ruby extension in C over the open62541 stack. It has two halves that
share nothing but the value conversions: `OPCUA::Client`, which keeps one connection to a
server, subscribes to variables and calls Ruby blocks when they change, and
`OPCUA::Server`, which builds an address space out of types that Ruby code declares and
calls Ruby blocks when a variable is written or a method called. Over the network the two
meet: what a client writes or passes to a method, a server's block gets.

This directory holds TLA+ modules of the parts whose correctness depends on order,
failure and what was true a while ago, the TLC configurations that check them on small
instances, and proofs, checked by TLAPS, of the properties that hold for every instance.

    cd tla
    tlc -workers 2 -config client_handles.cfg MCClient.tla
    tlapm ClientProofs.tla

| file | content |
|---|---|
| `Client.tla` | the client around one connection: state, actions, properties, inductive invariant |
| `ClientPromise.tla` | abstract: what `on_change` promises; `Client` implements it |
| `Server.tla` | the server as the builder of an address space |
| `ServerInvariants.tla` | the inductive invariants behind its properties |
| `Callbacks.tla` | the server at work: `run`, remote requests, blocks, the program's own writes |
| `RemotePromise.tla` | abstract: what remote clients see of a server; `Callbacks` implements it |
| `Values.tla` | Ruby values to variants and back, as operators |
| `Exchange.tla` | `value=`, `value` and `call` between a client and a server, over `Values` |
| `MCClient`, `MCServer`, `MCCallbacks`, `MCExchange` | symmetry sets and constants for TLC |
| `ClientProofs`, `ClientPromiseProofs`, `ClientBlocksProofs`, `ServerProofs`, `ServerPathsProofs`, `ServerExactProofs`, `CallbacksProofs`, `ExchangeProofs` | theorems |
| `*.cfg` | one configuration per run |
| `PROJECT.json` | runs, mutants, the map from definitions to source lines, hazards, findings |

Paths such as `client.c:169` are relative to the component: `client.c` and `server.c` are
`ext/opcua/client/client.c` and `ext/opcua/server/server.c`, `values.c` and `finders.c`
are in `ext/opcua/helpers/`.

## The system

| component | state it keeps | operations | how it is reached | hard about it |
|---|---|---|---|---|
| Client session (`client.c:185-457`, `609-641`) | `started`, `subrun`, the response of the shared subscription, the array `subs` of nodes to be monitored | `new`, `get`, `default_ns`, `namespaces`, `subscription_interval=`, `check_subscription`, `disconnect` | Ruby calls | every synchronous call into the library dispatches notifications, so blocks run inside it |
| Client nodes (`client.c:45-182`, `493-567`) | per handle: `on_change`, `monId`, `waiting` | `value`, `value=`, `on_change`, `on_value_change`, `unsubscribe`, `call` | Ruby calls; the library's callbacks | one field for several registrations and items; failures in the middle |
| Process (`client.c:16-17`) | `keepRunning`, the SIGINT handler | the handler | signal | one flag for all loops of all clients |
| Server address space (`server.c:47-336`, `378-742`, `872-895`, `979-1058`) | the library's nodes and references; `default_ns`, `methods` (id number to block), `nodecounter`; per handle `exists` | `add_object_type`, `add_reference_type`, `add_variable(_rw)`, `add_object`, `add_method`, `add_reference`, `manifest`, `find`, `delete!`, `add_namespace`, `active_namespace=` | Ruby calls | ids that outlive nodes; blocks found by number; what manifest does not create the library copies |
| Server callbacks (`server.c:203-234`, `338-377`, `833-871`, `970-978`) | per node: a C struct with the block | `value`, `value=`, `run`, the two callbacks | Ruby calls; the library, from `run` or from a write | blocks that write, raise, or are missing |
| Values (`values.c`) | none | Ruby value to variant and back | both halves | integer widths, times, mixed arrays |
| Browse helpers (`finders.c`) | none | follow one reference or path | both halves | first match only |
| Ruby wrappers (`lib/opcua/*.rb`) | none | `get`, `find`, `add_variables`, ... | programs | `add_property_rw` calls itself |

The client's blocks may call the client again from within `check_subscription`,
`on_value_change`, `unsubscribe`, `disconnect` and every read, write or call. That is the
interaction `Client` is about. In the server all calls are atomic for the program (one
thread, and no Ruby code runs in `manifest`), but the nodes one call leaves behind are
read by later ones, in any order: `Server` is about that.

What makes each component correct, in a sentence:

* Client session and nodes: a registration is never lost silently and never doubled; the
  ids the client keeps never name anybody else's items; a block is called for its own
  item; waits end; subscriptions are not lost.
* Server address space: instances have exactly the children their types declare; each
  calls the block of its own declaration; ids never clash and never come back.
* Server callbacks: a block knows who wrote; each request takes effect once and in order,
  and is answered when its block has returned.
* Values: which values survive the way into a variable or a call and back is a matter of
  the type, and not of who writes or reads; the others are refused or changed.

## Client

`Client.tla` is `client.c` around one connection. State, in the order of the module:

| variables | code |
|---|---|
| `link`, `subscriptions`, `items`, `due`, `lastSub`, `lastItem` | what the library and the server behind it keep (external) |
| `started`, `subrun`, `subid`, `subs` | `client_struct` (`client.h`) |
| `onChange`, `registered`, `monId`, `waiting` | `node_struct`, per handle |
| `keepRunning`, `trap` | the process: the flag, and who handles SIGINT |
| `stack` | the C frames and blocks in progress, innermost last |
| `lastReg`, `withdrawn`, `leaked`, `unsettled`, `fired` | history, read by properties only |

A synchronous call into the library is two actions, the request and the return, with the
frame's `pc` between them; while such a frame is on top the library may dispatch any due
notification (`NotifyRun`, `NotifyWait`), which pushes a block. Ruby code, the program or
a block, may call the client whenever the stack is empty or a block is on top. A block
ends normally (`BlockReturn`) or raises (`BlockRaise`); an exception leaves by `longjmp`
through all C frames up to the next block or the program, and each `RaiseFrom...` says
what state the frame it passes leaves behind. A request under way when that happens may
or may not have had its effect on the server, and what the library was still to deliver
of the same response is lost (`Cut`).

| operation | actions |
|---|---|
| `on_change` | `OnChange` |
| `check_subscription` | `RunAgain` / `RunFirst`, `SubscriptionCreated`, `SubscriptionFailed`, `RunPop`, `MonitorCreated`, `MonitorFailed`, `RunDrained`, `RunReturn` |
| `on_value_change` | `OnValueChange`, `OnValueChangeFailed`, `WaitReturn` |
| `unsubscribe` | `Unsubscribe`, `UnsubscribeReturn` |
| `value`, `value=`, `call`, `get`, `namespaces` | `ServiceCall`, `CallReturn` (`call` also after `disconnect`, which it does not look at) |
| `disconnect` | `Disconnect`, `DisconnectReturn` |
| handlers | `NotifyRun`, `NotifyWait`, `Sigint` |
| environment | `Drop` (the connection breaks), `Change` (a variable changes) |

`on_value_change` makes three requests, two to create and one to delete, and they are one
step with their neighbours: what may be dispatched within them may as well be dispatched
in a service call just before, or in the loop just after.

`ClientPromise` is the life of a registration as the program sees it: it waits, is asked
for, served, and leaves by `unsubscribe`, a failure, `disconnect` or the loss of the
session. `PromiseKept` is that `Client` implements it, with the array as `waiting`, the
`monitor` frames of the stack as `asked` and the items of `on_change` as `served`. Ids,
subscriptions, waits and interrupts are all stutters of it; in particular nothing that an
`on_value_change` creates or deletes is a registration's.

### Runs

| run | handles, registrations, depth | properties |
|---|---|---|
| `client_handles` | 2, 2, blocks make no calls | `TypeOK`, `OncePerCall`, `NoSilentLoss` |
| `client_repeats` | 1, 3, blocks make no calls | `NewestBlock`, `OwnBlock` |
| `client_nested` | 2, 2, blocks call back | `ClientInv`, `MonIdLive`, `NoOrphan`, `SubsAccounted`, `PromiseKept` |
| `client_progress` | 1, 2, blocks make no calls | `RegistrationServed`, `WaitEnds`, `InterruptEndsWait` |

Two handles are enough for one node's ids to be confused with the other's; two
registrations for a second `on_change` on a node that has one, or one on each; three, on
one handle, for an item older and one newer than the one `unsubscribe` names. Two
subscriptions are the shared one and a wait's. A depth of 4 is a call, its block, a call
of that block and its block: every frame then meets every call made from inside it.

`NewestBlock`, `OwnBlock`, `WaitEnds` and `InterruptEndsWait` are stated for blocks that
make no client calls (`MaxDepth = 2`), because the code does not keep them otherwise:
an `on_value_change` from within a block shares `waiting` (`client.c:113`) and
`keepRunning` (`client.c:167-172`) with the one it interrupts, and leaves SIGINT at its
default. `NewestBlock` is also about the item whose id the node keeps only: two
`on_change` calls before one `check_subscription` make two items that both call the
newest block.

Fairness (`Fairness`) is what the C code and the loop of
`example/client_subscription.rb:22-25` give: a block goes on (weak); the program calls
`check_subscription` again and again, and C frames go on (strong, because dispatched
blocks come between); each due notification is delivered although others come too
(strong, per item); variables keep changing (weak). Nothing is assumed of connections,
failures, signals or exceptions.

What the runs show of the code, beside the properties: after a failed creation of the
shared subscription `subrun` stays set (`client.c:615`), every later request is refused,
and each registration is dropped with an exception; the properties hold, but the client
never recovers. `waiting` is counted to 3 in the model: the code compares it with 1 and 2.

## Server

`Server.tla` is `server.c` as the builder of an address space.

| variables | code |
|---|---|
| `nodes`, `references`, `namespaces` | what the library keeps (external): nodes by id, forward hierarchical references |
| `default_ns`, `methods` | `server_struct` (`server.h:10-16`) |
| `nodecounter` | the process-wide counter (`server.c:17`), counted from 1 instead of 2000 |
| `walks` | `node_manifest_iter` and the library's copying in progress |
| `known`, `dead` | handles on nodes: `exists` true, and handles taken for types with `exists` false |
| `manifests`, `proper`, `clash` | history, read by properties only (`manifests` also bounds) |

An id is a number in a namespace, a path (a sequence of browse names and slashes) in a
namespace, or one the library has made up. Nodes have a class, a browse name, a type, a
modelling rule and the block that a write or call would reach.

| operation | actions |
|---|---|
| `add_namespace`, `active_namespace=` | `AddNamespace`, `ActiveNamespace` |
| `add_object_type`, `add_reference_type` | `AddObjectType`, `AddReferenceType` |
| `add_reference` | `AddReference` |
| `add_variable`, `add_variable_rw`, `add_method` | `AddVariable`, `AddMethod` |
| `add_object` | `AddObject`, then the library's copying |
| `manifest` | `Manifest`, then per declared child `ManifestSkip`, `ManifestLeaf`, `ManifestObject`, and `ManifestFinish` into the library's copying |
| the library's copying | `CopyExisting`, `CopyMissing`, `WalkReturn` (external) |
| `delete!` | `Delete` |

`manifest` and the copying are loops over children and recursive; `walks` is their stack,
and the order of children is any order. No Ruby code runs until it is empty. The library
is external: it refuses an id that exists or a parent that does not; on finishing an
object it gives it a copy of each mandatory child of its type and supertypes that is not
there by its browse name (the comment in `legacy/open62541.h:22507-22527`), under an id
that it makes up, methods excepted, which are shared; deleting a node deletes what hangs
on it alone. A modelling rule is a reference that is added last (`server.c:489-494`,
`510-516`), so a walk in progress does not take the new object for a declaration.

Browse names carry the namespace that was active when they were given
(`UA_QUALIFIEDNAME(default_ns, ..)`): the library goes by both, paths by the text alone.
Any integer may be made active (`active_namespace=`): 0, where the numbers of the counter
meet nodes of the standard (`Standard`, the numbers taken), one in which there are nodes
already, or one that is not registered, in which the library refuses every add. The nodes
of the standard have no children here, and a type is deleted or not as any other.

`find`, `get`, `types`, `objects` and `folder` change nothing; they are why a program may
have several handles on one node, and `known` keeps those that outlive it. A handle on an
object or a method declared in a type has the class of a handle on a type
(`CLASS_OF(self)`, `server.c:335` and `568`): variables, methods and objects can be added
to it, and `add_object`, `manifest` and `add_object_type` take it for a type. There the
library refuses the node, and `manifest` walks the children all the same. What is added to
a method is not copied with it, because a method is shared.

`add_reference` asks for a reference from an id it has just made up (`server.c:187-198`),
which the library refuses: the program gets a handle on an id without a node.
`add_reference_type` exists on handles of object types only (`server.c:1104`), so the
parent it names is an object type; the model leaves open whether the library accepts it.
Both spend a number, and `StaleForGood` is what keeps their handles harmless.

### Runs

| run | names, blocks, numbers, namespaces, manifests | properties |
|---|---|---|
| `server_shapes` | 2, 1, 3, 1, 1 | `TypeOK`, `Exact`, `ServerInv`, `ExactInv` |
| `server_paths` | 2, 0, 2, 1, 3 | `NoClash`, `PathInv` |
| `server_blocks` | 1, 1, 2, 3, 1 | `DeclaredBlocks`, `Exact`, `StaleForGood` |
| `server_nested_block` | 1, 1, 4, 1, 1 | `EveryBlock`, violated |
| `server_dead_type` | 1, 1, 2, 1, 1 | `TypeHandleLive`, violated |

Three numbers make a type with an object in it that has a variable of its own, a type with
a method that has one, a type that contains a type declared after it, or itself, or a
type, a subtype and a variable: all the ways a child can come from elsewhere than the type
itself. Four make a type with a variable inside another type, where `EveryBlock` fails.
Paths need a type with one object and three nested `manifest` calls under two names.

The namespaces of `server_blocks` are the standard's, in which number 2 is taken, the first
of a server, and one that `add_namespace` registers; any of them may be made active at any
time, the last one before it is registered, too. Two numbers are a type and a declaration:
in one namespace or two, manifested from a third, refused because the number is the
standard's, deleted, with handles left. In the other runs one namespace is active
throughout.

`server_paths` goes no further than `proper` holds (`WhileProper`, a constraint): both its
properties speak of what happens until then, and `proper` never becomes true again.

`NoClash` and `Exact` are about programs that give siblings names of their own, in whatever
namespace, put objects into types and objects but not into methods, and call `manifest` on
objects that exist and have paths (`proper`). All of this is needed: `manifest` below a
child that the library copied has a bare name for its id, like one below `Objects`; a
handle on a deleted object still yields paths; a second `manifest` under the same name
merges into the first object, and a path made twice gives an object the children of
another; two namespaces do not make two paths of one name; an object in a method that its
own type has would be a child of what is made from it. `Exact` asks for more of an object
that is made from a declared one: those declarations have to be in the active namespace
(`manifest` passes over others, and the library copies only what the type requires), and
the type of a declared object has to exist still (the library refuses an object of a type
that is gone).

`server_blocks` and the two violations have one name and one block, hence no symmetry.

## Server at work

`Callbacks.tla` is `server.run` with remote clients. The library takes the requests of a
connection in order; a write to a variable with a block, or a call of a method, puts the
block on `stack`, and the answer is sent when it returns. The program and any block may
write variables themselves, which runs further blocks at once.

| variables | code |
|---|---|
| `value` | what the library's nodes hold |
| `wild` | variables whose `onRead` is not NULL (below) |
| `running` | in `UA_Server_run_iterate` (`server.c:970-975`) |
| `serving`, `stack` | the request the lowest block is for; of each block, the `external` it was given |
| `gone` | the process has died |
| `lastReq`, `inbox`, `awaiting`, `answer` | clients and connections (external) |
| `broken` | history: requests whose block raised |

| operation | actions |
|---|---|
| `run` | `Run`, `RunReturn`; within it `ServeRead`, `ServeWrite`, `ServeCall`, `ServeRefused` |
| `value=` | `OwnWrite`; `value` changes nothing, save `OwnReadWild` |
| the end of a block | `BlockReturn`, `BlockRaise` |
| remote clients | `Send`, `GiveUp` (a timeout) |

`callback.onRead` is never assigned (`server.c:398-400`): whether it is NULL is decided
once per variable, by what the stack held, and a read through another value ends the
process (`ServeWild`, `OwnReadWild`). So does a call of a method without a block, for
which nil is called as a proc (`server.c:227`, `ServeNil`). An exception leaves `run` by
`longjmp` out of the middle of the request: what it wrote stays, and nobody answers
(`BlockRaise`).

`RemotePromise` is what clients see: variables, and requests that take effect one by one,
each answered or, if its block raised or the server died, not. `PromiseKept` is the
refinement; a late answer, after the client's timeout, is never taken for that of the
next request, though both requests take effect.

| run | bounds | properties |
|---|---|---|
| `callbacks` | 2 clients, 2 variables, 2 methods, 2 values, 2 requests, 2 blocks deep | `TypeOK`, `ExternalRight`, `Answered`, `PromiseKept` |

Two requests are one while the other is in its block, of the same client (after a
timeout) or of two. Two blocks deep is a write by a block that a client's request runs.
One variable is read-only and without a block, one method has none.

Fairness: the program calls `run` in a loop and rescues what blocks raise
(README.md:230-237, `example/server.rb:71-82`), so `Run` is strongly fair (blocks of the
program's own writes come between); the library takes what has arrived (strong, per
client); a block makes finitely many writes and ends (strong, per depth: the writes it
makes disable its own end meanwhile). Nothing is assumed of clients.

## Values and calls

`Values.tla` has `value_to_variant`, `value_to_array` and `extract_value` as operators.
The widths of the integers are constants, and so are the range of fixnums, the integers
a double holds, how it rounds, how times are cut to seconds and strings at a NUL; floats are told
apart by their integral part. `Wrap` is an assignment to a C integer, `FromInt` the six
proposals with `NUM2INT` refusing for the narrow ones, `FromArray` what the class of the
first element does to all.

`Exchange.tla` composes them: a client's `value=` reads the variable's type and proposes
the table index one below its number (`client.c:72`), the library checks the type, both
sides read; a call sends its arguments under the proposals of the declared inputs, the
method's block gets them converted back, and its value comes back as the result.

| operation | actions |
|---|---|
| client `value=` | `ClientWrite`; `ClientWriteBlind` when the type could not be read |
| server `value=` | `OwnWrite` |
| `value`, both sides | `Value` |
| `call` | `Call`, `CallShort`, `CallGarbage`, `CallUnread`, `CallReturn` |
| method callback | `Serve`, `BlockReturn`; `Refuse` is the library's check |
| environment | `ForeignWrite` (another server's program) |

What the C code reads uninitialised is a choice: the proposal of an argument without a
declared input (`client.c:530-543`), the variant of one that is not converted, the type
after a failed read (`client.c:69`), the `InputArguments` of a method that has none
(`client.c:524-528`). Proposals past the end of their array may end the process (`gone`).

| run | bounds | properties |
|---|---|---|
| `exchange` | bytes of 2 bits, shorts of 3, ints of 4, fixnums -18..17, doubles exact to 16, 4 ticks per second | `TypeOK`, `ReadsBack`, `CallFaithful` |
| `exchange_types` | the same | `TimesAreDateTimes`, violated |

Every fixnum is written to a variable of every type, so each width is met at its edges
and beyond; arrays of up to two elements mix all classes; texts are empty, plain, with a
NUL, beyond ASCII, and both.

`ComesBack` lists, type by type, the values that are read back as they were written, a
symbol as a string and an integer in an array as a float. `ReadsBack` and `CallFaithful`
say that these survive and no others do; so they state what the code does, and not that
it does what a caller would wish. A type could hold more than comes back from it:

* FLOAT, INT64 and UINT64: nothing that a client writes (a float goes out as DOUBLE, an
  integer as INT32, and the library refuses both);
* DOUBLE: no integer, which goes out as INT32;
* SBYTE: no negative, as `CHR2FIX` keeps the eight bits (`values.c:209`), while the upper
  half of the byte does come back, being stored as negatives;
* no type: integers beyond INT32 are cut to it without a word;
* DATETIME: fractions of a second; NODEID: everything;
* texts: what follows a NUL, and any that is not ASCII, for the bytes come back without an
  encoding (`rb_str_new`, and `rb_str_export_locale` gives the locale's to ASCII only,
  `values.c:227-232`), and Ruby calls such a string unequal to the one written. A binary
  string comes back;
* arrays: empty ones, those of times, those mixed of several kinds, and all of BYTE, SBYTE
  and BYTESTRING.

A float is told apart by its integral part and is never infinite; a locale whose encoding
contains ASCII is assumed.

## Findings

* `server_nested_block`: README.md:154-155 says that the block of a variable is called
  whenever the variable changes. Blocks are found by the number of the declaration
  (`server.c:644-646`); a variable that a type's object gets from its own type is a copy
  the library made, under a number the hash does not have. The shape is that of
  `example/bug5.rb` and `example/server_deep.rb`, with a block added.
* `server_dead_type`: `server.c:721` tests `ns->exists` a second time where its message
  ("Target node does not exist anymore.") is about `ts`. A deleted type is not refused.
* `exchange_types`: README.md:226 says of values without a data type that the correct one
  will be used. An array of times is stored with the element type BOOLEAN
  (`values.c:14-25`), and what is read back are the first bytes of 1970-01-01.

## Proofs

The proof modules follow one pattern. The properties are not inductive, so an invariant
that is strengthens them (`ClientInv`, `ServerInv`, `PathInv` and `ExactInv` are checked by TLC as well), and the
proof module shows that `Init` implies it, that every action keeps it (one lemma per
action) and that it implies the property. The assumptions are those the component module
makes of its constants.

`ClientProofs` proves `TypeOK`, `ClientInv` and from it `MonIdLive`, `SubsAccounted`,
`NoSilentLoss` and `NoOrphan`, for any number of handles, registrations, grants and
frames. `ClientInv` adds to them that

* ids are granted once, and items live on subscriptions that exist (`LibraryInv`);
* the shared subscription is created once, and no wait is on it (`SubscriptionInv`):
  without this a wait's end could delete it;
* an id that a node keeps, or a deletion in progress carries, names no other node's item
  (`OwnerInv`): without this a late `unsubscribe` could delete another's item;
* a single registration is in one place at a time, the array, a request or the server
  (`OnceInv`): without this an item could be replaced in `monId` by its twin.

`ClientPromiseProofs` proves `OncePerCall` (`OnePlacePerCall`), relative to `ClientInv`,
and `ClientKeepsPromise`: `Spec => PromiseKept`. Each action is shown to be one step of
`ClientPromise` or to leave its variables alone. Two facts carry it: a frame pushed,
replaced or popped changes the sets of frames in a known way (`PushFrames`, `GotoFrames`,
`PopFrames`, `RaiseFrames`), and an id that an `unsubscribe` carries is one item of its
own node at most (`OwnerInv`), so that a deletion ends one registration.

`ClientBlocksProofs` proves `NewestBlock` and `OwnBlock` where blocks make no client calls:
its theorems assume `Shallow` (`MaxDepth <= 2`), without which both are false (see the runs
of `Client`), and nothing of the other constants. `BlocksInv` adds that

* the stack is flat, one C frame and at most a block on it (`Flat`), so that the request
  that reads a block is the only one under way;
* a request under way is for its node's latest block unless a newer entry is in the array
  (`NewestInv`): this is what the item gets when the request succeeds;
* no subscription has fired before it is granted (`FiredInv`).

`ServerProofs` proves `TypeOK`, `ServerInv`, `DeclaredBlocks` and `StaleForGood`, for any
names, blocks, namespaces and numbers. `ServerInv` adds that

* every numeric id in use, by a node or a handle, is below the counter or the standard's,
  and the hash has under the number of each variable and method the block it was declared
  with;
* a declaration contains declarations only, so a walk over a type never meets an
  instance, whose path id would find no block;
* what a walk still has to do is declared and there, and what the library copies is
  mandatory and has a name.

`StaleForGood` then follows because the only new numeric id a step can give a node is the
counter's (`NewNumbers`), and no handle has it.

`ServerPathsProofs` proves `PathInv` and from it `NoClash`, for any names, manifest calls
and depth of nesting. A path is written with a leading slash or without; `Bare` takes it
away, and what is left is the names on the way down from `Objects`: the place of the node.
`PathInv` says, of programs that are `proper`, that

* every node with a path hangs on the node its place says, and on that one alone, and no
  two are in one place (`PathTree`): the paths are a tree;
* what a walk of `manifest` has still to create is apart, by its name, from what is
  there, and nothing else is in the place it creates in (`PathWalk`);
* each walk on the stack creates further down than the one below it (`Downward`), so that
  what it adds is not what the lower one has to create.

That `delete!` keeps the tree needs what `Below`, a recursive function, computes: its value
is closed under what hangs on it alone (`BelowClosed`). The library's induction theorems
are out of reach, but an induction over the natural numbers is had from the theorem that
the finite subsets of a set are well-founded (`SetInduction`), and that is enough to show
that the function exists, step by step (`Iterates`), and that its steps come to an end,
there being finitely many references. `IdAssumption` says that the slash is no browse name
(a name with a slash in it would make two places one) and that `Nil` is no id.

`ServerExactProofs` proves `ExactInv` and from it `Exact`, for any types and subtypes,
numbers, names and depth of nesting. That a new object ends up with what is declared, and
with nothing else, is a matter of two walks that add children one at a time, `manifest`
and then the library's copying, so the proof is about what each step may disturb:

* an id tells what its node hangs on (`ShapeInv`): numbers are declarations, paths are
  what `manifest` made, and the ids of what the library copies are made from the parent's
  and the name, so the library never asks for one that exists (`GeneratedFree`). An
  instance and its type have methods in common, and nothing else;
* a step down never leads back to a new object on the stack, nor to what it is made from
  (`Onward`): only the walk on top adds children, and to no declaration, so what is
  declared and required is the same at the end of a walk as at its beginning;
* the names a new object has are declared or required, and those of the children the walk
  is done with are among them (`Progress`): each step is done with one child and adds at
  most its name (`TopAdvances`).

What a type requires comes from its supertypes, which `Hierarchy` climbs to recursively;
what it climbs to is had from the same induction as `Below` (`ClimbInduction`). Types may
be declared in any order, in themselves and in their own supertypes: what such a type
requires grows as the object is declared, but an object of a type gets its modelling rule
only when it is done (`WalkReturn`), so no walk on the stack counts it as required before
(`WalkShape`, `Progress`).

`CallbacksProofs` proves `TypeOK`, `ExternalRight` and `PromiseKept` of `Callbacks`, for any
clients, variables, values, requests and depth. The conjunction of the first two is
inductive: with the lowest block for the request being served, and only it, told that a
client writes, what `BlockReturn` and `BlockRaise` take off the stack is `serving`'s exactly
when one block is left, which is what the refinement needs of `Finish` and `Break`.

`ExchangeProofs` proves, for all widths and texts that satisfy `ValuesAssumption`, that a
value is converted into a variant that fits a type and is extracted as it was if
`ComesBack` lists it for that type, and only then (`RoundTrip`); that nothing is ever
outside its width (`WidthsKept`); and from these `ReadsBack` (`WritesReadBack`) and
`CallFaithful` (`CallsFaithful`), the latter with what is known of the arguments under way
added (`CallInv`). Both directions matter: that a listed value survives, and that what is
not listed does not, so that the list is neither too long nor too short.

Model-checked only: the liveness properties (fairness and ENABLED are outside the
prover's reach). Every safety invariant and action property of the passing runs is the
subject of a theorem.

## Not modelled

* The library's reconnecting, secure channels and its own timeouts: a broken connection
  is `Drop`, a client that gives up `GiveUp`.
* SIGINT while the handler is not installed: the Ruby interpreter's own business.
* Memory: string ids shared with Ruby strings (`client.c:363`), the node id that
  `UA_MonitoredItemCreateRequest_clear` frees (`client.c:175`), registrations with the
  garbage collector (`client.c:22,100,207`), callback structs that are never freed. What
  goes wrong with them depends on the allocator, the collector and the library's version.
* The publishing interval (`client.c:398`) and `default_ns` of the client, which no order
  of events depends on; descriptions; logging.
* What the nodes of the standard contain: a type of namespace 0 that a program takes for
  its own has no children here. A variable of the standard can be reached by `get` and
  deleted; here, only once the counter has reached its number.
* The searching of `finders.c`: one reference is followed, the first that fits. `Server`
  and `Exchange` take what it finds for found; where its answer is not looked at and
  matters (`client.c:525`) the model has both outcomes.
* The Ruby wrappers, where `add_property_rw` is redefined in terms of itself
  (`server.rb:46-48`).
* `open62541` (`legacy/open62541.h`, most of the repository's lines) is third-party and
  external to all modules; the C prototypes beside it are not part of the extension.
* README.md:169 calls the type argument of `add_object` optional; `server.c:543` raises
  without it.

## Open ends

An abstract type system (a declared tree per type, an instance is a copy of it, blocks
included) that `Server` implements while no object of a type is declared in a type; the
lifetimes of handles and C strings.
