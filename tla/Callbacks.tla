------------------------------ MODULE Callbacks ------------------------------
(***************************************************************************)
(* OPCUA::Server (src/ext/opcua/server/server.c) at work: server.run takes *)
(* the requests of remote clients, node_add_variable_callback and          *)
(* node_add_method_callback call Ruby blocks, and a block, like the        *)
(* program itself, may read and write variables, which calls blocks again, *)
(* or raise.                                                               *)
(*                                                                         *)
(* Everything happens on one stack. `stack` holds the blocks being run;    *)
(* the lowest may have been called for a remote request (`serving`) from   *)
(* inside UA_Server_run_iterate (`running`), all others for writes of the  *)
(* program or of the block below. Of a block only what it was told of the   *)
(* writer matters here. Blocks do not call server.run.                     *)
(***************************************************************************)
EXTENDS Naturals, Sequences

CONSTANTS
    Remote,     \* clients of the server
    Var,        \* variables
    Method,     \* methods
    ReadOnly,   \* variables made by add_variable, not add_variable_rw
    Blockless,  \* variables and methods without a block
    Value,
    MaxReq,     \* bound: requests the clients send
    MaxDepth    \* bound: blocks within blocks

ASSUME CallbacksAssumption ==
    /\ ReadOnly \subseteq Var
    /\ Blockless \subseteq Var \cup Method
    /\ MaxReq \in Nat /\ MaxDepth \in Nat
    /\ Value \cap {"empty", "done", "refused"} = {}
    /\ "own" \notin Remote    \* the server's own session is no client's

ReqId == 1..MaxReq
None == [id |-> 0]

VARIABLES
    value,     \* what the variables hold
    wild,      \* variables whose onRead, never set, is not NULL
    running,   \* in UA_Server_run_iterate
    serving,   \* the request the lowest block was called for, or None
    stack,     \* blocks being run: the `external` each was called with
    gone,      \* the process has died
    \* the clients and the connections to them (external)
    lastReq,   \* requests sent so far
    inbox,     \* remote -> requests the server has not taken yet
    awaiting,  \* remote -> the request it waits for, or 0
    answer,    \* remote -> the answer to its last request, None while it has none
    broken     \* history: requests whose block raised

server == <<value, wild, running, serving, stack, gone>>
remote == <<lastReq, inbox, awaiting, answer>>
vars   == <<server, remote, broken>>

Write   == [id : ReqId, op : {"write"}, node : Var, val : Value]
Read    == [id : ReqId, op : {"read"}, node : Var]
Call    == [id : ReqId, op : {"call"}, node : Method]
Request == Write \cup Read \cup Call
Serving == {None} \cup [id : ReqId, from : Remote]
Content == Value \cup {"empty"}
Result  == Content \cup {"done", "refused"}

Depth == Len(stack)
\* Ruby code runs: the program itself, or a block
InRuby == ~gone /\ (stack = <<>> => ~running)

Init ==
    /\ value = [x \in Var |-> "empty"]
    /\ wild \in SUBSET Var
    /\ running = FALSE /\ serving = None /\ stack = <<>> /\ gone = FALSE
    /\ lastReq = 0
    /\ inbox = [c \in Remote |-> <<>>]
    /\ awaiting = [c \in Remote |-> 0]
    /\ answer = [c \in Remote |-> None]
    /\ broken = {}

-----------------------------------------------------------------------------
(* Remote clients: one request at a time, unless the client gives up on one. *)
(* What they do once the server has died is of no interest.                  *)

Send(c, q) ==
    /\ awaiting[c] = 0 /\ ~gone
    /\ q.id = lastReq + 1
    /\ lastReq' = q.id
    /\ inbox' = [inbox EXCEPT ![c] = Append(@, q)]
    /\ awaiting' = [awaiting EXCEPT ![c] = q.id]
    /\ answer' = [answer EXCEPT ![c] = None]
    /\ UNCHANGED <<server, broken>>

\* a timeout; the request is still on its way, or being served
GiveUp(c) ==
    /\ awaiting[c] # 0 /\ ~gone
    /\ awaiting' = [awaiting EXCEPT ![c] = 0]
    /\ UNCHANGED <<server, lastReq, inbox, answer, broken>>

\* an answer that nobody waits for any more is dropped
Reply(c, r, res) ==
    IF awaiting[c] = r
      THEN /\ answer' = [answer EXCEPT ![c] = [id |-> r, res |-> res]]
           /\ awaiting' = [awaiting EXCEPT ![c] = 0]
      ELSE UNCHANGED <<answer, awaiting>>

-----------------------------------------------------------------------------
(* server.run *)

Run ==
    /\ InRuby /\ stack = <<>>
    /\ running' = TRUE
    /\ UNCHANGED <<value, wild, serving, stack, gone, remote, broken>>

RunReturn ==
    /\ running /\ stack = <<>> /\ ~gone
    /\ running' = FALSE
    /\ UNCHANGED <<value, wild, serving, stack, gone, remote, broken>>

\* the next request of c, and the library ready to serve it
First(c) == inbox[c][1]
Ready(c) == running /\ stack = <<>> /\ ~gone /\ inbox[c] # <<>>
Taken(c) == inbox' = [inbox EXCEPT ![c] = Tail(@)]

\* node_add_variable_callback compares the writer's session with the server's own;
\* mutant: it would ask whether server.run is going on
WithinRun(session) == running
External(session) == session # "own"

\* The library stores the value and calls node_add_variable_callback.
Store(x, v, session) ==
    /\ value' = [value EXCEPT ![x] = v]
    /\ stack' = IF x \in Blockless THEN stack
                ELSE Append(stack, External(session))

\* mutant: every variable is made with the access level of add_variable_rw
AcceptedAll(q) == TRUE
Accepted(q) == q.node \notin ReadOnly

\* the variable is read-only, or the library refuses the types given
ServeRefused(c) ==
    /\ Ready(c) /\ First(c).op # "read"
    /\ Taken(c)
    /\ Reply(c, First(c).id, "refused")
    /\ UNCHANGED <<server, lastReq, broken>>

ServeRead(c) ==
    /\ Ready(c) /\ First(c).op = "read"
    /\ Taken(c)
    /\ Reply(c, First(c).id, value[First(c).node])
    /\ UNCHANGED <<server, lastReq, broken>>

\* answered at once, or when the block has returned
ServeWrite(c) ==
    /\ Ready(c) /\ First(c).op = "write" /\ Accepted(First(c))
    /\ Taken(c)
    /\ Store(First(c).node, First(c).val, c)
    /\ IF First(c).node \in Blockless
         THEN /\ Reply(c, First(c).id, "done")
              /\ UNCHANGED serving
         ELSE /\ serving' = [id |-> First(c).id, from |-> c]
              /\ UNCHANGED <<answer, awaiting>>
    /\ UNCHANGED <<wild, running, gone, lastReq, broken>>

\* node_add_method_callback
ServeCall(c) ==
    /\ Ready(c) /\ First(c).op = "call" /\ First(c).node \notin Blockless
    /\ Taken(c)
    /\ serving' = [id |-> First(c).id, from |-> c]
    /\ stack' = Append(stack, TRUE)
    /\ UNCHANGED <<value, wild, running, gone, lastReq, awaiting, answer, broken>>

Dies ==
    /\ gone' = TRUE
    /\ running' = FALSE /\ serving' = None /\ stack' = <<>>
    /\ UNCHANGED <<value, wild, remote, broken>>

\* nil is called as a proc
ServeNil(c) == Ready(c) /\ First(c).op = "call" /\ First(c).node \in Blockless /\ Dies
\* whatever the stack held is called as onRead
ServeWild(c) == Ready(c) /\ First(c).op = "read" /\ First(c).node \in wild /\ Dies

Serve(c) == ServeRefused(c) \/ ServeRead(c) \/ ServeWrite(c) \/ ServeCall(c)
              \/ ServeNil(c) \/ ServeWild(c)

-----------------------------------------------------------------------------
(* cVarNode#value= and #value, by the program or by a block. A value that is *)
(* not converted, or that the library refuses, changes nothing.              *)

OwnWrite(x, v) ==
    /\ InRuby /\ Depth < MaxDepth
    /\ Store(x, v, "own")
    /\ UNCHANGED <<wild, running, serving, gone, remote, broken>>

OwnReadWild(x) == InRuby /\ x \in wild /\ Dies

-----------------------------------------------------------------------------
(* Blocks end *)

\* mutant of BlockReturn: the callback's return answers nobody
BlockReturnSilent ==
    /\ stack # <<>> /\ ~gone
    /\ stack' = SubSeq(stack, 1, Depth - 1)
    /\ serving' = IF Depth = 1 THEN None ELSE serving
    /\ UNCHANGED <<value, wild, running, gone, remote, broken>>

BlockReturn ==
    /\ stack # <<>> /\ ~gone
    /\ stack' = SubSeq(stack, 1, Depth - 1)
    /\ IF Depth = 1 /\ serving # None
         THEN /\ Reply(serving.from, serving.id, "done")
              /\ serving' = None
         ELSE UNCHANGED <<answer, awaiting, serving>>
    /\ UNCHANGED <<value, wild, running, gone, lastReq, inbox, broken>>

\* mutant of BlockRaise: any block that is alone on the stack is taken for a request's
RaiseAlone ==
    /\ stack # <<>> /\ ~gone
    /\ stack' = SubSeq(stack, 1, Depth - 1)
    /\ IF Depth = 1
         THEN /\ broken' = broken \cup {serving.id}
              /\ serving' = None
              /\ running' = FALSE
         ELSE UNCHANGED <<running, serving, broken>>
    /\ UNCHANGED <<value, wild, gone, remote>>

\* The exception goes to the block or the program that wrote or called run, and no
\* further if that rescues it; nobody answers the request.
BlockRaise ==
    /\ stack # <<>> /\ ~gone
    /\ stack' = SubSeq(stack, 1, Depth - 1)
    /\ IF Depth = 1 /\ serving # None
         THEN /\ broken' = broken \cup {serving.id}
              /\ serving' = None
              /\ running' = FALSE
         ELSE UNCHANGED <<running, serving, broken>>
    /\ UNCHANGED <<value, wild, gone, remote>>

-----------------------------------------------------------------------------

Next ==
    \/ \E c \in Remote : Serve(c) \/ GiveUp(c) \/ \E q \in Request : Send(c, q)
    \/ Run \/ RunReturn \/ BlockReturn \/ BlockRaise
    \/ \E x \in Var : OwnReadWild(x) \/ \E v \in Value : OwnWrite(x, v)

Spec == Init /\ [][Next]_vars

-----------------------------------------------------------------------------
(* Fairness. The program calls server.run in a loop and rescues what a block    *)
(* raises (README.md:230-237, example/server.rb:71-82); the library serves      *)
(* what has arrived; a block makes finitely many writes and ends.               *)

BlockEnds(d) == Depth = d /\ (BlockReturn \/ BlockRaise)

Fairness ==
    /\ SF_vars(Run)
    /\ \A c \in Remote : SF_vars(Serve(c))
    /\ \A d \in 1..MaxDepth : SF_vars(BlockEnds(d))

FairSpec == Spec /\ Fairness

-----------------------------------------------------------------------------
(* Properties *)

TypeOK ==
    /\ value \in [Var -> Content]
    /\ wild \subseteq Var
    /\ running \in BOOLEAN /\ gone \in BOOLEAN
    /\ serving \in Serving
    /\ stack \in Seq(BOOLEAN)
    /\ lastReq \in 0..MaxReq
    /\ inbox \in [Remote -> Seq(Request)]
    /\ awaiting \in [Remote -> 0..MaxReq]
    /\ answer \in [Remote -> {None} \cup [id : ReqId, res : Result]]
    /\ broken \subseteq ReqId

\* A block is told that a client has changed the variable exactly when a client
\* has: not for what the program writes, nor for what a block called for a client's
\* request writes, however deep (README.md:155-156, server.c:369-373).
ExternalRight ==
    /\ serving # None => running /\ stack # <<>>
    /\ \A k \in DOMAIN stack : stack[k] <=> (k = 1 /\ serving # None)

Awaited(r) == \E c \in Remote : awaiting[c] = r

\* Every request that is not given up is answered, unless its block raises or the
\* process has died (server.c:970-978): neither refused requests, nor blocks
\* within blocks, nor the failures of other requests keep a client waiting.
Answered ==
    \A r \in ReqId :
        Awaited(r) ~> (~Awaited(r) \/ r \in broken \/ gone)

Promise == INSTANCE RemotePromise WITH begun <- serving, queue <- inbox

\* What clients see is RemotePromise: variables that change in one step each,
\* requests that take effect once and in the order they were sent, an answer for
\* the request it belongs to, and "done" only after the block has returned
\* (server.c:203-234, 338-377).
PromiseKept == Promise!Spec
=============================================================================
