---------------------------- MODULE RemotePromise ----------------------------
(***************************************************************************)
(* What an OPCUA::Server (src/ext/opcua/server/server.c) is for its remote *)
(* clients: a set of variables, and requests that take effect one by one.  *)
(* Blocks, their nesting and server.run are not visible; a request whose   *)
(* block raises is never answered, though it has taken effect.             *)
(***************************************************************************)
EXTENDS Naturals, Sequences

CONSTANTS Remote, Var, Method, ReadOnly, Value, MaxReq

VARIABLES
    value,     \* what the variables hold
    lastReq,   \* requests sent so far
    queue,     \* remote -> its requests on their way, in order
    begun,     \* the request that has taken effect and is not answered yet
    awaiting,  \* remote -> the request it waits for, or 0
    answer     \* remote -> the answer to its last request, None while it has none

vars == <<value, lastReq, queue, begun, awaiting, answer>>

None == [id |-> 0]
Request == [id : 1..MaxReq, op : {"write"}, node : Var, val : Value]
             \cup [id : 1..MaxReq, op : {"read"}, node : Var]
             \cup [id : 1..MaxReq, op : {"call"}, node : Method]

Init ==
    /\ value = [x \in Var |-> "empty"]
    /\ lastReq = 0 /\ begun = None
    /\ queue = [c \in Remote |-> <<>>]
    /\ awaiting = [c \in Remote |-> 0]
    /\ answer = [c \in Remote |-> None]

Send(c, q) ==
    /\ awaiting[c] = 0 /\ q.id = lastReq + 1
    /\ lastReq' = lastReq + 1
    /\ queue' = [queue EXCEPT ![c] = Append(@, q)]
    /\ awaiting' = [awaiting EXCEPT ![c] = q.id]
    /\ answer' = [answer EXCEPT ![c] = None]
    /\ UNCHANGED <<value, begun>>

\* a late answer is not taken for that of a later request
Tell(c, r, res) ==
    \/ /\ awaiting[c] = r
       /\ answer' = [answer EXCEPT ![c] = [id |-> r, res |-> res]]
       /\ awaiting' = [awaiting EXCEPT ![c] = 0]
    \/ /\ awaiting[c] # r
       /\ UNCHANGED <<answer, awaiting>>

GiveUp(c) ==
    /\ awaiting' = [awaiting EXCEPT ![c] = 0]
    /\ UNCHANGED <<value, lastReq, queue, begun, answer>>

\* the server turns to the next request of c
Take(c, q) ==
    /\ begun = None
    /\ queue[c] # <<>> /\ q = queue[c][1]
    /\ queue' = [queue EXCEPT ![c] = Tail(@)]
    /\ UNCHANGED lastReq

Read(c, q) ==
    /\ Take(c, q) /\ q.op = "read"
    /\ Tell(c, q.id, value[q.node])
    /\ UNCHANGED <<value, begun>>

Refuse(c, q) ==
    /\ Take(c, q) /\ q.op # "read"
    /\ Tell(c, q.id, "refused")
    /\ UNCHANGED <<value, begun>>

Written(q) == q.node \in Var \ ReadOnly /\ value' = [value EXCEPT ![q.node] = q.val]

WriteAtOnce(c, q) ==
    /\ Take(c, q) /\ q.op = "write"
    /\ Written(q)
    /\ Tell(c, q.id, "done")
    /\ UNCHANGED begun

Begin(c, q) ==
    /\ Take(c, q)
    /\ \/ q.op = "write" /\ Written(q)
       \/ q.op = "call" /\ UNCHANGED value
    /\ begun' = [id |-> q.id, from |-> c]
    /\ UNCHANGED <<awaiting, answer>>

Finish ==
    /\ begun # None
    /\ Tell(begun.from, begun.id, "done")
    /\ begun' = None
    /\ UNCHANGED <<value, lastReq, queue>>

\* a block raised, or the server has died
Break ==
    /\ begun' = None
    /\ UNCHANGED <<value, lastReq, queue, awaiting, answer>>

\* the server's program writes, at any time
Own(x, v) ==
    /\ value' = [value EXCEPT ![x] = v]
    /\ UNCHANGED <<lastReq, queue, begun, awaiting, answer>>

Next ==
    \/ \E c \in Remote :
         \/ GiveUp(c)
         \/ \E q \in Request : Send(c, q)
         \/ queue[c] # <<>> /\ LET q == queue[c][1] IN
              Read(c, q) \/ Refuse(c, q) \/ WriteAtOnce(c, q) \/ Begin(c, q)
    \/ Finish \/ Break
    \/ \E x \in Var, v \in Value : Own(x, v)

Spec == Init /\ [][Next]_vars
=============================================================================
