------------------------------- MODULE Client -------------------------------
(***************************************************************************)
(* OPCUA::Client (src/ext/opcua/client/client.c) around one connection to  *)
(* an OPC UA server: on_change registrations, the shared subscription that *)
(* check_subscription drives, the private subscription of each             *)
(* on_value_change, unsubscribe, disconnect and SIGINT.                    *)
(*                                                                         *)
(* The program is one thread, but not one activity: the library dispatches *)
(* notifications from inside every synchronous call, the callbacks call    *)
(* Ruby blocks, and a block may call back into the client or raise.        *)
(* `stack` holds the C frames and the blocks they run; Ruby code may take  *)
(* a step when the stack is empty or a block is on top of it.              *)
(***************************************************************************)
EXTENDS Integers, FiniteSets, Sequences

CONSTANTS
    Node,      \* cVarNode handles, each on a variable of its own
    MaxReg,    \* bound: on_change calls
    MaxSub,    \* bound: subscriptions the server grants
    MaxItem,   \* bound: monitored items the server grants
    MaxDepth   \* bound: frames on the stack (2: blocks make no client calls)

ASSUME ClientAssumption ==
    /\ MaxReg \in Nat
    /\ MaxSub \in Nat
    /\ MaxItem \in Nat
    /\ MaxDepth \in Nat

RegId  == 1..MaxReg
ProcId == 0..MaxReg   \* 0: Qnil
SubId  == 1..MaxSub
ItemId == 1..MaxItem

VARIABLES
    \* the library and the server behind it (external)
    link,           \* the session is up
    subscriptions,  \* ids of the subscriptions that exist
    items,          \* monitored items the library dispatches to
    due,            \* ids of items with an undelivered notification (queue size 1)
    lastSub,        \* last subscription id granted
    lastItem,       \* last item id granted
    \* client_struct
    started, subrun,
    subid,          \* subscription_response.subscriptionId
    subs,           \* nodes to be monitored; the largest reg is the end of the array
    \* node_struct
    onChange,       \* node -> its on_change proc, as the registration's number
    registered,     \* node -> rb_gc_register_address calls
    monId, waiting,
    \* process
    keepRunning, trap, stack,
    \* history: lastReg only tells procs apart, the others only properties read
    lastReg,        \* on_change calls so far
    withdrawn,      \* nodes whose last registration the program has unsubscribed
                    \* or a failure has discarded
    leaked,         \* subscriptions no code path will delete any more
    unsettled,      \* items whose deletion was asked for without effect, or
                    \* with an effect nobody saw
    fired           \* on_value_change subscriptions whose own block has run

library  == <<link, subscriptions, items, due, lastSub, lastItem>>
client   == <<started, subrun, subid, subs>>
node     == <<onChange, registered, monId, waiting>>
process  == <<keepRunning, trap, stack>>
history  == <<lastReg, withdrawn, leaked, unsettled, fired>>
vars     == <<library, client, node, process, history>>

-----------------------------------------------------------------------------
(* The stack *)

Plain   == [pc : {"call", "create", "drain", "iterate", "disconnect", "block"}]
\* proc is the block the item will call, reg (history) the on_change call it is for
Monitor == [pc : {"monitor"}, node : Node, proc : ProcId, reg : RegId]
Wait    == [pc : {"wait"}, node : Node, sub : SubId]
Removal == [pc : {"unsubscribe"}, node : Node, item : ItemId]
Frame   == Plain \cup Monitor \cup Wait \cup Removal

Depth == Len(stack)
At(pc) == stack # <<>> /\ stack[Depth].pc = pc
Top == stack[Depth]
Caller == stack[Depth - 1]

\* Ruby code runs: the program itself, or a block
InRuby == stack = <<>> \/ At("block")
\* room for a C call and the block it may run
CallFits == Depth + 2 <= MaxDepth
\* the library is waiting for the network, and dispatches what arrives
Polling == stack # <<>> /\ Top.pc \notin {"drain", "block"}

Push(f) == stack' = Append(stack, f)
Goto(f) == stack' = [stack EXCEPT ![Depth] = f]
Pop(n)  == stack' = SubSeq(stack, 1, Depth - n)

\* subscriptions of the on_value_change calls in progress
WaitSubs == {stack[k].sub : k \in {j \in DOMAIN stack : stack[j].pc = "wait"}}

-----------------------------------------------------------------------------
(* The library's records (external) *)

RunItem == [id : ItemId, sub : SubId, node : Node, kind : {"run"}, proc : ProcId,
            reg : RegId]
WaitItem == [id : ItemId, sub : SubId, node : Node, kind : {"wait"}]

RunItems(h) == {i \in items : i.kind = "run" /\ i.node = h}
ItemsOf(s)  == {i \in items : i.sub = s}

\* UA_Client_MonitoredItems_createDataChange: the first notification is due at once
Grant(i) ==
    /\ items' = items \cup {i}
    /\ due' = due \cup {i.id}
    /\ lastItem' = i.id

\* mutant of Delete: nothing is asked of the server
DeleteNothing(s) == UNCHANGED <<subscriptions, items, due>>
\* UA_Client_Subscriptions_deleteSingle, not refused
Delete(s) ==
    /\ subscriptions' = subscriptions \ {s}
    /\ items' = items \ ItemsOf(s)
    /\ due' = due \ {i.id : i \in ItemsOf(s)}

-----------------------------------------------------------------------------
(* Client.new: client_alloc, then client_init, whose connect may fail *)

Init ==
    /\ link \in BOOLEAN
    /\ subscriptions = {} /\ items = {} /\ due = {}
    /\ lastSub = 0 /\ lastItem = 0
    /\ started = link
    /\ subrun = FALSE /\ subid = 0 /\ subs = {}
    /\ onChange = [h \in Node |-> 0]
    /\ registered = [h \in Node |-> 0]
    /\ monId = [h \in Node |-> 0]
    /\ waiting = [h \in Node |-> 0]
    /\ keepRunning = TRUE /\ trap = "ruby" /\ stack = <<>>
    /\ lastReg = 0 /\ withdrawn = {} /\ leaked = {} /\ unsettled = {} /\ fired = {}

-----------------------------------------------------------------------------
(* cVarNode#on_change *)

OnChange(h) ==
    /\ InRuby /\ started
    /\ lastReg < MaxReg
    /\ onChange' = [onChange EXCEPT ![h] = lastReg + 1]
    /\ registered' = [registered EXCEPT ![h] = @ + 1]
    /\ subs' = subs \cup {[node |-> h, reg |-> lastReg + 1]}
    /\ lastReg' = lastReg + 1
    /\ withdrawn' = withdrawn \ {h}
    /\ UNCHANGED <<library, started, subrun, subid, monId, waiting, process,
                   leaked, unsettled, fired>>

-----------------------------------------------------------------------------
(* Client#check_subscription *)

\* mutant of RunAgain: only the first call looks at the array
RunAgainSkipsArray ==
    /\ InRuby /\ CallFits /\ started /\ subrun
    /\ Push([pc |-> "iterate"])
    /\ UNCHANGED <<library, client, node, keepRunning, trap, history>>

\* the shared subscription is already (believed to be) there
RunAgain ==
    /\ InRuby /\ CallFits /\ started /\ subrun
    /\ Push([pc |-> "drain"])
    /\ UNCHANGED <<library, client, node, keepRunning, trap, history>>

\* mutant of RunFirst: subrun is left for the outcome to set
RunFirstLate ==
    /\ InRuby /\ CallFits /\ started /\ ~subrun
    /\ Push([pc |-> "create"])
    /\ UNCHANGED <<library, client, node, keepRunning, trap, history>>

\* subrun is set before the outcome of the creation is known
RunFirst ==
    /\ InRuby /\ CallFits /\ started /\ ~subrun
    /\ subrun' = TRUE
    /\ Push([pc |-> "create"])
    /\ UNCHANGED <<library, started, subid, subs, node, keepRunning, trap, history>>

CheckSubscription == RunAgain \/ RunFirst

SubscriptionCreated ==
    /\ At("create")
    /\ link /\ lastSub < MaxSub
    /\ lastSub' = lastSub + 1
    /\ subid' = lastSub + 1
    /\ subscriptions' = subscriptions \cup {lastSub + 1}
    /\ Goto([pc |-> "drain"])
    /\ UNCHANGED <<link, items, due, lastItem, started, subrun, subs, node,
                   keepRunning, trap, history>>

\* "Subscription could not be created.", with subrun left set
SubscriptionFailed ==
    /\ At("create")
    /\ Pop(1)
    /\ UNCHANGED <<library, client, node, keepRunning, trap, history>>

\* mutants: the entry is read but not popped; the block is the entry's own
KeepEntry(e) == subs
EntryBlock(e) == e.reg

Popped(e) == subs \ {e}
\* read when the request is sent, not when on_change was called
BlockOf(e) == onChange[e.node]

\* the end of the array becomes a request
RunPop ==
    /\ At("drain")
    /\ \E e \in subs :
         /\ \A f \in subs : f.reg <= e.reg
         /\ subs' = Popped(e)
         /\ Goto([pc |-> "monitor", node |-> e.node, proc |-> BlockOf(e),
                  reg |-> e.reg])
    /\ UNCHANGED <<library, started, subrun, subid, node, keepRunning, trap, history>>

\* mutants: a node does not learn its item's id; a failed request has the next id
LearnNothing(h, id) == UNCHANGED monId
NextId == lastItem + 1

Learn(h, id) == monId' = [monId EXCEPT ![h] = id]
\* monitoredItemId of a failed response
FailedId == 0

MonitorCreated ==
    /\ At("monitor")
    /\ link /\ subid \in subscriptions /\ lastItem < MaxItem
    /\ Grant([id |-> lastItem + 1, sub |-> subid, node |-> Top.node,
              kind |-> "run", proc |-> Top.proc, reg |-> Top.reg])
    /\ Learn(Top.node, lastItem + 1)
    /\ Goto([pc |-> "drain"])
    /\ UNCHANGED <<link, subscriptions, lastSub, client, onChange, registered,
                   waiting, keepRunning, trap, history>>

\* "Monitoring item failed": the popped entry is gone
MonitorFailed ==
    /\ At("monitor")
    /\ Learn(Top.node, FailedId)
    /\ withdrawn' = withdrawn \cup {Top.node}
    /\ Pop(1)
    /\ UNCHANGED <<library, client, onChange, registered, waiting, keepRunning,
                   trap, lastReg, leaked, unsettled, fired>>

RunDrained ==
    /\ At("drain") /\ subs = {}
    /\ Goto([pc |-> "iterate"])
    /\ UNCHANGED <<library, client, node, keepRunning, trap, history>>

RunReturn ==
    /\ At("iterate")
    /\ Pop(1)
    /\ UNCHANGED <<library, client, node, keepRunning, trap, history>>

-----------------------------------------------------------------------------
(* cVarNode#on_value_change *)

\* mutants: the count goes on from the call before; the loop waits for exactly two
\* notifications; it does not look at keepRunning
KeepCount(h) == UNCHANGED waiting
EndsAtTwo(h) == waiting[h] = 2 \/ ~keepRunning
EndsDeaf(h) == waiting[h] >= 2

ResetCount(h) == waiting' = [waiting EXCEPT ![h] = 0]
LoopEnds(h) == waiting[h] >= 2 \/ ~keepRunning

\* subscription and item granted, `waiting` reset, handler installed, loop entered
OnValueChange(h) ==
    /\ InRuby /\ CallFits /\ started
    /\ link /\ lastSub < MaxSub /\ lastItem < MaxItem
    /\ lastSub' = lastSub + 1
    /\ subscriptions' = subscriptions \cup {lastSub + 1}
    /\ Grant([id |-> lastItem + 1, sub |-> lastSub + 1, node |-> h, kind |-> "wait"])
    /\ ResetCount(h)
    /\ keepRunning' = TRUE
    /\ trap' = "int"
    /\ Push([pc |-> "wait", node |-> h, sub |-> lastSub + 1])
    /\ UNCHANGED <<link, client, onChange, registered, monId, history>>

\* "Monitoring item failed": raised with the new subscription still there
OnValueChangeFailed(h) ==
    /\ InRuby /\ CallFits /\ started
    /\ link /\ lastSub < MaxSub
    /\ lastSub' = lastSub + 1
    /\ subscriptions' = subscriptions \cup {lastSub + 1}
    /\ leaked' = leaked \cup {lastSub + 1}
    /\ ResetCount(h)
    /\ UNCHANGED <<link, items, due, lastItem, client, onChange, registered,
                   monId, process, lastReg, withdrawn, unsettled, fired>>

\* the loop ends; whether the subscription is really deleted is not looked at
WaitReturn ==
    /\ At("wait")
    /\ LoopEnds(Top.node)
    /\ trap' = "default"
    /\ \/ /\ Delete(Top.sub)
          /\ UNCHANGED leaked
       \/ /\ Top.sub \in subscriptions
          /\ leaked' = leaked \cup {Top.sub}
          /\ UNCHANGED <<subscriptions, items, due>>
    /\ Pop(1)
    /\ UNCHANGED <<link, lastSub, lastItem, client, node, keepRunning, lastReg,
                   withdrawn, unsettled, fired>>

-----------------------------------------------------------------------------
(* Notifications: client_run_handler and node_on_value_change_handler *)

NotifyRun(i) ==
    /\ Polling /\ i \in items /\ i.id \in due
    /\ i.kind = "run"
    /\ due' = due \ {i.id}
    /\ Push([pc |-> "block"])
    /\ UNCHANGED <<link, subscriptions, items, lastSub, lastItem, client, node,
                   keepRunning, trap, history>>

\* `waiting` is the node's, not the item's; 3 stands for every larger count
NotifyWait(i) ==
    /\ Polling /\ i \in items /\ i.id \in due
    /\ i.kind = "wait"
    /\ due' = due \ {i.id}
    /\ waiting' = [waiting EXCEPT ![i.node] = IF @ < 3 THEN @ + 1 ELSE 3]
    /\ IF waiting[i.node] + 1 = 2
         THEN Push([pc |-> "block"]) /\ fired' = fired \cup {i.sub}
         ELSE UNCHANGED <<stack, fired>>
    /\ UNCHANGED <<link, subscriptions, items, lastSub, lastItem, client,
                   onChange, registered, monId, keepRunning, trap, lastReg,
                   withdrawn, leaked, unsettled>>

Notify(id) == \E i \in items : i.id = id /\ (NotifyRun(i) \/ NotifyWait(i))

BlockReturn ==
    /\ At("block")
    /\ Pop(1)
    /\ UNCHANGED <<library, client, node, keepRunning, trap, history>>

-----------------------------------------------------------------------------
(* cNode#unsubscribe; Qfalse, and no change, unless subrun and monId > 0 *)

Unsubscribe(h) ==
    /\ InRuby /\ CallFits
    /\ subrun /\ monId[h] > 0
    /\ Push([pc |-> "unsubscribe", node |-> h, item |-> monId[h]])
    /\ UNCHANGED <<library, client, node, keepRunning, trap, history>>

Others(id) == {i \in items : i.id # id}
Forget(id) ==
    /\ items' = Others(id)
    /\ due' = due \ {id}

\* mutant of Without: the whole array is emptied
WithoutAll(h) == {}
Without(h) == {e \in subs : e.node # h}

\* the service's result is not looked at
UnsubscribeReturn ==
    /\ At("unsubscribe")
    /\ \/ Forget(Top.item) /\ UNCHANGED unsettled
       \/ /\ \E i \in items : i.id = Top.item
          /\ unsettled' = unsettled \cup {Top.item}
          /\ UNCHANGED <<items, due>>
    /\ Learn(Top.node, 0)
    /\ subs' = Without(Top.node)
    /\ withdrawn' = withdrawn \cup {Top.node}
    /\ Pop(1)
    /\ UNCHANGED <<link, subscriptions, lastSub, lastItem, started, subrun, subid,
                   onChange, registered, waiting, keepRunning, trap, lastReg,
                   leaked, fired>>

\* any other synchronous call: value, value=, get, namespaces, call. They raise once the
\* client is disconnected, but for call, which asks a library that has no session.
ServiceCall ==
    /\ InRuby /\ CallFits
    /\ Push([pc |-> "call"])
    /\ UNCHANGED <<library, client, node, keepRunning, trap, history>>

CallReturn ==
    /\ At("call")
    /\ Pop(1)
    /\ UNCHANGED <<library, client, node, keepRunning, trap, history>>

-----------------------------------------------------------------------------
(* Client#disconnect; subrun, the subscription's id and the nodes' monIds stay *)

Disconnect ==
    /\ InRuby /\ CallFits /\ started
    /\ Push([pc |-> "disconnect"])
    /\ UNCHANGED <<library, client, node, keepRunning, trap, history>>

SessionGone ==
    /\ link' = FALSE
    /\ subscriptions' = {} /\ items' = {} /\ due' = {}
    /\ UNCHANGED <<lastSub, lastItem>>

DisconnectReturn ==
    /\ At("disconnect")
    /\ started' = FALSE
    /\ SessionGone
    /\ Pop(1)
    /\ UNCHANGED <<subrun, subid, subs, node, keepRunning, trap, history>>

-----------------------------------------------------------------------------
(* A block raises: the exception unwinds the C frame below it as well, and  *)
(* none of them cleans up. A request that frame has sent may still succeed. *)

RaiseThrough(pc) == At("block") /\ Depth > 1 /\ Caller.pc = pc /\ Pop(2)

\* The longjmp leaves the library's loop over the notifications of a response, too: those
\* after the block's, which are of the same subscription, are not delivered any more.
Cut ==
    \E s \in SubId : \E lost \in SUBSET {i.id : i \in ItemsOf(s)} :
        due' = {id \in due \ lost : \E i \in items' : i.id = id}

RaiseFromCall ==
    /\ RaiseThrough("call") \/ RaiseThrough("iterate")
    /\ UNCHANGED <<link, subscriptions, items, lastSub, lastItem, client, node,
                   keepRunning, trap, history>>
    /\ Cut

RaiseFromCreate ==
    /\ RaiseThrough("create")
    /\ \/ /\ link /\ lastSub < MaxSub
          /\ lastSub' = lastSub + 1
          /\ subscriptions' = subscriptions \cup {lastSub + 1}
          /\ leaked' = leaked \cup {lastSub + 1}
       \/ UNCHANGED <<lastSub, subscriptions, leaked>>
    /\ UNCHANGED <<link, items, lastItem, client, node, keepRunning, trap,
                   lastReg, withdrawn, unsettled, fired>>
    /\ Cut

RaiseFromMonitor ==
    /\ RaiseThrough("monitor")
    /\ withdrawn' = withdrawn \cup {Caller.node}
    /\ UNCHANGED <<link, subscriptions, items, lastSub, lastItem, client, node,
                   keepRunning, trap, lastReg, leaked, unsettled, fired>>
    /\ Cut

\* neither the subscription nor the SIGINT handler is taken back
RaiseFromWait ==
    /\ RaiseThrough("wait")
    /\ leaked' = leaked \cup ({Caller.sub} \cap subscriptions)
    /\ UNCHANGED <<link, subscriptions, items, lastSub, lastItem, client, node,
                   keepRunning, trap, lastReg, withdrawn, unsettled, fired>>
    /\ Cut

RaiseFromUnsubscribe ==
    /\ RaiseThrough("unsubscribe")
    /\ unsettled' = unsettled \cup {Caller.item}
    /\ withdrawn' = withdrawn \cup {Caller.node}
    /\ items' = Others(Caller.item) \/ UNCHANGED items
    /\ UNCHANGED <<link, subscriptions, lastSub, lastItem, client, node,
                   keepRunning, trap, lastReg, leaked, fired>>
    /\ Cut

RaiseFromDisconnect ==
    /\ RaiseThrough("disconnect")
    /\ unsettled' = unsettled \cup {i.id : i \in ItemsOf(subid)}
    /\ withdrawn' = withdrawn \cup {i.node : i \in ItemsOf(subid)}
    /\ \/ /\ subrun
          /\ subscriptions' = subscriptions \ {subid}
          /\ items' = items \ ItemsOf(subid)
       \/ UNCHANGED <<subscriptions, items>>
    /\ UNCHANGED <<link, lastSub, lastItem, client, node, keepRunning, trap,
                   lastReg, leaked, fired>>
    /\ Cut

BlockRaise ==
    \/ RaiseFromCall \/ RaiseFromCreate \/ RaiseFromMonitor
    \/ RaiseFromWait \/ RaiseFromUnsubscribe \/ RaiseFromDisconnect

-----------------------------------------------------------------------------
(* The environment *)

\* intHandler, or whatever handles SIGINT when it is not installed (not modelled)
Sigint ==
    /\ trap = "int"
    /\ keepRunning' = FALSE
    /\ UNCHANGED <<library, client, node, trap, stack, history>>

\* external: the connection breaks, or the value of the node's variable changes
Drop ==
    /\ link
    /\ SessionGone
    /\ UNCHANGED <<client, node, process, history>>

Change(h) ==
    /\ due' = due \cup {i.id : i \in {j \in items : j.node = h}}
    /\ UNCHANGED <<link, subscriptions, items, lastSub, lastItem, client, node,
                   process, history>>

-----------------------------------------------------------------------------

Next ==
    \/ \E h \in Node : OnChange(h) \/ OnValueChange(h) \/ OnValueChangeFailed(h)
                         \/ Unsubscribe(h) \/ Change(h)
    \/ CheckSubscription \/ SubscriptionCreated \/ SubscriptionFailed
    \/ RunPop \/ MonitorCreated \/ MonitorFailed \/ RunDrained \/ RunReturn
    \/ WaitReturn \/ UnsubscribeReturn \/ DisconnectReturn
    \/ \E i \in items : NotifyRun(i) \/ NotifyWait(i)
    \/ BlockReturn \/ BlockRaise
    \/ ServiceCall \/ CallReturn
    \/ Disconnect \/ Sigint \/ Drop

Spec == Init /\ [][Next]_vars

-----------------------------------------------------------------------------
(* Fairness. C code and blocks go on; the program calls check_subscription in *)
(* a loop (example/client_subscription.rb:22-25) and variables keep changing; *)
(* a due notification is delivered, and a loop condition looked at, however   *)
(* many others come between.                                                  *)

\* the C frame on top goes on, or returns
FrameStep ==
    \/ SubscriptionCreated \/ SubscriptionFailed
    \/ RunPop \/ MonitorCreated \/ MonitorFailed \/ RunDrained \/ RunReturn
    \/ WaitReturn \/ UnsubscribeReturn \/ CallReturn \/ DisconnectReturn

Fairness ==
    /\ SF_vars(FrameStep)
    /\ WF_vars(BlockReturn \/ BlockRaise)
    /\ SF_vars(stack = <<>> /\ CheckSubscription)
    /\ \A id \in ItemId : SF_vars(Notify(id))
    /\ \A h \in Node : WF_vars(Change(h))

FairSpec == Spec /\ Fairness

-----------------------------------------------------------------------------
(* Properties *)

TypeOK ==
    /\ link \in BOOLEAN /\ subscriptions \subseteq SubId
    /\ items \subseteq RunItem \cup WaitItem
    /\ due \subseteq ItemId
    /\ lastSub \in 0..MaxSub /\ lastItem \in 0..MaxItem
    /\ started \in BOOLEAN /\ subrun \in BOOLEAN /\ subid \in 0..MaxSub
    /\ subs \subseteq [node : Node, reg : RegId]
    /\ onChange \in [Node -> ProcId]
    /\ registered \in [Node -> Nat]
    /\ monId \in [Node -> 0..MaxItem]
    /\ waiting \in [Node -> 0..3]
    /\ keepRunning \in BOOLEAN /\ trap \in {"ruby", "int", "default"}
    /\ stack \in Seq(Frame)
    /\ lastReg \in 0..MaxReg /\ withdrawn \subseteq Node
    /\ leaked \subseteq SubId /\ unsettled \subseteq ItemId /\ fired \subseteq SubId

Pending(h) == {e \in subs : e.node = h}
InRequest(h) == {k \in DOMAIN stack : stack[k].pc = "monitor" /\ stack[k].node = h}

\* The id unsubscribe will send (client.c:498-499) names a live item of this very
\* node on the shared subscription, whatever failed or was interrupted before,
\* unless an earlier deletion of that item was cut short.
MonIdLive ==
    link => \A h \in Node : monId[h] # 0 =>
        \/ monId[h] \in unsettled
        \/ \E i \in RunItems(h) : i.id = monId[h] /\ i.sub = subid

\* With a single on_change on a node, no item of that node is out of reach of
\* unsubscribe: its block cannot go on being called once unsubscribe has
\* returned true and the server has obeyed (client.c:498-502, 599).
NoOrphan ==
    \A h \in Node : registered[h] <= 1 =>
        \A i \in RunItems(h) : i.id = monId[h] \/ i.id \in unsettled

\* A subscription is the shared one, or that of an on_value_change in progress,
\* or one that an exception or a refused deletion has left behind: no return
\* path of the client loses one (client.c:148-177, 614-618, 633-638).
SubsAccounted == subscriptions \subseteq {subid} \cup WaitSubs \cup leaked

\* A registration is never dropped silently: until it is unsubscribed, or a
\* failure raises, it is in the array, in a request, or a monitored item
\* (client.c:102, 620-623).
NoSilentLoss ==
    link => \A h \in Node : registered[h] > 0 =>
        \/ h \in withdrawn
        \/ Pending(h) # {} \/ InRequest(h) # {} \/ RunItems(h) # {}

\* An on_change call is in one place at a time, and once: an entry of the array, a
\* request on the stack or a monitored item, never two of them or two of a kind,
\* whatever blocks and nested calls ran while it travelled (client.c:102, 501, 621).
InSubs(r) == {e \in subs : e.reg = r}
Requests(r) == {k \in DOMAIN stack : stack[k].pc = "monitor" /\ stack[k].reg = r}
Granted(r) == {i \in items : i.kind = "run" /\ i.reg = r}
OncePerCall ==
    /\ \A r \in RegId : InSubs(r) # {} \/ Requests(r) # {} \/ Granted(r) # {} => r <= lastReg
    /\ \A r \in RegId :
         /\ \A e, f \in InSubs(r) : e = f
         /\ \A k, l \in Requests(r) : k = l
         /\ \A i, j \in Granted(r) : i = j
         /\ InSubs(r) # {} => Requests(r) = {} /\ Granted(r) = {}
         /\ Requests(r) # {} => Granted(r) = {}

\* Once no entry of a node is left in the array, the item unsubscribe would
\* delete is the one that calls the node's latest block (client.c:99, 598-599).
NewestBlock ==
    link /\ stack = <<>> => \A h \in Node \ withdrawn :
        Pending(h) = {} => \A i \in RunItems(h) : i.id = monId[h] => i.proc = onChange[h]

\* An on_value_change whose node has no monitored item but its own calls its
\* own block, and calls it exactly when the loop is about to end (client.c:113-115,
\* 169): `waiting` is shared by all items of the node.
OwnBlock ==
    \A k \in DOMAIN stack : stack[k].pc = "wait" =>
        LET f == stack[k]
            own == ItemsOf(f.sub)
        IN  own # {} /\ own = {i \in items : i.node = f.node /\ i.kind = "wait"}
              => (f.sub \in fired <=> waiting[f.node] >= 2)

-----------------------------------------------------------------------------
(* The inductive invariant behind MonIdLive, NoOrphan, SubsAccounted and      *)
(* NoSilentLoss (proved in ClientProofs).                                     *)

\* ids are granted once; items live on subscriptions, run items on the shared one
LibraryInv ==
    /\ \A s \in subscriptions : s <= lastSub
    /\ \A i \in items : i.id <= lastItem /\ i.sub \in subscriptions
    /\ \A i, j \in items : i.id = j.id => i = j
    /\ \A i \in items : i.kind = "run" => i.sub = subid
    /\ ~link => subscriptions = {} /\ items = {}

\* the shared subscription is created at most once, and no wait is on it
SubscriptionInv ==
    /\ subid <= lastSub
    /\ ~subrun => subid = 0
    /\ ~started => ~link
    /\ \A k \in DOMAIN stack : stack[k].pc = "create" =>
         /\ subrun /\ subid = 0
         /\ \A l \in DOMAIN stack : stack[l].pc = "create" => l = k
    /\ \A k \in DOMAIN stack : stack[k].pc = "wait" =>
         stack[k].sub # subid /\ stack[k].sub <= lastSub

\* an item id in the hands of a node, or of a deletion, is that node's for good
Owns(h, id) == /\ id <= lastItem
               /\ \A i \in items : i.id = id => i.kind = "run" /\ i.node = h
OwnerInv ==
    /\ \A h \in Node : Owns(h, monId[h])
    /\ \A k \in DOMAIN stack : stack[k].pc = "unsubscribe" =>
         Owns(stack[k].node, stack[k].item)

InRemoval(h) == {k \in DOMAIN stack : stack[k].pc = "unsubscribe" /\ stack[k].node = h}
\* a registration of h has been through the request
Spent(h) == RunItems(h) # {} \/ monId[h] # 0 \/ InRemoval(h) # {}

\* a single registration is in one place at a time
OnceAt(h) ==
    /\ registered[h] = 0 => Pending(h) = {} /\ InRequest(h) = {} /\ ~Spent(h)
    /\ registered[h] <= 1 =>
         /\ \A e, f \in Pending(h) : e = f
         /\ Pending(h) # {} => InRequest(h) = {} /\ ~Spent(h)
         /\ \A k, l \in InRequest(h) : k = l
         /\ InRequest(h) # {} => ~Spent(h)
         /\ \A i \in RunItems(h) : i.id \notin unsettled =>
              /\ i.id = monId[h]
              /\ \A k \in InRemoval(h) : stack[k].item = i.id
OnceInv == \A h \in Node : OnceAt(h)

\* What makes the safety properties above inductive: no id is granted twice, the
\* shared subscription is created once and never deleted by a wait, an id held by
\* a node names no other node's item, a single registration is in one place.
ClientInv ==
    /\ TypeOK
    /\ LibraryInv /\ SubscriptionInv /\ OwnerInv /\ OnceInv
    /\ MonIdLive /\ SubsAccounted /\ NoSilentLoss

-----------------------------------------------------------------------------
(* Liveness *)

Waits == WaitSubs # {}

\* A pending registration becomes a monitored item, unless the request fails,
\* the node is unsubscribed, or the client or its connection goes away
\* (client.c:609-627 under the loop of example/client_subscription.rb:22-25).
RegistrationServed ==
    \A h \in Node :
        Pending(h) # {} ~> (RunItems(h) # {} \/ h \in withdrawn \/ ~link)

\* on_value_change returns or raises once the variable has changed, unless the
\* connection is lost: nothing in the loop looks at it (client.c:169-171).
WaitEnds == Waits ~> (~Waits \/ ~link)

\* After SIGINT the loop ends, connection or not (client.c:16-17, 167-172).
InterruptEndsWait == (Waits /\ ~keepRunning) ~> ~Waits

-----------------------------------------------------------------------------
(* What on_change promises: the array, the requests and the items are the      *)
(* three places of ClientPromise.                                              *)

Frames(pc) == {stack[k] : k \in {l \in DOMAIN stack : stack[l].pc = pc}}
Asked == {[node |-> f.node, reg |-> f.reg] : f \in Frames("monitor")}
Served == {[node |-> i.node, reg |-> i.reg] : i \in {j \in items : j.kind = "run"}}
Leaving == {f.node : f \in Frames("unsubscribe")}
Closing == Frames("disconnect") # {}

Promise == INSTANCE ClientPromise
             WITH made <- lastReg, waiting <- subs, asked <- Asked, served <- Served,
                  leaving <- Leaving, closing <- Closing, up <- link

\* The client keeps the promise of ClientPromise: what takes a registration away
\* is an unsubscribe of its own node, which ends one monitored item at most, a
\* failed or interrupted request, a disconnect, or the loss of the session; the
\* end of an on_value_change never does (client.c:174-177, 493-506, 609-641).
PromiseKept == Promise!Spec

=============================================================================
