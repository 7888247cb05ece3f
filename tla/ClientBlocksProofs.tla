------------------------- MODULE ClientBlocksProofs -------------------------
(***************************************************************************)
(* Which block the client calls, as long as blocks make no client calls    *)
(* themselves (MaxDepth <= 2), for every value of the other constants.     *)
(* With nested calls both properties fail: a block may wait on the node    *)
(* its caller waits on, and a nested request may take a newer block.       *)
(***************************************************************************)
EXTENDS ClientPromiseProofs

Shallow == MaxDepth <= 2

\* A block is on top of one C frame, and nothing is on top of a block.
Flat == \A k \in DOMAIN stack : k <= 2 /\ (stack[k].pc = "block" <=> k = 2)

Asking(h) == {f \in Frames("monitor") : f.node = h}

\* Once no entry of a node is left, a request of the node is for its latest block;
\* once no request is left either, the item the node knows of is.
NewestInv ==
    \A h \in Node \ withdrawn : Pending(h) = {} =>
        /\ \A f \in Asking(h) : f.proc = onChange[h]
        /\ Asking(h) = {} =>
             \A i \in RunItems(h) : i.id = monId[h] => i.proc = onChange[h]

\* No call has a subscription that has fired for an earlier one.
FiredInv == \A s \in fired : s <= lastSub

BlocksInv == Shallow /\ Flat /\ NewestInv /\ FiredInv /\ OwnBlock

-----------------------------------------------------------------------------
(* The stack is flat *)

\* With room for two frames, Ruby code that may call the client is the program.
LEMMA CallsFromTop ==
    ASSUME TypeOK, Shallow, CallFits PROVE stack = <<>>
<1>1. stack \in Seq(Frame) BY DEF TypeOK
<1>2. Len(stack) = 0 BY <1>1, ClientAssumption DEF CallFits, Shallow, Depth
<1> QED BY <1>1, <1>2

\* A C frame at the top of a flat stack is its only frame.
LEMMA OneFrame ==
    ASSUME TypeOK, Flat, NEW pc, At(pc), pc # "block"
    PROVE  Depth = 1 /\ DOMAIN stack = {1} /\ stack[1] = Top /\ Top.pc = pc
<1>1. stack \in Seq(Frame) BY DEF TypeOK
<1>2. Depth \in Nat /\ Depth >= 1 /\ Depth \in DOMAIN stack /\ Top = stack[Depth] /\ Top.pc = pc
  BY <1>1, AtFacts
<1>3. Depth = 1 BY <1>2 DEF Flat
<1>4. DOMAIN stack = 1..1 BY <1>1, <1>3 DEF Depth
<1> QED BY <1>2, <1>3, <1>4

\* Every step leaves the stack flat.
LEMMA FlatStep ==
    ASSUME TypeOK, Shallow, Flat, [Next]_vars PROVE Flat'
<1> USE DEF library, client, node, process, history
<1>0. stack \in Seq(Frame) BY DEF TypeOK
<1>1. ASSUME stack = <<>>, NEW f \in Frame, f.pc # "block", Push(f) PROVE Flat'
  BY <1>0, <1>1, PushFacts DEF Flat, Depth
<1>2. ASSUME RunAgain \/ RunFirst \/ ServiceCall \/ Disconnect PROVE Flat'
  <2>1. PICK pc \in {"create", "drain", "call", "iterate", "disconnect"} : Push([pc |-> pc])
    BY <1>2 DEF RunAgain, RunFirst, ServiceCall, Disconnect
  <2>2. stack = <<>>
    BY <1>2, CallsFromTop DEF RunAgain, RunFirst, ServiceCall, Disconnect
  <2> QED BY <1>1, <2>1, <2>2, PlainFrames
<1>3. ASSUME NEW h \in Node, OnValueChange(h) PROVE Flat'
  <2>1. [pc |-> "wait", node |-> h, sub |-> lastSub + 1] \in Frame
    BY <1>3, ClientAssumption DEF OnValueChange, Frame, Wait, TypeOK, SubId
  <2> QED BY <1>1, <1>3, <2>1, CallsFromTop DEF OnValueChange
<1>4. ASSUME NEW h \in Node, Unsubscribe(h) PROVE Flat'
  <2>1. [pc |-> "unsubscribe", node |-> h, item |-> monId[h]] \in Frame
    BY <1>4 DEF Unsubscribe, Frame, Removal, TypeOK, ItemId
  <2> QED BY <1>1, <1>4, <2>1, CallsFromTop DEF Unsubscribe
<1>5. ASSUME NEW pc \in {"create", "drain", "monitor"}, At(pc),
             NEW f \in Frame, f.pc # "block", Goto(f)
      PROVE  Flat'
  <2>1. Depth = 1 /\ stack # <<>> BY <1>5, OneFrame DEF At
  <2> QED BY <1>0, <1>5, <2>1, GotoFacts DEF Flat
<1>6. ASSUME SubscriptionCreated \/ MonitorCreated \/ RunDrained PROVE Flat'
  BY <1>5, <1>6, PlainFrames DEF SubscriptionCreated, MonitorCreated, RunDrained
<1>7. ASSUME RunPop PROVE Flat'
  <2>1. PICK e \in subs : Goto([pc |-> "monitor", node |-> e.node,
                                proc |-> onChange[e.node], reg |-> e.reg])
    BY <1>7 DEF RunPop, BlockOf
  <2>2. [pc |-> "monitor", node |-> e.node, proc |-> onChange[e.node], reg |-> e.reg]
          \in Frame
    BY DEF TypeOK, Frame, Monitor
  <2> QED BY <1>5, <1>7, <2>1, <2>2 DEF RunPop
<1>8. ASSUME \/ SubscriptionFailed \/ MonitorFailed \/ RunReturn \/ CallReturn
             \/ BlockReturn \/ WaitReturn \/ UnsubscribeReturn \/ DisconnectReturn
      PROVE  Flat'
  <2>1. Pop(1) /\ Len(stack) >= 1
    BY <1>0, <1>8, AtFacts DEF SubscriptionFailed, MonitorFailed, RunReturn, CallReturn,
         BlockReturn, WaitReturn, UnsubscribeReturn, DisconnectReturn, Depth
  <2> QED BY <2>1, PopRelations DEF Flat, Depth
<1>9. ASSUME BlockRaise PROVE Flat'
  <2>1. PICK pc \in {"call", "iterate", "create", "monitor", "wait", "unsubscribe",
                     "disconnect"} : RaiseThrough(pc)
    BY <1>9 DEF BlockRaise, RaiseFromCall, RaiseFromCreate, RaiseFromMonitor,
         RaiseFromWait, RaiseFromUnsubscribe, RaiseFromDisconnect
  <2>2. \A k \in DOMAIN stack' : k \in DOMAIN stack /\ stack'[k] = stack[k]
    BY <2>1, RaiseFacts
  <2> QED BY <2>2 DEF Flat
<1>10. ASSUME NEW i \in items, NotifyRun(i) \/ NotifyWait(i) PROVE Flat'
  <2>1. CASE UNCHANGED stack BY <2>1 DEF Flat
  <2>2. CASE Push([pc |-> "block"])
    <3>1. Polling BY <1>10 DEF NotifyRun, NotifyWait
    <3>2. At(Top.pc) /\ Top.pc # "block" BY <3>1 DEF Polling, At, Top
    <3>3. Depth = 1 BY <3>2, OneFrame
    <3>4. [pc |-> "block"] \in Frame BY PlainFrames
    <3> QED BY <1>0, <2>2, <3>3, <3>4, PushFacts DEF Flat
  <2> QED BY <1>10, <2>1, <2>2 DEF NotifyRun, NotifyWait
<1>11. ASSUME \/ \E h \in Node : OnChange(h) \/ OnValueChangeFailed(h) \/ Change(h)
              \/ Sigint \/ Drop \/ UNCHANGED vars
       PROVE  Flat'
  <2>1. UNCHANGED stack
    BY <1>11 DEF OnChange, OnValueChangeFailed, Change, Sigint, Drop, vars
  <2> QED BY <2>1 DEF Flat
<1> QED
  BY <1>2, <1>3, <1>4, <1>6, <1>7, <1>8, <1>9, <1>10, <1>11 DEF Next, CheckSubscription

-----------------------------------------------------------------------------
(* The newest block *)

\* Steps that leave the requests, the blocks and what the nodes know alone: items
\* of on_change may disappear, and nodes be withdrawn.
LEMMA NewestQuiet ==
    ASSUME NewestInv, UNCHANGED <<onChange, monId, subs>>, withdrawn \subseteq withdrawn',
           Frames("monitor")' = Frames("monitor"),
           \A i \in items' : i.kind = "run" => i \in items
    PROVE  NewestInv'
BY DEF NewestInv, Pending, Asking, RunItems

\* A registration leaves an entry in the array.
LEMMA NewestOnChange ==
    ASSUME TypeOK, NewestInv, NEW h \in Node, OnChange(h) PROVE NewestInv'
<1>1. /\ subs' = subs \cup {[node |-> h, reg |-> lastReg + 1]}
      /\ withdrawn' = withdrawn \ {h}
      /\ UNCHANGED <<stack, items, monId>>
      /\ \A g \in Node : g # h => onChange'[g] = onChange[g]
  BY DEF OnChange, library, process, TypeOK
<1>2. [node |-> h, reg |-> lastReg + 1] \in Pending(h)' BY <1>1 DEF Pending
<1>3. \A g \in Node : g # h => Pending(g)' = Pending(g) BY <1>1 DEF Pending
<1>4. \A g \in Node : Asking(g)' = Asking(g) /\ RunItems(g)' = RunItems(g)
  BY <1>1 DEF Asking, Frames, RunItems
<1> QED BY <1>1, <1>2, <1>3, <1>4 DEF NewestInv

\* The block of a request is read when the entry leaves the array.
LEMMA NewestRunPop == ASSUME TypeOK, Flat, NewestInv, RunPop PROVE NewestInv'
<1>1. PICK e \in subs :
        /\ subs' = subs \ {e}
        /\ Goto([pc |-> "monitor", node |-> e.node, proc |-> onChange[e.node],
                 reg |-> e.reg])
  BY DEF RunPop, Popped, BlockOf
<1> DEFINE f == [pc |-> "monitor", node |-> e.node, proc |-> onChange[e.node],
                 reg |-> e.reg]
<1>2. f \in Frame BY DEF TypeOK, Frame, Monitor
<1>3. Depth = 1 /\ DOMAIN stack = {1} /\ stack[1].pc = "drain"
  BY OneFrame DEF RunPop
<1>4. DOMAIN stack' = {1} /\ stack'[1] = f
  BY <1>1, <1>2, <1>3, GotoFacts DEF TypeOK, RunPop, At
<1>5. Frames("monitor") = {} BY <1>3 DEF Frames
<1>6. Frames("monitor")' = {f} BY <1>4 DEF Frames
<1>7. UNCHANGED <<onChange, monId, items, withdrawn>>
  BY DEF RunPop, library, node, history
<1>8. \A h \in Node : /\ RunItems(h)' = RunItems(h) /\ Asking(h) = {}
                      /\ h # e.node => Asking(h)' = {} /\ Pending(h)' = Pending(h)
                      /\ h = e.node => Asking(h)' = {f}
  BY <1>1, <1>5, <1>6, <1>7 DEF RunItems, Asking, Pending
<1>9. f.proc = onChange[e.node] OBVIOUS
<1> QED BY <1>7, <1>8, <1>9 DEF NewestInv

\* The item of a request that succeeds is the one its node knows of.
LEMMA NewestMonitorCreated ==
    ASSUME ClientInv, Flat, NewestInv, MonitorCreated PROVE NewestInv'
<1>0. TypeOK BY DEF ClientInv
<1>1. Depth = 1 /\ DOMAIN stack = {1} /\ stack[1] = Top /\ Top.pc = "monitor"
  BY <1>0, OneFrame DEF MonitorCreated
<1>2. Top.node \in Node BY <1>0, AtFacts, FrameKinds DEF MonitorCreated, TypeOK
<1>3. DOMAIN stack' = {1} /\ stack'[1].pc = "drain"
  BY <1>0, <1>1, PlainFrames, GotoFacts DEF TypeOK, MonitorCreated, At
<1>4. Frames("monitor") = {Top} /\ Frames("monitor")' = {} BY <1>1, <1>3 DEF Frames
<1>5. PICK new :
        /\ items' = items \cup {new}
        /\ new.id = lastItem + 1 /\ new.node = Top.node /\ new.proc = Top.proc
  <2> DEFINE i == [id |-> lastItem + 1, sub |-> subid, node |-> Top.node,
                   kind |-> "run", proc |-> Top.proc, reg |-> Top.reg]
  <2>1. items' = items \cup {i} BY DEF MonitorCreated, Grant
  <2>2. i.id = lastItem + 1 /\ i.node = Top.node /\ i.proc = Top.proc OBVIOUS
  <2> HIDE DEF i
  <2> QED BY <2>1, <2>2
<1>6. monId' = [monId EXCEPT ![Top.node] = lastItem + 1] /\ monId \in [Node -> 0..MaxItem]
  BY <1>0 DEF MonitorCreated, Learn, TypeOK
<1>7. UNCHANGED <<onChange, subs, withdrawn>>
  BY DEF MonitorCreated, client, history
<1>8. \A i \in items : i.id # lastItem + 1
  <2>1. lastItem \in Nat /\ \A i \in items : i.id \in Nat
    BY <1>0, ClientAssumption DEF TypeOK, RunItem, WaitItem, ItemId
  <2> QED BY <2>1 DEF ClientInv, LibraryInv
<1>9. \A h \in Node : Pending(h)' = Pending(h) BY <1>7 DEF Pending
<1>10. ASSUME NEW h \in Node \ withdrawn', Pending(h)' = {}
       PROVE  \A i \in RunItems(h)' : i.id = monId'[h] => i.proc = onChange'[h]
  <2>1. h \in Node \ withdrawn /\ Pending(h) = {} BY <1>7, <1>9, <1>10
  <2>2. CASE h = Top.node
    <3>1. Top \in Asking(h) BY <1>4, <2>2 DEF Asking
    <3>2. Top.proc = onChange[h] BY <2>1, <3>1 DEF NewestInv
    <3> QED BY <1>5, <1>6, <1>7, <1>8, <2>2, <3>2 DEF RunItems
  <2>3. CASE h # Top.node
    <3>1. Asking(h) = {} BY <1>4, <2>3 DEF Asking
    <3>2. RunItems(h)' = RunItems(h) BY <1>5, <2>3 DEF RunItems
    <3>3. monId'[h] = monId[h] BY <1>6, <2>3
    <3> QED BY <1>7, <2>1, <3>1, <3>2, <3>3 DEF NewestInv
  <2> QED BY <2>2, <2>3
<1>11. \A h \in Node : Asking(h)' = {} BY <1>4 DEF Asking
<1> QED BY <1>10, <1>11 DEF NewestInv

\* A request that fails, or is cut short, withdraws its node.
LEMMA NewestMonitorLost ==
    ASSUME TypeOK, Flat, NewestInv, MonitorFailed \/ RaiseFromMonitor PROVE NewestInv'
<1>1. PICK h \in Node :
        /\ withdrawn' = withdrawn \cup {h}
        /\ \A g \in Node : g # h => monId'[g] = monId[g] /\ Asking(g) = {}
  <2>1. CASE MonitorFailed
    <3>1. Depth = 1 /\ DOMAIN stack = {1} /\ stack[1] = Top /\ Top.pc = "monitor"
      BY <2>1, OneFrame DEF MonitorFailed
    <3>2. Top.node \in Node BY <2>1, AtFacts, FrameKinds DEF MonitorFailed, TypeOK
    <3>3. \A g \in Node : g # Top.node => Asking(g) = {} BY <3>1 DEF Asking, Frames
    <3> QED BY <2>1, <3>2, <3>3 DEF MonitorFailed, Learn, TypeOK
  <2>2. CASE RaiseFromMonitor
    <3>1. /\ Depth \in Nat /\ Depth > 1 /\ DOMAIN stack = 1..Depth
          /\ stack[Depth].pc = "block"
          /\ Caller = stack[Depth - 1] /\ Caller \in Frame /\ Caller.pc = "monitor"
      BY <2>2, RaiseFacts DEF RaiseFromMonitor
    <3>2. Depth = 2 BY <3>1 DEF Flat
    <3>3. Frames("monitor") = {Caller} BY <3>1, <3>2 DEF Frames
    <3>4. \A g \in Node : g # Caller.node => Asking(g) = {} BY <3>3 DEF Asking
    <3> QED BY <2>2, <3>1, <3>4, FrameKinds DEF RaiseFromMonitor, node
  <2> QED BY <2>1, <2>2
<1>2. Frames("monitor")' \subseteq Frames("monitor")
  <2>1. CASE MonitorFailed BY <2>1, PopFrames DEF MonitorFailed
  <2>2. CASE RaiseFromMonitor BY <2>2, RaiseFrames DEF RaiseFromMonitor
  <2> QED BY <2>1, <2>2
<1>3. UNCHANGED <<onChange, subs, items>>
  BY DEF MonitorFailed, RaiseFromMonitor, library, client, node
<1>4. \A g \in Node : /\ Pending(g)' = Pending(g) /\ RunItems(g)' = RunItems(g)
                      /\ Asking(g)' \subseteq Asking(g)
  BY <1>2, <1>3 DEF Pending, RunItems, Asking
<1> QED BY <1>1, <1>3, <1>4 DEF NewestInv

\* What an unsubscribe takes is of the node it withdraws.
LEMMA NewestUnsubscribeReturn ==
    ASSUME TypeOK, NewestInv, UnsubscribeReturn PROVE NewestInv'
<1>1. /\ subs' = {e \in subs : e.node # Top.node}
      /\ withdrawn' = withdrawn \cup {Top.node}
      /\ monId' = [monId EXCEPT ![Top.node] = 0]
      /\ UNCHANGED onChange /\ items' \subseteq items
  BY DEF UnsubscribeReturn, Without, Learn, Forget, Others
<1>2. Frames("monitor")' = Frames("monitor") BY PopFrames DEF UnsubscribeReturn
<1>3. \A g \in Node : /\ Asking(g)' = Asking(g) /\ RunItems(g)' \subseteq RunItems(g)
                      /\ g # Top.node => Pending(g)' = Pending(g) /\ monId'[g] = monId[g]
  BY <1>1, <1>2 DEF Asking, RunItems, Pending, TypeOK
<1> QED BY <1>1, <1>3 DEF NewestInv

\* Every step keeps the newest block reachable.
LEMMA NewestStep ==
    ASSUME ClientInv, Shallow, Flat, NewestInv, [Next]_vars PROVE NewestInv'
<1> USE DEF library, client, node, process, history
<1>0. TypeOK /\ stack \in Seq(Frame) BY DEF ClientInv, TypeOK
<1>1. ASSUME RunAgain \/ RunFirst \/ ServiceCall \/ Disconnect PROVE NewestInv'
  <2>1. PICK pc \in {"create", "drain", "call", "disconnect"} : Push([pc |-> pc])
    BY <1>1 DEF RunAgain, RunFirst, ServiceCall, Disconnect
  <2>2. Frames("monitor")' = Frames("monitor") BY <1>0, <2>1, PlainFrames, PushFrames
  <2> QED BY <1>1, <2>2, NewestQuiet DEF RunAgain, RunFirst, ServiceCall, Disconnect
<1>2. ASSUME SubscriptionCreated \/ RunDrained PROVE NewestInv'
  <2>1. PICK pc \in {"drain", "iterate"} :
          Goto([pc |-> pc]) /\ stack # <<>> /\ Top.pc \in {"create", "drain"}
    BY <1>2 DEF SubscriptionCreated, RunDrained, At, Top
  <2>2. Frames("monitor")' = Frames("monitor") BY <1>0, <2>1, PlainFrames, GotoFrames
  <2> QED BY <1>2, <2>2, NewestQuiet DEF SubscriptionCreated, RunDrained
<1>3. ASSUME \/ SubscriptionFailed \/ RunReturn \/ CallReturn \/ BlockReturn
             \/ WaitReturn \/ DisconnectReturn
      PROVE  NewestInv'
  <2>1. PICK pc \in {"create", "iterate", "call", "block", "wait", "disconnect"} :
          At(pc) /\ Pop(1)
    BY <1>3 DEF SubscriptionFailed, RunReturn, CallReturn, BlockReturn, WaitReturn,
         DisconnectReturn
  <2>2. Frames("monitor")' = Frames("monitor") BY <1>0, <2>1, PopFrames
  <2>3. items' \subseteq items /\ UNCHANGED <<onChange, monId, subs, withdrawn>>
    BY <1>3 DEF SubscriptionFailed, RunReturn, CallReturn, BlockReturn, WaitReturn,
         Delete, DisconnectReturn, SessionGone
  <2> QED BY <2>2, <2>3, NewestQuiet
<1>4. ASSUME \/ RaiseFromCall \/ RaiseFromCreate \/ RaiseFromWait
             \/ RaiseFromUnsubscribe \/ RaiseFromDisconnect
      PROVE  NewestInv'
  <2>1. PICK pc \in {"call", "iterate", "create", "wait", "unsubscribe", "disconnect"} :
          RaiseThrough(pc)
    BY <1>4 DEF RaiseFromCall, RaiseFromCreate, RaiseFromWait, RaiseFromUnsubscribe,
         RaiseFromDisconnect
  <2>2. Frames("monitor")' = Frames("monitor") BY <1>0, <2>1, RaiseFrames
  <2>3. /\ items' \subseteq items /\ withdrawn \subseteq withdrawn'
        /\ UNCHANGED <<onChange, monId, subs>>
    BY <1>4 DEF RaiseFromCall, RaiseFromCreate, RaiseFromWait, RaiseFromUnsubscribe,
         RaiseFromDisconnect, Others
  <2> QED BY <2>2, <2>3, NewestQuiet
<1>5. ASSUME NEW i \in items, NotifyRun(i) \/ NotifyWait(i) PROVE NewestInv'
  <2>1. UNCHANGED stack \/ Push([pc |-> "block"]) BY <1>5 DEF NotifyRun, NotifyWait
  <2>2. Frames("monitor")' = Frames("monitor")
    <3>1. CASE UNCHANGED stack BY <3>1 DEF Frames
    <3>2. CASE Push([pc |-> "block"]) BY <1>0, <3>2, PlainFrames, PushFrames
    <3> QED BY <2>1, <3>1, <3>2
  <2> QED BY <1>5, <2>2, NewestQuiet DEF NotifyRun, NotifyWait
<1>6. ASSUME NEW h \in Node, OnValueChange(h) PROVE NewestInv'
  <2>1. [pc |-> "wait", node |-> h, sub |-> lastSub + 1] \in Frame
    BY <1>0, <1>6, ClientAssumption DEF OnValueChange, Frame, Wait, TypeOK, SubId
  <2>2. Frames("monitor")' = Frames("monitor")
    BY <1>0, <1>6, <2>1, PushFrames DEF OnValueChange
  <2>3. \A i \in items' : i.kind = "run" => i \in items BY <1>6 DEF OnValueChange, Grant
  <2> QED BY <1>6, <2>2, <2>3, NewestQuiet DEF OnValueChange
<1>7. ASSUME NEW h \in Node, Unsubscribe(h) PROVE NewestInv'
  <2>1. [pc |-> "unsubscribe", node |-> h, item |-> monId[h]] \in Frame
    BY <1>0, <1>7 DEF Unsubscribe, Frame, Removal, TypeOK, ItemId
  <2>2. Frames("monitor")' = Frames("monitor")
    BY <1>0, <1>7, <2>1, PushFrames DEF Unsubscribe
  <2> QED BY <1>7, <2>2, NewestQuiet DEF Unsubscribe
<1>8. ASSUME \/ \E h \in Node : OnValueChangeFailed(h) \/ Change(h)
             \/ Sigint \/ Drop \/ UNCHANGED vars
      PROVE  NewestInv'
  <2>1. UNCHANGED <<stack, onChange, monId, subs, withdrawn>> /\ items' \subseteq items
    BY <1>8 DEF OnValueChangeFailed, Change, Sigint, Drop, SessionGone, vars
  <2>2. Frames("monitor")' = Frames("monitor") BY <2>1 DEF Frames
  <2> QED BY <2>1, <2>2, NewestQuiet
<1> QED
  BY <1>0, <1>1, <1>2, <1>3, <1>4, <1>5, <1>6, <1>7, <1>8, NewestOnChange, NewestRunPop,
     NewestMonitorCreated, NewestMonitorLost, NewestUnsubscribeReturn
  DEF Next, CheckSubscription, BlockRaise

-----------------------------------------------------------------------------
(* An on_value_change's own block *)

\* OwnBlock, of frames instead of their places.
OwnFrame(f) ==
    LET own == ItemsOf(f.sub)
    IN  own # {} /\ own = {i \in items : i.node = f.node /\ i.kind = "wait"}
          => (f.sub \in fired <=> waiting[f.node] >= 2)

LEMMA OwnFrames == OwnBlock <=> \A f \in Frames("wait") : OwnFrame(f)
BY DEF OwnBlock, OwnFrame, Frames, ItemsOf

LEMMA OwnFramesNext == OwnBlock' <=> \A f \in Frames("wait")' : OwnFrame(f)'
BY DEF OwnBlock, OwnFrame, Frames, ItemsOf

\* Steps after which no on_value_change is under way that was not, and that count
\* and fire nothing: the items are what they were, or the waits are over.
LEMMA OwnQuiet ==
    ASSUME OwnBlock, FiredInv, UNCHANGED <<waiting, fired>>, lastSub <= lastSub',
           lastSub \in Nat, lastSub' \in Nat, fired \subseteq SubId,
           Frames("wait")' \subseteq Frames("wait"),
           UNCHANGED items \/ items' = {} \/ Frames("wait")' = {}
    PROVE  OwnBlock' /\ FiredInv'
<1>1. FiredInv' BY ClientAssumption DEF FiredInv, SubId
<1>2. ASSUME NEW f \in Frames("wait")' PROVE OwnFrame(f)'
  <2>1. OwnFrame(f) BY <1>2, OwnFrames
  <2> QED BY <1>2, <2>1 DEF OwnFrame, ItemsOf
<1> QED BY <1>1, <1>2, OwnFramesNext

\* The call's count starts anew, and its subscription has not fired.
LEMMA OwnOnValueChange ==
    ASSUME TypeOK, Shallow, FiredInv, NEW h \in Node, OnValueChange(h)
    PROVE  OwnBlock' /\ FiredInv'
<1> DEFINE f == [pc |-> "wait", node |-> h, sub |-> lastSub + 1]
<1>1. f \in Frame
  BY ClientAssumption DEF OnValueChange, Frame, Wait, TypeOK, SubId
<1>2. stack = <<>> BY CallsFromTop DEF OnValueChange
<1>3. Frames("wait") = {} BY <1>2 DEF Frames
<1>4. Frames("wait")' = {f} BY <1>1, <1>3, PushFrames DEF OnValueChange, TypeOK
<1>5. lastSub \in Nat /\ lastSub' = lastSub + 1 /\ UNCHANGED fired /\ waiting'[h] = 0
  BY ClientAssumption DEF OnValueChange, ResetCount, TypeOK, history
<1>6. FiredInv' BY <1>5, ClientAssumption DEF FiredInv, TypeOK, SubId
<1>7. lastSub + 1 \notin fired BY <1>5, ClientAssumption DEF FiredInv, TypeOK, SubId
<1>8. ASSUME NEW g \in Frames("wait")' PROVE OwnFrame(g)'
  <2>1. g.node = h /\ g.sub = lastSub + 1 BY <1>4, <1>8
  <2> QED BY <1>5, <1>7, <2>1 DEF OwnFrame
<1> QED BY <1>6, <1>8, OwnFramesNext

\* The second notification of a node with no item but the call's own fires it.
LEMMA OwnNotifyWait ==
    ASSUME ClientInv, OwnBlock, FiredInv, NEW i \in items, NotifyWait(i)
    PROVE  OwnBlock' /\ FiredInv'
<1>0. TypeOK BY DEF ClientInv
<1>1. UNCHANGED stack \/ Push([pc |-> "block"]) BY DEF NotifyWait
<1>2. Frames("wait")' = Frames("wait")
  <2>1. CASE UNCHANGED stack BY <2>1 DEF Frames
  <2>2. CASE Push([pc |-> "block"])
    BY <1>0, <2>2, PlainFrames, PushFrames DEF TypeOK
  <2> QED BY <1>1, <2>1, <2>2
<1>3. /\ UNCHANGED <<items, lastSub>>
      /\ waiting' = [waiting EXCEPT ![i.node] = IF @ < 3 THEN @ + 1 ELSE 3]
      /\ waiting[i.node] + 1 = 2 => fired' = fired \cup {i.sub}
      /\ waiting[i.node] + 1 # 2 => fired' = fired
      /\ i.kind = "wait"
  BY DEF NotifyWait
<1>4. i.node \in Node /\ waiting \in [Node -> 0..3]
  BY <1>0 DEF TypeOK, RunItem, WaitItem
<1>5. FiredInv'
  <2>1. i.sub \in subscriptions /\ i.sub <= lastSub BY DEF ClientInv, LibraryInv
  <2> QED BY <1>3, <2>1 DEF FiredInv
<1>6. ASSUME NEW f \in Frames("wait") PROVE OwnFrame(f)'
  <2> DEFINE alone == ItemsOf(f.sub) = {j \in items : j.node = f.node /\ j.kind = "wait"}
  <2>1. OwnFrame(f) BY OwnFrames
  <2>2. f.node \in Node BY <1>0, FrameKinds DEF Frames, TypeOK
  <2>3. ItemsOf(f.sub)' = ItemsOf(f.sub) BY <1>3 DEF ItemsOf
  <2>4. CASE i.node = f.node
    <3>1. alone => i.sub = f.sub BY <1>3, <2>4 DEF ItemsOf
    <3>2. waiting[f.node] \in 0..3 BY <1>4, <2>2
    <3>3. waiting'[f.node] = IF waiting[f.node] < 3 THEN waiting[f.node] + 1 ELSE 3
      BY <1>3, <1>4, <2>4
    <3>4. alone => (f.sub \in fired' <=> f.sub \in fired \/ waiting[f.node] = 1)
      BY <1>3, <2>4, <3>1, <3>2
    <3>5. waiting'[f.node] >= 2 <=> waiting[f.node] >= 2 \/ waiting[f.node] = 1
      BY <3>2, <3>3
    <3> QED BY <1>3, <2>1, <2>3, <3>4, <3>5 DEF OwnFrame
  <2>5. CASE i.node # f.node
    <3>1. alone => i.sub # f.sub BY <1>3, <2>5 DEF ItemsOf
    <3>2. waiting'[f.node] = waiting[f.node] BY <1>3, <1>4, <2>2, <2>5
    <3>3. alone => (f.sub \in fired' <=> f.sub \in fired) BY <1>3, <3>1
    <3> QED BY <1>3, <2>1, <2>3, <3>2, <3>3 DEF OwnFrame
  <2> QED BY <2>4, <2>5
<1> QED BY <1>2, <1>5, <1>6, OwnFramesNext

\* Every step calls own blocks only, and in time.
LEMMA OwnStep ==
    ASSUME ClientInv, ClientInv', Shallow, Flat, OwnBlock, FiredInv, [Next]_vars
    PROVE  OwnBlock' /\ FiredInv'
<1> USE DEF library, client, node, process, history
<1>0. /\ TypeOK /\ stack \in Seq(Frame)
      /\ lastSub \in Nat /\ lastSub' \in Nat /\ fired \subseteq SubId
  BY ClientAssumption DEF ClientInv, TypeOK
<1>1. ASSUME RunAgain \/ RunFirst \/ ServiceCall \/ Disconnect PROVE OwnBlock' /\ FiredInv'
  <2>1. PICK pc \in {"create", "drain", "call", "disconnect"} : Push([pc |-> pc])
    BY <1>1 DEF RunAgain, RunFirst, ServiceCall, Disconnect
  <2>2. Frames("wait")' = Frames("wait") BY <1>0, <2>1, PlainFrames, PushFrames
  <2> QED BY <1>0, <1>1, <2>2, OwnQuiet DEF RunAgain, RunFirst, ServiceCall, Disconnect
<1>2. ASSUME SubscriptionCreated \/ RunDrained \/ MonitorCreated PROVE OwnBlock' /\ FiredInv'
  <2>1. PICK top \in {"create", "drain", "monitor"} : At(top)
    BY <1>2 DEF SubscriptionCreated, RunDrained, MonitorCreated
  <2>2. PICK pc \in {"drain", "iterate"} : Goto([pc |-> pc]) /\ stack # <<>>
    BY <1>2 DEF SubscriptionCreated, RunDrained, MonitorCreated, At
  <2>3. DOMAIN stack = {1} /\ Depth = 1 /\ stack[1].pc # "wait" BY <1>0, <2>1, OneFrame
  <2>4. Frames("wait") = {} BY <2>3 DEF Frames
  <2>5. Frames("wait")' = {} BY <1>0, <2>2, <2>3, <2>4, PlainFrames, GotoFrames DEF Top
  <2>6. UNCHANGED <<waiting, fired>> /\ lastSub <= lastSub'
    BY <1>0, <1>2 DEF SubscriptionCreated, RunDrained, MonitorCreated
  <2> QED BY <1>0, <2>4, <2>5, <2>6, OwnQuiet
<1>3. ASSUME RunPop PROVE OwnBlock' /\ FiredInv'
  <2>1. PICK e \in subs : Goto([pc |-> "monitor", node |-> e.node,
                                proc |-> onChange[e.node], reg |-> e.reg])
    BY <1>3 DEF RunPop, BlockOf
  <2>2. [pc |-> "monitor", node |-> e.node, proc |-> onChange[e.node], reg |-> e.reg]
          \in Frame
    BY <1>0 DEF TypeOK, Frame, Monitor
  <2>3. stack # <<>> /\ Top.pc = "drain" BY <1>3 DEF RunPop, At, Top
  <2>4. Frames("wait")' = Frames("wait") BY <1>0, <2>1, <2>2, <2>3, GotoFrames
  <2> QED BY <1>0, <1>3, <2>4, OwnQuiet DEF RunPop
<1>4. ASSUME \/ SubscriptionFailed \/ MonitorFailed \/ RunReturn \/ CallReturn
             \/ WaitReturn \/ UnsubscribeReturn \/ DisconnectReturn
      PROVE  OwnBlock' /\ FiredInv'
  <2>1. PICK pc \in {"create", "monitor", "iterate", "call", "wait", "unsubscribe",
                     "disconnect"} : At(pc) /\ Pop(1)
    BY <1>4 DEF SubscriptionFailed, MonitorFailed, RunReturn, CallReturn, WaitReturn,
         UnsubscribeReturn, DisconnectReturn
  <2>2. Depth = 1 BY <1>0, <2>1, OneFrame
  <2>3. DOMAIN stack' = {} BY <1>0, <2>1, <2>2, PopFacts DEF Depth
  <2>4. Frames("wait")' = {} BY <2>3 DEF Frames
  <2>5. UNCHANGED <<waiting, fired, lastSub>>
    BY <1>4 DEF SubscriptionFailed, MonitorFailed, RunReturn, CallReturn, WaitReturn,
         UnsubscribeReturn, DisconnectReturn, SessionGone
  <2> QED BY <1>0, <2>4, <2>5, OwnQuiet
<1>5. ASSUME BlockReturn PROVE OwnBlock' /\ FiredInv'
  <2>1. Frames("wait")' = Frames("wait") BY <1>0, <1>5, PopFrames DEF BlockReturn
  <2> QED BY <1>0, <1>5, <2>1, OwnQuiet DEF BlockReturn
<1>6. ASSUME BlockRaise PROVE OwnBlock' /\ FiredInv'
  <2>1. PICK pc \in {"call", "iterate", "create", "monitor", "wait", "unsubscribe",
                     "disconnect"} : RaiseThrough(pc)
    BY <1>6 DEF BlockRaise, RaiseFromCall, RaiseFromCreate, RaiseFromMonitor,
         RaiseFromWait, RaiseFromUnsubscribe, RaiseFromDisconnect
  <2>2. /\ \A k \in DOMAIN stack' : k \in DOMAIN stack /\ k # Depth /\ k # Depth - 1
        /\ DOMAIN stack = 1..Depth /\ Depth \in Nat /\ Depth > 1
        /\ stack[Depth].pc = "block"
    BY <1>0, <2>1, RaiseFacts
  <2>3. Depth = 2 BY <2>2 DEF Flat
  <2>4. Frames("wait")' = {} BY <2>2, <2>3 DEF Frames
  <2>5. UNCHANGED <<waiting, fired>> /\ lastSub <= lastSub'
    BY <1>0, <1>6 DEF BlockRaise, RaiseFromCall, RaiseFromCreate, RaiseFromMonitor,
         RaiseFromWait, RaiseFromUnsubscribe, RaiseFromDisconnect
  <2> QED BY <1>0, <2>4, <2>5, OwnQuiet
<1>7. ASSUME NEW i \in items, NotifyRun(i) PROVE OwnBlock' /\ FiredInv'
  <2>1. Frames("wait")' = Frames("wait")
    BY <1>0, <1>7, PlainFrames, PushFrames DEF NotifyRun
  <2> QED BY <1>0, <1>7, <2>1, OwnQuiet DEF NotifyRun
<1>8. ASSUME NEW h \in Node, Unsubscribe(h) PROVE OwnBlock' /\ FiredInv'
  <2>1. [pc |-> "unsubscribe", node |-> h, item |-> monId[h]] \in Frame
    BY <1>0, <1>8 DEF Unsubscribe, Frame, Removal, TypeOK, ItemId
  <2>2. Frames("wait")' = Frames("wait") BY <1>0, <1>8, <2>1, PushFrames DEF Unsubscribe
  <2> QED BY <1>0, <1>8, <2>2, OwnQuiet DEF Unsubscribe
<1>9. ASSUME NEW h \in Node, OnValueChangeFailed(h) PROVE OwnBlock' /\ FiredInv'
  <2>1. stack = <<>> /\ UNCHANGED stack
    BY <1>0, <1>9, CallsFromTop DEF OnValueChangeFailed
  <2>2. Frames("wait")' = {} BY <2>1 DEF Frames
  <2>3. FiredInv'
    BY <1>0, <1>9, ClientAssumption DEF OnValueChangeFailed, FiredInv, SubId
  <2> QED BY <2>2, <2>3, OwnFramesNext
<1>10. ASSUME \/ \E h \in Node : OnChange(h) \/ Change(h)
              \/ Sigint \/ Drop \/ UNCHANGED vars
       PROVE  OwnBlock' /\ FiredInv'
  <2>1. /\ UNCHANGED <<stack, waiting, fired, lastSub>>
        /\ UNCHANGED items \/ items' = {}
    BY <1>10 DEF OnChange, Change, Sigint, Drop, SessionGone, vars
  <2>2. Frames("wait")' = Frames("wait") BY <2>1 DEF Frames
  <2> QED BY <1>0, <2>1, <2>2, OwnQuiet
<1> QED
  BY <1>0, <1>1, <1>2, <1>3, <1>4, <1>5, <1>6, <1>7, <1>8, <1>9, <1>10,
     OwnOnValueChange, OwnNotifyWait
  DEF Next, CheckSubscription

-----------------------------------------------------------------------------
(* The theorems *)

\* The stack stays flat, and what the blocks are called for stays what it is
\* (the invariant behind the two theorems below).
THEOREM BlocksInvariant == Shallow /\ Spec => []BlocksInv
<1>1. Shallow /\ Init => BlocksInv
  <2> SUFFICES ASSUME Shallow, Init PROVE BlocksInv OBVIOUS
  <2>1. DOMAIN stack = {} /\ items = {} /\ fired = {} BY DEF Init
  <2> QED BY <2>1 DEF BlocksInv, Flat, NewestInv, FiredInv, OwnBlock, Asking, Frames, RunItems
<1>2. ClientInv /\ ClientInv' /\ BlocksInv /\ [Next]_vars => BlocksInv'
  <2> SUFFICES ASSUME ClientInv, ClientInv', BlocksInv, [Next]_vars PROVE BlocksInv'
    OBVIOUS
  <2>1. TypeOK BY DEF ClientInv
  <2> QED BY <2>1, FlatStep, NewestStep, OwnStep DEF BlocksInv, Shallow
<1> QED BY <1>1, <1>2, ClientInvariant, PTL DEF Spec

\* Once no entry of a node waits, the item unsubscribe would delete calls the
\* node's latest block.
THEOREM NewestBlockReachable == Shallow /\ Spec => []NewestBlock
<1>1. BlocksInv => NewestBlock
  <2> SUFFICES ASSUME BlocksInv, stack = <<>> PROVE NewestBlock BY DEF NewestBlock
  <2>1. \A h \in Node : Asking(h) = {} BY DEF Asking, Frames
  <2> QED BY <2>1 DEF BlocksInv, NewestInv, NewestBlock
<1> QED BY <1>1, BlocksInvariant, PTL

\* An on_value_change whose node has no item but its own calls its own block,
\* and calls it exactly when its loop is about to end.
THEOREM OwnBlockInTime == Shallow /\ Spec => []OwnBlock
<1>1. BlocksInv => OwnBlock BY DEF BlocksInv
<1> QED BY <1>1, BlocksInvariant, PTL

=============================================================================
