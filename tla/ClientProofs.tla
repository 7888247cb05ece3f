---------------------------- MODULE ClientProofs ----------------------------
(***************************************************************************)
(* Theorems about Client, for every value of its constants.                *)
(***************************************************************************)
EXTENDS Client, TLAPS

-----------------------------------------------------------------------------
(* The stack *)

\* What a frame holds is told by its pc.
LEMMA FrameKinds ==
    \A f \in Frame :
        /\ f.pc = "monitor" => f.node \in Node /\ f.proc \in ProcId /\ f.reg \in RegId
        /\ f.pc = "wait" => f.node \in Node /\ f.sub \in SubId
        /\ f.pc = "unsubscribe" => f.node \in Node /\ f.item \in ItemId
BY DEF Frame, Plain, Monitor, Wait, Removal

\* Push keeps the frames below.
LEMMA PushFacts ==
    ASSUME stack \in Seq(Frame), NEW f \in Frame, Push(f)
    PROVE  /\ stack' \in Seq(Frame)
           /\ DOMAIN stack = 1..Depth /\ DOMAIN stack' = 1..(Depth + 1) /\ Depth \in Nat
           /\ \A k \in 1..Depth : stack'[k] = stack[k]
           /\ stack'[Depth + 1] = f
BY DEF Push, Depth

\* Goto replaces the frame on top only.
LEMMA GotoFacts ==
    ASSUME stack \in Seq(Frame), stack # <<>>, NEW f \in Frame, Goto(f)
    PROVE  /\ stack' \in Seq(Frame)
           /\ Depth \in Nat /\ Depth > 0
           /\ DOMAIN stack = 1..Depth /\ DOMAIN stack' = 1..Depth
           /\ \A k \in 1..Depth : k # Depth => stack'[k] = stack[k]
           /\ stack'[Depth] = f
BY DEF Goto, Depth

\* Pop removes the frames on top.
LEMMA PopFacts ==
    ASSUME stack \in Seq(Frame), NEW n \in {1, 2}, Len(stack) >= n, Pop(n)
    PROVE  /\ stack' \in Seq(Frame)
           /\ Depth \in Nat /\ DOMAIN stack = 1..Depth
           /\ DOMAIN stack' = 1..(Depth - n)
           /\ \A k \in 1..(Depth - n) : stack'[k] = stack[k]
BY DEF Pop, Depth

\* A frame with a given pc is on top: there is one, and it is a frame.
LEMMA AtFacts ==
    ASSUME stack \in Seq(Frame), NEW pc, At(pc)
    PROVE  /\ Depth \in Nat /\ Depth >= 1 /\ Depth \in DOMAIN stack
           /\ Top \in Frame /\ Top = stack[Depth] /\ Top.pc = pc
BY DEF At, Top, Depth

-----------------------------------------------------------------------------
(* Type correctness *)

\* The frames that hold nothing but their pc.
LEMMA PlainFrames ==
    \A pc \in {"call", "create", "drain", "iterate", "disconnect", "block"} :
        [pc |-> pc] \in Frame
BY DEF Frame, Plain

\* Every step leaves a stack of frames.
LEMMA StackStep == TypeOK /\ [Next]_vars => stack' \in Seq(Frame)
<1> SUFFICES ASSUME TypeOK, [Next]_vars PROVE stack' \in Seq(Frame) OBVIOUS
<1> USE ClientAssumption, FrameKinds
<1>0. stack \in Seq(Frame) BY DEF TypeOK
<1>1. ASSUME RunAgain PROVE stack' \in Seq(Frame)
  BY <1>1, <1>0, PlainFrames, PushFacts DEF RunAgain
<1>2. ASSUME RunFirst PROVE stack' \in Seq(Frame)
  BY <1>2, <1>0, PlainFrames, PushFacts DEF RunFirst
<1>3. ASSUME ServiceCall PROVE stack' \in Seq(Frame)
  BY <1>3, <1>0, PlainFrames, PushFacts DEF ServiceCall
<1>4. ASSUME Disconnect PROVE stack' \in Seq(Frame)
  BY <1>4, <1>0, PlainFrames, PushFacts DEF Disconnect
<1>5. ASSUME SubscriptionCreated PROVE stack' \in Seq(Frame)
  BY <1>5, <1>0, PlainFrames, GotoFacts DEF SubscriptionCreated, At
<1>6. ASSUME MonitorCreated PROVE stack' \in Seq(Frame)
  BY <1>6, <1>0, PlainFrames, GotoFacts DEF MonitorCreated, Learn, At
<1>7. ASSUME RunDrained PROVE stack' \in Seq(Frame)
  BY <1>7, <1>0, PlainFrames, GotoFacts DEF RunDrained, At
<1>8. ASSUME SubscriptionFailed PROVE stack' \in Seq(Frame)
  BY <1>8, <1>0, AtFacts, PopFacts DEF SubscriptionFailed, Depth
<1>9. ASSUME MonitorFailed PROVE stack' \in Seq(Frame)
  BY <1>9, <1>0, AtFacts, PopFacts DEF MonitorFailed, Learn, FailedId, Depth
<1>10. ASSUME RunReturn PROVE stack' \in Seq(Frame)
  BY <1>10, <1>0, AtFacts, PopFacts DEF RunReturn, Depth
<1>11. ASSUME BlockReturn PROVE stack' \in Seq(Frame)
  BY <1>11, <1>0, AtFacts, PopFacts DEF BlockReturn, Depth
<1>12. ASSUME CallReturn PROVE stack' \in Seq(Frame)
  BY <1>12, <1>0, AtFacts, PopFacts DEF CallReturn, Depth
<1>13. ASSUME DisconnectReturn PROVE stack' \in Seq(Frame)
  BY <1>13, <1>0, AtFacts, PopFacts DEF DisconnectReturn, Depth
<1>14. ASSUME WaitReturn PROVE stack' \in Seq(Frame)
  BY <1>14, <1>0, AtFacts, PopFacts DEF WaitReturn, Depth
<1>15. ASSUME UnsubscribeReturn PROVE stack' \in Seq(Frame)
  BY <1>15, <1>0, AtFacts, PopFacts DEF UnsubscribeReturn, Learn, Without, Depth
<1>16. ASSUME BlockRaise PROVE stack' \in Seq(Frame)
  <2>1. Depth > 1 /\ Pop(2)
    BY <1>16 DEF BlockRaise, RaiseFromCall, RaiseFromCreate, RaiseFromMonitor,
             RaiseFromWait, RaiseFromUnsubscribe, RaiseFromDisconnect, RaiseThrough
  <2> QED BY <1>0, <2>1, PopFacts DEF Depth
<1>17. ASSUME RunPop PROVE stack' \in Seq(Frame)
  <2>1. PICK e \in subs : Goto([pc |-> "monitor", node |-> e.node,
                                proc |-> onChange[e.node], reg |-> e.reg])
    BY <1>17 DEF RunPop, Popped, BlockOf
  <2>2. onChange[e.node] \in ProcId BY DEF TypeOK
  <2> QED BY <1>0, <2>1, <1>17, GotoFacts DEF RunPop, Popped, BlockOf, At, TypeOK, Frame, Monitor
<1>18. ASSUME NEW h \in Node, OnValueChange(h) PROVE stack' \in Seq(Frame)
  <2>1. [pc |-> "wait", node |-> h, sub |-> lastSub + 1] \in Frame
    BY <1>18 DEF OnValueChange, ResetCount, Frame, Wait, TypeOK, SubId
  <2> QED BY <1>0, <2>1, <1>18, PushFacts DEF OnValueChange, ResetCount
<1>19. ASSUME NEW h \in Node, Unsubscribe(h) PROVE stack' \in Seq(Frame)
  <2>1. [pc |-> "unsubscribe", node |-> h, item |-> monId[h]] \in Frame
    BY <1>19 DEF Unsubscribe, Frame, Removal, TypeOK, ItemId
  <2> QED BY <1>0, <2>1, <1>19, PushFacts DEF Unsubscribe
<1>20. ASSUME NEW i \in items, NotifyRun(i) \/ NotifyWait(i) PROVE stack' \in Seq(Frame)
  BY <1>20, <1>0, PlainFrames, PushFacts DEF NotifyRun, NotifyWait
<1>21. ASSUME UNCHANGED stack PROVE stack' \in Seq(Frame)
  BY <1>21, <1>0
<1> QED
  BY <1>1, <1>2, <1>3, <1>4, <1>5, <1>6, <1>7, <1>8, <1>9, <1>10, <1>11, <1>12, <1>13, <1>14, <1>15, <1>16, <1>17, <1>18, <1>19, <1>20, <1>21
  DEF Next, CheckSubscription, OnChange, OnValueChangeFailed, ResetCount, Change, Sigint, Drop,
      vars, process

\* An exception takes notifications away, and adds none.
LEMMA CutKeeps == Cut => due' \subseteq due
BY DEF Cut

\* Every step keeps TypeOK: what is granted stays within its bounds, and an item
\* or a frame holds only ids that were granted.
LEMMA TypeStep == TypeOK /\ [Next]_vars => TypeOK'
<1> SUFFICES ASSUME TypeOK, [Next]_vars PROVE TypeOK' OBVIOUS
<1>0. stack' \in Seq(Frame) BY StackStep
<1> USE <1>0, ClientAssumption, FrameKinds
        DEF TypeOK, RegId, ProcId, SubId, ItemId, library, client, node, process, history
<1>1. ASSUME RunAgain PROVE TypeOK'
  BY <1>1 DEF RunAgain
<1>2. ASSUME RunFirst PROVE TypeOK'
  BY <1>2 DEF RunFirst
<1>3. ASSUME ServiceCall PROVE TypeOK'
  BY <1>3 DEF ServiceCall
<1>4. ASSUME Disconnect PROVE TypeOK'
  BY <1>4 DEF Disconnect
<1>5. ASSUME RunDrained PROVE TypeOK'
  BY <1>5 DEF RunDrained
<1>6. ASSUME SubscriptionFailed PROVE TypeOK'
  BY <1>6 DEF SubscriptionFailed
<1>7. ASSUME RunReturn PROVE TypeOK'
  BY <1>7 DEF RunReturn
<1>8. ASSUME BlockReturn PROVE TypeOK'
  BY <1>8 DEF BlockReturn
<1>9. ASSUME CallReturn PROVE TypeOK'
  BY <1>9 DEF CallReturn
<1>10. ASSUME RunPop PROVE TypeOK'
  BY <1>10 DEF RunPop, Popped, BlockOf
<1>11. ASSUME SubscriptionCreated PROVE TypeOK'
  BY <1>11 DEF SubscriptionCreated
<1>12. ASSUME MonitorCreated PROVE TypeOK'
  <2>1. Top.node \in Node /\ Top.proc \in ProcId /\ Top.reg \in RegId
    BY <1>12, AtFacts DEF MonitorCreated, Learn
  <2>2. lastItem + 1 \in ItemId /\ subid \in SubId BY <1>12 DEF MonitorCreated, Learn
  <2>3. [id |-> lastItem + 1, sub |-> subid, node |-> Top.node, kind |-> "run",
         proc |-> Top.proc, reg |-> Top.reg] \in RunItem
    BY <2>1, <2>2 DEF RunItem
  <2>4. items' \subseteq RunItem \cup WaitItem BY <1>12, <2>3 DEF MonitorCreated, Learn, Grant
  <2>5. due' \subseteq ItemId /\ lastItem' \in 0..MaxItem
    BY <1>12, <2>2 DEF MonitorCreated, Learn, Grant
  <2>6. monId' \in [Node -> 0..MaxItem] BY <1>12, <2>1, <2>2 DEF MonitorCreated, Learn
  <2> QED BY <1>12, <2>4, <2>5, <2>6 DEF MonitorCreated, Learn
<1>13. ASSUME MonitorFailed PROVE TypeOK'
  <2>1. Top.node \in Node BY <1>13, AtFacts DEF MonitorFailed, Learn, FailedId
  <2>2. monId' \in [Node -> 0..MaxItem] /\ withdrawn' \subseteq Node
    BY <1>13, <2>1 DEF MonitorFailed, Learn, FailedId
  <2> QED BY <1>13, <2>2 DEF MonitorFailed, Learn, FailedId
<1>14. ASSUME DisconnectReturn PROVE TypeOK'
  BY <1>14 DEF DisconnectReturn, SessionGone
<1>15. ASSUME WaitReturn PROVE TypeOK'
  BY <1>15, AtFacts DEF WaitReturn, Delete
<1>16. ASSUME UnsubscribeReturn PROVE TypeOK'
  <2>1. Top.node \in Node /\ Top.item \in ItemId BY <1>16, AtFacts DEF UnsubscribeReturn, Learn, Without
  <2>2. unsettled' \subseteq ItemId BY <1>16, <2>1 DEF UnsubscribeReturn, Learn, Without
  <2>3. items' \subseteq items /\ due' \subseteq due BY <1>16 DEF UnsubscribeReturn, Learn, Without, Forget, Others
  <2>4. items' \subseteq RunItem \cup WaitItem /\ due' \subseteq ItemId BY <2>3
  <2>5. monId' \in [Node -> 0..MaxItem] BY <1>16, <2>1 DEF UnsubscribeReturn, Learn
  <2>6. subs' \subseteq [node : Node, reg : RegId] BY <1>16 DEF UnsubscribeReturn, Without
  <2>7. withdrawn' \subseteq Node BY <1>16, <2>1 DEF UnsubscribeReturn
  <2> QED BY <1>16, <2>2, <2>4, <2>5, <2>6, <2>7 DEF UnsubscribeReturn
<1>17. ASSUME NEW h \in Node, OnChange(h) PROVE TypeOK'
  <2>1. lastReg + 1 \in RegId /\ lastReg' \in 0..MaxReg BY <1>17 DEF OnChange
  <2>2. onChange' \in [Node -> ProcId] BY <1>17, <2>1 DEF OnChange
  <2>3. registered' \in [Node -> Nat] BY <1>17 DEF OnChange
  <2>4. subs' \subseteq [node : Node, reg : RegId] BY <1>17, <2>1 DEF OnChange
  <2>5. withdrawn' \subseteq Node BY <1>17 DEF OnChange
  <2> QED BY <1>17, <2>1, <2>2, <2>3, <2>4, <2>5 DEF OnChange
<1>18. ASSUME NEW h \in Node, OnValueChange(h) PROVE TypeOK'
  <2>1. lastSub + 1 \in SubId /\ lastItem + 1 \in ItemId BY <1>18 DEF OnValueChange
  <2>2. [id |-> lastItem + 1, sub |-> lastSub + 1, node |-> h, kind |-> "wait"] \in WaitItem
    BY <2>1 DEF WaitItem
  <2>3. items' \subseteq RunItem \cup WaitItem BY <1>18, <2>2 DEF OnValueChange, Grant
  <2>4. /\ due' \subseteq ItemId /\ subscriptions' \subseteq SubId
        /\ lastItem' \in 0..MaxItem /\ lastSub' \in 0..MaxSub
    BY <1>18, <2>1 DEF OnValueChange, Grant
  <2>5. waiting' \in [Node -> 0..3] BY <1>18 DEF OnValueChange, ResetCount
  <2> QED BY <1>18, <2>3, <2>4, <2>5 DEF OnValueChange
<1>19. ASSUME NEW h \in Node, OnValueChangeFailed(h) PROVE TypeOK'
  BY <1>19 DEF OnValueChangeFailed, ResetCount
<1>20. ASSUME NEW h \in Node, Unsubscribe(h) PROVE TypeOK'
  BY <1>20 DEF Unsubscribe
<1>21. ASSUME NEW h \in Node, Change(h) PROVE TypeOK'
  BY <1>21 DEF Change, RunItem, WaitItem
<1>22. ASSUME NEW i \in items, NotifyRun(i) PROVE TypeOK'
  BY <1>22 DEF NotifyRun
<1>23. ASSUME NEW i \in items, NotifyWait(i) PROVE TypeOK'
  <2>1. i.sub \in SubId /\ i.node \in Node BY DEF RunItem, WaitItem
  <2>2. waiting' \in [Node -> 0..3]
    <3>0. waiting[i.node] \in 0..3 BY <2>1
    <3>1. (IF waiting[i.node] < 3 THEN waiting[i.node] + 1 ELSE 3) \in 0..3
      <4>1. CASE waiting[i.node] < 3 BY <3>0, <4>1
      <4>2. CASE ~(waiting[i.node] < 3) BY <3>0, <4>2
      <4> QED BY <4>1, <4>2
    <3> QED BY <1>23, <2>1, <3>1 DEF NotifyWait
  <2>3. fired' \subseteq SubId BY <1>23, <2>1 DEF NotifyWait
  <2> QED BY <1>23, <2>2, <2>3 DEF NotifyWait
<1>24. ASSUME RaiseFromCall PROVE TypeOK'
  BY CutKeeps, <1>24 DEF RaiseFromCall, RaiseThrough
<1>25. ASSUME RaiseFromCreate PROVE TypeOK'
  <2>1. lastSub' \in 0..MaxSub /\ subscriptions' \subseteq SubId /\ leaked' \subseteq SubId
    <3>1. CASE UNCHANGED <<lastSub, subscriptions, leaked>> BY <3>1
    <3>2. CASE /\ lastSub < MaxSub /\ lastSub' = lastSub + 1
               /\ subscriptions' = subscriptions \cup {lastSub + 1}
               /\ leaked' = leaked \cup {lastSub + 1}
      BY <3>2
    <3> QED BY <1>25, <3>1, <3>2 DEF RaiseFromCreate
  <2> QED BY CutKeeps, <1>25, <2>1 DEF RaiseFromCreate
<1>26. ASSUME RaiseFromMonitor PROVE TypeOK'
  <2>1. Caller \in Frame BY <1>26, AtFacts DEF RaiseFromMonitor, RaiseThrough, Caller, Depth
  <2> QED BY CutKeeps, <1>26, <2>1 DEF RaiseFromMonitor, RaiseThrough
<1>27. ASSUME RaiseFromWait PROVE TypeOK'
  <2>1. Caller \in Frame BY <1>27, AtFacts DEF RaiseFromWait, RaiseThrough, Caller, Depth
  <2> QED BY CutKeeps, <1>27, <2>1 DEF RaiseFromWait, RaiseThrough
<1>28. ASSUME RaiseFromUnsubscribe PROVE TypeOK'
  <2>1. Caller \in Frame BY <1>28, AtFacts DEF RaiseFromUnsubscribe, RaiseThrough, Caller, Depth
  <2> QED BY CutKeeps, <1>28, <2>1 DEF RaiseFromUnsubscribe, RaiseThrough, Forget, Others
<1>29. ASSUME RaiseFromDisconnect PROVE TypeOK'
  BY CutKeeps, <1>29 DEF RaiseFromDisconnect, RaiseThrough, ItemsOf, RunItem, WaitItem
<1>30. ASSUME Sigint PROVE TypeOK'
  BY <1>30 DEF Sigint
<1>31. ASSUME Drop PROVE TypeOK'
  BY <1>31 DEF Drop, SessionGone
<1>32. ASSUME UNCHANGED vars PROVE TypeOK'
  BY <1>32 DEF vars
<1> QED
  BY <1>1, <1>2, <1>3, <1>4, <1>5, <1>6, <1>7, <1>8, <1>9, <1>10, <1>11, <1>12, <1>13, <1>14, <1>15, <1>16, <1>17, <1>18, <1>19, <1>20, <1>21, <1>22, <1>23, <1>24, <1>25, <1>26, <1>27, <1>28, <1>29, <1>30, <1>31, <1>32
  DEF Next, CheckSubscription, BlockRaise

\* A new client is well typed, whether or not its connect succeeds.
LEMMA InitType == Init => TypeOK
<1> SUFFICES ASSUME Init PROVE TypeOK OBVIOUS
<1>1. stack \in Seq(Frame) BY DEF Init
<1>2. /\ onChange \in [Node -> ProcId] /\ registered \in [Node -> Nat]
      /\ monId \in [Node -> 0..MaxItem] /\ waiting \in [Node -> 0..3]
  BY ClientAssumption DEF Init, ProcId
<1>3. /\ lastSub \in 0..MaxSub /\ lastItem \in 0..MaxItem /\ subid \in 0..MaxSub
      /\ lastReg \in 0..MaxReg
  BY ClientAssumption DEF Init
<1> QED BY <1>1, <1>2, <1>3 DEF Init, TypeOK

\* Client never leaves its types: every id in use was granted, every frame is one
\* of the client's.
THEOREM TypeCorrect == Spec => []TypeOK
BY InitType, TypeStep, PTL DEF Spec

-----------------------------------------------------------------------------
(* The inductive invariant *)

\* Steps that leave the client's records and the library's alone, and neither
\* add nor remove a frame that matters: calls, returns, blocks, dispatches.
LEMMA QuietStep ==
    ASSUME ClientInv, TypeOK',
           UNCHANGED <<link, subscriptions, items, lastSub, lastItem, client,
                       registered, monId, withdrawn, leaked, unsettled>>,
           \A k \in DOMAIN stack' :
               \/ stack'[k].pc \in {"call", "drain", "iterate", "disconnect", "block"}
               \/ k \in DOMAIN stack /\ stack'[k] = stack[k],
           \A k \in DOMAIN stack : stack[k].pc \in {"wait", "monitor"} =>
               k \in DOMAIN stack' /\ stack'[k] = stack[k]
    PROVE  ClientInv'
<1> USE DEF ClientInv, client
<1>1. LibraryInv' BY DEF LibraryInv
<1>2. SubscriptionInv' BY DEF SubscriptionInv
<1>3. OwnerInv' BY DEF OwnerInv, Owns
<1>4. \A h \in Node : /\ Pending(h)' = Pending(h) /\ RunItems(h)' = RunItems(h)
                      /\ InRequest(h)' = InRequest(h)
                      /\ InRemoval(h)' \subseteq InRemoval(h)
                      /\ \A k \in InRemoval(h)' : stack'[k] = stack[k]
  BY DEF Pending, RunItems, InRequest, InRemoval
<1>5. OnceInv' BY <1>4 DEF OnceInv, OnceAt, Spent
<1>6. MonIdLive' BY <1>4 DEF MonIdLive
<1>7. WaitSubs \subseteq WaitSubs' BY DEF WaitSubs
<1>8. SubsAccounted' BY <1>7 DEF SubsAccounted
<1>9. NoSilentLoss' BY <1>4 DEF NoSilentLoss
<1> QED BY <1>1, <1>2, <1>3, <1>5, <1>6, <1>8, <1>9

\* The fields of an item.
LEMMA ItemFacts ==
    ASSUME TypeOK
    PROVE  \A i \in items : /\ i.id \in Nat /\ i.id # 0 /\ i.id \in ItemId
                            /\ i.sub \in Nat /\ i.sub # 0 /\ i.node \in Node
BY ClientAssumption DEF TypeOK, RunItem, WaitItem, ItemId, SubId

\* The ids a frame holds.
LEMMA FrameTypes ==
    ASSUME TypeOK
    PROVE  \A k \in DOMAIN stack :
             /\ stack[k].pc = "wait" => stack[k].sub \in Nat /\ stack[k].sub # 0
             /\ stack[k].pc = "unsubscribe" => stack[k].node \in Node /\ stack[k].item \in Nat
<1>1. \A k \in DOMAIN stack : stack[k] \in Frame BY DEF TypeOK
<1> QED BY <1>1, FrameKinds, ClientAssumption DEF SubId, ItemId

\* The indices a pop leaves in place, and those it takes away.
LEMMA PopRelations ==
    ASSUME TypeOK, NEW n \in {1, 2}, Depth >= n, Pop(n)
    PROVE  /\ \A k \in DOMAIN stack' : k \in DOMAIN stack /\ stack'[k] = stack[k]
           /\ \A k \in DOMAIN stack : k <= Depth - n => k \in DOMAIN stack'
           /\ \A h \in Node : /\ InRequest(h)' = {k \in InRequest(h) : k <= Depth - n}
                              /\ InRemoval(h)' = {k \in InRemoval(h) : k <= Depth - n}
<1>1. stack \in Seq(Frame) BY DEF TypeOK
<1>2. /\ Depth \in Nat /\ DOMAIN stack = 1..Depth /\ DOMAIN stack' = 1..(Depth - n)
      /\ \A k \in 1..(Depth - n) : stack'[k] = stack[k]
  BY <1>1, PopFacts DEF Depth
<1> QED BY <1>2 DEF InRequest, InRemoval

\* A failed request: its node gets item 0 and its entry is gone.
LEMMA MonitorFailedStep == ASSUME ClientInv, TypeOK', MonitorFailed PROVE ClientInv'
<1> USE DEF ClientInv, library, client
<1>1. /\ Depth \in Nat /\ Depth >= 1 /\ Depth \in DOMAIN stack /\ DOMAIN stack = 1..Depth
      /\ Top = stack[Depth] /\ Top.pc = "monitor" /\ Top.node \in Node
  BY AtFacts, FrameKinds DEF MonitorFailed, Learn, FailedId, TypeOK, Depth
<1>0. PICK h0 \in Node : h0 = Top.node BY <1>1
<1>2. /\ \A k \in DOMAIN stack' : k \in DOMAIN stack /\ stack'[k] = stack[k]
      /\ \A k \in DOMAIN stack : k # Depth => k \in DOMAIN stack'
      /\ \A h \in Node : /\ InRequest(h)' = InRequest(h) \ {Depth}
                         /\ InRemoval(h)' = InRemoval(h)
  BY <1>1, PopRelations DEF MonitorFailed, Learn, FailedId, InRequest, InRemoval
<1>3. \A h \in Node : /\ Pending(h)' = Pending(h) /\ RunItems(h)' = RunItems(h)
                      /\ monId'[h] = IF h = h0 THEN 0 ELSE monId[h]
  BY <1>0, <1>1 DEF MonitorFailed, Learn, FailedId, Pending, RunItems, TypeOK
<1>4. Depth \in InRequest(h0) BY <1>0, <1>1 DEF InRequest
<1>5. LibraryInv' BY DEF LibraryInv, MonitorFailed, Learn, FailedId
<1>6. SubscriptionInv' BY <1>2 DEF SubscriptionInv, MonitorFailed, Learn, FailedId
<1>8. OwnerInv'
  <2>1. UNCHANGED <<items, lastItem>> /\ lastItem \in Nat
    BY ClientAssumption DEF MonitorFailed, Learn, FailedId, TypeOK
  <2>2. \A h \in Node : Owns(h, monId'[h]) BY <1>3, <2>1, ItemFacts DEF OwnerInv, Owns
  <2> QED BY <1>2, <2>1, <2>2 DEF OwnerInv, Owns
<1>9. OnceInv'
  <2>1. ASSUME NEW h \in Node, h # h0 PROVE OnceAt(h)'
    <3>1. InRequest(h)' = InRequest(h) BY <1>0, <1>1, <1>2, <2>1 DEF InRequest
    <3> QED BY <1>2, <1>3, <2>1, <3>1 DEF OnceInv, OnceAt, Spent, MonitorFailed, Learn, FailedId, InRemoval
  <2>2. OnceAt(h0)'
    <3>1. registered[h0] <= 1 =>
            Pending(h0) = {} /\ InRequest(h0) \ {Depth} = {} /\ ~Spent(h0)
      BY <1>1, <1>4 DEF OnceInv, OnceAt
    <3>2. registered[h0] \in Nat /\ registered' = registered
      BY <1>1 DEF TypeOK, MonitorFailed, Learn, FailedId
    <3> QED BY <1>1, <1>2, <1>3, <3>1, <3>2 DEF OnceAt, Spent
  <2> QED BY <2>1, <2>2 DEF OnceInv
<1>10. MonIdLive' BY <1>3 DEF MonIdLive, MonitorFailed, Learn, FailedId
<1>11. WaitSubs \subseteq WaitSubs' BY <1>1, <1>2 DEF WaitSubs
<1>12. SubsAccounted' BY <1>11 DEF SubsAccounted, MonitorFailed, Learn, FailedId
<1>13. NoSilentLoss' BY <1>0, <1>1, <1>2, <1>3 DEF NoSilentLoss, MonitorFailed, Learn, FailedId, InRequest
<1> QED BY <1>5, <1>6, <1>8, <1>9, <1>10, <1>12, <1>13

\* The two frames an exception unwinds: the block and the C frame that called it.
LEMMA RaiseFacts ==
    ASSUME TypeOK, NEW pc, RaiseThrough(pc)
    PROVE  /\ Depth \in Nat /\ Depth > 1 /\ DOMAIN stack = 1..Depth
           /\ stack[Depth].pc = "block"
           /\ Caller = stack[Depth - 1] /\ Caller \in Frame /\ Caller.pc = pc
           /\ \A k \in DOMAIN stack' : k \in DOMAIN stack /\ stack'[k] = stack[k]
           /\ \A k \in DOMAIN stack : k # Depth /\ k # Depth - 1 => k \in DOMAIN stack'
           /\ \A k \in DOMAIN stack' : k # Depth /\ k # Depth - 1
           /\ \A h \in Node : /\ InRequest(h)' = InRequest(h) \ {Depth - 1}
                              /\ InRemoval(h)' = InRemoval(h) \ {Depth - 1}
<1>1. /\ Depth \in Nat /\ Depth > 1 /\ DOMAIN stack = 1..Depth
      /\ stack[Depth].pc = "block"
      /\ Caller = stack[Depth - 1] /\ Caller \in Frame /\ Caller.pc = pc
  BY DEF RaiseThrough, At, Top, Caller, Depth, TypeOK
<1>2. /\ stack \in Seq(Frame) /\ Pop(2) BY DEF RaiseThrough, TypeOK
<1>3. /\ DOMAIN stack' = 1..(Depth - 2)
      /\ \A k \in 1..(Depth - 2) : stack'[k] = stack[k]
  BY <1>1, <1>2, PopFacts DEF Depth
<1> QED BY <1>1, <1>3 DEF InRequest, InRemoval

\* An exception while the request is under way: the entry is gone as well.
LEMMA RaiseFromMonitorStep == ASSUME ClientInv, TypeOK', RaiseFromMonitor PROVE ClientInv'
<1> USE DEF ClientInv, library, client, node
<1>1. RaiseThrough("monitor") BY DEF RaiseFromMonitor
<1>2. Caller.node \in Node /\ Caller.pc = "monitor" BY <1>1, RaiseFacts, FrameKinds
<1>3. PICK h0 \in Node : h0 = Caller.node BY <1>2
<1>4. Depth - 1 \in InRequest(h0) BY <1>1, <1>2, <1>3, RaiseFacts DEF InRequest
<1>5. /\ \A k \in DOMAIN stack' : k \in DOMAIN stack /\ stack'[k] = stack[k]
      /\ \A h \in Node : /\ InRequest(h)' = InRequest(h) \ {Depth - 1}
                         /\ InRemoval(h)' = InRemoval(h)
                         /\ Pending(h)' = Pending(h) /\ RunItems(h)' = RunItems(h)
  BY <1>1, <1>2, RaiseFacts DEF RaiseFromMonitor, Pending, RunItems, InRemoval
<1>6. LibraryInv' BY DEF LibraryInv, RaiseFromMonitor
<1>7. SubscriptionInv' BY <1>5 DEF SubscriptionInv, RaiseFromMonitor
<1>8. OwnerInv' BY <1>5 DEF OwnerInv, Owns, RaiseFromMonitor
<1>9. OnceInv'
  BY <1>5 DEF OnceInv, OnceAt, Spent, RaiseFromMonitor, InRemoval
<1>10. MonIdLive' BY <1>5 DEF MonIdLive, RaiseFromMonitor
<1>11. WaitSubs \subseteq WaitSubs' BY <1>1, <1>2, RaiseFacts DEF WaitSubs
<1>12. SubsAccounted' BY <1>11 DEF SubsAccounted, RaiseFromMonitor
<1>13. NoSilentLoss'
  BY <1>1, <1>2, <1>3, <1>5, RaiseFacts DEF NoSilentLoss, RaiseFromMonitor, InRequest
<1> QED BY <1>6, <1>7, <1>8, <1>9, <1>10, <1>12, <1>13

\* The last entry of the array becomes a request of its node.
LEMMA RunPopStep == ASSUME ClientInv, TypeOK', RunPop PROVE ClientInv'
<1> USE DEF ClientInv, library, client, node, history
<1>1. PICK e \in subs :
        /\ subs' = subs \ {e}
        /\ Goto([pc |-> "monitor", node |-> e.node, proc |-> onChange[e.node],
                 reg |-> e.reg])
  BY DEF RunPop, Popped, BlockOf
<1>2. PICK h0 \in Node : h0 = e.node BY DEF TypeOK
<1>3. [pc |-> "monitor", node |-> e.node, proc |-> onChange[e.node], reg |-> e.reg]
        \in Frame
  BY DEF TypeOK, Frame, Monitor
<1>4. /\ Depth \in Nat /\ Depth > 0 /\ DOMAIN stack = 1..Depth /\ DOMAIN stack' = 1..Depth
      /\ \A k \in 1..Depth : k # Depth => stack'[k] = stack[k]
      /\ stack[Depth].pc = "drain"
      /\ stack'[Depth].pc = "monitor" /\ stack'[Depth].node = h0
  BY <1>1, <1>2, <1>3, GotoFacts DEF RunPop, Popped, BlockOf, At, TypeOK
<1>5. \A h \in Node :
        /\ RunItems(h)' = RunItems(h) /\ InRemoval(h)' = InRemoval(h)
        /\ Pending(h)' = Pending(h) \ {e}
        /\ InRequest(h)' = IF h = h0 THEN InRequest(h) \cup {Depth} ELSE InRequest(h)
  BY <1>1, <1>2, <1>4 DEF RunPop, Popped, BlockOf, RunItems, InRemoval, Pending, InRequest
<1>6. e \in Pending(h0) /\ \A h \in Node : h # h0 => Pending(h)' = Pending(h)
  BY <1>1, <1>2, <1>5 DEF Pending
<1>7. LibraryInv' BY DEF LibraryInv, RunPop, Popped, BlockOf
<1>8. SubscriptionInv' BY <1>4 DEF SubscriptionInv, RunPop, Popped, BlockOf
<1>9. OwnerInv' BY <1>4 DEF OwnerInv, Owns, RunPop, Popped, BlockOf
<1>10. OnceInv'
  <2>1. ASSUME NEW h \in Node, h # h0 PROVE OnceAt(h)'
    BY <1>4, <1>5, <1>6, <2>1 DEF OnceInv, OnceAt, Spent, RunPop, Popped, BlockOf, InRemoval
  <2>2. registered[h0] <= 1 => InRequest(h0) = {} /\ ~Spent(h0) /\ Pending(h0) = {e}
    BY <1>6 DEF OnceInv, OnceAt
  <2>3. registered[h0] # 0 /\ registered' = registered
    BY <1>6 DEF OnceInv, OnceAt, RunPop, Popped, BlockOf
  <2>4. OnceAt(h0)' BY <1>4, <1>5, <2>2, <2>3 DEF OnceAt, Spent, RunPop, Popped, BlockOf
  <2> QED BY <2>1, <2>4 DEF OnceInv
<1>11. MonIdLive' BY <1>5 DEF MonIdLive, RunPop, Popped, BlockOf
<1>12. WaitSubs \subseteq WaitSubs' BY <1>4 DEF WaitSubs
<1>13. SubsAccounted' BY <1>12 DEF SubsAccounted, RunPop, Popped, BlockOf
<1>14. NoSilentLoss' BY <1>5, <1>6 DEF NoSilentLoss, RunPop, Popped, BlockOf
<1> QED BY <1>7, <1>8, <1>9, <1>10, <1>11, <1>13, <1>14

\* The request succeeds: a new id, an item on the shared subscription, the
\* node's monId.
LEMMA MonitorCreatedStep == ASSUME ClientInv, TypeOK', MonitorCreated PROVE ClientInv'
<1> USE DEF ClientInv, client, history
<1>1. /\ Depth \in Nat /\ Depth >= 1 /\ Depth \in DOMAIN stack /\ DOMAIN stack = 1..Depth
      /\ Top = stack[Depth] /\ Top.pc = "monitor" /\ Top.node \in Node
  BY AtFacts, FrameKinds DEF MonitorCreated, Learn, TypeOK, Depth
<1>2. PICK h0 \in Node : h0 = Top.node BY <1>1
<1>3. /\ DOMAIN stack' = 1..Depth
      /\ \A k \in 1..Depth : k # Depth => stack'[k] = stack[k]
      /\ stack'[Depth].pc = "drain"
  BY PlainFrames, GotoFacts DEF MonitorCreated, Learn, At, TypeOK
<1>4. PICK new \in items' :
        /\ new.id = lastItem + 1 /\ new.sub = subid /\ new.node = h0 /\ new.kind = "run"
        /\ items' = items \cup {new}
  BY <1>2 DEF MonitorCreated, Learn, Grant
<1>5. lastItem \in Nat /\ lastItem' = lastItem + 1 /\ subid \in subscriptions
  BY ClientAssumption DEF MonitorCreated, Learn, Grant, TypeOK
<1>6. \A h \in Node :
        /\ RunItems(h)' = IF h = h0 THEN RunItems(h) \cup {new} ELSE RunItems(h)
        /\ InRemoval(h)' = InRemoval(h) /\ Pending(h)' = Pending(h)
        /\ InRequest(h)' = InRequest(h) \ {Depth}
        /\ monId'[h] = IF h = h0 THEN lastItem + 1 ELSE monId[h]
  BY <1>1, <1>2, <1>3, <1>4 DEF MonitorCreated, Learn, RunItems, InRemoval, Pending, InRequest, TypeOK
<1>7. Depth \in InRequest(h0) BY <1>1, <1>2 DEF InRequest
<1>8. LibraryInv' BY <1>4, <1>5, ItemFacts DEF LibraryInv, MonitorCreated, Learn
<1>9. SubscriptionInv' BY <1>1, <1>3 DEF SubscriptionInv, MonitorCreated, Learn
<1>10. OwnerInv'
  <2>1. \A h \in Node, id \in Nat : Owns(h, id) =>
          /\ id <= lastItem'
          /\ \A i \in items' : i.id = id => i.kind = "run" /\ i.node = h
    BY <1>4, <1>5 DEF Owns
  <2>2. \A i \in items' : i.id = lastItem + 1 => i.kind = "run" /\ i.node = h0
    BY <1>4, <1>5, ItemFacts DEF LibraryInv
  <2>3. \A h \in Node : monId[h] \in Nat BY ClientAssumption DEF TypeOK
  <2>4. \A h \in Node : Owns(h, monId[h])'
    BY <1>5, <1>6, <2>1, <2>2, <2>3 DEF OwnerInv, Owns
  <2>5. \A k \in DOMAIN stack : stack[k].pc = "unsubscribe" =>
          stack[k].node \in Node /\ stack[k].item \in Nat
    BY FrameTypes
  <2>6. \A k \in DOMAIN stack' : stack'[k].pc = "unsubscribe" =>
          stack'[k] = stack[k] /\ k \in DOMAIN stack
    BY <1>1, <1>3
  <2>7. \A k \in DOMAIN stack' : stack'[k].pc = "unsubscribe" =>
          Owns(stack[k].node, stack[k].item)'
    BY <2>1, <2>5, <2>6 DEF OwnerInv, Owns
  <2> QED BY <2>4, <2>7 DEF OwnerInv
<1>11. OnceInv'
  <2>1. ASSUME NEW h \in Node, h # h0 PROVE OnceAt(h)'
    <3>1. InRequest(h)' = InRequest(h) BY <1>1, <1>2, <1>6, <2>1 DEF InRequest
    <3> QED BY <1>1, <1>3, <1>6, <2>1, <3>1 DEF OnceInv, OnceAt, Spent, MonitorCreated, Learn, InRemoval
  <2>2. registered[h0] <= 1 =>
          /\ Pending(h0) = {} /\ InRequest(h0) \ {Depth} = {}
          /\ RunItems(h0) = {} /\ InRemoval(h0) = {}
    BY <1>1, <1>7 DEF OnceInv, OnceAt, Spent
  <2>3. registered[h0] # 0 /\ registered' = registered
    BY <1>7 DEF OnceInv, OnceAt, MonitorCreated, Learn
  <2>4. OnceAt(h0)' BY <1>4, <1>6, <2>2, <2>3 DEF OnceAt, Spent
  <2> QED BY <2>1, <2>4 DEF OnceInv
<1>12. MonIdLive' BY <1>4, <1>6 DEF MonIdLive, MonitorCreated, Learn
<1>13. WaitSubs \subseteq WaitSubs' BY <1>1, <1>3 DEF WaitSubs
<1>14. SubsAccounted' BY <1>13 DEF SubsAccounted, MonitorCreated, Learn
<1>15. NoSilentLoss'
  <2> SUFFICES ASSUME link, NEW h \in Node, registered[h] > 0, h \notin withdrawn
               PROVE  Pending(h)' # {} \/ InRequest(h)' # {} \/ RunItems(h)' # {}
    BY DEF NoSilentLoss, MonitorCreated, Learn
  <2>1. CASE h = h0 BY <1>6, <2>1
  <2>2. CASE h # h0
    <3>1. InRequest(h)' = InRequest(h) BY <1>1, <1>2, <1>6, <2>2 DEF InRequest
    <3> QED BY <1>6, <2>2, <3>1 DEF NoSilentLoss
  <2> QED BY <2>1, <2>2
<1> QED BY <1>8, <1>9, <1>10, <1>11, <1>12, <1>14, <1>15

\* A registration: one more entry, of a number of its own.
LEMMA OnChangeStep ==
    ASSUME ClientInv, TypeOK', NEW h0 \in Node, OnChange(h0) PROVE ClientInv'
<1> USE DEF ClientInv, library, process
<1> DEFINE new == [node |-> h0, reg |-> lastReg + 1]
<1>1. \A h \in Node :
        /\ RunItems(h)' = RunItems(h) /\ InRemoval(h)' = InRemoval(h)
        /\ InRequest(h)' = InRequest(h)
        /\ Pending(h)' = IF h = h0 THEN Pending(h) \cup {new} ELSE Pending(h)
        /\ registered'[h] = IF h = h0 THEN registered[h] + 1 ELSE registered[h]
        /\ registered[h] \in Nat
  BY DEF OnChange, RunItems, InRemoval, InRequest, Pending, TypeOK
<1>2. LibraryInv' BY DEF LibraryInv, OnChange
<1>3. SubscriptionInv' BY DEF SubscriptionInv, OnChange
<1>4. OwnerInv' BY DEF OwnerInv, Owns, OnChange
<1>5. OnceInv'
  <2>1. ASSUME NEW h \in Node, h # h0 PROVE OnceAt(h)'
    BY <1>1, <2>1 DEF OnceInv, OnceAt, Spent, OnChange
  <2>2. OnceAt(h0)' BY <1>1 DEF OnceInv, OnceAt, Spent, OnChange
  <2> QED BY <2>1, <2>2 DEF OnceInv
<1>6. MonIdLive' BY <1>1 DEF MonIdLive, OnChange
<1>7. SubsAccounted' BY DEF SubsAccounted, WaitSubs, OnChange
<1>8. NoSilentLoss' BY <1>1 DEF NoSilentLoss, OnChange
<1> QED BY <1>2, <1>3, <1>4, <1>5, <1>6, <1>7, <1>8

\* A private subscription with its item: new ids, and no run item.
LEMMA OnValueChangeStep ==
    ASSUME ClientInv, TypeOK', NEW h0 \in Node, OnValueChange(h0) PROVE ClientInv'
<1> USE DEF ClientInv, client, history
<1>1. [pc |-> "wait", node |-> h0, sub |-> lastSub + 1] \in Frame
  BY ClientAssumption DEF OnValueChange, ResetCount, Frame, Wait, TypeOK, SubId
<1>2. /\ DOMAIN stack = 1..Depth /\ DOMAIN stack' = 1..(Depth + 1) /\ Depth \in Nat
      /\ \A k \in 1..Depth : stack'[k] = stack[k]
      /\ stack'[Depth + 1].pc = "wait" /\ stack'[Depth + 1].sub = lastSub + 1
  BY <1>1, PushFacts DEF OnValueChange, ResetCount, TypeOK
<1>3. PICK new \in items' :
        /\ new.id = lastItem + 1 /\ new.sub = lastSub + 1 /\ new.kind = "wait"
        /\ items' = items \cup {new}
  BY DEF OnValueChange, ResetCount, Grant
<1>4. /\ lastItem \in Nat /\ lastItem' = lastItem + 1
      /\ lastSub \in Nat /\ lastSub' = lastSub + 1 /\ subid \in Nat
      /\ subscriptions' = subscriptions \cup {lastSub + 1}
      /\ link /\ link' = link
  BY ClientAssumption DEF OnValueChange, ResetCount, Grant, TypeOK
<1>5. \A h \in Node :
        /\ RunItems(h)' = RunItems(h) /\ InRemoval(h)' = InRemoval(h)
        /\ Pending(h)' = Pending(h) /\ InRequest(h)' = InRequest(h)
        /\ \A k \in InRemoval(h) : stack'[k] = stack[k]
  BY <1>2, <1>3 DEF OnValueChange, ResetCount, RunItems, InRemoval, Pending, InRequest
<1>6. \A s \in subscriptions : s \in Nat BY ClientAssumption DEF TypeOK, SubId
<1>7. LibraryInv' BY <1>3, <1>4, <1>6, ItemFacts DEF LibraryInv, OnValueChange, ResetCount
<1>8. \A k \in DOMAIN stack : stack[k].pc = "wait" => stack[k].sub \in Nat
  BY FrameTypes
<1>9. SubscriptionInv' BY <1>2, <1>4, <1>8 DEF SubscriptionInv, OnValueChange, ResetCount
<1>10. \A h \in Node, id \in Nat : Owns(h, id) =>
          /\ id <= lastItem'
          /\ \A i \in items' : i.id = id => i.kind = "run" /\ i.node = h
  BY <1>3, <1>4 DEF Owns
<1>11. \A k \in DOMAIN stack : stack[k].pc = "unsubscribe" =>
          stack[k].node \in Node /\ stack[k].item \in Nat
  BY FrameTypes
<1>12. OwnerInv'
  <2>1. \A h \in Node : monId[h] \in Nat /\ monId' = monId
    BY ClientAssumption DEF TypeOK, OnValueChange, ResetCount
  <2>2. \A h \in Node : Owns(h, monId[h])' BY <1>10, <2>1 DEF OwnerInv, Owns
  <2>3. \A k \in DOMAIN stack' : stack'[k].pc = "unsubscribe" =>
          Owns(stack[k].node, stack[k].item)'
    BY <1>2, <1>10, <1>11 DEF OwnerInv, Owns
  <2> QED BY <2>2, <2>3 DEF OwnerInv
<1>13. OnceInv' BY <1>5 DEF OnceInv, OnceAt, Spent, OnValueChange, ResetCount
<1>14. MonIdLive' BY <1>5 DEF MonIdLive, OnValueChange, ResetCount
<1>15. WaitSubs \cup {lastSub + 1} \subseteq WaitSubs' BY <1>2 DEF WaitSubs
<1>16. SubsAccounted' BY <1>4, <1>15 DEF SubsAccounted, OnValueChange, ResetCount
<1>17. NoSilentLoss' BY <1>5 DEF NoSilentLoss, OnValueChange, ResetCount
<1> QED BY <1>7, <1>9, <1>12, <1>13, <1>14, <1>16, <1>17

\* A new subscription that is left behind: by a failed item request, or by an
\* exception while check_subscription is creating the shared one.
LEMMA LeakStep ==
    ASSUME ClientInv, TypeOK',
           UNCHANGED <<link, items, lastItem, client, registered, monId, withdrawn,
                       unsettled>>,
           link /\ lastSub' = lastSub + 1,
           subscriptions' = subscriptions \cup {lastSub + 1},
           leaked' = leaked \cup {lastSub + 1},
           \A k \in DOMAIN stack' : k \in DOMAIN stack /\ stack'[k] = stack[k],
           \A k \in DOMAIN stack : stack[k].pc \in {"wait", "monitor"} => k \in DOMAIN stack'
    PROVE  ClientInv'
<1> USE DEF ClientInv, client
<1>1. lastSub \in Nat /\ subid \in Nat /\ \A s \in subscriptions : s \in Nat
  BY ClientAssumption DEF TypeOK, SubId
<1>2. \A k \in DOMAIN stack : stack[k].pc = "wait" => stack[k].sub \in Nat
  BY FrameTypes
<1>3. \A h \in Node : /\ Pending(h)' = Pending(h) /\ RunItems(h)' = RunItems(h)
                      /\ InRequest(h)' = InRequest(h)
                      /\ InRemoval(h)' \subseteq InRemoval(h)
                      /\ \A k \in InRemoval(h)' : stack'[k] = stack[k]
  BY DEF Pending, RunItems, InRequest, InRemoval
<1>4. LibraryInv' BY <1>1 DEF LibraryInv
<1>5. SubscriptionInv' BY <1>1, <1>2 DEF SubscriptionInv
<1>6. OwnerInv' BY DEF OwnerInv, Owns
<1>7. OnceInv' BY <1>3 DEF OnceInv, OnceAt, Spent
<1>8. MonIdLive' BY <1>3 DEF MonIdLive
<1>9. WaitSubs \subseteq WaitSubs' BY DEF WaitSubs
<1>10. SubsAccounted' BY <1>9 DEF SubsAccounted
<1>11. NoSilentLoss' BY <1>3 DEF NoSilentLoss
<1> QED BY <1>4, <1>5, <1>6, <1>7, <1>8, <1>10, <1>11

\* The end of an on_value_change: its subscription is deleted or left behind, and
\* no run item is on it.
LEMMA WaitReturnStep == ASSUME ClientInv, TypeOK', WaitReturn PROVE ClientInv'
<1> USE DEF ClientInv, client, node
<1>1. /\ Depth \in Nat /\ Depth >= 1 /\ Depth \in DOMAIN stack /\ DOMAIN stack = 1..Depth
      /\ Top = stack[Depth] /\ Top.pc = "wait" /\ Top.sub \in SubId
  BY AtFacts, FrameKinds DEF WaitReturn, TypeOK, Depth
<1>2. PICK s0 \in SubId : s0 = Top.sub BY <1>1
<1>3. /\ \A k \in DOMAIN stack' : k \in DOMAIN stack /\ stack'[k] = stack[k]
      /\ \A k \in DOMAIN stack : k # Depth => k \in DOMAIN stack'
      /\ \A h \in Node : InRequest(h)' = InRequest(h) /\ InRemoval(h)' = InRemoval(h)
  BY <1>1, PopRelations DEF WaitReturn, InRequest, InRemoval
<1>4. s0 # subid BY <1>1, <1>2 DEF SubscriptionInv
<1>5. /\ items' \subseteq items /\ subscriptions' \subseteq subscriptions
      /\ \A i \in items : i \notin items' => i.sub = s0
      /\ \A i \in items' : i.sub \in subscriptions => i.sub \in subscriptions'
      /\ subscriptions \subseteq subscriptions' \cup {s0} /\ leaked \subseteq leaked'
      /\ s0 \in subscriptions' => s0 \in leaked'
  BY <1>2 DEF WaitReturn, Delete, ItemsOf
<1>6. \A h \in Node : RunItems(h)' = RunItems(h) /\ Pending(h)' = Pending(h)
  BY <1>4, <1>5 DEF LibraryInv, RunItems, Pending, WaitReturn
<1>7. LibraryInv' BY <1>5 DEF LibraryInv, WaitReturn
<1>8. SubscriptionInv' BY <1>3 DEF SubscriptionInv, WaitReturn
<1>9. OwnerInv' BY <1>3, <1>5 DEF OwnerInv, Owns, WaitReturn
<1>10. OnceInv' BY <1>3, <1>6 DEF OnceInv, OnceAt, Spent, InRemoval, WaitReturn
<1>11. MonIdLive' BY <1>6 DEF MonIdLive, WaitReturn
<1>12. WaitSubs \subseteq WaitSubs' \cup {s0} BY <1>1, <1>2, <1>3 DEF WaitSubs
<1>13. SubsAccounted' BY <1>5, <1>12 DEF SubsAccounted, WaitReturn
<1>14. NoSilentLoss' BY <1>3, <1>6 DEF NoSilentLoss, WaitReturn
<1> QED BY <1>7, <1>8, <1>9, <1>10, <1>11, <1>13, <1>14

\* The request of an unsubscribe carries the node's monId.
LEMMA UnsubscribeStep ==
    ASSUME ClientInv, TypeOK', NEW h0 \in Node, Unsubscribe(h0) PROVE ClientInv'
<1> USE DEF ClientInv, library, client, node, history
<1>1. [pc |-> "unsubscribe", node |-> h0, item |-> monId[h0]] \in Frame
  BY DEF Unsubscribe, Frame, Removal, TypeOK, ItemId
<1>2. /\ DOMAIN stack = 1..Depth /\ DOMAIN stack' = 1..(Depth + 1) /\ Depth \in Nat
      /\ \A k \in 1..Depth : stack'[k] = stack[k]
      /\ stack'[Depth + 1].pc = "unsubscribe"
      /\ stack'[Depth + 1].node = h0 /\ stack'[Depth + 1].item = monId[h0]
  BY <1>1, PushFacts DEF Unsubscribe, TypeOK
<1>3. \A h \in Node :
        /\ RunItems(h)' = RunItems(h) /\ Pending(h)' = Pending(h)
        /\ InRequest(h)' = InRequest(h)
        /\ InRemoval(h)' = IF h = h0 THEN InRemoval(h) \cup {Depth + 1} ELSE InRemoval(h)
        /\ \A k \in InRemoval(h) : stack'[k] = stack[k]
  BY <1>2 DEF Unsubscribe, RunItems, InRemoval, Pending, InRequest
<1>4. Spent(h0) BY DEF Spent, Unsubscribe, TypeOK
<1>5. LibraryInv' BY DEF LibraryInv, Unsubscribe
<1>6. SubscriptionInv' BY <1>2 DEF SubscriptionInv, Unsubscribe
<1>7. OwnerInv' BY <1>2 DEF OwnerInv, Owns, Unsubscribe
<1>8. OnceInv'
  <2>1. ASSUME NEW h \in Node, h # h0 PROVE OnceAt(h)'
    BY <1>3, <2>1 DEF OnceInv, OnceAt, Spent, Unsubscribe
  <2>2. OnceAt(h0)' BY <1>2, <1>3, <1>4 DEF OnceInv, OnceAt, Spent, Unsubscribe
  <2> QED BY <2>1, <2>2 DEF OnceInv
<1>9. MonIdLive' BY <1>3 DEF MonIdLive, Unsubscribe
<1>10. WaitSubs \subseteq WaitSubs' BY <1>2 DEF WaitSubs
<1>11. SubsAccounted' BY <1>10 DEF SubsAccounted, Unsubscribe
<1>12. NoSilentLoss' BY <1>3 DEF NoSilentLoss, Unsubscribe
<1> QED BY <1>5, <1>6, <1>7, <1>8, <1>9, <1>11, <1>12

\* Its return: the item is gone, or known to have been asked for in vain; only
\* this node's item can have had the id.
LEMMA UnsubscribeReturnStep ==
    ASSUME ClientInv, TypeOK', UnsubscribeReturn PROVE ClientInv'
<1> USE DEF ClientInv
<1>1. /\ Depth \in Nat /\ Depth >= 1 /\ Depth \in DOMAIN stack /\ DOMAIN stack = 1..Depth
      /\ Top = stack[Depth] /\ Top.pc = "unsubscribe" /\ Top.node \in Node
  BY AtFacts, FrameKinds DEF UnsubscribeReturn, Learn, Without, TypeOK, Depth
<1>2. PICK h0 \in Node, x \in {Top.item} : h0 = Top.node BY <1>1
<1>3. /\ \A k \in DOMAIN stack' : k \in DOMAIN stack /\ stack'[k] = stack[k]
      /\ \A k \in DOMAIN stack : k # Depth => k \in DOMAIN stack'
      /\ \A h \in Node : /\ InRequest(h)' = InRequest(h)
                         /\ InRemoval(h)' = InRemoval(h) \ {Depth}
  BY <1>1, PopRelations DEF UnsubscribeReturn, Learn, Without, InRequest, InRemoval
<1>4. /\ items' \subseteq items
      /\ \A i \in items : i \notin items' => i.id = x
      /\ \A i \in items' : i.id = x => x \in unsettled'
      /\ unsettled \subseteq unsettled'
  BY <1>2 DEF UnsubscribeReturn, Learn, Without, Forget, Others
<1>5. \A i \in items : i.id = x => i.node = h0
  BY <1>1, <1>2 DEF OwnerInv, Owns
<1>6. \A h \in Node :
        /\ RunItems(h)' \subseteq RunItems(h)
        /\ h # h0 => RunItems(h)' = RunItems(h) /\ Pending(h)' = Pending(h)
        /\ monId'[h] = IF h = h0 THEN 0 ELSE monId[h]
  BY <1>2, <1>4, <1>5 DEF RunItems, Pending, UnsubscribeReturn, Learn, Without, TypeOK
<1>7. Pending(h0)' = {} BY <1>2 DEF Pending, UnsubscribeReturn, Learn, Without
<1>8. LibraryInv' BY <1>4 DEF LibraryInv, UnsubscribeReturn, Learn, Without
<1>9. SubscriptionInv' BY <1>3 DEF SubscriptionInv, UnsubscribeReturn, Learn, Without
<1>10. OwnerInv'
  <2>1. lastItem' = lastItem /\ lastItem \in Nat
    BY ClientAssumption DEF TypeOK, UnsubscribeReturn, Learn, Without
  <2>2. \A h \in Node : Owns(h, monId[h])'
    BY <1>4, <1>6, <2>1, ItemFacts DEF OwnerInv, Owns
  <2> QED BY <1>3, <1>4, <2>1, <2>2 DEF OwnerInv, Owns
<1>11. OnceInv'
  <2>1. registered' = registered BY DEF UnsubscribeReturn, Learn, Without
  <2>2. ASSUME NEW h \in Node, h # h0 PROVE OnceAt(h)'
    <3>1. InRemoval(h)' = InRemoval(h) BY <1>1, <1>2, <1>3, <2>2 DEF InRemoval
    <3> QED BY <1>3, <1>4, <1>6, <2>1, <2>2, <3>1 DEF OnceInv, OnceAt, Spent, InRemoval
  <2>3. Depth \in InRemoval(h0) /\ stack[Depth].item = x BY <1>1, <1>2 DEF InRemoval
  <2>4. registered[h0] <= 1 =>
          \A i \in RunItems(h0)' : i.id \notin unsettled' => FALSE
    BY <1>4, <1>6, <2>3 DEF OnceInv, OnceAt, RunItems
  <2>5. registered[h0] # 0 BY <2>3 DEF OnceInv, OnceAt, Spent
  <2>6. InRequest(h0)' = {} \/ ~(registered[h0] <= 1)
    BY <1>3, <2>3 DEF OnceInv, OnceAt, Spent
  <2>7. OnceAt(h0)' BY <1>3, <1>7, <2>1, <2>4, <2>5, <2>6 DEF OnceAt
  <2> QED BY <2>2, <2>7 DEF OnceInv
<1>12. MonIdLive' BY <1>4, <1>6 DEF MonIdLive, UnsubscribeReturn, Learn, Without
<1>13. WaitSubs \subseteq WaitSubs' BY <1>1, <1>3 DEF WaitSubs
<1>14. SubsAccounted' BY <1>13 DEF SubsAccounted, UnsubscribeReturn, Learn, Without
<1>15. NoSilentLoss' BY <1>2, <1>3, <1>6 DEF NoSilentLoss, UnsubscribeReturn, Learn, Without
<1> QED BY <1>8, <1>9, <1>10, <1>11, <1>12, <1>14, <1>15

\* The end of the session, by disconnect or from outside, takes everything with it.
LEMMA SessionGoneStep ==
    ASSUME ClientInv, TypeOK', SessionGone,
           started' \in {started, FALSE},
           UNCHANGED <<subrun, subid, subs, registered, monId, withdrawn, leaked, unsettled>>,
           \A k \in DOMAIN stack' : k \in DOMAIN stack /\ stack'[k] = stack[k]
    PROVE  ClientInv'
<1> USE DEF ClientInv, SessionGone
<1>1. \A h \in Node : /\ Pending(h)' = Pending(h) /\ RunItems(h)' = {}
                      /\ InRequest(h)' \subseteq InRequest(h)
                      /\ InRemoval(h)' \subseteq InRemoval(h)
  BY DEF Pending, RunItems, InRequest, InRemoval
<1>2. LibraryInv' BY DEF LibraryInv
<1>3. SubscriptionInv' BY DEF SubscriptionInv
<1>4. OwnerInv' BY DEF OwnerInv, Owns
<1>5. OnceInv' BY <1>1 DEF OnceInv, OnceAt, Spent
<1>6. MonIdLive' BY DEF MonIdLive
<1>7. SubsAccounted' BY DEF SubsAccounted
<1>8. NoSilentLoss' BY DEF NoSilentLoss
<1> QED BY <1>2, <1>3, <1>4, <1>5, <1>6, <1>7, <1>8

\* An exception out of an on_value_change leaves its subscription behind.
LEMMA RaiseFromWaitStep == ASSUME ClientInv, TypeOK', RaiseFromWait PROVE ClientInv'
<1> USE DEF ClientInv, library, client, node
<1>1. RaiseThrough("wait") BY DEF RaiseFromWait
<1>2. Caller = stack[Depth - 1] /\ Caller.pc = "wait" BY <1>1, RaiseFacts
<1>3. /\ \A k \in DOMAIN stack' : k \in DOMAIN stack /\ stack'[k] = stack[k]
      /\ \A h \in Node : /\ InRequest(h)' = InRequest(h) /\ InRemoval(h)' = InRemoval(h)
                         /\ Pending(h)' = Pending(h) /\ RunItems(h)' = RunItems(h)
  BY <1>1, <1>2, RaiseFacts DEF RaiseFromWait, Pending, RunItems, InRemoval, InRequest
<1>4. LibraryInv' BY DEF LibraryInv, RaiseFromWait
<1>5. SubscriptionInv' BY <1>3 DEF SubscriptionInv, RaiseFromWait
<1>6. OwnerInv' BY <1>3 DEF OwnerInv, Owns, RaiseFromWait
<1>7. OnceInv' BY <1>3 DEF OnceInv, OnceAt, Spent, RaiseFromWait, InRemoval
<1>8. MonIdLive' BY <1>3 DEF MonIdLive, RaiseFromWait
<1>9. WaitSubs \subseteq WaitSubs' \cup {Caller.sub} BY <1>1, <1>2, RaiseFacts DEF WaitSubs
<1>10. SubsAccounted' BY <1>9 DEF SubsAccounted, RaiseFromWait
<1>11. NoSilentLoss' BY <1>3 DEF NoSilentLoss, RaiseFromWait
<1> QED BY <1>4, <1>5, <1>6, <1>7, <1>8, <1>10, <1>11

\* An exception out of an unsubscribe leaves monId, and perhaps the item.
LEMMA RaiseFromUnsubscribeStep ==
    ASSUME ClientInv, TypeOK', RaiseFromUnsubscribe PROVE ClientInv'
<1> USE DEF ClientInv, client, node
<1>1. RaiseThrough("unsubscribe") BY DEF RaiseFromUnsubscribe
<1>2. /\ Caller = stack[Depth - 1] /\ Caller.pc = "unsubscribe" /\ Caller.node \in Node
      /\ Depth - 1 \in DOMAIN stack
  BY <1>1, RaiseFacts, FrameKinds
<1>3. PICK h0 \in Node, x \in {Caller.item} : h0 = Caller.node BY <1>2
<1>4. /\ items' \subseteq items /\ \A i \in items : i \notin items' => i.id = x
      /\ unsettled' = unsettled \cup {x} /\ withdrawn' = withdrawn \cup {h0}
  BY <1>3 DEF RaiseFromUnsubscribe, Others
<1>5. \A i \in items : i.id = x => i.node = h0 BY <1>2, <1>3 DEF OwnerInv, Owns
<1>6. /\ \A k \in DOMAIN stack' : k \in DOMAIN stack /\ stack'[k] = stack[k]
      /\ \A h \in Node : /\ InRequest(h)' = InRequest(h)
                         /\ InRemoval(h)' \subseteq InRemoval(h)
                         /\ Pending(h)' = Pending(h)
                         /\ RunItems(h)' \subseteq RunItems(h)
                         /\ h # h0 => RunItems(h)' = RunItems(h)
  BY <1>1, <1>2, <1>4, <1>5, RaiseFacts DEF RaiseFromUnsubscribe, Pending, RunItems, InRequest
<1>7. LibraryInv' BY <1>4 DEF LibraryInv, RaiseFromUnsubscribe
<1>8. SubscriptionInv' BY <1>6 DEF SubscriptionInv, RaiseFromUnsubscribe
<1>9. OwnerInv' BY <1>4, <1>6 DEF OwnerInv, Owns, RaiseFromUnsubscribe
<1>10. OnceInv'
  BY <1>4, <1>6 DEF OnceInv, OnceAt, Spent, RaiseFromUnsubscribe, InRemoval
<1>11. MonIdLive' BY <1>4, <1>6 DEF MonIdLive, RaiseFromUnsubscribe, RunItems
<1>12. WaitSubs \subseteq WaitSubs' BY <1>1, <1>2, RaiseFacts DEF WaitSubs
<1>13. SubsAccounted' BY <1>12 DEF SubsAccounted, RaiseFromUnsubscribe
<1>14. NoSilentLoss' BY <1>4, <1>6 DEF NoSilentLoss, RaiseFromUnsubscribe
<1> QED BY <1>7, <1>8, <1>9, <1>10, <1>11, <1>13, <1>14

\* An exception out of a disconnect leaves the client started, its shared
\* subscription perhaps deleted.
LEMMA RaiseFromDisconnectStep ==
    ASSUME ClientInv, TypeOK', RaiseFromDisconnect PROVE ClientInv'
<1> USE DEF ClientInv, client, node
<1>1. RaiseThrough("disconnect") BY DEF RaiseFromDisconnect
<1>2. Caller = stack[Depth - 1] /\ Caller.pc = "disconnect" BY <1>1, RaiseFacts
<1>3. /\ items' \subseteq items /\ \A i \in items : i \notin items' => i.sub = subid
      /\ subscriptions' \subseteq subscriptions
      /\ \A i \in items' : i.sub \in subscriptions => i.sub \in subscriptions'
      /\ unsettled' = unsettled \cup {i.id : i \in ItemsOf(subid)}
      /\ withdrawn' = withdrawn \cup {i.node : i \in ItemsOf(subid)}
  BY DEF RaiseFromDisconnect, ItemsOf
<1>4. /\ \A k \in DOMAIN stack' : k \in DOMAIN stack /\ stack'[k] = stack[k]
      /\ \A h \in Node : /\ InRequest(h)' = InRequest(h) /\ InRemoval(h)' = InRemoval(h)
                         /\ Pending(h)' = Pending(h)
                         /\ RunItems(h)' \subseteq RunItems(h)
  BY <1>1, <1>2, <1>3, RaiseFacts DEF RaiseFromDisconnect, Pending, RunItems, InRequest, InRemoval
<1>5. \A h \in Node, i \in items : i \in RunItems(h) => i.id \in unsettled' /\ h \in withdrawn'
  BY <1>3 DEF LibraryInv, RunItems, ItemsOf
<1>6. LibraryInv' BY <1>3 DEF LibraryInv, RaiseFromDisconnect
<1>7. SubscriptionInv' BY <1>4 DEF SubscriptionInv, RaiseFromDisconnect
<1>8. OwnerInv' BY <1>3, <1>4 DEF OwnerInv, Owns, RaiseFromDisconnect
<1>9. OnceInv'
  BY <1>3, <1>4 DEF OnceInv, OnceAt, Spent, RaiseFromDisconnect, InRemoval
<1>10. MonIdLive' BY <1>3, <1>5 DEF MonIdLive, RaiseFromDisconnect, RunItems
<1>11. WaitSubs \subseteq WaitSubs' BY <1>1, <1>2, RaiseFacts DEF WaitSubs
<1>12. SubsAccounted' BY <1>3, <1>11 DEF SubsAccounted, RaiseFromDisconnect
<1>13. NoSilentLoss' BY <1>3, <1>4, <1>5 DEF NoSilentLoss, RaiseFromDisconnect, RunItems
<1> QED BY <1>6, <1>7, <1>8, <1>9, <1>10, <1>12, <1>13

\* The first check_subscription: there was no creation before it.
LEMMA RunFirstStep == ASSUME ClientInv, TypeOK', RunFirst PROVE ClientInv'
<1> USE DEF ClientInv, library, node, history
<1>1. /\ DOMAIN stack = 1..Depth /\ DOMAIN stack' = 1..(Depth + 1) /\ Depth \in Nat
      /\ \A k \in 1..Depth : stack'[k] = stack[k]
      /\ stack'[Depth + 1].pc = "create"
  BY PlainFrames, PushFacts DEF RunFirst, TypeOK
<1>2. \A h \in Node :
        /\ RunItems(h)' = RunItems(h) /\ Pending(h)' = Pending(h)
        /\ InRequest(h)' = InRequest(h) /\ InRemoval(h)' = InRemoval(h)
        /\ \A k \in InRemoval(h) : stack'[k] = stack[k]
  BY <1>1 DEF RunFirst, RunItems, InRemoval, Pending, InRequest
<1>3. LibraryInv' BY DEF LibraryInv, RunFirst
<1>4. SubscriptionInv' BY <1>1 DEF SubscriptionInv, RunFirst
<1>5. OwnerInv' BY <1>1 DEF OwnerInv, Owns, RunFirst
<1>6. OnceInv' BY <1>2 DEF OnceInv, OnceAt, Spent, RunFirst
<1>7. MonIdLive' BY <1>2 DEF MonIdLive, RunFirst
<1>8. WaitSubs \subseteq WaitSubs' BY <1>1 DEF WaitSubs
<1>9. SubsAccounted' BY <1>8 DEF SubsAccounted, RunFirst
<1>10. NoSilentLoss' BY <1>2 DEF NoSilentLoss, RunFirst
<1> QED BY <1>3, <1>4, <1>5, <1>6, <1>7, <1>9, <1>10

\* The shared subscription gets its id when nothing can be on it yet.
LEMMA SubscriptionCreatedStep ==
    ASSUME ClientInv, TypeOK', SubscriptionCreated PROVE ClientInv'
<1> USE DEF ClientInv, node, history
<1>1. /\ DOMAIN stack = 1..Depth /\ DOMAIN stack' = 1..Depth /\ Depth \in Nat /\ Depth > 0
      /\ \A k \in 1..Depth : k # Depth => stack'[k] = stack[k]
      /\ stack[Depth].pc = "create" /\ stack'[Depth].pc = "drain"
  BY PlainFrames, GotoFacts, AtFacts DEF SubscriptionCreated, At, TypeOK
<1>2. /\ lastSub \in Nat /\ lastSub' = lastSub + 1 /\ subid' = lastSub + 1
      /\ subscriptions' = subscriptions \cup {lastSub + 1}
      /\ link /\ UNCHANGED <<link, items, lastItem, started, subrun, subs>>
      /\ \A s \in subscriptions : s \in Nat
  BY ClientAssumption DEF SubscriptionCreated, TypeOK, SubId
<1>3. subrun /\ subid = 0 BY <1>1 DEF SubscriptionInv
<1>4. \A i \in items : i.kind # "run" BY <1>3, ItemFacts DEF LibraryInv
<1>5. \A h \in Node :
        /\ RunItems(h) = {} /\ RunItems(h)' = {} /\ Pending(h)' = Pending(h)
        /\ InRequest(h)' = InRequest(h) /\ InRemoval(h)' = InRemoval(h)
        /\ \A k \in InRemoval(h) : stack'[k] = stack[k]
  BY <1>1, <1>2, <1>4 DEF SubscriptionCreated, RunItems, InRemoval, Pending, InRequest
<1>6. LibraryInv' BY <1>2, <1>4 DEF LibraryInv
<1>7. SubscriptionInv'
  <2>1. \A k \in DOMAIN stack' : stack'[k].pc # "create" BY <1>1 DEF SubscriptionInv
  <2>2. \A k \in DOMAIN stack' : stack'[k].pc = "wait" =>
          stack'[k].sub # lastSub + 1 /\ stack'[k].sub <= lastSub + 1
    BY <1>1, <1>2, FrameTypes DEF SubscriptionInv
  <2> QED BY <1>2, <1>3, <2>1, <2>2 DEF SubscriptionInv
<1>8. OwnerInv' BY <1>1, <1>2 DEF OwnerInv, Owns, SubscriptionCreated
<1>9. OnceInv' BY <1>5 DEF OnceInv, OnceAt, Spent, SubscriptionCreated
<1>10. MonIdLive' BY <1>2, <1>5 DEF MonIdLive, SubscriptionCreated
<1>11. WaitSubs \subseteq WaitSubs' BY <1>1 DEF WaitSubs
<1>12. SubsAccounted'
  <2>1. 0 \notin subscriptions BY DEF TypeOK, SubId
  <2> QED BY <1>2, <1>3, <1>11, <2>1 DEF SubsAccounted, SubscriptionCreated
<1>13. NoSilentLoss' BY <1>2, <1>5 DEF NoSilentLoss, SubscriptionCreated
<1> QED BY <1>6, <1>7, <1>8, <1>9, <1>10, <1>12, <1>13

-----------------------------------------------------------------------------
(* The theorems *)

\* Calls, returns and dispatches, one by one, are quiet steps.
LEMMA QuietActions ==
    ASSUME ClientInv, TypeOK',
           \/ RunAgain \/ ServiceCall \/ Disconnect \/ RunDrained \/ SubscriptionFailed
           \/ RunReturn \/ CallReturn \/ BlockReturn \/ RaiseFromCall \/ Sigint
           \/ (\E i \in items : NotifyRun(i) \/ NotifyWait(i))
           \/ (\E h \in Node : Change(h)) \/ UNCHANGED vars
    PROVE  ClientInv'
<1> USE DEF library, client, node, process, history
<1>0. TypeOK /\ stack \in Seq(Frame) BY DEF ClientInv, TypeOK
<1>1. ASSUME RunAgain \/ ServiceCall \/ Disconnect PROVE ClientInv'
  <2>1. PICK pc \in {"drain", "call", "disconnect"} : Push([pc |-> pc])
    BY <1>1 DEF RunAgain, ServiceCall, Disconnect
  <2>2. [pc |-> pc] \in Frame BY PlainFrames
  <2>3. /\ DOMAIN stack = 1..Depth /\ DOMAIN stack' = 1..(Depth + 1) /\ Depth \in Nat
        /\ \A k \in 1..Depth : stack'[k] = stack[k]
        /\ stack'[Depth + 1].pc \in {"call", "drain", "iterate", "disconnect", "block"}
    BY <1>0, <2>1, <2>2, PushFacts
  <2> QED BY <1>1, <2>3, QuietStep DEF RunAgain, ServiceCall, Disconnect
<1>2. ASSUME RunDrained PROVE ClientInv'
  <2>1. /\ DOMAIN stack = 1..Depth /\ DOMAIN stack' = 1..Depth /\ Depth \in Nat
        /\ \A k \in 1..Depth : k # Depth => stack'[k] = stack[k]
        /\ stack[Depth].pc = "drain" /\ stack'[Depth].pc = "iterate"
    BY <1>0, <1>2, PlainFrames, GotoFacts DEF RunDrained, At
  <2> QED BY <1>2, <2>1, QuietStep DEF RunDrained
<1>3. ASSUME SubscriptionFailed \/ RunReturn \/ CallReturn \/ BlockReturn PROVE ClientInv'
  <2>1. PICK pc \in {"create", "iterate", "call", "block"} : At(pc) /\ Pop(1)
    BY <1>3 DEF SubscriptionFailed, RunReturn, CallReturn, BlockReturn
  <2>2. /\ DOMAIN stack = 1..Depth /\ DOMAIN stack' = 1..(Depth - 1) /\ Depth \in Nat
        /\ \A k \in 1..(Depth - 1) : stack'[k] = stack[k]
        /\ stack[Depth].pc = pc
    BY <1>0, <2>1, AtFacts, PopFacts DEF Depth
  <2> QED BY <1>3, <2>2, QuietStep DEF SubscriptionFailed, RunReturn, CallReturn, BlockReturn
<1>4. ASSUME RaiseFromCall PROVE ClientInv'
  <2>1. PICK pc \in {"call", "iterate"} : RaiseThrough(pc) BY <1>4 DEF RaiseFromCall
  <2> QED BY <1>0, <1>4, <2>1, RaiseFacts, QuietStep DEF RaiseFromCall
<1>5. ASSUME NEW i \in items, NotifyRun(i) \/ NotifyWait(i) PROVE ClientInv'
  <2>1. CASE Push([pc |-> "block"])
    <3>1. /\ DOMAIN stack = 1..Depth /\ DOMAIN stack' = 1..(Depth + 1) /\ Depth \in Nat
          /\ \A k \in 1..Depth : stack'[k] = stack[k]
          /\ stack'[Depth + 1].pc = "block"
      BY <1>0, <2>1, PlainFrames, PushFacts
    <3> QED BY <1>5, <3>1, QuietStep DEF NotifyRun, NotifyWait
  <2>2. CASE UNCHANGED stack BY <1>5, <2>2, QuietStep DEF NotifyRun, NotifyWait
  <2> QED BY <1>5, <2>1, <2>2 DEF NotifyRun, NotifyWait
<1>6. ASSUME Sigint \/ (\E h \in Node : Change(h)) \/ UNCHANGED vars PROVE ClientInv'
  BY <1>6, QuietStep DEF Sigint, Change, vars
<1> QED BY <1>1, <1>2, <1>3, <1>4, <1>5, <1>6

\* Every step keeps the inductive invariant.
LEMMA ClientInvStep == ClientInv /\ [Next]_vars => ClientInv'
<1> SUFFICES ASSUME ClientInv, [Next]_vars PROVE ClientInv' OBVIOUS
<1>0. TypeOK /\ TypeOK' BY TypeStep DEF ClientInv
<1>1. ASSUME NEW h \in Node, OnValueChangeFailed(h) PROVE ClientInv'
  BY <1>0, <1>1, LeakStep DEF OnValueChangeFailed, ResetCount, client, process
<1>2. ASSUME RaiseFromCreate PROVE ClientInv'
  <2>1. RaiseThrough("create") BY <1>2 DEF RaiseFromCreate
  <2>2. CASE UNCHANGED <<lastSub, subscriptions, leaked>>
    BY <1>0, <1>2, <2>1, <2>2, RaiseFacts, QuietStep DEF RaiseFromCreate, client, node
  <2>3. CASE link /\ lastSub' = lastSub + 1 /\ subscriptions' = subscriptions \cup {lastSub + 1}
             /\ leaked' = leaked \cup {lastSub + 1}
    BY <1>0, <1>2, <2>1, <2>3, RaiseFacts, LeakStep DEF RaiseFromCreate, client, node
  <2> QED BY <1>2, <2>2, <2>3 DEF RaiseFromCreate
<1>3. ASSUME DisconnectReturn PROVE ClientInv'
  <2>1. Len(stack) >= 1 /\ Depth = Len(stack) BY <1>0, <1>3, AtFacts DEF DisconnectReturn, TypeOK, Depth
  <2> QED BY <1>0, <1>3, <2>1, PopRelations, SessionGoneStep DEF DisconnectReturn, node, history
<1>4. ASSUME Drop PROVE ClientInv'
  BY <1>0, <1>4, SessionGoneStep DEF Drop, client, node, process, history
<1> QED
  BY <1>0, <1>1, <1>2, <1>3, <1>4, QuietActions, RunFirstStep, SubscriptionCreatedStep,
     RunPopStep, MonitorCreatedStep, MonitorFailedStep, OnChangeStep, OnValueChangeStep,
     WaitReturnStep, UnsubscribeStep, UnsubscribeReturnStep, RaiseFromMonitorStep,
     RaiseFromWaitStep, RaiseFromUnsubscribeStep, RaiseFromDisconnectStep
  DEF Next, CheckSubscription, BlockRaise

\* The inductive invariant holds in every reachable state.
THEOREM ClientInvariant == Spec => []ClientInv
<1>1. Init => ClientInv
  <2> SUFFICES ASSUME Init PROVE ClientInv OBVIOUS
  <2>1. TypeOK BY InitType
  <2>2. DOMAIN stack = {} BY DEF Init
  <2>3. \A h \in Node : Pending(h) = {} /\ InRequest(h) = {} /\ RunItems(h) = {}
                        /\ InRemoval(h) = {} /\ monId[h] = 0 /\ registered[h] = 0
    BY <2>2 DEF Init, Pending, InRequest, RunItems, InRemoval
  <2>4. LibraryInv /\ SubscriptionInv /\ OwnerInv
    BY <2>2 DEF Init, LibraryInv, SubscriptionInv, OwnerInv, Owns
  <2>5. OnceInv BY <2>3 DEF OnceInv, OnceAt, Spent
  <2>6. MonIdLive /\ SubsAccounted /\ NoSilentLoss
    BY <2>3 DEF Init, MonIdLive, SubsAccounted, NoSilentLoss
  <2> QED BY <2>1, <2>4, <2>5, <2>6 DEF ClientInv
<1> QED BY <1>1, ClientInvStep, PTL DEF Spec

\* What unsubscribe sends is always the id of a live item of its own node.
THEOREM MonIdAlwaysLive == Spec => []MonIdLive
BY ClientInvariant, PTL DEF ClientInv

\* No return path of the client loses a subscription.
THEOREM SubscriptionsAccounted == Spec => []SubsAccounted
BY ClientInvariant, PTL DEF ClientInv

\* A registration is never dropped without an unsubscribe or an exception.
THEOREM RegistrationsKept == Spec => []NoSilentLoss
BY ClientInvariant, PTL DEF ClientInv

\* A node registered once never has an item unsubscribe cannot reach.
THEOREM ItemsReachable == Spec => []NoOrphan
<1>1. ClientInv => NoOrphan BY DEF ClientInv, OnceInv, OnceAt, NoOrphan
<1> QED BY <1>1, ClientInvariant, PTL

=============================================================================
