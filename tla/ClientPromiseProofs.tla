------------------------- MODULE ClientPromiseProofs -------------------------
(***************************************************************************)
(* Client implements ClientPromise, for every value of its constants: each *)
(* registration is in one place at a time, and every step of the client is *)
(* a step of the promise or leaves it alone.                               *)
(***************************************************************************)
EXTENDS ClientProofs

-----------------------------------------------------------------------------
(* The frames of a kind *)

\* What a push, a goto and a pop do to the frames, index by index.
LEMMA PushMoves ==
    ASSUME stack \in Seq(Frame), NEW f \in Frame, Push(f)
    PROVE  /\ \A k \in DOMAIN stack : k \in DOMAIN stack' /\ stack'[k] = stack[k]
           /\ \A k \in DOMAIN stack' : stack'[k] = f \/ (k \in DOMAIN stack /\ stack'[k] = stack[k])
           /\ \E k \in DOMAIN stack' : stack'[k] = f
BY PushFacts

LEMMA GotoMoves ==
    ASSUME stack \in Seq(Frame), stack # <<>>, NEW f \in Frame, Goto(f)
    PROVE  /\ \A k \in DOMAIN stack : stack[k] = Top \/ (k \in DOMAIN stack' /\ stack'[k] = stack[k])
           /\ \A k \in DOMAIN stack' : stack'[k] = f \/ (k \in DOMAIN stack /\ stack'[k] = stack[k])
           /\ \E k \in DOMAIN stack' : stack'[k] = f
BY GotoFacts DEF Top

LEMMA PopMoves ==
    ASSUME TypeOK, NEW pc, At(pc), Pop(1)
    PROVE  /\ \A k \in DOMAIN stack : stack[k] = Top \/ (k \in DOMAIN stack' /\ stack'[k] = stack[k])
           /\ \A k \in DOMAIN stack' : k \in DOMAIN stack /\ stack'[k] = stack[k]
<1>1. stack \in Seq(Frame) BY DEF TypeOK
<1> QED BY <1>1, AtFacts, PopFacts DEF Depth

\* The frames of a kind, after a push.
LEMMA PushFrames ==
    ASSUME stack \in Seq(Frame), NEW f \in Frame, Push(f), NEW pc
    PROVE  /\ f.pc # pc => Frames(pc)' = Frames(pc)
           /\ f.pc = pc => Frames(pc)' = Frames(pc) \cup {f}
<1>1. \A k \in DOMAIN stack : k \in DOMAIN stack' /\ stack'[k] = stack[k] BY PushMoves
<1>2. \A k \in DOMAIN stack' : stack'[k] = f \/ (k \in DOMAIN stack /\ stack'[k] = stack[k])
  BY PushMoves
<1>3. \E k \in DOMAIN stack' : stack'[k] = f BY PushMoves
<1> QED BY <1>1, <1>2, <1>3 DEF Frames

\* After a goto from a frame of one kind to a frame of another, the other kinds
\* have the frames they had.
LEMMA GotoFrames ==
    ASSUME stack \in Seq(Frame), stack # <<>>, NEW f \in Frame, Goto(f), NEW pc,
           Top.pc # pc
    PROVE  /\ f.pc # pc => Frames(pc)' = Frames(pc)
           /\ f.pc = pc => Frames(pc)' = Frames(pc) \cup {f}
<1>1. \A k \in DOMAIN stack : stack[k] = Top \/ (k \in DOMAIN stack' /\ stack'[k] = stack[k])
  BY GotoMoves
<1>2. \A k \in DOMAIN stack' : stack'[k] = f \/ (k \in DOMAIN stack /\ stack'[k] = stack[k])
  BY GotoMoves
<1>3. \E k \in DOMAIN stack' : stack'[k] = f BY GotoMoves
<1> QED BY <1>1, <1>2, <1>3 DEF Frames

\* A return takes the top frame's kind only.
LEMMA PopFrames ==
    ASSUME TypeOK, NEW top, At(top), Pop(1), NEW pc
    PROVE  /\ pc # top => Frames(pc)' = Frames(pc)
           /\ Frames(pc)' \subseteq Frames(pc)
           /\ \A f \in Frames(pc) : f = Top \/ f \in Frames(pc)'
<1>1. \A k \in DOMAIN stack : stack[k] = Top \/ (k \in DOMAIN stack' /\ stack'[k] = stack[k])
  BY PopMoves
<1>2. \A k \in DOMAIN stack' : k \in DOMAIN stack /\ stack'[k] = stack[k] BY PopMoves
<1>3. Top.pc = top BY DEF At, Top
<1> QED BY <1>1, <1>2, <1>3 DEF Frames

\* An exception takes a block and its caller.
LEMMA RaiseFrames ==
    ASSUME TypeOK, NEW caller, RaiseThrough(caller), NEW pc, pc # "block"
    PROVE  /\ pc # caller => Frames(pc)' = Frames(pc)
           /\ Frames(pc)' \subseteq Frames(pc)
           /\ \A f \in Frames(pc) : f = Caller \/ f \in Frames(pc)'
<1>1. /\ \A k \in DOMAIN stack' : k \in DOMAIN stack /\ stack'[k] = stack[k]
      /\ Caller.pc = caller
  BY RaiseFacts
<1>2. \A k \in DOMAIN stack : \/ stack[k].pc = "block" \/ stack[k] = Caller
                             \/ (k \in DOMAIN stack' /\ stack'[k] = stack[k])
  BY RaiseFacts
<1> QED BY <1>1, <1>2 DEF Frames

-----------------------------------------------------------------------------
(* A registration is in one place at a time *)

\* Steps that register nothing and move nothing: entries, requests and items may
\* only disappear.
LEMMA OnceQuiet ==
    ASSUME OncePerCall, UNCHANGED lastReg, subs' \subseteq subs,
           \A i \in items' : i.kind = "run" => i \in items,
           \A k \in DOMAIN stack' : stack'[k].pc = "monitor" =>
               k \in DOMAIN stack /\ stack'[k] = stack[k]
    PROVE  OncePerCall'
<1>1. \A r \in RegId : /\ InSubs(r)' \subseteq InSubs(r)
                       /\ Requests(r)' \subseteq Requests(r)
                       /\ Granted(r)' \subseteq Granted(r)
  BY DEF InSubs, Requests, Granted
<1> QED BY <1>1 DEF OncePerCall

\* A registration has a number no place has seen.
LEMMA OnceOnChange ==
    ASSUME TypeOK, OncePerCall, NEW h \in Node, OnChange(h) PROVE OncePerCall'
<1>1. lastReg \in Nat /\ lastReg' = lastReg + 1 BY ClientAssumption DEF TypeOK, OnChange
<1>2. \A r \in RegId : Requests(r)' = Requests(r) /\ Granted(r)' = Granted(r)
  BY DEF OnChange, library, process, Requests, Granted
<1>3. \A r \in RegId : r # lastReg + 1 => InSubs(r)' = InSubs(r)
  BY DEF OnChange, InSubs
<1>4. \A r \in RegId : r = lastReg + 1 =>
        /\ Requests(r) = {} /\ Granted(r) = {} /\ InSubs(r) = {}
        /\ InSubs(r)' = {[node |-> h, reg |-> lastReg + 1]}
  <2> SUFFICES ASSUME NEW r \in RegId, r = lastReg + 1
               PROVE  /\ Requests(r) = {} /\ Granted(r) = {} /\ InSubs(r) = {}
                      /\ InSubs(r)' = {[node |-> h, reg |-> lastReg + 1]}
    OBVIOUS
  <2>1. ~(r <= lastReg) BY <1>1
  <2>2. Requests(r) = {} /\ Granted(r) = {} /\ InSubs(r) = {} BY <2>1 DEF OncePerCall
  <2> QED BY <2>2 DEF OnChange, InSubs
<1>5. ASSUME NEW r \in RegId PROVE r <= lastReg => r <= lastReg' BY <1>1 DEF RegId
<1>6. ASSUME NEW r \in RegId, r = lastReg + 1 PROVE r <= lastReg' BY <1>1, <1>6
<1> QED BY <1>2, <1>3, <1>4, <1>5, <1>6 DEF OncePerCall

\* An entry that leaves the array is in one request.
LEMMA OnceRunPop == ASSUME TypeOK, OncePerCall, RunPop PROVE OncePerCall'
<1>1. PICK e \in subs :
        /\ subs' = subs \ {e}
        /\ Goto([pc |-> "monitor", node |-> e.node, proc |-> onChange[e.node],
                 reg |-> e.reg])
  BY DEF RunPop, Popped, BlockOf
<1>2. [pc |-> "monitor", node |-> e.node, proc |-> onChange[e.node], reg |-> e.reg]
        \in Frame
  BY DEF TypeOK, Frame, Monitor
<1>3. /\ Depth \in Nat /\ Depth > 0 /\ DOMAIN stack = 1..Depth /\ DOMAIN stack' = 1..Depth
      /\ \A k \in 1..Depth : k # Depth => stack'[k] = stack[k]
      /\ stack[Depth].pc = "drain"
      /\ stack'[Depth].pc = "monitor" /\ stack'[Depth].reg = e.reg
  BY <1>1, <1>2, GotoFacts DEF RunPop, At, TypeOK
<1>4. e.reg \in RegId /\ e \in InSubs(e.reg) BY <1>1 DEF TypeOK, InSubs
<1>5. /\ InSubs(e.reg)' = {} /\ Requests(e.reg) = {} /\ Granted(e.reg) = {}
      /\ e.reg <= lastReg
  BY <1>1, <1>4 DEF OncePerCall, InSubs
<1>6. \A r \in RegId :
        /\ Granted(r)' = Granted(r)
        /\ r # e.reg => InSubs(r)' = InSubs(r)
        /\ Requests(r)' = IF r = e.reg THEN Requests(r) \cup {Depth} ELSE Requests(r)
  BY <1>1, <1>3 DEF InSubs, Requests, Granted, RunPop, library
<1>7. UNCHANGED lastReg BY DEF RunPop, history
<1> QED BY <1>5, <1>6, <1>7 DEF OncePerCall

\* A request that succeeds is one item.
LEMMA OnceMonitorCreated == ASSUME TypeOK, OncePerCall, MonitorCreated PROVE OncePerCall'
<1>1. /\ Depth \in Nat /\ Depth >= 1 /\ Depth \in DOMAIN stack /\ DOMAIN stack = 1..Depth
      /\ Top = stack[Depth] /\ Top.pc = "monitor" /\ Top.reg \in RegId
  BY AtFacts, FrameKinds DEF MonitorCreated, TypeOK, Depth
<1>2. /\ DOMAIN stack' = 1..Depth
      /\ \A k \in 1..Depth : k # Depth => stack'[k] = stack[k]
      /\ stack'[Depth].pc = "drain"
  BY PlainFrames, GotoFacts DEF MonitorCreated, At, TypeOK
<1>3. PICK r0 \in RegId : r0 = Top.reg BY <1>1
<1>4. PICK new \in items' :
        /\ new.kind = "run" /\ new.reg = r0 /\ items' = items \cup {new}
  BY <1>3 DEF MonitorCreated, Grant
<1>5. Depth \in Requests(r0) BY <1>1, <1>3 DEF Requests
<1>6. InSubs(r0) = {} /\ Granted(r0) = {} /\ Requests(r0) = {Depth} /\ r0 <= lastReg
  BY <1>5 DEF OncePerCall
<1>7. \A r \in RegId :
        /\ InSubs(r)' = InSubs(r)
        /\ Requests(r)' = IF r = r0 THEN {} ELSE Requests(r)
        /\ Granted(r)' = IF r = r0 THEN {new} ELSE Granted(r)
  <2>1. \A r \in RegId : Requests(r)' = Requests(r) \ {Depth}
    BY <1>1, <1>2 DEF Requests
  <2>2. \A r \in RegId : r # r0 => Depth \notin Requests(r) BY <1>1, <1>3 DEF Requests
  <2>3. \A r \in RegId : Granted(r)' = IF r = r0 THEN Granted(r) \cup {new} ELSE Granted(r)
    BY <1>4 DEF Granted
  <2>4. \A r \in RegId : InSubs(r)' = InSubs(r) BY DEF InSubs, MonitorCreated, client
  <2>5. ASSUME NEW r \in RegId PROVE Requests(r)' = IF r = r0 THEN {} ELSE Requests(r)
    <3>1. CASE r = r0 BY <1>6, <2>1, <3>1
    <3>2. CASE r # r0 BY <2>1, <2>2, <3>2
    <3> QED BY <3>1, <3>2
  <2>6. ASSUME NEW r \in RegId PROVE Granted(r)' = IF r = r0 THEN {new} ELSE Granted(r)
    BY <1>6, <2>3
  <2> QED BY <2>4, <2>5, <2>6
<1>8. UNCHANGED lastReg BY DEF MonitorCreated, history
<1> QED BY <1>6, <1>7, <1>8 DEF OncePerCall

\* Every step keeps each registration in one place.
LEMMA OnceStep == ASSUME ClientInv, OncePerCall, [Next]_vars PROVE OncePerCall'
<1> USE DEF library, client, node, process, history
<1>0. TypeOK /\ stack \in Seq(Frame) BY DEF ClientInv, TypeOK
<1>1. ASSUME RunAgain \/ RunFirst \/ ServiceCall \/ Disconnect PROVE OncePerCall'
  <2>1. PICK pc \in {"create", "drain", "call", "disconnect"} : Push([pc |-> pc])
    BY <1>1 DEF RunAgain, RunFirst, ServiceCall, Disconnect
  <2>2. [pc |-> pc] \in Frame BY PlainFrames
  <2>3. \A k \in DOMAIN stack' : stack'[k].pc = "monitor" =>
          k \in DOMAIN stack /\ stack'[k] = stack[k]
    BY <1>0, <2>1, <2>2, PushFacts
  <2> QED BY <1>1, <2>3, OnceQuiet DEF RunAgain, RunFirst, ServiceCall, Disconnect
<1>2. ASSUME SubscriptionCreated \/ RunDrained PROVE OncePerCall'
  <2>1. PICK pc \in {"drain", "iterate"} : Goto([pc |-> pc]) /\ stack # <<>>
    BY <1>2 DEF SubscriptionCreated, RunDrained, At
  <2>2. [pc |-> pc] \in Frame BY PlainFrames
  <2>3. \A k \in DOMAIN stack' : stack'[k].pc = "monitor" =>
          k \in DOMAIN stack /\ stack'[k] = stack[k]
    BY <1>0, <2>1, <2>2, GotoFacts
  <2> QED BY <1>2, <2>3, OnceQuiet DEF SubscriptionCreated, RunDrained
<1>3. ASSUME \/ SubscriptionFailed \/ MonitorFailed \/ RunReturn \/ CallReturn
             \/ BlockReturn \/ WaitReturn \/ UnsubscribeReturn \/ DisconnectReturn
      PROVE  OncePerCall'
  <2>1. Pop(1) /\ Depth >= 1
    BY <1>0, <1>3, AtFacts DEF SubscriptionFailed, MonitorFailed, RunReturn, CallReturn,
         BlockReturn, WaitReturn, UnsubscribeReturn, DisconnectReturn
  <2>2. \A k \in DOMAIN stack' : k \in DOMAIN stack /\ stack'[k] = stack[k]
    BY <1>0, <2>1, PopRelations
  <2>3. items' \subseteq items /\ subs' \subseteq subs /\ UNCHANGED lastReg
    BY <1>3 DEF SubscriptionFailed, MonitorFailed, RunReturn, CallReturn, BlockReturn,
         WaitReturn, Delete, UnsubscribeReturn, Forget, Others, Without, DisconnectReturn,
         SessionGone
  <2> QED BY <2>2, <2>3, OnceQuiet
<1>4. ASSUME BlockRaise PROVE OncePerCall'
  <2>1. PICK pc \in {"call", "iterate", "create", "monitor", "wait", "unsubscribe",
                     "disconnect"} : RaiseThrough(pc)
    BY <1>4 DEF BlockRaise, RaiseFromCall, RaiseFromCreate, RaiseFromMonitor,
         RaiseFromWait, RaiseFromUnsubscribe, RaiseFromDisconnect
  <2>2. \A k \in DOMAIN stack' : k \in DOMAIN stack /\ stack'[k] = stack[k]
    BY <1>0, <2>1, RaiseFacts
  <2>3. items' \subseteq items /\ subs' \subseteq subs /\ UNCHANGED lastReg
    BY <1>4 DEF BlockRaise, RaiseFromCall, RaiseFromCreate, RaiseFromMonitor,
         RaiseFromWait, RaiseFromUnsubscribe, RaiseFromDisconnect, Others
  <2> QED BY <2>2, <2>3, OnceQuiet
<1>5. ASSUME NEW i \in items, NotifyRun(i) \/ NotifyWait(i) PROVE OncePerCall'
  <2>1. UNCHANGED stack \/ Push([pc |-> "block"]) BY <1>5 DEF NotifyRun, NotifyWait
  <2>2. [pc |-> "block"] \in Frame BY PlainFrames
  <2>3. \A k \in DOMAIN stack' : stack'[k].pc = "monitor" =>
          k \in DOMAIN stack /\ stack'[k] = stack[k]
    <3>1. CASE UNCHANGED stack BY <3>1
    <3>2. CASE Push([pc |-> "block"]) BY <1>0, <2>2, <3>2, PushMoves
    <3> QED BY <2>1, <3>1, <3>2
  <2> QED BY <1>5, <2>3, OnceQuiet DEF NotifyRun, NotifyWait
<1>6. ASSUME NEW h \in Node, OnValueChange(h) PROVE OncePerCall'
  <2>1. [pc |-> "wait", node |-> h, sub |-> lastSub + 1] \in Frame
    BY <1>0, <1>6, ClientAssumption DEF OnValueChange, Frame, Wait, TypeOK, SubId
  <2>2. \A k \in DOMAIN stack' : stack'[k].pc = "monitor" =>
          k \in DOMAIN stack /\ stack'[k] = stack[k]
    BY <1>0, <1>6, <2>1, PushMoves DEF OnValueChange
  <2>3. \A i \in items' : i.kind = "run" => i \in items BY <1>6 DEF OnValueChange, Grant
  <2> QED BY <1>6, <2>2, <2>3, OnceQuiet DEF OnValueChange
<1>7. ASSUME NEW h \in Node, Unsubscribe(h) PROVE OncePerCall'
  <2>1. [pc |-> "unsubscribe", node |-> h, item |-> monId[h]] \in Frame
    BY <1>0, <1>7 DEF Unsubscribe, Frame, Removal, TypeOK, ItemId
  <2>2. \A k \in DOMAIN stack' : stack'[k].pc = "monitor" =>
          k \in DOMAIN stack /\ stack'[k] = stack[k]
    <3>1. Push([pc |-> "unsubscribe", node |-> h, item |-> monId[h]])
      BY <1>7 DEF Unsubscribe
    <3> QED BY <1>0, <2>1, <3>1, PushMoves
  <2> QED BY <1>7, <2>2, OnceQuiet DEF Unsubscribe
<1>8. ASSUME \/ \E h \in Node : OnValueChangeFailed(h) \/ Change(h)
             \/ Sigint \/ Drop \/ UNCHANGED vars
      PROVE  OncePerCall'
  <2>1. UNCHANGED <<stack, subs, lastReg>> /\ items' \subseteq items
    BY <1>8 DEF OnValueChangeFailed, Change, Sigint, Drop, SessionGone, vars
  <2> QED BY <2>1, OnceQuiet
<1> QED
  BY <1>0, <1>1, <1>2, <1>3, <1>4, <1>5, <1>6, <1>7, <1>8, OnceOnChange, OnceRunPop,
     OnceMonitorCreated
  DEF Next, CheckSubscription

\* An on_change call is an entry, a request or an item, and one of them once.
THEOREM OnePlacePerCall == Spec => []OncePerCall
<1>1. Init => OncePerCall
  BY DEF Init, OncePerCall, InSubs, Requests, Granted
<1> QED BY <1>1, OnceStep, ClientInvariant, PTL DEF Spec

-----------------------------------------------------------------------------
(* The refinement *)

\* What the promise sees of a step that leaves the array, the items, the requests,
\* the unsubscribes and the disconnects alone.
LEMMA PromiseStutters ==
    ASSUME UNCHANGED <<lastReg, subs, link>>, Served' = Served,
           \A pc \in {"monitor", "unsubscribe", "disconnect"} : Frames(pc)' = Frames(pc)
    PROVE  UNCHANGED Promise!vars
BY DEF Promise!vars, Asked, Leaving, Closing

\* The steps that touch nothing the promise is about: what an on_value_change
\* adds and deletes is on a subscription of its own.
LEMMA StuttersOf ==
    ASSUME ClientInv,
           \/ RunAgain \/ RunFirst \/ ServiceCall \/ SubscriptionCreated \/ RunDrained
           \/ SubscriptionFailed \/ RunReturn \/ CallReturn \/ BlockReturn \/ WaitReturn
           \/ RaiseFromCall \/ RaiseFromCreate \/ RaiseFromWait \/ Sigint
           \/ (\E i \in items : NotifyRun(i) \/ NotifyWait(i))
           \/ (\E h \in Node : OnValueChange(h) \/ OnValueChangeFailed(h) \/ Change(h))
           \/ UNCHANGED vars
    PROVE  UNCHANGED Promise!vars
<1> USE DEF library, client, node, process, history
<1>0. TypeOK /\ stack \in Seq(Frame) BY DEF ClientInv, TypeOK
<1>1. ASSUME RunAgain \/ RunFirst \/ ServiceCall PROVE UNCHANGED Promise!vars
  <2>1. PICK pc \in {"create", "drain", "call"} : Push([pc |-> pc])
    BY <1>1 DEF RunAgain, RunFirst, ServiceCall
  <2>2. [pc |-> pc] \in Frame BY PlainFrames
  <2>3. \A p \in {"monitor", "unsubscribe", "disconnect"} : Frames(p)' = Frames(p)
    BY <1>0, <2>1, <2>2, PushFrames
  <2>4. Served' = Served BY <1>1 DEF RunAgain, RunFirst, ServiceCall, Served
  <2> QED BY <1>1, <2>3, <2>4, PromiseStutters DEF RunAgain, RunFirst, ServiceCall
<1>2. ASSUME SubscriptionCreated \/ RunDrained PROVE UNCHANGED Promise!vars
  <2>1. PICK pc \in {"drain", "iterate"} :
          Goto([pc |-> pc]) /\ stack # <<>> /\ Top.pc \in {"create", "drain"}
    BY <1>2 DEF SubscriptionCreated, RunDrained, At, Top
  <2>2. [pc |-> pc] \in Frame BY PlainFrames
  <2>3. \A p \in {"monitor", "unsubscribe", "disconnect"} : Frames(p)' = Frames(p)
    BY <1>0, <2>1, <2>2, GotoFrames
  <2>4. Served' = Served BY <1>2 DEF SubscriptionCreated, RunDrained, Served
  <2> QED BY <1>2, <2>3, <2>4, PromiseStutters DEF SubscriptionCreated, RunDrained
<1>3. ASSUME \/ SubscriptionFailed \/ RunReturn \/ CallReturn \/ BlockReturn \/ WaitReturn
      PROVE  UNCHANGED Promise!vars
  <2>1. PICK pc \in {"create", "iterate", "call", "block", "wait"} : At(pc) /\ Pop(1)
    BY <1>3 DEF SubscriptionFailed, RunReturn, CallReturn, BlockReturn, WaitReturn
  <2>2. \A p \in {"monitor", "unsubscribe", "disconnect"} : Frames(p)' = Frames(p)
    BY <1>0, <2>1, PopFrames
  <2>3. \A i \in items \cup items' : i.kind = "run" => i \in items /\ i \in items'
    <3>1. CASE WaitReturn
      <4>1. Top.pc = "wait" /\ Depth \in DOMAIN stack /\ Top = stack[Depth]
        BY <1>0, <3>1, AtFacts DEF WaitReturn
      <4>2. Top.sub # subid BY <4>1 DEF ClientInv, SubscriptionInv
      <4>3. \A i \in items : i.kind = "run" => i.sub = subid BY DEF ClientInv, LibraryInv
      <4> QED BY <3>1, <4>2, <4>3 DEF WaitReturn, Delete, ItemsOf
    <3>2. CASE UNCHANGED items BY <3>2
    <3> QED BY <1>3, <3>1, <3>2 DEF SubscriptionFailed, RunReturn, CallReturn, BlockReturn
  <2>4. Served' = Served BY <2>3 DEF Served
  <2> QED
    BY <1>3, <2>2, <2>4, PromiseStutters
    DEF SubscriptionFailed, RunReturn, CallReturn, BlockReturn, WaitReturn
<1>4. ASSUME RaiseFromCall \/ RaiseFromCreate \/ RaiseFromWait PROVE UNCHANGED Promise!vars
  <2>1. PICK pc \in {"call", "iterate", "create", "wait"} : RaiseThrough(pc)
    BY <1>4 DEF RaiseFromCall, RaiseFromCreate, RaiseFromWait
  <2>2. \A p \in {"monitor", "unsubscribe", "disconnect"} : Frames(p)' = Frames(p)
    BY <1>0, <2>1, RaiseFrames
  <2>3. Served' = Served
    BY <1>4 DEF RaiseFromCall, RaiseFromCreate, RaiseFromWait, Served
  <2> QED BY <1>4, <2>2, <2>3, PromiseStutters DEF RaiseFromCall, RaiseFromCreate, RaiseFromWait
<1>5. ASSUME NEW i \in items, NotifyRun(i) \/ NotifyWait(i) PROVE UNCHANGED Promise!vars
  <2>1. UNCHANGED stack \/ Push([pc |-> "block"]) BY <1>5 DEF NotifyRun, NotifyWait
  <2>2. [pc |-> "block"] \in Frame BY PlainFrames
  <2>3. \A p \in {"monitor", "unsubscribe", "disconnect"} : Frames(p)' = Frames(p)
    <3>1. CASE UNCHANGED stack BY <3>1 DEF Frames
    <3>2. CASE Push([pc |-> "block"]) BY <1>0, <2>2, <3>2, PushFrames
    <3> QED BY <2>1, <3>1, <3>2
  <2>4. Served' = Served BY <1>5 DEF NotifyRun, NotifyWait, Served
  <2> QED BY <1>5, <2>3, <2>4, PromiseStutters DEF NotifyRun, NotifyWait
<1>6. ASSUME NEW h \in Node, OnValueChange(h) PROVE UNCHANGED Promise!vars
  <2>1. [pc |-> "wait", node |-> h, sub |-> lastSub + 1] \in Frame
    BY <1>0, <1>6, ClientAssumption DEF OnValueChange, Frame, Wait, TypeOK, SubId
  <2>2. \A p \in {"monitor", "unsubscribe", "disconnect"} : Frames(p)' = Frames(p)
    BY <1>0, <1>6, <2>1, PushFrames DEF OnValueChange
  <2>3. \A i \in items \cup items' : i.kind = "run" => i \in items /\ i \in items'
    BY <1>6 DEF OnValueChange, Grant
  <2>4. Served' = Served BY <2>3 DEF Served
  <2> QED BY <1>6, <2>2, <2>4, PromiseStutters DEF OnValueChange
<1>7. ASSUME \/ \E h \in Node : OnValueChangeFailed(h) \/ Change(h)
             \/ Sigint \/ UNCHANGED vars
      PROVE  UNCHANGED Promise!vars
  <2>1. UNCHANGED <<stack, items, lastReg, subs, link>>
    BY <1>7 DEF OnValueChangeFailed, Change, Sigint, vars
  <2> QED BY <2>1, PromiseStutters DEF Frames, Served
<1> QED BY <1>1, <1>2, <1>3, <1>4, <1>5, <1>6, <1>7

\* A registration.
LEMMA RegisterStep ==
    ASSUME ClientInv, NEW h \in Node, OnChange(h) PROVE Promise!Register(h)
<1>1. /\ lastReg < MaxReg /\ lastReg' = lastReg + 1
      /\ subs' = subs \cup {[node |-> h, reg |-> lastReg + 1]}
      /\ UNCHANGED <<stack, items, link>>
  BY DEF OnChange, library, process
<1> QED BY <1>1 DEF Promise!Register, Asked, Leaving, Closing, Frames, Served

\* The end of the array becomes a request.
LEMMA AskStep ==
    ASSUME ClientInv, RunPop PROVE \E e \in subs : Promise!Ask(e)
<1> USE DEF library, client, node, process, history
<1>1. PICK e \in subs :
        /\ \A f \in subs : f.reg <= e.reg
        /\ subs' = subs \ {e}
        /\ Goto([pc |-> "monitor", node |-> e.node, proc |-> onChange[e.node],
                 reg |-> e.reg])
  BY DEF RunPop, Popped, BlockOf
<1> DEFINE f == [pc |-> "monitor", node |-> e.node, proc |-> onChange[e.node],
                 reg |-> e.reg]
<1>2. f \in Frame BY DEF ClientInv, TypeOK, Frame, Monitor
<1>3. stack \in Seq(Frame) /\ stack # <<>> /\ Top.pc = "drain"
  BY DEF ClientInv, TypeOK, RunPop, At, Top
<1>4. /\ Frames("monitor")' = Frames("monitor") \cup {f}
      /\ Frames("unsubscribe")' = Frames("unsubscribe")
      /\ Frames("disconnect")' = Frames("disconnect")
  BY <1>1, <1>2, <1>3, GotoFrames
<1>5. Asked' = Asked \cup {e}
  <2>1. e = [node |-> e.node, reg |-> e.reg] BY <1>1 DEF ClientInv, TypeOK
  <2>2. f.node = e.node /\ f.reg = e.reg OBVIOUS
  <2> HIDE DEF f
  <2> QED BY <1>4, <2>1, <2>2 DEF Asked
<1>6. Leaving' = Leaving /\ Closing' = Closing BY <1>4 DEF Leaving, Closing
<1>7. UNCHANGED <<lastReg, link, items>> BY DEF RunPop
<1>8. Served' = Served BY <1>7 DEF Served
<1> QED BY <1>1, <1>5, <1>6, <1>7, <1>8 DEF Promise!Ask

\* A request frame on the stack is a registration asked for, and no other frame
\* and no entry is for the same one.
LEMMA RequestFacts ==
    ASSUME TypeOK, OncePerCall, NEW k \in DOMAIN stack, stack[k].pc = "monitor"
    PROVE  /\ [node |-> stack[k].node, reg |-> stack[k].reg] \in Asked
           /\ \A f \in Frames("monitor") : f.reg = stack[k].reg => f = stack[k]
<1>1. stack[k] \in Frame BY DEF TypeOK
<1>2. stack[k].reg \in RegId BY <1>1, FrameKinds
<1>3. \A l \in DOMAIN stack : stack[l].pc = "monitor" /\ stack[l].reg = stack[k].reg => l = k
  BY <1>2 DEF OncePerCall, Requests
<1> QED BY <1>3 DEF Asked, Frames

\* The request frame with registration r goes: exactly r leaves Asked.
LEMMA AskedLoses ==
    ASSUME TypeOK, OncePerCall, NEW k \in DOMAIN stack, stack[k].pc = "monitor",
           Frames("monitor")' = Frames("monitor") \ {stack[k]}
    PROVE  Asked' = Asked \ {[node |-> stack[k].node, reg |-> stack[k].reg]}
BY RequestFacts DEF Asked

\* The request frames after the one on top is gone, and no equal one is below it.
LEMMA TopRequestGone ==
    ASSUME TypeOK, OncePerCall, NEW k \in DOMAIN stack, stack[k].pc = "monitor",
           k \notin DOMAIN stack' \/ stack'[k].pc # "monitor",
           \A l \in DOMAIN stack' : l # k /\ stack'[l].pc = "monitor" =>
               l \in DOMAIN stack /\ stack'[l] = stack[l],
           \A l \in DOMAIN stack : l # k /\ stack[l].pc = "monitor" =>
               l \in DOMAIN stack' /\ stack'[l] = stack[l]
    PROVE  Frames("monitor")' = Frames("monitor") \ {stack[k]}
<1>1. stack[k] \in Frame BY DEF TypeOK
<1>2. stack[k].reg \in RegId BY <1>1, FrameKinds
<1>3. \A l \in DOMAIN stack : stack[l].pc = "monitor" /\ stack[l] = stack[k] => l = k
  BY <1>2 DEF OncePerCall, Requests
<1> QED BY <1>3 DEF Frames

\* The request succeeds.
LEMMA ServeStep ==
    ASSUME ClientInv, OncePerCall, MonitorCreated PROVE \E e \in Asked : Promise!Serve(e)
<1> USE DEF client, history
<1>0. TypeOK /\ stack \in Seq(Frame) BY DEF ClientInv, TypeOK
<1>1. /\ Depth \in Nat /\ Depth >= 1 /\ Depth \in DOMAIN stack /\ DOMAIN stack = 1..Depth
      /\ Top = stack[Depth] /\ Top.pc = "monitor"
  BY <1>0, AtFacts DEF MonitorCreated, Depth
<1>2. /\ DOMAIN stack' = 1..Depth
      /\ \A k \in 1..Depth : k # Depth => stack'[k] = stack[k]
      /\ stack'[Depth].pc = "drain"
  BY <1>0, PlainFrames, GotoFacts DEF MonitorCreated, At
<1> DEFINE e == [node |-> Top.node, reg |-> Top.reg]
<1>3. e \in Asked BY <1>0, <1>1, RequestFacts
<1>4. Frames("monitor")' = Frames("monitor") \ {stack[Depth]}
  BY <1>0, <1>1, <1>2, TopRequestGone
<1>5. Asked' = Asked \ {e} BY <1>0, <1>1, <1>4, AskedLoses
<1>6. [pc |-> "drain"] \in Frame /\ Goto([pc |-> "drain"]) /\ stack # <<>>
  BY PlainFrames DEF MonitorCreated, At
<1>7. Frames("unsubscribe")' = Frames("unsubscribe") /\ Frames("disconnect")' = Frames("disconnect")
  BY <1>0, <1>1, <1>6, GotoFrames
<1>8. PICK new \in items' :
        /\ new.kind = "run" /\ new.node = Top.node /\ new.reg = Top.reg
        /\ items' = items \cup {new}
  BY DEF MonitorCreated, Grant
<1>9. Served' = Served \cup {e} BY <1>8 DEF Served
<1>10. Leaving' = Leaving /\ Closing' = Closing BY <1>7 DEF Leaving, Closing
<1>11. link /\ UNCHANGED <<lastReg, subs, link>> BY DEF MonitorCreated
<1> HIDE DEF e
<1> QED BY <1>3, <1>5, <1>9, <1>10, <1>11 DEF Promise!Serve

\* The request fails, or is cut short.
LEMMA RefuseStep ==
    ASSUME ClientInv, OncePerCall, MonitorFailed \/ RaiseFromMonitor
    PROVE  \E e \in Asked : Promise!Refuse(e)
<1> USE DEF library, client, node, history
<1>0. TypeOK /\ stack \in Seq(Frame) BY DEF ClientInv, TypeOK
<1>1. UNCHANGED <<lastReg, subs, link, items>> BY DEF MonitorFailed, RaiseFromMonitor
<1>2. Served' = Served BY <1>1 DEF Served
<1>3. PICK k \in DOMAIN stack :
        /\ stack[k].pc = "monitor"
        /\ Frames("monitor")' = Frames("monitor") \ {stack[k]}
        /\ Frames("unsubscribe")' = Frames("unsubscribe")
        /\ Frames("disconnect")' = Frames("disconnect")
  <2>1. CASE MonitorFailed
    <3>1. At("monitor") /\ Pop(1) BY <2>1 DEF MonitorFailed
    <3>2. /\ Depth \in DOMAIN stack /\ stack[Depth].pc = "monitor"
          /\ \A l \in DOMAIN stack' : l \in DOMAIN stack /\ stack'[l] = stack[l] /\ l # Depth
          /\ \A l \in DOMAIN stack : l # Depth => l \in DOMAIN stack'
      BY <1>0, <3>1, AtFacts, PopFacts DEF Depth
    <3>3. Frames("monitor")' = Frames("monitor") \ {stack[Depth]}
      BY <1>0, <3>2, TopRequestGone
    <3>4. Frames("unsubscribe")' = Frames("unsubscribe") /\ Frames("disconnect")' = Frames("disconnect")
      BY <1>0, <3>1, PopFrames
    <3> QED BY <3>2, <3>3, <3>4
  <2>2. CASE RaiseFromMonitor
    <3>1. RaiseThrough("monitor") BY <2>2 DEF RaiseFromMonitor
    <3>2. /\ Depth - 1 \in DOMAIN stack /\ stack[Depth - 1].pc = "monitor"
          /\ \A l \in DOMAIN stack' : l \in DOMAIN stack /\ stack'[l] = stack[l] /\ l # Depth - 1
          /\ \A l \in DOMAIN stack : l # Depth - 1 /\ stack[l].pc = "monitor" => l \in DOMAIN stack'
      BY <1>0, <3>1, RaiseFacts
    <3>3. Frames("monitor")' = Frames("monitor") \ {stack[Depth - 1]}
      BY <1>0, <3>2, TopRequestGone
    <3>4. Frames("unsubscribe")' = Frames("unsubscribe") /\ Frames("disconnect")' = Frames("disconnect")
      BY <1>0, <3>1, RaiseFrames
    <3> QED BY <3>2, <3>3, <3>4
  <2> QED BY <2>1, <2>2
<1>4. /\ Asked' = Asked \ {[node |-> stack[k].node, reg |-> stack[k].reg]}
      /\ [node |-> stack[k].node, reg |-> stack[k].reg] \in Asked
  BY <1>0, <1>3, AskedLoses, RequestFacts
<1>5. Leaving' = Leaving /\ Closing' = Closing BY <1>3 DEF Leaving, Closing
<1> QED BY <1>1, <1>2, <1>4, <1>5 DEF Promise!Refuse

\* An unsubscribe is under way.
LEMMA LeaveStep ==
    ASSUME ClientInv, NEW h \in Node, Unsubscribe(h) PROVE Promise!Leave(h)
<1> USE DEF library, client, node, history
<1> DEFINE f == [pc |-> "unsubscribe", node |-> h, item |-> monId[h]]
<1>1. f \in Frame BY DEF ClientInv, Unsubscribe, Frame, Removal, TypeOK, ItemId
<1>2. stack \in Seq(Frame) /\ Push(f) BY DEF ClientInv, TypeOK, Unsubscribe
<1>3. /\ Frames("unsubscribe")' = Frames("unsubscribe") \cup {f}
      /\ Frames("monitor")' = Frames("monitor")
      /\ Frames("disconnect")' = Frames("disconnect")
  BY <1>1, <1>2, PushFrames
<1>4. f.node = h OBVIOUS
<1> HIDE DEF f
<1>5. Leaving' = Leaving \cup {h} BY <1>3, <1>4 DEF Leaving
<1>6. UNCHANGED <<lastReg, subs, link, items>> BY DEF Unsubscribe
<1>7. Asked' = Asked /\ Closing' = Closing /\ Served' = Served
  BY <1>3, <1>6 DEF Asked, Closing, Served
<1> QED BY <1>5, <1>6, <1>7 DEF Promise!Leave

\* Forgetting the item of an unsubscribe ends one registration of its node, or none:
\* whoever has the id, the item is that node's.
LEMMA ForgetEndsOne ==
    ASSUME ClientInv, OncePerCall, NEW k \in DOMAIN stack, stack[k].pc = "unsubscribe",
           items' = Others(stack[k].item) \/ UNCHANGED items
    PROVE  \/ Served' = Served
           \/ \E e \in Served : e.node = stack[k].node /\ Served' = Served \ {e}
<1>1. CASE \E i \in items : i.id = stack[k].item /\ items' = Others(stack[k].item)
  <2>1. PICK i \in items : i.id = stack[k].item /\ items' = Others(stack[k].item) BY <1>1
  <2>2. i.kind = "run" /\ i.node = stack[k].node
    BY <2>1 DEF ClientInv, OwnerInv, Owns
  <2>3. items' = items \ {i}
    <3>1. \A j \in items : j.id = stack[k].item => j = i BY <2>1 DEF ClientInv, LibraryInv
    <3> QED BY <2>1, <3>1 DEF Others
  <2>4. i.reg \in RegId BY <2>2 DEF ClientInv, TypeOK, RunItem, WaitItem
  <2>5. \A j \in items : j.kind = "run" /\ j.reg = i.reg => j = i
    BY <2>2, <2>4 DEF OncePerCall, Granted
  <2>6. Served' = Served \ {[node |-> i.node, reg |-> i.reg]} BY <2>3, <2>5 DEF Served
  <2>7. [node |-> i.node, reg |-> i.reg] \in Served BY <2>2 DEF Served
  <2> QED BY <2>2, <2>6, <2>7
<1>2. CASE ~(\E i \in items : i.id = stack[k].item /\ items' = Others(stack[k].item))
  <2>1. items' = items BY <1>2 DEF Others
  <2> QED BY <2>1 DEF Served
<1> QED BY <1>1, <1>2

\* An unsubscribe returns, or is cut short.
LEMMA LeaveEndsStep ==
    ASSUME ClientInv, OncePerCall, UnsubscribeReturn \/ RaiseFromUnsubscribe
    PROVE  \E h \in Node : Promise!Left(h) \/ Promise!LeaveCut(h)
<1> USE DEF client, node, history
<1>0. TypeOK /\ stack \in Seq(Frame) BY DEF ClientInv, TypeOK
<1>1. PICK k \in DOMAIN stack :
        /\ stack[k].pc = "unsubscribe" /\ stack[k].node \in Node
        /\ items' = Others(stack[k].item) \/ UNCHANGED items
        /\ Frames("monitor")' = Frames("monitor")
        /\ Frames("disconnect")' = Frames("disconnect")
        /\ Frames("unsubscribe")' \subseteq Frames("unsubscribe")
        /\ \A f \in Frames("unsubscribe") : f = stack[k] \/ f \in Frames("unsubscribe")'
        /\ UnsubscribeReturn => subs' = Without(stack[k].node)
        /\ RaiseFromUnsubscribe => subs' = subs
  <2>1. CASE UnsubscribeReturn
    <3>1. At("unsubscribe") /\ Pop(1) BY <2>1 DEF UnsubscribeReturn
    <3>2. Depth \in DOMAIN stack /\ Top = stack[Depth] /\ Top.pc = "unsubscribe" /\ Top.node \in Node
      BY <1>0, <3>1, AtFacts, FrameKinds
    <3>3. /\ Frames("monitor")' = Frames("monitor")
          /\ Frames("disconnect")' = Frames("disconnect")
          /\ Frames("unsubscribe")' \subseteq Frames("unsubscribe")
          /\ \A f \in Frames("unsubscribe") : f = Top \/ f \in Frames("unsubscribe")'
      BY <1>0, <3>1, PopFrames
    <3>4. subs' = Without(Top.node) /\ (items' = Others(Top.item) \/ UNCHANGED items)
      BY <2>1 DEF UnsubscribeReturn, Forget
    <3>5. RaiseFromUnsubscribe => subs' = subs BY DEF RaiseFromUnsubscribe
    <3> QED BY <3>2, <3>3, <3>4, <3>5
  <2>2. CASE RaiseFromUnsubscribe
    <3>1. RaiseThrough("unsubscribe") BY <2>2 DEF RaiseFromUnsubscribe
    <3>2. /\ Depth - 1 \in DOMAIN stack /\ Caller = stack[Depth - 1]
          /\ Caller.pc = "unsubscribe" /\ Caller.node \in Node
      BY <1>0, <3>1, RaiseFacts, FrameKinds
    <3>3. /\ Frames("monitor")' = Frames("monitor")
          /\ Frames("disconnect")' = Frames("disconnect")
          /\ Frames("unsubscribe")' \subseteq Frames("unsubscribe")
          /\ \A f \in Frames("unsubscribe") : f = Caller \/ f \in Frames("unsubscribe")'
      BY <1>0, <3>1, RaiseFrames
    <3>4. subs' = subs /\ (items' = Others(Caller.item) \/ UNCHANGED items)
      BY <2>2 DEF RaiseFromUnsubscribe
    <3>5. ~UnsubscribeReturn
      BY <1>0, <3>1, AtFacts, RaiseFacts DEF UnsubscribeReturn
    <3> QED BY <3>2, <3>3, <3>4, <3>5
  <2> QED BY <2>1, <2>2
<1>2. PICK h \in Node : h = stack[k].node BY <1>1
<1>3. h \in Leaving BY <1>1, <1>2 DEF Leaving, Frames
<1>4. Leaving' \in {Leaving, Leaving \ {h}}
  <2>1. Leaving' \subseteq Leaving BY <1>1 DEF Leaving
  <2>2. \A g \in Leaving : g = h \/ g \in Leaving' BY <1>1, <1>2 DEF Leaving
  <2> QED BY <2>1, <2>2
<1>5. Asked' = Asked /\ Closing' = Closing BY <1>1 DEF Asked, Closing
<1>6. Served' = Served \/ \E e \in Promise!Of(h, Served) : Served' = Served \ {e}
  BY <1>1, <1>2, ForgetEndsOne DEF Promise!Of
<1>7. UNCHANGED <<lastReg, link>> BY DEF UnsubscribeReturn, RaiseFromUnsubscribe
<1>8. Promise!LeaveEnds(h) BY <1>3, <1>4, <1>5, <1>6, <1>7 DEF Promise!LeaveEnds
<1>9. CASE UnsubscribeReturn
  <2>1. subs' = subs \ Promise!Of(h, subs) BY <1>1, <1>2, <1>9 DEF Without, Promise!Of
  <2> QED BY <1>8, <2>1 DEF Promise!Left
<1>10. CASE RaiseFromUnsubscribe
  <2>1. subs' = subs BY <1>1, <1>10
  <2> QED BY <1>8, <2>1 DEF Promise!LeaveCut
<1> QED BY <1>9, <1>10

\* A disconnect is under way.
LEMMA CloseStep == ASSUME ClientInv, Disconnect PROVE Promise!Close
<1> USE DEF library, client, node, history
<1>1. stack \in Seq(Frame) /\ Push([pc |-> "disconnect"]) BY DEF ClientInv, TypeOK, Disconnect
<1>2. [pc |-> "disconnect"] \in Frame BY PlainFrames
<1>3. /\ Frames("disconnect")' = Frames("disconnect") \cup {[pc |-> "disconnect"]}
      /\ Frames("monitor")' = Frames("monitor")
      /\ Frames("unsubscribe")' = Frames("unsubscribe")
  BY <1>1, <1>2, PushFrames
<1>4. UNCHANGED <<lastReg, subs, link, items>> BY DEF Disconnect
<1> QED BY <1>3, <1>4 DEF Promise!Close, Asked, Leaving, Closing, Served

\* A disconnect, cut short: the items it may have ended are all the shared
\* subscription's.
LEMMA CloseCutStep == ASSUME ClientInv, RaiseFromDisconnect PROVE Promise!CloseCut
<1> USE DEF client, node, history
<1>0. TypeOK /\ RaiseThrough("disconnect") BY DEF ClientInv, RaiseFromDisconnect
<1>1. /\ Frames("monitor")' = Frames("monitor")
      /\ Frames("unsubscribe")' = Frames("unsubscribe")
  BY <1>0, RaiseFrames
<1>2. Closing
  BY <1>0, RaiseFacts DEF Closing, Frames
<1>3. Closing' \in BOOLEAN BY DEF Closing
<1>4. Served' \in {Served, {}}
  <2>1. CASE UNCHANGED items BY <2>1 DEF Served
  <2>2. CASE items' = items \ ItemsOf(subid)
    <3>1. \A i \in items' : i.kind # "run"
      BY <2>2 DEF ItemsOf, ClientInv, LibraryInv
    <3> QED BY <3>1 DEF Served
  <2> QED BY <2>1, <2>2 DEF RaiseFromDisconnect
<1>5. UNCHANGED <<lastReg, subs, link>> BY DEF RaiseFromDisconnect
<1> QED BY <1>1, <1>2, <1>3, <1>4, <1>5 DEF Promise!CloseCut, Asked, Leaving

\* The session ends.
LEMMA LostStep == ASSUME ClientInv, DisconnectReturn \/ Drop PROVE Promise!Lost
<1> USE DEF client, node, process, history
<1>0. TypeOK /\ stack \in Seq(Frame) BY DEF ClientInv, TypeOK
<1>1. SessionGone /\ UNCHANGED <<lastReg, subs>> BY DEF DisconnectReturn, Drop
<1>2. Served' = {} BY <1>1 DEF SessionGone, Served
<1>3. /\ Frames("monitor")' = Frames("monitor")
      /\ Frames("unsubscribe")' = Frames("unsubscribe")
      /\ Frames("disconnect")' \subseteq Frames("disconnect")
  <2>1. CASE DisconnectReturn
    <3>1. At("disconnect") /\ Pop(1) BY <2>1 DEF DisconnectReturn
    <3> QED BY <1>0, <3>1, PopFrames
  <2>2. CASE Drop BY <2>2 DEF Drop, Frames
  <2> QED BY <2>1, <2>2
<1>4. Closing' \in {Closing, FALSE} BY <1>3 DEF Closing
<1> QED BY <1>1, <1>2, <1>3, <1>4 DEF Promise!Lost, SessionGone, Asked, Leaving

\* The client keeps the promise: it starts with no registration, and each of its
\* steps is the promise's or leaves the registrations alone.
THEOREM ClientKeepsPromise == Spec => PromiseKept
<1>1. Init => Promise!Init
  <2> SUFFICES ASSUME Init PROVE Promise!Init OBVIOUS
  <2>1. \A pc : Frames(pc) = {} BY DEF Init, Frames
  <2> QED BY <2>1 DEF Init, Promise!Init, Asked, Served, Leaving, Closing
<1>2. ASSUME ClientInv, OncePerCall, [Next]_vars
      PROVE  [Promise!Next]_(Promise!vars)
  <2>1. CASE \E h \in Node : OnChange(h) BY <1>2, <2>1, RegisterStep DEF Promise!Next
  <2>2. CASE RunPop BY <1>2, <2>2, AskStep DEF Promise!Next
  <2>3. CASE MonitorCreated BY <1>2, <2>3, ServeStep DEF Promise!Next
  <2>4. CASE MonitorFailed \/ RaiseFromMonitor BY <1>2, <2>4, RefuseStep DEF Promise!Next
  <2>5. CASE \E h \in Node : Unsubscribe(h) BY <1>2, <2>5, LeaveStep DEF Promise!Next
  <2>6. CASE UnsubscribeReturn \/ RaiseFromUnsubscribe
    BY <1>2, <2>6, LeaveEndsStep DEF Promise!Next
  <2>7. CASE Disconnect BY <1>2, <2>7, CloseStep DEF Promise!Next
  <2>8. CASE RaiseFromDisconnect BY <1>2, <2>8, CloseCutStep DEF Promise!Next
  <2>9. CASE DisconnectReturn \/ Drop BY <1>2, <2>9, LostStep DEF Promise!Next
  <2> QED
    BY <1>2, <2>1, <2>2, <2>3, <2>4, <2>5, <2>6, <2>7, <2>8, <2>9, StuttersOf
    DEF Next, CheckSubscription, BlockRaise
<1> QED BY <1>1, <1>2, ClientInvariant, OnePlacePerCall, PTL DEF Spec, PromiseKept, Promise!Spec
=============================================================================
