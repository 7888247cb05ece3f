--------------------------- MODULE CallbacksProofs ---------------------------
(***************************************************************************)
(* Theorems about Callbacks, for every value of its constants.             *)
(***************************************************************************)
EXTENDS Callbacks, SequenceTheorems, TLAPS

\* Popping a block off the stack.
LEMMA PopBlock ==
    ASSUME NEW s \in Seq(BOOLEAN), s # <<>>
    PROVE  /\ SubSeq(s, 1, Len(s) - 1) \in Seq(BOOLEAN)
           /\ Len(s) \in Nat \ {0}
           /\ Len(SubSeq(s, 1, Len(s) - 1)) = Len(s) - 1
           /\ \A k \in 1..(Len(s) - 1) : SubSeq(s, 1, Len(s) - 1)[k] = s[k]
<1>1. Len(s) \in Nat \ {0} /\ DOMAIN s = 1..Len(s) /\ \A k \in 1..Len(s) : s[k] \in BOOLEAN OBVIOUS
<1>2. \A k \in 1..(Len(s) - 1) : s[k] \in BOOLEAN BY <1>1
<1> QED BY <1>1, <1>2, SubSeqProperties

\* Calling one.
LEMMA PushBlock ==
    ASSUME NEW s \in Seq(BOOLEAN), NEW b \in BOOLEAN
    PROVE  /\ Append(s, b) \in Seq(BOOLEAN)
           /\ Len(s) \in Nat /\ Len(Append(s, b)) = Len(s) + 1
           /\ \A k \in 1..Len(s) : Append(s, b)[k] = s[k]
           /\ Append(s, b)[Len(s) + 1] = b
           /\ Append(s, b) # <<>>
OBVIOUS

\* The oldest request of a client, and what is left when it is taken.
LEMMA FirstFacts ==
    ASSUME TypeOK, NEW c \in Remote, Ready(c)
    PROVE  First(c) \in Request /\ Tail(inbox[c]) \in Seq(Request)
<1>1. inbox[c] \in Seq(Request) /\ inbox[c] # <<>> BY DEF TypeOK, Ready
<1> QED BY <1>1 DEF First

\* The fields of a request.
LEMMA RequestFacts ==
    \A q \in Request :
        /\ q.id \in ReqId
        /\ q.op = "write" => q.node \in Var /\ q.val \in Value
        /\ q.op = "read" => q.node \in Var
        /\ q.op = "call" => q.node \in Method
        /\ q.op \in {"write", "read", "call"}
BY DEF Request, Write, Read, Call

\* An answer is one to the request it is for, and of the type of answers.
LEMMA ReplyFacts ==
    ASSUME TypeOK, NEW c \in Remote, NEW r \in ReqId, NEW res \in Result, Reply(c, r, res)
    PROVE  /\ answer' \in [Remote -> {None} \cup [id : ReqId, res : Result]]
           /\ awaiting' \in [Remote -> 0..MaxReq]
<1>0. /\ answer \in [Remote -> {None} \cup [id : ReqId, res : Result]]
      /\ awaiting \in [Remote -> 0..MaxReq]
  BY DEF TypeOK
<1>1. CASE awaiting[c] = r
  <2>1. [id |-> r, res |-> res] \in [id : ReqId, res : Result] OBVIOUS
  <2>2. 0 \in 0..MaxReq BY CallbacksAssumption
  <2>3. /\ answer' = [answer EXCEPT ![c] = [id |-> r, res |-> res]]
        /\ awaiting' = [awaiting EXCEPT ![c] = 0]
    BY <1>1 DEF Reply
  <2>4. answer' \in [Remote -> {None} \cup [id : ReqId, res : Result]]
    BY <1>0, <2>1, <2>3
  <2>5. awaiting' \in [Remote -> 0..MaxReq] BY <1>0, <2>2, <2>3
  <2> QED BY <2>4, <2>5
<1>2. CASE awaiting[c] # r BY <1>0, <1>2 DEF Reply
<1> QED BY <1>1, <1>2

-----------------------------------------------------------------------------
(* Types, and what blocks are told *)

CallbacksInv == TypeOK /\ ExternalRight

\* A client sends a request or gives one up.
LEMMA ClientSteps ==
    ASSUME CallbacksInv, NEW c \in Remote,
           (\E q \in Request : Send(c, q)) \/ GiveUp(c)
    PROVE  CallbacksInv'
<1> USE CallbacksAssumption DEF CallbacksInv, TypeOK, server, remote
<1>1. ASSUME NEW q \in Request, Send(c, q) PROVE CallbacksInv'
  <2>1. q.id \in ReqId /\ q.id \in 0..MaxReq BY RequestFacts DEF ReqId
  <2>2. inbox' \in [Remote -> Seq(Request)] BY <1>1 DEF Send
  <2>3. lastReq' \in 0..MaxReq /\ awaiting' \in [Remote -> 0..MaxReq] BY <1>1, <2>1 DEF Send
  <2>4. answer' \in [Remote -> {None} \cup [id : ReqId, res : Result]] BY <1>1 DEF Send
  <2>5. TypeOK' BY <1>1, <2>2, <2>3, <2>4 DEF Send
  <2> QED BY <1>1, <2>5 DEF Send, ExternalRight
<1>2. ASSUME GiveUp(c) PROVE CallbacksInv' BY <1>2 DEF GiveUp, ExternalRight
<1> QED BY <1>1, <1>2

\* With one block running, what holds of it holds of all.
LEMMA TopOnly ==
    ASSUME NEW s, s \in Seq(BOOLEAN), Len(s) = 1, s[1] = TRUE
    PROVE  \A k \in DOMAIN s : s[k] <=> k = 1
OBVIOUS

\* The process dies.
LEMMA DiesStep == ASSUME CallbacksInv, Dies PROVE CallbacksInv'
<1>1. <<>> \in Seq(BOOLEAN) /\ DOMAIN <<>> = {} OBVIOUS
<1>2. stack' = <<>> /\ serving' = None /\ running' = FALSE /\ gone' = TRUE BY DEF Dies
<1>3. UNCHANGED <<value, wild, lastReq, inbox, awaiting, answer, broken>> BY DEF Dies, remote
<1>4. TypeOK' BY <1>1, <1>2, <1>3 DEF CallbacksInv, TypeOK, Serving
<1>5. ExternalRight' BY <1>1, <1>2 DEF ExternalRight
<1> QED BY <1>4, <1>5 DEF CallbacksInv

\* The server takes a request.
LEMMA ServeSteps ==
    ASSUME CallbacksInv, NEW c \in Remote, Serve(c) PROVE CallbacksInv'
<1> USE CallbacksAssumption DEF CallbacksInv, server, remote
<1>1. /\ Ready(c) /\ First(c) \in Request /\ Tail(inbox[c]) \in Seq(Request)
      /\ First(c).id \in ReqId
  BY FirstFacts, RequestFacts
  DEF Serve, ServeRefused, ServeRead, ServeWrite, ServeCall, ServeNil, ServeWild
<1>2. Taken(c) => inbox' \in [Remote -> Seq(Request)] BY <1>1 DEF Taken, TypeOK
<1>3. serving = None /\ stack = <<>> /\ running
  BY <1>1 DEF Ready, ExternalRight
<1>4. CASE ServeRefused(c)
  <2>1. "refused" \in Result BY DEF Result
  <2>2. /\ answer' \in [Remote -> {None} \cup [id : ReqId, res : Result]]
        /\ awaiting' \in [Remote -> 0..MaxReq]
    BY <1>1, <1>4, <2>1, ReplyFacts DEF ServeRefused
  <2> QED BY <1>2, <1>4, <2>2 DEF ServeRefused, TypeOK, ExternalRight
<1>5. CASE ServeRead(c)
  <2>1. value[First(c).node] \in Result
    BY <1>1, <1>5, RequestFacts DEF ServeRead, Result, TypeOK
  <2>2. /\ answer' \in [Remote -> {None} \cup [id : ReqId, res : Result]]
        /\ awaiting' \in [Remote -> 0..MaxReq]
    BY <1>1, <1>5, <2>1, ReplyFacts DEF ServeRead
  <2> QED BY <1>2, <1>5, <2>2 DEF ServeRead, TypeOK, ExternalRight
<1>6. CASE ServeWrite(c)
  <2>1. First(c).node \in Var /\ First(c).val \in Value
    BY <1>1, <1>6, RequestFacts DEF ServeWrite
  <2>2. value' \in [Var -> Content] BY <1>6, <2>1 DEF ServeWrite, Store, Content, TypeOK
  <2>3. CASE First(c).node \in Blockless
    <3>1. "done" \in Result BY DEF Result
    <3>2. /\ answer' \in [Remote -> {None} \cup [id : ReqId, res : Result]]
          /\ awaiting' \in [Remote -> 0..MaxReq]
      BY <1>1, <1>6, <2>3, <3>1, ReplyFacts DEF ServeWrite
    <3> QED BY <1>2, <1>6, <2>2, <2>3, <3>2 DEF ServeWrite, Store, TypeOK, ExternalRight
  <2>4. CASE First(c).node \notin Blockless
    <3>1. stack' = Append(stack, TRUE)
      BY <1>6, <2>4 DEF ServeWrite, Store, External
    <3>2. stack' \in Seq(BOOLEAN) /\ Len(stack') = 1 /\ stack'[1] = TRUE /\ stack' # <<>>
      BY <1>3, <3>1
    <3>3. serving' = [id |-> First(c).id, from |-> c] BY <1>6, <2>4 DEF ServeWrite
    <3>4. serving' \in Serving /\ serving' # None
      BY <1>1, <3>3 DEF Serving, None
    <3>5. TypeOK' BY <1>2, <1>6, <2>2, <2>4, <3>2, <3>4 DEF ServeWrite, TypeOK
    <3>6. running' BY <1>3, <1>6 DEF ServeWrite
    <3>7. ExternalRight' BY <3>2, <3>4, <3>6, TopOnly DEF ExternalRight
    <3> QED BY <3>5, <3>7
  <2> QED BY <2>3, <2>4
<1>7. CASE ServeCall(c)
  <2>1. stack' \in Seq(BOOLEAN) /\ Len(stack') = 1 /\ stack'[1] = TRUE /\ stack' # <<>>
    BY <1>3, <1>7 DEF ServeCall
  <2>2. serving' \in Serving /\ serving' # None
    BY <1>1, <1>7 DEF ServeCall, Serving, None
  <2>3. TypeOK' BY <1>2, <1>7, <2>1, <2>2 DEF ServeCall, TypeOK
  <2>4. running' BY <1>3, <1>7 DEF ServeCall
  <2>5. ExternalRight' BY <2>1, <2>2, <2>4, TopOnly DEF ExternalRight
  <2> QED BY <2>3, <2>5
<1>8. CASE ServeNil(c) \/ ServeWild(c)
  <2>1. Dies BY <1>8 DEF ServeNil, ServeWild
  <2> QED BY <2>1, DiesStep DEF CallbacksInv
<1> QED BY <1>4, <1>5, <1>6, <1>7, <1>8 DEF Serve

\* The program, or a block, writes a variable.
LEMMA OwnWriteStep ==
    ASSUME CallbacksInv, NEW x \in Var, NEW v \in Value, OwnWrite(x, v)
    PROVE  CallbacksInv'
<1> USE DEF CallbacksInv, remote
<1>1. value' \in [Var -> Content] BY DEF OwnWrite, Store, Content, TypeOK
<1>2. UNCHANGED <<wild, running, serving, gone, lastReq, inbox, awaiting, answer, broken>>
  BY DEF OwnWrite
<1>3. CASE x \in Blockless
  BY <1>1, <1>2, <1>3 DEF OwnWrite, Store, TypeOK, ExternalRight
<1>4. CASE x \notin Blockless
  <2>1. stack \in Seq(BOOLEAN) /\ stack' = Append(stack, FALSE)
    BY <1>4 DEF OwnWrite, Store, External, TypeOK
  <2>2. /\ stack' \in Seq(BOOLEAN) /\ Len(stack) \in Nat /\ Len(stack') = Len(stack) + 1
        /\ \A k \in 1..Len(stack) : stack'[k] = stack[k]
        /\ stack'[Len(stack) + 1] = FALSE /\ stack' # <<>>
    BY <2>1, PushBlock
  <2>3. DOMAIN stack = 1..Len(stack) /\ DOMAIN stack' = 1..(Len(stack) + 1)
    BY <2>1, <2>2
  <2>4. serving # None => Len(stack) # 0 BY <2>1 DEF ExternalRight
  <2>5. ASSUME NEW k \in DOMAIN stack' PROVE stack'[k] <=> (k = 1 /\ serving' # None)
    <3>1. CASE k \in 1..Len(stack)
      <4>1. stack[k] <=> (k = 1 /\ serving # None) BY <2>3, <3>1 DEF ExternalRight
      <4>2. stack'[k] = stack[k] BY <2>2, <3>1
      <4> QED BY <1>2, <4>1, <4>2
    <3>2. CASE k = Len(stack) + 1
      <4>1. stack'[k] = FALSE BY <2>2, <3>2
      <4>2. serving' # None => k # 1 BY <1>2, <2>2, <2>4, <3>2
      <4> QED BY <4>1, <4>2
    <3> QED BY <2>2, <2>3, <3>1, <3>2
  <2>6. ExternalRight' BY <1>2, <2>2, <2>5 DEF ExternalRight
  <2> QED BY <1>1, <1>2, <2>2, <2>6 DEF TypeOK
<1> QED BY <1>3, <1>4

\* A block ends, whatever comes of it: the block below is told what it was.
LEMMA Popped ==
    ASSUME CallbacksInv, stack # <<>>,
           stack' = SubSeq(stack, 1, Depth - 1),
           serving' = IF Depth = 1 THEN None ELSE serving,
           running' \in BOOLEAN, Depth # 1 /\ serving # None => running'
    PROVE  stack' \in Seq(BOOLEAN) /\ ExternalRight'
<1>1. /\ stack' \in Seq(BOOLEAN) /\ Len(stack) \in Nat \ {0}
      /\ Len(stack') = Len(stack) - 1
      /\ \A k \in 1..(Len(stack) - 1) : stack'[k] = stack[k]
  BY PopBlock DEF CallbacksInv, TypeOK, Depth
<1>2. DOMAIN stack = 1..Len(stack) /\ DOMAIN stack' = 1..(Len(stack) - 1)
  <2>1. \A s \in Seq(BOOLEAN) : DOMAIN s = 1..Len(s) OBVIOUS
  <2>2. stack \in Seq(BOOLEAN) /\ stack' \in Seq(BOOLEAN) BY <1>1 DEF CallbacksInv, TypeOK
  <2>3. DOMAIN stack = 1..Len(stack) /\ DOMAIN stack' = 1..Len(stack') BY <2>1, <2>2
  <2> QED BY <1>1, <2>3
<1>3. CASE Len(stack) = 1
  <2>1. serving' = None BY <1>3 DEF Depth
  <2>2. DOMAIN stack' = {} BY <1>2, <1>3
  <2> QED BY <1>1, <2>1, <2>2 DEF ExternalRight
<1>4. CASE Len(stack) # 1
  <2>1. serving' = serving BY <1>4 DEF Depth
  <2>3. stack' # <<>>
    <3>1. Len(stack') # 0 BY <1>1, <1>4
    <3>2. Len(<<>>) = 0 OBVIOUS
    <3> QED BY <3>1, <3>2
  <2>2. ASSUME NEW k \in DOMAIN stack' PROVE stack'[k] <=> (k = 1 /\ serving' # None)
    <3>1. stack[k] <=> (k = 1 /\ serving # None) BY <1>1, <1>2 DEF CallbacksInv, ExternalRight
    <3>2. stack'[k] = stack[k] BY <1>1, <1>2
    <3> QED BY <2>1, <3>1, <3>2
  <2>4. serving' # None => running' BY <1>4, <2>1 DEF Depth
  <2> QED BY <1>1, <2>2, <2>3, <2>4 DEF ExternalRight
<1> QED BY <1>3, <1>4

LEMMA BlockReturnStep == ASSUME CallbacksInv, BlockReturn PROVE CallbacksInv'
<1> USE DEF CallbacksInv
<1>1. UNCHANGED <<value, wild, running, gone, lastReq, inbox, broken>> BY DEF BlockReturn
<1>2. serving' = IF Depth = 1 THEN None ELSE serving BY DEF BlockReturn
<1>3. stack' \in Seq(BOOLEAN) /\ ExternalRight'
  <2>1. stack # <<>> /\ stack' = SubSeq(stack, 1, Depth - 1) BY DEF BlockReturn
  <2>2. running' \in BOOLEAN /\ (serving # None => running')
    BY <1>1 DEF TypeOK, ExternalRight
  <2> QED BY <1>2, <2>1, <2>2, Popped
<1>4. /\ answer' \in [Remote -> {None} \cup [id : ReqId, res : Result]]
      /\ awaiting' \in [Remote -> 0..MaxReq]
  <2>1. CASE Depth = 1 /\ serving # None
    <3>1. serving.from \in Remote /\ serving.id \in ReqId BY <2>1 DEF TypeOK, Serving
    <3>2. Reply(serving.from, serving.id, "done") BY <2>1 DEF BlockReturn
    <3>3. "done" \in Result BY DEF Result
    <3> QED BY <3>1, <3>2, <3>3, ReplyFacts
  <2>2. CASE ~(Depth = 1 /\ serving # None)
    BY <2>2 DEF BlockReturn, TypeOK
  <2> QED BY <2>1, <2>2
<1>5. serving' \in Serving BY <1>2 DEF TypeOK, Serving
<1> QED BY <1>1, <1>3, <1>4, <1>5 DEF TypeOK

LEMMA BlockRaiseStep == ASSUME CallbacksInv, BlockRaise PROVE CallbacksInv'
<1> USE DEF CallbacksInv, remote
<1>1. UNCHANGED <<value, wild, gone, lastReq, inbox, awaiting, answer>> BY DEF BlockRaise
<1>2. serving' = IF Depth = 1 THEN None ELSE serving BY DEF BlockRaise
<1>3. running' \in BOOLEAN /\ (Depth # 1 => running' = running) BY DEF BlockRaise, TypeOK
<1>4. stack' \in Seq(BOOLEAN) /\ ExternalRight'
  <2>1. stack # <<>> /\ stack' = SubSeq(stack, 1, Depth - 1) BY DEF BlockRaise
  <2>2. Depth # 1 /\ serving # None => running' BY <1>3 DEF ExternalRight
  <2> QED BY <1>2, <1>3, <2>1, <2>2, Popped
<1>5. serving' \in Serving BY <1>2 DEF TypeOK, Serving
<1>6. broken' \subseteq ReqId
  <2>1. serving # None => serving.id \in ReqId BY DEF TypeOK, Serving
  <2> QED BY <2>1 DEF BlockRaise, TypeOK
<1> QED BY <1>1, <1>3, <1>4, <1>5, <1>6 DEF TypeOK

LEMMA CallbacksInvInit == Init => CallbacksInv
<1> SUFFICES ASSUME Init PROVE CallbacksInv OBVIOUS
<1>1. <<>> \in Seq(BOOLEAN) /\ DOMAIN <<>> = {} /\ <<>> \in Seq(Request) OBVIOUS
<1>2. 0 \in 0..MaxReq BY CallbacksAssumption
<1>3. value \in [Var -> Content] /\ inbox \in [Remote -> Seq(Request)]
  BY <1>1 DEF Init, Content
<1>4. awaiting \in [Remote -> 0..MaxReq] /\ lastReq \in 0..MaxReq
  BY <1>2 DEF Init
<1>5. answer \in [Remote -> {None} \cup [id : ReqId, res : Result]]
  BY DEF Init
<1>6. wild \subseteq Var /\ running \in BOOLEAN /\ gone \in BOOLEAN /\ broken \subseteq ReqId
  BY DEF Init
<1>7. serving \in Serving /\ stack \in Seq(BOOLEAN)
  BY <1>1 DEF Init, Serving
<1>8. TypeOK BY <1>3, <1>4, <1>5, <1>6, <1>7 DEF TypeOK
<1>9. ExternalRight BY <1>1 DEF Init, ExternalRight
<1> QED BY <1>8, <1>9 DEF CallbacksInv

LEMMA CallbacksInvNext == CallbacksInv /\ [Next]_vars => CallbacksInv'
<1> SUFFICES ASSUME CallbacksInv, [Next]_vars PROVE CallbacksInv' OBVIOUS
<1>1. ASSUME NEW c \in Remote, Serve(c) PROVE CallbacksInv' BY <1>1, ServeSteps
<1>2. ASSUME NEW c \in Remote, GiveUp(c) \/ \E q \in Request : Send(c, q) PROVE CallbacksInv'
  BY <1>2, ClientSteps
<1>3. CASE Run
  <2>1. serving = None BY <1>3 DEF Run, CallbacksInv, ExternalRight
  <2> QED BY <1>3, <2>1 DEF Run, remote, CallbacksInv, TypeOK, ExternalRight
<1>4. CASE RunReturn
  <2>1. serving = None BY <1>4 DEF RunReturn, CallbacksInv, ExternalRight
  <2> QED BY <1>4, <2>1 DEF RunReturn, remote, CallbacksInv, TypeOK, ExternalRight
<1>5. CASE BlockReturn BY <1>5, BlockReturnStep
<1>6. CASE BlockRaise BY <1>6, BlockRaiseStep
<1>7. ASSUME NEW x \in Var, OwnReadWild(x) PROVE CallbacksInv'
  BY <1>7, DiesStep DEF OwnReadWild
<1>8. ASSUME NEW x \in Var, NEW v \in Value, OwnWrite(x, v) PROVE CallbacksInv'
  BY <1>8, OwnWriteStep
<1>9. CASE UNCHANGED vars
  BY <1>9 DEF vars, server, remote, CallbacksInv, TypeOK, ExternalRight
<1> QED BY <1>1, <1>2, <1>3, <1>4, <1>5, <1>6, <1>7, <1>8, <1>9 DEF Next

LEMMA CallbacksInvHolds == Spec => []CallbacksInv
BY CallbacksInvInit, CallbacksInvNext, PTL DEF Spec

\* Callbacks.TypeOK is an invariant: whatever blocks do, and however deep they are
\* within each other, the state of the server and of its clients keeps its types.
THEOREM TypesKept == Spec => []TypeOK
<1>1. CallbacksInv => TypeOK BY DEF CallbacksInv
<1> QED BY <1>1, CallbacksInvHolds, PTL

\* A block is told that a client changed the variable exactly when it runs for a
\* request of a client, at every depth (server.c:369-373).
THEOREM BlocksKnowTheWriter == Spec => []ExternalRight
<1>1. CallbacksInv => ExternalRight BY DEF CallbacksInv
<1> QED BY <1>1, CallbacksInvHolds, PTL

-----------------------------------------------------------------------------
(* The server keeps its promise to its clients. Taking a request is a step of  *)
(* RemotePromise; blocks within blocks and server.run are not seen.            *)

\* What a client is told is the promised answer.
LEMMA ReplyTells ==
    ASSUME NEW c \in Remote, NEW r, NEW res, Reply(c, r, res)
    PROVE  Promise!Tell(c, r, res)
BY DEF Reply, Promise!Tell

\* A request that is taken is taken from the front.
LEMMA TakenTakes ==
    ASSUME CallbacksInv, NEW c \in Remote, Ready(c), Taken(c), UNCHANGED lastReq
    PROVE  Promise!Take(c, inbox[c][1])
<1>1. serving = None BY DEF CallbacksInv, ExternalRight, Ready
<1> QED BY <1>1 DEF Ready, Taken, Promise!Take, Promise!None, None

\* The end of a request, or of the process, as its client sees it.
LEMMA DiesBreaks == ASSUME Dies PROVE Promise!Break
BY DEF Dies, remote, Promise!Break, Promise!None, None

LEMMA ServePromised ==
    ASSUME CallbacksInv, NEW c \in Remote, Serve(c) PROVE Promise!Next
<1> DEFINE q == inbox[c][1]
<1>1. Ready(c) /\ q \in Request /\ First(c) = q
  <2>1. Ready(c)
    BY DEF Serve, ServeRefused, ServeRead, ServeWrite, ServeCall, ServeNil, ServeWild
  <2> QED BY <2>1, FirstFacts DEF CallbacksInv, First
<1>2. inbox[c] # <<>> BY <1>1 DEF Ready
<1>3. CASE ServeRefused(c)
  <2>1. Promise!Refuse(c, q)
    BY <1>1, <1>3, TakenTakes, ReplyTells
    DEF ServeRefused, server, Promise!Refuse
  <2> QED BY <1>2, <2>1 DEF Promise!Next
<1>4. CASE ServeRead(c)
  <2>1. Promise!Read(c, q)
    BY <1>1, <1>4, TakenTakes, ReplyTells
    DEF ServeRead, server, Promise!Read
  <2> QED BY <1>2, <2>1 DEF Promise!Next
<1>5. CASE ServeWrite(c)
  <2>1. Promise!Take(c, q) /\ q.op = "write"
    BY <1>1, <1>5, TakenTakes DEF ServeWrite
  <2>2. Promise!Written(q)
    <3>1. q.node \in Var BY <1>1, <2>1, RequestFacts
    <3> QED BY <1>1, <1>5, <3>1 DEF ServeWrite, Accepted, Store, Promise!Written
  <2>3. CASE q.node \in Blockless
    <3>1. Reply(c, q.id, "done") /\ UNCHANGED serving BY <1>1, <1>5, <2>3 DEF ServeWrite
    <3>2. Promise!WriteAtOnce(c, q)
      BY <2>1, <2>2, <3>1, ReplyTells DEF Promise!WriteAtOnce
    <3> QED BY <1>2, <3>2 DEF Promise!Next
  <2>4. CASE q.node \notin Blockless
    <3>1. serving' = [id |-> q.id, from |-> c] /\ UNCHANGED <<answer, awaiting>>
      BY <1>1, <1>5, <2>4 DEF ServeWrite
    <3>2. Promise!Begin(c, q) BY <2>1, <2>2, <3>1 DEF Promise!Begin
    <3> QED BY <1>2, <3>2 DEF Promise!Next
  <2> QED BY <2>3, <2>4
<1>6. CASE ServeCall(c)
  <2>1. Promise!Take(c, q) /\ q.op = "call" BY <1>1, <1>6, TakenTakes DEF ServeCall
  <2>2. Promise!Begin(c, q) BY <1>1, <1>6, <2>1 DEF ServeCall, Promise!Begin
  <2> QED BY <1>2, <2>2 DEF Promise!Next
<1>7. CASE ServeNil(c) \/ ServeWild(c)
  BY <1>7, DiesBreaks DEF ServeNil, ServeWild, Promise!Next
<1> QED BY <1>3, <1>4, <1>5, <1>6, <1>7 DEF Serve

LEMMA EndPromised ==
    ASSUME CallbacksInv, BlockReturn \/ BlockRaise
    PROVE  Promise!Next \/ UNCHANGED Promise!vars
<1>1. CASE BlockReturn /\ Depth = 1 /\ serving # None
  <2>1. serving.from \in Remote BY <1>1 DEF CallbacksInv, TypeOK, Serving
  <2>2. Promise!Tell(serving.from, serving.id, "done")
    BY <1>1, <2>1, ReplyTells DEF BlockReturn
  <2>3. Promise!Finish
    BY <1>1, <2>2 DEF BlockReturn, Promise!Finish, Promise!None, None
  <2> QED BY <2>3 DEF Promise!Next
<1>2. CASE BlockReturn /\ ~(Depth = 1 /\ serving # None)
  BY <1>2 DEF BlockReturn, Promise!vars
<1>3. CASE BlockRaise /\ Depth = 1 /\ serving # None
  <2>1. Promise!Break BY <1>3 DEF BlockRaise, remote, Promise!Break, Promise!None, None
  <2> QED BY <2>1 DEF Promise!Next
<1>4. CASE BlockRaise /\ ~(Depth = 1 /\ serving # None)
  BY <1>4 DEF BlockRaise, remote, Promise!vars
<1> QED BY <1>1, <1>2, <1>3, <1>4

LEMMA InitPromised == Init => Promise!Init
BY DEF Init, Promise!Init, None, Promise!None

LEMMA StepPromised == CallbacksInv /\ [Next]_vars => [Promise!Next]_(Promise!vars)
<1> SUFFICES ASSUME CallbacksInv, [Next]_vars
             PROVE  Promise!Next \/ UNCHANGED Promise!vars
  OBVIOUS
<1>1. ASSUME NEW c \in Remote, Serve(c) PROVE Promise!Next BY <1>1, ServePromised
<1>2. ASSUME NEW c \in Remote, GiveUp(c) PROVE Promise!Next
  <2>1. Promise!GiveUp(c) BY <1>2 DEF GiveUp, server, Promise!GiveUp
  <2> QED BY <2>1 DEF Promise!Next
<1>3. ASSUME NEW c \in Remote, NEW q \in Request, Send(c, q) PROVE Promise!Next
  <2>1. Promise!Send(c, q) BY <1>3 DEF Send, server, Promise!Send, None, Promise!None
  <2>2. q \in Promise!Request
    BY DEF Request, Write, Read, Call, ReqId, Promise!Request
  <2> QED BY <2>1, <2>2 DEF Promise!Next
<1>4. CASE Run \/ RunReturn
  BY <1>4 DEF Run, RunReturn, remote, Promise!vars
<1>5. CASE BlockReturn \/ BlockRaise BY <1>5, EndPromised
<1>6. ASSUME NEW x \in Var, OwnReadWild(x) PROVE Promise!Next
  BY <1>6, DiesBreaks DEF OwnReadWild, Promise!Next
<1>7. ASSUME NEW x \in Var, NEW v \in Value, OwnWrite(x, v) PROVE Promise!Next
  <2>1. Promise!Own(x, v) BY <1>7 DEF OwnWrite, Store, remote, Promise!Own
  <2> QED BY <2>1 DEF Promise!Next
<1>8. CASE UNCHANGED vars
  BY <1>8 DEF vars, server, remote, Promise!vars
<1> QED BY <1>1, <1>2, <1>3, <1>4, <1>5, <1>6, <1>7, <1>8 DEF Next

\* Every behaviour of the server is one of RemotePromise: to a client, requests take
\* effect once, in order and in one step each, and "done" follows the block's return,
\* however blocks call each other, raise, or take the process down
\* (server.c:203-234, 338-377).
THEOREM ServerKeepsPromise == Spec => PromiseKept
<1>1. Spec => Promise!Init BY InitPromised DEF Spec
<1>2. Spec => [][Promise!Next]_(Promise!vars)
  BY StepPromised, CallbacksInvHolds, PTL DEF Spec
<1> QED BY <1>1, <1>2, PTL DEF PromiseKept, Promise!Spec
=============================================================================
