------------------------------- MODULE Exchange -------------------------------
(***************************************************************************)
(* Values and calls between Ruby programs: OPCUA::Client's node value=,     *)
(* value and call (src/ext/opcua/client/client.c), OPCUA::Server's value=,  *)
(* value and the block of a method (src/ext/opcua/server/server.c), over    *)
(* the conversions of Values. The program uses one variable, of its own     *)
(* server or of another's, or one method.                                   *)
(***************************************************************************)
EXTENDS Values

CONSTANTS
    NodeType,   \* types of the variables of other servers
    Signature,  \* the inputs of methods
    Written,    \* Ruby values the programs write
    Passed,     \* those they pass to a method and return from it
    Foreign,    \* variants that other servers store
    Stale       \* variants that may be left on the client's stack

ASSUME ExchangeAssumption ==
    /\ NodeType \subseteq Type \cup {"any", "custom"}
    /\ Signature \subseteq Seq(Type \cup {"custom"})
    /\ Written \subseteq Ruby /\ Passed \subseteq Ruby
    /\ \A x \in Foreign \cup Stale : Sound(x)

\* "any" is BaseDataType, the type of all of OPCUA::Server's variables;
\* "custom" is a type outside namespace 0
Own    == [what : {"own"}, type : {"any"}]
Others == [what : {"foreign"}, type : NodeType]
Method == [what : {"method"}, inputs : Signature, returns : BOOLEAN]

VARIABLES
    target,   \* the variable or method in use
    held,     \* the variant that the variable holds
    call,     \* the call being made
    gone,     \* the client's process has died
    put,      \* history: the Ruby value of the last call of value=
    outcome   \* history: what became of it

vars == <<target, held, call, gone, put, outcome>>

Unknown == [k |-> "unknown", v |-> 0]
Idle == [pc |-> "idle", given |-> <<>>, sent |-> <<>>, seen |-> <<>>,
         ret |-> Nil, result |-> Nil, served |-> FALSE]

IsNode == target.what \in {"own", "foreign"}
IsMethod == target.what = "method"

Init ==
    /\ target \in Own \cup Others \cup Method
    /\ held = Unset /\ call = Idle /\ gone = FALSE
    /\ put = Unknown /\ outcome = "ignored"

-----------------------------------------------------------------------------
(* Values *)

\* the library's type check, for variables that take arrays and scalars
Fits(x, t) == t = "any" \/ x.t = t

\* the numbers of types in namespace 0
IdOf(t) == IF t = "any" THEN 24 ELSE CHOOSE i \in DOMAIN UaType : UaType[i] = t
\* what a proposal means to value_to_variant: UA_TYPES[k]
TypeAt(k) == IF k + 1 \in DOMAIN UaType THEN UaType[k + 1] ELSE "none"

\* mutant of Proposal: the number of the type is taken for its index
ProposalById(t) == IF t = "custom" THEN "none" ELSE TypeAt(IdOf(t))
Proposal(t) == IF t = "custom" THEN "none" ELSE TypeAt(IdOf(t) - 1)

\* value= on a client's handle: the type is asked for, the value converted and sent
ClientWrite(x) ==
    /\ IsNode /\ ~gone
    /\ \E o \in Conversions(x, Proposal(target.type)) :
         \/ /\ o.r = "done" /\ Fits(o.x, target.type)
            /\ held' = o.x /\ outcome' = "stored"
         \/ /\ o.r = "not"                     \* no value is sent
            /\ outcome' = "ignored" /\ UNCHANGED held
         \/ /\ o.r = "raise" \/ (o.r = "done" /\ ~Fits(o.x, target.type))
            /\ outcome' = "refused" /\ UNCHANGED held
    /\ put' = x
    /\ UNCHANGED <<target, call, gone>>

\* The type cannot be read: pdt is whatever the stack holds, and so is the proposal.
ClientWriteBlind(x, p) ==
    /\ target.what = "foreign" /\ ~gone
    /\ \E o \in Conversions(x, p) :
         /\ o.r = "done" /\ Fits(o.x, target.type)
         /\ held' = o.x
    /\ put' = Unknown
    /\ UNCHANGED <<target, call, gone, outcome>>

\* value= on the server's own node; a refusal by the library would go unnoticed
OwnWrite(x) ==
    /\ target.what = "own"
    /\ \E o \in Conversions(x, "none") :
         \/ o.r = "done" /\ held' = o.x /\ outcome' = "stored"
         \/ o.r = "not" /\ outcome' = "ignored" /\ UNCHANGED held
         \/ o.r = "raise" /\ outcome' = "refused" /\ UNCHANGED held
    /\ put' = x
    /\ UNCHANGED <<target, call, gone>>

\* the program of another server stores what it likes
ForeignWrite(x) ==
    /\ target.what = "foreign" /\ Fits(x, target.type)
    /\ held' = x /\ put' = Unknown
    /\ UNCHANGED <<target, call, gone, outcome>>

\* value, on either side, and what blocks for the variable are given
Value == Extract(held)

-----------------------------------------------------------------------------
(* Calls *)

Arity == Len(target.inputs)

\* mutant of ArgProposal: the proposals are off by one
ArgProposalNext(i) == {IF i < Arity THEN Proposal(target.inputs[i + 1]) ELSE "none"}
\* Only the method's declared inputs of namespace 0 set a proposal, the others are
\* what the stack holds.
ArgProposal(i) ==
    IF i \in 1..Arity /\ target.inputs[i] # "custom"
      THEN {Proposal(target.inputs[i])} ELSE Type \cup {"none"}

Outcomes(given, i) == UNION {Conversions(given[i], p) : p \in ArgProposal(i)}
\* an argument that is not converted leaves what the stack holds, the variant of an
\* earlier call for one
Sendable(given, i) ==
    {o.x : o \in {o \in Outcomes(given, i) : o.r = "done"}}
      \cup (IF NotDone \in Outcomes(given, i) THEN Stale ELSE {})

Called(given, sent) ==
    call' = [call EXCEPT !.pc = "sent", !.given = given, !.sent = sent]

Call(given) ==
    /\ IsMethod /\ ~gone /\ call.pc = "idle"
    /\ Len(given) >= Arity
    /\ LET S == [i \in DOMAIN given |-> Sendable(given, i)] IN
         \E sent \in [DOMAIN given -> UNION {S[i] : i \in DOMAIN given}] :
           /\ \A i \in DOMAIN given : sent[i] \in S[i]
           /\ Called(given, sent)
    /\ UNCHANGED <<target, held, gone, put, outcome>>

\* Arguments are missing: proposals are written past the end of their array, and the
\* process dies, or it does not and the library refuses the call.
CallShort(given) ==
    /\ IsMethod /\ ~gone /\ call.pc = "idle"
    /\ Len(given) < Arity
    /\ \/ gone' = TRUE /\ UNCHANGED call
       \/ Called(given, [i \in DOMAIN given |-> Unset]) /\ UNCHANGED gone
    /\ UNCHANGED <<target, held, put, outcome>>

\* An argument is not converted, and what the stack holds is no variant.
CallGarbage(given) ==
    /\ IsMethod /\ ~gone /\ call.pc = "idle"
    /\ \E i \in DOMAIN given : NotDone \in Outcomes(given, i)
    /\ gone' = TRUE
    /\ UNCHANGED <<target, held, call, put, outcome>>

\* A method without inputs has no InputArguments: ia is whatever the stack holds, the
\* inputs of a method called before for one, and their proposals are written.
CallUnread ==
    /\ IsMethod /\ ~gone /\ call.pc = "idle"
    /\ Arity = 0
    /\ gone' = TRUE
    /\ UNCHANGED <<target, held, call, put, outcome>>

\* the library's check of the arguments: all there, scalars, and of the types declared
Acceptable ==
    /\ Len(call.sent) = Arity
    /\ \A i \in 1..Arity : ~call.sent[i].array /\ Fits(call.sent[i], target.inputs[i])

\* the call is refused; the caller gets nil
Refuse ==
    /\ call.pc = "sent" /\ ~Acceptable
    /\ call' = [call EXCEPT !.pc = "answered"]
    /\ UNCHANGED <<target, held, gone, put, outcome>>

\* node_add_method_callback calls the block
Serve ==
    /\ call.pc = "sent" /\ Acceptable
    /\ call' = [call EXCEPT !.pc = "serving", !.served = TRUE,
                            !.seen = [i \in DOMAIN call.sent |-> Extract(call.sent[i])]]
    /\ UNCHANGED <<target, held, gone, put, outcome>>

\* The block returns. If its value cannot be converted the output stays empty, or an
\* exception keeps the answer back until the caller's timeout.
BlockReturn(x) ==
    /\ call.pc = "serving"
    /\ \E o \in Conversions(x, "none") :
         call' = [call EXCEPT !.pc = "answered", !.ret = x,
                              !.result = IF target.returns THEN Extract(o.x) ELSE Nil]
    /\ UNCHANGED <<target, held, gone, put, outcome>>

\* node_call returns
CallReturn ==
    /\ call.pc = "answered"
    /\ call' = Idle
    /\ UNCHANGED <<target, held, gone, put, outcome>>

-----------------------------------------------------------------------------

Givens == {<<>>} \cup {<<x>> : x \in Passed} \cup {<<x, y>> : x, y \in Passed}

Next ==
    \/ \E x \in Written :
         \/ ClientWrite(x) \/ OwnWrite(x)
         \/ \E p \in Type \cup {"none"} : ClientWriteBlind(x, p)
    \/ \E x \in Foreign : ForeignWrite(x)
    \/ \E given \in Givens : Call(given) \/ CallShort(given) \/ CallGarbage(given)
    \/ CallUnread
    \/ Refuse \/ Serve \/ \E x \in Passed : BlockReturn(x)
    \/ CallReturn

Spec == Init /\ [][Next]_vars

-----------------------------------------------------------------------------
(* Properties *)

TypeOK ==
    /\ target \in Own \cup Others \cup Method
    /\ Sound(held)
    /\ gone \in BOOLEAN /\ outcome \in {"stored", "ignored", "refused"}
    /\ put \in Ruby \cup {Unknown}
    /\ call \in [pc : {"idle", "sent", "serving", "answered"}, given : Seq(Passed),
                 sent : Seq(Variant), seen : Seq(Read), ret : Ruby, result : Read,
                 served : BOOLEAN]
    /\ \A i \in DOMAIN call.sent : Sound(call.sent[i])

\* The values that come back are neither refused nor dropped and are what both sides read
\* after the last call of value=; any other is refused, not sent, or read back as
\* something else (client.c:62-90, server.c:833-852, values.c). So this says for each
\* type exactly which of its values survive, not that all do: see ComesBack.
ReadsBack ==
    IsNode /\ put # Unknown =>
      IF ComesBack(put, target.type)
        THEN outcome = "stored" /\ Value = Same(put)
        ELSE outcome = "stored" => Value # Same(put)

ArgsBack ==
    \A i \in 1..Arity : call.given[i].k # "array" /\ ComesBack(call.given[i], target.inputs[i])
AsGiven == call.seen = [i \in DOMAIN call.given |-> Same(call.given[i])]

\* A call with as many arguments as the method declares is served, and its block gets these
\* arguments, if each is one that comes back from a variable of its input's type; if one is
\* not, the call is refused or the block gets something else (client.c:508-567,
\* server.c:203-234). The caller gets what the block returns just if that comes back from
\* a variable without a type. (An argument of nil may be sent as anything.)
CallFaithful ==
    /\ call.pc \in {"serving", "answered"} /\ Len(call.given) = Arity =>
         /\ ArgsBack => call.served /\ AsGiven
         /\ ~ArgsBack /\ call.served /\ AsGiven => \E i \in 1..Arity : call.given[i] = Nil
    /\ call.pc = "answered" /\ call.served /\ target.returns =>
         (call.result = Same(call.ret) <=> ComesBack(call.ret, "any") \/ call.ret = Nil)

\* README.md:226: "The correct _DataType_ will be used."; here, for times.
TimesAreDateTimes ==
    IsNode /\ put.k = "array" /\ put.a # <<>> /\ (\A i \in DOMAIN put.a : put.a[i].k = "time")
      => held.t = "datetime"
=============================================================================
