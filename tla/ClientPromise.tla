--------------------------- MODULE ClientPromise ---------------------------
(***************************************************************************)
(* What cVarNode#on_change promises (src/ext/opcua/client/client.c): the   *)
(* life of each registration, with nothing of the subscription, the ids    *)
(* and the stack that Client implements it with.                           *)
(***************************************************************************)
EXTENDS Naturals

CONSTANTS Node, MaxReg

VARIABLES
    made,      \* on_change calls so far
    waiting,   \* registrations the next check_subscription will ask for
    asked,     \* those whose request is under way
    served,    \* those whose block is called when the variable changes
    leaving,   \* nodes with an unsubscribe under way
    closing,   \* a disconnect is under way
    up         \* the session is up

vars == <<made, waiting, asked, served, leaving, closing, up>>

Of(h, E) == {e \in E : e.node = h}

Init ==
    /\ up \in BOOLEAN
    /\ made = 0 /\ waiting = {} /\ asked = {} /\ served = {}
    /\ leaving = {} /\ closing = FALSE

Register(h) ==
    /\ made < MaxReg
    /\ made' = made + 1
    /\ waiting' = waiting \cup {[node |-> h, reg |-> made + 1]}
    /\ UNCHANGED <<asked, served, leaving, closing, up>>

\* the latest registration first
Ask(e) ==
    /\ \A f \in waiting : f.reg <= e.reg
    /\ waiting' = waiting \ {e}
    /\ asked' = asked \cup {e}
    /\ UNCHANGED <<made, served, leaving, closing, up>>

Serve(e) ==
    /\ up
    /\ asked' = asked \ {e}
    /\ served' = served \cup {e}
    /\ UNCHANGED <<made, waiting, leaving, closing, up>>

\* the request fails, or a block run meanwhile raises
Refuse(e) ==
    /\ asked' = asked \ {e}
    /\ UNCHANGED <<made, waiting, served, leaving, closing, up>>

Leave(h) ==
    /\ leaving' = leaving \cup {h}
    /\ UNCHANGED <<made, waiting, asked, served, closing, up>>

\* unsubscribe ends at most one registration of its node; another call for the
\* same node may still be under way
LeaveEnds(h) ==
    /\ h \in leaving
    /\ leaving' \in {leaving, leaving \ {h}}
    /\ served' = served \/ \E e \in Of(h, served) : served' = served \ {e}
    /\ UNCHANGED <<made, asked, closing, up>>

\* returning, it withdraws all that waits of the node; cut short, nothing
Left(h) == LeaveEnds(h) /\ waiting' = waiting \ Of(h, waiting)
LeaveCut(h) == LeaveEnds(h) /\ UNCHANGED waiting

Close ==
    /\ closing' = TRUE
    /\ UNCHANGED <<made, waiting, asked, served, leaving, up>>

\* cut short, disconnect may have ended every registration served
CloseCut ==
    /\ closing
    /\ closing' \in BOOLEAN
    /\ served' \in {served, {}}
    /\ UNCHANGED <<made, waiting, asked, leaving, up>>

\* the connection breaks, or disconnect returns
Lost ==
    /\ up' = FALSE
    /\ served' = {}
    /\ closing' \in {closing, FALSE}
    /\ UNCHANGED <<made, waiting, asked, leaving>>

Next ==
    \/ \E h \in Node : Register(h) \/ Leave(h) \/ Left(h) \/ LeaveCut(h)
    \/ \E e \in waiting : Ask(e)
    \/ \E e \in asked : Serve(e) \/ Refuse(e)
    \/ Close \/ CloseCut \/ Lost

Spec == Init /\ [][Next]_vars
=============================================================================
