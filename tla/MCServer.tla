------------------------------ MODULE MCServer ------------------------------
(***************************************************************************)
(* Server for TLC: browse names are interchangeable, and so are blocks.    *)
(***************************************************************************)
EXTENDS ServerInvariants, TLC

Renamings == Permutations(Name) \cup Permutations(Block)

\* NoClash and PathInv only speak of what happens while proper holds, and proper never
\* becomes true again: the run of paths goes no further once it is false.
WhileProper == proper
=============================================================================
