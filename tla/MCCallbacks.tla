----------------------------- MODULE MCCallbacks -----------------------------
(***************************************************************************)
(* Callbacks for TLC.                                                      *)
(***************************************************************************)
EXTENDS Callbacks
=============================================================================
