------------------------------ MODULE Network ------------------------------
(***************************************************************************)
(* What Connection and Listener have in common.                            *)
(***************************************************************************)

CONSTANT Ports  \* the local ports listeners and connections can be on
=============================================================================
