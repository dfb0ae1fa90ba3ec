----------------------------- MODULE MCCloseAge -----------------------------
(* Connection with real time, and the contract it implements, for one run. *)
EXTENDS CloseAge, ConnectionRefinement
=============================================================================
