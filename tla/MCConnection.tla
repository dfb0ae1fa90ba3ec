---------------------------- MODULE MCConnection ----------------------------
(* Symmetry for the runs of Connection and its contract.                   *)
EXTENDS ConnectionRefinement, TLC

\* pcbs are interchangeable; slots are not, since Allocate takes the lowest.
PcbSymmetry == Permutations(Pcbs)
=============================================================================
