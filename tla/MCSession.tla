------------------------------ MODULE MCSession ------------------------------
(* Values of the constants of Session for TLC.                             *)
EXTENDS Session, TLC

(* The points of the program a signal can be delivered at without upsetting *)
(* it: all but four.  At "run" the stream that is being opened is aborted   *)
(* before its requests are queued, and its assertion on the references      *)
(* fails; at "xmit" RESET is sent between the test of reset_requested and   *)
(* the request the test allowed; at "alloc" and "fill" a request without a  *)
(* callback is drained.                                                     *)
SafePoints == Labels \ {"run", "xmit", "alloc", "fill", "crashed"}

Symmetry == Permutations(Streams)
=============================================================================
