---------------------------- MODULE MCScarWriter ----------------------------
(***************************************************************************)
(* Instances of ScarWriter for TLC.  Three kinds of entry: a directory, a  *)
(* file that ends in a partial block, and a file with an extended header   *)
(* whose records need padding.                                             *)
(***************************************************************************)
EXTENDS ScarWriter

MCMetas == {[pax |-> 0, size |-> 0], [pax |-> 0, size |-> 3], [pax |-> 1, size |-> 2]}
=============================================================================
