-------------------------- MODULE MCScarRoundTrip --------------------------
(***************************************************************************)
(* An instance of ScarRoundTrip for TLC: up to two entries, with and       *)
(* without an extended header.                                             *)
(***************************************************************************)
EXTENDS ScarRoundTrip

MCMetas == {[pax |-> 0, size |-> 1], [pax |-> 1, size |-> 0]}
============================================================================
