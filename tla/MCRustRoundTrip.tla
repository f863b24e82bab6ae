-------------------------- MODULE MCRustRoundTrip --------------------------
(***************************************************************************)
(* An instance of RustRoundTrip for TLC: a directory, and a file with an   *)
(* extended header.                                                        *)
(***************************************************************************)
EXTENDS RustRoundTrip

MCMetas == {[pax |-> 0, size |-> 0], [pax |-> 1, size |-> 2]}
=============================================================================
