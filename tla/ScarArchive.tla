---------------------------- MODULE ScarArchive ----------------------------
(***************************************************************************)
(* What a SCAR writer promises, without offsets, compressors or sections:  *)
(* an archive is a list of members that only grows while it is open, that  *)
(* is sealed once and then never changes, and whose index, once sealed,    *)
(* lists exactly the members, in the order in which they were written.     *)
(* A writer that reports an error is broken: it promises no archive.       *)
(***************************************************************************)
EXTENDS Naturals, Sequences

CONSTANT Metas   \* what can be archived: the metadata of a member

VARIABLES
    members,     \* the members whose write was reported successful
    index,       \* what looking up every line of the index finds, once sealed
    state        \* "open", "sealed" or "broken"

archiveVars == <<members, index, state>>

Init ==
    /\ members = << >>
    /\ index = << >>
    /\ state = "open"

Add(m) ==
    /\ state = "open"
    /\ members' = Append(members, m)
    /\ UNCHANGED <<index, state>>

Seal ==
    /\ state = "open"
    /\ state' = "sealed"
    /\ index' = members
    /\ UNCHANGED members

Break ==
    /\ state = "open"
    /\ state' = "broken"
    /\ UNCHANGED <<members, index>>

Next == (\E m \in Metas : Add(m)) \/ Seal \/ Break

Spec == Init /\ [][Next]_archiveVars
============================================================================
