---------------------------- MODULE ArchiveForm ----------------------------
(***************************************************************************)
(* What the readers take for granted of an archive: where its sections     *)
(* start, its members, the lines of its index and of its checkpoints       *)
(* section in order, and the compressed streams those checkpoints are the  *)
(* starts of.                                                              *)
(***************************************************************************)
EXTENDS Integers, Sequences

(* A checkpoint is where a compressed stream starts, in both coordinates,  *)
(* and never within a member; both lists are in order.                     *)
ArchiveOK(a) ==
    /\ a.gzip \in BOOLEAN
    /\ {a.bodyLen, a.idxAt, a.ckAt, a.devLen} \subseteq Nat
    /\ a.idxAt < a.ckAt /\ a.ckAt < a.devLen
    /\ a.files \in Seq([off : Nat, header : Nat, data : Nat])
    /\ a.lines \in Seq([g : BOOLEAN, file : Nat, len : Nat \ {0}])
    /\ a.cks \in Seq([c : Nat, u : Nat])
    /\ a.streams \in Seq([at : Nat, raw : Nat])
    /\ a.streams # << >> /\ a.streams[1] = [at |-> 0, raw |-> 0]
    /\ \A i, j \in 1..Len(a.streams) : i < j => a.streams[i].at < a.streams[j].at
    /\ \A i, j \in 1..Len(a.cks) : i < j => a.cks[i].u < a.cks[j].u
    /\ \A i \in 1..Len(a.cks) : a.cks[i].c <= a.ckAt
    /\ IF a.gzip
       THEN /\ Len(a.streams) = Len(a.cks) + 1
            /\ \A i \in 1..Len(a.cks) :
                 a.streams[i + 1] = [at |-> a.cks[i].c, raw |-> a.cks[i].u]
       ELSE \A i \in 1..Len(a.cks) : a.cks[i].c = a.cks[i].u
    /\ \A m \in 1..Len(a.files) :
         LET f == a.files[m] IN
         /\ f.off + f.header + f.data <= a.bodyLen
         /\ \A i \in 1..Len(a.cks) :
              a.cks[i].u <= f.off \/ f.off + f.header + f.data <= a.cks[i].u
=============================================================================
