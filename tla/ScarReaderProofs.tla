-------------------------- MODULE ScarReaderProofs --------------------------
(***************************************************************************)
(* Theorems about ScarReader, for every archive that is well-formed, any   *)
(* number of iterators and any sizes of the buffers.                       *)
(***************************************************************************)
EXTENDS ScarReader, FiniteSetTheorems, SequenceTheorems, WellFoundedInduction, TLAPS

(***************************************************************************)
(* The archive and the cursor                                              *)
(***************************************************************************)
LEMMA ArchiveFacts ==
    ASSUME ArchiveOK(arc)
    PROVE  /\ arc.gzip \in BOOLEAN
           /\ arc.files \in Seq([off : Nat, header : Nat, data : Nat])
           /\ arc.lines \in Seq([g : BOOLEAN, file : Nat, len : Nat \ {0}])
           /\ arc.cks \in Seq([c : Nat, u : Nat])
           /\ arc.streams \in Seq([at : Nat, raw : Nat])
    BY DEF ArchiveOK

LEMMA PlaceFacts ==
    ASSUME ArchiveOK(arc)
    PROVE  /\ arc.bodyLen \in Nat /\ arc.idxAt \in Nat /\ arc.ckAt \in Nat /\ arc.devLen \in Nat
           /\ arc.idxAt < arc.ckAt /\ arc.ckAt < arc.devLen /\ arc.idxAt < arc.devLen
    <1>1. /\ arc.bodyLen \in Nat /\ arc.idxAt \in Nat /\ arc.ckAt \in Nat /\ arc.devLen \in Nat
          /\ arc.idxAt < arc.ckAt /\ arc.ckAt < arc.devLen
        BY DEF ArchiveOK
    <1> QED BY <1>1

LEMMA LengthFacts ==
    ASSUME ArchiveOK(arc)
    PROVE  /\ Len(arc.files) \in Nat /\ Len(arc.lines) \in Nat
           /\ Len(arc.cks) \in Nat /\ Len(arc.streams) \in Nat
    <1>1. /\ arc.files \in Seq([off : Nat, header : Nat, data : Nat])
          /\ arc.lines \in Seq([g : BOOLEAN, file : Nat, len : Nat \ {0}])
          /\ arc.cks \in Seq([c : Nat, u : Nat])
          /\ arc.streams \in Seq([at : Nat, raw : Nat])
        BY ArchiveFacts
    <1> QED BY <1>1, LenProperties

LEMMA FileFacts ==
    ASSUME ArchiveOK(arc), NEW m \in 1..Len(arc.files)
    PROVE  /\ arc.files[m].off \in Nat /\ arc.files[m].header \in Nat
           /\ arc.files[m].data \in Nat
    <1>1. arc.files[m] \in [off : Nat, header : Nat, data : Nat]
        BY ArchiveFacts, ElementOfSeq
    <1> QED BY <1>1

LEMMA LineFacts ==
    ASSUME ArchiveOK(arc), NEW k \in 1..Len(arc.lines)
    PROVE  /\ arc.lines[k].g \in BOOLEAN /\ arc.lines[k].file \in Nat
           /\ arc.lines[k].len \in Nat
    <1>1. arc.lines[k] \in [g : BOOLEAN, file : Nat, len : Nat \ {0}]
        BY ArchiveFacts, ElementOfSeq
    <1> QED BY <1>1

LEMMA CheckpointFacts ==
    ASSUME ArchiveOK(arc), NEW k \in 1..Len(arc.cks)
    PROVE  /\ arc.cks[k].c \in 0..arc.devLen /\ arc.cks[k].c \in Nat /\ arc.cks[k].u \in Nat
    <1>1. arc.cks[k] \in [c : Nat, u : Nat]
        BY ArchiveFacts, ElementOfSeq
    <1>2. arc.cks[k].c <= arc.ckAt
        BY DEF ArchiveOK
    <1>3. arc.cks[k].c \in Nat /\ arc.cks[k].u \in Nat
        BY <1>1
    <1> QED BY <1>2, <1>3, PlaceFacts

LEMMA StreamFacts ==
    ASSUME ArchiveOK(arc), NEW k \in 1..Len(arc.streams)
    PROVE  arc.streams[k].at \in Nat /\ arc.streams[k].raw \in Nat
    <1>1. arc.streams[k] \in [at : Nat, raw : Nat]
        BY ArchiveFacts, ElementOfSeq
    <1> QED BY <1>1

(* The natural numbers are well-founded, in the form used below.           *)
LEMMA Below == \E R : IsWellFoundedOn(R, Nat) /\ \A x, y \in Nat : y < x => <<y, x>> \in R
    <1> DEFINE R == OpToRel(<, Nat)
    <1>1. IsWellFoundedOn(R, Nat)
        BY NatLessThanWellFounded
    <1>2. ASSUME NEW x \in Nat, NEW y \in Nat, y < x PROVE <<y, x>> \in R
        BY <1>2 DEF OpToRel
    <1> QED BY <1>1, <1>2

(* Min of the community modules is what its name says.                     *)
LEMMA MinFacts ==
    ASSUME NEW S \in SUBSET Nat, S # {}
    PROVE  Min(S) \in S /\ \A x \in S : Min(S) <= x
    <1>1. PICK R : IsWellFoundedOn(R, Nat) /\ \A x, y \in Nat : y < x => <<y, x>> \in R
        BY Below
    <1>2. PICK x \in S : \A y \in S : ~(<<y, x>> \in R)
        BY <1>1, WFMin
    <1>3. ASSUME NEW y \in S PROVE x <= y
        <2>1. x \in Nat /\ y \in Nat /\ ~(<<y, x>> \in R)
            BY <1>2
        <2>2. ~(y < x)
            BY <1>1, <2>1
        <2> QED BY <2>1, <2>2
    <1> QED BY <1>3 DEF Min

LEMMA UptoFacts ==
    ASSUME ArchiveOK(arc), NEW p \in Nat
    PROVE  Upto(p) \in 0..arc.devLen /\ Upto(p) \in Nat
    <1>1. {p, arc.devLen} \in SUBSET Nat
        BY PlaceFacts
    <1>2. Upto(p) \in {p, arc.devLen} /\ Upto(p) <= arc.devLen
        BY <1>1, MinFacts DEF Upto
    <1> QED BY <1>1, <1>2, PlaceFacts

(* Buffers are whole, and so is what is fetched into them.                 *)
LEMMA BlockRefillsType ==
    ASSUME NEW b \in Int, NEW n \in Int
    PROVE  BlockRefills(b, n) \in Nat
    <1>1. BlockCap \in Nat \ {0}
        BY CapsAssumption
    <1>2. CASE n < b
        BY <1>2 DEF BlockRefills
    <1>3. CASE ~(n < b)
        <2>1. n - b \in Nat
            BY <1>3
        <2>2. (n - b) \div BlockCap \in Nat
            BY <1>1, <2>1
        <2> QED BY <1>3, <2>2 DEF BlockRefills
    <1> QED BY <1>2, <1>3

LEMMA FetchesType ==
    ASSUME ArchiveOK(arc), NEW it, it.hi \in Nat, it.cur \in Nat, NEW n \in Nat,
           NEW f \in Fetches(it, n)
    PROVE  f.times \in Nat /\ f.size \in Nat /\ f.times * f.size \in Nat
    <1>1. BlockCap \in Nat /\ ChunkCap \in Nat /\ MaxRefills \in Nat
        BY CapsAssumption
    <1>2. f.times \in Nat /\ f.size \in Nat
        <2>1. CASE arc.gzip
            <3>1. f \in [times : 0..MaxRefills, size : {ChunkCap}]
                BY <2>1 DEF Fetches
            <3> QED BY <1>1, <3>1
        <2>2. CASE ~arc.gzip
            <3>1. f = [times |-> BlockRefills(it.hi - it.cur, n), size |-> BlockCap]
                BY <2>2 DEF Fetches
            <3>2. it.hi - it.cur \in Int /\ n \in Int
                OBVIOUS
            <3>3. BlockRefills(it.hi - it.cur, n) \in Nat
                BY <3>2, BlockRefillsType
            <3> QED BY <1>1, <3>1, <3>3
        <2> QED BY <2>1, <2>2
    <1> QED BY <1>2

(***************************************************************************)
(* Checkpoints and streams                                                 *)
(***************************************************************************)
LEMMA CheckpointsOrdered ==
    ASSUME ArchiveOK(arc), NEW i \in 1..Len(arc.cks), NEW j \in 1..Len(arc.cks), i < j
    PROVE  arc.cks[i].u < arc.cks[j].u
    BY DEF ArchiveOK

(* The k-th checkpoint; the start of the archive is before the first.      *)
Ck(k) == IF k = 0 THEN [c |-> 0, u |-> 0] ELSE arc.cks[k]

LEMMA CkFacts ==
    ASSUME ArchiveOK(arc), NEW k \in 0..Len(arc.cks)
    PROVE  Ck(k).c \in 0..arc.devLen /\ Ck(k).c \in Nat /\ Ck(k).u \in Nat
    <1>1. CASE k = 0
        BY <1>1, PlaceFacts DEF Ck
    <1>2. CASE k # 0
        <2>1. k \in 1..Len(arc.cks)
            BY <1>2, LengthFacts
        <2> QED BY <1>2, <2>1, CheckpointFacts DEF Ck
    <1> QED BY <1>1, <1>2

(* The scan of the checkpoints keeps the last one at or before the offset. *)
LEMMA FindCheckpointFacts ==
    ASSUME ArchiveOK(arc), cks = arc.cks, NEW off \in Nat
    PROVE  \E k \in 0..Len(arc.cks) :
             /\ FindCheckpoint(off) = Ck(k)
             /\ Ck(k).u <= off
             /\ \A i \in 1..Len(arc.cks) : i > k => arc.cks[i].u > off
    <1> DEFINE n == Len(arc.cks)
               S == {i \in 1..n : arc.cks[i].u > off} \cup {n + 1}
               stop == Min(S)
    <1>1. n \in Nat
        BY LengthFacts
    <1>2. S \in SUBSET Nat /\ S # {} /\ \A i \in S : i \in 1..n + 1
        BY <1>1
    <1>3. stop \in S /\ \A i \in S : stop <= i
        BY <1>2, MinFacts
    <1>4. FindCheckpoint(off) = IF stop = 1 THEN [c |-> 0, u |-> 0] ELSE arc.cks[stop - 1]
        BY DEF FindCheckpoint
    <1>5. stop \in 1..n + 1 /\ stop \in Nat
        BY <1>2, <1>3
    <1> HIDE DEF stop
    <1>6. ASSUME NEW i \in 1..n, i >= stop PROVE arc.cks[i].u > off
        <2>1. stop \in 1..n /\ stop # n + 1
            BY <1>1, <1>5, <1>6
        <2>2. arc.cks[stop].u > off
            BY <1>3, <2>1
        <2>3. CASE i = stop
            BY <2>2, <2>3
        <2>4. CASE i > stop
            <3>1. arc.cks[stop].u < arc.cks[i].u
                BY <2>1, <2>4, CheckpointsOrdered
            <3>2. arc.cks[stop].u \in Nat /\ arc.cks[i].u \in Nat
                BY <2>1, CheckpointFacts
            <3> QED BY <2>2, <3>1, <3>2
        <2> QED BY <1>1, <1>5, <1>6, <2>3, <2>4
    <1>7. CASE stop = 1
        <2>1. \A i \in 1..n : i >= stop
            BY <1>7
        <2>2. FindCheckpoint(off) = Ck(0) /\ Ck(0).u <= off /\ 0 \in 0..n
            BY <1>1, <1>4, <1>7 DEF Ck
        <2> QED BY <1>6, <2>1, <2>2
    <1>8. CASE stop # 1
        <2> DEFINE k == stop - 1
        <2>1. k \in 1..n
            BY <1>1, <1>5, <1>8
        <2>2. k \notin S
            <3>1. ~(stop <= k)
                BY <1>5
            <3> QED BY <1>3, <3>1
        <2>3. ~(arc.cks[k].u > off)
            BY <2>1, <2>2
        <2>4. arc.cks[k].u <= off
            BY <2>1, <2>3, CheckpointFacts
        <2>5. ASSUME NEW i \in 1..n, i > k PROVE arc.cks[i].u > off
            <3>1. i >= stop
                BY <1>5, <2>5
            <3> QED BY <1>6, <3>1
        <2>6. FindCheckpoint(off) = Ck(k) /\ Ck(k) = arc.cks[k] /\ k \in 0..n
            BY <1>4, <1>8, <2>1 DEF Ck
        <2> QED BY <2>4, <2>5, <2>6
    <1> QED BY <1>7, <1>8

LEMMA MemberPlaces ==
    ASSUME ArchiveOK(arc), NEW m \in 1..Len(arc.files)
    PROVE  LET f == arc.files[m] IN
           /\ f.off + f.header + f.data <= arc.bodyLen
           /\ \A i \in 1..Len(arc.cks) :
                arc.cks[i].u > f.off => f.off + f.header + f.data <= arc.cks[i].u
    <1> DEFINE f == arc.files[m]
    <1>1. f.off + f.header + f.data <= arc.bodyLen
        BY DEF ArchiveOK
    <1>2. ASSUME NEW i \in 1..Len(arc.cks), arc.cks[i].u > f.off
          PROVE  f.off + f.header + f.data <= arc.cks[i].u
        <2>1. arc.cks[i].u <= f.off \/ f.off + f.header + f.data <= arc.cks[i].u
            BY DEF ArchiveOK
        <2>2. arc.cks[i].u \in Nat /\ f.off \in Nat
            BY CheckpointFacts, FileFacts
        <2> QED BY <1>2, <2>1, <2>2
    <1> QED BY <1>1, <1>2

(* Stream k is where a decompressor starts that is created at its start.   *)
LEMMA StreamAtFacts ==
    ASSUME ArchiveOK(arc), arc.gzip, NEW k \in 1..Len(arc.streams)
    PROVE  StreamAt(arc.streams[k].at) =
             [raw |-> arc.streams[k].raw,
              end |-> IF k = Len(arc.streams) THEN arc.bodyLen ELSE arc.streams[k + 1].raw]
    <1> DEFINE c == arc.streams[k].at
               s == {i \in 1..Len(arc.streams) : arc.streams[i].at = c}
    <1>1. ASSUME NEW i \in s PROVE i = k
        <2>1. i \in 1..Len(arc.streams) /\ arc.streams[i].at = c
            OBVIOUS
        <2>2. c \in Nat /\ i \in Nat /\ k \in Nat
            BY <2>1, StreamFacts, LengthFacts
        <2>3. ~(i < k)
            <3>1. i < k => arc.streams[i].at < c
                BY <2>1 DEF ArchiveOK
            <3> QED BY <2>1, <2>2, <3>1
        <2>4. ~(k < i)
            <3>1. k < i => c < arc.streams[i].at
                BY <2>1 DEF ArchiveOK
            <3> QED BY <2>1, <2>2, <3>1
        <2> QED BY <2>2, <2>3, <2>4
    <1>2. s = {k}
        BY <1>1
    <1>3. Min(s) = k
        <2>1. s \in SUBSET Nat /\ s # {}
            BY <1>2, LengthFacts
        <2> QED BY <1>2, <2>1, MinFacts
    <1> QED BY <1>2, <1>3 DEF StreamAt

(* The stream a checkpoint starts goes on to the next checkpoint.          *)
LEMMA StreamAtCheckpoint ==
    ASSUME ArchiveOK(arc), arc.gzip, NEW k \in 0..Len(arc.cks)
    PROVE  /\ StreamAt(Ck(k).c).raw = Ck(k).u
           /\ StreamAt(Ck(k).c).end =
                IF k = Len(arc.cks) THEN arc.bodyLen ELSE arc.cks[k + 1].u
    <1>1. /\ Len(arc.streams) = Len(arc.cks) + 1 /\ Len(arc.cks) \in Nat
          /\ arc.streams[1] = [at |-> 0, raw |-> 0]
        BY LengthFacts DEF ArchiveOK
    <1>2. ASSUME NEW i \in 1..Len(arc.cks)
          PROVE  arc.streams[i + 1] = [at |-> arc.cks[i].c, raw |-> arc.cks[i].u]
        BY DEF ArchiveOK
    <1>3. arc.streams[k + 1].at = Ck(k).c /\ arc.streams[k + 1].raw = Ck(k).u
        <2>1. CASE k = 0
            BY <1>1, <2>1 DEF Ck
        <2>2. CASE k # 0
            <3>1. k \in 1..Len(arc.cks)
                BY <1>1, <2>2
            <3>2. arc.streams[k + 1] = [at |-> arc.cks[k].c, raw |-> arc.cks[k].u]
                BY <1>2, <3>1
            <3>3. Ck(k) = arc.cks[k]
                BY <2>2 DEF Ck
            <3> QED BY <3>2, <3>3
        <2> QED BY <2>1, <2>2
    <1>4. k + 1 \in 1..Len(arc.streams)
        BY <1>1
    <1> DEFINE end == IF k + 1 = Len(arc.streams) THEN arc.bodyLen
                      ELSE arc.streams[(k + 1) + 1].raw
    <1>5. StreamAt(Ck(k).c) = [raw |-> Ck(k).u, end |-> end]
        BY <1>3, <1>4, StreamAtFacts
    <1>6. end = IF k = Len(arc.cks) THEN arc.bodyLen ELSE arc.cks[k + 1].u
        <2>1. CASE k = Len(arc.cks)
            BY <1>1, <2>1
        <2>2. CASE k # Len(arc.cks)
            <3>1. k + 1 \in 1..Len(arc.cks) /\ k + 1 # Len(arc.streams)
                BY <1>1, <2>2
            <3>2. arc.streams[(k + 1) + 1]
                    = [at |-> arc.cks[k + 1].c, raw |-> arc.cks[k + 1].u]
                BY <1>2, <3>1
            <3> QED BY <2>2, <3>1, <3>2
        <2> QED BY <2>1, <2>2
    <1> QED BY <1>5, <1>6

(* The decompressor a seek creates begins at the checkpoint that was found *)
(* and reaches the end of the member.                                      *)
LEMMA StreamCovers ==
    ASSUME ArchiveOK(arc), NEW m \in 1..Len(arc.files), NEW k \in 0..Len(arc.cks),
           Ck(k).u <= arc.files[m].off,
           \A i \in 1..Len(arc.cks) : i > k => arc.cks[i].u > arc.files[m].off
    PROVE  LET f == arc.files[m]
               s == StreamAt(Ck(k).c)
           IN  s.raw = Ck(k).u /\ s.end \in Nat /\ f.off + f.header + f.data <= s.end
    <1> DEFINE f == arc.files[m]
               s == StreamAt(Ck(k).c)
    <1>1. f.off \in Nat /\ f.header \in Nat /\ f.data \in Nat
        BY FileFacts
    <1>2. f.off + f.header + f.data <= arc.bodyLen /\ arc.bodyLen \in Nat
        BY MemberPlaces, PlaceFacts
    <1>3. CASE ~arc.gzip
        <2>1. s.raw = Ck(k).c /\ s.end = arc.bodyLen
            BY <1>3 DEF StreamAt
        <2>2. Ck(k).c = Ck(k).u
            <3>1. CASE k = 0
                BY <3>1 DEF Ck
            <3>2. CASE k # 0
                <4>1. k \in 1..Len(arc.cks)
                    BY <3>2, LengthFacts
                <4>2. arc.cks[k].c = arc.cks[k].u
                    BY <1>3, <4>1 DEF ArchiveOK
                <4> QED BY <3>2, <4>2 DEF Ck
            <3> QED BY <3>1, <3>2
        <2> QED BY <1>2, <2>1, <2>2
    <1>4. CASE arc.gzip
        <2>1. /\ s.raw = Ck(k).u
              /\ s.end = IF k = Len(arc.cks) THEN arc.bodyLen ELSE arc.cks[k + 1].u
            BY <1>4, StreamAtCheckpoint
        <2>2. CASE k = Len(arc.cks)
            BY <1>2, <2>1, <2>2
        <2>3. CASE k # Len(arc.cks)
            <3>1. k + 1 \in 1..Len(arc.cks) /\ k + 1 > k
                BY <2>3, LengthFacts
            <3>2. arc.cks[k + 1].u > f.off
                BY <3>1
            <3>3. f.off + f.header + f.data <= arc.cks[k + 1].u
                BY <3>1, <3>2, MemberPlaces
            <3>4. arc.cks[k + 1].u \in Nat
                BY <3>1, CheckpointFacts
            <3>5. s.end = arc.cks[k + 1].u
                BY <2>1, <2>3
            <3> QED BY <2>1, <3>3, <3>4, <3>5
        <2> QED BY <2>2, <2>3
    <1> QED BY <1>3, <1>4, ArchiveFacts

(***************************************************************************)
(* Types, and what each place of the program may rely on                   *)
(***************************************************************************)
IteratorType ==
    [open : BOOLEAN, line : Nat, cur : Nat, hi : Nat, next_offset : Nat,
     bad : BOOLEAN, seen : Seq(Nat), ended : BOOLEAN]
DecompType == [cur : Nat, end : Nat, hi : Nat, fresh : BOOLEAN, bad : BOOLEAN]
ResultType == [skip : Int, meta : Nat, content : Nat, file : Nat, damaged : BOOLEAN]

(* Calls run one at a time: read_meta has a member to look for and, past   *)
(* its first step, the checkpoints; while a call of next goes on after a   *)
(* g line no member is at hand.                                            *)
OneCall ==
    /\ pc # "idle" => target \in 1..Len(arc.files)
    /\ pc \notin {"idle", "ensure"} => ckLoaded
    /\ pc = "skip" => result.skip >= 0
    /\ ckLoaded => cks = arc.cks
    /\ running # None => pc = "idle" /\ last = 0 /\ its[running].open
    /\ \A i \in Iterators :
         /\ its[i].open => its[i].line > 0
         /\ its[i].next_offset <= arc.devLen

(* Everything TypeOK says but which archives a reader is opened on.        *)
TypeData ==
    /\ ArchiveOK(arc)
    /\ pos \in 0..arc.devLen
    /\ its \in [Iterators -> IteratorType]
    /\ running \in Iterators \cup {None}
    /\ ckLoaded \in BOOLEAN
    /\ cks \in {<< >>, arc.cks}
    /\ pc \in {"idle", "ensure", "seek", "skip", "header"}
    /\ target \in 0..Len(arc.files) /\ last \in 0..Len(arc.files)
    /\ decomp \in DecompType /\ result \in ResultType

TypeInv == TypeData /\ OneCall

(* What a call of next, or what goes on after a g line, does to types.     *)
LEMMA ParseLineType ==
    ASSUME TypeInv, NEW i \in Iterators, its[i].open, ParseLine(i)
    PROVE  /\ pos' \in 0..arc.devLen
           /\ its' \in [Iterators -> IteratorType]
           /\ \A j \in Iterators \ {i} : its'[j] = its[j]
           /\ its'[i].open /\ its'[i].line > 0 /\ its'[i].next_offset <= arc.devLen
           /\ running' \in {i, None}
    <1> DEFINE it == its[i]
    <1>1. /\ ArchiveOK(arc) /\ pos \in 0..arc.devLen
          /\ its \in [Iterators -> IteratorType] /\ it \in IteratorType
          /\ it.line > 0 /\ it.next_offset <= arc.devLen
        BY DEF TypeInv, TypeData, OneCall, IteratorType
    <1>2. /\ it.line \in Nat /\ it.cur \in Nat /\ it.hi \in Nat /\ it.next_offset \in Nat
          /\ it.seen \in Seq(Nat)
        BY <1>1 DEF IteratorType
    <1>3. CASE it.line > Len(arc.lines)
        <2>1. its' = [its EXCEPT ![i].ended = TRUE] /\ running' = None /\ pos' = pos
            BY <1>3 DEF ParseLine
        <2>2. its' = [its EXCEPT ![i] = [it EXCEPT !.ended = TRUE]]
            BY <1>1, <2>1
        <2>3. [it EXCEPT !.ended = TRUE] \in IteratorType
            BY <1>1 DEF IteratorType
        <2>4. /\ [it EXCEPT !.ended = TRUE].open = it.open
              /\ [it EXCEPT !.ended = TRUE].line = it.line
              /\ [it EXCEPT !.ended = TRUE].next_offset = it.next_offset
            BY <1>1 DEF IteratorType
        <2> QED BY <1>1, <2>1, <2>2, <2>3, <2>4
    <1>4. CASE ~(it.line > Len(arc.lines))
        <2> DEFINE l == arc.lines[it.line]
        <2>1. it.line \in 1..Len(arc.lines)
            BY <1>1, <1>2, <1>4, LengthFacts
        <2>2. l.g \in BOOLEAN /\ l.file \in Nat /\ l.len \in Nat
            BY <1>1, <2>1, LineFacts
        <2>3. PICK f \in Fetches(it, l.len) :
                LET hi == IF f.times = 0 THEN it.hi
                          ELSE Upto(it.next_offset + f.times * f.size)
                    cursor == IF f.times = 0 THEN it.next_offset ELSE hi
                    bad == it.bad \/ (f.times > 0 /\ it.hi # it.next_offset)
                IN
                /\ pos' = cursor
                /\ its' = [its EXCEPT ![i] =
                     [it EXCEPT !.line = it.line + 1, !.cur = it.cur + l.len, !.hi = hi,
                                !.bad = bad,
                                !.next_offset = IF l.g THEN it.next_offset ELSE cursor,
                                !.seen = IF l.g THEN it.seen
                                         ELSE Append(it.seen, IF bad THEN 0 ELSE l.file)]]
                /\ running' = IF l.g THEN i ELSE None
            BY <1>1, <1>4 DEF ParseLine, IteratorType
        <2> DEFINE hi == IF f.times = 0 THEN it.hi ELSE Upto(it.next_offset + f.times * f.size)
                   cursor == IF f.times = 0 THEN it.next_offset ELSE hi
                   bad == it.bad \/ (f.times > 0 /\ it.hi # it.next_offset)
                   seen == IF l.g THEN it.seen ELSE Append(it.seen, IF bad THEN 0 ELSE l.file)
                   next == IF l.g THEN it.next_offset ELSE cursor
                   new == [it EXCEPT !.line = it.line + 1, !.cur = it.cur + l.len, !.hi = hi,
                                     !.bad = bad, !.next_offset = next, !.seen = seen]
        <2>4. f.times \in Nat /\ f.times * f.size \in Nat
            BY <1>1, <1>2, <2>2, FetchesType
        <2>5. /\ Upto(it.next_offset + f.times * f.size) \in 0..arc.devLen
              /\ Upto(it.next_offset + f.times * f.size) \in Nat
            <3>1. it.next_offset + f.times * f.size \in Nat
                BY <1>2, <2>4
            <3> QED BY <1>1, <3>1, UptoFacts
        <2>6. hi \in Nat /\ cursor \in 0..arc.devLen /\ next \in 0..arc.devLen
            BY <1>1, <1>2, <2>5, PlaceFacts
        <2>7. bad \in BOOLEAN
            BY <1>1 DEF IteratorType
        <2>8. seen \in Seq(Nat)
            <3>1. (IF bad THEN 0 ELSE l.file) \in Nat
                BY <2>2
            <3>2. Append(it.seen, IF bad THEN 0 ELSE l.file) \in Seq(Nat)
                BY <1>2, <3>1, AppendProperties
            <3> QED BY <1>2, <3>2
        <2>9. its' = [its EXCEPT ![i] = new] /\ pos' = cursor /\ running' \in {i, None}
            BY <2>3
        <2> HIDE DEF hi, cursor, bad, seen, next, l
        <2>10. /\ it.line + 1 \in Nat /\ it.line + 1 > 0 /\ it.cur + l.len \in Nat
               /\ next \in Nat /\ next <= arc.devLen
            <3>1. it.line + 1 \in Nat /\ it.line + 1 > 0 /\ it.cur + l.len \in Nat
                BY <1>2, <2>2
            <3>2. next \in Nat /\ next <= arc.devLen
                BY <1>1, <2>6, PlaceFacts
            <3> QED BY <3>1, <3>2
        <2>11. /\ new \in IteratorType /\ new.open = it.open
               /\ new.line = it.line + 1 /\ new.next_offset = next
            BY <1>1, <2>6, <2>7, <2>8, <2>10 DEF IteratorType
        <2> HIDE DEF new
        <2> QED BY <1>1, <2>6, <2>9, <2>10, <2>11
    <1> QED BY <1>3, <1>4

LEMMA TypeFacts ==
    ASSUME TypeInv
    PROVE  /\ ArchiveOK(arc) /\ pos \in 0..arc.devLen
           /\ its \in [Iterators -> IteratorType] /\ running \in Iterators \cup {None}
           /\ ckLoaded \in BOOLEAN /\ cks \in {<< >>, arc.cks}
           /\ pc \in {"idle", "ensure", "seek", "skip", "header"}
           /\ target \in 0..Len(arc.files) /\ last \in 0..Len(arc.files)
           /\ decomp \in DecompType /\ result \in ResultType
    BY DEF TypeInv, TypeData

LEMMA FoldTypes ==
    ASSUME ArchiveOK(arc), pos \in 0..arc.devLen,
           its \in [Iterators -> IteratorType], running \in Iterators \cup {None},
           ckLoaded \in BOOLEAN, cks \in {<< >>, arc.cks},
           pc \in {"idle", "ensure", "seek", "skip", "header"},
           target \in 0..Len(arc.files), last \in 0..Len(arc.files),
           decomp \in DecompType, result \in ResultType
    PROVE  TypeData
    BY DEF TypeData

(* A read of the decompressor goes on without a gap if the cursor is where *)
(* its buffer ends.                                                        *)
LEMMA DecompReadFacts ==
    ASSUME TypeInv, NEW n \in Nat, DecompRead(n)
    PROVE  /\ pos' \in 0..arc.devLen /\ decomp' \in DecompType
           /\ decomp'.cur = decomp.cur + n /\ decomp'.end = decomp.end
           /\ decomp.cur + n <= decomp.end
           /\ pos = decomp.hi /\ ~decomp.bad => pos' = decomp'.hi /\ ~decomp'.bad
    <1>1. /\ ArchiveOK(arc) /\ pos \in 0..arc.devLen /\ pos \in Nat /\ decomp \in DecompType
        BY TypeFacts, PlaceFacts
    <1> DEFINE K == IF ~arc.gzip THEN {n}
                    ELSE IF n = 0 THEN {0}
                    ELSE {t * ChunkCap : t \in (IF decomp.fresh THEN 1 ELSE 0)..MaxRefills}
    <1>2. PICK k \in K :
            LET p == IF k = 0 THEN pos ELSE Upto(pos + k) IN
            /\ pos' = p
            /\ decomp' = [decomp EXCEPT !.cur = decomp.cur + n,
                                        !.fresh = decomp.fresh /\ n = 0,
                                        !.hi = IF k = 0 THEN decomp.hi ELSE p,
                                        !.bad = decomp.bad \/ (k > 0 /\ pos # decomp.hi)]
        BY <1>1 DEF DecompRead, DecompType
    <1>3. decomp.cur + n <= decomp.end
        BY DEF DecompRead
    <1>4. k \in Nat
        <2>1. CASE ~arc.gzip \/ n = 0
            BY <2>1
        <2>2. CASE arc.gzip /\ n # 0
            <3>1. PICK t \in (IF decomp.fresh THEN 1 ELSE 0)..MaxRefills : k = t * ChunkCap
                BY <2>2
            <3>2. t \in Nat /\ ChunkCap \in Nat
                BY <3>1, CapsAssumption
            <3> QED BY <3>1, <3>2
        <2> QED BY <2>1, <2>2, <1>1, ArchiveFacts
    <1> HIDE DEF K
    <1> DEFINE p == IF k = 0 THEN pos ELSE Upto(pos + k)
               h == IF k = 0 THEN decomp.hi ELSE p
               b == decomp.bad \/ (k > 0 /\ pos # decomp.hi)
               r == decomp.fresh /\ n = 0
    <1>5. p \in 0..arc.devLen /\ p \in Nat
        <2>1. pos + k \in Nat
            BY <1>1, <1>4
        <2> QED BY <1>1, <2>1, UptoFacts
    <1>6. h \in Nat /\ b \in BOOLEAN /\ r \in BOOLEAN /\ decomp.cur + n \in Nat
        BY <1>1, <1>5 DEF DecompType
    <1>7. decomp' = [decomp EXCEPT !.cur = decomp.cur + n, !.fresh = r, !.hi = h, !.bad = b]
        BY <1>2
    <1>8. pos' = p
        BY <1>2
    <1>9. pos = decomp.hi /\ ~decomp.bad => p = h /\ ~b
        OBVIOUS
    <1> HIDE DEF p, h, b, r
    <1>10. decomp' \in DecompType
        BY <1>1, <1>6, <1>7 DEF DecompType
    <1>11. /\ decomp'.cur = decomp.cur + n /\ decomp'.end = decomp.end
           /\ decomp'.hi = h /\ decomp'.bad = b
        BY <1>1, <1>7 DEF DecompType
    <1> QED BY <1>3, <1>5, <1>8, <1>9, <1>10, <1>11

LEMMA FailFacts ==
    ASSUME TypeInv, Fail
    PROVE  pos' \in 0..arc.devLen /\ pc' = "idle" /\ target' = 0 /\ last' = 0
    BY TypeFacts, PlaceFacts DEF Fail

LEMMA ClosedType == Closed \in IteratorType
    <1>1. << >> \in Seq(Nat)
        OBVIOUS
    <1> QED BY <1>1 DEF Closed, IteratorType

LEMMA ReaderInitType ==
    ASSUME ArchiveOK(arc), ReaderInit
    PROVE  TypeInv
    <1>1. ArchiveOK(arc) /\ Len(arc.files) \in Nat
        BY LengthFacts
    <1>2. /\ pos \in 0..arc.devLen
          /\ its \in [Iterators -> IteratorType] /\ running = None
          /\ ckLoaded = FALSE /\ cks = << >> /\ pc = "idle" /\ target = 0 /\ last = 0
          /\ \A i \in Iterators : its[i] = Closed
        BY <1>1, PlaceFacts, ClosedType DEF ReaderInit
    <1>3. decomp \in DecompType /\ result \in ResultType
        BY DEF ReaderInit, NoDecomp, NoResult, DecompType, ResultType
    <1>4. TypeData
        <2>1. target \in 0..Len(arc.files) /\ last \in 0..Len(arc.files)
            BY <1>1, <1>2
        <2>2. /\ running \in Iterators \cup {None} /\ ckLoaded \in BOOLEAN
              /\ cks \in {<< >>, arc.cks} /\ pc \in {"idle", "ensure", "seek", "skip", "header"}
            BY <1>2
        <2> QED BY <1>1, <1>2, <1>3, <2>1, <2>2, FoldTypes
    <1>5. \A i \in Iterators : ~its[i].open /\ its[i].next_offset <= arc.devLen
        BY <1>1, <1>2, PlaceFacts DEF Closed
    <1>6. OneCall
        BY <1>2, <1>5 DEF OneCall
    <1> QED BY <1>4, <1>6 DEF TypeInv

LEMMA InitType == Init => TypeInv
    BY ReaderInitType, ArchivesAssumption DEF Init

(* All of TypeInv after a step that does not change the archive.           *)
LEMMA TypeInvAfter ==
    ASSUME TypeInv, UNCHANGED arc,
           pos' \in 0..arc.devLen,
           its' \in [Iterators -> IteratorType], running' \in Iterators \cup {None},
           ckLoaded' \in BOOLEAN, cks' \in {<< >>, arc.cks}, ckLoaded' => cks' = arc.cks,
           pc' \in {"idle", "ensure", "seek", "skip", "header"},
           target' \in 0..Len(arc.files), last' \in 0..Len(arc.files),
           decomp' \in DecompType, result' \in ResultType,
           pc' # "idle" => target' \in 1..Len(arc.files),
           pc' \notin {"idle", "ensure"} => ckLoaded',
           pc' = "skip" => result'.skip >= 0,
           running' # None => pc' = "idle" /\ last' = 0 /\ its'[running'].open,
           \A i \in Iterators :
                (its'[i].open => its'[i].line > 0) /\ its'[i].next_offset <= arc.devLen
    PROVE  TypeInv'
    <1>1. TypeData'
        BY TypeFacts DEF TypeData
    <1>2. OneCall'
        BY DEF OneCall
    <1> QED BY <1>1, <1>2 DEF TypeInv

(* A step of read_meta or read_content leaves the iterators alone.         *)
LEMMA TypeInvAfterRead ==
    ASSUME TypeInv, UNCHANGED <<arc, its, running>>, running = None,
           pos' \in 0..arc.devLen,
           ckLoaded' \in BOOLEAN, cks' \in {<< >>, arc.cks}, ckLoaded' => cks' = arc.cks,
           pc' \in {"idle", "ensure", "seek", "skip", "header"},
           target' \in 0..Len(arc.files), last' \in 0..Len(arc.files),
           decomp' \in DecompType, result' \in ResultType,
           pc' # "idle" => target' \in 1..Len(arc.files),
           pc' \notin {"idle", "ensure"} => ckLoaded',
           pc' = "skip" => result'.skip >= 0
    PROVE  TypeInv'
    <1>1. \A i \in Iterators :
            (its[i].open => its[i].line > 0) /\ its[i].next_offset <= arc.devLen
        BY DEF TypeInv, OneCall
    <1>2. running' = None /\ its' = its /\ its \in [Iterators -> IteratorType]
        BY TypeFacts
    <1> QED BY <1>1, <1>2, TypeInvAfter

(* A step of an iterator leaves the rest alone.                            *)
LEMMA TypeInvAfterIterator ==
    ASSUME TypeInv, UNCHANGED <<arc, ckLoaded, cks, pc, target, decomp, result>>,
           last' \in {0, last},
           pos' \in 0..arc.devLen,
           its' \in [Iterators -> IteratorType], running' \in Iterators \cup {None},
           running' # None => pc = "idle" /\ last' = 0 /\ its'[running'].open,
           \A i \in Iterators :
                (its'[i].open => its'[i].line > 0) /\ its'[i].next_offset <= arc.devLen
    PROVE  TypeInv'
    <1>1. /\ ckLoaded \in BOOLEAN /\ cks \in {<< >>, arc.cks}
          /\ pc \in {"idle", "ensure", "seek", "skip", "header"}
          /\ target \in 0..Len(arc.files) /\ last \in 0..Len(arc.files)
          /\ decomp \in DecompType /\ result \in ResultType
        BY TypeFacts
    <1>2. 0 \in 0..Len(arc.files)
        BY TypeFacts, LengthFacts
    <1>3. /\ ckLoaded => cks = arc.cks
          /\ pc # "idle" => target \in 1..Len(arc.files)
          /\ pc \notin {"idle", "ensure"} => ckLoaded
          /\ pc = "skip" => result.skip >= 0
        BY DEF TypeInv, OneCall
    <1> QED BY <1>1, <1>2, <1>3, TypeInvAfter

LEMMA IterateType ==
    ASSUME TypeInv, NEW i \in Iterators, Iterate(i)
    PROVE  TypeInv'
    <1>1. /\ ArchiveOK(arc) /\ its \in [Iterators -> IteratorType]
          /\ last \in 0..Len(arc.files) /\ running = None
          /\ arc.idxAt \in Nat
        BY TypeFacts, PlaceFacts DEF Iterate
    <1> DEFINE F == IF arc.gzip THEN [times : 1..MaxRefills, size : {ChunkCap}]
                    ELSE {[times |-> 1 + BlockRefills(BlockCap, Head1), size |-> BlockCap]}
    <1>2. PICK f \in F :
            LET hi == Upto(arc.idxAt + f.times * f.size) IN
            /\ its' = [its EXCEPT ![i] =
                         [Closed EXCEPT !.open = TRUE, !.line = 1, !.cur = arc.idxAt + Head1,
                                        !.hi = hi, !.next_offset = hi]]
            /\ pos' = hi
        BY DEF Iterate
    <1>3. BlockCap \in Nat /\ ChunkCap \in Nat /\ MaxRefills \in Nat /\ Head1 \in Nat
        BY CapsAssumption DEF Head1
    <1>4. f.times \in Nat /\ f.size \in Nat
        <2>1. CASE arc.gzip
            <3>1. f \in [times : 1..MaxRefills, size : {ChunkCap}]
                BY <2>1
            <3> QED BY <1>3, <3>1
        <2>2. CASE ~arc.gzip
            <3>1. f = [times |-> 1 + BlockRefills(BlockCap, Head1), size |-> BlockCap]
                BY <2>2
            <3>2. BlockCap \in Int /\ Head1 \in Int
                BY <1>3
            <3>3. BlockRefills(BlockCap, Head1) \in Nat
                BY <3>2, BlockRefillsType
            <3> QED BY <1>3, <3>1, <3>3
        <2> QED BY <2>1, <2>2
    <1> DEFINE hi == Upto(arc.idxAt + f.times * f.size)
               new == [Closed EXCEPT !.open = TRUE, !.line = 1, !.cur = arc.idxAt + Head1,
                                     !.hi = hi, !.next_offset = hi]
    <1>5. hi \in 0..arc.devLen /\ hi \in Nat
        <2>1. arc.idxAt + f.times * f.size \in Nat
            BY <1>1, <1>4
        <2> QED BY <1>1, <2>1, UptoFacts
    <1>6. its' = [its EXCEPT ![i] = new] /\ pos' = hi
        BY <1>2
    <1> HIDE DEF hi
    <1>7. /\ new \in IteratorType /\ new.open /\ new.line = 1 /\ new.next_offset = hi
        <2>1. arc.idxAt + Head1 \in Nat
            BY <1>1, <1>3
        <2> QED BY <1>5, <2>1, ClosedType DEF IteratorType
    <1> HIDE DEF new
    <1>8. its' \in [Iterators -> IteratorType]
        BY <1>1, <1>6, <1>7
    <1>9. ASSUME NEW j \in Iterators
          PROVE  (its'[j].open => its'[j].line > 0) /\ its'[j].next_offset <= arc.devLen
        <2>1. (its[j].open => its[j].line > 0) /\ its[j].next_offset <= arc.devLen
            BY DEF TypeInv, OneCall
        <2>2. hi <= arc.devLen
            BY <1>1, <1>5, PlaceFacts
        <2> QED BY <1>1, <1>6, <1>7, <2>1, <2>2
    <1>10. /\ UNCHANGED <<arc, ckLoaded, cks, pc, target, decomp, result>>
           /\ last' \in {0, last} /\ running' = None
        BY <1>1 DEF Iterate
    <1> QED BY <1>5, <1>6, <1>8, <1>9, <1>10, TypeInvAfterIterator

LEMMA ParseType ==
    ASSUME TypeInv, NEW i \in Iterators, IteratorNext(i) \/ IteratorGoOn(i)
    PROVE  TypeInv'
    <1>1. /\ ParseLine(i) /\ pc = "idle" /\ its[i].open /\ last' = 0
          /\ UNCHANGED <<arc, ckLoaded, cks, pc, target, decomp, result>>
        <2>1. CASE IteratorNext(i)
            BY <2>1 DEF IteratorNext
        <2>2. CASE IteratorGoOn(i)
            <3>1. running = i /\ i # None
                BY <2>2, IteratorsAssumption DEF IteratorGoOn
            <3>2. pc = "idle" /\ last = 0 /\ its[i].open
                BY <3>1 DEF TypeInv, OneCall
            <3> QED BY <2>2, <3>2 DEF IteratorGoOn
        <2> QED BY <2>1, <2>2
    <1>2. /\ pos' \in 0..arc.devLen
          /\ its' \in [Iterators -> IteratorType]
          /\ \A j \in Iterators \ {i} : its'[j] = its[j]
          /\ its'[i].open /\ its'[i].line > 0 /\ its'[i].next_offset <= arc.devLen
          /\ running' \in {i, None}
        BY <1>1, ParseLineType
    <1>3. ASSUME NEW j \in Iterators
          PROVE  (its'[j].open => its'[j].line > 0) /\ its'[j].next_offset <= arc.devLen
        <2>1. (its[j].open => its[j].line > 0) /\ its[j].next_offset <= arc.devLen
            BY DEF TypeInv, OneCall
        <2> QED BY <1>2, <2>1
    <1> QED BY <1>1, <1>2, <1>3, TypeInvAfterIterator

LEMMA FreeType ==
    ASSUME TypeInv, NEW i \in Iterators, IteratorFree(i)
    PROVE  TypeInv'
    <1>1. /\ ArchiveOK(arc) /\ its \in [Iterators -> IteratorType]
          /\ pos \in 0..arc.devLen
        BY TypeFacts
    <1>2. /\ its' = [its EXCEPT ![i] = Closed] /\ running' = None
          /\ UNCHANGED <<arc, pos, ckLoaded, cks, pc, target, decomp, last, result>>
        BY DEF IteratorFree
    <1>3. its' \in [Iterators -> IteratorType]
        BY <1>1, <1>2, ClosedType
    <1>4. ~Closed.open /\ Closed.next_offset <= arc.devLen
        BY <1>1, PlaceFacts DEF Closed
    <1>5. ASSUME NEW j \in Iterators
          PROVE  (its'[j].open => its'[j].line > 0) /\ its'[j].next_offset <= arc.devLen
        <2>1. (its[j].open => its[j].line > 0) /\ its[j].next_offset <= arc.devLen
            BY DEF TypeInv, OneCall
        <2> QED BY <1>1, <1>2, <1>4, <2>1
    <1> QED BY <1>1, <1>2, <1>3, <1>5, TypeInvAfterIterator

(* No call of next is running when one of read_meta is, or of read_content *)
(* begins.                                                                 *)
LEMMA NotRunning == ASSUME TypeInv, pc # "idle" PROVE running = None
    BY DEF TypeInv, OneCall

LEMMA FailType ==
    ASSUME TypeInv, running = None, Fail,
           UNCHANGED <<arc, its, running, ckLoaded, cks>>,
           decomp' \in DecompType, result' \in ResultType
    PROVE  TypeInv'
    <1>1. pos' \in 0..arc.devLen /\ pc' = "idle" /\ target' = 0 /\ last' = 0
        BY FailFacts
    <1>2. ckLoaded \in BOOLEAN /\ cks \in {<< >>, arc.cks} /\ (ckLoaded => cks = arc.cks)
        BY TypeFacts DEF TypeInv, OneCall
    <1>3. 0 \in 0..Len(arc.files)
        BY TypeFacts, LengthFacts
    <1> QED BY <1>1, <1>2, <1>3, TypeInvAfterRead

LEMMA ReadMetaType ==
    ASSUME TypeInv, NEW f \in 1..Len(arc.files), ReadMeta(f)
    PROVE  TypeInv'
    <1>1. /\ running = None /\ pc' = "ensure" /\ target' = f /\ last' = 0 /\ result' = NoResult
          /\ UNCHANGED <<arc, pos, its, running, ckLoaded, cks, decomp>>
        BY DEF ReadMeta
    <1>2. /\ pos \in 0..arc.devLen /\ ckLoaded \in BOOLEAN /\ cks \in {<< >>, arc.cks}
          /\ decomp \in DecompType /\ (ckLoaded => cks = arc.cks)
        BY TypeFacts DEF TypeInv, OneCall
    <1>3. NoResult \in ResultType
        BY DEF NoResult, ResultType
    <1>4. 0 \in 0..Len(arc.files) /\ f \in 0..Len(arc.files)
        BY TypeFacts, LengthFacts
    <1> QED BY <1>1, <1>2, <1>3, <1>4, TypeInvAfterRead

LEMMA EnsureType ==
    ASSUME TypeInv, EnsureCheckpointSection
    PROVE  TypeInv'
    <1>1. /\ ArchiveOK(arc) /\ pos \in 0..arc.devLen /\ cks \in {<< >>, arc.cks}
          /\ ckLoaded \in BOOLEAN
          /\ last \in 0..Len(arc.files) /\ decomp \in DecompType /\ result \in ResultType
        BY TypeFacts
    <1>2. /\ pc = "ensure" /\ UNCHANGED <<arc, its, running, decomp, result>>
          /\ running = None
        BY NotRunning DEF EnsureCheckpointSection
    <1>3. target \in 1..Len(arc.files) /\ target \in 0..Len(arc.files)
        BY <1>1, <1>2, LengthFacts DEF TypeInv, OneCall
    <1>4. ckLoaded => cks = arc.cks
        BY DEF TypeInv, OneCall
    <1>5. CASE /\ ckLoaded
               /\ pc' = "seek"
               /\ UNCHANGED <<pos, ckLoaded, cks, target, last>>
        BY <1>1, <1>2, <1>3, <1>4, <1>5, TypeInvAfterRead
    <1>6. CASE /\ pos' = arc.devLen /\ cks' = arc.cks /\ ckLoaded' = TRUE /\ pc' = "seek"
               /\ UNCHANGED <<target, last>>
        <2>1. pos' \in 0..arc.devLen
            BY <1>1, <1>6, PlaceFacts
        <2> QED BY <1>1, <1>2, <1>3, <1>6, <2>1, TypeInvAfterRead
    <1>7. CASE Fail /\ UNCHANGED <<ckLoaded, cks>>
        BY <1>1, <1>2, <1>7, FailType
    <1> QED BY <1>5, <1>6, <1>7 DEF EnsureCheckpointSection

(* What a seek finds: a checkpoint at or before the member, the last such, *)
(* whose stream holds all of the member.                                   *)
LEMMA SeekFinds ==
    ASSUME TypeInv, SeekToCheckpoint
    PROVE  \E k \in 0..Len(arc.cks) :
             LET f == arc.files[target]
                 s == StreamAt(Ck(k).c)
             IN  /\ target \in 1..Len(arc.files)
                 /\ Ck(k).u <= f.off /\ \A i \in 1..Len(arc.cks) : i > k => arc.cks[i].u > f.off
                 /\ s.raw = Ck(k).u /\ s.end \in Nat /\ f.off + f.header + f.data <= s.end
                 /\ pos' = Ck(k).c
                 /\ decomp' = [cur |-> s.raw, end |-> s.end, hi |-> Ck(k).c, fresh |-> TRUE,
                               bad |-> FALSE]
                 /\ result' = [result EXCEPT !.skip = f.off - Ck(k).u]
    <1>1. ArchiveOK(arc) /\ pc = "seek"
        BY TypeFacts DEF SeekToCheckpoint
    <1>2. target \in 1..Len(arc.files) /\ cks = arc.cks
        BY <1>1 DEF TypeInv, OneCall
    <1>3. arc.files[target].off \in Nat
        BY <1>1, <1>2, FileFacts
    <1>4. PICK k \in 0..Len(arc.cks) :
             /\ FindCheckpoint(arc.files[target].off) = Ck(k)
             /\ Ck(k).u <= arc.files[target].off
             /\ \A i \in 1..Len(arc.cks) : i > k => arc.cks[i].u > arc.files[target].off
        BY <1>1, <1>2, <1>3, FindCheckpointFacts
    <1> DEFINE f == arc.files[target]
               s == StreamAt(Ck(k).c)
    <1>5. s.raw = Ck(k).u /\ s.end \in Nat /\ f.off + f.header + f.data <= s.end
        BY <1>1, <1>2, <1>4, StreamCovers
    <1>6. /\ pos' = Ck(k).c
          /\ decomp' = [cur |-> s.raw, end |-> s.end, hi |-> Ck(k).c, fresh |-> TRUE,
                        bad |-> FALSE]
          /\ result' = [result EXCEPT !.skip = f.off - Ck(k).u]
        BY <1>4 DEF SeekToCheckpoint
    <1> QED BY <1>2, <1>4, <1>5, <1>6

LEMMA SeekType ==
    ASSUME TypeInv, SeekToCheckpoint
    PROVE  TypeInv'
    <1>1. /\ ArchiveOK(arc) /\ last \in 0..Len(arc.files) /\ result \in ResultType
          /\ ckLoaded \in BOOLEAN /\ cks \in {<< >>, arc.cks}
        BY TypeFacts
    <1>2. /\ pc = "seek" /\ pc' = "skip" /\ running = None
          /\ UNCHANGED <<arc, its, running, ckLoaded, cks, target, last>>
        BY NotRunning DEF SeekToCheckpoint
    <1>3. ckLoaded /\ cks = arc.cks
        BY <1>2 DEF TypeInv, OneCall
    <1>4. PICK k \in 0..Len(arc.cks) :
             LET f == arc.files[target]
                 s == StreamAt(Ck(k).c)
             IN  /\ target \in 1..Len(arc.files)
                 /\ Ck(k).u <= f.off
                 /\ s.raw = Ck(k).u /\ s.end \in Nat
                 /\ pos' = Ck(k).c
                 /\ decomp' = [cur |-> s.raw, end |-> s.end, hi |-> Ck(k).c, fresh |-> TRUE,
                               bad |-> FALSE]
                 /\ result' = [result EXCEPT !.skip = f.off - Ck(k).u]
        BY SeekFinds
    <1>5. Ck(k).c \in 0..arc.devLen /\ Ck(k).c \in Nat /\ Ck(k).u \in Nat
        BY <1>1, CkFacts
    <1>6. target \in 1..Len(arc.files) /\ target \in 0..Len(arc.files)
        BY <1>1, <1>4, LengthFacts
    <1>7. pos' \in 0..arc.devLen /\ decomp' \in DecompType
        BY <1>4, <1>5 DEF DecompType
    <1>8. result' \in ResultType /\ result'.skip >= 0
        <2> DEFINE skip == arc.files[target].off - Ck(k).u
        <2>1. arc.files[target].off \in Nat /\ Ck(k).u <= arc.files[target].off
            BY <1>1, <1>4, FileFacts
        <2>2. skip \in Int /\ skip >= 0
            BY <1>5, <2>1
        <2>3. result' = [result EXCEPT !.skip = skip]
            BY <1>4
        <2> HIDE DEF skip
        <2> QED BY <1>1, <2>2, <2>3 DEF ResultType
    <1> QED BY <1>1, <1>2, <1>3, <1>6, <1>7, <1>8, TypeInvAfterRead

LEMMA SkipType ==
    ASSUME TypeInv, SkipToOffset
    PROVE  TypeInv'
    <1>1. /\ ArchiveOK(arc) /\ last \in 0..Len(arc.files) /\ result \in ResultType
          /\ ckLoaded \in BOOLEAN /\ cks \in {<< >>, arc.cks} /\ decomp \in DecompType
        BY TypeFacts
    <1>2. pc = "skip" /\ running = None /\ UNCHANGED <<arc, its, running, ckLoaded, cks, result>>
        BY NotRunning DEF SkipToOffset
    <1>3. /\ ckLoaded /\ cks = arc.cks /\ result.skip >= 0
          /\ target \in 1..Len(arc.files)
        BY <1>2 DEF TypeInv, OneCall
    <1>4. result.skip \in Nat
        BY <1>1, <1>3 DEF ResultType
    <1>5. CASE DecompRead(result.skip) /\ pc' = "header" /\ UNCHANGED <<target, last>>
        <2>1. pos' \in 0..arc.devLen /\ decomp' \in DecompType
            BY <1>4, <1>5, DecompReadFacts
        <2>2. target \in 0..Len(arc.files)
            BY <1>1, <1>3, LengthFacts
        <2> QED BY <1>1, <1>2, <1>3, <1>5, <2>1, <2>2, TypeInvAfterRead
    <1>6. CASE ReadFails(result.skip)
        BY <1>1, <1>2, <1>6, FailType DEF ReadFails
    <1> QED BY <1>5, <1>6 DEF SkipToOffset

LEMMA HeadersType ==
    ASSUME TypeInv, ReadHeaders
    PROVE  TypeInv'
    <1>1. /\ ArchiveOK(arc) /\ result \in ResultType
          /\ ckLoaded \in BOOLEAN /\ cks \in {<< >>, arc.cks} /\ decomp \in DecompType
        BY TypeFacts
    <1>2. pc = "header" /\ running = None /\ UNCHANGED <<arc, its, running, ckLoaded, cks>>
        BY NotRunning DEF ReadHeaders
    <1>3. ckLoaded /\ cks = arc.cks /\ target \in 1..Len(arc.files)
        BY <1>2 DEF TypeInv, OneCall
    <1>4. arc.files[target].header \in Nat
        BY <1>1, <1>3, FileFacts
    <1>5. CASE /\ DecompRead(arc.files[target].header)
               /\ result' = [result EXCEPT !.meta = decomp.cur]
               /\ last' = target /\ pc' = "idle" /\ target' = 0
        <2>1. pos' \in 0..arc.devLen /\ decomp' \in DecompType
            BY <1>4, <1>5, DecompReadFacts
        <2>2. target \in 0..Len(arc.files) /\ 0 \in 0..Len(arc.files)
            BY <1>1, <1>3, LengthFacts
        <2>3. result' \in ResultType
            BY <1>1, <1>5 DEF ResultType, DecompType
        <2> QED BY <1>1, <1>2, <1>3, <1>5, <2>1, <2>2, <2>3, TypeInvAfterRead
    <1>6. CASE ReadFails(arc.files[target].header) /\ UNCHANGED result
        BY <1>1, <1>2, <1>6, FailType DEF ReadFails
    <1> QED BY <1>5, <1>6 DEF ReadHeaders

LEMMA ContentType ==
    ASSUME TypeInv, ReadContent
    PROVE  TypeInv'
    <1>1. /\ ArchiveOK(arc) /\ last \in 0..Len(arc.files) /\ result \in ResultType
          /\ ckLoaded \in BOOLEAN /\ cks \in {<< >>, arc.cks} /\ decomp \in DecompType
          /\ target \in 0..Len(arc.files)
        BY TypeFacts
    <1>2. /\ pc = "idle" /\ running = None /\ last # 0
          /\ UNCHANGED <<arc, its, running, ckLoaded, cks>>
        BY DEF ReadContent
    <1>3. last \in 1..Len(arc.files) /\ last \in Nat /\ 0 \in 0..Len(arc.files)
        BY <1>1, <1>2, LengthFacts
    <1>4. arc.files[last].data \in Nat
        BY <1>1, <1>3, FileFacts
    <1>5. ckLoaded => cks = arc.cks
        BY DEF TypeInv, OneCall
    <1>6. CASE /\ DecompRead(arc.files[last].data)
               /\ result' = [result EXCEPT !.content = decomp.cur, !.file = last,
                                           !.damaged = decomp'.bad]
               /\ last' = 0
               /\ UNCHANGED <<pc, target>>
        <2>1. pos' \in 0..arc.devLen /\ decomp' \in DecompType
            BY <1>4, <1>6, DecompReadFacts
        <2>2. result' \in ResultType
            BY <1>1, <1>3, <1>6, <2>1 DEF ResultType, DecompType
        <2> QED BY <1>1, <1>2, <1>3, <1>5, <1>6, <2>1, <2>2, TypeInvAfterRead
    <1>7. CASE ReadFails(arc.files[last].data) /\ UNCHANGED result
        BY <1>1, <1>2, <1>7, FailType DEF ReadFails
    <1> QED BY <1>6, <1>7 DEF ReadContent

LEMMA NextType == TypeInv /\ [Next]_vars => TypeInv'
    <1> SUFFICES ASSUME TypeInv, [Next]_vars PROVE TypeInv'
        OBVIOUS
    <1>1. CASE UNCHANGED vars
        BY <1>1 DEF vars, TypeInv, TypeData, OneCall
    <1>2. ASSUME NEW i \in Iterators,
                 Iterate(i) \/ IteratorNext(i) \/ IteratorGoOn(i) \/ IteratorFree(i)
          PROVE  TypeInv'
        BY <1>2, IterateType, ParseType, FreeType
    <1>3. ASSUME NEW f \in 1..Len(arc.files), ReadMeta(f)
          PROVE  TypeInv'
        BY <1>3, ReadMetaType
    <1>4. CASE EnsureCheckpointSection \/ SeekToCheckpoint \/ SkipToOffset
               \/ ReadHeaders \/ ReadContent
        BY <1>4, EnsureType, SeekType, SkipType, HeadersType, ContentType
    <1> QED BY <1>1, <1>2, <1>3, <1>4 DEF Next

(* The cursor stays within the file, whatever is read, and every variable  *)
(* of the reader has its type.                                             *)
THEOREM ReaderTypeCorrect == Spec => []TypeOK
    <1>1. TypeInv /\ arc \in Archives => TypeOK
        BY DEF TypeInv, TypeData, TypeOK, IteratorType, DecompType, ResultType
    <1>2. Init => arc \in Archives
        BY DEF Init
    <1>3. arc \in Archives /\ [Next]_vars => (arc \in Archives)'
        BY DEF Next, vars, Iterate, IteratorNext, IteratorGoOn, IteratorFree, ReadMeta,
               EnsureCheckpointSection, SeekToCheckpoint, SkipToOffset, ReadHeaders, ReadContent
    <1> QED BY <1>1, <1>2, <1>3, InitType, NextType, PTL DEF Spec

(***************************************************************************)
(* What read_meta and read_content deliver                                 *)
(***************************************************************************)

(* From the seek until the content is read the cursor is where the input   *)
(* of the decompressor ends, so that nothing is missing from it.           *)
NoGap == pos = decomp.hi /\ ~decomp.bad

Seeking ==
    pc \in {"skip", "header"} =>
        LET f == arc.files[target] IN
        /\ NoGap
        /\ result.skip >= 0
        /\ decomp.cur + (IF pc = "skip" THEN result.skip ELSE 0) = f.off
        /\ f.off + f.header + f.data <= decomp.end

HaveMeta ==
    last # 0 =>
        LET f == arc.files[last] IN
        /\ pc = "idle"
        /\ NoGap
        /\ result.meta = f.off
        /\ decomp.cur = f.off + f.header
        /\ f.off + f.header + f.data <= decomp.end

ReadInv == Seeking /\ HaveMeta /\ ContentCorrect /\ NearestCheckpoint

LEMMA InitRead == ReaderInit => ReadInv
    BY DEF ReaderInit, NoResult, ReadInv, Seeking, HaveMeta, ContentCorrect,
           NearestCheckpoint

(* Between calls, and when one has failed, there is nothing to keep but    *)
(* the content that was delivered last.                                    *)
LEMMA ReadInvIdle ==
    ASSUME ReadInv, UNCHANGED <<arc, result>>, pc' = "idle", last' = 0
    PROVE  ReadInv'
    BY DEF ReadInv, Seeking, HaveMeta, ContentCorrect, NearestCheckpoint

LEMMA IteratorRead ==
    ASSUME TypeInv, ReadInv, NEW i \in Iterators,
           Iterate(i) \/ IteratorNext(i) \/ IteratorGoOn(i) \/ IteratorFree(i)
    PROVE  ReadInv'
    <1>1. CASE Iterate(i) \/ IteratorNext(i)
        BY <1>1, ReadInvIdle DEF Iterate, IteratorNext
    <1>2. CASE IteratorGoOn(i)
        <2>1. running = i /\ i # None
            BY <1>2, IteratorsAssumption DEF IteratorGoOn
        <2>2. pc = "idle" /\ last = 0
            BY <2>1 DEF TypeInv, OneCall
        <2> QED BY <1>2, <2>2, ReadInvIdle DEF IteratorGoOn
    <1>3. CASE IteratorFree(i)
        <2>1. UNCHANGED <<arc, pos, pc, target, decomp, last, result>>
            BY <1>3 DEF IteratorFree
        <2> QED BY <2>1 DEF ReadInv, Seeking, HaveMeta, NoGap, ContentCorrect, NearestCheckpoint
    <1> QED BY <1>1, <1>2, <1>3

LEMMA ReadMetaRead ==
    ASSUME ReadInv, NEW f \in 1..Len(arc.files), ReadMeta(f)
    PROVE  ReadInv'
    <1>1. pc' = "ensure" /\ last' = 0 /\ result'.file = 0
        BY DEF ReadMeta, NoResult
    <1> QED BY <1>1 DEF ReadInv, Seeking, HaveMeta, ContentCorrect, NearestCheckpoint

LEMMA EnsureRead ==
    ASSUME ReadInv, EnsureCheckpointSection
    PROVE  ReadInv'
    <1>1. pc = "ensure" /\ last = 0 /\ UNCHANGED <<arc, decomp, result>>
        BY DEF EnsureCheckpointSection, ReadInv, HaveMeta
    <1>2. pc' \in {"seek", "idle"} /\ last' = 0
        BY <1>1 DEF EnsureCheckpointSection, Fail
    <1> QED BY <1>1, <1>2 DEF ReadInv, Seeking, HaveMeta, ContentCorrect, NearestCheckpoint

LEMMA SeekRead ==
    ASSUME TypeInv, ReadInv, SeekToCheckpoint
    PROVE  ReadInv'
    <1>1. /\ ArchiveOK(arc) /\ result \in ResultType
        BY TypeFacts
    <1>2. /\ pc = "seek" /\ pc' = "skip" /\ UNCHANGED <<arc, target, last>>
          /\ last = 0
        BY DEF SeekToCheckpoint, ReadInv, HaveMeta
    <1> DEFINE f == arc.files[target]
    <1>3. PICK k \in 0..Len(arc.cks) :
             LET s == StreamAt(Ck(k).c)
             IN  /\ target \in 1..Len(arc.files)
                 /\ Ck(k).u <= f.off /\ \A i \in 1..Len(arc.cks) : i > k => arc.cks[i].u > f.off
                 /\ s.raw = Ck(k).u /\ s.end \in Nat /\ f.off + f.header + f.data <= s.end
                 /\ pos' = Ck(k).c
                 /\ decomp' = [cur |-> s.raw, end |-> s.end, hi |-> Ck(k).c, fresh |-> TRUE,
                               bad |-> FALSE]
                 /\ result' = [result EXCEPT !.skip = f.off - Ck(k).u]
        BY SeekFinds
    <1>4. f.off \in Nat /\ Ck(k).u \in Nat
        BY <1>1, <1>3, FileFacts, CkFacts
    <1>5. /\ result'.skip = f.off - Ck(k).u /\ result'.file = result.file
          /\ result'.content = result.content /\ result'.damaged = result.damaged
        BY <1>1, <1>3 DEF ResultType
    <1>6. Seeking'
        <2>1. NoGap'
            BY <1>3 DEF NoGap
        <2>2. decomp'.cur = Ck(k).u /\ f.off + f.header + f.data <= decomp'.end
            BY <1>3
        <2>3. result'.skip >= 0 /\ decomp'.cur + result'.skip = f.off
            BY <1>3, <1>4, <1>5, <2>2
        <2> QED BY <1>2, <2>1, <2>2, <2>3 DEF Seeking
    <1>7. HaveMeta'
        BY <1>2 DEF HaveMeta
    <1>8. ContentCorrect'
        BY <1>2, <1>5 DEF ReadInv, ContentCorrect
    <1>9. NearestCheckpoint'
        <2>1. ASSUME NEW i \in 1..Len(arc.cks), arc.cks[i].u <= f.off,
                     f.off - arc.cks[i].u < f.off - Ck(k).u
              PROVE  FALSE
            <3>1. arc.cks[i].u \in Nat
                BY <1>1, CheckpointFacts
            <3>2. k \in Nat /\ i \in Nat
                BY <1>1, LengthFacts
            <3>3. ~(i > k)
                <4>1. ~(arc.cks[i].u > f.off)
                    BY <1>4, <2>1, <3>1
                <4> QED BY <1>3, <4>1
            <3>4. k \in 1..Len(arc.cks) /\ k # 0
                BY <1>1, <3>2, <3>3, LengthFacts
            <3>5. Ck(k).u = arc.cks[k].u
                BY <3>4 DEF Ck
            <3>6. arc.cks[i].u <= arc.cks[k].u
                <4>1. CASE i = k
                    BY <3>1, <4>1
                <4>2. CASE i < k
                    BY <1>1, <1>4, <3>1, <3>4, <3>5, <4>2, CheckpointsOrdered
                <4> QED BY <3>2, <3>3, <4>1, <4>2
            <3> QED BY <1>4, <2>1, <3>1, <3>5, <3>6
        <2> QED BY <1>2, <1>5, <2>1 DEF NearestCheckpoint
    <1> QED BY <1>6, <1>7, <1>8, <1>9 DEF ReadInv

LEMMA SkipRead ==
    ASSUME TypeInv, ReadInv, SkipToOffset
    PROVE  ReadInv'
    <1>1. CASE DecompRead(result.skip) /\ pc' = "header" /\ UNCHANGED <<target, last>>
        <2>1. /\ pc = "skip" /\ UNCHANGED <<arc, result>> /\ last = 0
              /\ result \in ResultType /\ decomp \in DecompType
            BY TypeFacts DEF SkipToOffset, ReadInv, HaveMeta
        <2> DEFINE f == arc.files[target]
        <2>2. /\ NoGap /\ result.skip >= 0 /\ decomp.cur + result.skip = f.off
              /\ f.off + f.header + f.data <= decomp.end
            BY <2>1 DEF ReadInv, Seeking
        <2>3. result.skip \in Nat
            BY <2>1, <2>2 DEF ResultType
        <2>4. /\ decomp'.cur = f.off /\ decomp'.end = decomp.end
              /\ pos' = decomp'.hi /\ ~decomp'.bad
            BY <1>1, <2>2, <2>3, DecompReadFacts DEF NoGap
        <2>5. f.off + 0 = f.off
            <3>1. target \in 1..Len(arc.files) /\ ArchiveOK(arc)
                BY <2>1, TypeFacts DEF TypeInv, OneCall
            <3> QED BY <3>1, FileFacts
        <2>6. Seeking'
            BY <1>1, <2>1, <2>2, <2>4, <2>5 DEF Seeking, NoGap
        <2>7. HaveMeta' /\ ContentCorrect' /\ NearestCheckpoint'
            BY <1>1, <2>1 DEF ReadInv, HaveMeta, ContentCorrect, NearestCheckpoint
        <2> QED BY <2>6, <2>7 DEF ReadInv
    <1>2. CASE ReadFails(result.skip)
        <2>1. UNCHANGED <<arc, result>> /\ pc' = "idle" /\ last' = 0
            BY <1>2 DEF SkipToOffset, ReadFails, Fail
        <2> QED BY <2>1, ReadInvIdle
    <1> QED BY <1>1, <1>2 DEF SkipToOffset

LEMMA HeadersRead ==
    ASSUME TypeInv, ReadInv, ReadHeaders
    PROVE  ReadInv'
    <1>1. pc = "header" /\ UNCHANGED arc
        BY DEF ReadHeaders
    <1>2. CASE /\ DecompRead(arc.files[target].header)
               /\ result' = [result EXCEPT !.meta = decomp.cur]
               /\ last' = target /\ pc' = "idle" /\ target' = 0
        <2> DEFINE f == arc.files[target]
        <2>1. /\ ArchiveOK(arc) /\ result \in ResultType /\ decomp \in DecompType
              /\ target \in 1..Len(arc.files)
            BY <1>1, TypeFacts DEF TypeInv, OneCall
        <2>2. f.header \in Nat
            BY <2>1, FileFacts
        <2>3. /\ NoGap /\ decomp.cur + 0 = f.off
              /\ f.off + f.header + f.data <= decomp.end
            BY <1>1 DEF ReadInv, Seeking
        <2>4. decomp.cur = f.off
            BY <2>1, <2>3 DEF DecompType
        <2>5. /\ decomp'.cur = f.off + f.header /\ decomp'.end = decomp.end
              /\ pos' = decomp'.hi /\ ~decomp'.bad
            BY <1>2, <2>2, <2>3, <2>4, DecompReadFacts DEF NoGap
        <2>6. /\ result'.meta = f.off /\ result'.file = result.file
              /\ result'.content = result.content /\ result'.damaged = result.damaged
            BY <1>2, <2>1, <2>4 DEF ResultType
        <2>7. HaveMeta'
            BY <1>1, <1>2, <2>3, <2>5, <2>6 DEF HaveMeta, NoGap
        <2>8. ContentCorrect'
            BY <1>1, <2>6 DEF ReadInv, ContentCorrect
        <2>9. Seeking' /\ NearestCheckpoint'
            BY <1>2 DEF Seeking, NearestCheckpoint
        <2> QED BY <2>7, <2>8, <2>9 DEF ReadInv
    <1>3. CASE ReadFails(arc.files[target].header) /\ UNCHANGED result
        <2>1. pc' = "idle" /\ last' = 0
            BY <1>3 DEF ReadFails, Fail
        <2> QED BY <1>1, <1>3, <2>1, ReadInvIdle
    <1> QED BY <1>2, <1>3 DEF ReadHeaders

LEMMA ContentRead ==
    ASSUME TypeInv, ReadInv, ReadContent
    PROVE  ReadInv'
    <1>1. pc = "idle" /\ last # 0 /\ UNCHANGED arc
        BY DEF ReadContent
    <1>2. CASE /\ DecompRead(arc.files[last].data)
               /\ result' = [result EXCEPT !.content = decomp.cur, !.file = last,
                                           !.damaged = decomp'.bad]
               /\ last' = 0
               /\ UNCHANGED <<pc, target>>
        <2> DEFINE f == arc.files[last]
        <2>1. /\ ArchiveOK(arc) /\ result \in ResultType
              /\ last \in 1..Len(arc.files)
            BY <1>1, TypeFacts, LengthFacts
        <2>2. f.data \in Nat
            BY <2>1, FileFacts
        <2>3. NoGap /\ decomp.cur = f.off + f.header
            BY <1>1 DEF ReadInv, HaveMeta
        <2>4. ~decomp'.bad
            BY <1>2, <2>2, <2>3, DecompReadFacts DEF NoGap
        <2>5. /\ result'.content = f.off + f.header /\ result'.file = last
              /\ result'.damaged = decomp'.bad
            BY <1>2, <2>1, <2>3 DEF ResultType
        <2>6. ContentCorrect'
            BY <1>1, <2>4, <2>5 DEF ContentCorrect
        <2>7. Seeking' /\ HaveMeta' /\ NearestCheckpoint'
            BY <1>1, <1>2 DEF Seeking, HaveMeta, NearestCheckpoint
        <2> QED BY <2>6, <2>7 DEF ReadInv
    <1>3. CASE ReadFails(arc.files[last].data) /\ UNCHANGED result
        <2>1. pc' = "idle" /\ last' = 0
            BY <1>3 DEF ReadFails, Fail
        <2> QED BY <1>1, <1>3, <2>1, ReadInvIdle
    <1> QED BY <1>2, <1>3 DEF ReadContent

LEMMA NextRead == TypeInv /\ ReadInv /\ [Next]_vars => ReadInv'
    <1> SUFFICES ASSUME TypeInv, ReadInv, [Next]_vars PROVE ReadInv'
        OBVIOUS
    <1>1. CASE UNCHANGED vars
        BY <1>1 DEF vars, ReadInv, Seeking, HaveMeta, NoGap, ContentCorrect, NearestCheckpoint
    <1>2. ASSUME NEW i \in Iterators,
                 Iterate(i) \/ IteratorNext(i) \/ IteratorGoOn(i) \/ IteratorFree(i)
          PROVE  ReadInv'
        BY <1>2, IteratorRead
    <1>3. ASSUME NEW f \in 1..Len(arc.files), ReadMeta(f)
          PROVE  ReadInv'
        BY <1>3, ReadMetaRead
    <1>4. CASE EnsureCheckpointSection \/ SeekToCheckpoint \/ SkipToOffset
               \/ ReadHeaders \/ ReadContent
        BY <1>4, EnsureRead, SeekRead, SkipRead, HeadersRead, ContentRead
    <1> QED BY <1>1, <1>2, <1>3, <1>4 DEF Next

LEMMA ReadInvariant == Spec => [](TypeInv /\ ReadInv)
    BY InitType, InitRead, NextType, NextRead, PTL DEF Spec, Init

(* read_meta that succeeded read the headers at the offset it was given,   *)
(* through whatever checkpoint, and without a gap, though the iterators    *)
(* and the loading of the checkpoints moved the same cursor.               *)
THEOREM MetaTheorem == Spec => []MetaCorrect
    <1>1. ReadInv => MetaCorrect
        BY DEF ReadInv, HaveMeta, NoGap, MetaCorrect
    <1> QED BY <1>1, ReadInvariant, PTL

(* read_content delivers the content of the member asked for.              *)
THEOREM ContentTheorem == Spec => []ContentCorrect
    <1>1. ReadInv => ContentCorrect
        BY DEF ReadInv
    <1> QED BY <1>1, ReadInvariant, PTL

(* The decompressor the scan of the checkpoints leads to reaches all of    *)
(* the member: a gzip stream does not end within it.                       *)
THEOREM ReachesTheorem == Spec => []ReachesHeaders
    <1>1. TypeInv /\ ReadInv => ReachesHeaders
        <2> SUFFICES ASSUME TypeInv, ReadInv, pc \in {"skip", "header"}
                     PROVE  /\ result.skip >= 0
                            /\ LET f == arc.files[target] IN
                               decomp.cur + (IF pc = "skip" THEN result.skip ELSE 0)
                                 + f.header + f.data <= decomp.end
            BY DEF ReachesHeaders
        <2> QED BY DEF ReadInv, Seeking
    <1> QED BY <1>1, ReadInvariant, PTL

(* No checkpoint lies between the one a seek starts from and the member.   *)
THEOREM NearestTheorem == Spec => []NearestCheckpoint
    <1>1. ReadInv => NearestCheckpoint
        BY DEF ReadInv
    <1> QED BY <1>1, ReadInvariant, PTL

(***************************************************************************)
(* The iterators, on an index without lines of global metadata             *)
(***************************************************************************)
NoGlobals == \A k \in 1..Len(arc.lines) : ~arc.lines[k].g

(* An iterator knows where its buffers end, and has yielded the lines it   *)
(* has parsed.                                                             *)
Faithful(it) ==
    /\ ~it.bad /\ it.hi = it.next_offset
    /\ Len(it.seen) = IF it.open THEN it.line - 1 ELSE 0
    /\ Len(it.seen) <= Len(arc.lines)
    /\ \A k \in 1..Len(it.seen) : it.seen[k] = arc.lines[k].file
    /\ it.ended => Len(it.seen) = Len(arc.lines)

IterInv == NoGlobals /\ running = None /\ \A i \in Iterators : Faithful(its[i])

LEMMA FaithfulClosed == ASSUME ArchiveOK(arc) PROVE Faithful(Closed)
    BY LengthFacts DEF Faithful, Closed

LEMMA InitIter ==
    ASSUME ArchiveOK(arc), NoGlobals, ReaderInit
    PROVE  IterInv
    BY FaithfulClosed DEF ReaderInit, IterInv

LEMMA IterateIter ==
    ASSUME TypeInv, IterInv, NEW i \in Iterators, Iterate(i)
    PROVE  IterInv'
    <1>1. ArchiveOK(arc) /\ its \in [Iterators -> IteratorType] /\ UNCHANGED <<arc, running>>
        BY TypeFacts DEF Iterate
    <1>2. \E hi : its' = [its EXCEPT ![i] =
                     [Closed EXCEPT !.open = TRUE, !.line = 1, !.cur = arc.idxAt + Head1,
                                    !.hi = hi, !.next_offset = hi]]
        BY DEF Iterate
    <1>3. PICK hi : its' = [its EXCEPT ![i] =
                     [Closed EXCEPT !.open = TRUE, !.line = 1, !.cur = arc.idxAt + Head1,
                                    !.hi = hi, !.next_offset = hi]]
        BY <1>2
    <1> DEFINE new == [Closed EXCEPT !.open = TRUE, !.line = 1, !.cur = arc.idxAt + Head1,
                                     !.hi = hi, !.next_offset = hi]
    <1>4. /\ new.open /\ new.line = 1 /\ new.hi = hi /\ new.next_offset = hi
          /\ ~new.bad /\ new.seen = << >> /\ ~new.ended
        BY DEF Closed
    <1>5. its' = [its EXCEPT ![i] = new]
        BY <1>3
    <1> HIDE DEF new
    <1>6. Faithful(new)
        BY <1>1, <1>4, LengthFacts DEF Faithful
    <1>7. ASSUME NEW j \in Iterators PROVE Faithful(its[j])'
        <2>1. its'[j] = IF j = i THEN new ELSE its[j]
            BY <1>1, <1>5
        <2>2. Faithful(its'[j])
            BY <1>6, <2>1 DEF IterInv
        <2> QED BY <1>1, <2>2 DEF Faithful
    <1> QED BY <1>1, <1>7 DEF IterInv, NoGlobals

LEMMA ParseIter ==
    ASSUME TypeInv, IterInv, NEW i \in Iterators, its[i].open, ~its[i].ended,
           ParseLine(i), UNCHANGED arc
    PROVE  IterInv'
    <1> DEFINE it == its[i]
    <1>1. /\ ArchiveOK(arc) /\ its \in [Iterators -> IteratorType] /\ it \in IteratorType
          /\ it.line > 0 /\ Len(arc.lines) \in Nat
        BY TypeFacts, LengthFacts DEF TypeInv, OneCall
    <1>2. it.line \in Nat /\ it.seen \in Seq(Nat) /\ Len(it.seen) \in Nat
        BY <1>1 DEF IteratorType
    <1>3. Faithful(it)
        BY DEF IterInv
    <1>4. CASE it.line > Len(arc.lines)
        <2> DEFINE new == [it EXCEPT !.ended = TRUE]
        <2>1. its' = [its EXCEPT ![i] = new] /\ running' = None
            BY <1>1, <1>4 DEF ParseLine
        <2>2. /\ new.open = it.open /\ new.line = it.line /\ new.hi = it.hi
              /\ new.next_offset = it.next_offset /\ new.bad = it.bad /\ new.seen = it.seen
            BY <1>1 DEF IteratorType
        <2> HIDE DEF new
        <2>3. Len(it.seen) = Len(arc.lines)
            BY <1>1, <1>2, <1>3, <1>4 DEF Faithful
        <2>4. Faithful(new)
            BY <1>3, <2>2, <2>3 DEF Faithful
        <2>5. ASSUME NEW j \in Iterators PROVE Faithful(its[j])'
            <3>1. its'[j] = IF j = i THEN new ELSE its[j]
                BY <1>1, <2>1
            <3>2. Faithful(its'[j])
                BY <2>4, <3>1 DEF IterInv
            <3> QED BY <3>2 DEF Faithful
        <2> QED BY <2>1, <2>5 DEF IterInv, NoGlobals
    <1>5. CASE ~(it.line > Len(arc.lines))
        <2> DEFINE l == arc.lines[it.line]
        <2>1. it.line \in 1..Len(arc.lines)
            BY <1>1, <1>2, <1>5
        <2>2. ~l.g /\ l.file \in Nat
            BY <1>1, <2>1, LineFacts DEF IterInv, NoGlobals
        <2>3. PICK f \in Fetches(it, l.len) :
                LET hi == IF f.times = 0 THEN it.hi
                          ELSE Upto(it.next_offset + f.times * f.size)
                    cursor == IF f.times = 0 THEN it.next_offset ELSE hi
                    bad == it.bad \/ (f.times > 0 /\ it.hi # it.next_offset)
                IN
                /\ its' = [its EXCEPT ![i] =
                     [it EXCEPT !.line = it.line + 1, !.cur = it.cur + l.len, !.hi = hi,
                                !.bad = bad,
                                !.next_offset = IF l.g THEN it.next_offset ELSE cursor,
                                !.seen = IF l.g THEN it.seen
                                         ELSE Append(it.seen, IF bad THEN 0 ELSE l.file)]]
                /\ running' = IF l.g THEN i ELSE None
            BY <1>1, <1>5 DEF ParseLine, IteratorType
        <2> DEFINE hi == IF f.times = 0 THEN it.hi ELSE Upto(it.next_offset + f.times * f.size)
                   cursor == IF f.times = 0 THEN it.next_offset ELSE hi
                   bad == it.bad \/ (f.times > 0 /\ it.hi # it.next_offset)
                   next == IF l.g THEN it.next_offset ELSE cursor
                   seen == IF l.g THEN it.seen ELSE Append(it.seen, IF bad THEN 0 ELSE l.file)
                   new == [it EXCEPT !.line = it.line + 1, !.cur = it.cur + l.len, !.hi = hi,
                                     !.bad = bad, !.next_offset = next, !.seen = seen]
        <2>4. its' = [its EXCEPT ![i] = new] /\ running' = None
            BY <2>2, <2>3
        <2>5. bad = FALSE /\ hi = cursor
            BY <1>3 DEF Faithful
        <2>6. next = cursor /\ seen = Append(it.seen, l.file)
            BY <2>2, <2>5
        <2> HIDE DEF hi, cursor, bad, next, seen
        <2>7. /\ new.open = it.open /\ new.line = it.line + 1 /\ new.hi = hi
              /\ new.next_offset = next /\ new.bad = bad /\ new.seen = seen
              /\ new.ended = it.ended
            BY <1>1 DEF IteratorType
        <2> HIDE DEF new, l
        <2>8. /\ Len(seen) = Len(it.seen) + 1 /\ seen[Len(it.seen) + 1] = l.file
              /\ \A k \in 1..Len(it.seen) : seen[k] = it.seen[k]
            BY <1>2, <2>2, <2>6, AppendProperties
        <2>9. Len(it.seen) = it.line - 1
            BY <1>3 DEF Faithful
        <2>10. \A k \in 1..Len(seen) : seen[k] = arc.lines[k].file
            <3>1. ASSUME NEW k \in 1..Len(seen) PROVE seen[k] = arc.lines[k].file
                <4>1. CASE k \in 1..Len(it.seen)
                    BY <1>3, <2>8, <4>1 DEF Faithful
                <4>2. CASE k \notin 1..Len(it.seen)
                    <5>1. k = Len(it.seen) + 1 /\ k = it.line
                        BY <1>2, <2>8, <2>9, <4>2
                    <5> QED BY <2>8, <5>1 DEF l
                <4> QED BY <4>1, <4>2
            <3> QED BY <3>1
        <2>11. Len(seen) = it.line /\ Len(seen) <= Len(arc.lines)
            BY <1>2, <2>1, <2>8, <2>9
        <2>12. (it.line + 1) - 1 = it.line
            BY <1>2
        <2>13. Faithful(new)
            BY <2>5, <2>6, <2>7, <2>10, <2>11, <2>12 DEF Faithful
        <2>14. ASSUME NEW j \in Iterators PROVE Faithful(its[j])'
            <3>1. its'[j] = IF j = i THEN new ELSE its[j]
                BY <1>1, <2>4
            <3>2. Faithful(its'[j])
                BY <2>13, <3>1 DEF IterInv
            <3> QED BY <3>2 DEF Faithful
        <2> QED BY <2>4, <2>14 DEF IterInv, NoGlobals
    <1> QED BY <1>4, <1>5

LEMMA NextIter == TypeInv /\ IterInv /\ [Next]_vars => IterInv'
    <1> SUFFICES ASSUME TypeInv, IterInv, [Next]_vars PROVE IterInv'
        OBVIOUS
    <1>1. ASSUME UNCHANGED <<arc, its, running>> PROVE IterInv'
        BY <1>1 DEF IterInv, Faithful, NoGlobals
    <1>2. CASE UNCHANGED vars
        BY <1>1, <1>2 DEF vars
    <1>3. ASSUME NEW i \in Iterators, Iterate(i) PROVE IterInv'
        BY <1>3, IterateIter
    <1>4. ASSUME NEW i \in Iterators, IteratorNext(i) PROVE IterInv'
        BY <1>4, ParseIter DEF IteratorNext
    <1>5. ASSUME NEW i \in Iterators, IteratorGoOn(i) PROVE IterInv'
        BY <1>5, IteratorsAssumption DEF IteratorGoOn, IterInv
    <1>6. ASSUME NEW i \in Iterators, IteratorFree(i) PROVE IterInv'
        <2>1. /\ ArchiveOK(arc) /\ its \in [Iterators -> IteratorType]
              /\ its' = [its EXCEPT ![i] = Closed] /\ UNCHANGED <<arc, running>>
            BY <1>6, TypeFacts DEF IteratorFree
        <2>2. ASSUME NEW j \in Iterators PROVE Faithful(its[j])'
            <3>1. its'[j] = IF j = i THEN Closed ELSE its[j]
                BY <2>1
            <3>2. Faithful(its'[j])
                BY <2>1, <3>1, FaithfulClosed DEF IterInv
            <3> QED BY <2>1, <3>2 DEF Faithful
        <2> QED BY <2>1, <2>2 DEF IterInv, NoGlobals
    <1>7. ASSUME NEW f \in 1..Len(arc.files), ReadMeta(f) PROVE IterInv'
        BY <1>1, <1>7 DEF ReadMeta
    <1>8. CASE EnsureCheckpointSection \/ SeekToCheckpoint \/ SkipToOffset
               \/ ReadHeaders \/ ReadContent
        BY <1>1, <1>8 DEF EnsureCheckpointSection, SeekToCheckpoint, SkipToOffset, ReadHeaders,
                          ReadContent
    <1> QED BY <1>2, <1>3, <1>4, <1>5, <1>6, <1>7, <1>8 DEF Next

(* Without global metadata every line of the index is an entry.            *)
LEMMA AllEntries ==
    ASSUME NoGlobals, ArchiveOK(arc), NEW n \in 0..Len(arc.lines)
    PROVE  EntriesIn(n) = n
    <1>1. n \in Nat
        BY LengthFacts
    <1>2. {k \in 1..n : ~arc.lines[k].g} = 1..n
        <2>1. \A k \in 1..n : k \in 1..Len(arc.lines)
            BY <1>1, LengthFacts
        <2> QED BY <2>1 DEF NoGlobals
    <1>3. Cardinality(1..n) = n
        BY <1>1, FS_Interval
    <1> QED BY <1>2, <1>3 DEF EntriesIn

(* Any number of iterators, read_meta and read_content share the cursor,   *)
(* and every iterator yields the index from its first line to its last.    *)
THEOREM IteratorsTheorem ==
    ASSUME \A a \in Archives : \A k \in 1..Len(a.lines) : ~a.lines[k].g
    PROVE  Spec => []IteratorsFaithful
    <1>1. TypeInv /\ IterInv => IteratorsFaithful
        <2> SUFFICES ASSUME TypeInv, IterInv, NEW i \in Iterators
                     PROVE  LET seen == its[i].seen IN
                            /\ Len(seen) <= EntriesIn(Len(arc.lines))
                            /\ its[i].ended => Len(seen) = EntriesIn(Len(arc.lines))
                            /\ \A k \in 1..Len(arc.lines) :
                                 LET n == EntriesIn(k) IN
                                 ~arc.lines[k].g /\ n <= Len(seen) => seen[n] = arc.lines[k].file
            BY DEF IteratorsFaithful
        <2>1. ArchiveOK(arc) /\ NoGlobals /\ Len(arc.lines) \in Nat
            BY TypeFacts, LengthFacts DEF IterInv
        <2>2. EntriesIn(Len(arc.lines)) = Len(arc.lines)
            BY <2>1, AllEntries
        <2>3. \A k \in 1..Len(arc.lines) : EntriesIn(k) = k
            BY <2>1, AllEntries
        <2>4. Faithful(its[i])
            BY DEF IterInv
        <2>5. Len(its[i].seen) \in Nat
            BY TypeFacts DEF IteratorType
        <2> QED BY <2>1, <2>2, <2>3, <2>4, <2>5 DEF Faithful
    <1>2. TypeInv /\ IterInv /\ [Next]_vars => TypeInv' /\ IterInv'
        BY NextType, NextIter
    <1>3. Init => TypeInv /\ IterInv
        BY InitType, InitIter, ArchivesAssumption DEF Init, NoGlobals
    <1> QED BY <1>1, <1>2, <1>3, PTL DEF Spec
=============================================================================
