------------------------ MODULE ScarRoundTripProofs ------------------------
(***************************************************************************)
(* Theorems about ScarRoundTrip: on an output that takes all of a write or *)
(* nothing, every archive the C writer finishes can be opened, has the     *)
(* form the reader relies on, and reads back as what was written.          *)
(***************************************************************************)
EXTENDS ScarRoundTrip, ScarWriterProofs, WellFoundedInduction

(***************************************************************************)
(* Operators                                                               *)
(***************************************************************************)
(* The natural numbers are well-founded, in the form used below.           *)
LEMMA Descends == \E S : IsWellFoundedOn(S, Nat) /\ \A x, y \in Nat : y < x => <<y, x>> \in S
    <1> DEFINE S == OpToRel(<, Nat)
    <1>1. IsWellFoundedOn(S, Nat)
        BY NatLessThanWellFounded
    <1>2. ASSUME NEW x \in Nat, NEW y \in Nat, y < x PROVE <<y, x>> \in S
        BY <1>2 DEF OpToRel
    <1> QED BY <1>1, <1>2

LEMMA Least ==
    ASSUME NEW T \in SUBSET Nat, T # {}
    PROVE  \E x \in T : \A y \in T : x <= y
    <1>1. PICK S : IsWellFoundedOn(S, Nat) /\ \A x, y \in Nat : y < x => <<y, x>> \in S
        BY Descends
    <1>2. PICK x \in T : \A y \in T : ~(<<y, x>> \in S)
        BY <1>1, WFMin
    <1>3. ASSUME NEW y \in T PROVE x <= y
        <2>1. x \in Nat /\ y \in Nat /\ ~(<<y, x>> \in S)
            BY <1>2
        <2>2. ~(y < x)
            BY <1>1, <2>1
        <2> QED BY <2>1, <2>2
    <1> QED BY <1>3

(* Max of the community modules is what its name says, on a bounded set.   *)
LEMMA MaxFacts ==
    ASSUME NEW b \in Nat, NEW T \in SUBSET (0..b), T # {}
    PROVE  Max(T) \in T /\ \A x \in T : x <= Max(T)
    <1> DEFINE D == {b - x : x \in T}
    <1>1. D \in SUBSET Nat /\ D # {}
        <2>1. \A x \in T : x \in 0..b /\ b - x \in Nat
            OBVIOUS
        <2>2. \A d \in D : d \in Nat
            BY <2>1
        <2>3. PICK x \in T : TRUE
            OBVIOUS
        <2>4. b - x \in D
            OBVIOUS
        <2> QED BY <2>2, <2>4, Zenon
    <1>2. /\ \A d \in D : \E x \in T : d = b - x
          /\ \A x \in T : b - x \in D
        OBVIOUS
    <1> HIDE DEF D
    <1>3. PICK d \in D : \A e \in D : d <= e
        BY <1>1, Least
    <1>4. PICK x \in T : d = b - x
        BY <1>2
    <1>5. ASSUME NEW y \in T PROVE x >= y
        <2>1. b - x <= b - y
            BY <1>2, <1>3, <1>4
        <2>2. x \in Int /\ y \in Int
            OBVIOUS
        <2> QED BY <2>1, <2>2
    <1>6. ASSUME NEW y \in T, \A z \in T : y >= z PROVE \A z \in T : z <= y
        BY <1>6
    <1> QED BY <1>4, <1>5, <1>6 DEF Max

(***************************************************************************)
(* What compressors and output do when no write is short                   *)
(***************************************************************************)
LEMMA DeflateEmits ==
    ASSUME "short" \notin Faults, NEW d \in Deflate(1), d.ok
    PROVE  1 <= d.got /\ d.got <= MaxEmit
    <1> DEFINE Good == [got : 1..MaxEmit, ok : {TRUE}, whole : {TRUE}]
               Err == [got : 0..(MaxEmit - 1), ok : {FALSE}, whole : {FALSE}]
    <1>1. d \in Good \/ d \in Err
        BY DEF Deflate
    <1>2. CASE d \in Good
        BY <1>2, MaxEmitAssumption
    <1>3. CASE d \in Err
        BY <1>3, Zenon
    <1> QED BY <1>1, <1>2, <1>3

(* A stream that was finished has at least a cell, and so has a tail.      *)
LEMMA FinishEmits ==
    ASSUME "short" \notin Faults, Gzip, NEW d \in CompressorFinish, d.ok
    PROVE  1 <= d.got
    BY DeflateEmits DEF CompressorFinish

LEMMA TailEmits ==
    ASSUME "short" \notin Faults, NEW d \in TailOutcomes, d.ok
    PROVE  1 <= d.got /\ d.got <= MaxEmit
    <1>1. CASE Gzip
        BY <1>1, DeflateEmits DEF TailOutcomes
    <1>2. CASE ~Gzip
        <2>1. PICK k \in OutputWrite(1) :
                d = [got |-> IF k < 0 THEN 0 ELSE k, ok |-> k >= 0, whole |-> k = 1]
            BY <1>2 DEF TailOutcomes
        <2>2. k \in Int /\ (k >= 0 => k = 1)
            BY OutputFacts
        <2>3. d.ok = (k >= 0)
            BY <2>1, Zenon
        <2>4. k >= 0
            BY <2>3, Zenon
        <2>5. k = 1 /\ d.got = 1
            BY <2>1, <2>2, <2>4
        <2> QED BY <2>5, MaxEmitAssumption
    <1> QED BY <1>1, <1>2, GzipAssumption

-----------------------------------------------------------------------------
(***************************************************************************)
(* The output and the compressed streams                                   *)
(***************************************************************************)
(* The output only grows.                                                  *)
LEMMA OutputGrows ==
    ASSUME TypeInv, [Next]_vars
    PROVE  devLen \in Nat /\ devLen' \in Nat /\ devLen' >= devLen
    <1>0. Scalars /\ devLen \in Nat
        BY DEF TypeInv, TypeData, Scalars
    <1>1. CASE CreateCheckpoint \/ CloseBody
        <2>1. PICK d \in CompressorFinish : devLen' = devLen + d.got
            BY <1>1, Zenon DEF CreateCheckpoint, Flushed, CloseBody
        <2>2. d.got \in Nat
            BY FinishFacts
        <2> QED BY <1>0, <2>1, <2>2
    <1>2. CASE PaxWrite
        <2>1. PICK o \in CompressorWrite(Head(todo).n) : devLen' = devLen + o.got
            BY <1>2, Zenon DEF PaxWrite, Wrote
        <2>2. Head(todo).n \in Nat
            BY <1>2, HeadTailType DEF PaxWrite, TypeInv, TypeData, Control
        <2>3. o.got \in Nat
            BY <2>2, WriteFacts
        <2> QED BY <1>0, <2>1, <2>3
    <1>3. CASE WriteIndexSection \/ WriteCheckpointsSection \/ WriteEofMarker
        <2>1. \E n \in Nat : \E got \in OutputWrite(n) :
                devLen' = IF got > 0 THEN devLen + got ELSE devLen
            <3>1. /\ \A len \in SectionLengths(Len(idxLines)) : len \in Nat
                  /\ \A len \in SectionLengths(Len(ckLines)) : len \in Nat
                BY SectionFacts DEF TypeInv, TypeData, Buffers
            <3>2. CASE WriteIndexSection
                BY <3>1, <3>2, Zenon DEF WriteIndexSection
            <3>3. CASE WriteCheckpointsSection
                BY <3>1, <3>3, Zenon DEF WriteCheckpointsSection
            <3>4. CASE WriteEofMarker
                BY <3>4 DEF WriteEofMarker
            <3> QED BY <1>3, <3>2, <3>3, <3>4
        <2>2. PICK n \in Nat : \E got \in OutputWrite(n) :
                devLen' = IF got > 0 THEN devLen + got ELSE devLen
            BY <2>1
        <2>3. PICK got \in OutputWrite(n) :
                devLen' = IF got > 0 THEN devLen + got ELSE devLen
            BY <2>2
        <2>4. got \in Int
            BY OutputFacts
        <2> QED BY <1>0, <2>3, <2>4
    <1>4. CASE WriteTail
        <2>1. PICK d \in TailOutcomes : devLen' = devLen + d.got
            BY <1>4, Zenon DEF WriteTail
        <2>2. d.got \in Nat
            BY TailFacts
        <2> QED BY <1>0, <2>1, <2>2
    <1>5. CASE UNCHANGED devLen
        BY <1>0, <1>5
    <1> QED BY <1>1, <1>2, <1>3, <1>4, <1>5, Zenon
            DEF Next, CallStep, WriteEntry, WriteIndexLine, ContentShort, Finish, vars

(* A checkpoint that was created ended a stream, which is not empty.       *)
LEMMA FlushEffect ==
    ASSUME "short" \notin Faults, [Next]_vars
    PROVE  \/ UNCHANGED <<ckLines, streams>>
           \/ \E got \in Nat : Checkpointed(got) /\ (Gzip => got >= 1)
    <1>1. CASE CreateCheckpoint
        <2>1. PICK d \in CompressorFinish : Flushed(d)
            BY <1>1 DEF CreateCheckpoint
        <2>2. CASE d.ok
            <3>1. Checkpointed(d.got)
                BY <1>1, <2>1, <2>2, Zenon DEF CreateCheckpoint, Flushed, Checkpointed
            <3>2. d.got \in Nat /\ (Gzip => d.got >= 1)
                BY <2>2, FinishFacts, FinishEmits
            <3> QED BY <3>1, <3>2
        <2>3. CASE ~d.ok
            BY <2>1, <2>3, Zenon DEF Flushed
        <2> QED BY <2>2, <2>3
    <1>2. CASE UNCHANGED <<ckLines, streams>>
        BY <1>2
    <1> QED BY <1>1, <1>2, Zenon
            DEF Next, CallStep, WriteEntry, WriteIndexLine, PaxWrite, ContentShort, Finish,
                CloseBody, WriteIndexSection, WriteCheckpointsSection, WriteTail,
                WriteEofMarker, vars

(* The streams lie on the output one behind the other.                     *)
StreamsApart ==
    /\ Len(streams) >= 1 /\ streams[1] = [at |-> 0, raw |-> 0]
    /\ \A i \in 1..Len(streams) : streams[i].at <= devLen
    /\ \A i, j \in 1..Len(streams) : i < j => streams[i].at < streams[j].at

LEMMA StreamsStep ==
    ASSUME "short" \notin Faults, TypeInv, StreamsApart, [Next]_vars
    PROVE  StreamsApart'
    <1>0. /\ streams \in Seq([at : Nat, raw : Nat]) /\ Len(streams) \in Nat
          /\ devLen \in Nat /\ devLen' \in Nat /\ devLen' >= devLen
        BY OutputGrows DEF TypeInv, TypeData, Buffers
    <1>1. \A i \in 1..Len(streams) : streams[i].at \in Nat /\ streams[i].at <= devLen'
        <2>1. ASSUME NEW i \in 1..Len(streams)
              PROVE  streams[i].at \in Nat /\ streams[i].at <= devLen'
            <3>1. streams[i] \in [at : Nat, raw : Nat]
                BY <1>0, ElementOfSeq
            <3>2. streams[i].at \in Nat /\ streams[i].at <= devLen
                BY <3>1 DEF StreamsApart
            <3> QED BY <1>0, <3>2
        <2> QED BY <2>1
    <1>2. CASE UNCHANGED streams
        BY <1>1, <1>2 DEF StreamsApart
    <1>3. ASSUME NEW got \in Nat, Checkpointed(got), got >= 1, Gzip PROVE StreamsApart'
        <2> DEFINE e == [at |-> devLen', raw |-> RawLen]
        <2>1. RawLen \in Nat
            BY RawLenFacts DEF TypeInv, TypeData, Buffers
        <2>2. e \in [at : Nat, raw : Nat] /\ e.at = devLen'
            BY <1>0, <2>1
        <2>3. streams' = Append(streams, e) /\ devLen' = devLen + got
            BY <1>3 DEF Checkpointed
        <2> HIDE DEF e
        <2>4. /\ Len(streams') = Len(streams) + 1
              /\ streams'[Len(streams) + 1] = e
              /\ \A i \in 1..Len(streams) : streams'[i] = streams[i]
            BY <1>0, <2>2, <2>3, AppendFacts
        <2>5. Len(streams') >= 1 /\ streams'[1] = [at |-> 0, raw |-> 0]
            BY <1>0, <2>4 DEF StreamsApart
        <2>6. ASSUME NEW i \in 1..Len(streams') PROVE streams'[i].at <= devLen'
            <3>1. CASE i \in 1..Len(streams)
                BY <1>1, <2>4, <3>1
            <3>2. CASE i = Len(streams) + 1
                BY <1>0, <2>2, <2>4, <3>2
            <3> QED BY <1>0, <2>4, <3>1, <3>2
        <2>7. ASSUME NEW i \in 1..Len(streams'), NEW j \in 1..Len(streams'), i < j
              PROVE  streams'[i].at < streams'[j].at
            <3>1. i \in 1..Len(streams) /\ streams'[i] = streams[i]
                BY <1>0, <2>4, <2>7
            <3>2. CASE j \in 1..Len(streams)
                BY <2>4, <2>7, <3>1, <3>2 DEF StreamsApart
            <3>3. CASE j = Len(streams) + 1
                <4>1. streams[i].at <= devLen /\ streams[i].at \in Nat
                    BY <1>1, <3>1 DEF StreamsApart
                <4> QED BY <1>0, <1>3, <2>2, <2>3, <2>4, <3>1, <3>3, <4>1
            <3> QED BY <1>0, <2>4, <3>2, <3>3
        <2> QED BY <2>5, <2>6, <2>7 DEF StreamsApart
    <1>4. ASSUME NEW got \in Nat, Checkpointed(got), ~Gzip PROVE UNCHANGED streams
        BY <1>4 DEF Checkpointed
    <1> QED BY <1>2, <1>3, <1>4, FlushEffect, GzipAssumption

LEMMA StreamsInit == Init => StreamsApart
    BY DEF Init, StreamsApart

-----------------------------------------------------------------------------
(***************************************************************************)
(* The tar stream between the checkpoints                                  *)
(***************************************************************************)
(* Only the pax writer adds to the tar stream.                             *)
Grown ==
    /\ pc \in {"pax", "end"}
    /\ UNCHANGED <<ckLines, idxLines, metas>>
    /\ \E n \in Nat, part \in Parts :
         body' = Append(body, [entry |-> IF pc = "pax" THEN Len(metas) ELSE 0,
                               part |-> part, at |-> RawLen, n |-> n])

LEMMA BodyEffect ==
    ASSUME TypeInv, [Next]_vars
    PROVE  UNCHANGED body \/ Grown
    <1>1. CASE PaxWrite
        <2> DEFINE w == Head(todo)
        <2>1. w.n \in Nat /\ w.part \in Parts
            BY <1>1, HeadTailType DEF PaxWrite, TypeInv, TypeData, Control
        <2>2. PICK o \in CompressorWrite(w.n) : Wrote(w, o)
            BY <1>1 DEF PaxWrite
        <2>3. o.raw \in Nat
            BY <2>1, WriteFacts
        <2>4. \/ UNCHANGED body
              \/ body' = Append(body, [entry |-> IF pc = "pax" THEN Len(metas) ELSE 0,
                                       part |-> w.part, at |-> RawLen, n |-> o.raw])
            BY <2>2, Zenon DEF Wrote
        <2> HIDE DEF w
        <2> QED BY <1>1, <2>1, <2>3, <2>4 DEF PaxWrite, Grown
    <1>2. CASE UNCHANGED body
        BY <1>2
    <1> QED BY <1>1, <1>2, Zenon
            DEF Next, CallStep, WriteEntry, CreateCheckpoint, WriteIndexLine, ContentShort,
                Finish, CloseBody, WriteIndexSection, WriteCheckpointsSection, WriteTail,
                WriteEofMarker, vars

(* How an entry comes to be written.                                       *)
LEMMA PaxEffect ==
    ASSUME [Next]_vars, pc' = "pax"
    PROVE  Indexed \/ (pc = "pax" /\ UNCHANGED <<ckLines, idxLines>>)
    <1>1. ASSUME Fail PROVE FALSE
        BY <1>1, Zenon DEF Fail
    <1>2. ASSUME NEW m \in Metas, WriteEntry(m) PROVE FALSE
        BY <1>2, Zenon DEF WriteEntry
    <1>3. ~CreateCheckpoint
        BY <1>1, Zenon DEF CreateCheckpoint, Flushed
    <1>4. CASE WriteIndexLine
        BY <1>4 DEF WriteIndexLine, Indexed
    <1>5. CASE PaxWrite
        <2>1. pc' = pc \/ pc' \in {"ready", "close"}
            BY <1>1, <1>5, Zenon DEF PaxWrite, Wrote
        <2> QED BY <1>5, <2>1 DEF PaxWrite
    <1>6. ~ContentShort
        BY <1>1, Zenon DEF ContentShort
    <1>7. ~Finish
        BY DEF Finish
    <1>8. ~CloseBody /\ ~WriteIndexSection /\ ~WriteCheckpointsSection /\ ~WriteTail
          /\ ~WriteEofMarker
        BY <1>1, Zenon DEF CloseBody, WriteIndexSection, WriteCheckpointsSection, WriteTail,
                           WriteEofMarker
    <1>9. CASE UNCHANGED vars
        BY <1>9 DEF vars
    <1> QED BY <1>2, <1>3, <1>4, <1>5, <1>6, <1>7, <1>8, <1>9 DEF Next, CallStep

(* No piece reaches past the end of the stream, and no checkpoint lies     *)
(* between the offset of an entry and the end of one of its pieces.        *)
Clear(u, k, j) ==
    body[j].entry = k => u <= idxLines[k].off \/ body[j].at + body[j].n <= u
CkApart ==
    /\ \A j \in 1..Len(body) : body[j].at + body[j].n <= RawLen
    /\ \A i \in 1..Len(ckLines), k \in 1..Len(idxLines), j \in 1..Len(body) :
         Clear(ckLines[i].u, k, j)
    /\ pc = "pax" => \A i \in 1..Len(ckLines) : ckLines[i].u <= idxLines[Len(idxLines)].off

LEMMA NatLines ==
    ASSUME TypeInv
    PROVE  /\ Len(body) \in Nat /\ Len(ckLines) \in Nat /\ Len(idxLines) \in Nat
           /\ Len(metas) \in Nat /\ RawLen \in Nat
           /\ ucount \in Nat /\ ccount \in Nat /\ lastCk \in Nat /\ devLen \in Nat
           /\ \A j \in 1..Len(body) : body[j].at \in Nat /\ body[j].n \in Nat
                                      /\ body[j].entry \in Nat /\ body[j].part \in Parts
           /\ \A i \in 1..Len(ckLines) : ckLines[i].u \in Nat /\ ckLines[i].c \in Nat
           /\ \A k \in 1..Len(idxLines) : idxLines[k].off \in Nat
    <1>1. /\ body \in Seq(Piece) /\ ckLines \in Seq(CkLine) /\ idxLines \in Seq(IndexLine)
          /\ metas \in Seq(Metas)
          /\ ucount \in Nat /\ ccount \in Nat /\ lastCk \in Nat /\ devLen \in Nat
        BY DEF TypeInv, TypeData, Buffers, Scalars
    <1>2. RawLen \in Nat
        BY <1>1, RawLenFacts
    <1>3. ASSUME NEW j \in 1..Len(body)
          PROVE  /\ body[j].at \in Nat /\ body[j].n \in Nat
                 /\ body[j].entry \in Nat /\ body[j].part \in Parts
        <2>1. body[j] \in Piece
            BY <1>1, ElementOfSeq
        <2> QED BY <2>1 DEF Piece
    <1>4. ASSUME NEW i \in 1..Len(ckLines)
          PROVE  ckLines[i].u \in Nat /\ ckLines[i].c \in Nat
        <2>1. ckLines[i] \in CkLine
            BY <1>1, ElementOfSeq
        <2> QED BY <2>1 DEF CkLine
    <1>5. ASSUME NEW k \in 1..Len(idxLines) PROVE idxLines[k].off \in Nat
        <2>1. idxLines[k] \in IndexLine
            BY <1>1, ElementOfSeq
        <2> QED BY <2>1 DEF IndexLine
    <1> QED BY <1>1, <1>2, <1>3, <1>4, <1>5

LEMMA ApartCheckpointed ==
    ASSUME TypeInv, Counts, CkApart, NEW got \in Nat, Checkpointed(got)
    PROVE  CkApart'
    <1>1. /\ pc' = "index" /\ UNCHANGED <<body, idxLines>> /\ ucount = RawLen
        BY DEF Checkpointed, Counts
    <1>2. RawLen' = RawLen
        BY <1>1 DEF RawLen
    <1>3. ASSUME NEW i \in 1..Len(ckLines'), NEW k \in 1..Len(idxLines),
                 NEW j \in 1..Len(body), body[j].entry = k
          PROVE  ckLines'[i].u <= idxLines[k].off \/ body[j].at + body[j].n <= ckLines'[i].u
        <2>1. CASE i \in 1..Len(ckLines)
            BY <1>3, <2>1, NewCheckpoint DEF CkApart, Clear
        <2>2. CASE i = Len(ckLines) + 1
            BY <1>1, <2>2, NewCheckpoint DEF CkApart
        <2> QED BY <2>1, <2>2, NewCheckpoint
    <1> QED BY <1>1, <1>2, <1>3 DEF CkApart, Clear

LEMMA ApartIndexed ==
    ASSUME TypeInv, Counts, CkBounds, IdxInv, CkApart, Indexed
    PROVE  CkApart'
    <1>1. /\ pc' = "pax" /\ UNCHANGED <<body, ckLines>>
          /\ Untouched /\ Len(metas) = Len(idxLines) + 1
        BY DEF Indexed, IdxInv, PiecesNumbered, LinesCounted
    <1>2. RawLen' = RawLen
        BY <1>1 DEF RawLen
    <1>3. /\ Len(idxLines) \in Nat /\ Len(idxLines') = Len(idxLines) + 1
          /\ \A k \in 1..Len(idxLines) : idxLines'[k] = idxLines[k]
          /\ idxLines'[Len(idxLines) + 1].off = ucount
        BY NewIndexLine
    <1>4. ASSUME NEW i \in 1..Len(ckLines) PROVE ckLines[i].u <= ucount
        <2>1. ckLines[i].u <= lastCk /\ lastCk <= ucount
            BY DEF CkBounds
        <2> QED BY <2>1, NatLines
    <1>5. ASSUME NEW i \in 1..Len(ckLines), NEW k \in 1..Len(idxLines'),
                 NEW j \in 1..Len(body), body[j].entry = k
          PROVE  ckLines[i].u <= idxLines'[k].off \/ body[j].at + body[j].n <= ckLines[i].u
        <2>1. body[j].entry < Len(metas)
            BY <1>1 DEF Untouched
        <2>2. k \in 1..Len(idxLines)
            BY <1>1, <1>3, <1>5, <2>1
        <2> QED BY <1>3, <1>5, <2>2 DEF CkApart, Clear
    <1> QED BY <1>1, <1>2, <1>3, <1>4, <1>5 DEF CkApart, Clear

LEMMA ApartGrown ==
    ASSUME TypeInv, IdxInv, CkApart, Grown, pc' = "pax" => pc = "pax"
    PROVE  CkApart'
    <1>1. UNCHANGED <<ckLines, idxLines, metas>> /\ pc \in {"pax", "end"}
        BY DEF Grown
    <1>2. PICK n \in Nat, part \in Parts :
            body' = Append(body, [entry |-> IF pc = "pax" THEN Len(metas) ELSE 0,
                                  part |-> part, at |-> RawLen, n |-> n])
        BY DEF Grown
    <1> DEFINE e == IF pc = "pax" THEN Len(metas) ELSE 0
               piece == [entry |-> e, part |-> part, at |-> RawLen, n |-> n]
    <1>3. piece \in Piece /\ piece.entry = e /\ piece.at = RawLen /\ piece.n = n
        BY NatLines DEF Piece
    <1>4. body' = Append(body, piece)
        BY <1>2
    <1>5. RawLen' = RawLen + n
        BY <1>2, RawLenFacts DEF TypeInv, TypeData, Buffers
    <1> HIDE DEF piece
    <1>6. /\ Len(body') = Len(body) + 1 /\ body'[Len(body) + 1] = piece
          /\ \A j \in 1..Len(body) : body'[j] = body[j]
        BY <1>3, <1>4, AppendFacts DEF TypeInv, TypeData, Buffers
    <1>7. \A j \in 1..Len(body') : j \in 1..Len(body) \/ j = Len(body) + 1
        BY <1>6, NatLines
    <1>8. ASSUME NEW j \in 1..Len(body') PROVE body'[j].at + body'[j].n <= RawLen'
        <2>1. CASE j \in 1..Len(body)
            <3>1. body[j].at + body[j].n <= RawLen /\ body'[j] = body[j]
                BY <1>6, <2>1 DEF CkApart
            <3>2. body[j].at \in Nat /\ body[j].n \in Nat /\ RawLen \in Nat
                BY <2>1, NatLines
            <3> QED BY <1>5, <3>1, <3>2
        <2>2. CASE j = Len(body) + 1
            <3>1. body'[j].at = RawLen /\ body'[j].n = n
                BY <1>3, <1>6, <2>2
            <3> QED BY <1>5, <3>1, NatLines
        <2> QED BY <1>7, <2>1, <2>2, Zenon
    <1>9. ASSUME NEW i \in 1..Len(ckLines), NEW k \in 1..Len(idxLines),
                 NEW j \in 1..Len(body'), body'[j].entry = k
          PROVE  ckLines[i].u <= idxLines[k].off \/ body'[j].at + body'[j].n <= ckLines[i].u
        <2>1. CASE j \in 1..Len(body)
            BY <1>6, <1>9, <2>1 DEF CkApart, Clear
        <2>2. CASE j = Len(body) + 1
            <3>1. k = e
                BY <1>3, <1>6, <1>9, <2>2
            <3>2. pc = "pax" /\ k = Len(idxLines)
                BY <1>1, <3>1, NatLines DEF IdxInv, LinesCounted
            <3>3. ckLines[i].u <= idxLines[k].off
                BY <3>2, Zenon DEF CkApart
            <3> QED BY <3>3, Zenon
        <2> QED BY <1>7, <2>1, <2>2, Zenon
    <1>10. pc' = "pax" => \A i \in 1..Len(ckLines) : ckLines[i].u <= idxLines[Len(idxLines)].off
        BY DEF CkApart
    <1> QED BY <1>1, <1>8, <1>9, <1>10 DEF CkApart, Clear

LEMMA ApartStep ==
    ASSUME TypeInv, Counts, CkBounds, IdxInv, CkApart, [Next]_vars
    PROVE  CkApart'
    <1>1. CASE Indexed
        BY <1>1, ApartIndexed
    <1>2. ASSUME NEW got \in Nat, Checkpointed(got) PROVE CkApart'
        BY <1>2, ApartCheckpointed
    <1>3. pc' = "pax" => pc = "pax" \/ Indexed
        BY PaxEffect
    <1>4. CASE Grown
        BY <1>1, <1>3, <1>4, ApartGrown
    <1>5. CASE ~Indexed /\ UNCHANGED <<body, idxLines, ckLines>>
        <2>1. RawLen' = RawLen
            BY <1>5 DEF RawLen
        <2> QED BY <1>3, <1>5, <2>1 DEF CkApart, Clear
    <1> QED BY <1>1, <1>2, <1>4, <1>5, BodyEffect, IndexEffect, CheckpointEffect

LEMMA ApartInit == Init => CkApart
    BY DEF Init, CkApart

-----------------------------------------------------------------------------
(***************************************************************************)
(* The trailing sections                                                   *)
(***************************************************************************)
(* Every section has begun before the next one, the last before the        *)
(* marker; the tail is no longer than what deflate puts out at once.       *)
Sections ==
    /\ pc \in Trailing => tail.index = ccount /\ ccount < tail.checkpoints
    /\ pc \in {"tail section", "eof", "done"} => tail.checkpoints < devLen
    /\ pc = "eof" =>
         layout.tail \in Nat /\ layout.tail < devLen /\ devLen <= layout.tail + MaxEmit
    /\ pc = "done" =>
         layout.tail \in Nat /\ layout.tail < layout.eof /\ layout.eof <= layout.tail + MaxEmit

LEMMA SectionsStep ==
    ASSUME "short" \notin Faults, TypeInv, TailInv, Sections, [Next]_vars
    PROVE  Sections'
    <1>0. /\ devLen \in Nat /\ devLen' \in Nat /\ devLen' >= devLen /\ ccount \in Nat
          /\ layout \in [index : Int, checkpoints : Int, tail : Int, eof : Int]
          /\ tail \in [index : Int, checkpoints : Int]
          /\ tail.checkpoints \in Int /\ layout.tail \in Int
          /\ MaxEmit \in Nat
        BY OutputGrows, MaxEmitAssumption DEF TypeInv, TypeData, Positions, Scalars
    <1>1. ASSUME pc' \notin Trailing PROVE Sections'
        BY <1>1 DEF Sections, Trailing
    <1>2. ASSUME Fail PROVE Sections'
        <2>1. pc' = "failed" \/ pc' = "ready"
            BY <1>2, Zenon DEF Fail
        <2> QED BY <1>1, <2>1 DEF Trailing
    <1>3. ASSUME NEW m \in Metas, WriteEntry(m) PROVE Sections'
        BY <1>1, <1>3 DEF WriteEntry, Trailing
    <1>4. CASE CreateCheckpoint \/ WriteIndexLine \/ PaxWrite \/ ContentShort \/ Finish
               \/ CloseBody
        <2>1. Fail \/ pc' \in {"index", "pax", "end", "ready", "close", "index section"}
            BY <1>4, Zenon DEF CreateCheckpoint, Flushed, WriteIndexLine, PaxWrite, Wrote,
                               ContentShort, Finish, CloseBody
        <2> QED BY <1>1, <1>2, <2>1 DEF Trailing
    <1>5. CASE WriteIndexSection
        <2>1. PICK len \in SectionLengths(Len(idxLines)) :
                /\ tail' = [index |-> ccount, checkpoints |-> ccount + len]
                /\ Fail \/ pc' = "checkpoints section"
            BY <1>5, Zenon DEF WriteIndexSection
        <2>2. len \in Nat \ {0}
            BY SectionFacts DEF TypeInv, TypeData, Buffers
        <2>3. ccount' = ccount
            BY <1>5 DEF WriteIndexSection
        <2>4. tail'.index = ccount /\ tail'.checkpoints = ccount + len
            BY <2>1
        <2>5. tail'.index = ccount' /\ ccount' < tail'.checkpoints
            BY <1>0, <2>2, <2>3, <2>4
        <2>6. CASE pc' = "checkpoints section"
            BY <2>5, <2>6 DEF Sections
        <2> QED BY <1>2, <2>1, <2>6
    <1>6. CASE WriteCheckpointsSection
        <2>1. PICK len \in SectionLengths(Len(ckLines)) : \E got \in OutputWrite(len) :
                /\ devLen' = IF got > 0 THEN devLen + got ELSE devLen
                /\ Fail \/ (~(got < len) /\ pc' = "tail section")
            BY <1>6, Zenon DEF WriteCheckpointsSection
        <2>2. len \in Nat \ {0}
            BY SectionFacts DEF TypeInv, TypeData, Buffers
        <2>3. PICK got \in OutputWrite(len) :
                /\ devLen' = IF got > 0 THEN devLen + got ELSE devLen
                /\ Fail \/ (~(got < len) /\ pc' = "tail section")
            BY <2>1
        <2>4. got \in Int
            BY <2>2, OutputFacts
        <2>5. pc = "checkpoints section" /\ UNCHANGED <<ccount, tail>>
            BY <1>6 DEF WriteCheckpointsSection
        <2>6. /\ tail.checkpoints = devLen /\ tail.index = ccount
              /\ ccount < tail.checkpoints
            BY <2>5 DEF TailInv, Sections, Trailing
        <2>7. CASE ~(got < len) /\ pc' = "tail section"
            <3>1. devLen < devLen'
                <4>1. ~(got < len)
                    BY <2>7
                <4>2. got > 0
                    BY <2>2, <2>4, <4>1
                <4>3. devLen' = devLen + got
                    BY <2>3, <4>2
                <4> QED BY <1>0, <2>4, <4>2, <4>3
            <3> QED BY <2>5, <2>6, <2>7, <3>1 DEF Sections
        <2> QED BY <1>2, <2>3, <2>7
    <1>7. CASE WriteTail
        <2>1. PICK d \in TailOutcomes :
                /\ devLen' = devLen + d.got
                /\ Fail \/ (d.ok /\ pc' = "eof")
            BY <1>7, Zenon DEF WriteTail
        <2>2. /\ pc = "tail section" /\ UNCHANGED <<ccount, tail>>
              /\ layout' = [layout EXCEPT !.tail = devLen]
            BY <1>7 DEF WriteTail
        <2>3. layout'.tail = devLen
            BY <1>0, <2>2
        <2>4. CASE d.ok /\ pc' = "eof"
            <3>1. d.got \in Nat /\ 1 <= d.got /\ d.got <= MaxEmit
                BY <2>4, TailFacts, TailEmits
            <3>2. layout'.tail < devLen' /\ devLen' <= layout'.tail + MaxEmit
                BY <1>0, <2>1, <2>3, <3>1
            <3>3. tail.index = ccount /\ ccount < tail.checkpoints /\ tail.checkpoints < devLen
                BY <2>2 DEF Sections, Trailing
            <3>4. tail.checkpoints < devLen'
                BY <1>0, <3>3
            <3> QED BY <1>0, <2>2, <2>3, <2>4, <3>2, <3>3, <3>4 DEF Sections
        <2> QED BY <1>2, <2>1, <2>4
    <1>8. CASE WriteEofMarker
        <2>1. Fail \/ pc' = "done"
            BY <1>8, Zenon DEF WriteEofMarker
        <2>2. /\ pc = "eof" /\ UNCHANGED <<ccount, tail>>
              /\ layout' = [layout EXCEPT !.eof = devLen]
            BY <1>8 DEF WriteEofMarker
        <2>3. layout'.tail = layout.tail /\ layout'.eof = devLen
            BY <1>0, <2>2
        <2>4. CASE pc' = "done"
            <3>1. /\ tail.index = ccount /\ ccount < tail.checkpoints
                  /\ tail.checkpoints < devLen
                  /\ layout.tail \in Nat /\ layout.tail < devLen
                  /\ devLen <= layout.tail + MaxEmit
                BY <2>2 DEF Sections, Trailing
            <3>2. tail.checkpoints < devLen'
                BY <1>0, <3>1
            <3> QED BY <2>2, <2>3, <2>4, <3>1, <3>2 DEF Sections
        <2> QED BY <1>2, <2>1, <2>4
    <1>9. CASE UNCHANGED vars
        BY <1>9 DEF vars, Sections
    <1> QED BY <1>3, <1>4, <1>5, <1>6, <1>7, <1>8, <1>9 DEF Next, CallStep

LEMMA SectionsInit == Init => Sections /\ TailInv
    BY DEF Init, Sections, TailInv, Trailing

(* A writer that has finished does not move any more.                      *)
LEMMA DoneStays ==
    ASSUME pc = "done", [Next]_vars
    PROVE  UNCHANGED vars
    BY Zenon DEF Next, CallStep, WriteEntry, MayCall, CreateCheckpoint, WriteIndexLine, PaxWrite,
             ContentShort, Finish, CloseBody, WriteIndexSection, WriteCheckpointsSection,
             WriteTail, WriteEofMarker

(* All of this holds of the writer, and together it goes on holding.       *)
WInv ==
    /\ TypeInv /\ Counts /\ CkBounds /\ CheckpointsSorted /\ CheckpointsSound
    /\ SeekBounded /\ IdxInv /\ TailInv /\ StreamsApart /\ CkApart /\ Sections

LEMMA WInit == Init => WInv
    BY TypeInit, CountsInit, CkBoundsInit, CkInit, IdxInit, SectionsInit, StreamsInit, ApartInit
       DEF WInv

LEMMA WStep ==
    ASSUME "short" \notin Faults, WInv, [Next]_vars
    PROVE  WInv'
    BY TypeStep, CountsStep, CkBoundsStep, SortedStep, SoundStep, SeekStep, IdxStep, TailStep,
       StreamsStep, ApartStep, SectionsStep DEF WInv

-----------------------------------------------------------------------------
(***************************************************************************)
(* The finished archive                                                    *)
(***************************************************************************)
LEMMA EndsFacts ==
    ASSUME TypeInv, CkApart, NEW e, NEW parts
    PROVE  Ends(e, parts) \in SUBSET (0..RawLen)
    <1>1. ASSUME NEW j \in 1..Len(body) PROVE body[j].at + body[j].n \in 0..RawLen
        <2>1. body[j].at \in Nat /\ body[j].n \in Nat /\ RawLen \in Nat
            BY NatLines
        <2>2. body[j].at + body[j].n <= RawLen
            BY DEF CkApart
        <2> QED BY <2>1, <2>2
    <1> QED BY <1>1 DEF Ends

(* An index line's offset lies in the stream.                              *)
LEMMA LineInStream ==
    ASSUME TypeInv, IdxInv, CkApart, NEW k \in 1..Len(idxLines)
    PROVE  idxLines[k].off \in 0..RawLen
    <1>1. idxLines[k].off \in Nat /\ RawLen \in Nat
        BY NatLines
    <1>2. CASE LineOpened(idxLines[k], body)
        <2>1. PICK j \in 1..Len(body) : body[j].at = idxLines[k].off
            BY <1>2 DEF LineOpened
        <2>2. body[j].at + body[j].n <= RawLen /\ body[j].at \in Nat /\ body[j].n \in Nat
            BY NatLines DEF CkApart
        <2> QED BY <1>1, <2>1, <2>2
    <1>3. CASE idxLines[k].off = RawLen
        BY <1>1, <1>3
    <1> QED BY <1>2, <1>3 DEF IdxInv, LinesPlaced

(* Its headers end behind it, and its content behind them, where a piece   *)
(* of the entry ends.                                                      *)
LEMMA EntryFacts ==
    ASSUME TypeInv, IdxInv, CkApart, NEW k \in 1..Len(idxLines)
    PROVE  LET l == idxLines[k] IN
           /\ l.off <= HeadersEnd(l) /\ HeadersEnd(l) <= EntryEnd(l)
           /\ HeadersEnd(l) \in Nat /\ EntryEnd(l) \in 0..RawLen
           /\ \/ EntryEnd(l) = l.off
              \/ \E j \in 1..Len(body) : body[j].entry = l.entry
                                         /\ EntryEnd(l) = body[j].at + body[j].n
    <1> DEFINE l == idxLines[k]
               H == {l.off} \cup Ends(l.entry, Parts \ {"data"})
               E == {HeadersEnd(l)} \cup Ends(l.entry, {"data"})
    <1>1. l.off \in 0..RawLen /\ RawLen \in Nat
        BY LineInStream, NatLines
    <1>2. H \in SUBSET (0..RawLen) /\ H # {}
        BY <1>1, EndsFacts
    <1>3. HeadersEnd(l) = Max(H)
        BY DEF HeadersEnd
    <1>4. HeadersEnd(l) \in H /\ \A x \in H : x <= HeadersEnd(l)
        BY <1>1, <1>2, <1>3, MaxFacts
    <1>5. HeadersEnd(l) \in 0..RawLen
        BY <1>2, <1>4
    <1>6. E \in SUBSET (0..RawLen) /\ E # {}
        BY <1>5, EndsFacts
    <1>7. EntryEnd(l) = Max(E)
        BY DEF EntryEnd
    <1>8. EntryEnd(l) \in E /\ \A x \in E : x <= EntryEnd(l)
        BY <1>1, <1>6, <1>7, MaxFacts
    <1>9. EntryEnd(l) \in 0..RawLen
        BY <1>6, <1>8
    <1>10. EntryEnd(l) \in {l.off} \cup Ends(l.entry, Parts \ {"data"})
                                  \cup Ends(l.entry, {"data"})
        BY <1>4, <1>8, Zenon
    <1>11. \/ EntryEnd(l) = l.off
           \/ \E j \in 1..Len(body) : body[j].entry = l.entry
                                      /\ EntryEnd(l) = body[j].at + body[j].n
        BY <1>10 DEF Ends
    <1>12. l.off <= HeadersEnd(l) /\ HeadersEnd(l) <= EntryEnd(l)
        BY <1>4, <1>8
    <1> QED BY <1>5, <1>9, <1>11, <1>12

RP == INSTANCE ScarReaderProofs WITH Archives <- {}, IoFaults <- FALSE, pc <- rpc

(* What a reader takes for granted of an archive is so of this one.        *)
LEMMA WrittenOK ==
    ASSUME WInv, pc = "done"
    PROVE  RP!ArchiveOK(Written)
    <1>1. /\ TypeInv /\ IdxInv /\ CkApart /\ Sections /\ TailInv /\ StreamsApart
          /\ CkBounds /\ CheckpointsSorted /\ CheckpointsSound
        BY DEF WInv
    <1>2. /\ Written.gzip = Gzip /\ Written.streams = streams /\ Written.cks = ckLines
          /\ Written.bodyLen = RawLen
          /\ Written.idxAt = tail.index /\ Written.ckAt = tail.checkpoints
          /\ Written.devLen = devLen
          /\ Written.files = [k \in 1..Len(idxLines) |->
                  [off |-> idxLines[k].off,
                   header |-> HeadersEnd(idxLines[k]) - idxLines[k].off,
                   data |-> EntryEnd(idxLines[k]) - HeadersEnd(idxLines[k])]]
          /\ Written.lines = [k \in 1..Len(idxLines) |-> [g |-> FALSE, file |-> k, len |-> 1]]
        BY DEF Written
    <1>3. /\ RawLen \in Nat /\ ccount \in Nat /\ devLen \in Nat /\ tail.index = ccount
          /\ ccount < tail.checkpoints /\ tail.checkpoints < devLen
          /\ tail \in [index : Int, checkpoints : Int]
        BY <1>1, NatLines DEF Sections, Trailing, TypeInv, TypeData, Positions
    <1>4. {RawLen, tail.index, tail.checkpoints, devLen} \subseteq Nat
        BY <1>3
    <1>5. /\ streams \in Seq([at : Nat, raw : Nat]) /\ ckLines \in Seq([c : Nat, u : Nat])
          /\ Len(idxLines) \in Nat
        BY <1>1 DEF TypeInv, TypeData, Buffers, CkLine
    <1>6. ASSUME NEW k \in 1..Len(idxLines)
          PROVE  /\ Written.files[k].off = idxLines[k].off
                 /\ Written.files[k].off \in Nat /\ Written.files[k].header \in Nat
                 /\ Written.files[k].data \in Nat
                 /\ Written.files[k].off + Written.files[k].header + Written.files[k].data
                      = EntryEnd(idxLines[k])
                 /\ Written.files[k] \in [off : Nat, header : Nat, data : Nat]
        <2> DEFINE o == idxLines[k].off
                   h == HeadersEnd(idxLines[k])
                   e == EntryEnd(idxLines[k])
        <2>1. o \in Nat /\ h \in Nat /\ e \in Nat /\ o <= h /\ h <= e
            BY <1>1, EntryFacts, NatLines
        <2>2. Written.files[k] = [off |-> o, header |-> h - o, data |-> e - h]
            BY <1>2
        <2> HIDE DEF o, h, e
        <2>3. h - o \in Nat /\ e - h \in Nat /\ o + (h - o) + (e - h) = e
            BY <2>1
        <2>4. /\ Written.files[k].off = o /\ Written.files[k].header = h - o
              /\ Written.files[k].data = e - h
            BY <2>2
        <2>5. Written.files[k] \in [off : Nat, header : Nat, data : Nat]
            BY <2>1, <2>2, <2>3
        <2> QED BY <2>1, <2>3, <2>4, <2>5 DEF o, e
    <1>7. /\ Written.files \in Seq([off : Nat, header : Nat, data : Nat])
          /\ Len(Written.files) = Len(idxLines)
        <2> DEFINE F(k) == [off |-> idxLines[k].off,
                            header |-> HeadersEnd(idxLines[k]) - idxLines[k].off,
                            data |-> EntryEnd(idxLines[k]) - HeadersEnd(idxLines[k])]
        <2>1. Written.files = [k \in 1..Len(idxLines) |-> F(k)]
            BY <1>2
        <2>2. \A k \in 1..Len(idxLines) : F(k) \in [off : Nat, header : Nat, data : Nat]
            BY <1>6, <2>1
        <2> HIDE DEF F
        <2> QED BY <1>5, <2>1, <2>2, IsASeq
    <1>8. Written.lines \in Seq([g : BOOLEAN, file : Nat, len : Nat \ {0}])
        <2>1. \A k \in 1..Len(idxLines) :
                [g |-> FALSE, file |-> k, len |-> 1] \in [g : BOOLEAN, file : Nat, len : Nat \ {0}]
            OBVIOUS
        <2> QED BY <1>2, <1>5, <2>1, IsASeq
    <1>9. ASSUME NEW i \in 1..Len(ckLines)
          PROVE  ckLines[i].c <= tail.checkpoints
        <2>1. ckLines[i].c <= ccount /\ ckLines[i].c \in Nat
            BY <1>1, NatLines DEF CkBounds
        <2> QED BY <1>3, <2>1
    <1>10. ASSUME NEW i \in 1..Len(ckLines), NEW j \in 1..Len(ckLines), i < j
           PROVE  ckLines[i].u < ckLines[j].u
        BY <1>1, <1>10 DEF CheckpointsSorted
    <1>11. IF Gzip
           THEN /\ Len(streams) = Len(ckLines) + 1
                /\ \A i \in 1..Len(ckLines) :
                     streams[i + 1] = [at |-> ckLines[i].c, raw |-> ckLines[i].u]
           ELSE \A i \in 1..Len(ckLines) : ckLines[i].c = ckLines[i].u
        <2>1. CASE Gzip
            <3>1. Len(streams) = Len(ckLines) + 1
                BY <1>1, <2>1 DEF CheckpointsSound
            <3>2. ASSUME NEW i \in 1..Len(ckLines)
                  PROVE  streams[i + 1] = [at |-> ckLines[i].c, raw |-> ckLines[i].u]
                <4>1. streams[i + 1].at = ckLines[i].c /\ streams[i + 1].raw = ckLines[i].u
                    BY <1>1, <2>1 DEF CheckpointsSound
                <4>2. i + 1 \in 1..Len(streams)
                    BY <1>5, <3>1
                <4>3. streams[i + 1] \in [at : Nat, raw : Nat]
                    BY <1>5, <4>2, ElementOfSeq
                <4> QED BY <4>1, <4>3
            <3> QED BY <2>1, <3>1, <3>2
        <2>2. CASE ~Gzip
            BY <1>1, <2>2 DEF CheckpointsSound
        <2> QED BY <2>1, <2>2, GzipAssumption
    <1>12. ASSUME NEW m \in 1..Len(idxLines)
           PROVE  /\ EntryEnd(idxLines[m]) <= RawLen
                  /\ \A i \in 1..Len(ckLines) :
                       ckLines[i].u <= idxLines[m].off \/ EntryEnd(idxLines[m]) <= ckLines[i].u
        <2>1. EntryEnd(idxLines[m]) \in 0..RawLen
            BY <1>1, EntryFacts
        <2>2. ASSUME NEW i \in 1..Len(ckLines)
              PROVE  ckLines[i].u <= idxLines[m].off \/ EntryEnd(idxLines[m]) <= ckLines[i].u
            <3>1. CASE EntryEnd(idxLines[m]) = idxLines[m].off
                <4>1. ckLines[i].u \in Nat /\ idxLines[m].off \in Nat
                    BY <1>1, NatLines
                <4> QED BY <3>1, <4>1
            <3>2. CASE \E j \in 1..Len(body) : body[j].entry = idxLines[m].entry
                            /\ EntryEnd(idxLines[m]) = body[j].at + body[j].n
                <4>1. PICK j \in 1..Len(body) : body[j].entry = idxLines[m].entry
                            /\ EntryEnd(idxLines[m]) = body[j].at + body[j].n
                    BY <3>2
                <4>2. idxLines[m].entry = m
                    BY <1>1 DEF IdxInv, LinesNumbered
                <4>3. Clear(ckLines[i].u, m, j)
                    BY <1>1 DEF CkApart
                <4> QED BY <4>1, <4>2, <4>3 DEF Clear
            <3> QED BY <1>1, <3>1, <3>2, EntryFacts
        <2> QED BY <1>3, <2>1, <2>2
    <1>13. Gzip \in BOOLEAN
        BY GzipAssumption
    <1> DEFINE a == Written
    <1>14. /\ a.gzip \in BOOLEAN
           /\ {a.bodyLen, a.idxAt, a.ckAt, a.devLen} \subseteq Nat
           /\ a.idxAt < a.ckAt /\ a.ckAt < a.devLen
           /\ a.cks \in Seq([c : Nat, u : Nat])
           /\ a.streams \in Seq([at : Nat, raw : Nat])
        BY <1>2, <1>3, <1>4, <1>5, <1>13
    <1>15. /\ a.streams # << >> /\ a.streams[1] = [at |-> 0, raw |-> 0]
           /\ \A i, j \in 1..Len(a.streams) : i < j => a.streams[i].at < a.streams[j].at
        BY <1>1, <1>2, <1>5 DEF StreamsApart
    <1>16. /\ \A i, j \in 1..Len(a.cks) : i < j => a.cks[i].u < a.cks[j].u
           /\ \A i \in 1..Len(a.cks) : a.cks[i].c <= a.ckAt
        BY <1>2, <1>9, <1>10
    <1>17. IF a.gzip
           THEN /\ Len(a.streams) = Len(a.cks) + 1
                /\ \A i \in 1..Len(a.cks) :
                     a.streams[i + 1] = [at |-> a.cks[i].c, raw |-> a.cks[i].u]
           ELSE \A i \in 1..Len(a.cks) : a.cks[i].c = a.cks[i].u
        BY <1>2, <1>11
    <1>18. \A m \in 1..Len(a.files) :
             LET f == a.files[m] IN
             /\ f.off + f.header + f.data <= a.bodyLen
             /\ \A i \in 1..Len(a.cks) :
                  a.cks[i].u <= f.off \/ f.off + f.header + f.data <= a.cks[i].u
        <2>1. ASSUME NEW m \in 1..Len(a.files)
              PROVE  LET f == a.files[m] IN
                     /\ f.off + f.header + f.data <= a.bodyLen
                     /\ \A i \in 1..Len(a.cks) :
                          a.cks[i].u <= f.off \/ f.off + f.header + f.data <= a.cks[i].u
            <3>1. m \in 1..Len(idxLines)
                BY <1>7
            <3>2. /\ a.files[m].off = idxLines[m].off
                  /\ a.files[m].off + a.files[m].header + a.files[m].data
                       = EntryEnd(idxLines[m])
                BY <1>6, <3>1
            <3>3. a.bodyLen = RawLen /\ a.cks = ckLines
                BY <1>2
            <3> HIDE DEF a
            <3> QED BY <1>12, <3>1, <3>2, <3>3
        <2> QED BY <2>1
    <1> HIDE DEF a
    <1>19. /\ a.files \in Seq([off : Nat, header : Nat, data : Nat])
           /\ a.lines \in Seq([g : BOOLEAN, file : Nat, len : Nat \ {0}])
        BY <1>7, <1>8 DEF a
    <1>20. RP!ArchiveOK(a)
        BY <1>14, <1>15, <1>16, <1>17, <1>18, <1>19 DEF RP!ArchiveOK
    <1> QED BY <1>20 DEF a

-----------------------------------------------------------------------------
(***************************************************************************)
(* The reader                                                              *)
(***************************************************************************)
(* The assumptions of ScarReader hold of this instance of it.              *)
LEMMA ReaderAssumptions ==
    /\ \A a \in {} : RP!ArchiveOK(a)
    /\ {BlockCap, ChunkCap, MaxRefills} \subseteq Nat \ {0}
    /\ FALSE \in BOOLEAN
    /\ RP!None \notin Iterators
    BY CapsAssumption, IteratorsAssumption DEF RP!None

LEMMA SameInit == R!ReaderInit <=> RP!ReaderInit
    BY DEF R!ReaderInit, RP!ReaderInit, R!Closed, RP!Closed, R!None, RP!None,
           R!NoDecomp, RP!NoDecomp, R!NoResult, RP!NoResult

LEMMA SameNext == R!Next <=> RP!Next
    <1>1. \A i : R!Iterate(i) <=> RP!Iterate(i)
        BY DEF R!Iterate, RP!Iterate, R!BlockRefills, RP!BlockRefills, R!Head1, RP!Head1,
               R!Upto, RP!Upto, R!Min, RP!Min, R!Closed, RP!Closed, R!None, RP!None
    <1>2. \A i : R!IteratorNext(i) <=> RP!IteratorNext(i)
        BY DEF R!IteratorNext, RP!IteratorNext, R!ParseLine, RP!ParseLine, R!Fetches,
               RP!Fetches, R!BlockRefills, RP!BlockRefills, R!Upto, RP!Upto, R!Min, RP!Min,
               R!None, RP!None
    <1>3. \A i : R!IteratorGoOn(i) <=> RP!IteratorGoOn(i)
        BY DEF R!IteratorGoOn, RP!IteratorGoOn, R!ParseLine, RP!ParseLine, R!Fetches,
               RP!Fetches, R!BlockRefills, RP!BlockRefills, R!Upto, RP!Upto, R!Min, RP!Min,
               R!None, RP!None
    <1>4. \A i : R!IteratorFree(i) <=> RP!IteratorFree(i)
        BY DEF R!IteratorFree, RP!IteratorFree, R!Closed, RP!Closed, R!None, RP!None
    <1>5. \A f : R!ReadMeta(f) <=> RP!ReadMeta(f)
        BY DEF R!ReadMeta, RP!ReadMeta, R!None, RP!None, R!NoResult, RP!NoResult
    <1>6. R!EnsureCheckpointSection <=> RP!EnsureCheckpointSection
        BY DEF R!EnsureCheckpointSection, RP!EnsureCheckpointSection, R!Fail, RP!Fail
    <1>7. R!SeekToCheckpoint <=> RP!SeekToCheckpoint
        BY DEF R!SeekToCheckpoint, RP!SeekToCheckpoint, R!FindCheckpoint, RP!FindCheckpoint,
               R!Min, RP!Min, R!StreamAt, RP!StreamAt
    <1>8. R!SkipToOffset <=> RP!SkipToOffset
        BY DEF R!SkipToOffset, RP!SkipToOffset, R!DecompRead, RP!DecompRead, R!ReadFails,
               RP!ReadFails, R!Fail, RP!Fail, R!Upto, RP!Upto, R!Min, RP!Min
    <1>9. R!ReadHeaders <=> RP!ReadHeaders
        BY DEF R!ReadHeaders, RP!ReadHeaders, R!DecompRead, RP!DecompRead, R!ReadFails,
               RP!ReadFails, R!Fail, RP!Fail, R!Upto, RP!Upto, R!Min, RP!Min
    <1>10. R!ReadContent <=> RP!ReadContent
        BY DEF R!ReadContent, RP!ReadContent, R!DecompRead, RP!DecompRead, R!ReadFails,
               RP!ReadFails, R!Fail, RP!Fail, R!Upto, RP!Upto, R!Min, RP!Min, R!None, RP!None
    <1> QED BY <1>1, <1>2, <1>3, <1>4, <1>5, <1>6, <1>7, <1>8, <1>9, <1>10
            DEF R!Next, RP!Next

(* No step of the reader changes the archive.                              *)
LEMMA ArchiveStays == RP!Next => UNCHANGED arc
    BY DEF RP!Next, RP!Iterate, RP!IteratorNext, RP!IteratorGoOn, RP!IteratorFree, RP!ReadMeta,
           RP!EnsureCheckpointSection, RP!SeekToCheckpoint, RP!SkipToOffset, RP!ReadHeaders,
           RP!ReadContent

ReaderInv == RP!TypeInv /\ RP!ReadInv /\ RP!IterInv

LEMMA ReaderKeeps == ReaderInv /\ [RP!Next]_(RP!vars) => ReaderInv'
    <1>1. RP!TypeInv /\ [RP!Next]_(RP!vars) => RP!TypeInv'
        BY RP!NextType, ReaderAssumptions
    <1>2. RP!TypeInv /\ RP!ReadInv /\ [RP!Next]_(RP!vars) => RP!ReadInv'
        BY RP!NextRead, ReaderAssumptions
    <1>3. RP!TypeInv /\ RP!IterInv /\ [RP!Next]_(RP!vars) => RP!IterInv'
        BY RP!NextIter, ReaderAssumptions
    <1> QED BY <1>1, <1>2, <1>3 DEF ReaderInv

(* A reader just created on an archive of that form.                       *)
Created == RP!ArchiveOK(arc) /\ RP!NoGlobals /\ RP!ReaderInit

LEMMA CreatedOK == Created => ReaderInv
    <1> SUFFICES ASSUME Created PROVE ReaderInv
        OBVIOUS
    <1>1. RP!TypeInv
        BY RP!ReaderInitType, ReaderAssumptions DEF Created
    <1>2. RP!ReadInv
        BY RP!InitRead, ReaderAssumptions DEF Created
    <1>3. RP!IterInv
        BY RP!InitIter, ReaderAssumptions DEF Created
    <1> QED BY <1>1, <1>2, <1>3 DEF ReaderInv

LEMMA CreatedNext == Created' => ReaderInv'
    BY CreatedOK, PTL

-----------------------------------------------------------------------------
(***************************************************************************)
(* The inductive invariant                                                 *)
(***************************************************************************)
(* No iterator and no read before there is a reader.                       *)
Unused ==
    /\ its = [i \in Iterators |-> R!Closed] /\ running = R!None
    /\ ckLoaded = FALSE /\ cks = << >> /\ rpc = "idle" /\ target = 0
    /\ decomp = R!NoDecomp /\ last = 0 /\ result = R!NoResult

(* The search goes on between the tail, which it has not reached, and the  *)
(* marker.                                                                 *)
Searching == ptr \in layout.tail..(layout.eof - 1) /\ pos = devLen

RTInv ==
    /\ WInv
    /\ \/ arc = Unfinished /\ Unused
       \/ arc = Written /\ pc = "done" /\ ReaderInv
    /\ ptr # Nowhere => pc = "done" /\ (arc = Unfinished => Searching)

LEMMA RTInitInv == RTInit => RTInv
    <1> SUFFICES ASSUME RTInit PROVE RTInv
        OBVIOUS
    <1>1. Init /\ arc = Unfinished /\ R!ReaderInit /\ ptr = Nowhere
        BY DEF RTInit
    <1>2. Unused
        BY <1>1 DEF R!ReaderInit, Unused
    <1> QED BY <1>1, <1>2, WInit DEF RTInv

(* What finish left behind.                                                *)
LEMMA Finished ==
    ASSUME WInv, pc = "done"
    PROVE  /\ layout.eof + 1 = devLen
           /\ tail.index = layout.index /\ tail.checkpoints = layout.checkpoints
           /\ layout.tail \in Nat /\ layout.eof \in Nat /\ devLen \in Nat
           /\ layout.tail < layout.eof /\ layout.eof <= layout.tail + MaxEmit
           /\ Written.devLen = devLen /\ Written.devLen >= 1
           /\ Written.idxAt = tail.index /\ Written.ckAt = tail.checkpoints
           /\ Written # Unfinished /\ Written # NotAnArchive
    <1>1. /\ layout.eof + 1 = devLen
          /\ tail.index = layout.index /\ tail.checkpoints = layout.checkpoints
          /\ layout.tail \in Nat
          /\ layout.tail < layout.eof /\ layout.eof <= layout.tail + MaxEmit
        BY DEF WInv, TailInv, Sections
    <1>2. layout.eof \in Int /\ devLen \in Nat
        BY DEF WInv, TypeInv, TypeData, Positions, Scalars
    <1>3. layout.eof \in Nat /\ devLen >= 1
        BY <1>1, <1>2
    <1>4. /\ Written.devLen = devLen
          /\ Written.idxAt = tail.index /\ Written.ckAt = tail.checkpoints
        BY DEF Written
    <1>5. Written.devLen # Unfinished.devLen /\ Written.devLen # NotAnArchive.devLen
        BY <1>2, <1>3, <1>4 DEF Unfinished, NotAnArchive
    <1>6. Written # Unfinished /\ Written # NotAnArchive
        BY <1>5, Zenon
    <1> QED BY <1>1, <1>2, <1>3, <1>4, <1>6

(* Nothing of the archive changes any more.                                *)
LEMMA WrittenStays ==
    ASSUME UNCHANGED vars
    PROVE  UNCHANGED <<pc, Written, layout, devLen, idxLines, acked>>
    <1>1. UNCHANGED <<pc, body, streams, ckLines, idxLines, tail, layout, devLen, acked>>
        BY DEF vars
    <1>2. RawLen' = RawLen
        BY <1>1 DEF RawLen
    <1>3. Written' = Written
        BY <1>1, <1>2 DEF Written, EntryEnd, HeadersEnd, Ends
    <1> QED BY <1>1, <1>3

LEMMA WriterRTInv ==
    ASSUME "short" \notin Faults, RTInv, [Next]_vars, UNCHANGED <<readerVars, ptr>>
    PROVE  RTInv'
    <1>1. [Next]_vars /\ UNCHANGED readerVars /\ UNCHANGED ptr
        OBVIOUS
    <1>2. UNCHANGED <<arc, pos, its, running, ckLoaded, cks, rpc, target, decomp, last, result>>
        BY <1>1 DEF readerVars
    <1>3. WInv'
        BY <1>1, WStep DEF RTInv
    <1>4. Unused => Unused'
        BY <1>2 DEF Unused
    <1>5. ReaderInv => ReaderInv'
        <2>1. UNCHANGED RP!vars
            BY <1>2 DEF RP!vars
        <2> QED BY <2>1, ReaderKeeps
    <1>6. CASE pc = "done"
        <2>1. UNCHANGED <<pc, Written, layout, devLen>>
            BY <1>1, <1>6, DoneStays, WrittenStays
        <2>2. Searching => Searching'
            BY <1>1, <1>2, <2>1 DEF Searching
        <2> QED BY <1>1, <1>2, <1>3, <1>4, <1>5, <2>1, <2>2 DEF RTInv, Unfinished
    <1>7. CASE pc # "done"
        BY <1>1, <1>2, <1>3, <1>4, <1>7 DEF RTInv, Unfinished
    <1> QED BY <1>6, <1>7

LEMMA CreateRTInv ==
    ASSUME "short" \notin Faults, RTInv, CreateReader
    PROVE  RTInv'
    <1>1. /\ pc = "done" /\ arc = Unfinished /\ ptr = Nowhere /\ pos' = devLen
          /\ UNCHANGED vars
          /\ UNCHANGED <<its, running, ckLoaded, cks, rpc, target, decomp, last, result>>
        BY DEF CreateReader
    <1>2. WInv /\ WInv'
        BY <1>1, WStep DEF RTInv
    <1>3. /\ layout.eof + 1 = devLen /\ layout.tail \in Nat /\ layout.eof \in Nat
          /\ layout.tail < layout.eof /\ Written # Unfinished
        BY <1>1, <1>2, Finished
    <1>4. ptr' = layout.eof - 1 /\ UNCHANGED arc
        BY <1>3 DEF CreateReader
    <1>5. UNCHANGED <<pc, layout, devLen>>
        BY <1>1, WrittenStays
    <1>6. Searching'
        BY <1>1, <1>3, <1>4, <1>5 DEF Searching
    <1>7. Unused'
        BY <1>1, <1>3 DEF RTInv, Unused
    <1> QED BY <1>1, <1>2, <1>4, <1>5, <1>6, <1>7 DEF RTInv, Unfinished

(* The search reaches the tail before it leaves what was read, and what it *)
(* meets on the way is not taken for one.                                  *)
LEMMA Search ==
    ASSUME WInv, pc = "done", Searching, arc = Unfinished, FindTail
    PROVE  \/ ptr = layout.tail /\ arc' = Written /\ UNCHANGED ptr
           \/ layout.tail <= ptr - 1 /\ UNCHANGED arc /\ ptr' = ptr - 1
    <1>1. /\ layout.eof + 1 = devLen /\ layout.tail \in Nat /\ layout.eof \in Nat
          /\ devLen \in Nat /\ layout.eof <= layout.tail + MaxEmit
        BY Finished
    <1>2. ptr \in layout.tail..(layout.eof - 1) /\ ptr \in Nat
        BY <1>1 DEF Searching
    <1>3. ~(ptr < WindowStart)
        <2>1. Window \in Nat /\ Window > MaxEmit /\ MaxEmit \in Nat
            BY WindowAssumption, MaxEmitAssumption
        <2> QED BY <1>1, <1>2, <2>1 DEF WindowStart
    <1>4. PICK found \in {IF magic THEN ParseTail(ptr) ELSE 0 : magic \in Magic(ptr)} :
            /\ ptr' = IF found = 0 THEN ptr - 1 ELSE ptr
            /\ arc' = CASE found = 1  -> Written
                        [] found = 0  -> arc
                        [] found = -1 -> NotAnArchive
        BY <1>3 DEF FindTail
    <1>5. CASE ptr = layout.tail
        <2>1. Magic(ptr) = {TRUE}
            BY <1>5, GzipAssumption DEF Magic
        <2>2. ParseTail(ptr) = 1
            BY <1>5 DEF ParseTail
        <2>3. found = 1
            BY <1>4, <2>1, <2>2
        <2> QED BY <1>4, <1>5, <2>3
    <1>6. CASE ptr # layout.tail
        <2>1. ParseTail(ptr) = 0
            BY <1>6 DEF ParseTail
        <2>2. found = 0
            BY <1>4, <2>1
        <2> QED BY <1>1, <1>2, <1>4, <1>6, <2>2
    <1> QED BY <1>5, <1>6

LEMMA FindTailRTInv ==
    ASSUME "short" \notin Faults, RTInv, FindTail
    PROVE  RTInv'
    <1>1. /\ ptr # Nowhere /\ arc = Unfinished /\ UNCHANGED vars
          /\ UNCHANGED <<pos, its, running, ckLoaded, cks, rpc, target, decomp, last, result>>
        BY DEF FindTail
    <1>2. WInv /\ WInv' /\ pc = "done" /\ Searching
        BY <1>1, WStep DEF RTInv
    <1>3. UNCHANGED <<pc, Written, layout, devLen>>
        BY <1>1, WrittenStays
    <1>4. Unused /\ Unused'
        <2>1. Unused
            BY <1>1, <1>2, Finished DEF RTInv
        <2> QED BY <1>1, <2>1 DEF Unused
    <1>5. CASE layout.tail <= ptr - 1 /\ UNCHANGED arc /\ ptr' = ptr - 1
        <2>1. layout.tail \in Nat /\ layout.eof \in Nat
            BY <1>2, Finished
        <2>2. Searching'
            BY <1>1, <1>2, <1>3, <1>5, <2>1 DEF Searching
        <2>3. arc' = Unfinished'
            BY <1>1, <1>5 DEF Unfinished
        <2> QED BY <1>2, <1>3, <1>4, <2>2, <2>3 DEF RTInv
    <1>6. CASE ptr = layout.tail /\ arc' = Written /\ UNCHANGED ptr
        <2>1. RP!ArchiveOK(arc)'
            <3>1. RP!ArchiveOK(Written)
                BY <1>2, WrittenOK
            <3> QED BY <1>6, <3>1
        <2>2. RP!NoGlobals'
            <3>1. arc'.lines = [k \in 1..Len(idxLines) |-> [g |-> FALSE, file |-> k, len |-> 1]]
                BY <1>6 DEF Written
            <3>2. Len(idxLines) \in Nat
                BY <1>2, NatLines DEF WInv
            <3> QED BY <3>1, <3>2 DEF RP!NoGlobals
        <2>3. RP!ReaderInit'
            <3>1. pos' = arc'.devLen
                BY <1>1, <1>2, <1>6, Finished DEF Searching
            <3> QED BY <1>4, <3>1
                DEF RP!ReaderInit, Unused, R!Closed, RP!Closed, R!None, RP!None,
                    R!NoDecomp, RP!NoDecomp, R!NoResult, RP!NoResult
        <2>4. ReaderInv'
            BY <2>1, <2>2, <2>3, CreatedNext DEF Created
        <2>5. arc' = Written' /\ arc' # Unfinished'
            BY <1>2, <1>3, <1>6, Finished DEF Unfinished
        <2> QED BY <1>2, <1>3, <2>4, <2>5 DEF RTInv
    <1> QED BY <1>1, <1>2, <1>5, <1>6, Search

LEMMA ReaderRTInv ==
    ASSUME "short" \notin Faults, RTInv, ReaderStep
    PROVE  RTInv'
    <1>1. Opened /\ UNCHANGED vars /\ UNCHANGED ptr /\ RP!Next
        BY SameNext DEF ReaderStep
    <1>2. WInv'
        BY <1>1, WStep DEF RTInv
    <1>3. arc = Written /\ pc = "done" /\ ReaderInv
        BY <1>1 DEF RTInv, Opened
    <1>4. ReaderInv'
        BY <1>1, <1>3, ReaderKeeps
    <1>5. UNCHANGED <<pc, Written, arc>>
        BY <1>1, WrittenStays, ArchiveStays
    <1>6. arc' # Unfinished'
        BY <1>1, <1>5 DEF Opened, Unfinished
    <1> QED BY <1>2, <1>3, <1>4, <1>5, <1>6 DEF RTInv

LEMMA RTStep ==
    ASSUME "short" \notin Faults, RTInv, [RTNext]_<<vars, readerVars, ptr>>
    PROVE  RTInv'
    <1>1. CASE WriterStep \/ UNCHANGED <<vars, readerVars, ptr>>
        <2>1. [Next]_vars /\ UNCHANGED <<readerVars, ptr>>
            BY <1>1 DEF WriterStep
        <2> QED BY <2>1, WriterRTInv
    <1> QED BY <1>1, CreateRTInv, FindTailRTInv, ReaderRTInv DEF RTNext

LEMMA RTInvariant == ASSUME "short" \notin Faults PROVE RTSpec => []RTInv
    BY RTInitInv, RTStep, PTL DEF RTSpec

-----------------------------------------------------------------------------
(***************************************************************************)
(* The theorems                                                            *)
(***************************************************************************)
(* Every archive the writer finished on an output that takes a write as a  *)
(* whole or fails can be opened, and its sections are looked for where     *)
(* they are: the search stops at the tail and at nothing before it.        *)
THEOREM TailFoundTheorem ==
    ASSUME "short" \notin Faults
    PROVE  RTSpec => []TailFound
    <1>1. RTInv => TailFound
        <2> SUFFICES ASSUME RTInv PROVE TailFound
            OBVIOUS
        <2>1. CASE arc = Unfinished
            <3>1. Unfinished.devLen # NotAnArchive.devLen
                BY DEF Unfinished, NotAnArchive
            <3>2. Unfinished # NotAnArchive
                BY <3>1, Zenon
            <3> QED BY <2>1, <3>2 DEF TailFound, Opened
        <2>2. CASE arc = Written /\ pc = "done"
            BY <2>2, Finished DEF RTInv, TailFound
        <2> QED BY <2>1, <2>2 DEF RTInv
    <1> QED BY <1>1, RTInvariant, PTL

(* It has the form that the theorems about the reader assume: checkpoints  *)
(* where streams start, in order, and none of them within a member.        *)
THEOREM RoundTripWellFormed ==
    ASSUME "short" \notin Faults
    PROVE  RTSpec => []WellFormed
    <1>1. RTInv => WellFormed
        <2> SUFFICES ASSUME RTInv, Opened PROVE R!ArchiveOK(arc)
            BY DEF WellFormed
        <2>1. arc = Written /\ pc = "done" /\ WInv
            BY DEF RTInv, Opened
        <2>2. RP!ArchiveOK(arc)
            BY <2>1, WrittenOK
        <2> QED BY <2>2 DEF R!ArchiveOK, RP!ArchiveOK
    <1> QED BY <1>1, RTInvariant, PTL

(* An iterator yields the entries that write_entry acknowledged.           *)
LEMMA IteratorsListed ==
    ASSUME RTInv, RInv, Opened, NEW i \in Iterators
    PROVE  Listed(i)
    <1>1. arc = Written /\ pc = "done" /\ WInv /\ ReaderInv
        BY DEF RTInv, Opened
    <1> DEFINE seen == its[i].seen
               n == Len(idxLines)
    <1>2. RP!TypeInv /\ RP!Faithful(its[i])
        BY <1>1 DEF ReaderInv, RP!IterInv
    <1>3. arc.lines = [k \in 1..n |-> [g |-> FALSE, file |-> k, len |-> 1]] /\ n \in Nat
        BY <1>1, NatLines DEF Written, WInv
    <1>4. Len(arc.lines) = n /\ \A k \in 1..n : arc.lines[k].file = k
        BY <1>3
    <1>5. /\ Len(seen) <= n /\ Len(seen) \in Nat
          /\ \A k \in 1..Len(seen) : seen[k] = k
          /\ its[i].ended => Len(seen) = n
        <2>1. its[i] \in RP!IteratorType
            BY <1>2 DEF RP!TypeInv, RP!TypeData
        <2>2. Len(seen) \in Nat
            BY <2>1 DEF RP!IteratorType
        <2>3. /\ Len(seen) <= Len(arc.lines)
              /\ \A k \in 1..Len(seen) : seen[k] = arc.lines[k].file
              /\ its[i].ended => Len(seen) = Len(arc.lines)
            BY <1>2 DEF RP!Faithful
        <2> HIDE DEF seen, n
        <2>4. \A k \in 1..Len(seen) : k \in 1..n
            BY <1>3, <1>4, <2>2, <2>3
        <2> QED BY <1>4, <2>2, <2>3, <2>4
    <1>6. /\ acked \in Seq(Nat) /\ Len(acked) = n
          /\ \A k \in 1..n : acked[k] = k /\ idxLines[k].entry = k
        <2>1. Acknowledged /\ Len(metas) = n
            BY <1>1 DEF RInv, WInv, IdxInv, LinesCounted
        <2>2. acked \in Seq(Nat)
            BY <1>1 DEF WInv, TypeInv, TypeData, Buffers
        <2> QED BY <1>1, <2>1, <2>2 DEF Acknowledged, InEntry, WInv, IdxInv, LinesNumbered
    <1> DEFINE named == [k \in 1..Len(seen) |-> IF seen[k] = 0 THEN 0
                                                ELSE idxLines[seen[k]].entry]
    <1> HIDE DEF seen, n
    <1>7. ASSUME NEW k \in 1..Len(seen)
          PROVE  (IF seen[k] = 0 THEN 0 ELSE idxLines[seen[k]].entry) = acked[k]
        <2>1. seen[k] = k /\ k \in 1..n /\ k # 0
            BY <1>3, <1>5
        <2> QED BY <1>6, <2>1
    <1>8. named = [k \in 1..Len(seen) |-> acked[k]] /\ Len(named) = Len(seen)
        BY <1>5, <1>7
    <1>9. SubSeq(acked, 1, Len(named)) = named
        <2> HIDE DEF named
        <2>1. Len(named) \in 0..Len(acked)
            <3>1. Len(named) = Len(seen) /\ Len(acked) = n
                BY <1>6, <1>8, Zenon
            <3>2. Len(seen) <= n /\ Len(seen) \in Nat /\ n \in Nat
                BY <1>3, <1>5, Zenon
            <3>3. Len(seen) \in 0..n
                BY <3>2
            <3> QED BY <3>1, <3>3, Zenon
        <2>2. SubSeq(acked, 1, Len(named)) = [k \in 1..Len(named) |-> acked[k]]
            BY <1>6, <2>1
        <2> QED BY <1>8, <2>2
    <1>10. its[i].ended => named = acked
        BY <1>5, <1>6, <1>8
    <1> HIDE DEF named
    <1> QED BY <1>9, <1>10 DEF Listed, named, seen

(* What is skipped before the headers of a member is no more than the      *)
(* spacing the writer kept.                                                *)
LEMMA SkipBounded ==
    ASSUME RTInv, Opened, rpc = "skip"
    PROVE  result.skip <= Limit
    <1>1. arc = Written /\ pc = "done" /\ WInv /\ RP!TypeInv /\ RP!ReadInv
        BY DEF RTInv, Opened, ReaderInv
    <1>2. target \in 1..Len(arc.files) /\ decomp.cur \in Nat /\ result.skip \in Int
        BY <1>1 DEF RP!TypeInv, RP!TypeData, RP!OneCall, RP!DecompType, RP!ResultType
    <1> DEFINE off == arc.files[target].off
    <1>3. decomp.cur + result.skip = off
        BY <1>1 DEF RP!ReadInv, RP!Seeking
    <1>4. Len(arc.files) = Len(idxLines) /\ off = idxLines[target].off /\ arc.cks = ckLines
        <2>1. arc.files = [k \in 1..Len(idxLines) |->
                  [off |-> idxLines[k].off,
                   header |-> HeadersEnd(idxLines[k]) - idxLines[k].off,
                   data |-> EntryEnd(idxLines[k]) - HeadersEnd(idxLines[k])]]
              /\ arc.cks = ckLines
            BY <1>1 DEF Written
        <2>2. Len(idxLines) \in Nat
            BY <1>1, NatLines DEF WInv
        <2> QED BY <1>2, <2>1, <2>2
    <1>5. off \in Nat /\ Limit \in Nat
        BY <1>1, <1>2, <1>4, NatLines, LimitAssumption DEF WInv
    <1>6. \/ off <= Limit
          \/ \E i \in 1..Len(ckLines) : ckLines[i].u <= off /\ off - ckLines[i].u <= Limit
        BY <1>1, <1>2, <1>4 DEF WInv, SeekBounded
    <1>7. CASE off <= Limit
        BY <1>2, <1>3, <1>5, <1>7
    <1>8. CASE \E i \in 1..Len(ckLines) : ckLines[i].u <= off /\ off - ckLines[i].u <= Limit
        <2>1. PICK i \in 1..Len(ckLines) : ckLines[i].u <= off /\ off - ckLines[i].u <= Limit
            BY <1>8
        <2>2. ~(off - ckLines[i].u < result.skip)
            BY <1>1, <1>4, <2>1 DEF RP!ReadInv, RP!NearestCheckpoint
        <2>3. ckLines[i].u \in Nat
            BY <1>1, NatLines DEF WInv
        <2> QED BY <1>2, <1>5, <2>1, <2>2, <2>3
    <1> QED BY <1>6, <1>7, <1>8

(* The archive reads back as what was written: the entries that were       *)
(* acknowledged, in order; the headers and the content of the member asked *)
(* for, whatever iterators and other reads did to the cursor; and no seek  *)
(* skips more than the spacing.                                            *)
THEOREM ReadBackTheorem ==
    ASSUME "short" \notin Faults, StopOnError
    PROVE  RTSpec => []ReadBack
    <1>1. Init => RInv
        BY RInit
    <1>2. RTInv /\ RInv /\ [RTNext]_<<vars, readerVars, ptr>> => RInv'
        <2> SUFFICES ASSUME RTInv, RInv, [RTNext]_<<vars, readerVars, ptr>> PROVE RInv'
            OBVIOUS
        <2>1. [Next]_vars
            BY DEF RTNext, WriterStep, CreateReader, FindTail, ReaderStep
        <2> QED BY <2>1, RStep DEF RTInv, WInv
    <1>3. RTInv /\ RInv => ReadBack
        <2> SUFFICES ASSUME RTInv, RInv, Opened
                     PROVE  /\ \A i \in Iterators : Listed(i)
                            /\ R!MetaCorrect /\ R!ContentCorrect
                            /\ rpc = "skip" => result.skip <= Limit
            BY DEF ReadBack
        <2>1. RP!ReadInv
            BY DEF RTInv, Opened, ReaderInv
        <2>2. R!MetaCorrect
            BY <2>1 DEF RP!ReadInv, RP!HaveMeta, RP!NoGap, R!MetaCorrect
        <2>3. R!ContentCorrect
            BY <2>1 DEF RP!ReadInv, RP!ContentCorrect, R!ContentCorrect
        <2> QED BY <2>2, <2>3, IteratorsListed, SkipBounded
    <1>4. RTInit => Init
        BY DEF RTInit
    <1> QED BY <1>1, <1>2, <1>3, <1>4, RTInvariant, PTL DEF RTSpec
=============================================================================
