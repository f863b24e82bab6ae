-------------------------- MODULE ScarWriterProofs --------------------------
(***************************************************************************)
(* Theorems about ScarWriter, for every value of its constants.            *)
(***************************************************************************)
EXTENDS ScarWriter, SequenceTheorems, TLAPS

(***************************************************************************)
(* Sequences and the environment                                           *)
(***************************************************************************)

(* What Append does to the length and the elements of a sequence: the      *)
(* index, the checkpoints and the tar stream only grow at their end.       *)
LEMMA AppendFacts ==
    ASSUME NEW S, NEW s \in Seq(S), NEW e \in S
    PROVE  /\ Append(s, e) \in Seq(S)
           /\ Len(Append(s, e)) = Len(s) + 1
           /\ Append(s, e) # << >>
           /\ Append(s, e)[Len(s) + 1] = e
           /\ \A i \in 1..Len(s) : Append(s, e)[i] = s[i]
    BY AppendProperties

(* What write_deflate may report: an error only where errors are among the *)
(* faults, and a loss without one only where short writes are.             *)
LEMMA DeflateFacts ==
    ASSUME NEW least \in Nat, NEW d \in Deflate(least)
    PROVE  /\ d.got \in Nat /\ d.ok \in BOOLEAN /\ d.whole \in BOOLEAN
           /\ ~StopOnError => d.ok
           /\ "short" \notin Faults => (d.ok => d.whole)
    <1> DEFINE Good == [got : least..MaxEmit, ok : {TRUE}, whole : {TRUE}]
               Err == [got : 0..(MaxEmit - 1), ok : {FALSE}, whole : {FALSE}]
               Short == [got : 0..(MaxEmit - 1), ok : {TRUE}, whole : {FALSE}]
    <1>1. d \in Good \/ ("error" \in Faults /\ d \in Err)
                     \/ ("short" \in Faults /\ d \in Short)
        BY DEF Deflate
    <1>2. CASE d \in Good
        <2>1. d.got \in Nat BY <1>2, MaxEmitAssumption
        <2>2. d.ok /\ d.whole BY <1>2, Zenon
        <2>3. d.ok \in BOOLEAN /\ d.whole \in BOOLEAN BY <1>2, Zenon
        <2> QED BY <2>1, <2>2, <2>3, Zenon
    <1>3. CASE "error" \in Faults /\ d \in Err
        <2>1. d.got \in Nat BY <1>3, MaxEmitAssumption
        <2>2. ~d.ok BY <1>3, Zenon
        <2>3. d.ok \in BOOLEAN /\ d.whole \in BOOLEAN BY <1>3, Zenon
        <2>4. StopOnError BY <1>3, StopAssumption
        <2> QED BY <2>1, <2>2, <2>3, <2>4, Zenon
    <1>4. CASE "short" \in Faults /\ d \in Short
        <2>1. d.got \in Nat BY <1>4, MaxEmitAssumption
        <2>2. d.ok BY <1>4, Zenon
        <2>3. d.ok \in BOOLEAN /\ d.whole \in BOOLEAN BY <1>4, Zenon
        <2>4. "short" \in Faults BY <1>4
        <2> QED BY <2>1, <2>2, <2>3, <2>4, Zenon
    <1> QED BY <1>1, <1>2, <1>3, <1>4, Zenon

(* The types of what the compressor's flush and finish report, and that    *)
(* those of the plain compressor do nothing.                               *)
LEMMA FinishFacts ==
    ASSUME NEW d \in CompressorFinish
    PROVE  /\ d.got \in Nat /\ d.ok \in BOOLEAN /\ d.whole \in BOOLEAN
           /\ ~Gzip => d.got = 0 /\ d.ok /\ d.whole
           /\ ~StopOnError => d.ok
           /\ "short" \notin Faults => (d.ok => d.whole)
    <1>1. CASE Gzip
        <2>1. d \in Deflate(1)
            BY <1>1 DEF CompressorFinish
        <2> QED BY <1>1, <2>1, DeflateFacts
    <1>2. CASE ~Gzip
        <2>1. d \in [got : {0}, ok : {TRUE}, whole : {TRUE}]
            BY <1>2 DEF CompressorFinish
        <2>2. d.got = 0 /\ d.got \in Nat BY <2>1
        <2>3. d.ok /\ d.whole BY <2>1, Zenon
        <2>4. d.ok \in BOOLEAN /\ d.whole \in BOOLEAN BY <2>1, Zenon
        <2> QED BY <2>2, <2>3, <2>4, Zenon
    <1> QED BY <1>1, <1>2, GzipAssumption

(* The types of what one write through the compressor reports; a call that *)
(* is not negative took as many cells as it says; the plain compressor     *)
(* puts on the output what it took.                                        *)
LEMMA WriteFacts ==
    ASSUME NEW n \in Nat, NEW o \in CompressorWrite(n)
    PROVE  /\ o.ret \in Int /\ o.raw \in Nat /\ o.got \in Nat /\ o.whole \in BOOLEAN
           /\ o.ret <= n
           /\ o.ret >= 0 => o.raw = o.ret
           /\ ~Gzip => o.got = o.raw
           /\ ~StopOnError => o.ret = n
           /\ "short" \notin Faults => (o.ret >= 0 => o.whole /\ o.ret = n)
    <1>1. CASE Gzip
        <2>1. PICK d \in Deflate(0) :
                 o = [ret |-> IF d.ok THEN n ELSE -1, raw |-> n,
                      got |-> d.got, whole |-> d.whole]
            BY <1>1 DEF CompressorWrite
        <2>2. /\ d.got \in Nat /\ d.ok \in BOOLEAN /\ d.whole \in BOOLEAN
              /\ ~StopOnError => d.ok
              /\ "short" \notin Faults => (d.ok => d.whole)
            BY DeflateFacts
        <2> QED BY <1>1, <2>1, <2>2
    <1>2. CASE ~Gzip
        <2>1. PICK k \in OutputWrite(n) :
                 o = [ret |-> k, raw |-> IF k < 0 THEN 0 ELSE k,
                      got |-> IF k < 0 THEN 0 ELSE k, whole |-> TRUE]
            BY <1>2 DEF CompressorWrite
        <2>2. /\ k \in Int /\ k <= n
              /\ ~StopOnError => k = n
              /\ "short" \notin Faults => (k >= 0 => k = n)
            BY <1>2, StopAssumption DEF OutputWrite
        <2> QED BY <1>2, <2>1, <2>2
    <1> QED BY <1>1, <1>2, GzipAssumption

(* What the output's write returns; what a section's length may be; what   *)
(* writing the tail reports.                                               *)
LEMMA OutputFacts ==
    ASSUME NEW n \in Nat, NEW got \in OutputWrite(n)
    PROVE  /\ got \in Int /\ got <= n
           /\ ~StopOnError => got >= 0
           /\ "short" \notin Faults => (got >= 0 => got = n)
    BY StopAssumption DEF OutputWrite

LEMMA SectionFacts ==
    ASSUME NEW k \in Nat, NEW len \in SectionLengths(k)
    PROVE  len \in Nat \ {0}
    BY MaxEmitAssumption, GzipAssumption DEF SectionLengths

LEMMA TailFacts ==
    ASSUME NEW d \in TailOutcomes
    PROVE  /\ d.got \in Nat
           /\ "short" \notin Faults => (d.ok => d.whole)
    <1>1. CASE Gzip
        <2>1. d \in Deflate(1)
            BY <1>1 DEF TailOutcomes
        <2> QED BY <2>1, DeflateFacts
    <1>2. CASE ~Gzip
        <2>1. PICK k \in OutputWrite(1) :
                d = [got |-> IF k < 0 THEN 0 ELSE k, ok |-> k >= 0, whole |-> k = 1]
            BY <1>2 DEF TailOutcomes
        <2>2. /\ k \in Int /\ k <= 1
              /\ "short" \notin Faults => (k >= 0 => k = 1)
            BY OutputFacts
        <2>3. d.got \in Nat
            BY <2>1, <2>2
        <2>4. d.ok = (k >= 0) /\ d.whole = (k = 1)
            BY <2>1, Zenon
        <2> QED BY <2>2, <2>3, <2>4
    <1> QED BY <1>1, <1>2, GzipAssumption

(* The first element of a concatenation.                                   *)
LEMMA ConcatFirst ==
    ASSUME NEW S, NEW s \in Seq(S), NEW t \in Seq(S)
    PROVE  /\ s \o t \in Seq(S)
           /\ Len(s) \in Nat /\ Len(t) \in Nat /\ Len(s \o t) = Len(s) + Len(t)
           /\ Len(s) >= 1 => (s \o t)[1] = s[1]
           /\ Len(s) = 0 /\ Len(t) >= 1 => (s \o t)[1] = t[1]
    <1>1. Len(s) \in Nat /\ Len(t) \in Nat
        OBVIOUS
    <1>2. \A i \in 1..Len(s) + Len(t) :
             (s \o t)[i] = IF i <= Len(s) THEN s[i] ELSE t[i - Len(s)]
        BY ConcatProperties
    <1>3. Len(s) >= 1 => (s \o t)[1] = s[1]
        BY <1>1, <1>2
    <1>4. ASSUME Len(s) = 0, Len(t) >= 1 PROVE (s \o t)[1] = t[1]
        <2>1. (s \o t)[1] = t[1 - Len(s)]
            BY <1>1, <1>2, <1>4
        <2>2. 1 - Len(s) = 1
            BY <1>4
        <2> QED BY <2>1, <2>2
    <1> QED BY <1>1, <1>3, <1>4, ConcatProperties

(* A sequence of requests that starts with a checked write of a block that *)
(* is not content.                                                         *)
StartsFull(s) ==
    /\ s \in Seq(WriteReq) /\ Len(s) >= 1
    /\ s[1].n = Block /\ s[1].check = "full" /\ s[1].part # "data"

LEMMA ReqType ==
    ASSUME NEW part \in Parts, NEW n \in Nat, NEW check \in {"full", "sign"}
    PROVE  /\ Req(part, n, check) \in WriteReq
           /\ Req(part, n, check).n = n /\ Req(part, n, check).check = check
           /\ Req(part, n, check).part = part
           /\ <<Req(part, n, check)>> \in Seq(WriteReq)
    BY DEF Req, WriteReq

(* The writes of an entry are requests, the first of a whole block.        *)
LEMMA EntryWritesFacts ==
    ASSUME NEW m \in Metas
    PROVE  StartsFull(EntryWrites(m))
    <1> DEFINE H == <<Req("header", Block, "full")>>
               X == XWrites(m)
               D == DataWrites(m)
    <1>1. m.pax \in Nat /\ m.size \in Nat /\ Block \in Nat
        BY MetasAssumption, BlockAssumption
    <1>2. Pad(m.pax) \in Nat
        <2>1. m.pax % Block \in 0..(Block - 1)
            BY <1>1, BlockAssumption
        <2>2. Block - (m.pax % Block) \in Nat
            BY <2>1, BlockAssumption
        <2> QED BY <2>2, BlockAssumption DEF Pad
    <1>3. StartsFull(H)
        <2>1. H \in Seq(WriteReq) /\ H[1] = Req("header", Block, "full") /\ Len(H) = 1
            BY <1>1, ReqType DEF Parts
        <2>2. H[1].n = Block /\ H[1].check = "full" /\ H[1].part # "data"
            BY <2>1, <1>1, ReqType DEF Parts
        <2> QED BY <2>1, <2>2 DEF StartsFull
    <1>4. X = << >> \/ StartsFull(X)
        <2>1. CASE m.pax = 0
            BY <2>1 DEF XWrites
        <2>2. CASE m.pax # 0
            <3> DEFINE Q == <<Req("xheader", Block, "full"), Req("xdata", m.pax, "full")>>
                       P == IF Pad(m.pax) > 0 THEN <<Req("xpad", Pad(m.pax), "sign")>>
                            ELSE << >>
            <3>1. Q \in Seq(WriteReq) /\ Len(Q) = 2 /\ Q[1] = Req("xheader", Block, "full")
                BY <1>1, ReqType DEF Parts
            <3>2. P \in Seq(WriteReq)
                <4>1. <<Req("xpad", Pad(m.pax), "sign")>> \in Seq(WriteReq)
                    BY <1>2, ReqType DEF Parts
                <4>2. << >> \in Seq(WriteReq)
                    OBVIOUS
                <4>3. CASE Pad(m.pax) > 0
                    BY <4>1, <4>3, Zenon
                <4>4. CASE ~(Pad(m.pax) > 0)
                    BY <4>2, <4>4, Zenon
                <4> QED BY <4>3, <4>4, Zenon
            <3>3. Q[1].n = Block /\ Q[1].check = "full" /\ Q[1].part # "data"
                BY <3>1, <1>1, ReqType DEF Parts
            <3>4. XWrites(m) = Q \o P
                BY <2>2 DEF XWrites
            <3> HIDE DEF Q, P, X, H, D
            <3>5. /\ Q \o P \in Seq(WriteReq) /\ Len(P) \in Nat
                  /\ Len(Q \o P) = Len(Q) + Len(P) /\ (Q \o P)[1] = Q[1]
                <4>1. /\ Q \o P \in Seq(WriteReq) /\ Len(P) \in Nat
                      /\ Len(Q \o P) = Len(Q) + Len(P)
                      /\ Len(Q) >= 1 => (Q \o P)[1] = Q[1]
                    <5>1. Q \in Seq(WriteReq) BY <3>1
                    <5> QED BY <5>1, <3>2, ConcatFirst
                <4>2. Len(Q) >= 1
                    BY <3>1
                <4> QED BY <4>1, <4>2
            <3>6. StartsFull(Q \o P)
                BY <3>1, <3>3, <3>5 DEF StartsFull
            <3> QED BY <3>4, <3>6 DEF X
        <2> QED BY <2>1, <2>2
    <1>5. D \in Seq(WriteReq)
        <2>1. DataBlocks(m) \in Nat
            BY <1>1, BlockAssumption DEF DataBlocks
        <2>2. Req("data", Block, "full") \in WriteReq
            BY <1>1, ReqType DEF Parts
        <2> QED BY <2>1, <2>2, IsASeq DEF DataWrites
    <1>6. EntryWrites(m) = (X \o H) \o D
        BY DEF EntryWrites
    <1> HIDE DEF X, H, D
    <1>7. StartsFull(X \o H)
        <2>1. CASE X = << >>
            <3>1. X \o H = H
                BY <1>3, <2>1, ConcatEmptySeq DEF StartsFull
            <3> QED BY <3>1, <1>3
        <2>2. CASE StartsFull(X)
            BY <1>3, <2>2, ConcatFirst DEF StartsFull
        <2> QED BY <1>4, <2>1, <2>2
    <1>8. StartsFull((X \o H) \o D)
        BY <1>5, <1>7, ConcatFirst DEF StartsFull
    <1> QED BY <1>6, <1>8

(***************************************************************************)
(* Type correctness                                                        *)
(***************************************************************************)
LEMMA EndWritesType == EndWrites \in Seq(WriteReq)
    BY BlockAssumption, ReqType DEF EndWrites, Parts

(* The length of the tar stream, and what appending a piece makes of it.   *)
LEMMA RawLenFacts ==
    ASSUME body \in Seq(Piece)
    PROVE  /\ RawLen \in Nat
           /\ \A e, part : \A n \in Nat :
                body' = Append(body, [entry |-> e, part |-> part, at |-> RawLen, n |-> n])
                => body' # << >> /\ RawLen' = RawLen + n
    <1>1. RawLen \in Nat
        <2>1. CASE body = << >>
            BY <2>1 DEF RawLen
        <2>2. CASE body # << >>
            <3>1. Len(body) \in 1..Len(body)
                BY <2>2
            <3>2. body[Len(body)] \in Piece
                BY <3>1
            <3> QED BY <2>2, <3>2 DEF RawLen, Piece
        <2> QED BY <2>1, <2>2
    <1>2. ASSUME NEW e, NEW part, NEW n \in Nat,
                 body' = Append(body, [entry |-> e, part |-> part, at |-> RawLen, n |-> n])
          PROVE  body' # << >> /\ RawLen' = RawLen + n
        <2> DEFINE piece == [entry |-> e, part |-> part, at |-> RawLen, n |-> n]
        <2>0. piece.at = RawLen /\ piece.n = n
            OBVIOUS
        <2> HIDE DEF piece
        <2>1. body' = Append(body, piece)
            BY <1>2 DEF piece
        <2>2. body \in Seq(Piece \cup {piece}) /\ piece \in Piece \cup {piece}
            BY SeqMonotonic
        <2>3. body' # << >> /\ Len(body') = Len(body) + 1 /\ body'[Len(body) + 1] = piece
            BY <2>1, <2>2, AppendFacts
        <2> QED BY <2>0, <2>3 DEF RawLen
    <1> QED BY <1>1, <1>2

(* The write the pax writer makes next, and those left after it.           *)
LEMMA HeadTailType ==
    ASSUME todo \in Seq(WriteReq), todo # << >>
    PROVE  /\ Head(todo) \in WriteReq /\ Tail(todo) \in Seq(WriteReq)
           /\ Head(todo).n \in Nat /\ Head(todo).part \in Parts
           /\ Head(todo).check \in {"full", "sign"}
    <1>1. Head(todo) \in WriteReq /\ Tail(todo) \in Seq(WriteReq)
        OBVIOUS
    <1> QED BY <1>1 DEF WriteReq

(* The two flags among the variables keep their type: an action sets them  *)
(* to a Boolean expression or leaves them alone.                           *)
TypeFlags == failed \in BOOLEAN /\ whole \in BOOLEAN

LEMMA FlagsStep ==
    ASSUME TypeFlags, [Next]_vars
    PROVE  TypeFlags'
    <1> USE DEF TypeFlags
    <1>1. ASSUME NEW m \in Metas, WriteEntry(m) PROVE TypeFlags'
        BY <1>1, Zenon DEF WriteEntry
    <1>2. CASE CreateCheckpoint
        <2>1. (whole' \in BOOLEAN) /\ (Fail \/ failed' = failed)
            BY <1>2, Zenon DEF CreateCheckpoint, Flushed
        <2> QED BY <2>1, Zenon DEF Fail
    <1>3. CASE WriteIndexLine BY <1>3, Zenon DEF WriteIndexLine
    <1>4. CASE PaxWrite
        <2>1. (whole' \in BOOLEAN) /\ (Fail \/ failed' = failed)
            BY <1>4, Zenon DEF PaxWrite, Wrote
        <2> QED BY <2>1, Zenon DEF Fail
    <1>5. CASE ContentShort BY <1>5, Zenon DEF ContentShort, Fail
    <1>6. CASE Finish BY <1>6, Zenon DEF Finish
    <1>7. CASE CloseBody
        <2>1. (whole' \in BOOLEAN) /\ (Fail \/ failed' = failed)
            BY <1>7, Zenon DEF CloseBody
        <2> QED BY <2>1, Zenon DEF Fail
    <1>8. CASE WriteIndexSection
        <2>1. whole' = whole /\ (Fail \/ failed' = failed)
            BY <1>8, Zenon DEF WriteIndexSection
        <2> QED BY <2>1, Zenon DEF Fail
    <1>9. CASE WriteCheckpointsSection
        <2>1. whole' = whole /\ (Fail \/ failed' = failed)
            BY <1>9, Zenon DEF WriteCheckpointsSection
        <2> QED BY <2>1, Zenon DEF Fail
    <1>10. CASE WriteTail
        <2>1. (whole' \in BOOLEAN) /\ (Fail \/ failed' = failed)
            BY <1>10, Zenon DEF WriteTail
        <2> QED BY <2>1, Zenon DEF Fail
    <1>11. CASE WriteEofMarker
        <2>1. whole' = whole /\ (Fail \/ failed' = failed)
            BY <1>11, Zenon DEF WriteEofMarker
        <2> QED BY <2>1, Zenon DEF Fail
    <1>12. CASE UNCHANGED vars BY <1>12, Zenon DEF vars
    <1> QED BY <1>1, <1>2, <1>3, <1>4, <1>5, <1>6, <1>7, <1>8, <1>9, <1>10, <1>11,
               <1>12, Zenon DEF Next, CallStep

(* The other variables; while an entry is being written there is one.      *)
Scalars == devLen \in Nat /\ ucount \in Nat /\ ccount \in Nat /\ lastCk \in Nat
Control ==
    /\ pc \in {"ready", "failed", "done"} \cup CallSteps
    /\ pc \in {"checkpoint", "index", "pax"} => metas # << >>
    /\ todo \in Seq(WriteReq)
Buffers ==
    /\ metas \in Seq(Metas)
    /\ acked \in Seq(Nat)
    /\ body \in Seq(Piece)
    /\ streams \in Seq([at : Nat, raw : Nat])
    /\ idxLines \in Seq(IndexLine)
    /\ ckLines \in Seq(CkLine)
Positions ==
    /\ layout \in [index : Int, checkpoints : Int, tail : Int, eof : Int]
    /\ tail \in [index : Int, checkpoints : Int]
TypeData == Scalars /\ Control /\ Buffers /\ Positions

LEMMA FailControl ==
    ASSUME Fail
    PROVE  Control'
    <1>1. pc' = "failed" \/ pc' = "ready"
        BY Zenon DEF Fail
    <1>2. todo' = << >>
        BY DEF Fail
    <1> QED BY <1>1, <1>2 DEF Control

(* The step of a call that goes on to pc value p without touching todo.    *)
LEMMA GoOnControl ==
    ASSUME Control, NEW p \in FinishSteps \cup {"done"},
           Fail \/ (pc' = p /\ UNCHANGED todo)
    PROVE  Control'
    BY FailControl DEF Control, CallSteps, FinishSteps

LEMMA ScalarsStep ==
    ASSUME TypeData, [Next]_vars
    PROVE  Scalars'
    <1> USE DEF Scalars
    <1>0. Scalars
        BY DEF TypeData
    <1>1. ASSUME NEW m \in Metas, WriteEntry(m) PROVE Scalars'
        BY <1>0, <1>1 DEF WriteEntry
    <1>2. CASE CreateCheckpoint
        <2>1. PICK d \in CompressorFinish : Flushed(d)
            BY <1>2 DEF CreateCheckpoint
        <2>2. /\ devLen' = devLen + d.got /\ ccount' = ccount + d.got
              /\ lastCk' = ucount \/ lastCk' = lastCk
            BY <2>1, Zenon DEF Flushed
        <2>3. d.got \in Nat
            BY FinishFacts
        <2>4. UNCHANGED ucount
            BY <1>2 DEF CreateCheckpoint
        <2> QED BY <1>0, <2>2, <2>3, <2>4
    <1>3. CASE WriteIndexLine BY <1>0, <1>3 DEF WriteIndexLine
    <1>4. CASE PaxWrite
        <2>1. PICK o \in CompressorWrite(Head(todo).n) : Wrote(Head(todo), o)
            BY <1>4 DEF PaxWrite
        <2>2. /\ ucount' = IF o.ret > 0 THEN ucount + o.ret ELSE ucount
              /\ devLen' = devLen + o.got
              /\ ccount' = ccount + o.got
            BY <2>1, Zenon DEF Wrote
        <2>3. Head(todo).n \in Nat
            BY <1>4, HeadTailType DEF PaxWrite, TypeData, Control
        <2>4. o.ret \in Int /\ o.got \in Nat
            BY <2>3, WriteFacts
        <2>5. UNCHANGED lastCk
            BY <1>4 DEF PaxWrite
        <2> QED BY <1>0, <2>2, <2>4, <2>5
    <1>5. CASE ContentShort BY <1>0, <1>5 DEF ContentShort
    <1>6. CASE Finish BY <1>0, <1>6 DEF Finish
    <1>7. CASE CloseBody
        <2>1. PICK d \in CompressorFinish : devLen' = devLen + d.got /\ ccount' = ccount + d.got
            BY <1>7, Zenon DEF CloseBody
        <2>2. d.got \in Nat
            BY FinishFacts
        <2>3. UNCHANGED <<ucount, lastCk>>
            BY <1>7 DEF CloseBody
        <2> QED BY <1>0, <2>1, <2>2, <2>3
    <1>8. ASSUME NEW len \in Nat, NEW got \in OutputWrite(len),
                 devLen' = IF got > 0 THEN devLen + got ELSE devLen,
                 UNCHANGED <<ucount, ccount, lastCk>>
          PROVE  Scalars'
        <2>1. got \in Int
            BY OutputFacts
        <2> QED BY <1>0, <1>8, <2>1
    <1>9. CASE WriteIndexSection
        <2>1. PICK len \in SectionLengths(Len(idxLines)) : \E got \in OutputWrite(len) :
                devLen' = IF got > 0 THEN devLen + got ELSE devLen
            BY <1>9, Zenon DEF WriteIndexSection
        <2>2. len \in Nat
            BY SectionFacts DEF TypeData, Buffers
        <2> QED BY <1>8, <1>9, <2>1, <2>2 DEF WriteIndexSection
    <1>10. CASE WriteCheckpointsSection
        <2>1. PICK len \in SectionLengths(Len(ckLines)) : \E got \in OutputWrite(len) :
                devLen' = IF got > 0 THEN devLen + got ELSE devLen
            BY <1>10, Zenon DEF WriteCheckpointsSection
        <2>2. len \in Nat
            BY SectionFacts DEF TypeData, Buffers
        <2> QED BY <1>8, <1>10, <2>1, <2>2 DEF WriteCheckpointsSection
    <1>11. CASE WriteTail
        <2>1. PICK d \in TailOutcomes : devLen' = devLen + d.got
            BY <1>11, Zenon DEF WriteTail
        <2>2. d.got \in Nat
            BY TailFacts
        <2>3. UNCHANGED <<ucount, ccount, lastCk>>
            BY <1>11 DEF WriteTail
        <2> QED BY <1>0, <2>1, <2>2, <2>3
    <1>12. CASE WriteEofMarker
        <2>1. PICK got \in OutputWrite(1) : devLen' = IF got > 0 THEN devLen + got ELSE devLen
            BY <1>12, Zenon DEF WriteEofMarker
        <2> QED BY <1>8, <1>12, <2>1 DEF WriteEofMarker
    <1>13. CASE UNCHANGED vars BY <1>0, <1>13 DEF vars
    <1> QED BY <1>1, <1>2, <1>3, <1>4, <1>5, <1>6, <1>7, <1>9, <1>10, <1>11, <1>12,
               <1>13 DEF Next, CallStep

LEMMA ControlStep ==
    ASSUME TypeData, [Next]_vars
    PROVE  Control'
    <1>0. Control /\ metas \in Seq(Metas)
        BY DEF TypeData, Buffers
    <1> USE DEF CallSteps, FinishSteps
    <1>1. ASSUME NEW m \in Metas, WriteEntry(m) PROVE Control'
        <2>1. metas' # << >>
            BY <1>0, <1>1, AppendFacts DEF WriteEntry
        <2> QED BY <1>0, <1>1, <2>1 DEF WriteEntry, Control
    <1>2. CASE CreateCheckpoint
        <2>1. Fail \/ (pc' = "index" /\ UNCHANGED todo)
            BY <1>2, Zenon DEF CreateCheckpoint, Flushed
        <2>2. pc = "checkpoint" /\ UNCHANGED metas
            BY <1>2 DEF CreateCheckpoint
        <2> QED BY <1>0, <2>1, <2>2, FailControl DEF Control
    <1>3. CASE WriteIndexLine
        <2>1. metas # << >>
            BY <1>0, <1>3 DEF WriteIndexLine, Control
        <2>2. Len(metas) \in 1..Len(metas)
            BY <1>0, <2>1
        <2>3. metas[Len(metas)] \in Metas
            BY <1>0, <2>2
        <2>4. todo' \in Seq(WriteReq)
            BY <1>3, <2>3, EntryWritesFacts DEF WriteIndexLine, StartsFull
        <2> QED BY <1>3, <2>1, <2>4 DEF WriteIndexLine, Control
    <1>4. CASE PaxWrite
        <2>1. Fail \/ (todo' = Tail(todo) /\ pc' \in {pc, "ready", "close"})
            BY <1>4, Zenon DEF PaxWrite, Wrote
        <2>2. todo # << >> /\ UNCHANGED metas
            BY <1>4 DEF PaxWrite
        <2>3. Tail(todo) \in Seq(WriteReq)
            BY <1>0, <2>2, HeadTailType DEF Control
        <2> QED BY <1>0, <2>1, <2>2, <2>3, FailControl DEF Control
    <1>5. CASE ContentShort
        BY <1>5, FailControl DEF ContentShort
    <1>6. CASE Finish
        BY <1>0, <1>6, EndWritesType DEF Finish, Control
    <1>7. CASE CloseBody
        <2>1. Fail \/ (pc' = "index section" /\ UNCHANGED todo)
            BY <1>7, Zenon DEF CloseBody
        <2> QED BY <1>0, <2>1, GoOnControl
    <1>8. CASE WriteIndexSection
        <2>1. Fail \/ (pc' = "checkpoints section" /\ UNCHANGED todo)
            BY <1>8, Zenon DEF WriteIndexSection
        <2> QED BY <1>0, <2>1, GoOnControl
    <1>9. CASE WriteCheckpointsSection
        <2>1. Fail \/ (pc' = "tail section" /\ UNCHANGED todo)
            BY <1>9, Zenon DEF WriteCheckpointsSection
        <2> QED BY <1>0, <2>1, GoOnControl
    <1>10. CASE WriteTail
        <2>1. Fail \/ (pc' = "eof" /\ UNCHANGED todo)
            BY <1>10, Zenon DEF WriteTail
        <2> QED BY <1>0, <2>1, GoOnControl
    <1>11. CASE WriteEofMarker
        <2>1. Fail \/ (pc' = "done" /\ UNCHANGED todo)
            BY <1>11, Zenon DEF WriteEofMarker
        <2> QED BY <1>0, <2>1, GoOnControl
    <1>12. CASE UNCHANGED vars BY <1>0, <1>12 DEF vars, Control
    <1> QED BY <1>1, <1>2, <1>3, <1>4, <1>5, <1>6, <1>7, <1>8, <1>9, <1>10, <1>11,
               <1>12 DEF Next, CallStep

LEMMA BuffersStep ==
    ASSUME TypeData, [Next]_vars
    PROVE  Buffers'
    <1>0. Buffers /\ Scalars
        BY DEF TypeData
    <1>1. RawLen \in Nat /\ Len(metas) \in Nat
        BY <1>0, RawLenFacts DEF Buffers
    <1>2. ASSUME NEW m \in Metas, WriteEntry(m) PROVE Buffers'
        <2>1. metas' \in Seq(Metas)
            BY <1>0, <1>2, AppendFacts DEF WriteEntry, Buffers
        <2> QED BY <1>0, <1>2, <2>1 DEF WriteEntry, Buffers
    <1>3. CASE CreateCheckpoint
        <2>1. /\ UNCHANGED <<metas, acked, body, ucount, idxLines>>
              /\ \/ streams' = streams
                 \/ streams' = Append(streams, [at |-> devLen', raw |-> RawLen])
              /\ \/ ckLines' = ckLines
                 \/ ckLines' = Append(ckLines, [c |-> ccount', u |-> ucount])
            BY <1>3, Zenon DEF CreateCheckpoint, Flushed
        <2>2. devLen' \in Nat /\ ccount' \in Nat
            BY ScalarsStep DEF Scalars
        <2>3. /\ [at |-> devLen', raw |-> RawLen] \in [at : Nat, raw : Nat]
              /\ [c |-> ccount', u |-> ucount] \in CkLine
            BY <1>0, <1>1, <2>2 DEF CkLine, Scalars
        <2>4. streams' \in Seq([at : Nat, raw : Nat])
            <3>1. streams \in Seq([at : Nat, raw : Nat])
                BY <1>0 DEF Buffers
            <3>2. Append(streams, [at |-> devLen', raw |-> RawLen]) \in Seq([at : Nat, raw : Nat])
                BY <2>3, <3>1, AppendFacts
            <3> QED BY <2>1, <3>1, <3>2
        <2>5. ckLines' \in Seq(CkLine)
            <3>1. ckLines \in Seq(CkLine)
                BY <1>0 DEF Buffers
            <3>2. Append(ckLines, [c |-> ccount', u |-> ucount]) \in Seq(CkLine)
                BY <2>3, <3>1, AppendFacts
            <3> QED BY <2>1, <3>1, <3>2
        <2> QED BY <1>0, <2>1, <2>4, <2>5 DEF Buffers
    <1>4. CASE WriteIndexLine
        <2>1. idxLines' = Append(idxLines, [entry |-> Len(metas), off |-> ucount])
            BY <1>4 DEF WriteIndexLine
        <2>2. [entry |-> Len(metas), off |-> ucount] \in IndexLine
            BY <1>0, <1>1 DEF IndexLine, Scalars
        <2>3. idxLines' \in Seq(IndexLine)
            BY <1>0, <2>1, <2>2, AppendFacts DEF Buffers
        <2> QED BY <1>0, <1>4, <2>3 DEF WriteIndexLine, Buffers
    <1>5. CASE PaxWrite
        <2> DEFINE w == Head(todo)
        <2>1. PICK o \in CompressorWrite(w.n) : Wrote(w, o)
            BY <1>5 DEF PaxWrite
        <2>2. UNCHANGED <<metas, streams, idxLines, ckLines>>
            BY <1>5 DEF PaxWrite
        <2>3. w.n \in Nat /\ w.part \in Parts
            BY <1>5, HeadTailType DEF PaxWrite, TypeData, Control
        <2>4. o.raw \in Nat
            BY <2>3, WriteFacts
        <2> DEFINE piece == [entry |-> IF pc = "pax" THEN Len(metas) ELSE 0,
                             part |-> w.part, at |-> RawLen, n |-> o.raw]
        <2>5. piece \in Piece
            BY <1>1, <2>3, <2>4 DEF Piece
        <2>6. /\ body' = Append(body, piece) \/ body' = body
              /\ acked' = Append(acked, Len(metas)) \/ acked' = acked
            BY <2>1, Zenon DEF Wrote
        <2> HIDE DEF w, piece
        <2>7. body' \in Seq(Piece)
            <3>1. body \in Seq(Piece)
                BY <1>0 DEF Buffers
            <3>2. Append(body, piece) \in Seq(Piece)
                BY <2>5, <3>1, AppendFacts
            <3> QED BY <2>6, <3>1, <3>2
        <2>8. acked' \in Seq(Nat)
            <3>1. acked \in Seq(Nat)
                BY <1>0 DEF Buffers
            <3>2. Append(acked, Len(metas)) \in Seq(Nat)
                BY <1>1, <3>1, AppendFacts
            <3> QED BY <2>6, <3>1, <3>2
        <2> QED BY <1>0, <2>2, <2>7, <2>8 DEF Buffers
    <1>6. ASSUME UNCHANGED <<metas, acked, body, streams, idxLines, ckLines>> PROVE Buffers'
        BY <1>0, <1>6 DEF Buffers
    <1>7. CASE ContentShort \/ Finish \/ CloseBody
        BY <1>6, <1>7 DEF ContentShort, Finish, CloseBody
    <1>8. CASE WriteIndexSection \/ WriteCheckpointsSection \/ WriteTail \/ WriteEofMarker
        BY <1>6, <1>8 DEF WriteIndexSection, WriteCheckpointsSection, WriteTail,
                          WriteEofMarker
    <1>9. CASE UNCHANGED vars BY <1>6, <1>9 DEF vars
    <1> QED BY <1>2, <1>3, <1>4, <1>5, <1>7, <1>8, <1>9 DEF Next, CallStep

LEMMA PositionsStep ==
    ASSUME TypeData, [Next]_vars
    PROVE  Positions'
    <1> DEFINE L == [index : Int, checkpoints : Int, tail : Int, eof : Int]
    <1>0. layout \in L /\ tail \in [index : Int, checkpoints : Int] /\ Scalars
        BY DEF TypeData, Positions
    <1>1. /\ [layout EXCEPT !.index = devLen] \in L
          /\ [layout EXCEPT !.checkpoints = devLen] \in L
          /\ [layout EXCEPT !.tail = devLen] \in L
          /\ [layout EXCEPT !.eof = devLen] \in L
        BY <1>0 DEF Scalars
    <1> HIDE DEF L
    <1>2. CASE WriteIndexSection
        <2>1. PICK len \in SectionLengths(Len(idxLines)) :
                tail' = [index |-> ccount, checkpoints |-> ccount + len]
            BY <1>2, Zenon DEF WriteIndexSection
        <2>2. len \in Nat
            BY SectionFacts DEF TypeData, Buffers
        <2>3. tail' \in [index : Int, checkpoints : Int]
            BY <1>0, <2>1, <2>2 DEF Scalars
        <2>4. layout' \in L
            BY <1>1, <1>2, Zenon DEF WriteIndexSection
        <2> QED BY <2>3, <2>4 DEF Positions, L
    <1>3. CASE WriteCheckpointsSection \/ WriteTail \/ WriteEofMarker
        <2>1. layout' \in L /\ tail' = tail
            BY <1>1, <1>3, Zenon DEF WriteCheckpointsSection, WriteTail, WriteEofMarker
        <2> QED BY <1>0, <2>1 DEF Positions, L
    <1>4. ASSUME UNCHANGED <<layout, tail>> PROVE Positions'
        BY <1>0, <1>4 DEF Positions, L
    <1> QED BY <1>2, <1>3, <1>4, Zenon
            DEF Next, CallStep, WriteEntry, CreateCheckpoint, WriteIndexLine, PaxWrite,
                ContentShort, Finish, CloseBody, vars

(* Every reachable state of the writer has the types of TypeOK, whatever   *)
(* the metadata, block size, spacing, compressor and faults.               *)
TypeInv == TypeData /\ TypeFlags

LEMMA TypeInvIsType == TypeInv => TypeOK
    BY Zenon DEF TypeInv, TypeOK, TypeData, TypeFlags, Scalars, Control, Buffers, Positions

LEMMA TypeInit == Init => TypeInv
    <1>1. Init => TypeData
        BY DEF Init, TypeData, Scalars, Control, Buffers, Positions, Nowhere
    <1>2. Init => TypeFlags
        BY Zenon DEF Init, TypeFlags
    <1> QED BY <1>1, <1>2 DEF TypeInv

LEMMA TypeStep == TypeInv /\ [Next]_vars => TypeInv'
    BY ScalarsStep, ControlStep, BuffersStep, PositionsStep, FlagsStep, Zenon
    DEF TypeInv, TypeData

THEOREM TypeCorrect == Spec => []TypeOK
    <1> QED BY TypeInit, TypeStep, TypeInvIsType, PTL DEF Spec

(***************************************************************************)
(* The counters                                                            *)
(***************************************************************************)

(* What the counting writers count, as long as the writer is in use; with  *)
(* the plain compressor the two count the same cells.                      *)
Counts ==
    /\ pc # "failed" => ucount = RawLen
    /\ pc # "failed" /\ pc \notin Trailing => ccount = devLen
    /\ pc # "failed" /\ ~Gzip => ccount = ucount

(* A failed call leaves the writer unusable, unless only the sources fail. *)
LEMMA FailStops ==
    ASSUME Fail, StopOnError \/ pc \in FinishSteps
    PROVE  pc' = "failed"
    BY Zenon DEF Fail

LEMMA CountsStep ==
    ASSUME TypeInv, Counts, [Next]_vars
    PROVE  Counts'
    <1>0. Scalars /\ body \in Seq(Piece) /\ StopOnError \in BOOLEAN /\ RawLen \in Nat
        BY RawLenFacts, StopAssumption DEF TypeInv, TypeData, Buffers
    <1>1. ASSUME pc' = "failed" PROVE Counts'
        BY <1>1, Zenon DEF Counts
    <1>2. ASSUME UNCHANGED <<body, ucount, ccount, devLen>>, pc # "failed", pc \notin Trailing
          PROVE  Counts'
        <2>1. RawLen' = RawLen
            BY <1>2 DEF RawLen
        <2> QED BY <1>2, <2>1 DEF Counts
    <1>3. ASSUME NEW m \in Metas, WriteEntry(m) PROVE Counts'
        BY <1>2, <1>3 DEF WriteEntry, MayCall, Trailing
    <1>4. CASE CreateCheckpoint
        <2>1. PICK d \in CompressorFinish : Flushed(d)
            BY <1>4 DEF CreateCheckpoint
        <2>2. UNCHANGED <<body, ucount>> /\ pc = "checkpoint"
            BY <1>4 DEF CreateCheckpoint
        <2>3. CASE d.ok
            <3>1. devLen' = devLen + d.got /\ ccount' = ccount + d.got /\ pc' = "index"
                BY <2>1, <2>3, Zenon DEF Flushed
            <3>2. d.got \in Nat /\ (~Gzip => d.got = 0)
                BY FinishFacts
            <3>3. RawLen' = RawLen
                BY <2>2 DEF RawLen
            <3> QED BY <1>0, <2>2, <3>1, <3>2, <3>3 DEF Counts, Scalars, Trailing
        <2>4. CASE ~d.ok
            <3>1. Fail
                BY <2>1, <2>4, Zenon DEF Flushed
            <3>2. StopOnError
                BY <2>4, FinishFacts, Zenon
            <3> QED BY <1>1, <3>1, <3>2, FailStops
        <2> QED BY <2>3, <2>4
    <1>5. CASE WriteIndexLine
        BY <1>2, <1>5 DEF WriteIndexLine, Trailing
    <1>6. CASE PaxWrite
        <2> DEFINE w == Head(todo)
        <2>1. PICK o \in CompressorWrite(w.n) : Wrote(w, o)
            BY <1>6 DEF PaxWrite
        <2>2. pc \in {"pax", "end"} /\ w.n \in Nat
            BY <1>6, HeadTailType DEF PaxWrite, TypeInv, TypeData, Control
        <2>3. /\ o.ret \in Int /\ o.raw \in Nat /\ o.got \in Nat
              /\ o.ret >= 0 => o.raw = o.ret
              /\ ~Gzip => o.got = o.raw
              /\ ~StopOnError => o.ret = w.n
            BY <2>2, WriteFacts
        <2> HIDE DEF w
        <2>4. CASE o.ret < 0 \/ (w.check = "full" /\ o.ret < w.n)
            <3>1. Fail
                BY <2>1, <2>4, Zenon DEF Wrote
            <3>2. o.ret # w.n
                BY <2>2, <2>3, <2>4
            <3>3. StopOnError
                BY <2>3, <3>2, Zenon
            <3> QED BY <1>1, <3>1, <3>3, FailStops
        <2>5. CASE ~(o.ret < 0 \/ (w.check = "full" /\ o.ret < w.n))
            <3>1. /\ ucount' = IF o.ret > 0 THEN ucount + o.ret ELSE ucount
                  /\ devLen' = devLen + o.got
                  /\ ccount' = ccount + o.got
                  /\ pc' \in {pc, "ready", "close"}
                BY <2>1, <2>5, Zenon DEF Wrote
            <3>2. o.ret >= 0 /\ o.raw = o.ret
                BY <2>3, <2>5
            <3>3. RawLen' = RawLen + o.raw
                <4>1. CASE o.raw > 0
                    <5>1. body' = Append(body, [entry |-> IF pc = "pax" THEN Len(metas) ELSE 0,
                                                part |-> w.part, at |-> RawLen, n |-> o.raw])
                        BY <2>1, <4>1 DEF Wrote
                    <5> QED BY <1>0, <2>3, <5>1, RawLenFacts
                <4>2. CASE o.raw = 0
                    <5>1. ~(o.raw > 0)
                        BY <4>2
                    <5>2. body' = body
                        BY <2>1, <5>1, Zenon DEF Wrote
                    <5>3. RawLen' = RawLen
                        BY <5>2 DEF RawLen
                    <5> QED BY <1>0, <4>2, <5>3
                <4> QED BY <2>3, <4>1, <4>2
            <3>4. ucount = RawLen /\ ccount = devLen /\ (~Gzip => ccount = ucount)
                BY <2>2, Zenon DEF Counts, Trailing
            <3>5. ucount' = RawLen' /\ ccount' = devLen'
                BY <1>0, <2>3, <3>1, <3>2, <3>3, <3>4 DEF Scalars
            <3>6. ASSUME ~Gzip PROVE ccount' = ucount'
                <4>1. ccount = ucount /\ o.got = o.raw
                    BY <2>3, <3>4, <3>6, Zenon
                <4> QED BY <1>0, <2>3, <3>1, <3>2, <4>1 DEF Scalars
            <3> QED BY <3>5, <3>6, Zenon DEF Counts
        <2> QED BY <2>4, <2>5
    <1>7. CASE ContentShort
        BY <1>2, <1>7 DEF ContentShort, Trailing
    <1>8. CASE Finish
        BY <1>2, <1>8 DEF Finish, MayCall, Trailing
    <1>9. CASE CloseBody
        <2>1. PICK d \in CompressorFinish :
                /\ devLen' = devLen + d.got /\ ccount' = ccount + d.got
                /\ Fail \/ pc' = "index section"
            BY <1>9, Zenon DEF CloseBody
        <2>2. UNCHANGED <<body, ucount>> /\ pc = "close"
            BY <1>9 DEF CloseBody
        <2>3. CASE Fail
            BY <1>1, <2>2, <2>3, FailStops DEF FinishSteps
        <2>4. CASE pc' = "index section"
            <3>1. d.got \in Nat /\ (~Gzip => d.got = 0)
                BY FinishFacts
            <3>2. RawLen' = RawLen
                BY <2>2 DEF RawLen
            <3>3. ucount = RawLen /\ ccount = devLen /\ (~Gzip => ccount = ucount)
                BY <2>2, Zenon DEF Counts, Trailing
            <3>4. ucount' = RawLen' /\ ccount' = devLen'
                BY <1>0, <2>1, <2>2, <3>1, <3>2, <3>3 DEF Scalars
            <3>5. ASSUME ~Gzip PROVE ccount' = ucount'
                <4>1. ccount = ucount /\ d.got = 0
                    BY <3>1, <3>3, <3>5, Zenon
                <4>2. ccount' = ccount + d.got /\ ucount' = ucount /\ ccount \in Nat
                    BY <1>0, <2>1, <2>2, Zenon DEF Scalars
                <4> QED BY <4>1, <4>2
            <3> QED BY <3>4, <3>5, Zenon DEF Counts
        <2> QED BY <2>1, <2>3, <2>4
    <1>10. ASSUME UNCHANGED <<body, ucount, ccount>>, pc # "failed",
                  pc' = "failed" \/ pc' \in Trailing
           PROVE  Counts'
        <2>1. RawLen' = RawLen
            BY <1>10 DEF RawLen
        <2> QED BY <1>10, <2>1 DEF Counts, Trailing
    <1>11. CASE WriteIndexSection
        <2>1. Fail \/ pc' = "checkpoints section"
            BY <1>11, Zenon DEF WriteIndexSection
        <2> QED BY <1>10, <1>11, <2>1, FailStops DEF WriteIndexSection, FinishSteps, Trailing
    <1>12. CASE WriteCheckpointsSection
        <2>1. Fail \/ pc' = "tail section"
            BY <1>12, Zenon DEF WriteCheckpointsSection
        <2> QED BY <1>10, <1>12, <2>1, FailStops
                DEF WriteCheckpointsSection, FinishSteps, Trailing
    <1>13. CASE WriteTail
        <2>1. Fail \/ pc' = "eof"
            BY <1>13, Zenon DEF WriteTail
        <2> QED BY <1>10, <1>13, <2>1, FailStops DEF WriteTail, FinishSteps, Trailing
    <1>14. CASE WriteEofMarker
        <2>1. Fail \/ pc' = "done"
            BY <1>14, Zenon DEF WriteEofMarker
        <2> QED BY <1>10, <1>14, <2>1, FailStops DEF WriteEofMarker, FinishSteps, Trailing
    <1>15. CASE UNCHANGED vars
        <2>1. RawLen' = RawLen
            BY <1>15 DEF RawLen, vars
        <2> QED BY <1>15, <2>1 DEF Counts, vars
    <1> QED BY <1>3, <1>4, <1>5, <1>6, <1>7, <1>8, <1>9, <1>11, <1>12, <1>13, <1>14,
               <1>15 DEF Next, CallStep

LEMMA CountsInit == Init => Counts
    BY DEF Init, Counts, RawLen

(* The counters of the two counting writers are the lengths they stand     *)
(* for, with either compressor and through failing sources.                *)
THEOREM CountsCorrect == Spec => []CountsExact
    <1>1. Counts => CountsExact
        BY DEF Counts, CountsExact
    <1> QED BY <1>1, TypeInit, TypeStep, CountsInit, CountsStep, PTL DEF Spec

(***************************************************************************)
(* The checkpoints                                                         *)
(***************************************************************************)

(* The counters never go back.                                             *)
LEMMA CountersGrow ==
    ASSUME TypeInv, [Next]_vars
    PROVE  ucount' >= ucount /\ ccount' >= ccount
    <1>0. Scalars
        BY DEF TypeInv, TypeData
    <1>1. CASE CreateCheckpoint
        <2>1. PICK d \in CompressorFinish : ccount' = ccount + d.got
            BY <1>1, Zenon DEF CreateCheckpoint, Flushed
        <2>2. d.got \in Nat
            BY FinishFacts
        <2>3. UNCHANGED ucount
            BY <1>1 DEF CreateCheckpoint
        <2> QED BY <1>0, <2>1, <2>2, <2>3 DEF Scalars
    <1>2. CASE PaxWrite
        <2>1. PICK o \in CompressorWrite(Head(todo).n) :
                /\ ucount' = IF o.ret > 0 THEN ucount + o.ret ELSE ucount
                /\ ccount' = ccount + o.got
            BY <1>2, Zenon DEF PaxWrite, Wrote
        <2>2. Head(todo).n \in Nat
            BY <1>2, HeadTailType DEF PaxWrite, TypeInv, TypeData, Control
        <2>3. o.ret \in Int /\ o.got \in Nat
            BY <2>2, WriteFacts
        <2> QED BY <1>0, <2>1, <2>3 DEF Scalars
    <1>3. CASE CloseBody
        <2>1. PICK d \in CompressorFinish : ccount' = ccount + d.got
            BY <1>3, Zenon DEF CloseBody
        <2>2. d.got \in Nat
            BY FinishFacts
        <2>3. UNCHANGED ucount
            BY <1>3 DEF CloseBody
        <2> QED BY <1>0, <2>1, <2>2, <2>3 DEF Scalars
    <1>4. CASE UNCHANGED <<ucount, ccount>>
        BY <1>0, <1>4 DEF Scalars
    <1> QED BY <1>1, <1>2, <1>3, <1>4, Zenon
            DEF Next, CallStep, WriteEntry, WriteIndexLine, ContentShort, Finish,
                WriteIndexSection, WriteCheckpointsSection, WriteTail, WriteEofMarker, vars

(* What create_checkpoint did when it returned 0 after got cells.          *)
Checkpointed(got) ==
    /\ pc = "checkpoint" /\ pc' = "index"
    /\ ckLines' = Append(ckLines, [c |-> ccount', u |-> ucount])
    /\ streams' = IF Gzip THEN Append(streams, [at |-> devLen', raw |-> RawLen])
                  ELSE streams
    /\ lastCk' = ucount
    /\ ccount' = ccount + got /\ devLen' = devLen + got
    /\ UNCHANGED <<ucount, body, idxLines, metas, todo>>

(* Nothing else touches the checkpoints, the streams or lastCk.            *)
LEMMA CheckpointEffect ==
    ASSUME [Next]_vars
    PROVE  \/ UNCHANGED <<ckLines, streams, lastCk>>
           \/ \E got \in Nat : Checkpointed(got) /\ (~Gzip => got = 0)
    <1>1. CASE CreateCheckpoint
        <2>1. PICK d \in CompressorFinish : Flushed(d)
            BY <1>1 DEF CreateCheckpoint
        <2>2. CASE d.ok
            <3>1. Checkpointed(d.got)
                BY <1>1, <2>1, <2>2, Zenon DEF CreateCheckpoint, Flushed, Checkpointed
            <3>2. d.got \in Nat /\ (~Gzip => d.got = 0)
                BY FinishFacts
            <3> QED BY <3>1, <3>2
        <2>3. CASE ~d.ok
            BY <2>1, <2>3, Zenon DEF Flushed
        <2> QED BY <2>2, <2>3
    <1>2. CASE UNCHANGED <<ckLines, streams, lastCk>>
        BY <1>2
    <1> QED BY <1>1, <1>2, Zenon
            DEF Next, CallStep, WriteEntry, WriteIndexLine, PaxWrite, ContentShort, Finish,
                CloseBody, WriteIndexSection, WriteCheckpointsSection, WriteTail,
                WriteEofMarker, vars

(* How a call comes to create a checkpoint, and to write its index line.   *)
LEMMA EntryEffect ==
    ASSUME [Next]_vars
    PROVE  /\ pc' = "checkpoint" => /\ pc = "checkpoint" \/ NeedsCheckpoint
                                    /\ UNCHANGED <<ucount, lastCk, body>>
           /\ pc' = "index" => \/ /\ pc = "index" \/ (pc = "ready" /\ ~NeedsCheckpoint)
                                  /\ UNCHANGED <<ucount, lastCk, body>>
                               \/ \E got \in Nat : Checkpointed(got)
    <1>1. ASSUME NEW m \in Metas, WriteEntry(m)
          PROVE  /\ pc' = IF NeedsCheckpoint THEN "checkpoint" ELSE "index"
                 /\ pc = "ready" /\ UNCHANGED <<ucount, lastCk, body>>
        BY <1>1, Zenon DEF WriteEntry, MayCall
    <1>2. CASE CreateCheckpoint
        <2>1. PICK d \in CompressorFinish : Flushed(d)
            BY <1>2 DEF CreateCheckpoint
        <2>2. CASE d.ok
            <3>1. Checkpointed(d.got)
                BY <1>2, <2>1, <2>2, Zenon DEF CreateCheckpoint, Flushed, Checkpointed
            <3>2. d.got \in Nat
                BY FinishFacts
            <3> QED BY <3>1, <3>2 DEF Checkpointed
        <2>3. CASE ~d.ok
            <3>1. pc' = "failed" \/ pc' = "ready"
                BY <2>1, <2>3, Zenon DEF Flushed, Fail
            <3> QED BY <3>1
        <2> QED BY <2>2, <2>3
    <1>3. CASE WriteIndexLine \/ Finish
        BY <1>3 DEF WriteIndexLine, Finish
    <1>4. ASSUME pc' \in {"failed", "ready", "pax", "close"} \cup FinishSteps \cup {"done"}
          PROVE  pc' # "checkpoint" /\ pc' # "index"
        BY <1>4 DEF FinishSteps
    <1>5. CASE PaxWrite
        <2>1. Fail \/ pc' \in {pc, "ready", "close"}
            BY <1>5, Zenon DEF PaxWrite, Wrote
        <2>2. pc' \in {"failed", "ready", "pax", "end", "close"}
            BY <1>5, <2>1, Zenon DEF PaxWrite, Fail
        <2> QED BY <2>2
    <1>6. CASE ContentShort
        <2>1. pc' = "failed" \/ pc' = "ready"
            BY <1>6, Zenon DEF ContentShort, Fail
        <2> QED BY <2>1
    <1>7. CASE CloseBody \/ WriteIndexSection \/ WriteCheckpointsSection \/ WriteTail
               \/ WriteEofMarker
        <2>1. Fail \/ pc' \in {"index section", "checkpoints section", "tail section",
                               "eof", "done"}
            BY <1>7, Zenon DEF CloseBody, WriteIndexSection, WriteCheckpointsSection,
                               WriteTail, WriteEofMarker
        <2>2. pc' \in {"failed", "ready", "index section", "checkpoints section",
                       "tail section", "eof", "done"}
            BY <2>1, Zenon DEF Fail
        <2> QED BY <2>2
    <1>8. CASE UNCHANGED vars
        BY <1>8 DEF vars
    <1> QED BY <1>1, <1>2, <1>3, <1>5, <1>6, <1>7, <1>8 DEF Next, CallStep

(* Every recorded offset is within what has been written; the last one is  *)
(* lastCk; a checkpoint is created exactly when it is due.                 *)
CkBounds ==
    /\ \A i \in 1..Len(ckLines) : ckLines[i].c <= ccount /\ ckLines[i].u <= lastCk
    /\ lastCk <= ucount
    /\ lastCk = 0 \/ \E i \in 1..Len(ckLines) : ckLines[i].u = lastCk
    /\ pc = "checkpoint" => lastCk + Limit < ucount
    /\ pc = "index" => ucount <= lastCk + Limit

LEMMA NewCheckpoint ==
    ASSUME TypeInv, NEW got \in Nat, Checkpointed(got)
    PROVE  /\ Len(ckLines) \in Nat /\ Len(ckLines') = Len(ckLines) + 1
           /\ \A i \in 1..Len(ckLines) : ckLines'[i] = ckLines[i] /\ ckLines[i] \in CkLine
           /\ ckLines'[Len(ckLines) + 1].c = ccount'
           /\ ckLines'[Len(ckLines) + 1].u = ucount
    <1>0. Scalars /\ ckLines \in Seq(CkLine)
        BY DEF TypeInv, TypeData, Buffers
    <1> DEFINE e == [c |-> ccount', u |-> ucount]
    <1>1. e \in CkLine /\ e.c = ccount' /\ e.u = ucount
        BY <1>0 DEF CkLine, Checkpointed, Scalars
    <1>2. ckLines' = Append(ckLines, e)
        BY DEF Checkpointed
    <1> HIDE DEF e
    <1> QED BY <1>0, <1>1, <1>2, AppendFacts

LEMMA CkBoundsStep ==
    ASSUME TypeInv, CkBounds, [Next]_vars
    PROVE  CkBounds'
    <1>0. Scalars /\ ckLines \in Seq(CkLine) /\ Limit \in Nat
        BY LimitAssumption DEF TypeInv, TypeData, Buffers
    <1>1. Scalars' /\ ucount' >= ucount /\ ccount' >= ccount
        BY ScalarsStep, CountersGrow DEF TypeInv
    <1>2. ASSUME NEW i \in 1..Len(ckLines)
          PROVE  ckLines[i].c \in Nat /\ ckLines[i].u \in Nat
        <2>1. ckLines[i] \in CkLine
            BY <1>0, <1>2
        <2> QED BY <2>1 DEF CkLine
    <1>3. CASE UNCHANGED <<ckLines, streams, lastCk>>
        <2>1. \A i \in 1..Len(ckLines') : ckLines'[i].c <= ccount' /\ ckLines'[i].u <= lastCk'
            BY <1>0, <1>1, <1>2, <1>3 DEF CkBounds, Scalars
        <2>2. /\ lastCk' <= ucount'
              /\ lastCk' = 0 \/ \E i \in 1..Len(ckLines') : ckLines'[i].u = lastCk'
            BY <1>0, <1>1, <1>3 DEF CkBounds, Scalars
        <2>3. pc' = "checkpoint" => lastCk' + Limit < ucount'
            BY <1>0, EntryEffect DEF CkBounds, NeedsCheckpoint, Scalars
        <2>4. pc' = "index" => ucount' <= lastCk' + Limit
            <3>1. CASE \E got \in Nat : Checkpointed(got)
                BY <1>0, <3>1 DEF Checkpointed, Scalars
            <3>2. CASE ~\E got \in Nat : Checkpointed(got)
                BY <1>0, <3>2, EntryEffect DEF CkBounds, NeedsCheckpoint, Scalars
            <3> QED BY <3>1, <3>2
        <2> QED BY <2>1, <2>2, <2>3, <2>4 DEF CkBounds
    <1>4. ASSUME NEW got \in Nat, Checkpointed(got) PROVE CkBounds'
        <2>1. /\ lastCk' = ucount /\ ucount' = ucount /\ pc' = "index"
            BY <1>4 DEF Checkpointed
        <2>2. ASSUME NEW i \in 1..Len(ckLines')
              PROVE  ckLines'[i].c <= ccount' /\ ckLines'[i].u <= lastCk'
            <3>1. CASE i = Len(ckLines) + 1
                BY <1>1, <1>4, <2>1, <3>1, NewCheckpoint DEF Scalars
            <3>2. CASE i # Len(ckLines) + 1
                <4>1. i \in 1..Len(ckLines) /\ ckLines'[i] = ckLines[i]
                    BY <1>4, <2>2, <3>2, NewCheckpoint
                <4>2. ckLines[i].c <= ccount /\ ckLines[i].u <= lastCk /\ lastCk <= ucount
                    BY <4>1 DEF CkBounds
                <4> QED BY <1>0, <1>1, <1>2, <2>1, <4>1, <4>2 DEF Scalars
            <3> QED BY <3>1, <3>2
        <2>3. \E i \in 1..Len(ckLines') : ckLines'[i].u = lastCk'
            <3>1. Len(ckLines) + 1 \in 1..Len(ckLines')
                BY <1>4, NewCheckpoint
            <3> QED BY <1>4, <2>1, <3>1, NewCheckpoint
        <2> QED BY <1>0, <1>1, <2>1, <2>2, <2>3 DEF CkBounds, Scalars
    <1> QED BY <1>3, <1>4, CheckpointEffect

LEMMA CkBoundsInit == Init => CkBounds
    BY LimitAssumption DEF Init, CkBounds

LEMMA SortedStep ==
    ASSUME TypeInv, CkBounds, CheckpointsSorted, [Next]_vars
    PROVE  CheckpointsSorted'
    <1>0. Scalars /\ ckLines \in Seq(CkLine) /\ Limit \in Nat
        BY LimitAssumption DEF TypeInv, TypeData, Buffers
    <1>1. CASE UNCHANGED <<ckLines, streams, lastCk>>
        BY <1>1 DEF CheckpointsSorted
    <1>2. ASSUME NEW got \in Nat, Checkpointed(got) PROVE CheckpointsSorted'
        <2>1. lastCk < ucount /\ ccount' >= ccount /\ ccount' \in Nat
            BY <1>0, <1>2 DEF CkBounds, Checkpointed, Scalars
        <2>2. ASSUME NEW i \in 1..Len(ckLines'), NEW j \in 1..Len(ckLines'), i < j
              PROVE  ckLines'[i].c <= ckLines'[j].c /\ ckLines'[i].u < ckLines'[j].u
            <3>1. i \in 1..Len(ckLines) /\ ckLines'[i] = ckLines[i] /\ ckLines[i] \in CkLine
                BY <1>2, <2>2, NewCheckpoint
            <3>2. CASE j = Len(ckLines) + 1
                <4>1. ckLines'[j].c = ccount' /\ ckLines'[j].u = ucount
                    BY <1>2, <3>2, NewCheckpoint
                <4>2. ckLines[i].c <= ccount /\ ckLines[i].u <= lastCk
                    BY <3>1 DEF CkBounds
                <4>3. ckLines[i].c \in Nat /\ ckLines[i].u \in Nat
                    BY <3>1 DEF CkLine
                <4> QED BY <1>0, <2>1, <3>1, <4>1, <4>2, <4>3 DEF Scalars
            <3>3. CASE j # Len(ckLines) + 1
                <4>1. j \in 1..Len(ckLines) /\ ckLines'[j] = ckLines[j]
                    BY <1>2, <2>2, <3>3, NewCheckpoint
                <4> QED BY <2>2, <3>1, <4>1 DEF CheckpointsSorted
            <3> QED BY <3>2, <3>3
        <2> QED BY <2>2 DEF CheckpointsSorted
    <1> QED BY <1>1, <1>2, CheckpointEffect

LEMMA SoundStep ==
    ASSUME TypeInv, Counts, CheckpointsSound, [Next]_vars
    PROVE  CheckpointsSound'
    <1>0. /\ Scalars /\ ckLines \in Seq(CkLine) /\ streams \in Seq([at : Nat, raw : Nat])
          /\ RawLen \in Nat
        BY RawLenFacts DEF TypeInv, TypeData, Buffers
    <1>1. CASE UNCHANGED <<ckLines, streams, lastCk>>
        BY <1>1, Zenon DEF CheckpointsSound
    <1>2. ASSUME NEW got \in Nat, Checkpointed(got), ~Gzip => got = 0
          PROVE  CheckpointsSound'
        <2>1. /\ ucount = RawLen /\ ccount = devLen /\ (~Gzip => ccount = ucount)
            BY <1>2, Zenon DEF Counts, Checkpointed, Trailing
        <2>2. ccount' = ccount + got /\ devLen' = devLen + got
            BY <1>2, Zenon DEF Checkpointed
        <2>3. CASE Gzip
            <3> DEFINE s == [at |-> devLen', raw |-> RawLen]
            <3>1. s \in [at : Nat, raw : Nat] /\ s.at = ccount' /\ s.raw = ucount
                BY <1>0, <2>1, <2>2 DEF Scalars
            <3>2. streams' = Append(streams, s)
                BY <1>2, <2>3, Zenon DEF Checkpointed
            <3> HIDE DEF s
            <3>3. /\ Len(streams') = Len(streams) + 1
                  /\ streams'[Len(streams) + 1] = s
                  /\ \A i \in 1..Len(streams) : streams'[i] = streams[i]
                BY <1>0, <3>1, <3>2, AppendFacts
            <3>4. Len(streams) = Len(ckLines) + 1
                BY <2>3, Zenon DEF CheckpointsSound
            <3>5. ASSUME NEW i \in 1..Len(ckLines')
                  PROVE  streams'[i + 1].at = ckLines'[i].c /\ streams'[i + 1].raw = ckLines'[i].u
                <4>1. CASE i = Len(ckLines) + 1
                    <5>1. ckLines'[i].c = ccount' /\ ckLines'[i].u = ucount
                        BY <1>2, <4>1, NewCheckpoint
                    <5>2. streams'[i + 1] = s
                        BY <3>3, <3>4, <4>1
                    <5> QED BY <3>1, <5>1, <5>2
                <4>2. CASE i # Len(ckLines) + 1
                    <5>1. i \in 1..Len(ckLines) /\ ckLines'[i] = ckLines[i]
                        BY <1>2, <3>5, <4>2, NewCheckpoint
                    <5>2. i + 1 \in 1..Len(streams)
                        BY <1>0, <3>4, <5>1
                    <5>3. streams[i + 1].at = ckLines[i].c /\ streams[i + 1].raw = ckLines[i].u
                        BY <2>3, <5>1, Zenon DEF CheckpointsSound
                    <5> QED BY <3>3, <5>1, <5>2, <5>3
                <4> QED BY <4>1, <4>2
            <3>6. Len(streams') = Len(ckLines') + 1
                BY <1>2, <3>3, <3>4, NewCheckpoint
            <3> QED BY <2>3, <3>5, <3>6, Zenon DEF CheckpointsSound
        <2>4. CASE ~Gzip
            <3>1. streams' = streams /\ Len(streams) = 1
                BY <1>2, <2>4, Zenon DEF Checkpointed, CheckpointsSound
            <3>2. ccount' = ucount
                <4>1. got = 0 /\ ccount = ucount
                    BY <1>2, <2>1, <2>4, Zenon
                <4> QED BY <1>0, <2>2, <4>1 DEF Scalars
            <3>3. ASSUME NEW i \in 1..Len(ckLines') PROVE ckLines'[i].c = ckLines'[i].u
                <4>1. CASE i = Len(ckLines) + 1
                    BY <1>2, <3>2, <4>1, NewCheckpoint
                <4>2. CASE i # Len(ckLines) + 1
                    <5>1. i \in 1..Len(ckLines) /\ ckLines'[i] = ckLines[i]
                        BY <1>2, <3>3, <4>2, NewCheckpoint
                    <5> QED BY <2>4, <5>1, Zenon DEF CheckpointsSound
                <4> QED BY <4>1, <4>2
            <3> QED BY <2>4, <3>1, <3>3, Zenon DEF CheckpointsSound
        <2> QED BY <2>3, <2>4, Zenon
    <1> QED BY <1>1, <1>2, CheckpointEffect

(* write_entry's index line, and nothing else, extends the index.          *)
Indexed ==
    /\ pc = "index" /\ pc' = "pax"
    /\ idxLines' = Append(idxLines, [entry |-> Len(metas), off |-> ucount])
    /\ todo' = EntryWrites(metas[Len(metas)])
    /\ UNCHANGED <<ckLines, lastCk, ucount, body, metas>>

LEMMA IndexEffect ==
    ASSUME [Next]_vars
    PROVE  UNCHANGED idxLines \/ Indexed
    BY Zenon DEF Next, CallStep, WriteEntry, CreateCheckpoint, WriteIndexLine, PaxWrite,
                 ContentShort, Finish, CloseBody, WriteIndexSection,
                 WriteCheckpointsSection, WriteTail, WriteEofMarker, vars, Indexed

LEMMA NewIndexLine ==
    ASSUME TypeInv, Indexed
    PROVE  /\ Len(idxLines) \in Nat /\ Len(idxLines') = Len(idxLines) + 1
           /\ \A i \in 1..Len(idxLines) : idxLines'[i] = idxLines[i]
           /\ idxLines'[Len(idxLines) + 1].entry = Len(metas)
           /\ idxLines'[Len(idxLines) + 1].off = ucount
    <1>0. Scalars /\ idxLines \in Seq(IndexLine) /\ Len(metas) \in Nat
        BY DEF TypeInv, TypeData, Buffers
    <1> DEFINE e == [entry |-> Len(metas), off |-> ucount]
    <1>1. e \in IndexLine /\ e.entry = Len(metas) /\ e.off = ucount
        BY <1>0 DEF IndexLine, Scalars
    <1>2. idxLines' = Append(idxLines, e)
        BY DEF Indexed
    <1> HIDE DEF e
    <1> QED BY <1>0, <1>1, <1>2, AppendFacts

(* The lines already there stay there.                                     *)
LEMMA OldCheckpointsStay ==
    ASSUME TypeInv, [Next]_vars
    PROVE  \A i \in 1..Len(ckLines) : i \in 1..Len(ckLines') /\ ckLines'[i] = ckLines[i]
    <1>1. CASE UNCHANGED <<ckLines, streams, lastCk>>
        BY <1>1
    <1>2. ASSUME NEW got \in Nat, Checkpointed(got)
          PROVE  \A i \in 1..Len(ckLines) : i \in 1..Len(ckLines') /\ ckLines'[i] = ckLines[i]
        BY <1>2, NewCheckpoint
    <1> QED BY <1>1, <1>2, CheckpointEffect

LEMMA SeekStep ==
    ASSUME TypeInv, CkBounds, SeekBounded, [Next]_vars
    PROVE  SeekBounded'
    <1>0. Scalars /\ ckLines \in Seq(CkLine) /\ Limit \in Nat
        BY LimitAssumption DEF TypeInv, TypeData, Buffers
    <1> DEFINE Near(off, lines) ==
            \/ off <= Limit
            \/ \E i \in 1..Len(lines) : lines[i].u <= off /\ off - lines[i].u <= Limit
    <1>1. ASSUME NEW off, Near(off, ckLines) PROVE Near(off, ckLines')
        BY <1>1, OldCheckpointsStay
    <1>2. CASE UNCHANGED idxLines
        BY <1>1, <1>2 DEF SeekBounded
    <1>3. CASE Indexed
        <2>1. Near(ucount, ckLines)
            <3>1. ucount <= lastCk + Limit /\ lastCk <= ucount
                BY <1>3 DEF CkBounds, Indexed
            <3>2. CASE lastCk = 0
                BY <1>0, <3>1, <3>2 DEF Scalars
            <3>3. CASE \E i \in 1..Len(ckLines) : ckLines[i].u = lastCk
                BY <1>0, <3>1, <3>3 DEF Scalars
            <3> QED BY <3>2, <3>3 DEF CkBounds
        <2>2. ASSUME NEW k \in 1..Len(idxLines') PROVE Near(idxLines'[k].off, ckLines')
            <3>1. CASE k = Len(idxLines) + 1
                <4>1. idxLines'[k].off = ucount
                    BY <1>3, <3>1, NewIndexLine
                <4> QED BY <1>1, <2>1, <4>1
            <3>2. CASE k # Len(idxLines) + 1
                <4>1. k \in 1..Len(idxLines) /\ idxLines'[k] = idxLines[k]
                    BY <1>3, <2>2, <3>2, NewIndexLine
                <4>2. Near(idxLines[k].off, ckLines)
                    BY <4>1 DEF SeekBounded
                <4> QED BY <1>1, <4>1, <4>2
            <3> QED BY <3>1, <3>2
        <2> QED BY <2>2 DEF SeekBounded
    <1> QED BY <1>2, <1>3, IndexEffect

LEMMA CkInit == Init => CheckpointsSorted /\ CheckpointsSound /\ SeekBounded
    <1>1. Init => CheckpointsSorted /\ SeekBounded
        BY DEF Init, CheckpointsSorted, SeekBounded
    <1>2. Init => Len(streams) = 1 /\ ckLines = << >>
        BY DEF Init
    <1>3. ASSUME Len(streams) = 1, ckLines = << >> PROVE CheckpointsSound
        <2>1. Len(streams) = Len(ckLines) + 1 /\ 1..Len(ckLines) = {} /\ Len(streams) = 1
            BY <1>3
        <2> QED BY <2>1, Zenon DEF CheckpointsSound
    <1> QED BY <1>1, <1>2, <1>3, Zenon

(* Down the checkpoints section the uncompressed offsets strictly increase *)
(* and the compressed ones never decrease.                                 *)
THEOREM SortedCorrect == Spec => []CheckpointsSorted
    <1> QED BY TypeInit, TypeStep, CkBoundsInit, CkBoundsStep, CkInit, SortedStep, PTL DEF Spec

(* Every recorded checkpoint is the start of a compressed stream, at both  *)
(* of its offsets.                                                         *)
THEOREM CheckpointsCorrect == Spec => []CheckpointsSound
    <1> QED BY TypeInit, TypeStep, CountsInit, CountsStep, CkInit, SoundStep, PTL DEF Spec

(* No index line is further than Limit from the checkpoint before it.      *)
THEOREM SeekBoundedCorrect == Spec => []SeekBounded
    <1> QED BY TypeInit, TypeStep, CkBoundsInit, CkBoundsStep, CkInit, SeekStep, PTL DEF Spec

(***************************************************************************)
(* The index                                                               *)
(***************************************************************************)

(* A line whose entry has its first piece at the line's offset; the line   *)
(* of an entry of which the compressor has taken nothing yet.              *)
LineOpened(line, pieces) ==
    \E j \in 1..Len(pieces) :
        /\ pieces[j].at = line.off
        /\ pieces[j].entry = line.entry
        /\ pieces[j].entry # 0
        /\ j = 1 \/ pieces[j - 1].entry # pieces[j].entry
Untouched == \A j \in 1..Len(body) : body[j].entry < Len(metas)
Pending ==
    \/ pc = "failed"
    \/ pc = "pax" /\ StartsFull(todo) /\ Untouched

LinesCounted ==
    pc # "failed" =>
        Len(metas) = IF pc \in {"checkpoint", "index"} THEN Len(idxLines) + 1
                     ELSE Len(idxLines)
LinesNumbered == \A i \in 1..Len(idxLines) : idxLines[i].entry = i
PiecesNumbered ==
    /\ \A j \in 1..Len(body) : body[j].entry <= Len(metas)
    /\ pc \in {"checkpoint", "index"} => Untouched
LinesPlaced ==
    \A i \in 1..Len(idxLines) :
        \/ LineOpened(idxLines[i], body)
        \/ i = Len(idxLines) /\ idxLines[i].off = RawLen /\ Pending
IdxInv == LinesCounted /\ LinesNumbered /\ PiecesNumbered /\ LinesPlaced

(* A piece added to the tar stream leaves the lines that are open so.      *)
LEMMA OpenedStays ==
    ASSUME NEW line, NEW piece \in Piece, body \in Seq(Piece), LineOpened(line, body),
           body' = Append(body, piece)
    PROVE  LineOpened(line, body')
    <1>1. PICK j \in 1..Len(body) :
            /\ body[j].at = line.off
            /\ body[j].entry = line.entry
            /\ body[j].entry # 0
            /\ j = 1 \/ body[j - 1].entry # body[j].entry
        BY DEF LineOpened
    <1>2. Len(body) \in Nat /\ Len(body') = Len(body) + 1 /\ body'[j] = body[j]
        BY AppendFacts
    <1>3. j \in 1..Len(body')
        BY <1>2
    <1>4. j = 1 \/ body'[j - 1] = body[j - 1]
        BY <1>2, AppendFacts
    <1> QED BY <1>1, <1>2, <1>3, <1>4 DEF LineOpened

(* The first piece of an entry opens the line that waits for it.           *)
LEMMA OpenedByFirst ==
    ASSUME NEW line, NEW piece \in Piece, body \in Seq(Piece), Untouched,
           Len(metas) \in Nat, Len(metas) # 0, piece.entry = Len(metas),
           line.entry = Len(metas), line.off = piece.at, body' = Append(body, piece)
    PROVE  LineOpened(line, body')
    <1> DEFINE j == Len(body) + 1
    <1>1. Len(body) \in Nat /\ j \in 1..Len(body') /\ body'[j] = piece
        BY AppendFacts
    <1>2. j = 1 \/ body'[j - 1].entry # piece.entry
        <2>1. CASE Len(body) = 0
            BY <2>1
        <2>2. CASE Len(body) # 0
            <3>1. Len(body) \in 1..Len(body) /\ j - 1 = Len(body)
                BY <1>1, <2>2
            <3>2. body'[Len(body)] = body[Len(body)]
                BY <3>1, AppendFacts
            <3>3. body[Len(body)].entry < Len(metas) /\ body[Len(body)] \in Piece
                BY <3>1 DEF Untouched
            <3>4. body[Len(body)].entry # Len(metas)
                BY <3>3 DEF Piece
            <3> QED BY <3>1, <3>2, <3>4
        <2> QED BY <2>1, <2>2
    <1> HIDE DEF j
    <1> QED BY <1>1, <1>2 DEF LineOpened

LEMMA IdxStep ==
    ASSUME TypeInv, Counts, IdxInv, [Next]_vars
    PROVE  IdxInv'
    <1>0. /\ Scalars /\ body \in Seq(Piece) /\ metas \in Seq(Metas)
          /\ idxLines \in Seq(IndexLine) /\ RawLen \in Nat
          /\ Len(metas) \in Nat /\ Len(idxLines) \in Nat
        BY RawLenFacts DEF TypeInv, TypeData, Buffers
    (* Most actions start with every line open and touch neither the index *)
    (* nor the tar stream.                                                 *)
    <1>1. ASSUME UNCHANGED <<metas, body, idxLines>>, ~Pending, pc # "failed",
                 pc \in {"checkpoint", "index"} => pc' \in {"checkpoint", "index", "failed"},
                 pc' \in {"checkpoint", "index"} => pc \in {"checkpoint", "index"}
          PROVE  IdxInv'
        <2>1. LinesCounted'
            BY <1>1 DEF IdxInv, LinesCounted
        <2>2. LinesNumbered'
            BY <1>1 DEF IdxInv, LinesNumbered
        <2>3. PiecesNumbered'
            BY <1>1 DEF IdxInv, PiecesNumbered, Untouched
        <2>4. LinesPlaced'
            BY <1>1 DEF IdxInv, LinesPlaced
        <2> QED BY <2>1, <2>2, <2>3, <2>4 DEF IdxInv
    <1>2. ASSUME NEW m \in Metas, WriteEntry(m) PROVE IdxInv'
        <2>1. pc = "ready" /\ pc' \in {"checkpoint", "index"} /\ UNCHANGED <<body, idxLines>>
            BY <1>2, Zenon DEF WriteEntry, MayCall
        <2>2. Len(metas') = Len(metas) + 1
            BY <1>0, <1>2, AppendFacts DEF WriteEntry
        <2>3. LinesCounted' /\ LinesNumbered'
            BY <1>0, <2>1, <2>2 DEF IdxInv, LinesCounted, LinesNumbered
        <2>4. PiecesNumbered'
            <3>1. ASSUME NEW j \in 1..Len(body)
                  PROVE  body[j].entry <= Len(metas') /\ body[j].entry < Len(metas')
                <4>1. body[j] \in Piece
                    BY <1>0
                <4>2. body[j].entry \in Nat
                    BY <4>1 DEF Piece
                <4> QED BY <1>0, <2>2, <4>2 DEF IdxInv, PiecesNumbered
            <3> QED BY <2>1, <3>1 DEF PiecesNumbered, Untouched
        <2>5. LinesPlaced'
            BY <2>1 DEF IdxInv, LinesPlaced, Pending
        <2> QED BY <2>3, <2>4, <2>5 DEF IdxInv
    <1>3. CASE CreateCheckpoint
        <2>1. pc' = "index" \/ pc' = "failed"
            <3>1. PICK d \in CompressorFinish : Flushed(d)
                BY <1>3 DEF CreateCheckpoint
            <3>2. CASE d.ok
                BY <3>1, <3>2, Zenon DEF Flushed
            <3>3. CASE ~d.ok
                <4>1. Fail
                    BY <3>1, <3>3, Zenon DEF Flushed
                <4>2. StopOnError
                    BY <3>3, FinishFacts, Zenon
                <4> QED BY <4>1, <4>2, FailStops
            <3> QED BY <3>2, <3>3
        <2>2. pc = "checkpoint" /\ UNCHANGED <<metas, body, idxLines>>
            BY <1>3 DEF CreateCheckpoint
        <2> QED BY <1>1, <2>1, <2>2 DEF Pending
    <1>4. CASE WriteIndexLine
        <2>1. Indexed
            BY <1>4 DEF WriteIndexLine, Indexed
        <2>2. UNCHANGED <<body, metas>> /\ pc = "index" /\ pc' = "pax"
            BY <2>1 DEF Indexed
        <2>3. Len(metas) = Len(idxLines) + 1
            BY <2>2 DEF IdxInv, LinesCounted
        <2>4. LinesCounted'
            BY <2>1, <2>2, <2>3, NewIndexLine DEF LinesCounted
        <2>5. LinesNumbered'
            BY <2>1, <2>3, NewIndexLine DEF IdxInv, LinesNumbered
        <2>6. PiecesNumbered' /\ Untouched'
            BY <2>2 DEF IdxInv, PiecesNumbered, Untouched
        <2>7. Pending'
            <3>1. Len(metas) \in 1..Len(metas)
                BY <1>0, <2>3
            <3>2. metas[Len(metas)] \in Metas
                BY <1>0, <3>1
            <3>3. StartsFull(todo')
                BY <2>1, <3>2, EntryWritesFacts DEF Indexed
            <3> QED BY <2>2, <2>6, <3>3 DEF Pending, StartsFull
        <2>8. RawLen' = RawLen /\ ucount = RawLen
            BY <2>2 DEF RawLen, Counts
        <2>9. ASSUME NEW i \in 1..Len(idxLines')
              PROVE  \/ LineOpened(idxLines'[i], body')
                     \/ i = Len(idxLines') /\ idxLines'[i].off = RawLen' /\ Pending'
            <3>1. CASE i = Len(idxLines) + 1
                BY <2>1, <2>7, <2>8, <3>1, NewIndexLine
            <3>2. CASE i # Len(idxLines) + 1
                <4>1. i \in 1..Len(idxLines) /\ idxLines'[i] = idxLines[i]
                    BY <2>1, <2>9, <3>2, NewIndexLine
                <4> QED BY <2>2, <4>1 DEF IdxInv, LinesPlaced, Pending
            <3> QED BY <3>1, <3>2
        <2>10. LinesPlaced'
            BY <2>9 DEF LinesPlaced
        <2> QED BY <2>4, <2>5, <2>6, <2>10 DEF IdxInv
    <1>5. CASE PaxWrite
        <2> DEFINE w == Head(todo)
        <2>1. PICK o \in CompressorWrite(w.n) : Wrote(w, o)
            BY <1>5 DEF PaxWrite
        <2>2. pc \in {"pax", "end"} /\ todo # << >> /\ UNCHANGED <<metas, idxLines>>
            BY <1>5 DEF PaxWrite
        <2>3. w.n \in Nat /\ w.part \in Parts
            BY <2>2, HeadTailType DEF TypeInv, TypeData, Control
        <2>4. o.ret \in Int /\ o.raw \in Nat /\ (o.ret >= 0 => o.raw = o.ret)
            BY <2>3, WriteFacts
        <2>5. Fail \/ pc' \in {pc, "ready", "close"}
            BY <2>1, Zenon DEF Wrote
        <2>6. pc' \in {"failed", "ready", "pax", "end", "close"}
            BY <2>2, <2>5, Zenon DEF Fail
        <2>7. LinesCounted' /\ LinesNumbered'
            BY <2>2, <2>6 DEF IdxInv, LinesCounted, LinesNumbered
        <2> DEFINE piece == [entry |-> IF pc = "pax" THEN Len(metas) ELSE 0,
                             part |-> w.part, at |-> RawLen, n |-> o.raw]
        <2>8. CASE o.raw > 0
            <3>1. body' = Append(body, piece)
                BY <2>1, <2>8, Zenon DEF Wrote
            <3>2. /\ piece \in Piece /\ piece.at = RawLen
                  /\ pc = "pax" => piece.entry = Len(metas)
                  /\ piece.entry <= Len(metas)
                BY <1>0, <2>3, <2>4 DEF Piece
            <3> HIDE DEF piece, w
            <3>3. /\ Len(body) \in Nat /\ Len(body') = Len(body) + 1
                  /\ body'[Len(body) + 1] = piece
                  /\ \A j \in 1..Len(body) : body'[j] = body[j]
                BY <1>0, <3>1, <3>2, AppendFacts
            <3>4. PiecesNumbered'
                <4>1. ASSUME NEW j \in 1..Len(body') PROVE body'[j].entry <= Len(metas)
                    <5>1. CASE j = Len(body) + 1
                        BY <3>2, <3>3, <5>1
                    <5>2. CASE j # Len(body) + 1
                        <6>1. j \in 1..Len(body) /\ body'[j] = body[j]
                            BY <3>3, <4>1, <5>2
                        <6> QED BY <6>1 DEF IdxInv, PiecesNumbered
                    <5> QED BY <5>1, <5>2
                <4> QED BY <2>2, <2>6, <4>1 DEF PiecesNumbered
            <3>5. ASSUME NEW i \in 1..Len(idxLines) PROVE LineOpened(idxLines[i], body')
                <4>1. CASE LineOpened(idxLines[i], body)
                    BY <1>0, <3>1, <3>2, <4>1, OpenedStays
                <4>2. CASE i = Len(idxLines) /\ idxLines[i].off = RawLen /\ Pending
                    <5>1. pc = "pax" /\ Untouched
                        BY <2>2, <4>2 DEF Pending
                    <5>2. idxLines[i].entry = Len(metas) /\ Len(metas) # 0
                        BY <1>0, <3>5, <4>2, <5>1 DEF IdxInv, LinesNumbered, LinesCounted
                    <5> QED BY <1>0, <3>1, <3>2, <4>2, <5>1, <5>2, OpenedByFirst
                <4> QED BY <4>1, <4>2 DEF IdxInv, LinesPlaced
            <3>6. LinesPlaced'
                BY <2>2, <3>5 DEF LinesPlaced
            <3> QED BY <2>7, <3>4, <3>6 DEF IdxInv
        <2>9. CASE o.raw = 0
            <3>1. ~(o.raw > 0)
                BY <2>9
            <3>2. body' = body
                BY <2>1, <3>1, Zenon DEF Wrote
            <3>3. RawLen' = RawLen
                BY <3>2 DEF RawLen
            <3>4. PiecesNumbered'
                BY <2>2, <2>6, <3>2 DEF IdxInv, PiecesNumbered
            <3>5. ASSUME Pending PROVE Pending'
                <4>1. StartsFull(todo)
                    BY <2>2, <3>5 DEF Pending
                <4>2. w.n = Block /\ w.check = "full"
                    BY <4>1 DEF StartsFull
                <4>3. o.ret < 0 \/ o.ret < w.n
                    BY <2>4, <2>9, <4>2, BlockAssumption
                <4>4. Fail
                    BY <2>1, <4>2, <4>3, Zenon DEF Wrote
                <4>5. o.ret # w.n
                    BY <2>3, <2>4, <4>3
                <4>6. StopOnError
                    BY <2>3, <4>5, WriteFacts, Zenon
                <4>7. pc' = "failed"
                    BY <4>4, <4>6, FailStops
                <4> QED BY <4>7 DEF Pending
            <3>6. LinesPlaced'
                BY <2>2, <3>2, <3>3, <3>5 DEF IdxInv, LinesPlaced
            <3> QED BY <2>7, <3>4, <3>6 DEF IdxInv
        <2> QED BY <2>4, <2>8, <2>9
    <1>6. CASE ContentShort
        <2>1. pc' = "failed" \/ pc' = "ready"
            BY <1>6, Zenon DEF ContentShort, Fail
        <2>2. /\ pc = "pax" /\ todo # << >> /\ Head(todo).part = "data"
              /\ UNCHANGED <<metas, body, idxLines>>
            BY <1>6 DEF ContentShort
        <2>3. ~Pending
            BY <2>2 DEF Pending, StartsFull
        <2> QED BY <1>1, <2>1, <2>2, <2>3
    <1>7. CASE Finish
        BY <1>1, <1>7 DEF Finish, MayCall, Pending
    <1>8. CASE CloseBody \/ WriteIndexSection \/ WriteCheckpointsSection \/ WriteTail
               \/ WriteEofMarker
        <2>1. Fail \/ pc' \in {"index section", "checkpoints section", "tail section",
                               "eof", "done"}
            BY <1>8, Zenon DEF CloseBody, WriteIndexSection, WriteCheckpointsSection,
                               WriteTail, WriteEofMarker
        <2>2. pc' \in {"failed", "ready", "index section", "checkpoints section",
                       "tail section", "eof", "done"}
            BY <2>1, Zenon DEF Fail
        <2>3. /\ pc \in {"close", "index section", "checkpoints section", "tail section",
                          "eof"}
              /\ UNCHANGED <<metas, body, idxLines>>
            BY <1>8, Zenon DEF CloseBody, WriteIndexSection, WriteCheckpointsSection,
                               WriteTail, WriteEofMarker
        <2> QED BY <1>1, <2>2, <2>3 DEF Pending
    <1>9. CASE UNCHANGED vars
        <2>1. UNCHANGED <<pc, todo, metas, body, idxLines>>
            BY <1>9 DEF vars
        <2>2. RawLen' = RawLen
            BY <2>1 DEF RawLen
        <2>3. LinesCounted' /\ LinesNumbered' /\ PiecesNumbered'
            BY <2>1 DEF IdxInv, LinesCounted, LinesNumbered, PiecesNumbered, Untouched
        <2>4. LinesPlaced'
            BY <2>1, <2>2 DEF IdxInv, LinesPlaced, Pending, Untouched, StartsFull
        <2> QED BY <2>3, <2>4 DEF IdxInv
    <1> QED BY <1>2, <1>3, <1>4, <1>5, <1>6, <1>7, <1>8, <1>9 DEF Next, CallStep

LEMMA IdxInit == Init => IdxInv
    BY DEF Init, IdxInv, LinesCounted, LinesNumbered, PiecesNumbered, LinesPlaced

(* Every line of the index gives the place in the tar stream of the first  *)
(* piece of its entry, whatever fails before, during or after that entry.  *)
THEOREM IndexCorrect == Spec => []IndexSound
    <1>1. IdxInv => IndexSound
        BY DEF IdxInv, LinesPlaced, IndexSound, LineOpened, Opens
    <1> QED BY <1>1, TypeInit, TypeStep, CountsInit, CountsStep, IdxInit, IdxStep, PTL
            DEF Spec

(* A checkpoint stays the offset of an index line, or is the one just      *)
(* recorded for the line about to be written.                              *)
LEMMA BeforeHeadersStep ==
    ASSUME TypeInv, Counts, CheckpointsBeforeHeaders, [Next]_vars
    PROVE  CheckpointsBeforeHeaders'
    <1>0. Len(idxLines) \in Nat /\ Len(ckLines) \in Nat
        BY DEF TypeInv, TypeData, Buffers
    <1> DEFINE Indexes(off, lines) == \E k \in 1..Len(lines) : lines[k].off = off
    <1>1. ASSUME NEW off, Indexes(off, idxLines) PROVE Indexes(off, idxLines')
        <2>1. CASE UNCHANGED idxLines
            BY <1>1, <2>1
        <2>2. CASE Indexed
            BY <1>0, <1>1, <2>2, NewIndexLine
        <2> QED BY <2>1, <2>2, IndexEffect
    <1>2. ASSUME NEW i \in 1..Len(ckLines)
          PROVE  \/ Indexes(ckLines[i].u, idxLines')
                 \/ /\ i = Len(ckLines) /\ pc = "index" /\ UNCHANGED vars
                    /\ ckLines[i].u = RawLen
        <2>1. CASE Indexes(ckLines[i].u, idxLines)
            BY <1>1, <2>1
        <2>2. CASE i = Len(ckLines) /\ pc = "index" /\ ckLines[i].u = RawLen
            <3>1. CASE Indexed
                <4>1. ucount = RawLen
                    BY <2>2 DEF Counts
                <4>2. Len(idxLines) + 1 \in 1..Len(idxLines')
                    BY <1>0, <3>1, NewIndexLine
                <4>3. idxLines'[Len(idxLines) + 1].off = ckLines[i].u
                    BY <2>2, <3>1, <4>1, NewIndexLine
                <4> QED BY <4>2, <4>3
            <3>2. CASE UNCHANGED vars
                BY <2>2, <3>2
            <3>3. WriteIndexLine => Indexed
                BY DEF WriteIndexLine, Indexed
            <3>4. WriteIndexLine \/ UNCHANGED vars
                BY <2>2, Zenon DEF Next, CallStep, WriteEntry, MayCall, CreateCheckpoint,
                    PaxWrite, ContentShort, Finish, CloseBody, WriteIndexSection,
                    WriteCheckpointsSection, WriteTail, WriteEofMarker
            <3> QED BY <3>1, <3>2, <3>3, <3>4
        <2> QED BY <2>1, <2>2 DEF CheckpointsBeforeHeaders
    <1>3. CASE UNCHANGED <<ckLines, streams, lastCk>>
        <2>1. ASSUME NEW i \in 1..Len(ckLines')
              PROVE  \/ Indexes(ckLines'[i].u, idxLines')
                     \/ i = Len(ckLines') /\ pc' = "index" /\ ckLines'[i].u = RawLen'
            <3>1. CASE UNCHANGED vars
                <4>1. RawLen' = RawLen /\ pc' = pc
                    BY <3>1 DEF RawLen, vars
                <4> QED BY <1>2, <1>3, <4>1
            <3>2. CASE ~UNCHANGED vars
                BY <1>2, <1>3, <3>2
            <3> QED BY <3>1, <3>2
        <2> QED BY <2>1 DEF CheckpointsBeforeHeaders
    <1>4. ASSUME NEW got \in Nat, Checkpointed(got) PROVE CheckpointsBeforeHeaders'
        <2>1. pc = "checkpoint" /\ pc' = "index" /\ UNCHANGED body
            BY <1>4 DEF Checkpointed
        <2>2. ucount = RawLen /\ RawLen' = RawLen
            BY <2>1 DEF Counts, RawLen
        <2>3. ASSUME NEW i \in 1..Len(ckLines')
              PROVE  \/ Indexes(ckLines'[i].u, idxLines')
                     \/ i = Len(ckLines') /\ pc' = "index" /\ ckLines'[i].u = RawLen'
            <3>1. CASE i = Len(ckLines) + 1
                BY <1>4, <2>1, <2>2, <3>1, NewCheckpoint
            <3>2. CASE i # Len(ckLines) + 1
                <4>1. i \in 1..Len(ckLines) /\ ckLines'[i] = ckLines[i]
                    BY <1>4, <2>3, <3>2, NewCheckpoint
                <4> QED BY <1>2, <2>1, <4>1
            <3> QED BY <3>1, <3>2
        <2> QED BY <2>3 DEF CheckpointsBeforeHeaders
    <1> QED BY <1>3, <1>4, CheckpointEffect

(* A checkpoint is only recorded right before the headers of an entry.     *)
THEOREM BeforeHeadersCorrect == Spec => []CheckpointsBeforeHeaders
    <1>1. Init => CheckpointsBeforeHeaders
        BY DEF Init, CheckpointsBeforeHeaders
    <1> QED BY <1>1, TypeInit, TypeStep, CountsInit, CountsStep, BeforeHeadersStep, PTL
            DEF Spec

(* The checkpoints section is what a reader relies on.                     *)
THEOREM CheckpointsUsableCorrect == Spec => []CheckpointsUsable
    <1> QED BY CheckpointsCorrect, SortedCorrect, BeforeHeadersCorrect, PTL
            DEF CheckpointsUsable

(***************************************************************************)
(* The end of the archive                                                  *)
(***************************************************************************)

(* The two offsets of the tail, as the sections reach the output.          *)
TailInv ==
    /\ pc = "checkpoints section" =>
         tail.index = layout.index /\ tail.checkpoints = devLen
    /\ pc \in {"tail section", "eof", "done"} =>
         tail.index = layout.index /\ tail.checkpoints = layout.checkpoints
    /\ pc = "done" => layout.eof + 1 = devLen

LEMMA TailStep ==
    ASSUME TypeInv, Counts, TailInv, [Next]_vars
    PROVE  TailInv'
    <1>0. Scalars /\ layout \in [index : Int, checkpoints : Int, tail : Int, eof : Int]
        BY DEF TypeInv, TypeData, Positions
    <1>1. ASSUME pc' \notin Trailing PROVE TailInv'
        BY <1>1 DEF TailInv, Trailing
    <1>2. ASSUME Fail PROVE TailInv'
        <2>1. pc' = "failed" \/ pc' = "ready"
            BY <1>2, Zenon DEF Fail
        <2> QED BY <1>1, <2>1 DEF Trailing
    <1>3. ASSUME NEW m \in Metas, WriteEntry(m) PROVE TailInv'
        BY <1>1, <1>3 DEF WriteEntry, Trailing
    <1>4. CASE CreateCheckpoint \/ WriteIndexLine \/ PaxWrite \/ ContentShort \/ Finish
               \/ CloseBody
        <2>1. Fail \/ pc' \in {"index", "pax", "end", "ready", "close", "index section"}
            BY <1>4, Zenon DEF CreateCheckpoint, Flushed, WriteIndexLine, PaxWrite, Wrote,
                               ContentShort, Finish, CloseBody
        <2> QED BY <1>1, <1>2, <2>1 DEF Trailing
    <1>5. CASE WriteIndexSection
        <2>1. PICK len \in SectionLengths(Len(idxLines)) :
                /\ tail' = [index |-> ccount, checkpoints |-> ccount + len]
                /\ layout' = [layout EXCEPT !.index = devLen]
                /\ \E got \in OutputWrite(len) :
                    /\ devLen' = IF got > 0 THEN devLen + got ELSE devLen
                    /\ Fail \/ (~(got < len) /\ pc' = "checkpoints section")
            BY <1>5, Zenon DEF WriteIndexSection
        <2>2. len \in Nat \ {0}
            BY SectionFacts DEF TypeInv, TypeData, Buffers
        <2>3. CASE ~Fail
            <3>1. devLen' = devLen + len /\ pc' = "checkpoints section"
                <4>1. PICK got \in OutputWrite(len) :
                        /\ devLen' = IF got > 0 THEN devLen + got ELSE devLen
                        /\ ~(got < len) /\ pc' = "checkpoints section"
                    BY <2>1, <2>3, Zenon
                <4>2. got \in Int /\ got <= len
                    BY <2>2, OutputFacts
                <4>3. ~(got < len)
                    BY <4>1, Zenon
                <4>4. got = len /\ got > 0
                    BY <2>2, <4>2, <4>3
                <4> QED BY <4>1, <4>4
            <3>2. ccount = devLen
                BY <1>5 DEF WriteIndexSection, Counts, Trailing
            <3>3. tail'.index = ccount /\ tail'.checkpoints = ccount + len
                BY <2>1
            <3>4. layout'.index = devLen
                BY <1>0, <2>1
            <3> QED BY <3>1, <3>2, <3>3, <3>4 DEF TailInv
        <2> QED BY <1>2, <2>3
    <1>6. CASE WriteCheckpointsSection
        <2>1. Fail \/ pc' = "tail section"
            BY <1>6, Zenon DEF WriteCheckpointsSection
        <2>2. /\ pc = "checkpoints section" /\ UNCHANGED tail
              /\ layout' = [layout EXCEPT !.checkpoints = devLen]
            BY <1>6 DEF WriteCheckpointsSection
        <2>3. layout'.index = layout.index /\ layout'.checkpoints = devLen
            BY <1>0, <2>2
        <2> QED BY <1>2, <2>1, <2>2, <2>3 DEF TailInv
    <1>7. CASE WriteTail
        <2>1. Fail \/ pc' = "eof"
            BY <1>7, Zenon DEF WriteTail
        <2>2. /\ pc = "tail section" /\ UNCHANGED tail
              /\ layout' = [layout EXCEPT !.tail = devLen]
            BY <1>7 DEF WriteTail
        <2>3. layout'.index = layout.index /\ layout'.checkpoints = layout.checkpoints
            BY <1>0, <2>2
        <2> QED BY <1>2, <2>1, <2>2, <2>3 DEF TailInv
    <1>8. CASE WriteEofMarker
        <2>1. PICK got \in OutputWrite(1) :
                /\ devLen' = IF got > 0 THEN devLen + got ELSE devLen
                /\ Fail \/ (~(got < 1) /\ pc' = "done")
            BY <1>8, Zenon DEF WriteEofMarker
        <2>2. /\ pc = "eof" /\ UNCHANGED tail
              /\ layout' = [layout EXCEPT !.eof = devLen]
            BY <1>8 DEF WriteEofMarker
        <2>3. CASE ~Fail
            <3>1. devLen' = devLen + 1 /\ pc' = "done"
                BY <2>1, <2>3, OutputFacts
            <3>2. /\ layout'.index = layout.index /\ layout'.checkpoints = layout.checkpoints
                  /\ layout'.eof = devLen
                BY <1>0, <2>2
            <3> QED BY <2>2, <3>1, <3>2 DEF TailInv
        <2> QED BY <1>2, <2>3
    <1>9. CASE UNCHANGED vars
        BY <1>9 DEF vars, TailInv
    <1> QED BY <1>3, <1>4, <1>5, <1>6, <1>7, <1>8, <1>9 DEF Next, CallStep

(* The tail of a finished archive gives the positions of its sections, and *)
(* the EOF marker is its last cell.                                        *)
THEOREM TailCorrect == Spec => []TailSound
    <1>1. Init => TailInv
        BY DEF Init, TailInv
    <1>2. TailInv => TailSound
        BY DEF TailInv, TailSound
    <1> QED BY <1>1, <1>2, TypeInit, TypeStep, CountsInit, CountsStep, TailStep, PTL
            DEF Spec

(* Where the output takes all or nothing of what it is given, an archive   *)
(* whose writing was reported successful is all on the output: the errors  *)
(* that are only looked for by their sign suffice then.                    *)
THEOREM NothingLostCorrect ==
    ASSUME "short" \notin Faults
    PROVE  Spec => []NothingLost
    <1>1. Init => whole
        BY Zenon DEF Init
    <1>2. ASSUME TypeInv, whole, [Next]_vars PROVE whole'
        <2>1. CASE CreateCheckpoint
            <3>1. PICK d \in CompressorFinish : Flushed(d)
                BY <2>1 DEF CreateCheckpoint
            <3>2. d.ok => d.whole
                BY FinishFacts, Zenon
            <3> QED BY <1>2, <3>1, <3>2, Zenon DEF Flushed
        <2>2. CASE PaxWrite
            <3> DEFINE w == Head(todo)
            <3>1. PICK o \in CompressorWrite(w.n) : Wrote(w, o)
                BY <2>2 DEF PaxWrite
            <3>2. w.n \in Nat
                BY <1>2, <2>2, HeadTailType DEF PaxWrite, TypeInv, TypeData, Control
            <3>3. /\ o.ret >= 0 => o.whole /\ o.ret = w.n
                  /\ o.ret \in Int
                BY <3>2, WriteFacts, Zenon
            <3> HIDE DEF w
            <3>4. o.ret < 0 \/ o.ret >= 0
                BY <3>3
            <3>5. UNCHANGED whole \/ (~(o.ret < 0) /\ whole' = (whole /\ o.whole /\ o.ret = w.n))
                BY <3>1, Zenon DEF Wrote
            <3> QED BY <1>2, <3>3, <3>4, <3>5, Zenon
        <2>3. CASE CloseBody
            <3>1. \A d \in CompressorFinish : d.ok => d.whole
                BY FinishFacts, Zenon
            <3> QED BY <1>2, <2>3, <3>1, Zenon DEF CloseBody
        <2>4. CASE WriteTail
            <3>1. \A d \in TailOutcomes : d.ok => d.whole
                BY TailFacts, Zenon
            <3> QED BY <1>2, <2>4, <3>1, Zenon DEF WriteTail
        <2>5. CASE UNCHANGED whole
            BY <1>2, <2>5, Zenon
        <2> QED BY <1>2, <2>1, <2>2, <2>3, <2>4, <2>5, Zenon
                DEF Next, CallStep, WriteEntry, WriteIndexLine, ContentShort, Finish,
                    WriteIndexSection, WriteCheckpointsSection, WriteEofMarker, vars
    <1>3. whole => NothingLost
        BY Zenon DEF NothingLost
    <1> QED BY <1>1, <1>2, <1>3, TypeInit, TypeStep, PTL DEF Spec

(***************************************************************************)
(* The writer keeps the tar stream in whole blocks.  What is to be shown   *)
(* of the writes of an entry is about their sum, which needs no recursion  *)
(* when it is stated by the positions a sequence of writes passes through. *)
(***************************************************************************)
(* The writes s lead from position r of the tar stream to position q.      *)
Passes(f, s, r, q) ==
    /\ f \in [1..(Len(s) + 1) -> Nat]
    /\ f[1] = r /\ f[Len(s) + 1] = q
    /\ \A i \in 1..Len(s) : f[i + 1] = f[i] + s[i].n
Reaches(s, r, q) == \E f : Passes(f, s, r, q)

(* They lead to the end of a block.                                        *)
Completes(s, r) == \E q \in Nat : Reaches(s, r, q) /\ q % Block = 0

(***************************************************************************)
(* Whole blocks                                                            *)
(***************************************************************************)

(* A multiple of Block is so many blocks, and so many blocks are one; two  *)
(* multiples make one.                                                     *)
LEMMA Blocks == ASSUME NEW k \in Nat PROVE (k * Block) % Block = 0
    BY BlockAssumption, SMT

LEMMA BlocksOf ==
    ASSUME NEW n \in Nat
    PROVE  /\ n \div Block \in Nat /\ n % Block \in 0..(Block - 1)
           /\ n = (n \div Block) * Block + (n % Block)
    BY BlockAssumption, SMT

LEMMA BlocksSum ==
    ASSUME NEW a \in Nat, NEW b \in Nat, a % Block = 0, b % Block = 0
    PROVE  (a + b) % Block = 0
    <1> DEFINE x == a \div Block
               y == b \div Block
    <1>1. x \in Nat /\ y \in Nat /\ a = x * Block /\ b = y * Block
        BY BlocksOf, BlockAssumption
    <1> HIDE DEF x, y
    <1>2. (x + y) * Block = a + b
        BY <1>1, BlockAssumption, SMT
    <1>3. x + y \in Nat
        BY <1>1
    <1> QED BY <1>2, <1>3, Blocks

(* Padding fills the last block.                                           *)
LEMMA PadFills ==
    ASSUME NEW n \in Nat
    PROVE  Pad(n) \in Nat /\ (n + Pad(n)) % Block = 0
    <1> DEFINE d == n \div Block
               r == n % Block
    <1>1. d \in Nat /\ r \in 0..(Block - 1) /\ n = d * Block + r
        BY BlocksOf
    <1>2. Pad(n) = (Block - r) % Block
        BY DEF Pad
    <1> HIDE DEF d, r
    <1>3. CASE r = 0
        <2>1. Pad(n) = 0
            BY <1>2, <1>3, BlockAssumption, SMT
        <2>2. n = d * Block
            BY <1>1, <1>3, BlockAssumption, SMT
        <2> QED BY <1>1, <2>1, <2>2, Blocks
    <1>4. CASE r # 0
        <2>1. Pad(n) = Block - r
            BY <1>1, <1>2, <1>4, BlockAssumption, SMT
        <2>2. n + Pad(n) = (d + 1) * Block
            BY <1>1, <2>1, BlockAssumption, SMT
        <2>3. d + 1 \in Nat /\ Pad(n) \in Nat
            BY <1>1, <2>1, BlockAssumption
        <2> QED BY <2>2, <2>3, Blocks
    <1> QED BY <1>3, <1>4

(***************************************************************************)
(* Sequences of writes                                                     *)
(***************************************************************************)
LEMMA ReachesNone ==
    ASSUME NEW r \in Nat
    PROVE  Reaches(<< >>, r, r)
    <1> DEFINE f == [i \in 1..1 |-> r]
    <1>1. Passes(f, << >>, r, r)
        BY DEF Passes
    <1> QED BY <1>1, Zenon DEF Reaches

LEMMA ReachesOne ==
    ASSUME NEW r \in Nat, NEW w, w.n \in Nat
    PROVE  Reaches(<<w>>, r, r + w.n)
    <1> DEFINE f == [i \in 1..2 |-> IF i = 1 THEN r ELSE r + w.n]
    <1>1. Len(<<w>>) = 1 /\ <<w>>[1] = w
        OBVIOUS
    <1>2. f \in [1..2 -> Nat] /\ f[1] = r /\ f[2] = r + w.n
        OBVIOUS
    <1> HIDE DEF f
    <1>3. Passes(f, <<w>>, r, r + w.n)
        BY <1>1, <1>2 DEF Passes
    <1> QED BY <1>3, Zenon DEF Reaches

(* One sequence of writes after another.                                   *)
LEMMA ReachesBoth ==
    ASSUME NEW s \in Seq(WriteReq), NEW t \in Seq(WriteReq),
           NEW r \in Nat, NEW p \in Nat, NEW q \in Nat,
           Reaches(s, r, p), Reaches(t, p, q)
    PROVE  Reaches(s \o t, r, q)
    <1>1. PICK f : Passes(f, s, r, p)
        BY Zenon DEF Reaches
    <1>2. PICK g : Passes(g, t, p, q)
        BY Zenon DEF Reaches
    <1> DEFINE a == Len(s)
               b == Len(t)
               u == s \o t
               h == [i \in 1..(a + b + 1) |-> IF i <= a + 1 THEN f[i] ELSE g[i - a]]
    <1>3. a \in Nat /\ b \in Nat /\ Len(u) = a + b
        OBVIOUS
    <1>4. /\ \A i \in 1..a : u[i] = s[i]
          /\ \A j \in 1..b : u[a + j] = t[j]
        <2>1. \A i \in 1..(a + b) : u[i] = IF i <= a THEN s[i] ELSE t[i - a]
            BY ConcatProperties
        <2> HIDE DEF u, a, b
        <2>2. ASSUME NEW j \in 1..b PROVE u[a + j] = t[j]
            <3>1. a + j \in 1..(a + b) /\ ~(a + j <= a) /\ (a + j) - a = j
                BY <1>3
            <3>2. PICK i \in 1..(a + b) : i = a + j
                BY <3>1
            <3>3. u[i] = t[i - a] /\ i - a = j
                BY <2>1, <3>1, <3>2
            <3> QED BY <3>2, <3>3
        <2>3. ASSUME NEW i \in 1..a PROVE u[i] = s[i]
            BY <1>3, <2>1
        <2> QED BY <2>2, <2>3
    <1> HIDE DEF u, a, b
    <1>5. /\ f \in [1..(a + 1) -> Nat] /\ f[1] = r /\ f[a + 1] = p
          /\ \A i \in 1..a : f[i + 1] = f[i] + s[i].n
        BY <1>1 DEF Passes, a
    <1>6. /\ g \in [1..(b + 1) -> Nat] /\ g[1] = p /\ g[b + 1] = q
          /\ \A j \in 1..b : g[j + 1] = g[j] + t[j].n
        BY <1>2 DEF Passes, b
    <1>7. h \in [1..(a + b + 1) -> Nat]
        <2>1. ASSUME NEW i \in 1..(a + b + 1)
              PROVE  (IF i <= a + 1 THEN f[i] ELSE g[i - a]) \in Nat
            BY <1>3, <1>5, <1>6, <2>1
        <2> QED BY <2>1
    <1>8. \A i \in 1..(a + 1) : h[i] = f[i]
        BY <1>3
    <1>9. \A j \in 1..(b + 1) : h[a + j] = g[j]
        <2>1. \A i \in 1..(a + b + 1) : ~(i <= a + 1) => h[i] = g[i - a]
            OBVIOUS
        <2> HIDE DEF h
        <2>2. ASSUME NEW j \in 1..(b + 1), j # 1 PROVE h[a + j] = g[j]
            <3>1. a + j \in 1..(a + b + 1) /\ ~(a + j <= a + 1) /\ (a + j) - a = j
                BY <1>3, <2>2
            <3>2. PICK i \in 1..(a + b + 1) : i = a + j
                BY <3>1
            <3>3. h[i] = g[i - a] /\ i - a = j
                BY <2>1, <3>1, <3>2
            <3> QED BY <3>2, <3>3
        <2>3. h[a + 1] = g[1]
            BY <1>3, <1>5, <1>6, <1>8
        <2> QED BY <2>2, <2>3
    <1> HIDE DEF h
    <1>10. h[1] = r /\ h[a + b + 1] = q
        <2>1. a + b + 1 = a + (b + 1) /\ b + 1 \in 1..(b + 1) /\ 1 \in 1..(a + 1)
            BY <1>3
        <2> QED BY <1>5, <1>6, <1>8, <1>9, <2>1
    <1>11. ASSUME NEW i \in 1..(a + b) PROVE h[i + 1] = h[i] + u[i].n
        <2>1. CASE i \in 1..a
            <3>1. i + 1 \in 1..(a + 1) /\ i \in 1..(a + 1)
                BY <1>3, <2>1
            <3> QED BY <1>4, <1>5, <1>8, <2>1, <3>1
        <2>2. CASE i \notin 1..a
            <3>1. PICK j \in 1..b : i = a + j
                <4>1. i - a \in 1..b /\ i = a + (i - a)
                    BY <1>3, <2>2
                <4> QED BY <4>1
            <3>2. j \in 1..(b + 1) /\ j + 1 \in 1..(b + 1) /\ i + 1 = a + (j + 1)
                BY <1>3, <3>1
            <3>3. h[i] = g[j] /\ h[i + 1] = g[j + 1] /\ u[i] = t[j]
                BY <1>4, <1>9, <3>1, <3>2
            <3> QED BY <1>6, <3>1, <3>3
        <2> QED BY <2>1, <2>2
    <1>12. Passes(h, u, r, q)
        BY <1>3, <1>7, <1>10, <1>11 DEF Passes
    <1> QED BY <1>12, Zenon DEF Reaches, u

(* After the first write the others lead to the same place.                *)
LEMMA ReachesRest ==
    ASSUME NEW s \in Seq(WriteReq), s # << >>, NEW r \in Nat, NEW q \in Nat, Reaches(s, r, q)
    PROVE  Reaches(Tail(s), r + Head(s).n, q)
    <1>1. PICK f : Passes(f, s, r, q)
        BY Zenon DEF Reaches
    <1> DEFINE k == Len(s)
               t == Tail(s)
               g == [i \in 1..k |-> f[i + 1]]
    <1>2. /\ k \in Nat \ {0} /\ Len(t) = k - 1 /\ Head(s) = s[1]
          /\ \A i \in 1..(k - 1) : t[i] = s[i + 1]
        OBVIOUS
    <1> HIDE DEF t, k
    <1>3. /\ f \in [1..(k + 1) -> Nat] /\ f[1] = r /\ f[k + 1] = q
          /\ \A i \in 1..k : f[i + 1] = f[i] + s[i].n
        BY <1>1 DEF Passes, k
    <1>4. \A i \in 1..k : g[i] = f[i + 1] /\ f[i + 1] \in Nat
        BY <1>2, <1>3
    <1>5. g \in [1..k -> Nat]
        BY <1>4
    <1> HIDE DEF g
    <1>6. g[1] = r + Head(s).n /\ g[k] = q
        BY <1>2, <1>3, <1>4
    <1>7. ASSUME NEW i \in 1..(k - 1) PROVE g[i + 1] = g[i] + t[i].n
        <2>1. i \in 1..k /\ i + 1 \in 1..k
            BY <1>2, <1>7
        <2>2. g[i] = f[i + 1] /\ g[i + 1] = f[(i + 1) + 1] /\ t[i] = s[i + 1]
            BY <1>2, <1>4, <1>7, <2>1
        <2> QED BY <1>3, <2>1, <2>2
    <1>8. Passes(g, t, r + Head(s).n, q)
        <2>1. (k - 1) + 1 = k
            BY <1>2
        <2> QED BY <1>2, <1>5, <1>6, <1>7, <2>1 DEF Passes
    <1> QED BY <1>8, Zenon DEF Reaches, t

LEMMA ReachesEnd ==
    ASSUME NEW r, NEW q, Reaches(<< >>, r, q)
    PROVE  q = r
    BY DEF Reaches, Passes

(* The content of an entry is whole blocks.                                *)
LEMMA ReachesData ==
    ASSUME NEW m \in Metas, NEW r \in Nat
    PROVE  /\ DataBlocks(m) \in Nat /\ DataWrites(m) \in Seq(WriteReq)
           /\ Reaches(DataWrites(m), r, r + DataBlocks(m) * Block)
    <1> DEFINE n == DataBlocks(m)
               s == DataWrites(m)
               w == Req("data", Block, "full")
               f == [i \in 1..(n + 1) |-> r + (i - 1) * Block]
    <1>1. n \in Nat
        BY MetasAssumption, BlockAssumption DEF DataBlocks
    <1>2. w \in WriteReq /\ w.n = Block
        BY BlockAssumption, ReqType DEF Parts
    <1>3. s = [i \in 1..n |-> w]
        BY DEF DataWrites
    <1> HIDE DEF n, s, w
    <1>4. s \in Seq(WriteReq) /\ Len(s) = n /\ \A i \in 1..n : s[i] = w
        BY <1>1, <1>2, <1>3, IsASeq, LenProperties
    <1>5. \A i \in 1..(n + 1) : (i - 1) * Block \in Nat
        <2>1. ASSUME NEW i \in 1..(n + 1) PROVE (i - 1) * Block \in Nat
            <3>1. i - 1 \in Nat
                BY <1>1
            <3> QED BY <3>1, BlockAssumption, SMT
        <2> QED BY <2>1
    <1>6. f \in [1..(n + 1) -> Nat]
        BY <1>5
    <1>7. \A i \in 1..(n + 1) : f[i] = r + (i - 1) * Block
        OBVIOUS
    <1> HIDE DEF f
    <1>8. f[1] = r /\ f[n + 1] = r + n * Block
        <2>1. (1 - 1) * Block = 0 /\ (n + 1) - 1 = n
            BY <1>1, BlockAssumption
        <2>2. 1 \in 1..(n + 1) /\ n + 1 \in 1..(n + 1)
            BY <1>1
        <2> QED BY <1>7, <2>1, <2>2
    <1>9. ASSUME NEW i \in 1..n PROVE f[i + 1] = f[i] + s[i].n
        <2>1. i \in 1..(n + 1) /\ i + 1 \in 1..(n + 1) /\ (i + 1) - 1 = i
            BY <1>1
        <2>2. f[i] = r + (i - 1) * Block /\ f[i + 1] = r + i * Block
            BY <1>7, <2>1
        <2>3. i * Block = (i - 1) * Block + Block /\ (i - 1) * Block \in Nat
            BY <1>5, <2>1, BlockAssumption, SMT
        <2> QED BY <1>2, <1>4, <2>2, <2>3, BlockAssumption
    <1>10. Passes(f, s, r, r + n * Block)
        BY <1>4, <1>6, <1>8, <1>9 DEF Passes
    <1> QED BY <1>1, <1>4, <1>10, Zenon DEF Reaches, n, s

(* An extended header is a block, the records, and what fills their last   *)
(* block, if anything does.                                                *)
LEMMA ReachesExtended ==
    ASSUME NEW m \in Metas, NEW r \in Nat, r % Block = 0
    PROVE  /\ XWrites(m) \in Seq(WriteReq)
           /\ \E q \in Nat : Reaches(XWrites(m), r, q) /\ q % Block = 0
    <1> DEFINE n == m.pax
               w1 == Req("xheader", Block, "full")
               w2 == Req("xdata", n, "full")
               w3 == Req("xpad", Pad(n), "sign")
               P == IF Pad(n) > 0 THEN <<w3>> ELSE << >>
    <1>1. n \in Nat /\ Block \in Nat /\ Block % Block = 0
        BY MetasAssumption, BlockAssumption
    <1>2. Pad(n) \in Nat /\ (n + Pad(n)) % Block = 0
        BY <1>1, PadFills
    <1>3. /\ w1.n = Block /\ w2.n = n /\ w3.n = Pad(n)
          /\ <<w1>> \in Seq(WriteReq) /\ <<w2>> \in Seq(WriteReq) /\ <<w3>> \in Seq(WriteReq)
        BY <1>1, <1>2, ReqType DEF Parts
    <1>4. CASE n = 0
        <2>1. XWrites(m) = << >>
            BY <1>4 DEF XWrites
        <2> QED BY <2>1, ReachesNone
    <1>5. CASE n # 0
        <2>1. XWrites(m) = <<w1, w2>> \o P
            BY <1>5 DEF XWrites
        <2>2. <<w1, w2>> = <<w1>> \o <<w2>>
            OBVIOUS
        <2> DEFINE x == r + Block
                   y == x + n
                   z == y + Pad(n)
        <2>3. x \in Nat /\ y \in Nat /\ z \in Nat
            BY <1>1, <1>2
        <2>4. z % Block = 0
            <3>1. x % Block = 0
                BY <1>1, BlocksSum
            <3>2. z = x + (n + Pad(n)) /\ n + Pad(n) \in Nat
                BY <1>1, <1>2, <2>3
            <3> QED BY <1>2, <2>3, <3>1, <3>2, BlocksSum
        <2>5. Reaches(<<w1>>, r, x)
            BY <1>1, <1>3, ReachesOne
        <2>6. Reaches(<<w2>>, x, y)
            BY <1>1, <1>3, <2>3, ReachesOne
        <2>7. P \in Seq(WriteReq) /\ Reaches(P, y, z)
            <3>1. CASE Pad(n) > 0
                <4>1. P = <<w3>>
                    BY <3>1
                <4>2. Reaches(<<w3>>, y, z)
                    BY <1>2, <1>3, <2>3, ReachesOne
                <4> QED BY <1>3, <4>1, <4>2
            <3>2. CASE ~(Pad(n) > 0)
                <4>1. P = << >>
                    BY <3>2
                <4>2. z = y
                    BY <1>2, <2>3, <3>2
                <4>3. Reaches(<< >>, y, y)
                    BY <2>3, ReachesNone
                <4>4. << >> \in Seq(WriteReq)
                    OBVIOUS
                <4> QED BY <4>1, <4>2, <4>3, <4>4
            <3> QED BY <3>1, <3>2
        <2> HIDE DEF w1, w2, w3, x, y, z, P
        <2>8. Reaches(<<w1>> \o <<w2>>, r, y) /\ <<w1>> \o <<w2>> \in Seq(WriteReq)
            BY <1>3, <2>3, <2>5, <2>6, ReachesBoth, ConcatProperties
        <2>9. Reaches((<<w1>> \o <<w2>>) \o P, r, z)
            BY <2>3, <2>7, <2>8, ReachesBoth
        <2>10. (<<w1>> \o <<w2>>) \o P \in Seq(WriteReq)
            BY <2>7, <2>8, ConcatProperties
        <2> QED BY <2>1, <2>2, <2>3, <2>4, <2>9, <2>10
    <1> QED BY <1>4, <1>5

(* From the beginning of a block the writes of an entry, and those of the  *)
(* end of the archive, lead to the end of one.                             *)
LEMMA EntryCompletes ==
    ASSUME NEW m \in Metas, NEW r \in Nat, r % Block = 0
    PROVE  Completes(EntryWrites(m), r)
    <1> DEFINE w == Req("header", Block, "full")
               X == XWrites(m)
               D == DataWrites(m)
    <1>1. w.n = Block /\ <<w>> \in Seq(WriteReq) /\ Block \in Nat /\ Block % Block = 0
        BY BlockAssumption, ReqType DEF Parts
    <1>2. PICK x \in Nat : Reaches(X, r, x) /\ x % Block = 0
        BY ReachesExtended
    <1>3. X \in Seq(WriteReq)
        BY ReachesExtended
    <1> DEFINE y == x + Block
               z == y + DataBlocks(m) * Block
    <1>4. y \in Nat /\ y % Block = 0
        BY <1>1, <1>2, BlocksSum
    <1>5. Reaches(<<w>>, x, y)
        BY <1>1, <1>2, ReachesOne
    <1>6. D \in Seq(WriteReq) /\ DataBlocks(m) \in Nat /\ Reaches(D, y, z)
        BY <1>4, ReachesData
    <1>7. z \in Nat /\ z % Block = 0
        <2>1. DataBlocks(m) * Block \in Nat
            BY <1>1, <1>6, SMT
        <2>2. (DataBlocks(m) * Block) % Block = 0
            BY <1>6, Blocks
        <2> QED BY <1>4, <2>1, <2>2, BlocksSum
    <1>8. EntryWrites(m) = (X \o <<w>>) \o D
        BY DEF EntryWrites
    <1> HIDE DEF w, X, D, y, z
    <1>9. Reaches(X \o <<w>>, r, y) /\ X \o <<w>> \in Seq(WriteReq)
        BY <1>1, <1>2, <1>3, <1>4, <1>5, ReachesBoth, ConcatProperties
    <1>10. Reaches((X \o <<w>>) \o D, r, z)
        BY <1>4, <1>6, <1>7, <1>9, ReachesBoth
    <1> QED BY <1>7, <1>8, <1>10 DEF Completes

LEMMA EndCompletes ==
    ASSUME NEW r \in Nat, r % Block = 0
    PROVE  Completes(EndWrites, r)
    <1> DEFINE w == Req("zero", Block, "full")
               x == r + Block
               y == x + Block
    <1>1. w.n = Block /\ <<w>> \in Seq(WriteReq) /\ Block \in Nat /\ Block % Block = 0
        BY BlockAssumption, ReqType DEF Parts
    <1>2. x \in Nat /\ x % Block = 0
        <2>1. (r + Block) % Block = 0
            BY <1>1, BlocksSum
        <2> QED BY <1>1, <2>1
    <1> HIDE DEF x
    <1>3. y \in Nat /\ y % Block = 0
        <2>1. (x + Block) % Block = 0
            BY <1>1, <1>2, BlocksSum
        <2> QED BY <1>1, <1>2, <2>1
    <1>4. Reaches(<<w>>, r, x) /\ Reaches(<<w>>, x, y)
        BY <1>1, <1>2, ReachesOne DEF x
    <1>5. EndWrites = <<w>> \o <<w>>
        BY DEF EndWrites
    <1> HIDE DEF w, x, y
    <1>6. Reaches(<<w>> \o <<w>>, r, y)
        BY <1>1, <1>2, <1>3, <1>4, ReachesBoth
    <1> QED BY <1>3, <1>5, <1>6 DEF Completes

(***************************************************************************)
(* The writer                                                              *)
(***************************************************************************)

(* While the writes of an entry, or of the end of the archive, are under   *)
(* way, those still to do end where a block does.                          *)
AInv ==
    ~failed =>
        /\ pc \in {"pax", "end"} => Completes(todo, RawLen)
        /\ pc \notin {"pax", "end"} => RawLen % Block = 0
        /\ \A i \in 1..Len(idxLines) : idxLines[i].off % Block = 0

(* With gzip, or an output that takes all of a write or none, a write that *)
(* did not fail is in the tar stream as a whole.                           *)
LEMMA WholeWrites ==
    ASSUME Gzip \/ "short" \notin Faults, TypeInv, PaxWrite, ~failed'
    PROVE  /\ RawLen' = RawLen + Head(todo).n
           /\ todo' = Tail(todo)
           /\ pc' = IF Tail(todo) # << >> THEN pc
                    ELSE IF pc = "pax" THEN "ready" ELSE "close"
           /\ ~failed /\ UNCHANGED idxLines
    <1> DEFINE w == Head(todo)
    <1>1. PICK o \in CompressorWrite(w.n) : Wrote(w, o)
        BY DEF PaxWrite
    <1>2. w.n \in Nat
        BY HeadTailType DEF PaxWrite, TypeInv, TypeData, Control
    <1>3. UNCHANGED idxLines
        BY DEF PaxWrite
    <1> HIDE DEF w
    <1>4. ~(o.ret < 0 \/ (w.check = "full" /\ o.ret < w.n))
        BY <1>1, Zenon DEF Wrote, Fail
    <1>5. o.raw = w.n
        <2>1. o.ret \in Int /\ (o.ret >= 0 => o.raw = o.ret)
            BY <1>2, WriteFacts
        <2>2. CASE Gzip
            <3>1. PICK d \in Deflate(0) :
                     o = [ret |-> IF d.ok THEN w.n ELSE -1, raw |-> w.n,
                          got |-> d.got, whole |-> d.whole]
                BY <2>2 DEF CompressorWrite
            <3> QED BY <3>1
        <2>3. CASE "short" \notin Faults
            <3>1. o.ret >= 0 => o.ret = w.n
                BY <1>2, <2>3, WriteFacts
            <3> QED BY <1>4, <2>1, <3>1
        <2> QED BY <2>2, <2>3
    <1>6. /\ todo' = Tail(todo)
          /\ pc' = IF Tail(todo) # << >> THEN pc
                   ELSE IF pc = "pax" THEN "ready" ELSE "close"
          /\ UNCHANGED failed
        BY <1>1, <1>4, Zenon DEF Wrote
    <1>7. RawLen' = RawLen + w.n
        <2>1. body \in Seq(Piece)
            BY DEF TypeInv, TypeData, Buffers
        <2>2. RawLen \in Nat
            BY <2>1, RawLenFacts
        <2>3. CASE w.n > 0
            <3>1. body' = Append(body, [entry |-> IF pc = "pax" THEN Len(metas) ELSE 0,
                                        part |-> w.part, at |-> RawLen, n |-> w.n])
                BY <1>1, <1>5, <2>3 DEF Wrote
            <3> QED BY <1>2, <2>1, <3>1, RawLenFacts
        <2>4. CASE ~(w.n > 0)
            <3>1. UNCHANGED body
                BY <1>1, <1>5, <2>4 DEF Wrote
            <3>2. RawLen' = RawLen
                BY <3>1 DEF RawLen
            <3> QED BY <1>2, <2>2, <2>4, <3>2
        <2> QED BY <1>2, <2>3, <2>4
    <1> QED BY <1>3, <1>6, <1>7 DEF w

LEMMA AStep ==
    ASSUME Gzip \/ "short" \notin Faults, TypeInv, Counts, AInv, [Next]_vars
    PROVE  AInv'
    <1> SUFFICES ASSUME ~failed'
                 PROVE  AInv'
        BY DEF AInv
    <1>0. RawLen \in Nat /\ Len(idxLines) \in Nat
        BY RawLenFacts DEF TypeInv, TypeData, Buffers
    <1>1. ASSUME UNCHANGED <<body, idxLines, failed>>, pc \notin {"pax", "end"},
                 pc' \notin {"pax", "end"}
          PROVE  AInv'
        <2>1. RawLen' = RawLen
            BY <1>1 DEF RawLen
        <2> QED BY <1>1, <2>1 DEF AInv
    <1>2. ASSUME NEW m \in Metas, WriteEntry(m) PROVE AInv'
        <2>1. pc = "ready" /\ pc' \in {"checkpoint", "index"}
            BY <1>2, Zenon DEF WriteEntry, MayCall
        <2>2. UNCHANGED <<body, idxLines, failed>>
            BY <1>2 DEF WriteEntry
        <2> QED BY <1>1, <2>1, <2>2
    <1>3. CASE Finish
        <2>1. /\ pc = "ready" /\ pc' = "end" /\ todo' = EndWrites
              /\ UNCHANGED <<body, idxLines, failed>>
            BY <1>3 DEF Finish, MayCall
        <2>2. RawLen' = RawLen /\ RawLen % Block = 0
            BY <2>1 DEF RawLen, AInv
        <2>3. Completes(todo', RawLen')
            BY <1>0, <2>1, <2>2, EndCompletes
        <2> QED BY <2>1, <2>3 DEF AInv
    <1>4. CASE CreateCheckpoint
        <2>1. pc = "checkpoint" /\ UNCHANGED <<body, idxLines>>
            BY <1>4 DEF CreateCheckpoint
        <2>2. pc' = "index" /\ UNCHANGED failed
            BY <1>4, Zenon DEF CreateCheckpoint, Flushed, Fail
        <2> QED BY <1>1, <2>1, <2>2
    <1>5. CASE WriteIndexLine
        <2>1. /\ pc = "index" /\ pc' = "pax" /\ UNCHANGED <<body, failed>>
              /\ todo' = EntryWrites(metas[Len(metas)]) /\ Indexed
            BY <1>5 DEF WriteIndexLine, Indexed
        <2>2. metas[Len(metas)] \in Metas
            <3>1. metas \in Seq(Metas) /\ metas # << >>
                BY <2>1 DEF TypeInv, TypeData, Buffers, Control
            <3>2. Len(metas) \in 1..Len(metas)
                BY <3>1
            <3> QED BY <3>1, <3>2
        <2>3. RawLen' = RawLen /\ RawLen % Block = 0 /\ ucount = RawLen
            BY <2>1 DEF RawLen, AInv, Counts
        <2>4. Completes(todo', RawLen')
            BY <1>0, <2>1, <2>2, <2>3, EntryCompletes
        <2>5. ASSUME NEW i \in 1..Len(idxLines') PROVE idxLines'[i].off % Block = 0
            <3>1. CASE i = Len(idxLines) + 1
                BY <2>1, <2>3, <3>1, NewIndexLine
            <3>2. CASE i # Len(idxLines) + 1
                <4>1. i \in 1..Len(idxLines) /\ idxLines'[i] = idxLines[i]
                    BY <1>0, <2>1, <2>5, <3>2, NewIndexLine
                <4> QED BY <2>1, <4>1 DEF AInv
            <3> QED BY <3>1, <3>2
        <2> QED BY <2>1, <2>4, <2>5 DEF AInv
    <1>6. CASE PaxWrite
        <2>1. /\ pc \in {"pax", "end"} /\ todo # << >> /\ todo \in Seq(WriteReq)
              /\ Head(todo).n \in Nat
            BY <1>6, HeadTailType DEF PaxWrite, TypeInv, TypeData, Control
        <2>2. /\ RawLen' = RawLen + Head(todo).n /\ todo' = Tail(todo)
              /\ pc' = IF Tail(todo) # << >> THEN pc
                       ELSE IF pc = "pax" THEN "ready" ELSE "close"
              /\ ~failed /\ UNCHANGED idxLines
            BY <1>6, WholeWrites
        <2>3. PICK q \in Nat : Reaches(todo, RawLen, q) /\ q % Block = 0
            BY <2>1, <2>2 DEF AInv, Completes
        <2>4. Reaches(todo', RawLen', q)
            BY <1>0, <2>1, <2>2, <2>3, ReachesRest
        <2>5. CASE Tail(todo) # << >>
            <3>1. pc' = pc /\ Completes(todo', RawLen')
                BY <2>2, <2>3, <2>4, <2>5 DEF Completes
            <3> QED BY <2>1, <2>2, <3>1 DEF AInv
        <2>6. CASE Tail(todo) = << >>
            <3>1. pc' \notin {"pax", "end"}
                BY <2>2, <2>6
            <3>2. RawLen' = q
                BY <2>2, <2>4, <2>6, ReachesEnd
            <3> QED BY <2>2, <2>3, <3>1, <3>2 DEF AInv
        <2> QED BY <2>5, <2>6
    <1>7. CASE ContentShort
        BY <1>7, Zenon DEF ContentShort, Fail
    <1>8. CASE CloseBody \/ WriteIndexSection \/ WriteCheckpointsSection \/ WriteTail
               \/ WriteEofMarker
        <2>1. pc \notin {"pax", "end"} /\ UNCHANGED <<body, idxLines>>
            BY <1>8 DEF CloseBody, WriteIndexSection, WriteCheckpointsSection, WriteTail,
                        WriteEofMarker
        <2>2. /\ pc' \in {"index section", "checkpoints section", "tail section", "eof", "done"}
              /\ UNCHANGED failed
            BY <1>8, Zenon DEF CloseBody, WriteIndexSection, WriteCheckpointsSection, WriteTail,
                        WriteEofMarker, Fail
        <2> QED BY <1>1, <2>1, <2>2
    <1>9. CASE UNCHANGED vars
        <2>1. UNCHANGED <<body, idxLines, failed, pc, todo>>
            BY <1>9 DEF vars
        <2>2. RawLen' = RawLen
            BY <2>1 DEF RawLen
        <2> QED BY <2>1, <2>2 DEF AInv
    <1> QED BY <1>2, <1>3, <1>4, <1>5, <1>6, <1>7, <1>8, <1>9 DEF Next, CallStep

(* Between two calls that succeeded the tar stream is whole blocks, and    *)
(* every line of the index points at the beginning of one, unless the      *)
(* output of a plain archive takes part of a padding write, whose result   *)
(* is only compared with 0.                                                *)
THEOREM BlockAlignedCorrect ==
    ASSUME Gzip \/ "short" \notin Faults
    PROVE  Spec => []BlockAligned
    <1>1. Init => AInv
        <2>1. 0 % Block = 0
            BY BlockAssumption
        <2> QED BY <2>1 DEF Init, AInv, RawLen
    <1>2. AInv => BlockAligned
        BY DEF AInv, BlockAligned
    <1>3. TypeInv /\ Counts /\ AInv /\ [Next]_vars => AInv'
        BY AStep
    <1> QED BY <1>1, <1>2, <1>3, TypeInit, TypeStep, CountsInit, CountsStep, PTL DEF Spec

(***************************************************************************)
(* ScarWriter implements ScarArchive, for every value of the constants for *)
(* which it can: an output that takes part of a write leaves entries short *)
(* that were acknowledged, and a client that goes on after an error adds   *)
(* members to an archive that is broken.                                   *)
(***************************************************************************)

(***************************************************************************)
(* The writes of an entry                                                  *)
(***************************************************************************)
NonEmpty(s) == \A i \in 1..Len(s) : s[i].n > 0

LEMMA ConcatNonEmpty ==
    ASSUME NEW s \in Seq(WriteReq), NEW t \in Seq(WriteReq), NonEmpty(s), NonEmpty(t)
    PROVE  s \o t \in Seq(WriteReq) /\ NonEmpty(s \o t)
    <1>1. Len(s) \in Nat /\ Len(t) \in Nat
        OBVIOUS
    <1>2. ASSUME NEW i \in 1..Len(s \o t) PROVE (s \o t)[i].n > 0
        <2>1. i \in 1..Len(s) + Len(t)
            BY ConcatProperties
        <2>2. CASE i <= Len(s)
            <3>1. (s \o t)[i] = s[i] /\ i \in 1..Len(s)
                BY <1>1, <2>1, <2>2, ConcatProperties
            <3> QED BY <3>1 DEF NonEmpty
        <2>3. CASE ~(i <= Len(s))
            <3>1. (s \o t)[i] = t[i - Len(s)] /\ i - Len(s) \in 1..Len(t)
                BY <1>1, <2>1, <2>3, ConcatProperties
            <3> QED BY <3>1 DEF NonEmpty
        <2> QED BY <2>2, <2>3
    <1> QED BY <1>2, ConcatProperties DEF NonEmpty

LEMMA OneNonEmpty ==
    ASSUME NEW part \in Parts, NEW n \in Nat \ {0}, NEW check \in {"full", "sign"}
    PROVE  LET s == <<Req(part, n, check)>> IN s \in Seq(WriteReq) /\ NonEmpty(s)
    BY ReqType DEF NonEmpty

(* The pax writer never makes an empty write.                              *)
LEMMA EntryWritesNonEmpty ==
    ASSUME NEW m \in Metas
    PROVE  /\ EntryWrites(m) \in Seq(WriteReq) /\ Len(EntryWrites(m)) \in Nat \ {0}
           /\ NonEmpty(EntryWrites(m))
    <1>1. m.pax \in Nat /\ m.size \in Nat /\ Block \in Nat \ {0}
        BY MetasAssumption, BlockAssumption
    <1>2. Pad(m.pax) \in Nat
        <2>1. m.pax % Block \in 0..(Block - 1)
            BY <1>1
        <2>2. Block - (m.pax % Block) \in Nat
            BY <1>1, <2>1
        <2> QED BY <1>1, <2>2 DEF Pad
    <1>3. << >> \in Seq(WriteReq) /\ NonEmpty(<< >>)
        BY DEF NonEmpty
    <1>4. XWrites(m) \in Seq(WriteReq) /\ NonEmpty(XWrites(m))
        <2>1. CASE m.pax = 0
            BY <1>3, <2>1 DEF XWrites
        <2>2. CASE m.pax # 0
            <3> DEFINE Q == <<Req("xheader", Block, "full"), Req("xdata", m.pax, "full")>>
                       P == IF Pad(m.pax) > 0 THEN <<Req("xpad", Pad(m.pax), "sign")>>
                            ELSE << >>
            <3>1. Q \in Seq(WriteReq) /\ NonEmpty(Q)
                BY <1>1, <2>2, ReqType DEF Parts, NonEmpty
            <3>2. P \in Seq(WriteReq) /\ NonEmpty(P)
                <4>1. CASE Pad(m.pax) > 0
                    <5>1. Pad(m.pax) \in Nat \ {0}
                        BY <1>2, <4>1
                    <5>2. P = <<Req("xpad", Pad(m.pax), "sign")>>
                        BY <4>1
                    <5> QED BY <5>1, <5>2, OneNonEmpty DEF Parts
                <4>2. CASE ~(Pad(m.pax) > 0)
                    <5>1. P = << >>
                        BY <4>2
                    <5> QED BY <1>3, <5>1
                <4> QED BY <4>1, <4>2
            <3>3. XWrites(m) = Q \o P
                BY <2>2 DEF XWrites
            <3> HIDE DEF Q, P
            <3> QED BY <3>1, <3>2, <3>3, ConcatNonEmpty
        <2> QED BY <2>1, <2>2
    <1> DEFINE H == <<Req("header", Block, "full")>>
    <1>5. H \in Seq(WriteReq) /\ NonEmpty(H)
        BY <1>1, OneNonEmpty DEF Parts
    <1>6. DataWrites(m) \in Seq(WriteReq) /\ NonEmpty(DataWrites(m))
        <2>1. DataBlocks(m) \in Nat
            BY <1>1 DEF DataBlocks
        <2>2. Req("data", Block, "full") \in WriteReq /\ Req("data", Block, "full").n = Block
            BY <1>1, ReqType DEF Parts
        <2>3. DataWrites(m) \in Seq(WriteReq)
            BY <2>1, <2>2, IsASeq DEF DataWrites
        <2>4. ASSUME NEW i \in 1..Len(DataWrites(m)) PROVE DataWrites(m)[i].n > 0
            <3>1. DataWrites(m)[i] = Req("data", Block, "full")
                BY <2>1 DEF DataWrites
            <3> QED BY <1>1, <2>2, <3>1
        <2> QED BY <2>3, <2>4 DEF NonEmpty
    <1>7. EntryWrites(m) = (XWrites(m) \o H) \o DataWrites(m)
        BY DEF EntryWrites
    <1>8. Len(EntryWrites(m)) \in Nat \ {0}
        BY EntryWritesFacts DEF StartsFull
    <1> HIDE DEF H
    <1> QED BY <1>4, <1>5, <1>6, <1>7, <1>8, ConcatNonEmpty

(***************************************************************************)
(* What is in the tar stream                                               *)
(***************************************************************************)

(* The n pieces of the stream b from index j on are the first n of the     *)
(* writes ws of entry e.                                                   *)
Run(b, j, n, e, ws) ==
    \A i \in 1..n :
        /\ j + i - 1 <= Len(b)
        /\ b[j + i - 1].entry = e
        /\ b[j + i - 1].part = ws[i].part
        /\ b[j + i - 1].n = ws[i].n

(* They are all of ws, and all there is of e.                              *)
AllOf(b, j, e, ws) ==
    /\ j \in 1..Len(b)
    /\ Run(b, j, Len(ws), e, ws)
    /\ \A k \in 1..Len(b) : b[k].entry = e => k \in j..j + Len(ws) - 1

(* A piece of another entry leaves it so.                                  *)
LEMMA AllOfStays ==
    ASSUME NEW b \in Seq(Piece), NEW piece \in Piece, NEW j, NEW e, NEW ws,
           AllOf(b, j, e, ws), piece.entry # e
    PROVE  AllOf(Append(b, piece), j, e, ws)
    <1> DEFINE c == Append(b, piece)
    <1>1. /\ Len(b) \in Nat /\ Len(c) = Len(b) + 1 /\ c[Len(b) + 1] = piece
          /\ \A i \in 1..Len(b) : c[i] = b[i]
        BY AppendFacts
    <1>2. j \in 1..Len(b)
        BY DEF AllOf
    <1> HIDE DEF c
    <1>3. Run(c, j, Len(ws), e, ws)
        <2>1. ASSUME NEW i \in 1..Len(ws)
              PROVE  /\ j + i - 1 <= Len(c)
                     /\ c[j + i - 1].entry = e
                     /\ c[j + i - 1].part = ws[i].part
                     /\ c[j + i - 1].n = ws[i].n
            <3>1. /\ j + i - 1 <= Len(b)
                  /\ b[j + i - 1].entry = e
                  /\ b[j + i - 1].part = ws[i].part
                  /\ b[j + i - 1].n = ws[i].n
                BY DEF AllOf, Run
            <3>2. j + i - 1 \in 1..Len(b)
                BY <1>1, <1>2, <3>1
            <3> QED BY <1>1, <3>1, <3>2
        <2> QED BY <2>1 DEF Run
    <1>4. ASSUME NEW k \in 1..Len(c), c[k].entry = e PROVE k \in j..j + Len(ws) - 1
        <2>1. k # Len(b) + 1
            BY <1>1, <1>4
        <2>2. k \in 1..Len(b) /\ b[k].entry = e
            BY <1>1, <1>4, <2>1
        <2> QED BY <2>2 DEF AllOf
    <1>5. j \in 1..Len(c)
        BY <1>1, <1>2
    <1> QED BY <1>3, <1>4, <1>5 DEF AllOf, c

(* The last d pieces of b are the first writes ws of entry e, of which     *)
(* those of rest are still to come.                                        *)
Underway(b, d, e, ws, rest) ==
    /\ d \in 0..Len(b)
    /\ Len(ws) = d + Len(rest)
    /\ \A i \in 1..Len(rest) : rest[i] = ws[d + i]
    /\ Run(b, Len(b) - d + 1, d, e, ws)
    /\ \A k \in 1..Len(b) - d : b[k].entry # e

LEMMA UnderwayGoesOn ==
    ASSUME NEW b \in Seq(Piece), NEW piece \in Piece, NEW d \in Nat, NEW e,
           NEW ws \in Seq(WriteReq), NEW rest \in Seq(WriteReq), rest # << >>,
           Underway(b, d, e, ws, rest),
           piece.entry = e, piece.part = Head(rest).part, piece.n = Head(rest).n
    PROVE  /\ Underway(Append(b, piece), d + 1, e, ws, Tail(rest))
           /\ Tail(rest) = << >> => AllOf(Append(b, piece), Len(b) - d + 1, e, ws)
    <1> DEFINE c == Append(b, piece)
               left == Tail(rest)
    <1>1. /\ Len(b) \in Nat /\ Len(c) = Len(b) + 1 /\ c[Len(b) + 1] = piece
          /\ \A i \in 1..Len(b) : c[i] = b[i]
        BY AppendFacts
    <1>2. /\ Len(rest) \in Nat \ {0} /\ Len(left) = Len(rest) - 1
          /\ \A i \in 1..Len(left) : left[i] = rest[i + 1]
          /\ Head(rest) = rest[1]
          /\ left = << >> => Len(left) = 0
        <2>1. Len(rest) \in Nat \ {0}
            BY EmptySeq
        <2>2. Len(left) = Len(rest) - 1 /\ \A i \in 1..Len(left) : left[i] = rest[i + 1]
            BY HeadTailProperties
        <2>3. Head(rest) = rest[1]
            OBVIOUS
        <2>4. left = << >> => Len(left) = 0
            BY EmptySeq
        <2> QED BY <2>1, <2>2, <2>3, <2>4
    <1>3. d \in 0..Len(b) /\ Len(ws) = d + Len(rest)
        BY DEF Underway
    <1>4. \A i \in 1..Len(rest) : rest[i] = ws[d + i]
        BY DEF Underway
    <1> HIDE DEF c, left
    <1>5. Len(ws) = (d + 1) + Len(left)
        BY <1>2, <1>3
    <1>6. ASSUME NEW i \in 1..Len(left) PROVE left[i] = ws[(d + 1) + i]
        <2>1. i + 1 \in 1..Len(rest) /\ d + (i + 1) = (d + 1) + i
            BY <1>2
        <2> QED BY <1>2, <1>4, <2>1
    <1>7. Run(c, Len(b) - d + 1, d + 1, e, ws)
        <2> DEFINE j == Len(b) - d + 1
        <2>1. ASSUME NEW i \in 1..d + 1
              PROVE  /\ j + i - 1 <= Len(c)
                     /\ c[j + i - 1].entry = e
                     /\ c[j + i - 1].part = ws[i].part
                     /\ c[j + i - 1].n = ws[i].n
            <3>1. CASE i = d + 1
                <4>1. j + i - 1 = Len(b) + 1 /\ 1 \in 1..Len(rest)
                    BY <1>1, <1>2, <1>3, <3>1
                <4>2. Head(rest) = ws[i]
                    BY <1>2, <1>4, <3>1, <4>1
                <4> HIDE DEF j
                <4> QED BY <1>1, <4>1, <4>2
            <3>2. CASE i # d + 1
                <4>1. i \in 1..d
                    BY <3>2
                <4>2. /\ j + i - 1 <= Len(b)
                      /\ b[j + i - 1].entry = e
                      /\ b[j + i - 1].part = ws[i].part
                      /\ b[j + i - 1].n = ws[i].n
                    BY <4>1 DEF Underway, Run
                <4>3. j + i - 1 \in 1..Len(b)
                    BY <1>1, <1>3, <4>1
                <4> HIDE DEF j
                <4> QED BY <1>1, <4>2, <4>3
            <3> QED BY <3>1, <3>2
        <2> QED BY <2>1 DEF Run
    <1>8. ASSUME NEW k \in 1..Len(b) - d PROVE c[k].entry # e
        <2>1. k \in 1..Len(b)
            BY <1>1, <1>3
        <2> QED BY <1>1, <2>1 DEF Underway
    <1>9. Underway(c, d + 1, e, ws, left)
        <2>1. Len(c) - (d + 1) = Len(b) - d /\ Len(c) - (d + 1) + 1 = Len(b) - d + 1
            BY <1>1
        <2>2. d + 1 \in 0..Len(c)
            BY <1>1, <1>3
        <2> QED BY <1>5, <1>6, <1>7, <1>8, <2>1, <2>2 DEF Underway
    <1>10. ASSUME left = << >> PROVE AllOf(c, Len(b) - d + 1, e, ws)
        <2>1. Len(ws) = d + 1
            <3>1. Len(left) = 0
                BY <1>2, <1>10, Zenon
            <3>2. Len(ws) = (d + 1) + 0
                BY <1>5, <3>1, Zenon
            <3> QED BY <3>2
        <2>2. Len(b) - d + 1 \in 1..Len(c)
            BY <1>1, <1>3
        <2>3. ASSUME NEW k \in 1..Len(c), c[k].entry = e
              PROVE  k \in Len(b) - d + 1..(Len(b) - d + 1) + Len(ws) - 1
            <3>1. k \notin 1..Len(b) - d
                BY <1>8, <2>3
            <3> QED BY <1>1, <1>3, <2>1, <3>1
        <2> QED BY <1>7, <2>1, <2>2, <2>3 DEF AllOf
    <1> QED BY <1>9, <1>10 DEF c, left

(***************************************************************************)
(* The inductive invariant                                                 *)
(***************************************************************************)
InEntry == pc \in {"checkpoint", "index", "pax"}

(* The members that were acknowledged are the first of those passed to     *)
(* write_entry, and all but the one being written.                         *)
Acknowledged ==
    /\ Len(acked) = IF InEntry THEN Len(metas) - 1 ELSE Len(metas)
    /\ \A i \in 1..Len(acked) : acked[i] = i

(* Each piece lies before the end of the stream and before the next piece. *)
PiecesApart ==
    /\ \A j \in 1..Len(body) : body[j].at < RawLen
    /\ \A j, k \in 1..Len(body) : j < k => body[j].at < body[k].at

Stored == \A e \in 1..Len(acked) : \E j : AllOf(body, j, e, EntryWrites(metas[e]))

Writing ==
    pc = "pax" => \E d \in Nat :
        Underway(body, d, Len(metas), EntryWrites(metas[Len(metas)]), todo)

RInv ==
    /\ failed => pc = "failed"
    /\ pc # "failed" => Acknowledged /\ PiecesApart /\ Stored /\ Writing

LEMMA RInit == Init => RInv
    <1> SUFFICES ASSUME Init PROVE RInv
        OBVIOUS
    <1>1. pc = "ready" /\ ~failed /\ metas = << >> /\ acked = << >> /\ body = << >>
        BY DEF Init
    <1>2. Acknowledged
        BY <1>1 DEF Acknowledged, InEntry
    <1>3. PiecesApart
        BY <1>1 DEF PiecesApart
    <1>4. Stored /\ Writing
        BY <1>1 DEF Stored, Writing
    <1> QED BY <1>1, <1>2, <1>3, <1>4 DEF RInv

(* A client that stops on an error makes no call after one, and no step of *)
(* the writer follows it.                                                  *)
LEMMA FailedStays ==
    ASSUME StopOnError, pc = "failed", [Next]_vars
    PROVE  UNCHANGED vars
    BY Zenon DEF Next, CallStep, WriteEntry, MayCall, CreateCheckpoint, WriteIndexLine, PaxWrite,
             ContentShort, Finish, CloseBody, WriteIndexSection, WriteCheckpointsSection,
             WriteTail, WriteEofMarker

(* A write that did not make its call fail took all it was given.          *)
LEMMA WriteEffect ==
    ASSUME TypeInv, "short" \notin Faults, PaxWrite, ~Fail,
           pc = "pax" => Len(metas) \in Nat
    PROVE  LET w == Head(todo)
               piece == [entry |-> IF pc = "pax" THEN Len(metas) ELSE 0,
                         part |-> w.part, at |-> RawLen, n |-> w.n]
           IN  /\ IF w.n > 0 THEN body' = Append(body, piece) ELSE UNCHANGED body
               /\ piece \in Piece
               /\ todo' = Tail(todo)
               /\ pc' = IF Tail(todo) # << >> THEN pc
                        ELSE IF pc = "pax" THEN "ready" ELSE "close"
               /\ acked' = IF pc' = "ready" THEN Append(acked, Len(metas)) ELSE acked
               /\ UNCHANGED <<metas, failed>>
    <1> DEFINE w == Head(todo)
    <1>1. PICK o \in CompressorWrite(w.n) : Wrote(w, o)
        BY DEF PaxWrite
    <1>2. pc \in {"pax", "end"} /\ todo # << >> /\ UNCHANGED metas
        BY DEF PaxWrite
    <1>3. w.n \in Nat /\ w.part \in Parts
        BY <1>2, HeadTailType DEF TypeInv, TypeData, Control
    <1> HIDE DEF w
    <1>4. o.ret \in Int /\ (o.ret >= 0 => o.raw = o.ret /\ o.ret = w.n)
        BY <1>3, WriteFacts
    <1>5. ~(o.ret < 0 \/ (w.check = "full" /\ o.ret < w.n))
        BY <1>1, Zenon DEF Wrote
    <1>6. o.raw = w.n
        BY <1>4, <1>5
    <1>7. /\ todo' = Tail(todo)
          /\ pc' = IF Tail(todo) # << >> THEN pc
                   ELSE IF pc = "pax" THEN "ready" ELSE "close"
          /\ acked' = IF pc' = "ready" THEN Append(acked, Len(metas)) ELSE acked
          /\ UNCHANGED failed
        BY <1>1, <1>5, Zenon DEF Wrote
    <1> DEFINE piece == [entry |-> IF pc = "pax" THEN Len(metas) ELSE 0,
                         part |-> w.part, at |-> RawLen, n |-> w.n]
    <1>8. IF w.n > 0 THEN body' = Append(body, piece) ELSE UNCHANGED body
        BY <1>1, <1>6 DEF Wrote
    <1>9. RawLen \in Nat
        BY RawLenFacts DEF TypeInv, TypeData, Buffers
    <1>10. piece \in Piece
        BY <1>2, <1>3, <1>9 DEF Piece
    <1> HIDE DEF piece
    <1> QED BY <1>2, <1>7, <1>8, <1>10 DEF w, piece

(* What write_entry was called with so far keeps its meaning.              *)
LEMMA MetasGrow ==
    ASSUME TypeInv, [Next]_vars
    PROVE  \A e \in 1..Len(metas) : metas'[e] = metas[e] /\ metas[e] \in Metas
    <1>0. metas \in Seq(Metas)
        BY DEF TypeInv, TypeData, Buffers
    <1>1. ASSUME NEW m \in Metas, WriteEntry(m)
          PROVE  \A e \in 1..Len(metas) : metas'[e] = metas[e] /\ metas[e] \in Metas
        BY <1>0, <1>1, AppendFacts DEF WriteEntry
    <1>2. CASE UNCHANGED metas
        BY <1>0, <1>2
    <1> QED BY <1>1, <1>2, Zenon
            DEF Next, CallStep, CreateCheckpoint, WriteIndexLine, PaxWrite, ContentShort,
                Finish, CloseBody, WriteIndexSection, WriteCheckpointsSection, WriteTail,
                WriteEofMarker, vars

(* A step that leaves the tar stream alone leaves the stored members so.   *)
LEMMA StoredStays ==
    ASSUME TypeInv, [Next]_vars, Stored, Acknowledged, UNCHANGED <<body, acked>>,
           Len(acked) <= Len(metas)
    PROVE  Stored'
    <1>0. Len(metas) \in Nat /\ Len(acked) \in Nat
        BY DEF TypeInv, TypeData, Buffers
    <1>1. ASSUME NEW e \in 1..Len(acked)
          PROVE  \E j : AllOf(body, j, e, EntryWrites(metas'[e]))
        <2>1. e \in 1..Len(metas)
            BY <1>0
        <2>2. metas'[e] = metas[e]
            BY <2>1, MetasGrow
        <2> QED BY <2>2 DEF Stored
    <1> QED BY <1>1 DEF Stored

LEMMA ApartStays ==
    ASSUME PiecesApart, UNCHANGED body
    PROVE  PiecesApart'
    <1>1. RawLen' = RawLen
        BY DEF RawLen
    <1> QED BY <1>1 DEF PiecesApart

LEMMA ApartGrows ==
    ASSUME TypeInv, PiecesApart, NEW piece \in Piece, piece.n > 0, piece.at = RawLen,
           body' = Append(body, piece)
    PROVE  PiecesApart'
    <1>0. body \in Seq(Piece) /\ RawLen \in Nat
        BY RawLenFacts DEF TypeInv, TypeData, Buffers
    <1>1. /\ Len(body) \in Nat /\ Len(body') = Len(body) + 1
          /\ body'[Len(body) + 1] = piece
          /\ \A i \in 1..Len(body) : body'[i] = body[i]
        BY <1>0, AppendFacts
    <1>2. RawLen' = piece.at + piece.n /\ piece.n \in Nat
        <2>1. Len(body') # 0 /\ body' # << >>
            BY <1>0, <1>1, AppendFacts
        <2>2. RawLen' = body'[Len(body')].at + body'[Len(body')].n
            BY <2>1 DEF RawLen
        <2> QED BY <1>1, <2>2 DEF Piece
    <1>3. \A j \in 1..Len(body) : body[j].at \in Nat /\ body[j].at < RawLen
        <2>1. ASSUME NEW j \in 1..Len(body) PROVE body[j].at \in Nat
            <3>1. body[j] \in Piece
                BY <1>0
            <3> QED BY <3>1 DEF Piece
        <2> QED BY <2>1 DEF PiecesApart
    <1>4. ASSUME NEW j \in 1..Len(body') PROVE body'[j].at < RawLen'
        <2>1. CASE j = Len(body) + 1
            BY <1>0, <1>1, <1>2, <2>1
        <2>2. CASE j # Len(body) + 1
            <3>1. j \in 1..Len(body) /\ body'[j] = body[j]
                BY <1>1, <2>2
            <3> QED BY <1>0, <1>2, <1>3, <3>1
        <2> QED BY <2>1, <2>2
    <1>5. ASSUME NEW j \in 1..Len(body'), NEW k \in 1..Len(body'), j < k
          PROVE  body'[j].at < body'[k].at
        <2>1. j \in 1..Len(body) /\ body'[j] = body[j]
            BY <1>1, <1>5
        <2>2. CASE k = Len(body) + 1
            BY <1>1, <1>3, <2>1, <2>2
        <2>3. CASE k # Len(body) + 1
            <3>1. k \in 1..Len(body) /\ body'[k] = body[k]
                BY <1>1, <2>3
            <3> QED BY <1>5, <2>1, <3>1 DEF PiecesApart
        <2> QED BY <2>2, <2>3
    <1> QED BY <1>4, <1>5 DEF PiecesApart

LEMMA RStep ==
    ASSUME "short" \notin Faults, StopOnError, TypeInv, IdxInv, RInv, [Next]_vars
    PROVE  RInv'
    <1>0. /\ body \in Seq(Piece) /\ metas \in Seq(Metas) /\ acked \in Seq(Nat)
          /\ Len(metas) \in Nat /\ Len(acked) \in Nat /\ todo \in Seq(WriteReq)
        BY DEF TypeInv, TypeData, Buffers, Control
    <1>1. CASE pc = "failed"
        <2>1. UNCHANGED vars
            BY <1>1, FailedStays
        <2> QED BY <1>1, <2>1 DEF vars, RInv
    <1>2. CASE Fail
        <2>1. pc' = "failed"
            BY <1>2, FailStops
        <2> QED BY <2>1 DEF RInv
    <1> SUFFICES ASSUME pc # "failed", ~Fail PROVE RInv'
        BY <1>1, <1>2
    <1>3. ~failed /\ Acknowledged /\ PiecesApart /\ Stored /\ Writing
        BY DEF RInv
    <1>4. Len(acked) <= Len(metas)
        BY <1>0, <1>3 DEF Acknowledged
    (* Most actions add no piece, end no entry and are not in the middle   *)
    (* of one.                                                             *)
    <1>5. ASSUME UNCHANGED <<failed, metas, acked, body>>, pc' # "pax", InEntry' <=> InEntry
          PROVE  RInv'
        <2>1. Acknowledged'
            BY <1>3, <1>5 DEF Acknowledged
        <2>2. PiecesApart' /\ Stored'
            BY <1>3, <1>4, <1>5, ApartStays, StoredStays
        <2>3. Writing'
            BY <1>5 DEF Writing
        <2> QED BY <1>3, <1>5, <2>1, <2>2, <2>3 DEF RInv
    <1>6. ASSUME NEW m \in Metas, WriteEntry(m) PROVE RInv'
        <2>1. /\ pc = "ready" /\ pc' \in {"checkpoint", "index"}
              /\ UNCHANGED <<failed, body, acked>>
            BY <1>6, Zenon DEF WriteEntry, MayCall
        <2>2. Len(metas') = Len(metas) + 1
            BY <1>0, <1>6, AppendFacts DEF WriteEntry
        <2>3. Acknowledged'
            BY <1>0, <1>3, <2>1, <2>2 DEF Acknowledged, InEntry
        <2>4. PiecesApart' /\ Stored'
            BY <1>3, <1>4, <2>1, ApartStays, StoredStays
        <2>5. Writing'
            BY <2>1 DEF Writing
        <2> QED BY <1>3, <2>1, <2>3, <2>4, <2>5 DEF RInv
    <1>7. CASE CreateCheckpoint
        <2>1. PICK d \in CompressorFinish : Flushed(d)
            BY <1>7 DEF CreateCheckpoint
        <2>2. pc' = "index" /\ UNCHANGED failed
            BY <2>1, Zenon DEF Flushed
        <2>3. pc = "checkpoint" /\ UNCHANGED <<metas, acked, body>>
            BY <1>7 DEF CreateCheckpoint
        <2> QED BY <1>5, <2>2, <2>3 DEF InEntry
    <1>8. CASE WriteIndexLine
        <2>1. /\ pc = "index" /\ pc' = "pax" /\ UNCHANGED <<failed, metas, acked, body>>
              /\ todo' = EntryWrites(metas[Len(metas)])
            BY <1>8 DEF WriteIndexLine
        <2>2. Acknowledged'
            BY <1>3, <2>1 DEF Acknowledged, InEntry
        <2>3. PiecesApart' /\ Stored'
            BY <1>3, <1>4, <2>1, ApartStays, StoredStays
        <2>4. Untouched
            BY <2>1 DEF IdxInv, PiecesNumbered
        <2> DEFINE ws == EntryWrites(metas[Len(metas)])
        <2>5. Underway(body, 0, Len(metas), ws, ws)
            <3>1. ASSUME NEW k \in 1..Len(body) - 0 PROVE body[k].entry # Len(metas)
                <4>1. k \in 1..Len(body)
                    BY <1>0
                <4>2. body[k] \in Piece /\ body[k].entry < Len(metas)
                    BY <1>0, <2>4, <4>1 DEF Untouched
                <4>3. body[k].entry \in Nat
                    BY <4>2 DEF Piece
                <4> QED BY <1>0, <4>2, <4>3
            <3>2. Len(ws) \in Nat
                <4>1. Len(metas) \in 1..Len(metas)
                    BY <1>0, <2>1 DEF TypeInv, TypeData, Control
                <4>2. metas[Len(metas)] \in Metas
                    BY <1>0, <4>1
                <4> QED BY <4>2, EntryWritesNonEmpty
            <3> HIDE DEF ws
            <3>3. 0 \in 0..Len(body)
                BY <1>0
            <3>4. Run(body, Len(body) - 0 + 1, 0, Len(metas), ws)
                BY DEF Run
            <3> QED BY <3>1, <3>2, <3>3, <3>4 DEF Underway
        <2>6. Writing'
            <3>1. ws' = ws
                BY <2>1
            <3> QED BY <2>1, <2>5 DEF Writing
        <2> QED BY <1>3, <2>1, <2>2, <2>3, <2>6 DEF RInv
    <1>9. CASE PaxWrite
        <2> DEFINE w == Head(todo)
                   piece == [entry |-> IF pc = "pax" THEN Len(metas) ELSE 0,
                             part |-> w.part, at |-> RawLen, n |-> w.n]
        <2>1. /\ IF w.n > 0 THEN body' = Append(body, piece) ELSE UNCHANGED body
              /\ piece \in Piece
              /\ todo' = Tail(todo)
              /\ pc' = IF Tail(todo) # << >> THEN pc
                       ELSE IF pc = "pax" THEN "ready" ELSE "close"
              /\ acked' = IF pc' = "ready" THEN Append(acked, Len(metas)) ELSE acked
              /\ UNCHANGED <<metas, failed>>
            BY <1>0, <1>9, WriteEffect
        <2>2. /\ piece.at = RawLen /\ piece.n = w.n /\ piece.part = w.part
              /\ piece.entry = IF pc = "pax" THEN Len(metas) ELSE 0
            OBVIOUS
        <2>3. pc \in {"pax", "end"} /\ todo # << >>
            BY <1>9 DEF PaxWrite
        <2> HIDE DEF piece
        <2>4. PiecesApart'
            BY <1>3, <2>1, <2>2, ApartGrows, ApartStays
        (* The members stored before stay so.                              *)
        <2>5. ASSUME NEW e \in 1..Len(acked)
              PROVE  \E j : AllOf(body', j, e, EntryWrites(metas'[e]))
            <3>1. e # piece.entry
                BY <1>0, <1>3, <2>2, <2>3 DEF Acknowledged, InEntry
            <3>2. PICK j : AllOf(body, j, e, EntryWrites(metas[e]))
                BY <1>3 DEF Stored
            <3>3. AllOf(body', j, e, EntryWrites(metas[e]))
                BY <1>0, <2>1, <3>1, <3>2, AllOfStays
            <3> QED BY <2>1, <3>3
        <2>6. CASE pc = "end"
            <3>1. pc' \in {"end", "close"} /\ acked' = acked
                BY <2>1, <2>6
            <3>2. Acknowledged'
                BY <1>3, <2>1, <2>6, <3>1 DEF Acknowledged, InEntry
            <3>3. Stored' /\ Writing'
                BY <2>5, <3>1 DEF Stored, Writing
            <3> QED BY <1>3, <2>1, <2>4, <3>1, <3>2, <3>3 DEF RInv
        <2>7. CASE pc = "pax"
            <3> DEFINE ws == EntryWrites(metas[Len(metas)])
            <3>1. PICK d \in Nat : Underway(body, d, Len(metas), ws, todo)
                BY <1>3, <2>7 DEF Writing
            <3>2. ws \in Seq(WriteReq) /\ NonEmpty(ws) /\ ws' = ws /\ Len(ws) \in Nat
                <4>1. Len(metas) \in 1..Len(metas)
                    BY <1>0, <2>7 DEF TypeInv, TypeData, Control
                <4>2. metas[Len(metas)] \in Metas
                    BY <1>0, <4>1
                <4> QED BY <2>1, <4>2, EntryWritesNonEmpty
            <3> HIDE DEF ws
            <3>3. w.n > 0
                <4>1. Len(todo) \in Nat \ {0} /\ Head(todo) = todo[1]
                    BY <1>0, <2>3, EmptySeq
                <4>2. 1 \in 1..Len(todo) /\ d + 1 \in 1..Len(ws)
                    BY <3>1, <4>1 DEF Underway
                <4>3. todo[1] = ws[d + 1]
                    BY <3>1, <4>2 DEF Underway
                <4> QED BY <3>2, <4>1, <4>2, <4>3 DEF NonEmpty
            <3>4. body' = Append(body, piece)
                BY <2>1, <3>3
            <3>5. /\ Underway(body', d + 1, Len(metas), ws, Tail(todo))
                  /\ Tail(todo) = << >> =>
                       AllOf(body', Len(body) - d + 1, Len(metas), ws)
                BY <1>0, <2>1, <2>2, <2>3, <2>7, <3>1, <3>2, <3>4, UnderwayGoesOn
            <3>6. CASE Tail(todo) # << >>
                <4>1. pc' = "pax" /\ acked' = acked
                    BY <2>1, <2>7, <3>6
                <4>2. Acknowledged'
                    BY <1>3, <2>1, <2>7, <4>1 DEF Acknowledged, InEntry
                <4>3. Stored'
                    BY <2>5, <4>1 DEF Stored
                <4>4. Writing'
                    <5>1. d + 1 \in Nat
                        OBVIOUS
                    <5> QED BY <2>1, <3>2, <3>5, <5>1 DEF Writing, ws
                <4> QED BY <1>3, <2>1, <2>4, <4>1, <4>2, <4>3, <4>4 DEF RInv
            <3>7. CASE Tail(todo) = << >>
                <4>1. pc' = "ready" /\ acked' = Append(acked, Len(metas))
                    BY <2>1, <2>7, <3>7
                <4>2. /\ Len(acked') = Len(acked) + 1 /\ acked'[Len(acked) + 1] = Len(metas)
                      /\ \A i \in 1..Len(acked) : acked'[i] = acked[i]
                    BY <1>0, <4>1, AppendFacts
                <4>3. Len(acked) = Len(metas) - 1
                    BY <1>3, <2>7 DEF Acknowledged, InEntry
                <4>4. Acknowledged'
                    <5>1. ASSUME NEW i \in 1..Len(acked') PROVE acked'[i] = i
                        <6>1. CASE i = Len(metas)
                            BY <1>0, <4>2, <4>3, <6>1
                        <6>2. CASE i # Len(metas)
                            <7>1. i \in 1..Len(acked)
                                BY <1>0, <4>2, <4>3, <6>2
                            <7> QED BY <1>3, <4>2, <7>1 DEF Acknowledged
                        <6> QED BY <6>1, <6>2
                    <5>2. metas' = metas /\ ~InEntry'
                        BY <2>1, <4>1 DEF InEntry
                    <5>3. Len(acked') = Len(metas')
                        BY <1>0, <4>2, <4>3, <5>2
                    <5> QED BY <5>1, <5>2, <5>3 DEF Acknowledged
                <4>5. Stored'
                    <5>1. ASSUME NEW e \in 1..Len(acked')
                          PROVE  \E j : AllOf(body', j, e, EntryWrites(metas'[e]))
                        <6>1. CASE e = Len(metas)
                            <7>1. AllOf(body', Len(body) - d + 1, e, ws)
                                BY <3>5, <3>7, <6>1
                            <7>2. ws = EntryWrites(metas'[e])
                                BY <2>1, <6>1 DEF ws
                            <7> QED BY <7>1, <7>2
                        <6>2. CASE e # Len(metas)
                            <7>1. e \in 1..Len(acked)
                                BY <1>0, <4>2, <4>3, <6>2
                            <7> QED BY <2>5, <7>1
                        <6> QED BY <6>1, <6>2
                    <5> QED BY <5>1 DEF Stored
                <4>6. Writing'
                    BY <4>1 DEF Writing
                <4> QED BY <1>3, <2>1, <2>4, <4>1, <4>4, <4>5, <4>6 DEF RInv
            <3> QED BY <3>6, <3>7
        <2> QED BY <2>3, <2>6, <2>7
    <1>10. CASE ContentShort
        BY <1>10, Zenon DEF ContentShort
    <1>11. CASE Finish
        <2>1. /\ pc = "ready" /\ pc' = "end" /\ UNCHANGED <<failed, metas, acked, body>>
            BY <1>11, Zenon DEF Finish, MayCall
        <2> QED BY <1>5, <2>1 DEF InEntry
    <1>12. CASE CloseBody \/ WriteIndexSection \/ WriteCheckpointsSection \/ WriteTail
                \/ WriteEofMarker
        <2>1. /\ pc' \in {"index section", "checkpoints section", "tail section", "eof", "done"}
              /\ UNCHANGED failed
            BY <1>12, Zenon DEF CloseBody, WriteIndexSection, WriteCheckpointsSection,
                                WriteTail, WriteEofMarker
        <2>2. /\ pc \in {"close", "index section", "checkpoints section", "tail section", "eof"}
              /\ UNCHANGED <<metas, acked, body>>
            BY <1>12, Zenon DEF CloseBody, WriteIndexSection, WriteCheckpointsSection,
                                WriteTail, WriteEofMarker
        <2> QED BY <1>5, <2>1, <2>2 DEF InEntry
    <1>13. CASE UNCHANGED vars
        <2>1. UNCHANGED <<pc, failed, todo, metas, acked, body>>
            BY <1>13 DEF vars
        <2>2. Acknowledged' /\ Writing'
            BY <1>3, <2>1 DEF Acknowledged, InEntry, Writing
        <2>3. PiecesApart' /\ Stored'
            BY <1>3, <1>4, <2>1, ApartStays, StoredStays
        <2> QED BY <1>3, <2>1, <2>2, <2>3 DEF RInv
    <1> QED BY <1>6, <1>7, <1>8, <1>9, <1>10, <1>11, <1>12, <1>13 DEF Next, CallStep

(***************************************************************************)
(* The refinement                                                          *)
(***************************************************************************)

(* What the index of a finished archive finds are the members.             *)
Members == [i \in 1..Len(acked) |-> metas[acked[i]]]
Listing == IF pc = "done" THEN [i \in 1..Len(idxLines) |-> Found(idxLines[i].off)] ELSE << >>
State == IF failed THEN "broken" ELSE IF pc = "done" THEN "sealed" ELSE "open"

FoundAll == pc = "done" => Listing = Members

LEMMA IndexFinds == TypeInv /\ IdxInv /\ RInv => FoundAll
    <1> SUFFICES ASSUME TypeInv, IdxInv, RInv, pc = "done" PROVE Listing = Members
        BY DEF FoundAll
    <1>0. /\ body \in Seq(Piece) /\ metas \in Seq(Metas) /\ Len(body) \in Nat
          /\ Len(metas) \in Nat /\ Len(acked) \in Nat /\ Len(idxLines) \in Nat
        BY DEF TypeInv, TypeData, Buffers
    <1>1. Acknowledged /\ PiecesApart /\ Stored
        BY DEF RInv
    <1>2. Len(idxLines) = Len(acked) /\ Len(acked) = Len(metas)
        BY <1>1 DEF Acknowledged, InEntry, IdxInv, LinesCounted
    <1>3. ASSUME NEW e \in 1..Len(idxLines)
          PROVE  Found(idxLines[e].off) = metas[acked[e]]
        <2> DEFINE off == idxLines[e].off
                   ws == EntryWrites(metas[e])
        <2>1. e \in 1..Len(acked) /\ acked[e] = e /\ e \in Nat \ {0}
            BY <1>0, <1>1, <1>2 DEF Acknowledged
        <2>2. LineOpened(idxLines[e], body) /\ idxLines[e].entry = e
            BY DEF IdxInv, LinesPlaced, LinesNumbered, Pending
        <2>3. PICK k \in 1..Len(body) :
                /\ body[k].at = off
                /\ body[k].entry = e
                /\ k = 1 \/ body[k - 1].entry # body[k].entry
            BY <2>2 DEF LineOpened
        <2>4. PICK j : AllOf(body, j, e, ws)
            BY <1>1, <2>1 DEF Stored
        <2>5. Len(ws) \in Nat \ {0}
            <3>1. metas[e] \in Metas
                BY <1>0, <1>2
            <3> QED BY <3>1, EntryWritesNonEmpty
        <2> HIDE DEF off, ws
        <2>6. j \in 1..Len(body) /\ k \in j..j + Len(ws) - 1
            BY <2>3, <2>4 DEF AllOf
        (* The piece that opens the entry is the first of its run.         *)
        <2>7. j = k
            <3> SUFFICES ASSUME j # k PROVE FALSE
                OBVIOUS
            <3> DEFINE i == k - j
            <3>1. i \in 1..Len(ws) /\ j + i - 1 = k - 1 /\ k # 1
                BY <1>0, <2>5, <2>6
            <3>2. body[j + i - 1].entry = e
                BY <2>4, <3>1 DEF AllOf, Run
            <3> QED BY <2>3, <3>1, <3>2
        <2>8. body[j].at = off /\ body[j].entry = e
            BY <2>3, <2>7
        <2>9. IntactFrom(j)
            BY <2>1, <2>4, <2>8 DEF AllOf, Run, IntactFrom, ws
        <2>10. Starts(j, off)
            BY <2>8, <2>9 DEF Starts
        <2>11. ASSUME NEW l \in 1..Len(body), Starts(l, off) PROVE l = j
            <3>1. body[l].at = off
                BY <2>11 DEF Starts
            <3>2. l < j \/ j < l \/ l = j
                BY <2>6
            <3>3. body[j] \in Piece
                BY <1>0, <2>6
            <3>4. body[j].at \in Nat
                BY <3>3 DEF Piece
            <3> QED BY <1>1, <2>6, <2>8, <3>1, <3>2, <3>4 DEF PiecesApart
        <2>12. (CHOOSE l \in 1..Len(body) : Starts(l, off)) = j
            BY <2>6, <2>10, <2>11
        <2>13. Found(off) = metas[body[j].entry]
            BY <2>6, <2>10, <2>12 DEF Found
        <2> QED BY <2>1, <2>8, <2>13 DEF off
    <1> QED BY <1>2, <1>3 DEF Listing, Members

LEMMA MembersStay ==
    ASSUME TypeInv, RInv, [Next]_vars, pc # "failed", UNCHANGED acked
    PROVE  Members' = Members
    <1>0. Len(metas) \in Nat /\ Len(acked) \in Nat
        BY DEF TypeInv, TypeData, Buffers
    <1>1. Acknowledged
        BY DEF RInv
    <1>2. ASSUME NEW i \in 1..Len(acked) PROVE metas'[acked[i]] = metas[acked[i]]
        <2>1. acked[i] \in 1..Len(metas)
            BY <1>0, <1>1 DEF Acknowledged
        <2> QED BY <2>1, MetasGrow
    <1> QED BY <1>2 DEF Members

LEMMA RefinesInit == Init => A!Init
    <1> SUFFICES ASSUME Init PROVE A!Init
        OBVIOUS
    <1>1. pc = "ready" /\ ~failed /\ acked = << >>
        BY DEF Init
    <1>2. Members = << >>
        BY <1>1 DEF Members
    <1> QED BY <1>1, <1>2 DEF A!Init, Members

(* Every step of the writer is one of the archive, or none.                *)
LEMMA RefinesStep ==
    ASSUME "short" \notin Faults, StopOnError, TypeInv, IdxInv, RInv, FoundAll', [Next]_vars
    PROVE  [A!Next]_A!archiveVars
    <1>0. /\ metas \in Seq(Metas) /\ acked \in Seq(Nat)
          /\ Len(metas) \in Nat /\ Len(acked) \in Nat
        BY DEF TypeInv, TypeData, Buffers
    <1>a. A!archiveVars = <<Members, Listing, State>>
        BY DEF A!archiveVars, Members, Listing, State
    <1>b. (A!archiveVars)' = <<Members', Listing', State'>>
        BY DEF A!archiveVars, Members, Listing, State
    <1>1. ASSUME UNCHANGED <<Members, Listing, State>> PROVE [A!Next]_A!archiveVars
        BY <1>1, <1>a, <1>b
    <1>2. CASE UNCHANGED vars
        <2>1. UNCHANGED Members
            BY <1>2 DEF vars, Members
        <2>2. UNCHANGED Listing
            BY <1>2 DEF vars, Listing, Found, Starts, IntactFrom
        <2>3. UNCHANGED State
            BY <1>2 DEF vars, State
        <2> QED BY <1>1, <2>1, <2>2, <2>3
    <1>3. CASE pc = "failed"
        BY <1>2, <1>3, FailedStays
    <1>4. CASE pc = "done"
        <2>1. UNCHANGED vars
            BY <1>4, Zenon DEF Next, CallStep, WriteEntry, MayCall, CreateCheckpoint,
                WriteIndexLine, PaxWrite, ContentShort, Finish, CloseBody, WriteIndexSection,
                WriteCheckpointsSection, WriteTail, WriteEofMarker
        <2> QED BY <1>2, <2>1
    <1> SUFFICES ASSUME pc # "failed", pc # "done", ~UNCHANGED vars PROVE [A!Next]_A!archiveVars
        BY <1>2, <1>3, <1>4
    <1>5. ~failed /\ State = "open" /\ Listing = << >>
        BY DEF RInv, State, Listing
    (* A call that returns -1 breaks the archive.                          *)
    <1>6. CASE Fail
        <2>1. failed' /\ pc' = "failed"
            BY <1>6, FailStops DEF Fail
        <2>2. UNCHANGED acked
            BY <1>6, Zenon DEF Fail, Next, CallStep, WriteEntry, CreateCheckpoint, WriteIndexLine,
                PaxWrite, Wrote, ContentShort, Finish, CloseBody, WriteIndexSection,
                WriteCheckpointsSection, WriteTail, WriteEofMarker, vars
        <2>3. UNCHANGED Members
            BY <2>2, MembersStay
        <2>4. State' = "broken" /\ Listing' = << >>
            BY <2>1 DEF State, Listing
        <2>5. A!Break
            BY <1>5, <2>3, <2>4 DEF A!Break, Members, Listing, State
        <2> QED BY <2>5 DEF A!Next
    <1>7. ASSUME ~Fail, UNCHANGED <<failed, acked>>, pc' # "done" PROVE [A!Next]_A!archiveVars
        <2>1. UNCHANGED Members
            BY <1>7, MembersStay
        <2>2. State' = State /\ Listing' = Listing
            BY <1>5, <1>7 DEF State, Listing
        <2> QED BY <1>1, <2>1, <2>2
    (* The last write of an entry adds the member.                         *)
    <1>8. CASE PaxWrite /\ ~Fail
        <2>1. /\ pc' = IF Tail(todo) # << >> THEN pc
                       ELSE IF pc = "pax" THEN "ready" ELSE "close"
              /\ acked' = IF pc' = "ready" THEN Append(acked, Len(metas)) ELSE acked
              /\ UNCHANGED <<metas, failed>>
            BY <1>0, <1>8, WriteEffect
        <2>2. pc \in {"pax", "end"}
            BY <1>8 DEF PaxWrite
        <2>3. CASE pc' # "ready"
            BY <1>7, <1>8, <2>1, <2>2, <2>3
        <2>4. CASE pc' = "ready"
            <3> DEFINE m == metas[Len(metas)]
            <3>1. pc = "pax"
                BY <2>1, <2>2, <2>4
            <3>2. Len(metas) \in 1..Len(metas)
                BY <1>0, <3>1 DEF TypeInv, TypeData, Control
            <3>3. m \in Metas
                BY <1>0, <3>2
            <3>4. Members' = Append(Members, m)
                <4>1. acked' = Append(acked, Len(metas))
                    BY <2>1, <2>4
                <4>2. /\ Len(acked') = Len(acked) + 1 /\ acked'[Len(acked) + 1] = Len(metas)
                      /\ \A i \in 1..Len(acked) : acked'[i] = acked[i]
                    BY <1>0, <4>1, AppendFacts
                <4>3. \A i \in 1..Len(acked) : metas[acked[i]] \in Metas
                    <5>1. Acknowledged
                        BY DEF RInv
                    <5>2. ASSUME NEW i \in 1..Len(acked) PROVE acked[i] \in 1..Len(metas)
                        BY <1>0, <5>1 DEF Acknowledged
                    <5> QED BY <1>0, <5>2
                <4>4. Members \in Seq(Metas) /\ Len(Members) = Len(acked)
                    BY <1>0, <4>3, IsASeq DEF Members
                <4>5. /\ Append(Members, m) \in Seq(Metas)
                      /\ Len(Append(Members, m)) = Len(acked) + 1
                      /\ Append(Members, m)[Len(acked) + 1] = m
                      /\ \A i \in 1..Len(acked) : Append(Members, m)[i] = Members[i]
                    BY <3>3, <4>4, AppendFacts
                <4>6. ASSUME NEW i \in 1..Len(acked) + 1
                      PROVE  metas'[acked'[i]] = Append(Members, m)[i]
                    <5>1. CASE i = Len(acked) + 1
                        BY <2>1, <4>2, <4>5, <5>1
                    <5>2. CASE i # Len(acked) + 1
                        <6>1. i \in 1..Len(acked)
                            BY <1>0, <5>2
                        <6>2. Members[i] = metas[acked[i]]
                            BY <6>1 DEF Members
                        <6> QED BY <2>1, <4>2, <4>5, <6>1, <6>2
                    <5> QED BY <5>1, <5>2
                <4> HIDE DEF m
                <4>7. Members' = [i \in 1..Len(acked) + 1 |-> Append(Members, m)[i]]
                    BY <4>2, <4>6 DEF Members
                <4>8. Append(Members, m) = [i \in 1..Len(acked) + 1 |-> Append(Members, m)[i]]
                    BY <4>5, LenProperties
                <4> QED BY <4>7, <4>8
            <3>5. State' = "open" /\ Listing' = << >>
                BY <1>5, <2>1, <2>4 DEF State, Listing
            <3> HIDE DEF m
            <3>6. /\ State = "open" /\ Members' = Append(Members, m)
                  /\ Listing' = Listing /\ State' = State
                BY <1>5, <3>4, <3>5
            <3>7. \E x \in Metas : A!Add(x)
                BY <3>3, <3>6, Zenon DEF A!Add, Members, Listing, State
            <3> QED BY <3>7, Zenon DEF A!Next
        <2> QED BY <2>3, <2>4
    (* The end-of-file marker seals the archive.                           *)
    <1>9. CASE WriteEofMarker /\ ~Fail
        <2>1. pc' = "done" /\ UNCHANGED <<failed, acked>>
            BY <1>9, Zenon DEF WriteEofMarker
        <2>2. UNCHANGED Members
            BY <2>1, MembersStay
        <2>3. State' = "sealed"
            BY <1>5, <2>1 DEF State
        <2>4. Listing' = Members
            BY <2>1, <2>2 DEF FoundAll
        <2>5. A!Seal
            BY <1>5, <2>2, <2>3, <2>4 DEF A!Seal, Members, Listing, State
        <2> QED BY <2>5 DEF A!Next
    <1>10. ASSUME NEW m \in Metas, WriteEntry(m) PROVE [A!Next]_A!archiveVars
        <2>1. pc' # "done" /\ UNCHANGED <<failed, acked>>
            BY <1>10, Zenon DEF WriteEntry
        <2> QED BY <1>6, <1>7, <2>1
    <1>11. CASE (CreateCheckpoint \/ WriteIndexLine \/ Finish \/ CloseBody \/ WriteIndexSection
                 \/ WriteCheckpointsSection \/ WriteTail) /\ ~Fail
        <2>1. pc' # "done" /\ UNCHANGED <<failed, acked>>
            BY <1>11, Zenon DEF CreateCheckpoint, Flushed, WriteIndexLine, Finish, CloseBody,
                WriteIndexSection, WriteCheckpointsSection, WriteTail
        <2> QED BY <1>7, <1>11, <2>1
    <1>12. CASE ContentShort
        <2>1. Fail
            BY <1>12, Zenon DEF ContentShort
        <2> QED BY <1>6, <2>1
    <1> QED BY <1>6, <1>8, <1>9, <1>10, <1>11, <1>12, Zenon DEF Next, CallStep

(* With outputs that take all or nothing and a client that stops on an     *)
(* error, a writer keeps the promise of an archive: its index, looked up   *)
(* in the tar stream, lists exactly the entries that were acknowledged, in *)
(* order and each complete, and an error never seals it.                   *)
THEOREM ImplementsArchive ==
    ASSUME "short" \notin Faults, StopOnError
    PROVE  Spec => Implements
    <1>1. RInv /\ TypeInv /\ IdxInv /\ [Next]_vars => RInv'
        BY RStep
    <1>2. TypeInv /\ IdxInv /\ RInv /\ FoundAll' /\ [Next]_vars => [A!Next]_A!archiveVars
        BY RefinesStep
    <1> QED BY <1>1, <1>2, TypeInit, TypeStep, CountsInit, CountsStep, IdxInit, IdxStep, RInit,
               IndexFinds, RefinesInit, PTL DEF Spec, Implements, A!Spec
=============================================================================
