----------------------------- MODULE ScarWriter -----------------------------
(***************************************************************************)
(* scar_writer (scar-c/src/scar-writer.c) together with what it drives:    *)
(* the pax writer (pax.c), the body compressor (compression/gzip.c or      *)
(* compression/plain.c) and the output scar_io_writer.                     *)
(*                                                                         *)
(* Lengths are counted in cells: a 512-byte tar block is Block cells, one  *)
(* line of the index or checkpoint section is one cell, one chunk handed   *)
(* by deflate to the output is one cell.  An action is one call of the     *)
(* write function of a scar_io_writer or one step of the caller between    *)
(* two such calls, so a fault can fall between any two of them.            *)
(***************************************************************************)
EXTENDS Integers, Sequences

CONSTANTS
    Metas,        \* entries a client may write: [pax: Nat, size: Nat], in cells
    Block,        \* cells in a 512-byte tar block
    Limit,        \* cells after which a checkpoint is due (10 MiB in the code)
    Gzip,         \* TRUE: gzip body compressor; FALSE: plain
    MaxEmit,      \* bound: most cells deflate emits in one call
    MaxEntries,   \* bound: write_entry calls per archive
    Faults,       \* faults of the environment, a subset of FaultKinds
    StopOnError   \* TRUE: a client makes no call after one that returned -1

(* "error":  the output's write returns -1;                                *)
(* "short":  the output's write takes only some of the bytes, as io.h      *)
(*           allows ("Write up to 'len' bytes");                           *)
(* "source": the entry's content ends before meta->size bytes.             *)
FaultKinds == {"error", "short", "source"}

ASSUME MetasAssumption == \A m \in Metas : m \in [pax : Nat, size : Nat]
ASSUME BlockAssumption == Block \in Nat \ {0}
ASSUME LimitAssumption == Limit \in Nat
ASSUME GzipAssumption == Gzip \in BOOLEAN
ASSUME MaxEmitAssumption == MaxEmit \in Nat \ {0}
ASSUME MaxEntriesAssumption == MaxEntries \in Nat
ASSUME FaultsAssumption == Faults \subseteq FaultKinds
(* What a z_stream does after a failed Z_FINISH is not modelled, so a      *)
(* client that carries on after an error only sees failing sources, and    *)
(* short writes where gzip does not notice them.                           *)
ASSUME StopAssumption ==
    /\ StopOnError \in BOOLEAN
    /\ StopOnError \/ Faults \subseteq {"source"} \cup (IF Gzip THEN {"short"} ELSE {})

VARIABLES
    pc,        \* where the running call is; "ready" between two calls
    failed,    \* some call has returned -1
    todo,      \* writes the pax writer still has to make, in order
    metas,     \* metadata passed to each write_entry call so far
    acked,     \* the write_entry calls, by number, that returned 0
    body,      \* the uncompressed tar stream as the compressor received it
    streams,   \* where each compressed stream of the body starts
    devLen,    \* cells on the output
    whole,     \* no cell was dropped by a call that reported success
    ucount,    \* uncompressed_writer.count
    ccount,    \* compressed_writer.count
    lastCk,    \* last_checkpoint_uncompressed_offset
    idxLines,  \* lines in the index section buffer
    ckLines,   \* lines in the checkpoints section buffer
    layout,    \* output positions at which the trailing sections start
    tail       \* the two offsets recorded in the SCAR-TAIL section

vars == <<pc, failed, todo, metas, acked, body, streams, devLen, whole, ucount,
          ccount, lastCk, idxLines, ckLines, layout, tail>>

FinishSteps == {"end", "close", "index section", "checkpoints section",
                "tail section", "eof"}
CallSteps == {"checkpoint", "index", "pax"} \cup FinishSteps
Nowhere == -1     \* a section that has not been written

(***************************************************************************)
(* The tar stream                                                          *)
(***************************************************************************)
Parts == {"xheader", "xdata", "xpad", "header", "data", "zero"}

(* A write the pax writer makes, and how it checks what write returned:    *)
(* "full" for `< len`, "sign" for `< 0` (only the padding write).          *)
Req(part, n, check) == [part |-> part, n |-> n, check |-> check]

(* A pax extended header entry when the metadata needs one, then the       *)
(* header, then the content in whole blocks, the last one zero-filled.     *)
Pad(n) == (Block - (n % Block)) % Block
XWrites(m) ==
    IF m.pax = 0 THEN << >>
    ELSE <<Req("xheader", Block, "full"), Req("xdata", m.pax, "full")>>
         \o (IF Pad(m.pax) > 0 THEN <<Req("xpad", Pad(m.pax), "sign")>> ELSE << >>)
DataBlocks(m) == (m.size + Block - 1) \div Block
\* Mutant: the last block of content is not zero-filled.
DataWritesUnfilled(m) ==
    [i \in 1..DataBlocks(m) |->
        Req("data", IF i * Block > m.size THEN m.size % Block ELSE Block, "full")]
DataWrites(m) == [i \in 1..DataBlocks(m) |-> Req("data", Block, "full")]
EntryWrites(m) == XWrites(m) \o <<Req("header", Block, "full")>> \o DataWrites(m)

EndWrites == <<Req("zero", Block, "full"), Req("zero", Block, "full")>>

RawLen == IF body = << >> THEN 0 ELSE body[Len(body)].at + body[Len(body)].n

(***************************************************************************)
(* The output and the compressor                                           *)
(***************************************************************************)

(* What the output's write may return for n cells.                         *)
OutputWrite(n) ==
    {n} \cup (IF "error" \in Faults THEN {-1} ELSE {})
        \cup (IF "short" \in Faults THEN 0..(n - 1) ELSE {})

(* write_deflate: deflate hands chunks to the output until it has no more. *)
(* A negative return stops it; a short one is not noticed.  The header of  *)
(* the stream and its trailer make a finishing call emit at least a chunk. *)
Deflate(least) ==
    [got : least..MaxEmit, ok : {TRUE}, whole : {TRUE}]
    \cup (IF "error" \in Faults
          THEN [got : 0..(MaxEmit - 1), ok : {FALSE}, whole : {FALSE}] ELSE {})
    \cup (IF "short" \in Faults
          THEN [got : 0..(MaxEmit - 1), ok : {TRUE}, whole : {FALSE}] ELSE {})

(* The compressor's write of n cells: what it returns (ret), how many      *)
(* cells of the tar stream it took (raw) and put on the output (got), and  *)
(* whether everything it meant to put there got there (whole).             *)
CompressorWrite(n) ==
    IF Gzip
    THEN {[ret |-> IF d.ok THEN n ELSE -1, raw |-> n,
           got |-> d.got, whole |-> d.whole] : d \in Deflate(0)}
    ELSE {[ret |-> k, raw |-> IF k < 0 THEN 0 ELSE k,
           got |-> IF k < 0 THEN 0 ELSE k, whole |-> TRUE] : k \in OutputWrite(n)}

(* flush and finish of the compressor: Z_FINISH for gzip, nothing for      *)
(* plain.                                                                  *)
CompressorFinish ==
    IF Gzip THEN Deflate(1) ELSE [got : {0}, ok : {TRUE}, whole : {TRUE}]

(* The length of a section buffer holding k lines and its heading, once    *)
(* its own compressor has finished.                                        *)
SectionLengths(k) == IF Gzip THEN 1..MaxEmit ELSE {k + 1}

(***************************************************************************)
(* scar_writer                                                             *)
(***************************************************************************)
Init ==
    /\ pc = "ready"
    /\ failed = FALSE
    /\ todo = << >>
    /\ metas = << >>
    /\ acked = << >>
    /\ body = << >>
    /\ streams = <<[at |-> 0, raw |-> 0]>>
    /\ devLen = 0
    /\ whole = TRUE
    /\ ucount = 0
    /\ ccount = 0
    /\ lastCk = 0
    /\ idxLines = << >>
    /\ ckLines = << >>
    /\ layout = [index |-> Nowhere, checkpoints |-> Nowhere,
                 tail |-> Nowhere, eof |-> Nowhere]
    /\ tail = [index |-> Nowhere, checkpoints |-> Nowhere]

(* The call returns -1.                                                    *)
Fail ==
    /\ failed' = TRUE
    /\ pc' = IF StopOnError \/ pc \in FinishSteps THEN "failed" ELSE "ready"
    /\ todo' = << >>

MayCall == pc = "ready" /\ (StopOnError => ~failed)

\* Mutant: the spacing is measured on the compressed stream.
NeedsCheckpointCompressed == ccount > lastCk + Limit
NeedsCheckpoint == ucount > lastCk + Limit

(* scar_writer_write_entry is called.                                      *)
WriteEntry(m) ==
    /\ MayCall
    /\ Len(metas) < MaxEntries
    /\ metas' = Append(metas, m)
    /\ pc' = IF NeedsCheckpoint THEN "checkpoint" ELSE "index"
    /\ UNCHANGED <<failed, todo, acked, body, streams, devLen, whole, ucount, ccount,
                   lastCk, idxLines, ckLines, layout, tail>>

\* Mutants: an outcome of create_checkpoint that records the line k.
FlushedRecording(d, k) ==
    /\ devLen' = devLen + d.got
    /\ ccount' = ccount + d.got
    /\ IF d.ok
       THEN /\ streams' = IF Gzip
                          THEN Append(streams, [at |-> devLen', raw |-> RawLen])
                          ELSE streams
            /\ ckLines' = Append(ckLines, k)
            /\ lastCk' = ucount
            /\ whole' = (whole /\ d.whole)
            /\ pc' = "index"
            /\ UNCHANGED <<failed, todo>>
       ELSE Fail /\ UNCHANGED <<streams, ckLines, lastCk, whole>>
\* The compressed offset is read before the flush
FlushedOffsetFirst(d) == FlushedRecording(d, [c |-> ccount, u |-> ucount])
\* or the uncompressed one is that of the previous checkpoint.
FlushedStaleOffset(d) == FlushedRecording(d, [c |-> ccount', u |-> lastCk])

(* create_checkpoint: end the compressed stream, start another one, record *)
(* where it starts.                                                        *)
Flushed(d) ==
    /\ devLen' = devLen + d.got
    /\ ccount' = ccount + d.got
    /\ IF d.ok
       THEN /\ streams' = IF Gzip
                          THEN Append(streams, [at |-> devLen', raw |-> RawLen])
                          ELSE streams
            /\ ckLines' = Append(ckLines, [c |-> ccount', u |-> ucount])
            /\ lastCk' = ucount
            /\ whole' = (whole /\ d.whole)
            /\ pc' = "index"
            /\ UNCHANGED <<failed, todo>>
       ELSE Fail /\ UNCHANGED <<streams, ckLines, lastCk, whole>>

CreateCheckpoint ==
    /\ pc = "checkpoint"
    /\ \E d \in CompressorFinish : Flushed(d)
    /\ UNCHANGED <<metas, acked, body, ucount, idxLines, layout, tail>>

\* Mutant: the line gives the offset in the compressed file.
WriteIndexLineCompressed ==
    /\ pc = "index"
    /\ idxLines' = Append(idxLines, [entry |-> Len(metas), off |-> ccount])
    /\ todo' = EntryWrites(metas[Len(metas)])
    /\ pc' = "pax"
    /\ UNCHANGED <<failed, metas, acked, body, streams, devLen, whole, ucount, ccount,
                   lastCk, ckLines, layout, tail>>

(* The entry's index line goes to the in-memory index section; the pax     *)
(* writer starts.                                                          *)
WriteIndexLine ==
    /\ pc = "index"
    /\ idxLines' = Append(idxLines, [entry |-> Len(metas), off |-> ucount])
    /\ todo' = EntryWrites(metas[Len(metas)])
    /\ pc' = "pax"
    /\ UNCHANGED <<failed, metas, acked, body, streams, devLen, whole, ucount, ccount,
                   lastCk, ckLines, layout, tail>>

\* Mutants of Wrote: a write whose outcome o fails when refused, counts
\* cells into ucount, and ends its call when at most rest writes are left.
WroteBut(w, o, cells, refused, rest) ==
    /\ body' = IF o.raw > 0
               THEN Append(body, [entry |-> IF pc = "pax" THEN Len(metas) ELSE 0,
                                  part |-> w.part, at |-> RawLen, n |-> o.raw])
               ELSE body
    /\ ucount' = ucount + cells
    /\ devLen' = devLen + o.got
    /\ ccount' = ccount + o.got
    /\ IF refused
       THEN Fail /\ UNCHANGED <<whole, acked>>
       ELSE LET left == IF Len(todo) > rest + 1 THEN Tail(todo) ELSE << >> IN
            /\ todo' = left
            /\ pc' = IF left # << >> THEN pc
                     ELSE IF pc = "pax" THEN "ready" ELSE "close"
            /\ acked' = IF pc' = "ready" THEN Append(acked, Len(metas)) ELSE acked
            /\ whole' = (whole /\ o.whole /\ o.ret = w.n)
            /\ UNCHANGED failed
Counted(o) == IF o.ret > 0 THEN o.ret ELSE 0
\* The counting writer counts errors too,
WroteCountsErrors(w, o) == WroteBut(w, o, o.ret, o.ret < w.n, 0)
\* the padding write is not checked at all,
WrotePaddingUnchecked(w, o) ==
    WroteBut(w, o, Counted(o), w.check = "full" /\ o.ret < w.n, 0)
\* or the last write of an entry is forgotten.
WroteDropsLast(w, o) == WroteBut(w, o, Counted(o), o.ret < w.n, 1)

(* One write of the pax writer, through the counting writers and the       *)
(* compressor, with outcome o.                                             *)
Wrote(w, o) ==
    /\ body' = IF o.raw > 0
               THEN Append(body, [entry |-> IF pc = "pax" THEN Len(metas) ELSE 0,
                                  part |-> w.part, at |-> RawLen, n |-> o.raw])
               ELSE body
    /\ ucount' = IF o.ret > 0 THEN ucount + o.ret ELSE ucount
    /\ devLen' = devLen + o.got
    /\ ccount' = ccount + o.got
    /\ IF o.ret < 0 \/ (w.check = "full" /\ o.ret < w.n)
       THEN Fail /\ UNCHANGED <<whole, acked>>
       ELSE /\ todo' = Tail(todo)
            /\ pc' = IF Tail(todo) # << >> THEN pc
                     ELSE IF pc = "pax" THEN "ready" ELSE "close"
            /\ acked' = IF pc' = "ready" THEN Append(acked, Len(metas)) ELSE acked
            /\ whole' = (whole /\ o.whole /\ o.ret = w.n)
            /\ UNCHANGED failed

PaxWrite ==
    /\ pc \in {"pax", "end"}
    /\ todo # << >>
    /\ \E o \in CompressorWrite(Head(todo).n) : Wrote(Head(todo), o)
    /\ UNCHANGED <<metas, streams, lastCk, idxLines, ckLines, layout, tail>>

\* Mutant: write_content takes the early end of the content for its end.
ContentShortIgnored ==
    /\ "source" \in Faults
    /\ pc = "pax"
    /\ todo # << >>
    /\ Head(todo).part = "data"
    /\ pc' = "ready"
    /\ todo' = << >>
    /\ acked' = Append(acked, Len(metas))
    /\ UNCHANGED <<failed, metas, body, streams, devLen, whole, ucount, ccount, lastCk,
                   idxLines, ckLines, layout, tail>>

(* The content reader ends early: nothing more of the entry is written.    *)
ContentShort ==
    /\ "source" \in Faults
    /\ pc = "pax"
    /\ todo # << >>
    /\ Head(todo).part = "data"
    /\ Fail
    /\ UNCHANGED <<metas, acked, body, streams, devLen, whole, ucount, ccount, lastCk,
                   idxLines, ckLines, layout, tail>>

(* scar_writer_finish is called: the end of archive blocks come first.     *)
Finish ==
    /\ MayCall
    /\ pc' = "end"
    /\ todo' = EndWrites
    /\ UNCHANGED <<failed, metas, acked, body, streams, devLen, whole, ucount, ccount,
                   lastCk, idxLines, ckLines, layout, tail>>

\* Mutant: the trailer of the last stream bypasses the counting writer.
CloseBodyUncounted ==
    /\ pc = "close"
    /\ \E d \in CompressorFinish :
        /\ devLen' = devLen + d.got
        /\ IF d.ok
           THEN /\ pc' = "index section"
                /\ whole' = (whole /\ d.whole)
                /\ UNCHANGED <<failed, todo>>
           ELSE Fail /\ UNCHANGED whole
    /\ UNCHANGED <<metas, acked, body, streams, ucount, ccount, lastCk, idxLines, ckLines,
                   layout, tail>>

(* The body compressor is finished; those of the two section buffers only  *)
(* write to memory.                                                        *)
CloseBody ==
    /\ pc = "close"
    /\ \E d \in CompressorFinish :
        /\ devLen' = devLen + d.got
        /\ ccount' = ccount + d.got
        /\ IF d.ok
           THEN /\ pc' = "index section"
                /\ whole' = (whole /\ d.whole)
                /\ UNCHANGED <<failed, todo>>
           ELSE Fail /\ UNCHANGED whole
    /\ UNCHANGED <<metas, acked, body, streams, ucount, lastCk, idxLines, ckLines,
                   layout, tail>>

(* From here on the output is written directly, past compressed_writer.    *)
(* The offset of the checkpoints section is computed, not observed.        *)
WriteIndexSection ==
    /\ pc = "index section"
    /\ \E len \in SectionLengths(Len(idxLines)) :
        /\ tail' = [index |-> ccount, checkpoints |-> ccount + len]
        /\ layout' = [layout EXCEPT !.index = devLen]
        /\ \E got \in OutputWrite(len) :
            /\ devLen' = IF got > 0 THEN devLen + got ELSE devLen
            /\ IF got < len THEN Fail
               ELSE pc' = "checkpoints section" /\ UNCHANGED <<failed, todo>>
    /\ UNCHANGED <<metas, acked, body, streams, whole, ucount, ccount, lastCk, idxLines,
                   ckLines>>

WriteCheckpointsSection ==
    /\ pc = "checkpoints section"
    /\ layout' = [layout EXCEPT !.checkpoints = devLen]
    /\ \E len \in SectionLengths(Len(ckLines)) : \E got \in OutputWrite(len) :
        /\ devLen' = IF got > 0 THEN devLen + got ELSE devLen
        /\ IF got < len THEN Fail
           ELSE pc' = "tail section" /\ UNCHANGED <<failed, todo>>
    /\ UNCHANGED <<metas, acked, body, streams, whole, ucount, ccount, lastCk, idxLines,
                   ckLines, tail>>

(* The tail goes through a compressor of its own; scar_io_printf's result  *)
(* is only compared with 0.                                                *)
TailOutcomes ==
    IF Gzip THEN Deflate(1)
    ELSE {[got |-> IF k < 0 THEN 0 ELSE k, ok |-> k >= 0, whole |-> k = 1] :
          k \in OutputWrite(1)}

WriteTail ==
    /\ pc = "tail section"
    /\ layout' = [layout EXCEPT !.tail = devLen]
    /\ \E d \in TailOutcomes :
        /\ devLen' = devLen + d.got
        /\ IF d.ok
           THEN /\ pc' = "eof"
                /\ whole' = (whole /\ d.whole)
                /\ UNCHANGED <<failed, todo>>
           ELSE Fail /\ UNCHANGED whole
    /\ UNCHANGED <<metas, acked, body, streams, ucount, ccount, lastCk, idxLines, ckLines,
                   tail>>

WriteEofMarker ==
    /\ pc = "eof"
    /\ layout' = [layout EXCEPT !.eof = devLen]
    /\ \E got \in OutputWrite(1) :
        /\ devLen' = IF got > 0 THEN devLen + got ELSE devLen
        /\ IF got < 1 THEN Fail
           ELSE pc' = "done" /\ UNCHANGED <<failed, todo>>
    /\ UNCHANGED <<metas, acked, body, streams, whole, ucount, ccount, lastCk, idxLines,
                   ckLines, tail>>

(* A step of a call that has begun.                                        *)
CallStep ==
    \/ CreateCheckpoint \/ WriteIndexLine \/ PaxWrite \/ ContentShort
    \/ CloseBody \/ WriteIndexSection \/ WriteCheckpointsSection
    \/ WriteTail \/ WriteEofMarker

Next == (\E m \in Metas : WriteEntry(m)) \/ Finish \/ CallStep

Spec == Init /\ [][Next]_vars
-----------------------------------------------------------------------------
(***************************************************************************)
(* Properties                                                              *)
(***************************************************************************)
IndexLine == [entry : Nat, off : Nat]
CkLine == [c : Nat, u : Nat]
Piece == [entry : Nat, part : Parts, at : Nat, n : Nat]
WriteReq == [part : Parts, n : Nat, check : {"full", "sign"}]

TypeOK ==
    /\ pc \in {"ready", "failed", "done"} \cup CallSteps
    /\ failed \in BOOLEAN
    /\ todo \in Seq(WriteReq)
    /\ metas \in Seq(Metas)
    /\ acked \in Seq(Nat)
    /\ body \in Seq(Piece)
    /\ streams \in Seq([at : Nat, raw : Nat])
    /\ devLen \in Nat
    /\ whole \in BOOLEAN
    /\ ucount \in Nat
    /\ ccount \in Nat
    /\ lastCk \in Nat
    /\ idxLines \in Seq(IndexLine)
    /\ ckLines \in Seq(CkLine)
    /\ layout \in [index : Int, checkpoints : Int, tail : Int, eof : Int]
    /\ tail \in [index : Int, checkpoints : Int]

(* The piece of the tar stream at index j opens an entry.                  *)
Opens(j) == body[j].entry # 0 /\ (j = 1 \/ body[j - 1].entry # body[j].entry)

(* Every index line gives the offset in the tar stream of the first piece  *)
(* of its entry: the extended header when there is one.  Only the line     *)
(* whose entry has not reached the compressor yet points at the end of the *)
(* stream, where that piece will go.  (write_entry writes the line before  *)
(* the entry, from uncompressed_writer.count after a possible checkpoint.) *)
IndexSound ==
    \A i \in 1..Len(idxLines) :
        \/ \E j \in 1..Len(body) :
            /\ body[j].at = idxLines[i].off
            /\ body[j].entry = idxLines[i].entry
            /\ Opens(j)
        \/ i = Len(idxLines) /\ idxLines[i].off = RawLen

(* The compressed streams of the body other than the first start exactly   *)
(* at the recorded checkpoints, in output order: a decompressor started at *)
(* the compressed offset of a line yields the tar stream from its          *)
(* uncompressed offset.  (create_checkpoint reads the counters after the   *)
(* flush.)  The plain compressor has one stream, with equal offsets.       *)
CheckpointsSound ==
    IF Gzip
    THEN /\ Len(streams) = Len(ckLines) + 1
         /\ \A i \in 1..Len(ckLines) :
               /\ streams[i + 1].at = ckLines[i].c
               /\ streams[i + 1].raw = ckLines[i].u
    ELSE /\ Len(streams) = 1
         /\ \A i \in 1..Len(ckLines) : ckLines[i].c = ckLines[i].u

(* Down the checkpoints section the uncompressed offsets strictly increase *)
(* and the compressed ones never decrease: the reader's scan stops at the  *)
(* first line beyond the offset it looks for.  (A checkpoint is only due   *)
(* after more than Limit cells.)                                           *)
CheckpointsSorted ==
    \A i, j \in 1..Len(ckLines) : i < j =>
        ckLines[i].c <= ckLines[j].c /\ ckLines[i].u < ckLines[j].u

(* README: a checkpoint is only right before a header block.  Each is the  *)
(* offset of an entry, or of the entry about to be indexed.                *)
CheckpointsBeforeHeaders ==
    \A i \in 1..Len(ckLines) :
        \/ \E k \in 1..Len(idxLines) : idxLines[k].off = ckLines[i].u
        \/ i = Len(ckLines) /\ pc = "index" /\ ckLines[i].u = RawLen

(* What a reader relies on in a checkpoint: it starts a stream, the scan   *)
(* finds it, and what it starts with is a header.                          *)
CheckpointsUsable == CheckpointsSound /\ CheckpointsSorted /\ CheckpointsBeforeHeaders

(* From every index line the nearest checkpoint before it, or the start of *)
(* the archive, is at most Limit away: the 10 MiB bound on what a reader   *)
(* decompresses to reach an entry.                                         *)
SeekBounded ==
    \A k \in 1..Len(idxLines) :
        \/ idxLines[k].off <= Limit
        \/ \E i \in 1..Len(ckLines) :
              ckLines[i].u <= idxLines[k].off /\ idxLines[k].off - ckLines[i].u <= Limit

(* While the writer is in use its counters are the lengths they stand for: *)
(* what the compressor received and, up to the trailing sections, what is  *)
(* on the output.                                                          *)
Trailing == {"checkpoints section", "tail section", "eof", "done"}
CountsExact ==
    pc # "failed" => /\ ucount = RawLen
                     /\ pc \notin Trailing => ccount = devLen

(* Tar archives are sequences of blocks: between two calls that succeeded  *)
(* the tar stream is block-aligned, and so is every offset in the index    *)
(* (the padding of the extended header, the zero fill of the last block).  *)
BlockAligned ==
    /\ pc \in {"ready", "done"} /\ ~failed => RawLen % Block = 0
    /\ ~failed => \A i \in 1..Len(idxLines) : idxLines[i].off % Block = 0

(* A finished archive's tail names the positions at which the index and    *)
(* checkpoints sections really are, though neither is read back from the   *)
(* output, and the EOF marker is the last thing on it.                     *)
TailSound ==
    pc = "done" =>
        /\ tail.index = layout.index
        /\ tail.checkpoints = layout.checkpoints
        /\ layout.eof + 1 = devLen

(* When scar_writer_finish returns 0 nothing any compressor or caller      *)
(* produced is missing from the output.                                    *)
NothingLost == pc = "done" => whole

(* The pieces of the tar stream from j on are the writes that the metadata *)
(* of their entry calls for, and nothing else in the stream is its.        *)
IntactFrom(j) ==
    LET e == body[j].entry
        wanted == EntryWrites(metas[e])
    IN  /\ e # 0
        /\ \A i \in 1..Len(wanted) :
              /\ j + i - 1 <= Len(body)
              /\ body[j + i - 1].entry = e
              /\ body[j + i - 1].part = wanted[i].part
              /\ body[j + i - 1].n = wanted[i].n
        /\ \A k \in 1..Len(body) : body[k].entry = e => k \in j..j + Len(wanted) - 1

EntryIntact(e) == \E j \in 1..Len(body) : body[j].entry = e /\ IntactFrom(j)

(***************************************************************************)
(* Refinement of ScarArchive                                               *)
(***************************************************************************)
Nothing == [pax |-> -1, size |-> -1]   \* no intact entry at an offset

(* What a reader finds at an offset of the tar stream.                     *)
Starts(j, off) == body[j].at = off /\ IntactFrom(j)
Found(off) ==
    IF \E j \in 1..Len(body) : Starts(j, off)
    THEN metas[body[CHOOSE j \in 1..Len(body) : Starts(j, off)].entry]
    ELSE Nothing

A == INSTANCE ScarArchive WITH
        members <- [i \in 1..Len(acked) |-> metas[acked[i]]],
        index <- IF pc = "done"
                 THEN [i \in 1..Len(idxLines) |-> Found(idxLines[i].off)] ELSE << >>,
        state <- IF failed THEN "broken" ELSE IF pc = "done" THEN "sealed" ELSE "open"
Implements == A!Spec
=============================================================================
