--------------------------- MODULE ScarRoundTrip ---------------------------
(***************************************************************************)
(* The writer, and then a reader on the archive it finished: every archive *)
(* ScarWriter can produce is one on which the properties of ScarReader     *)
(* hold.  The archive the reader sees is put together from the writer's    *)
(* output: the section positions from the tail, the checkpoints and the    *)
(* entries from the two sections, the streams from the compressor.         *)
(***************************************************************************)
EXTENDS ScarWriter, FiniteSetsExt

CONSTANTS Iterators, BlockCap, ChunkCap, MaxRefills,
    Window    \* cells at the end of the file searched for the tail (512 bytes)

ASSUME CapsAssumption == {BlockCap, ChunkCap, MaxRefills} \subseteq Nat \ {0}
ASSUME IteratorsAssumption == "none" \notin Iterators
(* The tail section, of up to MaxEmit cells, and the EOF marker.           *)
ASSUME WindowAssumption == Window \in Nat /\ Window > MaxEmit

VARIABLES arc, pos, its, running, ckLoaded, cks, rpc, target, decomp, last, result,
    ptr       \* the position find_tail looks at, Nowhere before and after

readerVars == <<arc, pos, its, running, ckLoaded, cks, rpc, target, decomp, last, result>>

(* Where the pieces of entry e of the given parts end in the tar stream.   *)
Ends(e, parts) ==
    {body[j].at + body[j].n :
        j \in {i \in 1..Len(body) : body[i].entry = e /\ body[i].part \in parts}}

(* Where the headers of the entry of an index line end, and the entry.     *)
HeadersEnd(line) == Max({line.off} \cup Ends(line.entry, Parts \ {"data"}))
EntryEnd(line) == Max({HeadersEnd(line)} \cup Ends(line.entry, {"data"}))

Written ==
    [gzip |-> Gzip, streams |-> streams, cks |-> ckLines, bodyLen |-> RawLen,
     files |-> [k \in 1..Len(idxLines) |->
                  [off |-> idxLines[k].off,
                   header |-> HeadersEnd(idxLines[k]) - idxLines[k].off,
                   data |-> EntryEnd(idxLines[k]) - HeadersEnd(idxLines[k])]],
     lines |-> [k \in 1..Len(idxLines) |-> [g |-> FALSE, file |-> k, len |-> 1]],
     idxAt |-> tail.index, ckAt |-> tail.checkpoints, devLen |-> devLen]

Unfinished == [devLen |-> 0]
NotAnArchive == [devLen |-> -1]

R == INSTANCE ScarReader WITH Archives <- {}, IoFaults <- FALSE, pc <- rpc

RTInit == Init /\ arc = Unfinished /\ R!ReaderInit /\ ptr = Nowhere

WriterStep == Next /\ UNCHANGED <<readerVars, ptr>>

(* scar_reader_create on the finished archive: the last Window cells are   *)
(* read, which leaves the cursor at the end; the EOF marker, which ends    *)
(* them, tells the compression and is left out of what is searched.        *)
WindowStart == IF Window > devLen THEN 0 ELSE devLen - Window
CreateReader ==
    /\ pc = "done" /\ arc = Unfinished /\ ptr = Nowhere
    /\ IF layout.eof + 1 = devLen
       THEN ptr' = layout.eof - 1 /\ UNCHANGED arc
       ELSE arc' = NotAnArchive /\ UNCHANGED ptr
    /\ pos' = devLen
    /\ UNCHANGED <<vars, its, running, ckLoaded, cks, rpc, target, decomp, last, result>>

(* A plain tail is recognised by its heading.  The two bytes of gzip's     *)
(* magic are where a stream starts, and by accident anywhere.              *)
Magic(p) ==
    IF ~Gzip THEN {p = layout.tail}
    ELSE IF p \in {layout.index, layout.checkpoints, layout.tail}
                  \cup {streams[i].at : i \in 1..Len(streams)}
    THEN {TRUE} ELSE BOOLEAN

\* Mutant: what is not a tail is taken for a failure.
ParseTailStrict(p) == IF p = layout.tail THEN 1 ELSE -1
(* 1 for the tail; 0 for a section with another heading, and for what does *)
(* not decompress.                                                         *)
ParseTail(p) == IF p = layout.tail THEN 1 ELSE 0

(* find_tail: one step of the search, from the end backwards.              *)
FindTail ==
    /\ ptr # Nowhere /\ arc = Unfinished
    /\ \E found \in IF ptr < WindowStart THEN {-1}
                    ELSE {IF magic THEN ParseTail(ptr) ELSE 0 : magic \in Magic(ptr)} :
        /\ ptr' = IF found = 0 THEN ptr - 1 ELSE ptr
        /\ arc' = CASE found = 1  -> Written
                    [] found = 0  -> arc
                    [] found = -1 -> NotAnArchive
    /\ UNCHANGED <<vars, pos, its, running, ckLoaded, cks, rpc, target, decomp, last, result>>

Opened == arc \notin {Unfinished, NotAnArchive}

ReaderStep == Opened /\ UNCHANGED <<vars, ptr>> /\ R!Next

RTNext == WriterStep \/ CreateReader \/ FindTail \/ ReaderStep
RTSpec == RTInit /\ [][RTNext]_<<vars, readerVars, ptr>>
-----------------------------------------------------------------------------
(* A reader can be created on every archive the writer finished, whatever  *)
(* its compressed data looks like and however little of it there is, and   *)
(* it looks for the sections where they are on the output.                 *)
TailFound ==
    /\ arc # NotAnArchive
    /\ Opened => arc.idxAt = layout.index /\ arc.ckAt = layout.checkpoints

(* What the properties of ScarReader take for granted of an archive is so  *)
(* of every one the writer finished.                                       *)
WellFormed == Opened => R!ArchiveOK(arc)

(* The archive reads back as what was written: an iterator yields the      *)
(* entries whose write_entry returned 0, in that order and all of them     *)
(* before it reports the end; read_meta and read_content find the headers  *)
(* and the content of the member asked for through the checkpoints that    *)
(* were recorded; and what read_meta decompresses before those headers is  *)
(* at most the writer's checkpoint spacing.                                *)
Listed(i) ==
    LET seen == [k \in 1..Len(its[i].seen) |->
                   IF its[i].seen[k] = 0 THEN 0 ELSE idxLines[its[i].seen[k]].entry]
    IN  /\ seen = SubSeq(acked, 1, Len(seen))
        /\ its[i].ended => seen = acked

ReadBack ==
    Opened =>
        /\ \A i \in Iterators : Listed(i)
        /\ R!MetaCorrect /\ R!ContentCorrect
        /\ rpc = "skip" => result.skip <= Limit
============================================================================
