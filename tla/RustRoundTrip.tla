--------------------------- MODULE RustRoundTrip ---------------------------
(***************************************************************************)
(* The Rust writer, and then a ScarReader of the same library              *)
(* (scar-rs/scar/src/read.rs) on the archive it finished.  The reader, its *)
(* IndexIters and the PaxReader of an item read through one RSCell: they   *)
(* share the cursor of the file.                                           *)
(***************************************************************************)
EXTENDS RustWriter, FiniteSetsExt

CONSTANTS
    Iterators,    \* IndexIters a client may hold
    BufCap,       \* cells in the BufReader of an iterator on a plain archive
    ChunkCap,     \* cells in the input buffer of a GzDecoder
    MaxRefills,   \* bound: input buffers inflating one read takes
    Window,       \* cells of compressed_tail_block (512 bytes)
    GuessLen,     \* cells of the block guess_decompressor reads (128 bytes)
    LineLimit,    \* cells of the longest index line next accepts (16 KiB)
    IoFaults      \* TRUE: any read and seek of the reader may fail

ASSUME CapsAssumption == {BufCap, ChunkCap, MaxRefills} \subseteq Nat \ {0}
ASSUME WindowAssumption == {Window, GuessLen, LineLimit} \subseteq Nat
ASSUME IoFaultsAssumption == IoFaults \in BOOLEAN

VARIABLES
    reader,   \* what creating a ScarReader came to: "none" yet, "open" or "failed"
    pos,      \* the shared cursor
    its,      \* the iterators
    item,     \* the item a PaxReader is for, 0 when there is none
    step,     \* what that PaxReader reads next: "header" or "content"
    dc,       \* its decompressor
    got,      \* where in the tar stream the header and the content were read
    disturbed \* history: an iterator has moved the cursor since read_item

itemVars == <<item, step, dc, got>>
readerVars == <<reader, pos, its, itemVars, disturbed>>

(***************************************************************************)
(* Buffers.  Whatever reads the file remembers hi, the position up to      *)
(* which it has it; a refill with the cursor elsewhere leaves a gap (bad). *)
(***************************************************************************)
Upto(p) == Min({p, devLen})

(* A BufReader is refilled when it is empty and more is asked for.         *)
Refills(b, n) == IF n <= b THEN 0 ELSE (n - b + BufCap - 1) \div BufCap

(* The sizes of what the decompressor below may fetch for n cells of it.   *)
Fetches(it, n) ==
    IF Gzip THEN {t * ChunkCap : t \in 0..MaxRefills}
    ELSE {Refills(it.hi - it.cur, n) * BufCap}

(***************************************************************************)
(* Creation                                                                *)
(***************************************************************************)
(* guess_decompressor reads exactly so many bytes from where it seeks to.  *)
Guessed ==
    LET from == IF devLen < GuessLen THEN 0 ELSE Max({devLen - GuessLen, GuessLen})
    IN  from + Min({devLen, GuessLen}) <= devLen

(* The block that is searched for the magic, from byte 512 of a file that  *)
(* is longer, and the cells of it that may have it: a stream's start and,  *)
(* by accident, any cell of compressed data.                               *)
BlockStart == IF devLen <= Window THEN 0 ELSE Window
MagicAt(p) ==
    IF p \notin BlockStart..(Upto(BlockStart + Window) - 1) THEN {FALSE}
    ELSE IF p = layout.tail THEN {TRUE}
    ELSE IF ~Gzip THEN {FALSE}
    ELSE IF p \in {streams[i].at : i \in 1..Len(streams)} \cup {layout.eof} THEN {TRUE}
    ELSE BOOLEAN

(* create tries every magic of the block, from its end, as that far from   *)
(* the end of the file.  Only at the tail is there the heading of one.     *)
TailSeen == MagicAt(BlockStart + layout.tail - (devLen - Min({devLen, Window})))

(* ScarReader::new, which guesses, or with_decompressor; the tail and the  *)
(* checkpoints section are read.                                           *)
CreateReader(guess) ==
    /\ pc = "done" /\ reader = "none"
    /\ \/ \E seen \in TailSeen :
            reader' = IF seen /\ (guess => Guessed) THEN "open" ELSE "failed"
       \/ IoFaults /\ reader' = "failed"
    /\ pos' = devLen
    /\ UNCHANGED <<vars, its, itemVars, disturbed>>

(***************************************************************************)
(* The index                                                               *)
(***************************************************************************)
Closed == [open |-> FALSE, line |-> 0, cur |-> 0, hi |-> 0, seek_pos |-> 0,
           bad |-> FALSE, seen |-> << >>, ended |-> FALSE, failed |-> FALSE,
           faulted |-> FALSE]

(* An iterator leaves the item alone, but not the cursor below it.         *)
MovesCursor == disturbed' = TRUE /\ UNCHANGED <<vars, reader, itemVars>>

(* index: seek, read the heading, remember the cursor.                     *)
Index(i) ==
    /\ reader = "open" /\ ~its[i].open
    /\ \E n \in IF Gzip THEN {t * ChunkCap : t \in 1..MaxRefills} ELSE {BufCap} :
        /\ pos' = Upto(tail.index + n)
        /\ its' = [its EXCEPT ![i] =
             [Closed EXCEPT !.open = TRUE, !.line = 1, !.cur = tail.index + 1,
                            !.hi = pos', !.seek_pos = pos']]
    /\ MovesCursor

(* A client calls next until it returns None or an error, as the loops of  *)
(* scar-bin do.                                                            *)
Running(i) == reader = "open" /\ its[i].open /\ ~its[i].ended /\ ~its[i].failed

(* next on the line of an entry: seek, parse, remember the cursor.  After  *)
(* a gap what is parsed is not that entry (0).                             *)
NextItem(i) ==
    /\ Running(i)
    /\ its[i].line <= Len(scar_index) /\ ~scar_index[its[i].line].g
    /\ \E n \in Fetches(its[i], 1) :
        LET it == its[i]
            bad == it.bad \/ (n > 0 /\ it.seek_pos # it.hi)
            entry == IF bad THEN 0 ELSE scar_index[it.line].entry
        IN
        /\ pos' = Upto(it.seek_pos + n)
        /\ its' = [its EXCEPT ![i] =
             [it EXCEPT !.line = it.line + 1, !.cur = it.cur + 1, !.bad = bad,
                        !.seek_pos = pos', !.hi = IF n > 0 THEN pos' ELSE it.hi,
                        !.seen = Append(it.seen, entry)]]
    /\ MovesCursor

(* A line may be too long for next if the header that also has the name is *)
(* longer than that.                                                       *)
TooLong(e) == members[e].header > LineLimit

(* next on a line it refuses.  One of global metadata: its number is one   *)
(* more than its length (FieldLength), so that the first digit of the next *)
(* line is taken with it, and that line cannot be parsed.                  *)
NextRefuses(i) ==
    /\ Running(i)
    /\ its[i].line <= Len(scar_index)
    /\ scar_index[its[i].line].g \/ TooLong(scar_index[its[i].line].entry)
    /\ its' = [its EXCEPT ![i].failed = TRUE]
    /\ \E n \in Fetches(its[i], 2) : pos' = Upto(its[i].seek_pos + n)
    /\ MovesCursor

(* next at the end of the compressed stream, or before the next heading.   *)
NextEnds(i) ==
    /\ Running(i)
    /\ its[i].line > Len(scar_index)
    /\ its' = [its EXCEPT ![i].ended = TRUE]
    /\ \E n \in Fetches(its[i], 1) : pos' = Upto(its[i].seek_pos + n)
    /\ MovesCursor

(* A seek or a read fails somewhere in index or next, which return that,   *)
IteratorFails(i) ==
    /\ IoFaults
    /\ \/ reader = "open" /\ ~its[i].open /\ UNCHANGED its
       \/ Running(i) /\ its' = [its EXCEPT ![i].failed = TRUE, ![i].faulted = TRUE]
    /\ pos' \in {pos, devLen}
    /\ MovesCursor

(* but not when it is the first one of a line, for which the buffer is     *)
(* filled when it has nothing left: next returns None.                     *)
NextEndsOnError(i) ==
    /\ IoFaults
    /\ Running(i)
    /\ Gzip \/ its[i].hi = its[i].cur
    /\ its' = [its EXCEPT ![i].ended = TRUE, ![i].faulted = TRUE]
    /\ pos' = its[i].seek_pos
    /\ MovesCursor

(***************************************************************************)
(* Items.  A client has one at a time, and drops it when a call fails.     *)
(***************************************************************************)
Nothing == [header |-> Nowhere, content |-> Nowhere, bad |-> FALSE]
NoItem == item' = 0 /\ step' = "header" /\ got' = Nothing
NoDecomp == [cur |-> 0, end |-> 0, hi |-> 0, fresh |-> TRUE, bad |-> FALSE]

(* read_checkpoints takes an error at the beginning of a line for the end, *)
(* so a reader may know only the first checkpoints.  How many is one       *)
(* choice of create in the code, and one of every read_item here.          *)
Known == IF IoFaults THEN 0..Len(Archive.cks) ELSE {Len(Archive.cks)}

(* seek_to_raw_loc keeps the last checkpoint that is not beyond raw_loc.   *)
CheckpointFor(loc0, known) ==
    LET cks == Archive.cks
        stop == Min({i \in 1..Len(cks) : i > known \/ cks[i].u > loc0} \cup {Len(cks) + 1})
    IN  IF stop = 1 THEN [c |-> 0, u |-> 0] ELSE cks[stop - 1]

(* What a decompressor created at c delivers: up to the end of the stream. *)
DecompressorAt(c) ==
    LET at == {i \in 1..Len(streams) : streams[i].at = c}
        i == Min(at)
    IN  IF ~Gzip THEN [NoDecomp EXCEPT !.cur = c, !.end = devLen, !.hi = c]
        ELSE IF at = {} THEN NoDecomp
        ELSE [NoDecomp EXCEPT !.cur = streams[i].raw, !.hi = c,
                !.end = IF i = Len(streams) THEN received ELSE streams[i + 1].raw]

(* read_exact of n cells of the decompressor d, with the cursor at p.       *)
ReadExact(d, n, p) ==
    /\ d.cur + n <= d.end
    /\ \E k \in IF ~Gzip THEN {n}
                ELSE IF n = 0 THEN {0}
                ELSE {t * ChunkCap : t \in (IF d.fresh THEN 1 ELSE 0)..MaxRefills} :
        /\ pos' = IF k = 0 THEN p ELSE Upto(p + k)
        /\ dc' = [d EXCEPT !.cur = @ + n, !.fresh = @ /\ n = 0,
                           !.hi = IF k = 0 THEN @ ELSE Upto(p + k),
                           !.bad = @ \/ (k > 0 /\ p # d.hi)]

(* It ends early: at the end of the stream, on an error, or because what   *)
(* follows a gap cannot be decompressed.                                   *)
ReadFails(d, n, p) ==
    /\ d.cur + n > d.end \/ IoFaults \/ d.bad \/ p # d.hi
    /\ NoItem
    /\ pos' = devLen
    /\ UNCHANGED dc

\* Mutant: the whole location is skipped, not what is left from the checkpoint.
ReadItemSkipAll(f) ==
    /\ reader = "open"
    /\ \E ck \in {CheckpointFor(scar_index[f].raw_loc, known) : known \in Known} :
       LET d == DecompressorAt(ck.c)
           diff == scar_index[f].raw_loc
       IN  \/ /\ ReadExact(d, diff, ck.c)
              /\ item' = f /\ step' = "header" /\ got' = Nothing
           \/ ReadFails(d, diff, ck.c)
    /\ disturbed' = FALSE
    /\ UNCHANGED <<vars, reader, its>>

(* read_item, for an item an iterator yielded: a decompressor is created   *)
(* at the checkpoint and reads up to the item.                             *)
ReadItem(f) ==
    /\ reader = "open"
    /\ \E ck \in {CheckpointFor(scar_index[f].raw_loc, known) : known \in Known} :
       LET d == DecompressorAt(ck.c)
           diff == scar_index[f].raw_loc - ck.u
       IN  \/ /\ ReadExact(d, diff, ck.c)
              /\ item' = f /\ step' = "header" /\ got' = Nothing
           \/ ReadFails(d, diff, ck.c)
    /\ disturbed' = FALSE
    /\ UNCHANGED <<vars, reader, its>>

(* next_header, once: the extended header and the header of the item.      *)
NextHeader ==
    /\ item # 0 /\ step = "header"
    /\ LET n == members[item].header IN
        \/ /\ ReadExact(dc, n, pos)
           /\ got' = [Nothing EXCEPT !.header = dc.cur, !.bad = dc'.bad]
           /\ step' = "content" /\ UNCHANGED item
        \/ ReadFails(dc, n, pos)
    /\ UNCHANGED <<vars, reader, its, disturbed>>

(* read_content of all of it, after that.                                  *)
ReadContent ==
    /\ item # 0 /\ step = "content" /\ got.content = Nowhere
    /\ LET n == members[item].data IN
        \/ /\ ReadExact(dc, n, pos)
           /\ got' = [got EXCEPT !.content = dc.cur, !.bad = dc'.bad]
           /\ UNCHANGED <<item, step>>
        \/ ReadFails(dc, n, pos)
    /\ UNCHANGED <<vars, reader, its, disturbed>>
-----------------------------------------------------------------------------
RTInit ==
    /\ Init
    /\ reader = "none" /\ pos = 0
    /\ its = [i \in Iterators |-> Closed]
    /\ item = 0 /\ step = "header" /\ dc = NoDecomp /\ got = Nothing
    /\ disturbed = FALSE

WriterStep == Next /\ UNCHANGED readerVars

RTNext ==
    \/ WriterStep
    \/ \E guess \in BOOLEAN : CreateReader(guess)
    \/ \E i \in Iterators : \/ Index(i) \/ NextItem(i) \/ NextRefuses(i) \/ NextEnds(i)
                            \/ IteratorFails(i) \/ NextEndsOnError(i)
    \/ \E i \in Iterators : \E k \in 1..Len(its[i].seen) : ReadItem(its[i].seen[k])
    \/ NextHeader \/ ReadContent

RTSpec == RTInit /\ [][RTNext]_<<vars, readerVars>>
-----------------------------------------------------------------------------
(* What can be relied on when an archive is read back.  Every iterator     *)
(* yields the calls of the writer in order.  It ends with some missing     *)
(* only when a read failed at the beginning of a line, and returns an      *)
(* error only when a read failed, for global metadata or for a long line.  *)
(* From an item it yielded, whatever was read before and however that      *)
(* failed, the header and the content of that item are read.  An iterator  *)
(* that is moved while the item is being read can make its decompressor    *)
(* miss input; nothing else can, and no other item suffers.                *)
ReadBack ==
    /\ \A i \in Iterators : LET it == its[i] IN
         /\ Len(it.seen) <= Len(calls)
         /\ \A k \in 1..Len(it.seen) : it.seen[k] = k
         /\ it.ended => Len(it.seen) = Len(calls) \/ it.faulted
         /\ it.failed => it.faulted \/ \E k \in 1..Len(calls) : calls[k] \/ TooLong(k)
    /\ got.bad => disturbed
    /\ ~got.bad =>
         /\ got.header # Nowhere => got.header = members[item].at
         /\ got.content # Nowhere => got.content = members[item].at + members[item].header

(* What the reader is for: when no read fails, every archive that was      *)
(* finished can be opened, and its index read to the end.                  *)
Readable == reader # "failed" /\ \A i \in Iterators : ~its[i].failed
=============================================================================
