----------------------------- MODULE ScarReader -----------------------------
(***************************************************************************)
(* scar_reader and scar_index_iterator (scar-c/src/scar-reader.c) on an    *)
(* archive whose tail has been found.  All of them read through one        *)
(* scar_io_reader and move one scar_io_seeker: the cursor of the archive   *)
(* file is shared by every iterator, by the loading of the checkpoints     *)
(* section and by read_meta and read_content.                              *)
(*                                                                         *)
(* Lengths are in cells, of the compressed file or of the tar stream.      *)
(***************************************************************************)
EXTENDS ArchiveForm, FiniteSetsExt

CONSTANTS
    Archives,     \* archives a reader may be opened on, see ArchiveOK
    Iterators,    \* handles a client may hold on scar_index_iterators
    BlockCap,     \* cells in the buffer of a scar_block_reader (512 bytes)
    ChunkCap,     \* cells in the input buffer of a gzip decompressor (4 KiB)
    MaxRefills,   \* bound: input buffers inflating one read takes
    IoFaults      \* TRUE: reads of read_meta and read_content may fail

ASSUME ArchivesAssumption == \A a \in Archives : ArchiveOK(a)
ASSUME CapsAssumption == {BlockCap, ChunkCap, MaxRefills} \subseteq Nat \ {0}
ASSUME IoFaultsAssumption == IoFaults \in BOOLEAN

VARIABLES
    arc,       \* the archive
    pos,       \* the shared cursor of the archive file
    its,       \* the index iterators
    running,   \* the iterator whose next call is running, or None
    ckLoaded,  \* has_checkpoints
    cks,       \* checkpoints
    pc,        \* where a running read_meta is; "idle" between calls
    target,    \* the member read_meta was called for, or 0
    decomp,    \* current_decomp
    last,      \* the member whose metadata the previous call read, or 0
    result     \* where in the tar stream the last results were read

vars == <<arc, pos, its, running, ckLoaded, cks, pc, target, decomp, last, result>>

None == "none"

ASSUME IteratorsAssumption == None \notin Iterators

(***************************************************************************)
(* Buffered readers.  A reader of the file remembers only `hi', the        *)
(* position up to which its buffers hold the file; it reads on from        *)
(* wherever the shared cursor is, so its data has a gap, and is not what   *)
(* it should be (bad), when the cursor is elsewhere at a refill.           *)
(***************************************************************************)
\* Mutant: a read past the end of the file moves the cursor all the same.
UptoUnbounded(p) == p
Upto(p) == Min({p, arc.devLen})

(* A block reader fetches the next block as soon as the last byte of its   *)
(* buffer is consumed.  Consuming n of b buffered cells of a plain file:   *)
BlockRefills(b, n) == IF n < b THEN 0 ELSE 1 + ((n - b) \div BlockCap)

(* How many buffers of what size the iterator's readers fetch to consume n *)
(* cells: exactly known for plain, up to the data for gzip.                *)
Fetches(it, n) ==
    IF arc.gzip THEN [times : 0..MaxRefills, size : {ChunkCap}]
    ELSE {[times |-> BlockRefills(it.hi - it.cur, n), size |-> BlockCap]}

(***************************************************************************)
(* The index iterator                                                      *)
(***************************************************************************)
Closed == [open |-> FALSE, line |-> 0, cur |-> 0, hi |-> 0, next_offset |-> 0,
           bad |-> FALSE, seen |-> << >>, ended |-> FALSE]

Head1 == 1    \* the line SCAR-INDEX is one cell

(* scar_reader_iterate: seek, create the readers, consume the heading,     *)
(* remember the cursor.                                                    *)
Iterate(i) ==
    /\ pc = "idle" /\ running = None
    /\ ~its[i].open
    /\ \E f \in IF arc.gzip THEN [times : 1..MaxRefills, size : {ChunkCap}]
                ELSE {[times |-> 1 + BlockRefills(BlockCap, Head1), size |-> BlockCap]} :
        LET hi == Upto(arc.idxAt + f.times * f.size) IN
        /\ its' = [its EXCEPT ![i] =
                     [Closed EXCEPT !.open = TRUE, !.line = 1, !.cur = arc.idxAt + Head1,
                                    !.hi = hi, !.next_offset = hi]]
        /\ pos' = hi
    /\ last' = 0
    /\ UNCHANGED <<arc, running, ckLoaded, cks, pc, target, decomp, result>>

\* Mutant: next reads on from the cursor wherever the last call left it.
ParseLineNoSeek(i) ==
    LET it == its[i] IN
    IF it.line > Len(arc.lines)
    THEN /\ its' = [its EXCEPT ![i].ended = TRUE]
         /\ running' = None
         /\ UNCHANGED pos
    ELSE LET l == arc.lines[it.line] IN
         \E f \in Fetches(it, l.len) :
            LET hi == IF f.times = 0 THEN it.hi
                      ELSE Upto(pos + f.times * f.size)
                cursor == IF f.times = 0 THEN pos ELSE hi
                bad == it.bad \/ (f.times > 0 /\ it.hi # pos)
            IN
            /\ pos' = cursor
            /\ its' = [its EXCEPT ![i] =
                 [it EXCEPT !.line = @ + 1, !.cur = @ + l.len, !.hi = hi, !.bad = bad,
                            !.next_offset = IF l.g THEN @ ELSE cursor,
                            !.seen = IF l.g THEN @
                                     ELSE Append(@, IF bad THEN 0 ELSE l.file)]]
            /\ running' = IF l.g THEN i ELSE None

(* scar_index_iterator_next at its label start: one index line is parsed.  *)
(* A typeflag g line goes to the iterator's global metadata and back to    *)
(* start, with next_offset still that of the beginning of the call.        *)
(* After a gap the parse yields something that is not the next entry (0).  *)
ParseLine(i) ==
    LET it == its[i] IN
    IF it.line > Len(arc.lines)
    THEN /\ its' = [its EXCEPT ![i].ended = TRUE]
         /\ running' = None
         /\ UNCHANGED pos
    ELSE LET l == arc.lines[it.line] IN
         \E f \in Fetches(it, l.len) :
            LET hi == IF f.times = 0 THEN it.hi
                      ELSE Upto(it.next_offset + f.times * f.size)
                cursor == IF f.times = 0 THEN it.next_offset ELSE hi
                bad == it.bad \/ (f.times > 0 /\ it.hi # it.next_offset)
            IN
            /\ pos' = cursor
            /\ its' = [its EXCEPT ![i] =
                 [it EXCEPT !.line = @ + 1, !.cur = @ + l.len, !.hi = hi, !.bad = bad,
                            !.next_offset = IF l.g THEN @ ELSE cursor,
                            !.seen = IF l.g THEN @
                                     ELSE Append(@, IF bad THEN 0 ELSE l.file)]]
            /\ running' = IF l.g THEN i ELSE None

IteratorNext(i) ==
    /\ pc = "idle" /\ running = None
    /\ its[i].open /\ ~its[i].ended
    /\ ParseLine(i)
    /\ last' = 0
    /\ UNCHANGED <<arc, ckLoaded, cks, pc, target, decomp, result>>

IteratorGoOn(i) ==
    /\ running = i
    /\ ParseLine(i)
    /\ UNCHANGED <<arc, ckLoaded, cks, pc, target, decomp, last, result>>

IteratorFree(i) ==
    /\ pc = "idle" /\ running = None
    /\ its[i].open
    /\ its' = [its EXCEPT ![i] = Closed]
    /\ UNCHANGED <<arc, pos, running, ckLoaded, cks, pc, target, decomp, last, result>>

(***************************************************************************)
(* read_meta and read_content                                              *)
(***************************************************************************)
NoResult == [skip |-> 0, meta |-> 0, content |-> 0, file |-> 0, damaged |-> FALSE]
NoDecomp == [cur |-> 0, end |-> 0, hi |-> 0, fresh |-> TRUE, bad |-> FALSE]

(* The call returns -1: the cursor is left somewhere in the file.          *)
Fail ==
    /\ pc' = "idle"
    /\ target' = 0
    /\ last' = 0
    /\ pos' \in {arc.idxAt, arc.devLen}

(* scar_reader_read_meta is called with the offset of a member.            *)
ReadMeta(f) ==
    /\ pc = "idle" /\ running = None
    /\ pc' = "ensure"
    /\ target' = f
    /\ last' = 0
    /\ result' = NoResult
    /\ UNCHANGED <<arc, pos, its, running, ckLoaded, cks, decomp>>

(* reader_ensure_checkpoint_section: the section is read once, by a reader *)
(* of its own; when that fails nothing of it is kept.  Where it leaves the *)
(* cursor does not matter: the next step seeks.                            *)
EnsureCheckpointSection ==
    /\ pc = "ensure"
    /\ \/ /\ ckLoaded
          /\ pc' = "seek"
          /\ UNCHANGED <<pos, ckLoaded, cks, target, last>>
       \/ /\ ~ckLoaded
          /\ pos' = arc.devLen
          /\ cks' = arc.cks
          /\ ckLoaded' = TRUE
          /\ pc' = "seek"
          /\ UNCHANGED <<target, last>>
       \/ /\ ~ckLoaded /\ IoFaults
          /\ Fail
          /\ UNCHANGED <<ckLoaded, cks>>
    /\ UNCHANGED <<arc, its, running, decomp, result>>

\* Mutant: the scan stops at a checkpoint that is right at the offset.
FindCheckpointBefore(off) ==
    LET stop == Min({i \in 1..Len(cks) : cks[i].u >= off} \cup {Len(cks) + 1})
    IN  IF stop = 1 THEN [c |-> 0, u |-> 0] ELSE cks[stop - 1]

(* reader_find_checkpoint: the scan stops at the first checkpoint beyond   *)
(* the offset and keeps the one before it.                                 *)
FindCheckpoint(off) ==
    LET stop == Min({i \in 1..Len(cks) : cks[i].u > off} \cup {Len(cks) + 1})
    IN  IF stop = 1 THEN [c |-> 0, u |-> 0] ELSE cks[stop - 1]

(* Where a decompressor created with the cursor at c starts in the tar     *)
(* stream, and where it stops: gzip never goes past its Z_STREAM_END.      *)
StreamAt(c) ==
    IF ~arc.gzip THEN [raw |-> c, end |-> arc.bodyLen]
    ELSE LET s == {i \in 1..Len(arc.streams) : arc.streams[i].at = c} IN
         IF s = {} THEN [raw |-> 0, end |-> 0]
         ELSE LET i == Min(s) IN
              [raw |-> arc.streams[i].raw,
               end |-> IF i = Len(arc.streams) THEN arc.bodyLen
                       ELSE arc.streams[i + 1].raw]

\* Mutant: the whole offset is skipped, not what is left from the checkpoint.
SeekToCheckpointSkipAll ==
    /\ pc = "seek"
    /\ LET ck == FindCheckpoint(arc.files[target].off)
           s == StreamAt(ck.c) IN
        /\ pos' = ck.c
        /\ decomp' = [cur |-> s.raw, end |-> s.end, hi |-> ck.c, fresh |-> TRUE,
                      bad |-> FALSE]
        /\ result' = [result EXCEPT !.skip = arc.files[target].off]
    /\ pc' = "skip"
    /\ UNCHANGED <<arc, its, running, ckLoaded, cks, target, last>>

(* reader_seek_to up to the creation of the decompressor.                  *)
SeekToCheckpoint ==
    /\ pc = "seek"
    /\ LET ck == FindCheckpoint(arc.files[target].off)
           s == StreamAt(ck.c) IN
        /\ pos' = ck.c
        /\ decomp' = [cur |-> s.raw, end |-> s.end, hi |-> ck.c, fresh |-> TRUE,
                      bad |-> FALSE]
        /\ result' = [result EXCEPT !.skip = arc.files[target].off - ck.u]
    /\ pc' = "skip"
    /\ UNCHANGED <<arc, its, running, ckLoaded, cks, target, last>>

(* current_decomp reads n cells of the tar stream: the plain decompressor  *)
(* reads them from the file, gzip fetches input when it has none left.     *)
DecompRead(n) ==
    /\ decomp.cur + n <= decomp.end
    /\ \E k \in IF ~arc.gzip THEN {n}
                ELSE IF n = 0 THEN {0}
                ELSE {t * ChunkCap : t \in (IF decomp.fresh THEN 1 ELSE 0)..MaxRefills} :
        LET p == IF k = 0 THEN pos ELSE Upto(pos + k) IN
        /\ pos' = p
        /\ decomp' = [decomp EXCEPT !.cur = @ + n, !.fresh = @ /\ n = 0,
                                    !.hi = IF k = 0 THEN @ ELSE p,
                                    !.bad = @ \/ (k > 0 /\ pos # decomp.hi)]

(* A read that ends early, at the end of a stream or on an error.          *)
ReadFails(n) ==
    /\ decomp.cur + n > decomp.end \/ IoFaults
    /\ Fail
    /\ UNCHANGED decomp

SkipToOffset ==
    /\ pc = "skip"
    /\ \/ DecompRead(result.skip) /\ pc' = "header" /\ UNCHANGED <<target, last>>
       \/ ReadFails(result.skip)
    /\ UNCHANGED <<arc, its, running, ckLoaded, cks, result>>

\* Mutant: only one header is consumed, though an extended one came first.
ReadHeadersFirstOnly ==
    /\ pc = "header"
    /\ \/ /\ DecompRead(1)
          /\ result' = [result EXCEPT !.meta = decomp.cur]
          /\ last' = target
          /\ pc' = "idle"
          /\ target' = 0
       \/ ReadFails(arc.files[target].header) /\ UNCHANGED result
    /\ UNCHANGED <<arc, its, running, ckLoaded, cks>>

(* scar_pax_read_meta consumes the headers of the member.                  *)
ReadHeaders ==
    /\ pc = "header"
    /\ \/ /\ DecompRead(arc.files[target].header)
          /\ result' = [result EXCEPT !.meta = decomp.cur]
          /\ last' = target
          /\ pc' = "idle"
          /\ target' = 0
       \/ ReadFails(arc.files[target].header) /\ UNCHANGED result
    /\ UNCHANGED <<arc, its, running, ckLoaded, cks>>

(* scar_reader_read_content, under the protocol of scar-reader.h: right    *)
(* after a read_meta that succeeded, with the size it returned.            *)
ReadContent ==
    /\ pc = "idle" /\ running = None /\ last # 0
    /\ \/ /\ DecompRead(arc.files[last].data)
          /\ result' = [result EXCEPT !.content = decomp.cur, !.file = last,
                                      !.damaged = decomp'.bad]
          /\ last' = 0
          /\ UNCHANGED <<pc, target>>
       \/ ReadFails(arc.files[last].data) /\ UNCHANGED result
    /\ UNCHANGED <<arc, its, running, ckLoaded, cks>>

-----------------------------------------------------------------------------
ReaderInit ==
    /\ pos = arc.devLen      \* scar_reader_create has read the last block
    /\ its = [i \in Iterators |-> Closed]
    /\ running = None
    /\ ckLoaded = FALSE
    /\ cks = << >>
    /\ pc = "idle"
    /\ target = 0
    /\ decomp = NoDecomp
    /\ last = 0
    /\ result = NoResult

Init == arc \in Archives /\ ReaderInit

Next ==
    \/ \E i \in Iterators :
         Iterate(i) \/ IteratorNext(i) \/ IteratorGoOn(i) \/ IteratorFree(i)
    \/ \E f \in 1..Len(arc.files) : ReadMeta(f)
    \/ EnsureCheckpointSection \/ SeekToCheckpoint \/ SkipToOffset
    \/ ReadHeaders \/ ReadContent

Spec == Init /\ [][Next]_vars
-----------------------------------------------------------------------------
TypeOK ==
    /\ arc \in Archives
    /\ pos \in 0..arc.devLen
    /\ its \in [Iterators -> [open : BOOLEAN, line : Nat, cur : Nat, hi : Nat,
                              next_offset : Nat, bad : BOOLEAN, seen : Seq(Nat),
                              ended : BOOLEAN]]
    /\ running \in Iterators \cup {None}
    /\ ckLoaded \in BOOLEAN
    /\ cks \in {<< >>, arc.cks}
    /\ pc \in {"idle", "ensure", "seek", "skip", "header"}
    /\ target \in 0..Len(arc.files) /\ last \in 0..Len(arc.files)
    /\ decomp \in [cur : Nat, end : Nat, hi : Nat, fresh : BOOLEAN, bad : BOOLEAN]
    /\ result \in [skip : Int, meta : Nat, content : Nat, file : Nat, damaged : BOOLEAN]

(* How many of the first n lines of the index are entries.                 *)
EntriesIn(n) == Cardinality({k \in 1..n : ~arc.lines[k].g})

(* Whatever else is called between two calls of next, an iterator yields   *)
(* the entries of the index in order, and reports the end after the last.  *)
(* (next seeks back to where this iterator stopped reading the file.)      *)
IteratorsFaithful ==
    \A i \in Iterators :
        LET seen == its[i].seen IN
        /\ Len(seen) <= EntriesIn(Len(arc.lines))
        /\ its[i].ended => Len(seen) = EntriesIn(Len(arc.lines))
        /\ \A k \in 1..Len(arc.lines) :
             LET n == EntriesIn(k) IN
             ~arc.lines[k].g /\ n <= Len(seen) => seen[n] = arc.lines[k].file

(* read_meta that succeeded read the headers at the offset it was given,   *)
(* out of one stream without a gap.                                        *)
MetaCorrect ==
    last # 0 => result.meta = arc.files[last].off /\ ~decomp.bad

(* read_content delivers the content of the member whose metadata was      *)
(* just read, and the last content delivered was that of its member.       *)
ContentCorrect ==
    result.file # 0 =>
        /\ result.content = arc.files[result.file].off + arc.files[result.file].header
        /\ ~result.damaged

(* On a well-formed archive whose reads do not fail, read_meta never       *)
(* fails: the decompressor chosen by the scan reaches the headers, which   *)
(* lie in its stream.                                                      *)
ReachesHeaders ==
    pc \in {"skip", "header"} =>
        /\ result.skip >= 0
        /\ LET f == arc.files[target] IN
           decomp.cur + (IF pc = "skip" THEN result.skip ELSE 0) + f.header + f.data
             <= decomp.end

(* No checkpoint lies between the one a seek started from and the member:  *)
(* read_meta never decompresses more than the writer's spacing allows.     *)
NearestCheckpoint ==
    pc = "skip" =>
        ~\E i \in 1..Len(arc.cks) :
            /\ arc.cks[i].u <= arc.files[target].off
            /\ arc.files[target].off - arc.cks[i].u < result.skip
=============================================================================
