# Verification of SCAR

SCAR is a tar archive with an appended index and with places ("checkpoints")
from which its compressed body can be decompressed. The repository holds two
implementations, a C library and command line tool (`scar-c`) and a Rust library
and command line tool (`scar-rs`). This directory holds TLA+ specifications
translated from that code, TLC instances of them, and proofs checked by TLAPS.

## The system

An archive is the tar body, then the sections SCAR-INDEX, SCAR-CHECKPOINTS and
SCAR-TAIL, then an end-of-file marker. Each section is compressed; the body is a
concatenation of compressed streams, one more for each checkpoint. Everything
runs on one thread. What makes it hard is not concurrency but layers of counters
over layers of buffers: offsets are taken from counters of two streams (the
uncompressed one above the compressor, the compressed one below it), written in
sections that are assembled in memory, never read back, and used later by a
reader whose iterators and decompressors share a single file cursor.

| Component | State | Operations | What makes it correct |
|---|---|---|---|
| C writer, `scar-c/src/scar-writer.c` | two counting writers, last checkpoint offset, two section buffers | create, write_entry, finish | index and checkpoint offsets are right, checkpoints only before headers and at most the limit apart, the tail names the sections, errors are reported |
| C pax writer, `pax.c` | none; a sequence of writes per entry | write_meta, write_content, write_end | whole blocks, headers agree with content, every short write noticed |
| Compressors, `compression/*.c` | a deflate stream | write, flush, finish | a flush ends a stream; nothing is lost |
| Stream utilities, `ioutil.c` | counters, buffers | read, write, consume | counts are the bytes that passed; buffers refill at the right time |
| C reader, `scar-reader.c` | cursor of the file, checkpoints, current decompressor; per iterator a block reader and `next_offset` | create, iterate, next, read_meta, read_content | no call disturbs another; an entry is reached through the nearest checkpoint and is the one asked for |
| C pax reader and record syntax, `pax.c`, `pax-syntax.c`, `meta.c` | global and local metadata | read_meta, read_content, parse | header chain folded in order, alignment kept, the end marker found |
| Compression registry, `compression/common.c` | none | from_name, from_tail | the right codec for an archive |
| `scar create`, `cmd/scar/subcmds/create.c`, `platform/posix.c` | the call stack of a recursion | walk, finish | parents before members, failures reported, walk ends |
| `scar convert`, `convert.c` | global metadata, one entry at a time | convert | every member arrives with its metadata and content, or the command fails |
| `ls`, `tree`, `cat`, `extract`, `subcmds/*.c`, `rx.c` | an iterator for each pattern; `prev_root` | iterate, match, print, read a member | what is printed is what the patterns name in the tree of names; what may be missing although the exit status is 0 is known (`StatusTells`) |
| Line lengths, `scar-writer.c`, `pax.c`, `internal-util.h`, `write.rs` | none | log10_ceil, write | a line's number is the length of the line |
| Rust writer, `scar-rs/scar/src/write.rs` | two tracked writes, the compressor, lists of checkpoints and index lines | add_entry, add_file, add_global_meta, finish | as the C writer; its archives are ones a reader can take for granted |
| Rust reader, `scar-rs/scar/src/read.rs`, `compression/mod.rs` | cursor of the file, checkpoints; per iterator a buffer and `seek_pos` | create, index, next, read_item, next_header, read_content | as the C reader; every archive of the Rust writer can be opened |
| Rust codecs and tool, `scar-rs` | as the C ones | as the C ones | as the C ones |

Writer and compressor interact by nested `scar_io_writer` calls: pax writer,
counting writer (uncompressed), compressor, counting writer (compressed), output.
A call at the top may end in several calls of the output or in none, and any of
them may fail. Reader, iterators and decompressors interact through the cursor of
the archive file. `scar create` interacts with the writer by calls and their
return values only, and the commands that read with the reader in the same way; `cat`
moves the cursor of the file under the iterator it is using. `scar convert` lets pax reader and writer read the same input in
turn: the content of an entry is what follows the headers, so each must leave the
input exactly where the other goes on. The hazards this leads to are listed, each at its line, in
`PROJECT.json`.

## Modules

| Module | Models | Used by |
|---|---|---|
| `ScarArchive` | the promise of a writer: members added in order, sealed once with an index that lists them, or broken | refined by `ScarWriter` |
| `ScarWriter` | `scar-writer.c` with the writes of `pax.c`, `compression/gzip.c`, `compression/plain.c`, the counting writers and the output | `MCScarWriter`, the modules below |
| `ScarWriterProofs` | theorems about `ScarWriter` and their proofs, with the one that it implements `ScarArchive` | `ScarRoundTripProofs`, `CmdCreateProofs` |
| `CmdCreate` | `create.c`, composed with `ScarWriter` (EXTENDS: it calls the writer's actions) | `MCCmdCreate` |
| `CmdCreateProofs` | theorems about `CmdCreate` and their proofs, on top of `ScarWriterProofs` (EXTENDS) | |
| `ArchiveForm` | what readers take for granted of an archive | `ScarReader`, `RustWriter` |
| `ScarReader` | `scar-reader.c` with the refills of block reader and decompressors | `MCScarReader`, the modules below |
| `ScarReaderProofs` | theorems about `ScarReader` and their proofs | `ScarRoundTripProofs`, `CmdReadProofs` |
| `RustWriter` | `write.rs` with the blocks of `pax.rs`, the gzip and plain compressors and the tracked writes | `RustRoundTrip` |
| `RustRoundTrip` | `read.rs` with `guess_decompressor` and the reads of `pax.rs`, on the archive `RustWriter` finished (EXTENDS) | `MCRustRoundTrip` |
| `RustProofs` | theorems about `RustWriter` and `RustRoundTrip` and their proofs | |
| `PaxFormat` | metadata, ustar fields and extended records, as they are read and written, and what a tar means by the standard | `CmdConvert` |
| `CmdConvert` | `convert.c` with `scar_pax_read_meta` | `MCCmdConvert` |
| `CmdConvertProofs` | theorems about `CmdConvert` and `PaxFormat` and their proofs | |
| `ScarRoundTrip` | `ScarWriter`, then `scar_reader_create` with the search for the tail, then an INSTANCE of `ScarReader` on the archive that it finished | `MCScarRoundTrip` |
| `ScarRoundTripProofs` | theorems about `ScarRoundTrip` and their proofs, on top of `ScarWriterProofs` (EXTENDS) and an INSTANCE of `ScarReaderProofs` | |
| `Glob` | `rx.c`: patterns and the regular expressions built from them; and the tree of names that gives them their meaning | `CmdRead` |
| `CmdRead` | `ls.c`, `tree.c`, `cat.c`, `extract.c`, composed with `ScarReader` (EXTENDS: they call the reader's actions) | `MCCmdRead` |
| `CmdReadProofs` | theorems about `CmdRead` and their proofs, on top of `ScarReaderProofs` (EXTENDS) | |
| `FieldLength` | lines that begin with their own length: index lines and pax records | `MCFieldLength` |
| `FieldLengthProofs` | the theorem about `FieldLength` and its proof | |

### ScarWriter

Lengths are in cells. A 512-byte block is `Block` cells, a line of a section is
one cell, and what deflate puts on the output in one call is at most `MaxEmit`
cells. The limit of 10 MiB between checkpoints is `Limit`.

One action is one call of a `scar_io_writer`, or one step of the caller between
two such calls, so that a fault can fall between any two of them: `WriteEntry`
(the call and the limit check), `CreateCheckpoint`, `WriteIndexLine`, `PaxWrite`
(once for each write of the entry), `ContentShort`, `Finish`, `CloseBody`,
`WriteIndexSection`, `WriteCheckpointsSection`, `WriteTail`, `WriteEofMarker`.
`pc` says where the running call is. `ucount` and `ccount` are the `count` of the
two counting writers, `lastCk` is `last_checkpoint_uncompressed_offset`,
`idxLines` and `ckLines` are what the two section buffers hold. `body`, `streams`,
`devLen`, `layout` and `whole` are not in the code: they record what really
reached the compressor and the output, for the properties to compare with.

`Faults` says what may go wrong: the output returns -1 (`error`), takes only part
of a write (`short`), or the content ends early (`source`). A call that returned
-1 either ends the writer's use (`StopOnError`) or not; in the second case only
`source` is allowed, and `short` with gzip, which does not notice it: what a deflate stream does after a failed
Z_FINISH is not modelled.

### RustWriter

The Rust library has the same format and another design. Checkpoints are spaced by
compressed length, `consider_checkpoint` flushes the compressor before each entry to know it,
the sections are not assembled in memory but sent through the compressor of the body, each
behind a checkpoint of its own, and the checkpoints section lists those as well.
A 512-byte block is one cell, a line is one cell, and `held` is what the compressor still
has to put out; `Written` and `Flushed` are what it may do when it is written to, and when it
is flushed or finished. `Call` is the entry of add_entry (with the content of add_file, or of
write_block) or of add_global_meta; then `ConsiderCheckpoint`, `Checkpoint`, `BeginEntry`,
one `WriteBlock` for each block, `Return`. finish is `Finish`, then for each section a
`Checkpoint` and `WriteIndex`, `WriteCheckpoints` or `WriteTail`, and `Close`. `raw_loc` and
`compressed_loc` are the counters of the code; `received`, `devLen`, `streams`, `members` and
`layout` are not in the code and record what really went in and came out. The client stops
at the first error, as those in `scar-bin` do. That flate2 may still put out the rest of a stream when
its encoder is dropped after a failure is not modelled: the archive is broken by then.

### RustRoundTrip

After the writer's actions come those of a reader: `CreateReader` (`ScarReader::new` with
`guess_decompressor`, or `with_decompressor`, up to the checkpoints), `Index`, `NextItem`, `NextRefuses` and
`NextEnds` (next, by what the line is), `ReadItem`, `NextHeader` and `ReadContent`. Unlike in the C library the whole of
each is one action: one thread runs, and a call that fails leaves nothing behind but the cursor. Any seek and read
may fail: `CreateReader` then makes no reader, index or next returns an error (`IteratorFails`) or, when the buffer
fails at the beginning of a line, the end (`NextEndsOnError`, `read.rs:269`), and an item is dropped by its
client (`ReadFails`). read_checkpoints takes such an error for its end too; `Known` lets every read_item choose how many of
the checkpoints it knows, which the code settles once, when the reader is created. `Guessed` and
`TailSeen` compute which bytes of the file the code looks at, in cells: `GuessLen` for 128 bytes, `Window`
for 512. `pos` is the shared cursor and `hi` what a buffer or a decompressor has of the file, as in `ScarReader`. An
item is a PaxReader that continues on the decompressor `ReadItem` made, `dc`. Index and next may be called between
read_item, next_header and read_content: they leave the item alone but move the cursor under its decompressor, which
does not seek, so that its next input may have a gap (`got.bad`); `disturbed` is not in the code and says that this may have been so.
A client holds one item at a time, reads the whole of its content and stops iterating at an error, as those in `scar-bin`
do. `CheckpointFor` scans the checkpoints, of which `finish` lists two more than the C writer. A line of global metadata makes
the iterator fail (`NextRefuses`), for the reason finding 14 gives, and so may one longer than 16 KiB (`LineLimit`).

### CmdCreate

`stack` is the C stack of `create_entry` and `create_directory_entry`, one frame
per entry with the rest of its listing; `Return` is the return of `create_entry`
into either of its callers, with the `goto exit` of `create_directory_entry` as it
is in the code. stat, open, listing and reading may fail at any point
(`SysFaults`, `Faults`). The name of a node is the node itself, so that the order
of entries can be compared with the tree. `Below` is what a directory holds, at any depth:
the least set that has the directory and the children of what it has, which needs no recursion.

### ScarReader

The archive is a constant of a behaviour: its streams, checkpoint lines, index
lines and members, of the form `ArchiveOK` (`ArchiveForm`) demands. That both writers'
archives have that form is the property `WellFormed` of `ScarRoundTrip` and of `RustWriter`. `pos` is the cursor of the file. A buffered reader is
represented by `hi`, the position up to which its buffers hold the file: a refill
with the cursor elsewhere makes its data wrong (`bad`). How much a refill fetches
is exact for the block reader on a plain archive and any number of chunks up to
`MaxRefills` for inflate. A client may call the operations of any iterator and
read_meta in any order, and read_content under the protocol `scar-reader.h` asks
for. A g line of the index goes back to the label `start`, as in the code.

### ScarRoundTrip

`Written` puts the archive together from what the writer recorded, the section
positions from the *tail*, the entry positions from the *index* and the streams
from the *output*, so that a wrong offset in the writer becomes a reader that
misses. Before there is an archive, `CreateReader` and `FindTail` look for the tail as
the code does, backwards from the end-of-file marker through the last 512 bytes
(`Window` cells). Where a section or a stream begins there is the compressor's magic;
anywhere else in compressed data there may be by accident (`Magic`). What is found
there is no tail unless it begins with the tail's heading (`ParseTail`).

### Glob and CmdRead

A name and a pattern are sequences of characters, and a regular expression is the
set of its alternatives, each a sequence of characters and repetitions; `Accepts` is
what PCRE2 does with one. The properties do not use any of these: they compare what a
command puts out with `Names`, `Ancestors` and `IsParent`, the tree that the names of
an archive form.

`step` is where a command is and `pass` the number of the pattern it is at; each
pattern has an iterator of its own (`Handles`), as in the code, where the one before it is not
freed. The actions call those of `ScarReader`: `CallNext` is a call of next,
`CallReadMeta` and `CallReadContent` are `cat_entry`. What can fail fails at any point:
`NextFails` is a next that returns -1; `NextEndsOnError` is a refill that fails right at
the end of a line, which next takes for the end of the index; `ReadMetaFailed` is
a member that cannot be read, after which `cat` goes on and may exit with 0. `prev` is `prev_root` of
`ls` without arguments.

`out` has every member a command took up, and whether it was put out whole (`whole`): one that `cat` could
not read is there with FALSE. Two variables are not in the code and record why something is missing:
`cut` has the passes that `NextEndsOnError` ended, and `unreadable` the members of which a read failed
although what it was to read is in the stream it was made from (`Note`). `StatusTells` is about these: exit status 0 does *not*
mean that everything was put out. It means that every pass but those in `cut` took up all the members it should;
and whatever was taken up is whole or in `unreadable`, so that a failure for one member never costs another.

### FieldLength

One action is one round of the loop of `log10_ceil`, or what follows one of its two
calls: `Guess`, the length without the number (an index line or a pax record of the C writer, a line
of the Rust one, whose pax records are summed as in C); `Correct`, the one digit more that
the number may need. `pows` is not in the code: it holds the powers of ten, so that
the number of digits of a number can be stated, and proved, without a recursive operator.

### PaxFormat and CmdConvert

`struct scar_meta` is a function whose domain is the set of the fields that are not
missing, so that records, global records and the header are laid over one another (`Over`). A text is
an identity and a length, and `Width` stands for the 32 or 100 bytes of its field; a
number field has `Digits` digits of base `Base`. What `snprintf` cuts off is cut off
here (`TextField`, `Leading`), and a time becomes a record through what
`pax_write_time` does to its fraction and, before 1970, to its seconds (`WrittenTime`, with hundredths of a second).
A record is a key and a value. Reading it changes one kind of value, a time before 1970 without a fraction, which loses its
sign (`SignLost`, `pax-syntax.c:39`), and is an error if there is no value or the key has 63 characters or more
(`Parsable`). That parse_time also takes what is no number (`pax-syntax.c:28`, where `&&` should be `||`) is left out: the values of
times and numbers are well-formed, and a time with a fraction of zero is not spelled with one.

The input is a sequence of cells, of which only the first `avail` are there.
`ReadMeta` is `scar_pax_read_meta` up to its loop, each of `ReadName`,
`ReadExtended` and `ReadGlobal` is one turn of the loop including the read of the
next header, `TakeHeader` is what follows it; `WriteEntry` and `CopyBlock` are the
writer's call, of which `ScarWriter` has the inside. `Fault` is a read that is short or a write that returns an error, at any
point; `ShortWrite` is a write of a compressor that is short, which `gzip.c:44` does not notice: convert goes on, and may
finish and exit with 0. `out` is what the output was given; of an archive with a short write (`faulted`) nothing
is claimed. `Meaning` is the reference: it
goes through the objects of a tar by the rules of the standard, and is used both for what
went in and for what came out. What is done for one object or one record after another is
a recursive function (`Parse`, `Records`, `Flat`, `Interpretation`), so that it can be
reasoned about.

## Runs

| Run | Instance | What it shows |
|---|---|---|
| `writer_gzip` | three kinds of entry (empty, partial last block, extended header with padding), three entries, failing outputs and contents | types; index, checkpoint and tail offsets; alignment; nothing is lost when finish returns 0; the writer implements `ScarArchive` |
| `create_system` | seven nodes, three arguments, a directory in a directory, every system call may fail | order and grouping, exit status, termination |
| `create_content` | the same tree, with contents that end early or an output that takes part of a write | two findings: `SealedIntact` is violated, by either fault alone |
| `reader` | two iterators, three archives (gzip with three streams, plain, and one with a g line within one buffer) | no call disturbs another; the right bytes; the nearest checkpoint |
| `roundtrip_gzip` | two entries, each with or without an extended header, one iterator, every accidental magic | the tail is found; the archive has the form the reader relies on; what was acknowledged is listed and read back, with a skip within the limit |
| `convert` | every sequence of up to three groups out of nine (members with one header or several, global headers), cut at every cell, with reads and writes that fail or are short | the pax reader returns what the format says, the archive holds it unless a write was short, truncation is noticed, the index names the members, no complete tar is refused, the command ends |
| `convert_lossy` | one tar with a group for each: a name split into prefix and name, one as long as its field, a large group number, a time of 12 digits, one with a fraction below a tenth, one before 1970, a global header between another and its member, and one after the last member | seven findings: `ConvertPreserves` is violated, by each group alone |
| `list` | four commands, with no pattern, one of seven or two; five members, a gzip and a plain archive that may become unreadable at any point | what is taken up and in which order, what may be missing with which exit status, contents written by `cat`, termination |
| `list_lossy` | a file whose name begins with that of the file before it, under `ls`; a g line of the index that crosses a buffer, under `tree` | two findings: `StatusTells` is violated, by either alone |
| `rust_roundtrip` | the gzip compressor, two kinds of entry (a directory; an extended header and a content of two blocks) and global metadata, two calls, failing outputs and contents; then an iterator and items on the archive in any order, with reads that fail in both | index and tail, distance to the last checkpoint in compressed data, form of the archive; what is listed and read back is what was written, but for an item during which the iterator moved the cursor |
| `rust_lossy` | the same | three findings: `Readable` is violated, by each alone |
| `field_length` | lengths around every carry up to five digits, for index lines and for pax records | the number before a line is the length of that line |

There is no round trip with the plain compressor: the writer's theorems hold for both,
and `reader` and `list` read plain archives.

Bounds. `Block = 2` is the smallest block that can be partly filled, so that both
padding and a partial last block exist. `Limit` is smaller than two entries, so
that some entries need a checkpoint and some do not; `Limit = 5` in `roundtrip_gzip`
makes the skip to a member without one of its own more than zero. `MaxEmit` allows compressors that emit nothing
until they are flushed and ones that emit at once, in every combination.
`MaxEntries` bounds the archive; what happens to an entry depends on earlier ones
only through the counters and the last checkpoint, and the theorems below hold for
any number of entries. In the reader, `BlockCap` and `ChunkCap` are smaller than
an index line, so that lines straddle buffers; two iterators are enough because
they interact only through the cursor. `Window = 3` is the smallest that holds any tail
section of `MaxEmit = 2` cells next to the end-of-file marker, which `WindowAssumption` asks
for: the real ones are 512 bytes and some 60. In `list` the names have two levels of
directories and one name that goes on where another ends (`d` and `db`); the patterns are a
file, a directory with and without its slash, and `*` and `**` at both levels; one refill per
call is enough, since `reader` has up to two. In `field_length` the lengths are those of lines just
before, at and after each power of ten. In `convert`, `Width = 2`, `Base = 2` and
`Digits = 2` make texts and numbers that need a record as small as can be; three
groups are enough for a global header, a member it holds for, and one that must not
inherit from that member. The tars of `convert` leave out what the code is known
to treat differently: the groups of `convert_lossy`, that is findings 4 to 10 and a global
header between an extended header and its member (`pax.c:245`), and what is an error though it need not be, a record
without a value (`pax-syntax.c:138`) and a key of 63 characters (`pax-syntax.c:133`). No time in them
is before 1970: one with a fraction is read as it is, which the proofs cover, and written as something else.

In `rust_roundtrip`, `Interval = 2` is less than the compressed length an entry can have and more
than that of a stream that holds nothing, so that checkpoints come before some calls and not
others, and `MaxEmit = 1` is enough for a block that stays in the compressor, one that
comes out at once and one that comes out with a later one. Two calls give an item reached from the start and one
reached from a checkpoint; for more the writer's properties are proved. `Window = 8` lies among the lengths of
the archives, some of which are longer, and so does twice `GuessLen = 3`. `LineLimit = 1` is less than the header of one kind of
entry and that of the other is no more. One iterator is enough, because iterators and items interact only through the cursor, which
both move at every point.

Deadlock is not checked: a writer that failed or finished, and a command that
exited, have stopped for good.

Fairness is assumed for the commands, `CmdSpec` of `CmdCreate` and of `CmdRead` and
`Spec` of `CmdConvert`, for their liveness properties `Terminates`: weak fairness of the next step of a
single-threaded program that never waits for anything. The client of the writer or of the reader is under no
obligation, so their specifications have none.

## Proofs

`ScarWriterProofs` proves, for every set of entries, block size, limit, number of
entries, compressor and set of faults that the assumptions of `ScarWriter` allow:

| Theorem | Property |
|---|---|
| `TypeCorrect` | `TypeOK` |
| `CountsCorrect` | `CountsExact` |
| `SortedCorrect` | `CheckpointsSorted` |
| `CheckpointsCorrect` | `CheckpointsSound` |
| `CheckpointsUsableCorrect` | `CheckpointsUsable`, which is `CheckpointsSound`, `CheckpointsSorted` and `CheckpointsBeforeHeaders` |
| `SeekBoundedCorrect` | `SeekBounded` |
| `IndexCorrect` | `IndexSound` |
| `BeforeHeadersCorrect` | `CheckpointsBeforeHeaders` |
| `TailCorrect` | `TailSound` |
| `NothingLostCorrect` | `NothingLost`, when outputs never take part of a write |

None of these is inductive by itself. The argument is a tower of invariants, each
proved from the ones before it:

1. `TypeInv` is `TypeOK` in the form the provers like, with the requirement that
   a call which writes entries has one to write.
2. `Counts`: `ucount` is the length of the tar stream, and `ccount` that of the
   output as long as the compressor writes it. It holds while no call has failed:
   a failed gzip write leaves bytes on one side of a counter.
3. `CkBounds`: the last checkpoint is at `lastCk`, never beyond the counters; the
   compressed streams and the checkpoint lines correspond; offsets increase. This
   gives `CheckpointsSound`, `CheckpointsSorted` and, with the limit check in
   `WriteEntry`, `SeekBounded`.
4. `IdxInv`: the index lines are numbered like the entries, the pieces of the tar
   stream carry nondecreasing entry numbers, each line is placed at the first piece
   of its entry, and the last line, while its entry has not reached the
   compressor, at the end of the stream. This gives `IndexSound` and
   `CheckpointsBeforeHeaders`.
5. `TailInv`: during finish, what the tail will say and what the layout says are
   the same and the output's end is where the next section begins. This gives
   `TailSound`.

The assumption of `NothingLostCorrect` is necessary: `create_content` has a
counterexample without it.

`ScarWriterProofs` also proves `BlockAlignedCorrect` (`BlockAligned`), from the assumption
`Gzip \/ "short" \notin Faults`: the result of the write that pads an entry is only
compared with 0 (`pax.c:564`), so a plain archive on an output that takes part of it ends
off a block and the next entry begins there. Its invariant `AInv` says that while an entry's writes are under way
those still to do lead to the end of a block, and that index lines point at the beginning of one. That
is about the sum of a sequence, which would be a recursion; `Reaches` states it by the positions
the writes pass through, one function from the sequence's indices, which is
cut off at its head when a write is made and put together where the groups of writes of an entry
meet.

Its last theorem is `ImplementsArchive`: the writer implements `ScarArchive`
for every value of the constants with `"short" \notin Faults` and `StopOnError`. Both
are necessary: an output that takes part of a write leaves entries cut that were
acknowledged, and a client that goes on after an error adds members to an archive that is
broken. On top of the tower above it needs `RInv`: the acknowledged entries are the first
ones in order (`Acknowledged`); the pieces of the tar stream lie behind one another
(`PiecesApart`); every acknowledged entry is in the stream as the very sequence of writes
the pax writer makes for it, and as nothing else (`Stored`); and the entry that is being
written is there up to what is still to do (`Writing`). Each step is then shown to be an
addition, a sealing, a breaking, or a stutter.

`FieldLengthProofs` proves `LengthsSelfDescribing`, `SelfDescribing` for every length of
the text of a line. The guess of the number of digits is corrected once and by at most
one, which is enough because adding the digits of a number to it carries over at most one
power of ten: `IInv` says that `num` is what remains after `lg` divisions, so that
`pows` bounds the number, and that the guess is exact for the line without its number.

`ScarReaderProofs` proves the properties of `ScarReader`, for every set of archives
with `ArchivesAssumption` (each is `ArchiveOK`), every size of the buffers, any number of refills a call and any number of
iterators, with reads that fail or do not:

| Theorem | Property |
|---|---|
| `ReaderTypeCorrect` | `TypeOK` |
| `MetaTheorem` | `MetaCorrect` |
| `ContentTheorem` | `ContentCorrect` |
| `ReachesTheorem` | `ReachesHeaders` |
| `NearestTheorem` | `NearestCheckpoint` |
| `IteratorsTheorem` | `IteratorsFaithful`, on indexes without g lines |

`TypeInv` adds to `TypeOK` that only one call runs at a time (`OneCall`). `ReadInv` is for the
decompressor: while a seek runs, what it still skips ends at the member and the cursor is where the
decompressor's input ends (`Seeking`); after read_meta the same holds at the content
(`HaveMeta`); the content delivered last is the right one. `ArchiveOK` gives the step from the scan of the
checkpoints to this: the chosen line is a stream's start, and the member ends
before the next. `IterInv` is for the iterators: between two calls each one's `next_offset` is
where its buffers end, so that the seek in next undoes whatever the others did to the
cursor. `NoGlobals` is necessary: `list_lossy` is a counterexample without it.

`RustProofs` proves all four properties the runs check of `RustWriter`, for every interval, set of entries and
of global metadata, compressor and set of faults: `RustTypeCorrect` (`TypeOK`),
`RustIndexTheorem` (`IndexSound`), `RustSpacingTheorem` (`SpacingBounded`) and
`RustWellFormedTheorem` (`WellFormed`). With the last one the assumption of the reader's
theorems is discharged for every archive that writer finishes. The invariant is one
conjunction, `IInv`, because the parts need each other: the counters are the lengths
(`Counts`); streams and checkpoints correspond (`Streamed`) and increase (`Ordered`); during
finish each section's checkpoint lies beyond the one before (`Advanced`); members lie behind one another (`Apart`)
and never across a checkpoint (`Placed`); the lines of the index
are the members' (`Indexed`); every member is near a checkpoint, and the one that is to be
written will be (`Spaced`); the tail says what the layout says (`Located`).

`ScarRoundTripProofs` proves the properties of `ScarRoundTrip`, for every set of entries, block
size, limit and compressor, every window of the tail search and every size of the reader's buffers:

| Theorem | Property | Besides `"short" \notin Faults` |
|---|---|---|
| `TailFoundTheorem` | `TailFound` | |
| `RoundTripWellFormed` | `WellFormed` | |
| `ReadBackTheorem` | `ReadBack` | `StopOnError` |

An output that takes part of a write can keep nothing of a stream or of the tail and the writer goes
on, so that streams need not lie apart and the tail may not be there to be found. A client that
goes on after an error leaves a line in the index for an entry that was not acknowledged, and the reader
lists it. `RTInv` has three parts. `WInv`, for the writer, is the tower of
`ScarWriterProofs` with three more: compressed streams are not empty and lie behind one
another (`StreamsApart`), no checkpoint lies between the offset of an entry and the end of one of its pieces
(`CkApart`), and during finish every section has begun before the next, with a tail of at most `MaxEmit` cells
before the marker (`Sections`). `Searching` says that the search is between the tail and
the marker. From the end of the search on the reader is the module `ScarReader` of the instance:
`WrittenOK` shows that what the writer finished is `ArchiveOK`, which discharges the assumption of
`ScarReaderProofs`, and its lemmas are cited through the instance (`ReaderKeeps`). That iterators list the acknowledged
entries is then `IteratorsFaithful` with `Acknowledged` of `ScarWriterProofs`. `Max` of a
set, by which the ends of headers and contents are written, has its meaning from the
well-foundedness of the natural numbers (`MaxFacts`).

`RustProofs` also proves `RustReadBackTheorem`: `ReadBack` for every archive the Rust
writer finishes, every window and block of the tail search, every buffer size, number of refills and number of
iterators. On top of `IInv`, `RTInv` says that a reader only exists on
a finished archive (`Opened`; the writer does not move then: `DoneStays`); that an iterator's `seek_pos` is where its buffers end and it has
yielded the calls before its line, and what it means that it ended or failed (`Iterates`); and that while an item is read its decompressor
is at the part that comes next, with the cursor where its input ends unless an iterator was called since read_item (`Reading`).
That the archive can be opened is not part of `ReadBack`: findings 12 and 13 say when it cannot. That
a decompressor created at a checkpoint delivers the tar stream from there is `DecompressorFacts`: streams and
checkpoints correspond and lie apart. `Min` of a set, by which the scans are
written, has its meaning from the well-foundedness of the natural numbers (`MinFacts`).

`CmdReadProofs` proves the safety properties of `CmdRead`, for every set of archives, names and
command lines, and whatever cannot be read:

| Theorem | Property | Assuming |
|---|---|---|
| `CatTheorem` | `CatContents` | |
| `CmdTypeCorrect` | `CmdTypeOK` | `PlainIndex` |
| `InOrderTheorem` | `InOrder` | `PlainIndex`, `PatternsFaithful`, `TopmostApart` |
| `StatusTheorem` | `StatusTells` | the same |

A step of a command is a step of the reader or leaves it alone (`SimulatesReader`), so the
invariants of `ScarReaderProofs` hold of the reader under a command, and `CatTheorem` is
`ReadInv` where `cat` reads a member (`CatInv`). For the other two the invariant is `PInv`: the
reader's own (`CInv`, with `IterInv`: the members the iterator has yielded are the first ones); what was taken up is in order,
none of it from a later pass, and every earlier pass that is not in `cut` took up all
it should (`OutInv`); the pass at hand has taken up exactly the expected ones of the members before
the place `step` stands for, and none beyond it (`Covers`, `PlaceInv`);
an exit status other than 0 has a cause (`ExitInv`). That a member which is not whole is in `unreadable` rests on
`ReadInv` again: while `cat` reads a member, the stream its decompressor was made for reaches to the end of that member, so a step
that fails had something to read (`AtHand`, `Accounted`, `AccountedStep`). For `ls` without arguments `prev` is the
name of the last topmost entry.

`PlainIndex` is an index as the C writer makes it; with a g line the iterator may lose its place
(`list_lossy`). `PatternsFaithful` is that the regular expressions `rx_build` makes match what
the patterns name. Both sides recurse over patterns and names, and are compared by TLC, which evaluates it as an
assumption of `MCCmdRead`. `TopmostApart` is what finding 11 below violates: without it
`ls` leaves entries out (`list_lossy`). TLC evaluates it for the names of `list`.

`CmdCreateProofs` proves the safety properties of `create_system`, for every tree of files (a
cyclic one too, where nothing else is said), every command line, every compressor, and whatever fails:

| Theorem | Property | Assuming |
|---|---|---|
| `CreateTypeCorrect` | `CmdTypeOK` | |
| `ArgumentsTheorem` | `ArgumentsArchived` | |
| `ParentsFirstTheorem` | `ParentsFirst` | `Forest` |
| `SubtreesTheorem` | `SubtreesContiguous` | `Forest` |

A step of the command is a step of the writer or leaves it alone (`SimulatesWriter`), so `TypeInv` goes
over. For the stack, `StackStep` says that a step of the command does one of five things: frames are dropped
or the last one goes on; it begins its listing; it enters a child; its node is archived; or the next argument begins.
`ArgumentsTheorem` needs where the writer can be while the command has frames (`Calls`) and
that every argument before those left was archived, but for the one whose frame is alone
and has not got to its write_entry; unless the exit status is 1 already (`ArgsInv`).

The order is the invariant `Walk`, which relates the stack, the arguments left and what was archived. The frames go down the
tree, and what each still has to list is apart from where the walk is (`Descends`);
nothing still to come was archived, or is below what was (`Fresh`, `ArgsFresh`); and everything archived since a
directory that a frame is in is below that directory (`Inside`). Appending a node then keeps `ParentsFirst` and
`SubtreesContiguous` (`WalkArchives`). `Forest` says that a node has one parent and one place in its listing,
is not below itself, and that no argument is another one or below it. The first two are what
`fstatat` with `AT_SYMLINK_NOFOLLOW` (`posix.c:63`, `:221`) sees of a file system without hard links to
directories. The last is necessary: `scar create a a/b` archives `a/b` twice, as the code says it should.
TLC evaluates `Forest` for the tree of `MCCmdCreate`.

`CmdConvertProofs` proves the safety properties of `convert`, for every set of tars, cut at any
cell, every size of blocks and fields, and reads and writes that fail or do not:

| Theorem | Property | Assuming of every tar |
|---|---|---|
| `ConvertTypeCorrect` | `TypeOK` | `Complete` |
| `MembersTheorem` | `MembersFaithful` | `Complete` |
| `TruncationTheorem` | `TruncationDetected` | `Complete` |
| `AcceptsTheorem` | `AcceptsComplete` | `Complete` |
| `PreservesTheorem` | `ConvertPreserves` | `Complete`, `Lossless` of its members |
| `IndexNamesTheorem` | `IndexNames` | the same |

`Complete` and `Lossless` say of a tar what was said above of those of `convert`. `Complete`: no name is split, no
global header follows the last member or stands between an extended header and its member, no record is without
a value, has a key of 63 characters or a time before 1970 without a fraction, and every
member has the content its metadata announces. `Lossless`: no field has one of the values that the code is
known not to keep, any time before 1970 among them. The tar of `convert_lossy` is outside of both, and is not preserved. A theorem
on what was written also asks that no write of a compressor was short: `ConvertPreserves` and `IndexNames` say so themselves. TLC evaluates both for the
tars of `convert`, as the assumption `MCTarsAssumption`.

The reader's invariant is `IInv`. It says where `cmd_convert` is in the tar: after `i` whole
objects (`Reading`), with the header of object `i` in its block (`Heading`), with a member taken
(`Writing`), or with `left` cells of its content still to copy (`Copying`). In each place what it knows is
what the standard knows there: `global` is what is in force after those objects and `meta` is
the records that hold for the next member over it. `MeaningFacts` gives the reason why a global header may replace
`meta` as the code does: in a complete tar nothing is left over for the member then. The writer's invariant is
`OutInv`: read by the standard, what was written so far is the members delivered so far, the last
one as far as its content is copied, with nothing left in force after it, and every line of the index
stands where as many members had been written as come before it in the index. `WrittenBack` is the step from
metadata to what is written of it: the fields of the header block under the records, where one
was needed, are the metadata again. `Resumed` is the step from there to the index: a tar body read from where nothing is
in force gives the members from there on.

Both need what the recursive functions compute, for tars, records and streams of any length. The theorems on
induction take an operator, which no prover here can instantiate; `Induction` states it for a set
instead (one that has 0, and with every number the next, has them all), and follows from the
well-foundedness of the natural numbers. From it come the equations of the functions (`ParseSteps`, `RecordsSteps`,
`FlatSteps`, `InterpretationFacts`) and what they compute.

Only model-checked:

- `SealedIntact` of `CmdCreate`, which does not hold (`create_content`);
- `Glob`: `PatternsFaithful`, above;
- liveness (`Terminates` of three commands), which is out of the prover's reach.

## Disagreements found

1. `gzip.c:44` does not notice short writes, and `scar create` on an output that takes part of one
   (a full disk, by `ioutil.c:108`) exits with 0 (`create_content`).
2. `create.c:143` swallows the failure of a directory member, and an archive with
   a truncated entry is sealed with exit status 0 (`create_content`).
3. `scar-reader.c:496` with `:415`: an index with a g line is not read correctly
   when the line crosses a buffer (`list_lossy`). The C writer never produces such a line,
   and nothing in `scar-bin` calls the Rust one's `add_global_meta`; the README of the
   format allows it.
4. `pax.c:270`: the prefix of a name ends up in the link target (`convert_lossy`).
5. `pax.c:417`: the fraction of a time loses its leading zeros (`convert_lossy`).
6. `pax.c:255`: zero blocks after a global header are taken for an entry
   (`convert_lossy`).
7. `pax.c:343`: a text as long as its field loses its last byte (`convert_lossy`).
8. `meta.h:67`: whether a group number needs a record depends on the comment (`convert_lossy`).
9. `pax.c:511`: a modification time of 12 octal digits gets no record, and its field loses one (`convert_lossy`).
10. `pax-syntax.c:39`: a time before 1970 without a fraction loses its sign (`convert_lossy`).
11. `ls.c:29`: `ls` without arguments takes an entry whose name begins with that of the
   entry printed before it for one below it, and leaves it out (`list_lossy`).
12. `read.rs:66`: the Rust reader looks for the tail from byte 512 of the file instead of from 512 bytes
   before its end, and cannot open longer archives but by accident (`rust_lossy`).
13. `compression/mod.rs:48`: the compression of a file of 128 to 255 bytes cannot be guessed
   (`rust_lossy`).
14. `write.rs:187`: the number before a line of global metadata is one too large, and the Rust
   iterator cannot read the line after it (`rust_lossy`).

Runs with several findings stop at the first violation. The others were seen by removing the cause of
the first from the instance: `Faults` in `create_content`; groups of `LossyTars` in `convert_lossy`; in `rust_lossy` `Globals = {}`
for finding 14, a large `Window` for 12, and a `GuessLen` beyond every archive for 13. With all three removed `Readable` holds.

Met while modelling, and in no run, or in a run only as a behaviour that its properties
exclude by name:

- `scar-reader.c:411`: a refill that fails right at the end of a line is the end of the
  index for the iterator; the command goes on and exits with 0 (`NextEndsOnError`, for
  which `StatusTells` excepts the pass, `cut`).
- `cat.c:52`: a member that cannot be read is passed over and the exit status may be 0 (`ReadMetaFailed`, for which
  `StatusTells` excepts that member, `unreadable`).
- `pax.c:245`: a global header between an extended header and its member replaces what the extended header said
  (`convert_lossy`).
- `pax.c:436`: the full seconds of a time before 1970 are written as one character (`WrittenTime`).
- `pax-syntax.c:28`: a character that is no digit is taken for one in a time.
- `scar-reader.c:415`: next ignores the result of its seek.
- `scar-reader.c:172`: the decompressor is destroyed before a seek that may fail, and
  its pointer kept.
- `extract.c`: the command prints the names it would extract; `main.c:22` says that it
  extracts.
- `ls.c`, `cat.c`: the iterator of the pattern before is not freed.
- `rx.c:52`: an empty pattern reads the byte before its buffer; `CommandsAssumption`
  excludes it.
- `write.rs:105`: `add_global_meta` makes an index line for empty metadata too; README.md says of
  the format that it must not.
- `write.rs:129`: the checkpoints section lists the checkpoints before the index and before itself as well; README.md:109
  says that it should not. The scan of either reader is not disturbed by them.
- `read.rs:142`, `read.rs:273`: the headings of the next section are compared with what one buffer holds, which may be
  the beginning of one.
- `read.rs:269`: an error of the iterator's buffer is taken for the end of the index (`NextEndsOnError`, for which
  `ReadBack` excepts the iterator), and one in read_checkpoints for the end of the checkpoints (`Known`).
- `read.rs:336`: after a g line next seeks back to where the line before it ended, as `scar-reader.c:496` does.
- `main.c:172`: the result of the last fclose, which may be the write that fails, is not
  looked at.

## Not modelled

- Of the Rust library: what the fields of its pax codec hold, the global metadata an item carries, two items held at the
  same time, its xz and zstd codecs. They are of the same format as the C ones, whose specifications are the ones here with
  other control.
- The tools of `scar-bin`: clients of the library like the C commands, without the tree walk of `CmdCreate`'s
  error paths (every error ends them). Their table of hard links (`platform/unix.rs`) is what to add next.
- The lifetime of the decompressor after a seek that failed, and of iterators: the
  models have no memory.
- Failures of allocation, and `mem_writer_grow` after one (`ioutil.c:213`).
- `scar_io_vprintf`, which uses one va_list twice (`ioutil.c:41`): formatting is abstracted.
- The options of `main`, the printing itself, the text of index lines and numbers, the
  Windows stub, and the inside of deflate and of PCRE2.
