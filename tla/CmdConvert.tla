----------------------------- MODULE CmdConvert -----------------------------
(***************************************************************************)
(* scar convert (scar-c/cmd/scar/subcmds/convert.c): read the entries of a *)
(* tar stream with scar_pax_read_meta, write each with                     *)
(* scar_writer_write_entry, whose content is read from the same input, and *)
(* finish at the end marker.  The writer is represented by the objects it  *)
(* writes and the lines of its index; ScarWriter has its inside.           *)
(***************************************************************************)
EXTENDS PaxFormat

CONSTANTS
    Tars,       \* inputs: sequences of objects
    ZeroBlocks, \* zero blocks after the last object, two of them required
    Faults      \* TRUE: reads of the input may fail, and writes fail or be short

ASSUME ZeroBlocksAssumption == ZeroBlocks \in Nat \ {0, 1}
ASSUME FaultsAssumption == Faults \in BOOLEAN

VARIABLES
    tar,       \* the objects of the input
    avail,     \* cells of the input there are: a truncated tar has fewer
    pos,       \* cells of the input read
    pc,        \* where cmd_convert is
    global,    \* global
    meta,      \* meta
    block,     \* the header block scar_pax_read_meta holds
    left,      \* cells of content still to copy
    out,       \* the objects of the tar body, as the output was given them
    index,     \* the lines of its index
    delivered, \* the metadata scar_pax_read_meta returned, entry by entry
    faulted    \* a read or a write has failed, or was short

vars == <<tar, avail, pos, pc, global, meta, block, left, out, index, delivered, faulted>>

Flat(objects) ==
    LET cells[n \in 0..Len(objects)] ==
            IF n = 0 THEN << >> ELSE cells[n - 1] \o Cells(objects[n])
    IN  cells
FlatCells(objects) == Flat(objects)[Len(objects)]
Stream == [t \in Tars |-> FlatCells(t) \o Zeros(Block * ZeroBlocks)]
Members == [t \in Tars |-> Meaning(t)]

Init ==
    /\ tar \in Tars
    /\ avail \in 0..Len(Stream[tar])
    /\ pos = 0
    /\ pc = "read"
    /\ global = NoMeta
    /\ meta = NoMeta
    /\ block = ZeroHeader
    /\ left = 0
    /\ out = << >>
    /\ index = << >>
    /\ delivered = << >>
    /\ faulted = FALSE

(***************************************************************************)
(* Reading the input                                                       *)
(***************************************************************************)
Least(a, b) == IF a < b THEN a ELSE b
Has(n) == pos + n <= avail
Payload(n) == SubSeq(Stream[tar], pos + 1, pos + n)

\* The block of which the cell at p is the first.
IsZero(p) == \A i \in 1..Block : Stream[tar][p + i] = Zero
HeaderAt(p) ==
    LET c == Stream[tar][p + 1] IN
    IF IsZero(p) THEN ZeroHeader
    ELSE IF c.k = "head" THEN [type |-> c.type, fields |-> c.fields]
    ELSE [type |-> "?", fields |-> ZeroHeader.fields]

(* The command exits with status 1, after a fault or on what it has read.  *)
Fail ==
    /\ pc' = "failed"
    /\ UNCHANGED <<tar, avail, pos, global, meta, block, left, out, index, delivered,
                   faulted>>

(* A read returns less than was asked for, or a write an error.            *)
Fault ==
    /\ Faults
    /\ pc \notin {"done", "failed"}
    /\ pc' = "failed"
    /\ faulted' = TRUE
    /\ UNCHANGED <<tar, avail, pos, global, meta, block, left, out, index, delivered>>

(* What a compressor has to write is written in part.  It only looks for a *)
(* negative result: the rest is missing from the archive, and the command  *)
(* goes on.                                                                *)
ShortWrite ==
    /\ Faults
    /\ pc \in {"write", "content", "finish"}
    /\ faulted' = TRUE
    /\ UNCHANGED <<tar, avail, pos, pc, global, meta, block, left, out, index, delivered>>

\* Mutant: one zero block is the end of the archive.
ReadMetaOneZero ==
    /\ pc = "read"
    /\ Has(Block)
    /\ meta' = global
    /\ block' = HeaderAt(pos)
    /\ pos' = pos + Block
    /\ pc' = IF IsZero(pos) THEN "finish" ELSE "headers"
    /\ UNCHANGED <<tar, avail, global, left, out, index, delivered, faulted>>

(* scar_pax_read_meta up to its loop: meta starts as a copy of global, and *)
(* two zero blocks in the place of a header are the end of the archive.    *)
ReadMeta ==
    /\ pc = "read"
    /\ Has(Block)
    /\ meta' = global
    /\ block' = HeaderAt(pos)
    /\ \/ /\ ~IsZero(pos)
          /\ pos' = pos + Block
          /\ pc' = "headers"
       \/ /\ IsZero(pos) /\ Has(2 * Block)
          /\ pos' = pos + 2 * Block
          /\ pc' = IF IsZero(pos + Block) THEN "finish" ELSE "failed"
    /\ UNCHANGED <<tar, avail, global, left, out, index, delivered, faulted>>

(***************************************************************************)
(* The loop over metadata objects: read the payload of the one in block,   *)
(* to the end of its last block, and then the next header.                 *)
(***************************************************************************)
Size == block.fields["size"]

\* Mutant: the rest of the payload's last block is not read.
HeaderAfterUnaligned(n) ==
    /\ Has(n + Block)
    /\ block' = HeaderAt(pos + n)
    /\ pos' = pos + n + Block

HeaderAfter(n) ==
    /\ Has(Aligned(n) + Block)
    /\ block' = HeaderAt(pos + Aligned(n))
    /\ pos' = pos + Aligned(n) + Block

ReadName(type, key) ==
    /\ pc = "headers" /\ block.type = type
    /\ HeaderAfter(Size)
    /\ meta' = Set(key, IF Size = 0 THEN Empty ELSE Payload(Size)[1].value, meta)
    /\ UNCHANGED <<tar, avail, pc, global, left, out, index, delivered, faulted>>

ReadExtended ==
    /\ pc = "headers" /\ block.type = "x"
    /\ HeaderAfter(Size)
    /\ Parsable(Payload(Size))
    /\ meta' = Parse(meta, Payload(Size))
    /\ UNCHANGED <<tar, avail, pc, global, left, out, index, delivered, faulted>>

\* Mutant: the entry at hand keeps the global metadata from before.
ReadGlobalKeepsMeta ==
    /\ pc = "headers" /\ block.type = "g"
    /\ HeaderAfter(Size)
    /\ Parsable(Payload(Size))
    /\ global' = Parse(global, Payload(Size))
    /\ UNCHANGED <<tar, avail, pc, meta, left, out, index, delivered, faulted>>

(* A global header replaces what meta already holds.                       *)
ReadGlobal ==
    /\ pc = "headers" /\ block.type = "g"
    /\ HeaderAfter(Size)
    /\ Parsable(Payload(Size))
    /\ global' = Parse(global, Payload(Size))
    /\ meta' = global'
    /\ UNCHANGED <<tar, avail, pc, left, out, index, delivered, faulted>>

MetadataTypes == {"L", "K", "x", "g"}

(* Anything else is the header of the entry; it fills in what is missing.  *)
TakeHeader ==
    /\ pc = "headers" /\ block.type \notin MetadataTypes
    /\ FileType(block.type) # "unknown"
    /\ meta' = Set("type", FileType(block.type), Over(meta, ReadFields(block.fields)))
    /\ delivered' = Append(delivered, meta')
    /\ pc' = "write"
    /\ UNCHANGED <<tar, avail, pos, global, block, left, out, index, faulted>>

(* The input ends early, or holds what cannot be read.                     *)
Unreadable ==
    \/ pc = "read" /\ ~Has(IF Has(Block) /\ IsZero(pos) THEN 2 * Block ELSE Block)
    \/ /\ pc = "headers" /\ block.type \in MetadataTypes
       /\ \/ ~Has(Aligned(Size) + Block)
          \/ block.type \in {"x", "g"} /\ ~Parsable(Payload(Size))
    \/ pc = "headers" /\ block.type \notin MetadataTypes /\ FileType(block.type) = "unknown"
    \/ pc = "content" /\ ~Has(Least(left, Block))

\* Mutant: what could not be read is read again.
ReadFailsRetries == Unreadable /\ UNCHANGED vars

ReadFails == Unreadable /\ Fail

(***************************************************************************)
(* scar_writer_write_entry and scar_writer_finish                          *)
(***************************************************************************)
\* Mutant: the index line is made when the extended header is written.
WriteEntryIndexedLate ==
    /\ pc = "write"
    /\ out' = out \o WriteMeta(meta)
    /\ index' = Append(index, [type |-> TypeChar(meta["type"]), at |-> Len(out'),
                               path |-> meta["path"]])
    /\ left' = meta["size"]
    /\ pc' = IF left' = 0 THEN "read" ELSE "content"
    /\ meta' = IF left' = 0 THEN NoMeta ELSE meta
    /\ UNCHANGED <<tar, avail, pos, global, block, delivered, faulted>>

(* The index line and the headers of the entry.  An entry without content  *)
(* is complete, and cmd_convert destroys meta.                             *)
WriteEntry ==
    /\ pc = "write"
    /\ index' = Append(index, [type |-> TypeChar(meta["type"]), at |-> Len(out) + 1,
                               path |-> meta["path"]])
    /\ out' = out \o WriteMeta(meta)
    /\ left' = meta["size"]
    /\ pc' = IF left' = 0 THEN "read" ELSE "content"
    /\ meta' = IF left' = 0 THEN NoMeta ELSE meta
    /\ UNCHANGED <<tar, avail, pos, global, block, delivered, faulted>>

\* Mutant: the last block of a content is taken to be there as a whole.
CopyBlockUnbounded ==
    /\ pc = "content"
    /\ LET n == Least(left, Block) IN
        /\ Has(n)
        /\ out' = [out EXCEPT ![Len(out)].payload = @ \o Payload(n)]
        /\ pos' = pos + Block
        /\ left' = left - n
    /\ pc' = IF left' = 0 THEN "read" ELSE "content"
    /\ meta' = IF left' = 0 THEN NoMeta ELSE meta
    /\ UNCHANGED <<tar, avail, global, block, index, delivered, faulted>>

(* scar_pax_write_content: one block of content.  The last one only needs  *)
(* to be there as far as the content goes, and its rest is zeroed.         *)
CopyBlock ==
    /\ pc = "content"
    /\ LET n == Least(left, Block) IN
        /\ Has(n)
        /\ out' = [out EXCEPT ![Len(out)].payload = @ \o Payload(n)]
        /\ pos' = Least(pos + Block, avail)
        /\ left' = left - n
    /\ pc' = IF left' = 0 THEN "read" ELSE "content"
    /\ meta' = IF left' = 0 THEN NoMeta ELSE meta
    /\ UNCHANGED <<tar, avail, global, block, index, delivered, faulted>>

Finish ==
    /\ pc = "finish"
    /\ pc' = "done"
    /\ UNCHANGED <<tar, avail, pos, global, meta, block, left, out, index, delivered,
                   faulted>>

Step ==
    \/ ReadMeta
    \/ ReadName("L", "path")
    \/ ReadName("K", "linkpath")
    \/ ReadExtended
    \/ ReadGlobal
    \/ TakeHeader
    \/ WriteEntry
    \/ CopyBlock
    \/ Finish
    \/ ReadFails

Next == Step \/ Fault \/ ShortWrite

Spec == Init /\ [][Next]_vars /\ WF_vars(Step)

(***************************************************************************)
(* Properties                                                              *)
(***************************************************************************)
IsSequence(s) == Len(s) \in Nat /\ s = [i \in 1..Len(s) |-> s[i]]

(* A tar as the standard has it, and as the reader takes it: metadata      *)
(* objects say how long they are and have records that can be parsed, none *)
(* of them a time before 1970 without a fraction; a global header is not   *)
(* between another one and its member; no name is split; the last object   *)
(* is a member, and each has the content its metadata announces.           *)
Readable(o) ==
    /\ o = [type |-> o.type, fields |-> o.fields, payload |-> o.payload]
    /\ IsSequence(o.payload)
    /\ IF o.type \in MetadataTypes
       THEN /\ o.fields["size"] = Len(o.payload)
            /\ IF o.type \in {"x", "g"}
               THEN Parsable(o.payload) /\ \A i \in 1..Len(o.payload) : ~SignLost(o.payload[i])
               ELSE o.payload # << >>
       ELSE /\ FileType(o.type) # "unknown"
            /\ BlockFields \subseteq DOMAIN o.fields /\ o.fields["prefix"] = Empty
Complete(t) ==
    /\ IsSequence(t)
    /\ \A i \in 1..Len(t) :
         /\ Readable(t[i])
         /\ t[i].type = "g" /\ i > 1 => t[i - 1].type \notin MetadataTypes \ {"g"}
         /\ i = Len(t) => t[i].type \notin MetadataTypes
    /\ \A i \in 1..Len(Meaning(t)) : Meaning(t)[i].meta["size"] = Len(Meaning(t)[i].content)

(* The metadata the writer is known to write as it is: what remains is     *)
(* listed in the README.                                                   *)
Lossless(m) ==
    /\ \A key \in TextFields \cap DOMAIN m : m[key].len \in Nat \ {Width}
    /\ \A key \in NumberFields : m[key] \in Nat
    /\ m["gid"] <= Limit \/ "comment" \in DOMAIN m
    /\ \A key \in PlainFields : m[key] \in 0..Limit
    /\ \A key \in TimeKeys \cap DOMAIN m :
         m[key] \in Nat /\ (m[key] % Ticks = 0 \/ 10 * (m[key] % Ticks) >= Ticks)
    /\ m["mtime"] % Ticks = 0 => m["mtime"] \notin Ticks * Limit + 1..Ticks * MtimeLimit

(* The state is of the kind the code means, and no read is beyond the end. *)
TypeOK ==
    /\ avail \in 0..Len(Stream[tar]) /\ pos \in 0..avail /\ left \in Nat
    /\ pc \in {"read", "headers", "write", "content", "finish", "done", "failed"}
    /\ DOMAIN global \subseteq RecordKeys /\ DOMAIN meta \subseteq MetaKeys
    /\ pc \in {"write", "content"} => HeaderKeys \cup {"type"} \subseteq DOMAIN meta
    /\ block = [type |-> block.type, fields |-> block.fields] /\ faulted \in BOOLEAN
    /\ Len(index) <= Len(out)

(* scar_pax_read_meta returns the members of the tar, in order, each with  *)
(* the metadata the pax format gives it: its own records, then the global  *)
(* ones in force, then its header; whatever headers, names and contents    *)
(* came before it.                                                         *)
MembersFaithful ==
    /\ Len(delivered) <= Len(Members[tar])
    /\ \A i \in 1..Len(delivered) : delivered[i] = Members[tar][i].meta

(* An archive that convert finished holds the members of the tar, unless a *)
(* compressor's write was short: the same metadata and the same content,   *)
(* though global records became extended headers and names moved between   *)
(* fields and records.                                                     *)
ConvertPreserves == pc = "done" /\ ~faulted => Meaning(out) = Members[tar]

(* Convert never calls a tar converted whose end it did not see: one cut   *)
(* anywhere before the end of the second zero block is refused.            *)
TruncationDetected ==
    pc \in {"finish", "done"} => pos >= Len(FlatCells(tar)) + 2 * Block

(* Each line of the index names its member: reading the tar body from the  *)
(* offset it gives finds that member, its type and its path, unless a      *)
(* compressor's write was short.                                           *)
IndexNames ==
    pc = "done" /\ ~faulted =>
        \A i \in 1..Len(index) :
            LET m == Meaning(SubSeq(out, index[i].at, Len(out))) IN
            /\ m[1] = Meaning(out)[i]
            /\ m[1].meta["type"] = FileType(index[i].type)
            /\ m[1].meta["path"] = index[i].path

(* A tar that is complete is refused only after a read or a write failed   *)
(* or was short.                                                           *)
AcceptsComplete ==
    pc = "failed" => faulted \/ avail < Len(FlatCells(tar)) + 2 * Block

(* The command exits, whatever the tar holds and wherever it ends.         *)
Terminates == <>(pc \in {"done", "failed"})
=============================================================================
