----------------------------- MODULE RustWriter -----------------------------
(***************************************************************************)
(* ScarWriter of the Rust library (scar-rs/scar/src/write.rs) with the     *)
(* writes of pax.rs, its compressors and the two counters that TrackedWrite *)
(* keeps: raw_loc above the compressor, compressed_loc below it.  Unlike   *)
(* the C writer it sends the sections through the same compressor as the   *)
(* body, each from a checkpoint of its own, and spaces the checkpoints by  *)
(* compressed length.                                                      *)
(*                                                                         *)
(* A 512-byte block is one cell of the raw stream and a line is one cell.  *)
(* A client stops at the first error, as every caller in scar-bin does.    *)
(***************************************************************************)
EXTENDS ArchiveForm

CONSTANTS
    Metas,       \* entries a client may add: [pax: Nat, size: Nat], in blocks
    Globals,     \* global metadata a client may add: lengths in blocks
    Interval,    \* checkpoint_interval, in cells of the output
    Gzip,        \* TRUE: gzip compressor; FALSE: plain
    MaxEmit,     \* bound: most cells the output of one write takes up
    MaxEntries,  \* bound: entries and global metadata per archive
    Faults       \* "error": the output fails; "source": a content ends early

ASSUME MetasAssumption == \A m \in Metas : m \in [pax : Nat, size : Nat]
ASSUME GlobalsAssumption == Globals \subseteq Nat
ASSUME IntervalAssumption == Interval \in Nat
ASSUME GzipAssumption == Gzip \in BOOLEAN
ASSUME MaxEmitAssumption == MaxEmit \in Nat \ {0}
ASSUME MaxEntriesAssumption == MaxEntries \in Nat
ASSUME FaultsAssumption == Faults \subseteq {"error", "source"}

VARIABLES
    pc,              \* where the running call is; "ready" between two calls
    calls,           \* whether each add_... call so far is of global metadata
    left,            \* blocks the running call still has to write
    loc,             \* the local variable loc of add_global_meta
    raw_loc,         \* count of the TrackedWrite above the compressor
    compressed_loc,  \* count of the TrackedWrite below it
    last_checkpoint, \* last_checkpoint_compressed_loc
    checkpoints,
    scar_index,      \* without the typeflags other than g, and the paths
    tail,            \* the locations finish puts in the tail
    received,        \* cells the compressors have taken in
    held,            \* cells the compressor has yet to put on the output
    devLen,          \* cells on the output
    streams,         \* where each compressor started
    members,         \* where the blocks of each call went in and came out
    layout           \* where on the output the sections start

counters == <<raw_loc, compressed_loc, received, held, devLen>>
vars == <<pc, calls, left, loc, counters, last_checkpoint, checkpoints, scar_index,
          tail, streams, members, layout>>

Idle == [header |-> 0, data |-> 0]
Nowhere == -1     \* a section that has not been written

(* What a call makes the checkpoint it may begin with be followed by.      *)
After == [checkpoint |-> "entry", index_checkpoint |-> "index",
          checkpoints_checkpoint |-> "checkpoints", tail_checkpoint |-> "tail"]

(***************************************************************************)
(* The compressor and its counters.  An outcome says what the compressor   *)
(* then holds back, and what it has put on the output.                     *)
(***************************************************************************)
Written(n) ==
    IF ~Gzip THEN {[held |-> 0, got |-> n]}
    ELSE {o \in [held : 0..(held + MaxEmit), got : 0..(held + MaxEmit)] :
            o.held + o.got \in held..(held + MaxEmit)}

(* flush and finish put out what was held back; the gzip header and        *)
(* trailer make a stream at least a cell long.                             *)
Flushed(least) ==
    IF ~Gzip THEN {[held |-> 0, got |-> 0]}
    ELSE [held : {0}, got : (held + least)..(held + MaxEmit)]

(* Both TrackedWrites count what the writers below them have taken.        *)
Count(o, n) ==
    /\ raw_loc' = raw_loc + n
    /\ compressed_loc' = compressed_loc + o.got
    /\ received' = received + n
    /\ held' = o.held
    /\ devLen' = devLen + o.got

-----------------------------------------------------------------------------
Init ==
    /\ pc = "ready"
    /\ calls = << >>
    /\ left = Idle
    /\ loc = 0
    /\ raw_loc = 0 /\ compressed_loc = 0
    /\ last_checkpoint = 0
    /\ checkpoints = << >>
    /\ scar_index = << >>
    /\ tail = [index |-> Nowhere, checkpoints |-> Nowhere]
    /\ received = 0 /\ held = 0 /\ devLen = 0
    /\ streams = <<[at |-> 0, raw |-> 0]>>
    /\ members = << >>
    /\ layout = [index |-> Nowhere, checkpoints |-> Nowhere, tail |-> Nowhere,
                 eof |-> Nowhere]

(* add_entry, with the content of add_file or of write_block, and          *)
(* add_global_meta are called.  write_header puts an extended header, of a *)
(* block and its records, before the header when the metadata needs one.   *)
Call(global, blocks) ==
    /\ pc = "ready"
    /\ Len(calls) < MaxEntries
    /\ calls' = Append(calls, global)
    /\ left' = blocks
    /\ pc' = "consider"
    /\ UNCHANGED <<loc, counters, last_checkpoint, checkpoints, scar_index, tail, streams,
                   members, layout>>
AddEntry(m) ==
    Call(FALSE, [header |-> IF m.pax = 0 THEN 1 ELSE m.pax + 2, data |-> m.size])
AddGlobalMeta(n) == Call(TRUE, [header |-> 1 + n, data |-> 0])

\* Mutant: the counter is read without the flush.
ConsiderCheckpointUnflushed ==
    /\ pc = "consider"
    /\ pc' = IF compressed_loc - last_checkpoint > Interval THEN "checkpoint" ELSE "entry"
    /\ UNCHANGED <<counters, calls, left, loc, last_checkpoint, checkpoints, scar_index,
                   tail, streams, members, layout>>

(* consider_checkpoint: the compressor is flushed, so that its count is    *)
(* that of everything before the entry.                                    *)
ConsiderCheckpoint ==
    /\ pc = "consider"
    /\ \E o \in Flushed(0) : Count(o, 0)
    /\ pc' = IF compressed_loc' - last_checkpoint > Interval THEN "checkpoint" ELSE "entry"
    /\ UNCHANGED <<calls, left, loc, last_checkpoint, checkpoints, scar_index, tail,
                   streams, members, layout>>

\* Mutant: the compressed location is read before the stream is finished.
CheckpointEarly ==
    /\ pc \in DOMAIN After
    /\ \E o \in Flushed(1) : Count(o, 0)
    /\ last_checkpoint' = compressed_loc'
    /\ checkpoints' = Append(checkpoints, [c |-> compressed_loc, u |-> raw_loc])
    /\ streams' = Append(streams, [at |-> devLen', raw |-> received])
    /\ pc' = After[pc]
    /\ UNCHANGED <<calls, left, loc, scar_index, tail, members, layout>>

\* Mutant: the spacing goes on from the raw location.
CheckpointRawSpacing ==
    /\ pc \in DOMAIN After
    /\ \E o \in Flushed(1) : Count(o, 0)
    /\ last_checkpoint' = raw_loc
    /\ checkpoints' = Append(checkpoints, [c |-> compressed_loc', u |-> raw_loc])
    /\ streams' = Append(streams, [at |-> devLen', raw |-> received])
    /\ pc' = After[pc]
    /\ UNCHANGED <<calls, left, loc, scar_index, tail, members, layout>>

(* checkpoint: the stream is finished and another compressor created on    *)
(* the same output.                                                        *)
Checkpoint ==
    /\ pc \in DOMAIN After
    /\ \E o \in Flushed(1) : Count(o, 0)
    /\ last_checkpoint' = compressed_loc'
    /\ checkpoints' = Append(checkpoints, [c |-> compressed_loc', u |-> raw_loc])
    /\ streams' = Append(streams, [at |-> devLen', raw |-> received])
    /\ pc' = After[pc]
    /\ UNCHANGED <<calls, left, loc, scar_index, tail, members, layout>>

Line(offset) == [entry |-> Len(calls), g |-> calls[Len(calls)], raw_loc |-> offset]

(* The line of an entry is kept before it is written; that of global       *)
(* metadata afterwards, with the location from before.                     *)
BeginEntry ==
    /\ pc = "entry"
    /\ IF calls[Len(calls)]
       THEN loc' = raw_loc /\ UNCHANGED scar_index
       ELSE scar_index' = Append(scar_index, Line(raw_loc)) /\ UNCHANGED loc
    /\ pc' = "blocks"
    /\ UNCHANGED <<calls, left, counters, last_checkpoint, checkpoints, tail, streams,
                   members, layout>>

(* The members up to the block of the given part that is written next.     *)
WithBlock(part) ==
    IF Len(members) < Len(calls)
    THEN Append(members, [at |-> received, out |-> devLen + held,
                          header |-> 1, data |-> 0])
    ELSE [members EXCEPT ![Len(members)][part] = @ + 1]

WriteBlock(part) ==
    /\ pc = "blocks"
    /\ left[part] > 0
    /\ part = "data" => left.header = 0
    /\ \E o \in Written(1) : Count(o, 1)
    /\ left' = [left EXCEPT ![part] = @ - 1]
    /\ members' = WithBlock(part)
    /\ UNCHANGED <<pc, calls, loc, last_checkpoint, checkpoints, scar_index, tail, streams,
                   layout>>

\* Mutant: the location of global metadata is read after it is written.
ReturnLateLocation ==
    /\ pc = "blocks" /\ left = Idle
    /\ scar_index' = IF calls[Len(calls)] THEN Append(scar_index, Line(raw_loc))
                     ELSE scar_index
    /\ pc' = "ready"
    /\ UNCHANGED <<calls, left, loc, counters, last_checkpoint, checkpoints, tail, streams,
                   members, layout>>

Return ==
    /\ pc = "blocks" /\ left = Idle
    /\ scar_index' = IF calls[Len(calls)] THEN Append(scar_index, Line(loc))
                     ELSE scar_index
    /\ pc' = "ready"
    /\ UNCHANGED <<calls, left, loc, counters, last_checkpoint, checkpoints, tail, streams,
                   members, layout>>

(* finish: two blocks of zeros, then the three sections.                   *)
Finish ==
    /\ pc = "ready"
    /\ \E o \in Written(2) : Count(o, 2)
    /\ pc' = "index_checkpoint"
    /\ UNCHANGED <<calls, left, loc, last_checkpoint, checkpoints, scar_index, tail,
                   streams, members, layout>>

(* A section of n lines and its heading goes through the compressor.       *)
WriteSection(name, n) ==
    /\ \E o \in Written(1 + n) : Count(o, 1 + n)
    /\ layout' = [layout EXCEPT ![name] = devLen]
    /\ UNCHANGED <<calls, left, loc, last_checkpoint, checkpoints, scar_index, streams,
                   members>>

Here == checkpoints[Len(checkpoints)].c

WriteIndex ==
    /\ pc = "index"
    /\ WriteSection("index", Len(scar_index))
    /\ tail' = [tail EXCEPT !.index = Here]
    /\ pc' = "checkpoints_checkpoint"

WriteCheckpoints ==
    /\ pc = "checkpoints"
    /\ WriteSection("checkpoints", Len(checkpoints))
    /\ tail' = [tail EXCEPT !.checkpoints = Here]
    /\ pc' = "tail_checkpoint"

WriteTail ==
    /\ pc = "tail"
    /\ WriteSection("tail", 2)
    /\ pc' = "close"
    /\ UNCHANGED tail

(* The last compressor is finished and the marker put behind it.           *)
Close ==
    /\ pc = "close"
    /\ \E o \in Flushed(1) : Count([o EXCEPT !.got = @ + 1], 0)
    /\ layout' = [layout EXCEPT !.eof = devLen' - 1]
    /\ pc' = "done"
    /\ UNCHANGED <<calls, left, loc, last_checkpoint, checkpoints, scar_index, tail,
                   streams, members>>

(* A write or a flush of the output, or read_exact on a content, fails,    *)
(* and so does the call.                                                   *)
Fail ==
    /\ \/ /\ "error" \in Faults
          /\ pc \notin {"entry", "done", "failed"}
          /\ pc = "blocks" => left # Idle
       \/ "source" \in Faults /\ pc = "blocks" /\ left.header = 0 /\ left.data > 0
    /\ pc' = "failed"
    /\ UNCHANGED <<calls, left, loc, counters, last_checkpoint, checkpoints, scar_index,
                   tail, streams, members, layout>>

Next ==
    \/ \E m \in Metas : AddEntry(m)
    \/ \E n \in Globals : AddGlobalMeta(n)
    \/ ConsiderCheckpoint \/ Checkpoint \/ BeginEntry
    \/ WriteBlock("header") \/ WriteBlock("data") \/ Return
    \/ Finish \/ WriteIndex \/ WriteCheckpoints \/ WriteTail \/ Close \/ Fail

Spec == Init /\ [][Next]_vars
-----------------------------------------------------------------------------
TypeOK ==
    /\ pc \in {"ready", "consider", "entry", "blocks", "close", "done", "failed"}
              \cup DOMAIN After \cup {After[s] : s \in DOMAIN After}
    /\ calls \in Seq(BOOLEAN)
    /\ left \in [header : Nat, data : Nat]
    /\ {loc, raw_loc, compressed_loc, received, held, devLen} \subseteq Nat
    /\ last_checkpoint \in 0..compressed_loc     \* their difference is a u64
    /\ checkpoints \in Seq([c : Nat, u : Nat])
    /\ scar_index \in Seq([entry : Nat, g : BOOLEAN, raw_loc : Nat])
    /\ tail \in [index : Int, checkpoints : Int]
    /\ streams \in Seq([at : Nat, raw : Nat])
    /\ members \in Seq([at : Nat, out : Nat, header : Nat, data : Nat])
    /\ layout \in [index : Int, checkpoints : Int, tail : Int, eof : Int]

(* The index has a line for each call, in order, with the location of the  *)
(* first block the call wrote.  (Only the line of the global metadata that *)
(* is being written, or was not written to its end, is not there yet.)     *)
IndexSound ==
    /\ \A i \in 1..Len(scar_index) :
         /\ scar_index[i].entry = i
         /\ scar_index[i].g = calls[i]
         /\ i <= Len(members) => scar_index[i].raw_loc = members[i].at
    /\ pc \in {"ready", "done"} => Len(scar_index) = Len(calls)

(* From the checkpoint at or before an entry, or the start of the archive, *)
(* there are at most Interval cells of compressed data to read before it.  *)
SpacingBounded ==
    \A e \in 1..Len(members) :
        \/ members[e].out <= Interval
        \/ \E i \in 1..Len(checkpoints) :
             /\ checkpoints[i].u <= members[e].at
             /\ members[e].out - checkpoints[i].c \in 0..Interval

(* The archive a reader finds: the checkpoints section lists the           *)
(* checkpoints of the index and of itself, but not that of the tail.       *)
ButLast(s) == [i \in 1..(Len(s) - 1) |-> s[i]]
Archive ==
    [gzip |-> Gzip, streams |-> ButLast(streams), cks |-> ButLast(checkpoints),
     bodyLen |-> checkpoints[Len(checkpoints)].u,
     files |-> [k \in 1..Len(scar_index) |->
                  [off |-> scar_index[k].raw_loc,
                   header |-> members[k].header, data |-> members[k].data]],
     lines |-> [k \in 1..Len(scar_index) |->
                  [g |-> scar_index[k].g, file |-> scar_index[k].entry, len |-> 1]],
     idxAt |-> tail.index, ckAt |-> tail.checkpoints, devLen |-> devLen]

(* A finished archive is one the C reader's properties hold for, though    *)
(* its writer counts, spaces and lists checkpoints in a way of its own,    *)
(* and its tail says where the sections are.                               *)
WellFormed ==
    pc = "done" =>
        /\ ArchiveOK(Archive)
        /\ tail = [index |-> layout.index, checkpoints |-> layout.checkpoints]
        /\ layout.eof + 1 = devLen
=============================================================================
