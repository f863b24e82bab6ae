----------------------------- MODULE RustProofs -----------------------------
(***************************************************************************)
(* Theorems about RustWriter and RustRoundTrip.  The writer's offsets and  *)
(* checkpoints are right for every interval, set of entries and            *)
(* compressor, and the archives it finishes are those ScarReaderProofs is  *)
(* about.  What a reader of the Rust library reads back from them is what  *)
(* the writer was given.                                                   *)
(***************************************************************************)
EXTENDS RustRoundTrip, SequenceTheorems, WellFoundedInduction, TLAPS

(***************************************************************************)
(* The writer                                                              *)
(***************************************************************************)
Steps == {"ready", "consider", "entry", "blocks", "close", "done", "failed",
          "checkpoint", "index_checkpoint", "checkpoints_checkpoint", "tail_checkpoint",
          "index", "checkpoints", "tail"}
CkSteps == {"checkpoint", "index_checkpoint", "checkpoints_checkpoint", "tail_checkpoint"}
SectionCkSteps == {"index_checkpoint", "checkpoints_checkpoint", "tail_checkpoint"}
InCall == {"consider", "checkpoint", "entry", "blocks"}
\* After the checkpoint at the index.
Sections == {"index", "checkpoints_checkpoint", "checkpoints", "tail_checkpoint", "tail",
             "close", "done"}

LEMMA AfterFacts ==
    /\ DOMAIN After = CkSteps
    /\ After["checkpoint"] = "entry" /\ After["index_checkpoint"] = "index"
    /\ After["checkpoints_checkpoint"] = "checkpoints" /\ After["tail_checkpoint"] = "tail"
    BY DEF After, CkSteps

Member == [at : Nat, out : Nat, header : Nat, data : Nat]
IndexLine == [entry : Nat, g : BOOLEAN, raw_loc : Nat]
Layout == [index : Int, checkpoints : Int, tail : Int, eof : Int]

(* TypeOK in parts, with what a call that is running stands on.            *)
Numbers ==
    /\ loc \in Nat /\ raw_loc \in Nat /\ compressed_loc \in Nat
    /\ received \in Nat /\ held \in Nat /\ devLen \in Nat
    /\ last_checkpoint \in Nat /\ last_checkpoint <= compressed_loc
CkTables == checkpoints \in Seq([c : Nat, u : Nat]) /\ streams \in Seq([at : Nat, raw : Nat])
Tables ==
    /\ calls \in Seq(BOOLEAN)
    /\ scar_index \in Seq(IndexLine)
    /\ members \in Seq(Member)
Records ==
    /\ left \in [header : Nat, data : Nat]
    /\ tail \in [index : Int, checkpoints : Int]
    /\ layout \in Layout
Control ==
    /\ pc \in Steps
    /\ pc \in InCall => calls # << >>
    /\ pc \in Sections => checkpoints # << >>
TypeInv == Numbers /\ CkTables /\ Tables /\ Records /\ Control

(* The counters are the lengths they stand for, and the plain compressor   *)
(* keeps nothing back.                                                     *)
Counts ==
    /\ raw_loc = received
    /\ compressed_loc = devLen
    /\ ~Gzip => held = 0
    /\ ~Gzip /\ pc # "done" => devLen = received

-----------------------------------------------------------------------------
LEMMA WrittenFacts ==
    ASSUME held \in Nat, NEW n \in Nat, NEW o \in Written(n)
    PROVE  o.held \in Nat /\ o.got \in Nat /\ (~Gzip => o.held = 0 /\ o.got = n)
    BY MaxEmitAssumption DEF Written

LEMMA FlushedFacts ==
    ASSUME held \in Nat, NEW least \in {0, 1}, NEW o \in Flushed(least)
    PROVE  /\ o.held = 0 /\ o.got \in Nat
           /\ Gzip => o.got >= held + least
           /\ ~Gzip => o.got = 0
    BY MaxEmitAssumption DEF Flushed

(* What a write or a flush does to the counters.                           *)
Counted(n) ==
    /\ raw_loc' = raw_loc + n /\ received' = received + n
    /\ held' \in Nat
    /\ devLen' \in Nat /\ devLen' >= devLen
    /\ compressed_loc' - compressed_loc = devLen' - devLen
    /\ compressed_loc' \in Nat
    /\ ~Gzip => held' = 0

LEMMA WriteCounts ==
    ASSUME TypeInv, NEW n \in Nat, NEW o \in Written(n), Count(o, n)
    PROVE  Counted(n) /\ (~Gzip => devLen' = devLen + n)
    <1>1. o.held \in Nat /\ o.got \in Nat /\ (~Gzip => o.held = 0 /\ o.got = n)
        BY WrittenFacts DEF TypeInv, Numbers
    <1>2. /\ devLen \in Nat /\ compressed_loc \in Nat /\ raw_loc \in Nat
          /\ received \in Nat
        BY DEF TypeInv, Numbers
    <1>3. /\ raw_loc' = raw_loc + n /\ compressed_loc' = compressed_loc + o.got
          /\ received' = received + n /\ held' = o.held /\ devLen' = devLen + o.got
        BY DEF Count
    <1> HIDE DEF Count
    <1> QED BY <1>1, <1>2, <1>3 DEF Counted

LEMMA FlushCounts ==
    ASSUME TypeInv, NEW least \in {0, 1}, NEW o \in Flushed(least), Count(o, 0)
    PROVE  /\ Counted(0) /\ held' = 0
           /\ Gzip => devLen' >= devLen + held + least
           /\ ~Gzip => devLen' = devLen
    <1>1. /\ o.held = 0 /\ o.got \in Nat
          /\ Gzip => o.got >= held + least
          /\ ~Gzip => o.got = 0
        BY FlushedFacts DEF TypeInv, Numbers
    <1>2. /\ devLen \in Nat /\ compressed_loc \in Nat /\ raw_loc \in Nat
          /\ received \in Nat /\ held \in Nat
        BY DEF TypeInv, Numbers
    <1>3. /\ raw_loc' = raw_loc + 0 /\ compressed_loc' = compressed_loc + o.got
          /\ received' = received + 0 /\ held' = o.held /\ devLen' = devLen + o.got
        BY DEF Count
    <1>4. Counted(0) /\ held' = 0 /\ devLen' = devLen + o.got
        BY <1>1, <1>2, <1>3 DEF Counted
    <1>5. Gzip => devLen' >= devLen + held + least
        BY <1>1, <1>2, <1>4
    <1>6. ~Gzip => devLen' = devLen
        BY <1>1, <1>2, <1>4
    <1> QED BY <1>4, <1>5, <1>6

(* The counters an action moves, and by how much on the raw side.          *)
LEMMA CallEffect ==
    ASSUME TypeInv, NEW g \in BOOLEAN, NEW b \in [header : Nat, data : Nat], Call(g, b)
    PROVE  /\ pc = "ready" /\ pc' = "consider" /\ calls' = Append(calls, g) /\ left' = b
           /\ UNCHANGED <<loc, counters, last_checkpoint, checkpoints, scar_index, tail,
                          streams, members, layout>>
    BY DEF Call

LEMMA AddsCall ==
    ASSUME \/ \E m \in Metas : AddEntry(m)
           \/ \E n \in Globals : AddGlobalMeta(n)
    PROVE  \E g \in BOOLEAN, b \in [header : Nat, data : Nat] : b.header > 0 /\ Call(g, b)
    <1>1. CASE \E m \in Metas : AddEntry(m)
        <2> PICK m \in Metas : AddEntry(m)
            BY <1>1
        <2> DEFINE b == [header |-> IF m.pax = 0 THEN 1 ELSE m.pax + 2, data |-> m.size]
        <2>1. b \in [header : Nat, data : Nat] /\ b.header > 0
            BY MetasAssumption
        <2>2. Call(FALSE, b)
            BY DEF AddEntry
        <2> QED BY <2>1, <2>2
    <1>2. CASE \E n \in Globals : AddGlobalMeta(n)
        <2> PICK n \in Globals : AddGlobalMeta(n)
            BY <1>2
        <2> DEFINE b == [header |-> 1 + n, data |-> 0]
        <2>1. b \in [header : Nat, data : Nat] /\ b.header > 0
            BY GlobalsAssumption
        <2>2. Call(TRUE, b)
            BY DEF AddGlobalMeta
        <2> QED BY <2>1, <2>2
    <1> QED BY <1>1, <1>2

LEMMA ConsiderEffect ==
    ASSUME TypeInv, ConsiderCheckpoint
    PROVE  /\ Counted(0) /\ held' = 0 /\ (~Gzip => devLen' = devLen)
           /\ pc = "consider"
           /\ pc' = IF compressed_loc' - last_checkpoint > Interval THEN "checkpoint"
                    ELSE "entry"
           /\ UNCHANGED <<calls, left, loc, last_checkpoint, checkpoints, scar_index, tail,
                          streams, members, layout>>
    <1>1. PICK o \in Flushed(0) : Count(o, 0)
        BY DEF ConsiderCheckpoint
    <1> QED BY <1>1, FlushCounts DEF ConsiderCheckpoint

LEMMA CheckpointEffect ==
    ASSUME TypeInv, Checkpoint
    PROVE  /\ Counted(0) /\ held' = 0
           /\ Gzip => devLen' > devLen
           /\ ~Gzip => devLen' = devLen
           /\ pc \in CkSteps /\ pc' = After[pc]
           /\ last_checkpoint' = compressed_loc'
           /\ checkpoints' = Append(checkpoints, [c |-> compressed_loc', u |-> raw_loc])
           /\ streams' = Append(streams, [at |-> devLen', raw |-> received])
           /\ UNCHANGED <<calls, left, loc, scar_index, tail, members, layout>>
    <1>1. PICK o \in Flushed(1) : Count(o, 0)
        BY DEF Checkpoint
    <1>2. /\ Counted(0) /\ held' = 0
          /\ Gzip => devLen' >= devLen + held + 1
          /\ ~Gzip => devLen' = devLen
        BY <1>1, FlushCounts
    <1> QED BY <1>2, AfterFacts DEF Checkpoint, Counted, TypeInv, Numbers

LEMMA WriteBlockEffect ==
    ASSUME TypeInv, NEW part \in {"header", "data"}, WriteBlock(part)
    PROVE  /\ Counted(1) /\ (~Gzip => devLen' = devLen + 1)
           /\ pc = "blocks" /\ pc' = pc
           /\ left[part] > 0 /\ (part = "data" => left.header = 0)
           /\ left' = [left EXCEPT ![part] = @ - 1]
           /\ members' = WithBlock(part)
           /\ UNCHANGED <<calls, loc, last_checkpoint, checkpoints, scar_index, tail,
                          streams, layout>>
    <1>1. PICK o \in Written(1) : Count(o, 1)
        BY DEF WriteBlock
    <1> QED BY <1>1, WriteCounts DEF WriteBlock

LEMMA FinishEffect ==
    ASSUME TypeInv, Finish
    PROVE  /\ Counted(2) /\ (~Gzip => devLen' = devLen + 2)
           /\ pc = "ready" /\ pc' = "index_checkpoint"
           /\ UNCHANGED <<calls, left, loc, last_checkpoint, checkpoints, scar_index, tail,
                          streams, members, layout>>
    <1>1. PICK o \in Written(2) : Count(o, 2)
        BY DEF Finish
    <1> QED BY <1>1, WriteCounts DEF Finish

LEMMA SectionEffect ==
    ASSUME TypeInv, NEW name, NEW n \in Nat, WriteSection(name, n)
    PROVE  /\ Counted(1 + n) /\ (~Gzip => devLen' = devLen + 1 + n)
           /\ layout' = [layout EXCEPT ![name] = devLen]
           /\ UNCHANGED <<calls, left, loc, last_checkpoint, checkpoints, scar_index, streams,
                          members>>
    <1>1. PICK o \in Written(1 + n) : Count(o, 1 + n)
        BY DEF WriteSection
    <1>2. Counted(1 + n) /\ (~Gzip => devLen' = devLen + (1 + n))
        BY <1>1, WriteCounts
    <1> QED BY <1>2 DEF WriteSection, TypeInv, Numbers

LEMMA CloseEffect ==
    ASSUME TypeInv, Close
    PROVE  /\ Counted(0) /\ held' = 0
           /\ devLen' >= devLen + 1 /\ (~Gzip => devLen' = devLen + 1)
           /\ pc = "close" /\ pc' = "done"
           /\ layout' = [layout EXCEPT !.eof = devLen' - 1]
           /\ UNCHANGED <<calls, left, loc, last_checkpoint, checkpoints, scar_index, tail,
                          streams, members>>
    <1>1. PICK o \in Flushed(1) : Count([o EXCEPT !.got = @ + 1], 0)
        BY DEF Close
    <1>2. o \in [held : {0}, got : Nat] /\ (~Gzip => o.got = 0)
        BY FlushedFacts, MaxEmitAssumption DEF TypeInv, Numbers, Flushed
    <1>3. /\ devLen \in Nat /\ compressed_loc \in Nat /\ raw_loc \in Nat
          /\ received \in Nat
        BY DEF TypeInv, Numbers
    <1>4. /\ raw_loc' = raw_loc + 0 /\ compressed_loc' = compressed_loc + (o.got + 1)
          /\ received' = received + 0 /\ held' = 0 /\ devLen' = devLen + (o.got + 1)
        BY <1>1, <1>2 DEF Count
    <1>5. /\ Counted(0) /\ held' = 0
          /\ devLen' >= devLen + 1 /\ (~Gzip => devLen' = devLen + 1)
        BY <1>2, <1>3, <1>4 DEF Counted
    <1> QED BY <1>5 DEF Close

-----------------------------------------------------------------------------
(***************************************************************************)
(* Types and counters                                                      *)
(***************************************************************************)
LEMMA TypeInit == Init => TypeInv /\ Counts
    <1> SUFFICES ASSUME Init PROVE TypeInv /\ Counts
        OBVIOUS
    <1>1. Numbers /\ Counts
        BY DEF Init, Numbers, Counts
    <1>2. CkTables /\ Tables
        BY DEF Init, CkTables, Tables
    <1>3. Records /\ Control
        BY DEF Init, Records, Control, Steps, InCall, Sections, Idle, Nowhere, Layout
    <1> QED BY <1>1, <1>2, <1>3 DEF TypeInv

(* The counters of a step that writes n cells, or none.                    *)
LEMMA NumbersStep ==
    ASSUME TypeInv, Counts, NEW n \in Nat, Counted(n), loc' \in Nat,
           last_checkpoint' \in {last_checkpoint, compressed_loc'},
           ~Gzip /\ pc' # "done" => devLen' = devLen + n /\ pc # "done"
    PROVE  Numbers' /\ Counts'
    <1>1. /\ raw_loc \in Nat /\ received \in Nat /\ devLen \in Nat /\ compressed_loc \in Nat
          /\ last_checkpoint \in Nat /\ last_checkpoint <= compressed_loc
        BY DEF TypeInv, Numbers
    <1>2. /\ raw_loc = received /\ compressed_loc = devLen
          /\ ~Gzip /\ pc # "done" => devLen = received
        BY DEF Counts
    <1>3. /\ raw_loc' = raw_loc + n /\ received' = received + n
          /\ held' \in Nat
          /\ devLen' \in Nat /\ devLen' >= devLen
          /\ compressed_loc' - compressed_loc = devLen' - devLen
          /\ compressed_loc' \in Nat
          /\ ~Gzip => held' = 0
        BY DEF Counted
    <1>4. raw_loc' = received' /\ compressed_loc' = devLen'
        BY <1>1, <1>2, <1>3
    <1>5. ASSUME ~Gzip, pc' # "done" PROVE devLen' = received'
        <2>1. devLen' = devLen + n /\ pc # "done"
            BY <1>5
        <2>2. devLen = received
            BY <1>2, <1>5, <2>1
        <2>3. received' = devLen + n
            BY <1>3, <2>2
        <2> QED BY <2>1, <2>3
    <1>6. last_checkpoint' \in Nat /\ last_checkpoint' <= compressed_loc'
        BY <1>1, <1>2, <1>3, <1>4
    <1>7. Numbers'
        BY <1>1, <1>3, <1>6 DEF Numbers
    <1>8. Counts'
        BY <1>3, <1>4, <1>5 DEF Counts
    <1> QED BY <1>7, <1>8

(* The counters of a step that does not touch them.                        *)
LEMMA NumbersStay ==
    ASSUME TypeInv, Counts, UNCHANGED <<counters, last_checkpoint>>, loc' \in Nat,
           pc # "done"
    PROVE  Numbers' /\ Counts'
    BY DEF TypeInv, Numbers, Counts, counters

LEMMA LastCall ==
    ASSUME TypeInv, pc \in InCall
    PROVE  Len(calls) \in Nat \ {0} /\ calls[Len(calls)] \in BOOLEAN
    <1>1. calls \in Seq(BOOLEAN) /\ calls # << >>
        BY DEF TypeInv, Tables, Control
    <1>2. Len(calls) \in Nat \ {0}
        BY <1>1, EmptySeq
    <1> QED BY <1>1, <1>2, ElementOfSeq

LEMMA TypeCall ==
    ASSUME TypeInv, Counts,
           NEW g \in BOOLEAN, NEW b \in [header : Nat, data : Nat], Call(g, b)
    PROVE  TypeInv' /\ Counts'
    <1>1. /\ pc = "ready" /\ pc' = "consider" /\ calls' = Append(calls, g) /\ left' = b
          /\ UNCHANGED <<loc, counters, last_checkpoint, checkpoints, scar_index, tail,
                         streams, members, layout>>
        BY CallEffect
    <1>2. calls \in Seq(BOOLEAN)
        BY DEF TypeInv, Tables
    <1>3. calls' \in Seq(BOOLEAN) /\ calls' # << >>
        BY <1>1, <1>2
    <1>4. Numbers' /\ Counts'
        BY <1>1, NumbersStay DEF TypeInv, Numbers
    <1>5. CkTables' /\ Tables'
        BY <1>1, <1>3 DEF TypeInv, CkTables, Tables
    <1>6. Records' /\ Control'
        BY <1>1, <1>3 DEF TypeInv, Records, Control, Steps, InCall, Sections
    <1> QED BY <1>4, <1>5, <1>6 DEF TypeInv

LEMMA TypeConsider == ASSUME TypeInv, Counts, ConsiderCheckpoint PROVE TypeInv' /\ Counts'
    <1>1. /\ Counted(0) /\ held' = 0 /\ (~Gzip => devLen' = devLen)
          /\ pc = "consider" /\ pc' \in {"checkpoint", "entry"}
          /\ UNCHANGED <<calls, left, loc, last_checkpoint, checkpoints, scar_index, tail,
                         streams, members, layout>>
        BY ConsiderEffect
    <1>2. Numbers' /\ Counts'
        BY <1>1, NumbersStep DEF TypeInv, Numbers
    <1>3. CkTables' /\ Tables'
        BY <1>1 DEF TypeInv, CkTables, Tables
    <1>4. Records' /\ Control'
        BY <1>1 DEF TypeInv, Records, Control, Steps, InCall, Sections
    <1> QED BY <1>2, <1>3, <1>4 DEF TypeInv

LEMMA TypeCheckpoint == ASSUME TypeInv, Counts, Checkpoint PROVE TypeInv' /\ Counts'
    <1>1. /\ Counted(0) /\ held' = 0 /\ (~Gzip => devLen' = devLen)
          /\ pc \in CkSteps /\ pc' = After[pc]
          /\ last_checkpoint' = compressed_loc'
          /\ checkpoints' = Append(checkpoints, [c |-> compressed_loc', u |-> raw_loc])
          /\ streams' = Append(streams, [at |-> devLen', raw |-> received])
          /\ UNCHANGED <<calls, left, loc, scar_index, tail, members, layout>>
        BY CheckpointEffect
    <1>2. /\ compressed_loc' \in Nat /\ raw_loc \in Nat /\ devLen' \in Nat /\ received \in Nat
          /\ checkpoints \in Seq([c : Nat, u : Nat]) /\ streams \in Seq([at : Nat, raw : Nat])
        BY <1>1 DEF TypeInv, CkTables, Numbers, Counted
    <1>3. /\ pc' \in {"entry", "index", "checkpoints", "tail"}
          /\ pc' = "entry" => pc = "checkpoint"
        BY <1>1, AfterFacts DEF CkSteps
    <1>4. Numbers' /\ Counts'
        BY <1>1, <1>3, NumbersStep DEF TypeInv, Numbers, CkSteps
    <1>5. CkTables' /\ checkpoints' # << >>
        BY <1>1, <1>2 DEF CkTables
    <1>6. Tables' /\ Records'
        BY <1>1 DEF TypeInv, Tables, Records
    <1>7. Control'
        BY <1>1, <1>3, <1>5 DEF TypeInv, Control, Steps, InCall, Sections
    <1> QED BY <1>4, <1>5, <1>6, <1>7 DEF TypeInv

LEMMA LineType ==
    ASSUME TypeInv, pc \in InCall, NEW n \in Nat
    PROVE  Line(n) \in IndexLine
    BY LastCall DEF Line, IndexLine

LEMMA TypeBegin == ASSUME TypeInv, Counts, BeginEntry PROVE TypeInv' /\ Counts'
    <1>1. pc \in InCall /\ pc' = "blocks" /\ pc # "done"
        BY DEF BeginEntry, InCall
    <1>2. raw_loc \in Nat /\ loc \in Nat /\ scar_index \in Seq(IndexLine)
        BY DEF TypeInv, Numbers, Tables
    <1>3. Line(raw_loc) \in IndexLine
        BY <1>1, <1>2, LineType
    <1>4. scar_index' \in Seq(IndexLine) /\ loc' \in Nat
        <2>1. CASE calls[Len(calls)]
            BY <1>2, <2>1 DEF BeginEntry
        <2>2. CASE ~calls[Len(calls)]
            <3>1. scar_index' = Append(scar_index, Line(raw_loc)) /\ loc' = loc
                BY <2>2 DEF BeginEntry
            <3> QED BY <1>2, <1>3, <3>1
        <2> QED BY <2>1, <2>2
    <1>5. Numbers' /\ Counts'
        BY <1>1, <1>4, NumbersStay DEF BeginEntry
    <1>6. CkTables' /\ Tables'
        BY <1>4 DEF BeginEntry, TypeInv, CkTables, Tables
    <1>7. Records' /\ Control'
        BY <1>1 DEF BeginEntry, TypeInv, Records, Control, Steps, InCall, Sections
    <1> QED BY <1>5, <1>6, <1>7 DEF TypeInv

LEMMA WithBlockType ==
    ASSUME TypeInv, pc = "blocks", NEW part \in {"header", "data"}
    PROVE  WithBlock(part) \in Seq(Member)
    <1>0. /\ members \in Seq(Member) /\ Len(members) \in Nat /\ received \in Nat
          /\ devLen \in Nat /\ held \in Nat
        BY DEF TypeInv, Tables, Numbers
    <1>1. Len(calls) \in Nat \ {0}
        BY LastCall DEF InCall
    <1>2. CASE Len(members) < Len(calls)
        <2> DEFINE m == [at |-> received, out |-> devLen + held, header |-> 1, data |-> 0]
        <2>1. m \in Member
            BY <1>0 DEF Member
        <2> HIDE DEF m
        <2>2. Append(members, m) \in Seq(Member)
            BY <1>0, <2>1
        <2>3. WithBlock(part) = Append(members, m)
            BY <1>2 DEF WithBlock, m
        <2> QED BY <2>2, <2>3
    <1>3. CASE ~(Len(members) < Len(calls))
        <2> DEFINE n == Len(members)
                   m == [members[n] EXCEPT ![part] = members[n][part] + 1]
        <2>1. n \in 1..Len(members)
            BY <1>0, <1>1, <1>3
        <2>2. members[n] \in Member
            BY <1>0, <2>1, ElementOfSeq
        <2>3. m \in Member
            BY <2>2 DEF Member
        <2>4. [members EXCEPT ![n] = m] \in Seq(Member)
            BY <1>0, <2>1, <2>3, ExceptSeq
        <2> QED BY <1>3, <2>4 DEF WithBlock
    <1> QED BY <1>2, <1>3

LEMMA TypeWriteBlock ==
    ASSUME TypeInv, Counts, NEW part \in {"header", "data"}, WriteBlock(part)
    PROVE  TypeInv' /\ Counts'
    <1>1. /\ Counted(1) /\ (~Gzip => devLen' = devLen + 1)
          /\ pc = "blocks" /\ pc' = pc /\ left[part] > 0
          /\ left' = [left EXCEPT ![part] = @ - 1]
          /\ members' = WithBlock(part)
          /\ UNCHANGED <<calls, loc, last_checkpoint, checkpoints, scar_index, tail,
                         streams, layout>>
        BY WriteBlockEffect
    <1>2. left \in [header : Nat, data : Nat]
        BY DEF TypeInv, Records
    <1>3. left' \in [header : Nat, data : Nat]
        BY <1>1, <1>2
    <1>4. members' \in Seq(Member)
        BY <1>1, WithBlockType
    <1>5. Numbers' /\ Counts'
        BY <1>1, NumbersStep DEF TypeInv, Numbers
    <1>6. CkTables' /\ Tables'
        BY <1>1, <1>4 DEF TypeInv, CkTables, Tables
    <1>7. Records' /\ Control'
        BY <1>1, <1>3 DEF TypeInv, Records, Control
    <1> QED BY <1>5, <1>6, <1>7 DEF TypeInv

LEMMA TypeReturn == ASSUME TypeInv, Counts, Return PROVE TypeInv' /\ Counts'
    <1>1. pc \in InCall /\ pc' = "ready" /\ pc # "done"
        BY DEF Return, InCall
    <1>2. loc \in Nat /\ scar_index \in Seq(IndexLine)
        BY DEF TypeInv, Numbers, Tables
    <1>3. Line(loc) \in IndexLine
        BY <1>1, <1>2, LineType
    <1>4. scar_index' \in Seq(IndexLine)
        BY <1>2, <1>3 DEF Return
    <1>5. Numbers' /\ Counts'
        BY <1>1, <1>2, NumbersStay DEF Return
    <1>6. CkTables' /\ Tables'
        BY <1>4 DEF Return, TypeInv, CkTables, Tables
    <1>7. Records' /\ Control'
        BY <1>1 DEF Return, TypeInv, Records, Control, Steps, InCall, Sections
    <1> QED BY <1>5, <1>6, <1>7 DEF TypeInv

LEMMA TypeFinish == ASSUME TypeInv, Counts, Finish PROVE TypeInv' /\ Counts'
    <1>1. /\ Counted(2) /\ (~Gzip => devLen' = devLen + 2)
          /\ pc = "ready" /\ pc' = "index_checkpoint"
          /\ UNCHANGED <<calls, left, loc, last_checkpoint, checkpoints, scar_index, tail,
                         streams, members, layout>>
        BY FinishEffect
    <1>2. Numbers' /\ Counts'
        BY <1>1, NumbersStep DEF TypeInv, Numbers
    <1>3. CkTables' /\ Tables'
        BY <1>1 DEF TypeInv, CkTables, Tables
    <1>4. Records' /\ Control'
        BY <1>1 DEF TypeInv, Records, Control, Steps, InCall, Sections
    <1> QED BY <1>2, <1>3, <1>4 DEF TypeInv

(* The three sections, each with what follows it.                          *)
LEMMA IndexEffect ==
    ASSUME TypeInv, WriteIndex
    PROVE  /\ \E n \in Nat : Counted(n) /\ n > 0 /\ (~Gzip => devLen' = devLen + n)
           /\ pc = "index" /\ pc' = "checkpoints_checkpoint"
           /\ tail' = [tail EXCEPT !.index = Here]
           /\ layout' = [layout EXCEPT !.index = devLen]
           /\ UNCHANGED <<calls, left, loc, last_checkpoint, checkpoints, scar_index, streams,
                          members>>
    <1>1. WriteSection("index", Len(scar_index)) /\ Len(scar_index) \in Nat
        BY DEF WriteIndex, TypeInv, Tables
    <1>2. /\ Counted(1 + Len(scar_index))
          /\ ~Gzip => devLen' = devLen + 1 + Len(scar_index)
          /\ layout' = [layout EXCEPT !["index"] = devLen]
          /\ UNCHANGED <<calls, left, loc, last_checkpoint, checkpoints, scar_index, streams,
                         members>>
        BY <1>1, SectionEffect
    <1>3. \E n \in Nat : Counted(n) /\ n > 0 /\ (~Gzip => devLen' = devLen + n)
        <2> WITNESS 1 + Len(scar_index) \in Nat
        <2> QED BY <1>1, <1>2 DEF TypeInv, Numbers
    <1> QED BY <1>2, <1>3 DEF WriteIndex

LEMMA CheckpointsEffect ==
    ASSUME TypeInv, WriteCheckpoints
    PROVE  /\ \E n \in Nat : Counted(n) /\ n > 0 /\ (~Gzip => devLen' = devLen + n)
           /\ pc = "checkpoints" /\ pc' = "tail_checkpoint"
           /\ tail' = [tail EXCEPT !.checkpoints = Here]
           /\ layout' = [layout EXCEPT !.checkpoints = devLen]
           /\ UNCHANGED <<calls, left, loc, last_checkpoint, checkpoints, scar_index, streams,
                          members>>
    <1>1. WriteSection("checkpoints", Len(checkpoints)) /\ Len(checkpoints) \in Nat
        BY DEF WriteCheckpoints, TypeInv, CkTables
    <1>2. /\ Counted(1 + Len(checkpoints))
          /\ ~Gzip => devLen' = devLen + 1 + Len(checkpoints)
          /\ layout' = [layout EXCEPT !["checkpoints"] = devLen]
          /\ UNCHANGED <<calls, left, loc, last_checkpoint, checkpoints, scar_index, streams,
                         members>>
        BY <1>1, SectionEffect
    <1>3. \E n \in Nat : Counted(n) /\ n > 0 /\ (~Gzip => devLen' = devLen + n)
        <2> WITNESS 1 + Len(checkpoints) \in Nat
        <2> QED BY <1>1, <1>2 DEF TypeInv, Numbers
    <1> QED BY <1>2, <1>3 DEF WriteCheckpoints

LEMMA TailEffect ==
    ASSUME TypeInv, WriteTail
    PROVE  /\ \E n \in Nat : Counted(n) /\ n > 0 /\ (~Gzip => devLen' = devLen + n)
           /\ pc = "tail" /\ pc' = "close"
           /\ layout' = [layout EXCEPT !.tail = devLen]
           /\ UNCHANGED <<calls, left, loc, last_checkpoint, checkpoints, scar_index, streams,
                          members, tail>>
    <1>1. WriteSection("tail", 2)
        BY DEF WriteTail
    <1>2. /\ Counted(1 + 2)
          /\ ~Gzip => devLen' = devLen + 1 + 2
          /\ layout' = [layout EXCEPT !["tail"] = devLen]
          /\ UNCHANGED <<calls, left, loc, last_checkpoint, checkpoints, scar_index, streams,
                         members>>
        BY <1>1, SectionEffect
    <1>3. \E n \in Nat : Counted(n) /\ n > 0 /\ (~Gzip => devLen' = devLen + n)
        <2> WITNESS 3 \in Nat
        <2> QED BY <1>2 DEF TypeInv, Numbers
    <1> QED BY <1>2, <1>3 DEF WriteTail

LEMMA HereType ==
    ASSUME TypeInv, pc \in Sections
    PROVE  Len(checkpoints) \in Nat \ {0} /\ Here \in Nat
    <1>1. checkpoints \in Seq([c : Nat, u : Nat]) /\ checkpoints # << >>
        BY DEF TypeInv, CkTables, Control
    <1>2. Len(checkpoints) \in Nat \ {0}
        BY <1>1, EmptySeq
    <1>3. Len(checkpoints) \in 1..Len(checkpoints)
        BY <1>2
    <1>4. checkpoints[Len(checkpoints)] \in [c : Nat, u : Nat]
        BY <1>1, <1>3, ElementOfSeq
    <1> QED BY <1>2, <1>4 DEF Here

LEMMA TypeSection ==
    ASSUME TypeInv, Counts, NEW n \in Nat, Counted(n), ~Gzip => devLen' = devLen + n,
           NEW name \in {"index", "checkpoints", "tail"},
           layout' = [layout EXCEPT ![name] = devLen],
           tail' \in [index : Int, checkpoints : Int],
           pc \in {"index", "checkpoints", "tail"},
           pc' \in {"checkpoints_checkpoint", "tail_checkpoint", "close"},
           UNCHANGED <<calls, left, loc, last_checkpoint, checkpoints, scar_index, streams,
                       members>>
    PROVE  TypeInv' /\ Counts'
    <1>1. layout \in Layout /\ devLen \in Nat /\ loc \in Nat
        BY DEF TypeInv, Records, Numbers
    <1>2. layout' \in Layout
        BY <1>1 DEF Layout
    <1>3. Numbers' /\ Counts'
        BY <1>1, NumbersStep
    <1>4. CkTables' /\ Tables'
        BY DEF TypeInv, CkTables, Tables
    <1>5. Records'
        BY <1>2 DEF TypeInv, Records
    <1>6. Control'
        BY DEF TypeInv, Control, Steps, InCall, Sections
    <1> QED BY <1>3, <1>4, <1>5, <1>6 DEF TypeInv

LEMMA TypeIndex == ASSUME TypeInv, Counts, WriteIndex PROVE TypeInv' /\ Counts'
    <1>1. PICK n \in Nat : Counted(n) /\ n > 0 /\ (~Gzip => devLen' = devLen + n)
        BY IndexEffect
    <1>2. tail \in [index : Int, checkpoints : Int] /\ pc = "index" /\ Here \in Nat
        BY HereType, IndexEffect DEF TypeInv, Records, Sections
    <1>3. tail' \in [index : Int, checkpoints : Int]
        BY <1>2, IndexEffect
    <1>4. layout' = [layout EXCEPT !["index"] = devLen]
        BY IndexEffect
    <1> QED BY <1>1, <1>3, <1>4, IndexEffect, TypeSection

LEMMA TypeCheckpoints == ASSUME TypeInv, Counts, WriteCheckpoints PROVE TypeInv' /\ Counts'
    <1>1. PICK n \in Nat : Counted(n) /\ n > 0 /\ (~Gzip => devLen' = devLen + n)
        BY CheckpointsEffect
    <1>2. tail \in [index : Int, checkpoints : Int] /\ pc = "checkpoints" /\ Here \in Nat
        BY HereType, CheckpointsEffect DEF TypeInv, Records, Sections
    <1>3. tail' \in [index : Int, checkpoints : Int]
        BY <1>2, CheckpointsEffect
    <1>4. layout' = [layout EXCEPT !["checkpoints"] = devLen]
        BY CheckpointsEffect
    <1> QED BY <1>1, <1>3, <1>4, CheckpointsEffect, TypeSection

LEMMA TypeTail == ASSUME TypeInv, Counts, WriteTail PROVE TypeInv' /\ Counts'
    <1>1. PICK n \in Nat : Counted(n) /\ n > 0 /\ (~Gzip => devLen' = devLen + n)
        BY TailEffect
    <1>2. tail' \in [index : Int, checkpoints : Int]
        BY TailEffect DEF TypeInv, Records
    <1>3. layout' = [layout EXCEPT !["tail"] = devLen]
        BY TailEffect
    <1> QED BY <1>1, <1>2, <1>3, TailEffect, TypeSection

LEMMA TypeClose == ASSUME TypeInv, Counts, Close PROVE TypeInv' /\ Counts'
    <1>1. /\ Counted(0) /\ pc = "close" /\ pc' = "done"
          /\ layout' = [layout EXCEPT !.eof = devLen' - 1]
          /\ UNCHANGED <<calls, left, loc, last_checkpoint, checkpoints, scar_index, tail,
                         streams, members>>
        BY CloseEffect
    <1>2. layout \in Layout /\ devLen' \in Nat /\ loc \in Nat
        BY <1>1 DEF TypeInv, Records, Numbers, Counted
    <1>3. layout' \in Layout
        BY <1>1, <1>2 DEF Layout
    <1>4. Numbers' /\ Counts'
        BY <1>1, <1>2, NumbersStep
    <1>5. CkTables' /\ Tables'
        BY <1>1 DEF TypeInv, CkTables, Tables
    <1>6. Records' /\ Control'
        BY <1>1, <1>3 DEF TypeInv, Records, Control, Steps, InCall, Sections
    <1> QED BY <1>4, <1>5, <1>6 DEF TypeInv

LEMMA TypeFail == ASSUME TypeInv, Counts, Fail PROVE TypeInv' /\ Counts'
    <1>1. /\ pc # "done" /\ pc' = "failed"
          /\ UNCHANGED <<calls, left, loc, counters, last_checkpoint, checkpoints,
                         scar_index, tail, streams, members, layout>>
        BY DEF Fail
    <1>2. Numbers' /\ Counts'
        BY <1>1, NumbersStay DEF TypeInv, Numbers
    <1>3. CkTables' /\ Tables'
        BY <1>1 DEF TypeInv, CkTables, Tables
    <1>4. Records' /\ Control'
        BY <1>1 DEF TypeInv, Records, Control, Steps, InCall, Sections
    <1> QED BY <1>2, <1>3, <1>4 DEF TypeInv

LEMMA TypeStutter == ASSUME TypeInv, Counts, UNCHANGED vars PROVE TypeInv' /\ Counts'
    <1>1. Numbers' /\ Counts'
        BY DEF vars, counters, TypeInv, Numbers, Counts
    <1>2. CkTables' /\ Tables'
        BY DEF vars, TypeInv, CkTables, Tables
    <1>3. Records' /\ Control'
        BY DEF vars, TypeInv, Records, Control
    <1> QED BY <1>1, <1>2, <1>3 DEF TypeInv

LEMMA NextType == ASSUME TypeInv, Counts, [Next]_vars PROVE TypeInv' /\ Counts'
    <1>1. CASE (\E m \in Metas : AddEntry(m)) \/ (\E n \in Globals : AddGlobalMeta(n))
        BY <1>1, AddsCall, TypeCall
    <1>2. CASE ConsiderCheckpoint
        BY <1>2, TypeConsider
    <1>3. CASE Checkpoint
        BY <1>3, TypeCheckpoint
    <1>4. CASE BeginEntry
        BY <1>4, TypeBegin
    <1>5. CASE WriteBlock("header") \/ WriteBlock("data")
        BY <1>5, TypeWriteBlock
    <1>6. CASE Return
        BY <1>6, TypeReturn
    <1>7. CASE Finish
        BY <1>7, TypeFinish
    <1>8. CASE WriteIndex
        BY <1>8, TypeIndex
    <1>9. CASE WriteCheckpoints
        BY <1>9, TypeCheckpoints
    <1>10. CASE WriteTail
        BY <1>10, TypeTail
    <1>11. CASE Close
        BY <1>11, TypeClose
    <1>12. CASE Fail
        BY <1>12, TypeFail
    <1>13. CASE UNCHANGED vars
        BY <1>13, TypeStutter
    <1> QED BY <1>1, <1>2, <1>3, <1>4, <1>5, <1>6, <1>7, <1>8, <1>9, <1>10, <1>11, <1>12,
               <1>13 DEF Next

(* The counters of the Rust writer count what its compressor took in and   *)
(* put out, and its variables keep their types, for every compressor.      *)
THEOREM RustTypeCorrect == Spec => []TypeOK
    <1>1. TypeInv => TypeOK
        <2> SUFFICES ASSUME TypeInv PROVE TypeOK
            OBVIOUS
        <2>1. pc \in Steps /\ last_checkpoint \in 0..compressed_loc
            BY DEF TypeInv, Control, Numbers
        <2>2. Steps \subseteq {"ready", "consider", "entry", "blocks", "close", "done",
                               "failed"} \cup DOMAIN After \cup {After[s] : s \in DOMAIN After}
            BY AfterFacts DEF Steps, CkSteps
        <2> QED BY <2>1, <2>2
                DEF TypeOK, TypeInv, Numbers, CkTables, Tables, Records, IndexLine, Member,
                    Layout
    <1> QED BY <1>1, TypeInit, NextType, PTL DEF Spec

-----------------------------------------------------------------------------
(***************************************************************************)
(* The inductive invariant                                                 *)
(***************************************************************************)
End(m) == members[m].at + members[m].header + members[m].data
LastC == checkpoints[Len(checkpoints)].c
Before(n) == checkpoints[Len(checkpoints) - n].c
Begun == Len(members) = Len(calls)    \* the running call has written a block
Outside == Steps \ (InCall \cup {"failed"})

(* A checkpoint is where a compressor took over from the one before.       *)
Streamed ==
    /\ Len(streams) = Len(checkpoints) + 1
    /\ streams[1].at = 0 /\ streams[1].raw = 0
    /\ \A i \in 1..Len(checkpoints) :
         /\ streams[i + 1].at = checkpoints[i].c /\ streams[i + 1].raw = checkpoints[i].u
         /\ checkpoints[i].c <= devLen
         /\ ~Gzip => checkpoints[i].c = checkpoints[i].u
    /\ last_checkpoint = streams[Len(streams)].at

(* Both coordinates grow from each checkpoint to the next.                 *)
Ordered ==
    /\ \A i, j \in 1..Len(streams) : i < j => streams[i].at < streams[j].at
    /\ \A i, j \in 1..Len(checkpoints) : i < j => checkpoints[i].u < checkpoints[j].u

(* Something has been written since the last checkpoint whenever the next  *)
(* one may be made.                                                        *)
Advanced ==
    /\ \A i \in 1..Len(checkpoints) : checkpoints[i].u <= received
    /\ pc \in {"ready", "consider", "checkpoint"} \cup SectionCkSteps =>
         \A i \in 1..Len(checkpoints) : checkpoints[i].u < received
    /\ pc \in SectionCkSteps => received > 0
    /\ pc = "checkpoint" => compressed_loc - last_checkpoint > Interval

(* No checkpoint is among the blocks of a call.                            *)
Apart ==
    \A m \in 1..Len(members) :
        /\ members[m].header > 0
        /\ End(m) <= received
        /\ \A i \in 1..Len(checkpoints) :
             checkpoints[i].u <= members[m].at \/ End(m) <= checkpoints[i].u

(* The calls so far have blocks, and the running one once it has written   *)
(* one; the sections come after them all.                                  *)
Placed ==
    /\ Len(members) <= Len(calls)
    /\ pc \in Outside => Begun
    /\ pc \in {"consider", "checkpoint", "entry"} =>
         Len(members) = Len(calls) - 1 /\ left.header > 0
    /\ pc = "blocks" =>
         /\ Len(members) >= Len(calls) - 1
         /\ ~Begun => left.header > 0
         /\ Begun => \A i \in 1..Len(checkpoints) :
                       checkpoints[i].u <= members[Len(members)].at
    /\ pc \in Sections =>
         \A m \in 1..Len(members) : End(m) <= checkpoints[Len(checkpoints)].u

(* The index has the calls that are over, and the location that the        *)
(* running call keeps is where its blocks begin.                           *)
Indexed ==
    /\ Len(scar_index) <= Len(calls)
    /\ \A i \in 1..Len(scar_index) :
         /\ scar_index[i].entry = i
         /\ scar_index[i].g = calls[i]
         /\ i <= Len(members) => scar_index[i].raw_loc = members[i].at
    /\ pc \in Outside => Len(scar_index) = Len(calls)
    /\ pc \in {"consider", "checkpoint", "entry"} => Len(scar_index) = Len(calls) - 1
    /\ pc = "blocks" /\ calls[Len(calls)] =>
         /\ Len(scar_index) = Len(calls) - 1
         /\ loc = IF Begun THEN members[Len(members)].at ELSE received
    /\ pc = "blocks" /\ ~calls[Len(calls)] =>
         /\ Len(scar_index) = Len(calls)
         /\ ~Begun => scar_index[Len(calls)].raw_loc = received

(* Before an entry the compressor holds nothing back, and the last         *)
(* checkpoint is near.                                                     *)
Near ==
    pc = "entry" \/ (pc = "blocks" /\ ~Begun) =>
        held = 0 /\ devLen - last_checkpoint <= Interval
Spaced == SpacingBounded /\ Near

(* The locations for the tail are those of the checkpoints made for them.  *)
Located ==
    /\ pc \in {"index", "checkpoints"} => LastC = devLen
    /\ pc = "checkpoints_checkpoint" =>
         tail.index = LastC /\ layout.index = LastC
    /\ pc = "checkpoints" =>
         Len(checkpoints) > 1 /\ tail.index = Before(1) /\ layout.index = Before(1)
    /\ pc = "tail_checkpoint" =>
         /\ Len(checkpoints) > 1 /\ tail.index = Before(1) /\ layout.index = Before(1)
         /\ tail.checkpoints = LastC /\ layout.checkpoints = LastC
    /\ pc \in {"tail", "close", "done"} =>
         /\ Len(checkpoints) > 2 /\ tail.index = Before(2) /\ layout.index = Before(2)
         /\ tail.checkpoints = Before(1) /\ layout.checkpoints = Before(1)
    /\ pc = "done" => layout.eof + 1 = devLen

IInv == /\ TypeInv /\ Counts /\ Streamed /\ Ordered /\ Advanced /\ Apart /\ Placed
        /\ Indexed /\ Spaced /\ Located

-----------------------------------------------------------------------------
(***************************************************************************)
(* Checkpoints and streams                                                 *)
(***************************************************************************)
(* Only Checkpoint makes one, and no step takes anything back.             *)
LEMMA Monotone ==
    ASSUME TypeInv, [Next]_vars
    PROVE  /\ devLen' >= devLen /\ received' >= received
           /\ Checkpoint \/ UNCHANGED <<checkpoints, streams, last_checkpoint>>
    <1>0. devLen \in Nat /\ received \in Nat
        BY DEF TypeInv, Numbers
    <1>1. ASSUME NEW n \in Nat, Counted(n) PROVE devLen' >= devLen /\ received' >= received
        BY <1>0, <1>1 DEF Counted
    <1>2. CASE (\E m \in Metas : AddEntry(m)) \/ (\E n \in Globals : AddGlobalMeta(n))
        BY <1>0, <1>2, AddsCall, CallEffect DEF counters
    <1>3. CASE ConsiderCheckpoint
        BY <1>1, <1>3, ConsiderEffect
    <1>4. CASE Checkpoint
        BY <1>1, <1>4, CheckpointEffect
    <1>5. CASE BeginEntry \/ Return \/ Fail \/ UNCHANGED vars
        BY <1>0, <1>5 DEF BeginEntry, Return, Fail, vars, counters
    <1>6. CASE WriteBlock("header") \/ WriteBlock("data")
        BY <1>1, <1>6, WriteBlockEffect
    <1>7. CASE Finish
        BY <1>1, <1>7, FinishEffect
    <1>8. CASE WriteIndex
        BY <1>1, <1>8, IndexEffect
    <1>9. CASE WriteCheckpoints
        BY <1>1, <1>9, CheckpointsEffect
    <1>10. CASE WriteTail
        BY <1>1, <1>10, TailEffect
    <1>11. CASE Close
        BY <1>1, <1>11, CloseEffect
    <1> QED BY <1>2, <1>3, <1>4, <1>5, <1>6, <1>7, <1>8, <1>9, <1>10, <1>11 DEF Next

(* The tables a checkpoint appends to.                                     *)
LEMMA Appended ==
    ASSUME TypeInv, Counts, Streamed, Checkpoint
    PROVE  LET n == Len(checkpoints)
               ck == [c |-> devLen', u |-> received]
               st == [at |-> devLen', raw |-> received]
           IN /\ n \in Nat
              /\ Len(checkpoints') = n + 1 /\ Len(streams') = n + 2
              /\ \A i \in 1..n : checkpoints'[i] = checkpoints[i]
              /\ \A i \in 1..(n + 1) : streams'[i] = streams[i]
              /\ checkpoints'[n + 1] = ck /\ streams'[n + 2] = st
    <1> DEFINE n == Len(checkpoints)
               ck == [c |-> devLen', u |-> received]
               st == [at |-> devLen', raw |-> received]
    <1>1. /\ checkpoints \in Seq([c : Nat, u : Nat]) /\ streams \in Seq([at : Nat, raw : Nat])
          /\ n \in Nat /\ Len(streams) = n + 1
        BY DEF TypeInv, CkTables, Streamed
    <1>2. compressed_loc' = devLen' /\ raw_loc = received
        BY TypeCheckpoint DEF Counts
    <1>3. checkpoints' = Append(checkpoints, ck) /\ streams' = Append(streams, st)
        BY <1>2, CheckpointEffect
    <1> HIDE DEF ck, st
    <1>4. Len(checkpoints') = n + 1 /\ Len(streams') = n + 2
        BY <1>1, <1>3
    <1>5. \A i \in 1..n : checkpoints'[i] = checkpoints[i]
        BY <1>1, <1>3
    <1>6. \A i \in 1..(n + 1) : streams'[i] = streams[i]
        BY <1>1, <1>3
    <1>7. checkpoints'[n + 1] = ck /\ streams'[n + 2] = st
        BY <1>1, <1>3
    <1> QED BY <1>1, <1>4, <1>5, <1>6, <1>7 DEF ck, st

LEMMA CkNats ==
    ASSUME TypeInv, Streamed
    PROVE  /\ Len(checkpoints) \in Nat
           /\ \A i \in 1..Len(checkpoints) : checkpoints[i].c \in Nat /\ checkpoints[i].u \in Nat
           /\ \A i \in 1..Len(streams) : streams[i].at \in Nat
    <1>1. /\ checkpoints \in Seq([c : Nat, u : Nat]) /\ Len(checkpoints) \in Nat
          /\ streams \in Seq([at : Nat, raw : Nat])
        BY DEF TypeInv, CkTables
    <1>2. \A i \in 1..Len(checkpoints) : checkpoints[i] \in [c : Nat, u : Nat]
        BY <1>1, ElementOfSeq
    <1>3. \A i \in 1..Len(streams) : streams[i] \in [at : Nat, raw : Nat]
        BY <1>1, ElementOfSeq
    <1> QED BY <1>1, <1>2, <1>3

LEMMA StreamedStep ==
    ASSUME TypeInv, Counts, Streamed, [Next]_vars
    PROVE  Streamed'
    <1>1. CASE UNCHANGED <<checkpoints, streams, last_checkpoint>>
        <2>1. devLen' >= devLen /\ devLen \in Nat /\ devLen' \in Nat
            BY Monotone, NextType DEF TypeInv, Numbers
        <2>2. \A i \in 1..Len(checkpoints) : checkpoints[i].c \in Nat
            BY CkNats
        <2> QED BY <1>1, <2>1, <2>2 DEF Streamed
    <1>2. CASE Checkpoint
        <2> DEFINE n == Len(checkpoints)
        <2>1. /\ n \in Nat
              /\ Len(checkpoints') = n + 1 /\ Len(streams') = n + 2
              /\ \A i \in 1..n : checkpoints'[i] = checkpoints[i]
              /\ \A i \in 1..(n + 1) : streams'[i] = streams[i]
              /\ checkpoints'[n + 1] = [c |-> devLen', u |-> received]
              /\ streams'[n + 2] = [at |-> devLen', raw |-> received]
            BY <1>2, Appended
        <2>2. /\ devLen' >= devLen /\ devLen \in Nat /\ devLen' \in Nat
              /\ last_checkpoint' = devLen'
            BY <1>2, CheckpointEffect, Monotone, NextType DEF TypeInv, Numbers, Counts
        <2>3. ~Gzip => devLen' = received
            BY <1>2, CheckpointEffect DEF Counts, CkSteps
        <2>4. streams'[1].at = 0 /\ streams'[1].raw = 0
            BY <2>1 DEF Streamed
        <2>5. ASSUME NEW i \in 1..(n + 1)
              PROVE  /\ streams'[i + 1].at = checkpoints'[i].c
                     /\ streams'[i + 1].raw = checkpoints'[i].u
                     /\ checkpoints'[i].c <= devLen'
                     /\ ~Gzip => checkpoints'[i].c = checkpoints'[i].u
            <3>1. CASE i \in 1..n
                <4>1. /\ streams'[i + 1] = streams[i + 1] /\ checkpoints'[i] = checkpoints[i]
                      /\ checkpoints[i].c \in Nat
                    BY <2>1, <3>1, CkNats
                <4> QED BY <2>2, <3>1, <4>1 DEF Streamed
            <3>2. CASE i = n + 1
                BY <2>1, <2>2, <2>3, <3>2
            <3> QED BY <2>1, <3>1, <3>2
        <2>6. last_checkpoint' = streams'[Len(streams')].at
            BY <2>1, <2>2
        <2> QED BY <2>1, <2>4, <2>5, <2>6 DEF Streamed
    <1> QED BY <1>1, <1>2, Monotone

(* A stream that ends is not empty, nor is what was written into it.       *)
LEMMA OrderedStep ==
    ASSUME TypeInv, Counts, Streamed, Ordered, Advanced, [Next]_vars
    PROVE  Ordered'
    <1>1. CASE UNCHANGED <<checkpoints, streams, last_checkpoint>>
        BY <1>1 DEF Ordered
    <1>2. CASE Checkpoint
        <2> DEFINE n == Len(checkpoints)
        <2>1. /\ n \in Nat
              /\ Len(checkpoints') = n + 1 /\ Len(streams') = n + 2 /\ Len(streams) = n + 1
              /\ \A i \in 1..n : checkpoints'[i] = checkpoints[i]
              /\ \A i \in 1..(n + 1) : streams'[i] = streams[i]
              /\ checkpoints'[n + 1] = [c |-> devLen', u |-> received]
              /\ streams'[n + 2] = [at |-> devLen', raw |-> received]
            BY <1>2, Appended DEF Streamed
        <2>2. /\ devLen \in Nat /\ received \in Nat /\ compressed_loc = devLen
              /\ last_checkpoint \in Nat /\ Interval \in Nat
              /\ Gzip => devLen' > devLen
              /\ ~Gzip => devLen' = devLen /\ devLen = received
            BY <1>2, CheckpointEffect, IntervalAssumption
               DEF TypeInv, Numbers, Counts, CkSteps
        <2>3. /\ pc \in {"checkpoint"} \cup SectionCkSteps
              /\ \A i \in 1..n : checkpoints[i].u < received
              /\ devLen = received => received > 0 \/ pc = "checkpoint"
            BY <1>2, CheckpointEffect DEF Advanced, CkSteps, SectionCkSteps
        <2>4. \A i \in 1..n : streams[i + 1].at = checkpoints[i].c /\ checkpoints[i].c \in Nat
            BY CkNats DEF Streamed
        <2>5. ASSUME NEW i \in 1..(n + 1) PROVE streams[i].at < devLen'
            <3>1. CASE Gzip
                <4>1. CASE i = 1
                    <5>1. devLen' > devLen /\ devLen' \in Nat
                        BY <2>2, <3>1, NextType DEF TypeInv, Numbers
                    <5> QED BY <2>2, <4>1, <5>1 DEF Streamed
                <4>2. CASE i # 1
                    <5> DEFINE k == i - 1
                    <5>1. k \in 1..n /\ i = k + 1
                        BY <2>1, <4>2
                    <5>2. streams[k + 1].at = checkpoints[k].c /\ checkpoints[k].c <= devLen
                        BY <5>1 DEF Streamed
                    <5>3. checkpoints[k].c \in Nat /\ devLen' \in Nat /\ devLen' > devLen
                        BY <2>2, <2>4, <3>1, <5>1, NextType DEF TypeInv, Numbers
                    <5> HIDE DEF k
                    <5> QED BY <2>2, <5>1, <5>2, <5>3
                <4> QED BY <4>1, <4>2
            <3>2. CASE ~Gzip
                <4>0. devLen' = devLen /\ devLen = received
                    BY <2>2, <3>2
                <4>1. CASE i = 1
                    <5>1. received > 0
                        <6>1. CASE pc = "checkpoint"
                            BY <2>2, <4>0, <6>1 DEF Advanced
                        <6> QED BY <2>3, <4>0, <6>1
                    <5> QED BY <4>0, <4>1, <5>1 DEF Streamed
                <4>2. CASE i # 1
                    <5> DEFINE k == i - 1
                    <5>1. k \in 1..n /\ i = k + 1
                        BY <2>1, <4>2
                    <5>2. streams[k + 1].at = checkpoints[k].c
                        BY <5>1 DEF Streamed
                    <5>3. checkpoints[k].c = checkpoints[k].u
                        BY <3>2, <5>1 DEF Streamed
                    <5> HIDE DEF k
                    <5> QED BY <2>3, <4>0, <5>1, <5>2, <5>3
                <4> QED BY <4>1, <4>2
            <3> QED BY <3>1, <3>2
        <2>6. ASSUME NEW i \in 1..(n + 2), NEW j \in 1..(n + 2), i < j
              PROVE  streams'[i].at < streams'[j].at
            <3>1. i \in 1..(n + 1) /\ streams'[i] = streams[i]
                BY <2>1, <2>6
            <3>2. CASE j \in 1..(n + 1)
                BY <2>1, <2>6, <3>1, <3>2 DEF Ordered
            <3>3. CASE j = n + 2
                BY <2>1, <2>5, <3>1, <3>3
            <3> QED BY <2>1, <3>2, <3>3
        <2>7. ASSUME NEW i \in 1..(n + 1), NEW j \in 1..(n + 1), i < j
              PROVE  checkpoints'[i].u < checkpoints'[j].u
            <3>1. i \in 1..n /\ checkpoints'[i] = checkpoints[i]
                BY <2>1, <2>7
            <3>2. CASE j \in 1..n
                BY <2>1, <2>7, <3>1, <3>2 DEF Ordered
            <3>3. CASE j = n + 1
                BY <2>1, <2>3, <3>1, <3>3
            <3> QED BY <2>1, <3>2, <3>3
        <2> QED BY <2>1, <2>6, <2>7 DEF Ordered
    <1> QED BY <1>1, <1>2, Monotone

(* What holds of the checkpoints once more has been written.               *)
LEMMA Overtaken ==
    ASSUME TypeInv, Streamed, Advanced, UNCHANGED checkpoints,
           received' \in Nat, received' > received
    PROVE  \A i \in 1..Len(checkpoints') : checkpoints'[i].u < received'
    <1>1. \A i \in 1..Len(checkpoints) :
            checkpoints[i].u \in Nat /\ checkpoints[i].u <= received
        BY CkNats DEF Advanced
    <1>2. received \in Nat
        BY DEF TypeInv, Numbers
    <1> QED BY <1>1, <1>2

LEMMA Written0 ==
    ASSUME TypeInv, NEW n \in Nat, Counted(n), n > 0
    PROVE  received' \in Nat /\ received' > received /\ received' > 0
    <1>1. received \in Nat /\ received' = received + n
        BY DEF TypeInv, Numbers, Counted
    <1> QED BY <1>1

LEMMA Unwritten ==
    ASSUME TypeInv, Counted(0)
    PROVE  received' = received /\ raw_loc' = raw_loc
    <1>1. /\ received \in Nat /\ received' = received + 0
          /\ raw_loc \in Nat /\ raw_loc' = raw_loc + 0
        BY DEF TypeInv, Numbers, Counted
    <1> QED BY <1>1

(* A call has written something when it returns.                           *)
LEMMA ReturnPassed ==
    ASSUME TypeInv, Streamed, Apart, Placed, Return
    PROVE  /\ Begun /\ Len(members) \in 1..Len(members)
           /\ \A i \in 1..Len(checkpoints) : checkpoints[i].u < received
    <1>1. pc = "blocks" /\ left.header = 0
        BY DEF Return, Idle
    <1>2. /\ Begun
          /\ \A i \in 1..Len(checkpoints) : checkpoints[i].u <= members[Len(members)].at
        BY <1>1 DEF Placed
    <1>3. Len(members) \in 1..Len(members)
        BY <1>1, <1>2, LastCall DEF Begun, InCall
    <1>4. members[Len(members)] \in Member
        BY <1>3, ElementOfSeq DEF TypeInv, Tables
    <1>5. members[Len(members)].header > 0 /\ End(Len(members)) <= received
        BY <1>3 DEF Apart
    <1>6. \A i \in 1..Len(checkpoints) : checkpoints[i].u \in Nat
        BY CkNats
    <1>7. received \in Nat
        BY DEF TypeInv, Numbers
    <1>8. members[Len(members)].at < received
        <2>1. /\ members[Len(members)].at \in Nat /\ members[Len(members)].header \in Nat
              /\ members[Len(members)].data \in Nat
            BY <1>4 DEF Member
        <2> QED BY <1>5, <1>7, <2>1 DEF End
    <1>9. members[Len(members)].at \in Nat
        BY <1>4 DEF Member
    <1> QED BY <1>2, <1>3, <1>6, <1>7, <1>8, <1>9

LEMMA AdvancedStep ==
    ASSUME TypeInv, Counts, Streamed, Advanced, Apart, Placed, [Next]_vars
    PROVE  Advanced'
    <1>0. /\ received \in Nat /\ received' \in Nat /\ received' >= received
          /\ \A i \in 1..Len(checkpoints) : checkpoints[i].u \in Nat
        BY Monotone, NextType, CkNats DEF TypeInv, Numbers
    <1>1. \A i \in 1..Len(checkpoints') : checkpoints'[i].u <= received'
        <2>1. CASE UNCHANGED checkpoints
            BY <1>0, <2>1 DEF Advanced
        <2>2. CASE Checkpoint
            <3> DEFINE n == Len(checkpoints)
            <3>1. /\ n \in Nat /\ Len(checkpoints') = n + 1
                  /\ \A i \in 1..n : checkpoints'[i] = checkpoints[i]
                  /\ checkpoints'[n + 1].u = received
                BY <2>2, Appended
            <3> QED BY <1>0, <3>1 DEF Advanced
        <2> QED BY <2>1, <2>2, Monotone
    <1>2. CASE (\E m \in Metas : AddEntry(m)) \/ (\E n \in Globals : AddGlobalMeta(n))
        <2>1. /\ pc = "ready" /\ pc' = "consider"
              /\ UNCHANGED <<counters, last_checkpoint, checkpoints>>
            BY <1>2, AddsCall, CallEffect
        <2> QED BY <1>1, <2>1 DEF Advanced, counters, SectionCkSteps
    <1>3. CASE ConsiderCheckpoint
        <2>1. /\ Counted(0) /\ pc = "consider" /\ UNCHANGED checkpoints
              /\ pc' = IF compressed_loc' - last_checkpoint > Interval THEN "checkpoint"
                       ELSE "entry"
              /\ last_checkpoint' = last_checkpoint
            BY <1>3, ConsiderEffect
        <2>2. received' = received
            BY <2>1, Unwritten
        <2> QED BY <1>1, <2>1, <2>2 DEF Advanced, SectionCkSteps
    <1>4. CASE Checkpoint
        BY <1>1, <1>4, CheckpointEffect, AfterFacts DEF Advanced, CkSteps, SectionCkSteps
    <1>5. CASE BeginEntry \/ Close \/ Fail \/ WriteBlock("header") \/ WriteBlock("data")
        <2>1. pc' \in {"blocks", "done", "failed"}
            BY <1>5 DEF BeginEntry, Close, Fail, WriteBlock
        <2> QED BY <1>1, <2>1 DEF Advanced, SectionCkSteps
    <1>6. CASE Return
        <2>1. pc' = "ready" /\ UNCHANGED <<counters, checkpoints>>
            BY <1>6 DEF Return
        <2>2. \A i \in 1..Len(checkpoints) : checkpoints[i].u < received
            BY <1>6, ReturnPassed
        <2> QED BY <1>1, <2>1, <2>2 DEF Advanced, SectionCkSteps, counters
    <1>7. CASE Finish
        <2>1. Counted(2) /\ pc' = "index_checkpoint" /\ UNCHANGED checkpoints
            BY <1>7, FinishEffect
        <2>2. received' \in Nat /\ received' > received /\ received' > 0
            BY <2>1, Written0
        <2> QED BY <1>1, <2>1, <2>2, Overtaken DEF Advanced, SectionCkSteps
    <1>8. CASE WriteIndex \/ WriteCheckpoints \/ WriteTail
        <2>1. /\ \E n \in Nat : Counted(n) /\ n > 0
              /\ pc' \in {"checkpoints_checkpoint", "tail_checkpoint", "close"}
              /\ UNCHANGED checkpoints
            BY <1>8, IndexEffect, CheckpointsEffect, TailEffect
        <2>2. received' \in Nat /\ received' > received /\ received' > 0
            BY <2>1, Written0
        <2> QED BY <1>1, <2>1, <2>2, Overtaken DEF Advanced, SectionCkSteps
    <1>9. CASE UNCHANGED vars
        BY <1>9 DEF Advanced, vars, counters
    <1> QED BY <1>2, <1>3, <1>4, <1>5, <1>6, <1>7, <1>8, <1>9 DEF Next

-----------------------------------------------------------------------------
(***************************************************************************)
(* Members                                                                 *)
(***************************************************************************)
(* The members with a block more: the last one grows, or one begins.       *)
LEMMA BlockCase ==
    ASSUME TypeInv, Placed, NEW part \in {"header", "data"}, WriteBlock(part)
    PROVE  LET k == Len(members) IN
           \/ /\ ~Begun /\ k + 1 = Len(calls) /\ Len(members') = Len(calls)
              /\ \A m \in 1..k : members'[m] = members[m]
              /\ members'[k + 1] = [at |-> received, out |-> devLen + held, header |-> 1,
                                    data |-> 0]
           \/ /\ Begun /\ k \in 1..k /\ Len(members') = k
              /\ \A m \in 1..(k - 1) : members'[m] = members[m]
              /\ members'[k].at = members[k].at /\ members'[k].out = members[k].out
              /\ members'[k].header + members'[k].data
                   = members[k].header + members[k].data + 1
              /\ members'[k].header >= members[k].header
    <1> DEFINE k == Len(members)
               new == [at |-> received, out |-> devLen + held, header |-> 1, data |-> 0]
    <1>1. /\ members \in Seq(Member) /\ k \in Nat /\ calls \in Seq(BOOLEAN)
          /\ Len(calls) \in Nat
        BY DEF TypeInv, Tables
    <1>2. pc = "blocks" /\ members' = WithBlock(part)
        BY WriteBlockEffect
    <1>3. k >= Len(calls) - 1 /\ k <= Len(calls) /\ Len(calls) > 0
        BY <1>1, <1>2, LastCall DEF Placed, InCall
    <1>4. CASE ~Begun
        <2>1. k < Len(calls) /\ k + 1 = Len(calls)
            BY <1>1, <1>3, <1>4 DEF Begun
        <2>2. members' = Append(members, new)
            BY <1>2, <2>1 DEF WithBlock
        <2> HIDE DEF new
        <2>3. /\ Len(members') = k + 1 /\ \A m \in 1..k : members'[m] = members[m]
              /\ members'[k + 1] = new
            BY <1>1, <2>2
        <2> QED BY <1>4, <2>1, <2>3 DEF new
    <1>5. CASE Begun
        <2>1. ~(k < Len(calls)) /\ k \in 1..k
            BY <1>1, <1>3, <1>5 DEF Begun
        <2>2. members' = [members EXCEPT ![k][part] = members[k][part] + 1]
            BY <1>2, <2>1 DEF WithBlock
        <2>3. members[k] \in Member
            BY <1>1, <2>1, ElementOfSeq
        <2>4. /\ Len(members') = k /\ \A m \in 1..(k - 1) : members'[m] = members[m]
              /\ members'[k] = [members[k] EXCEPT ![part] = members[k][part] + 1]
            BY <1>1, <2>1, <2>2
        <2>5. /\ members'[k].at = members[k].at /\ members'[k].out = members[k].out
              /\ members'[k].header + members'[k].data
                   = members[k].header + members[k].data + 1
              /\ members'[k].header >= members[k].header
            <3> DEFINE m == members[k]
                       w == members'[k]
            <3>0. m \in Member /\ w = [m EXCEPT ![part] = m[part] + 1]
                BY <2>3, <2>4
            <3> HIDE DEF m, w
            <3>1. CASE part = "header"
                <4>1. /\ w.at = m.at /\ w.out = m.out
                      /\ w.header = m.header + 1 /\ w.data = m.data
                    BY <3>0, <3>1 DEF Member
                <4>2. m.header \in Nat /\ m.data \in Nat
                    BY <3>0 DEF Member
                <4>3. w.header + w.data = m.header + m.data + 1 /\ w.header >= m.header
                    BY <4>1, <4>2
                <4> QED BY <4>1, <4>3 DEF m, w
            <3>2. CASE part = "data"
                <4>1. /\ w.at = m.at /\ w.out = m.out
                      /\ w.header = m.header /\ w.data = m.data + 1
                    BY <3>0, <3>2 DEF Member
                <4>2. m.header \in Nat /\ m.data \in Nat
                    BY <3>0 DEF Member
                <4>3. w.header + w.data = m.header + m.data + 1 /\ w.header >= m.header
                    BY <4>1, <4>2
                <4> QED BY <4>1, <4>3 DEF m, w
            <3> QED BY <3>1, <3>2
        <2> QED BY <1>5, <2>1, <2>4, <2>5
    <1> QED BY <1>4, <1>5

LEMMA MemberNats ==
    ASSUME TypeInv
    PROVE  /\ Len(members) \in Nat /\ Len(calls) \in Nat
           /\ \A m \in 1..Len(members) :
                /\ members[m].at \in Nat /\ members[m].header \in Nat /\ members[m].data \in Nat
                /\ members[m].out \in Nat /\ End(m) \in Nat
    <1>1. members \in Seq(Member) /\ Len(members) \in Nat /\ Len(calls) \in Nat
        BY DEF TypeInv, Tables
    <1>2. \A m \in 1..Len(members) : members[m] \in Member
        BY <1>1, ElementOfSeq
    <1>3. \A m \in 1..Len(members) :
            /\ members[m].at \in Nat /\ members[m].header \in Nat /\ members[m].data \in Nat
            /\ members[m].out \in Nat
        BY <1>2 DEF Member
    <1>4. ASSUME NEW m \in 1..Len(members) PROVE End(m) \in Nat
        <2>1. /\ members[m].at \in Nat /\ members[m].header \in Nat /\ members[m].data \in Nat
            BY <1>3
        <2> DEFINE a == members[m].at
                   h == members[m].header
                   d == members[m].data
        <2>2. End(m) = a + h + d
            BY DEF End
        <2> HIDE DEF a, h, d
        <2> QED BY <2>1, <2>2 DEF a, h, d
    <1> QED BY <1>1, <1>3, <1>4

LEMMA MembersStay ==
    ASSUME [Next]_vars
    PROVE  WriteBlock("header") \/ WriteBlock("data") \/ UNCHANGED members
    BY DEF Next, AddEntry, AddGlobalMeta, Call, ConsiderCheckpoint, Checkpoint, BeginEntry,
           Return, Finish, WriteIndex, WriteCheckpoints, WriteTail, WriteSection, Close, Fail,
           vars

LEMMA ApartBlock ==
    ASSUME TypeInv, Streamed, Advanced, Apart, Placed,
           NEW part \in {"header", "data"}, WriteBlock(part)
    PROVE  Apart'
    <1> PICK k \in Nat : k = Len(members)
        BY MemberNats
    <1>1. /\ k \in Nat /\ received \in Nat /\ received' = received + 1
          /\ UNCHANGED checkpoints /\ pc = "blocks"
        BY WriteBlockEffect DEF TypeInv, Tables, Numbers, Counted
    <1>2. \A i \in 1..Len(checkpoints) : checkpoints[i].u \in Nat
        BY CkNats
    <1>3. \A m \in 1..k :
            /\ members[m].at \in Nat /\ members[m].header \in Nat /\ members[m].data \in Nat
        BY MemberNats
    <1>4. ASSUME NEW m \in 1..k, members'[m] = members[m]
          PROVE  /\ members'[m].header > 0
                 /\ End(m)' <= received'
                 /\ \A i \in 1..Len(checkpoints) :
                      checkpoints[i].u <= members'[m].at \/ End(m)' <= checkpoints[i].u
        <2>1. End(m)' = End(m) /\ End(m) \in Nat
            BY <1>3, <1>4 DEF End
        <2>2. /\ members[m].header > 0 /\ End(m) <= received
              /\ \A i \in 1..Len(checkpoints) :
                   checkpoints[i].u <= members[m].at \/ End(m) <= checkpoints[i].u
            BY DEF Apart
        <2> QED BY <1>1, <1>4, <2>1, <2>2
    <1>5. CASE /\ ~Begun /\ Len(members') = k + 1
               /\ \A m \in 1..k : members'[m] = members[m]
               /\ members'[k + 1] = [at |-> received, out |-> devLen + held, header |-> 1,
                                     data |-> 0]
        <2>1. /\ members'[k + 1].header > 0
              /\ End(k + 1)' <= received'
              /\ \A i \in 1..Len(checkpoints) : checkpoints[i].u <= members'[k + 1].at
            <3> DEFINE new == members'[k + 1]
            <3>1. new.at = received /\ new.header = 1 /\ new.data = 0
                BY <1>5
            <3>2. End(k + 1)' = new.at + new.header + new.data
                BY DEF End
            <3> HIDE DEF new
            <3>3. End(k + 1)' = received + 1
                BY <1>1, <3>1, <3>2
            <3> QED BY <1>1, <3>1, <3>3 DEF Advanced, new
        <2>2. \A m \in 1..Len(members') : m \in 1..k \/ m = k + 1
            BY <1>1, <1>5
        <2>3. ASSUME NEW m \in 1..Len(members')
              PROVE  /\ members'[m].header > 0
                     /\ End(m)' <= received'
                     /\ \A i \in 1..Len(checkpoints) :
                          checkpoints[i].u <= members'[m].at \/ End(m)' <= checkpoints[i].u
            BY <1>4, <1>5, <2>1, <2>2
        <2> QED BY <1>1, <2>3 DEF Apart
    <1>6. CASE /\ Begun /\ k \in 1..k /\ Len(members') = k
               /\ \A m \in 1..(k - 1) : members'[m] = members[m]
               /\ members'[k].at = members[k].at
               /\ members'[k].header + members'[k].data
                    = members[k].header + members[k].data + 1
               /\ members'[k].header >= members[k].header
        <2>0. /\ members'[k].header \in Nat /\ members'[k].data \in Nat
              /\ members[k].at \in Nat /\ members[k].header \in Nat /\ members[k].data \in Nat
            <3>1. members' \in Seq(Member)
                BY WriteBlockEffect, WithBlockType
            <3>2. members'[k] \in Member
                BY <1>6, <3>1, ElementOfSeq
            <3> QED BY <1>3, <1>6, <3>2 DEF Member
        <2>1. /\ members[k].header > 0 /\ End(k) <= received
              /\ \A i \in 1..Len(checkpoints) : checkpoints[i].u <= members[k].at
            BY <1>1, <1>6 DEF Apart, Placed
        <2>2. End(k)' = End(k) + 1
            <3>1. End(k)' = members'[k].at + members'[k].header + members'[k].data
                BY <1>1, <1>6 DEF End
            <3>2. End(k) = members[k].at + members[k].header + members[k].data
                BY DEF End
            <3> DEFINE a == members[k].at
                       h == members[k].header
                       d == members[k].data
                       h1 == members'[k].header
                       d1 == members'[k].data
            <3>3. /\ a \in Nat /\ h \in Nat /\ d \in Nat /\ h1 \in Nat /\ d1 \in Nat
                  /\ h1 + d1 = h + d + 1 /\ End(k)' = a + h1 + d1 /\ End(k) = a + h + d
                BY <1>6, <2>0, <3>1, <3>2
            <3> HIDE DEF a, h, d, h1, d1
            <3> QED BY <3>3
        <2>3. End(k) \in Nat
            BY <1>6, MemberNats
        <2>4. /\ members'[k].header > 0
              /\ End(k)' <= received'
              /\ \A i \in 1..Len(checkpoints) : checkpoints[i].u <= members'[k].at
            <3>1. members'[k].header > 0
                BY <1>6, <2>0, <2>1
            <3>2. End(k)' <= received'
                BY <1>1, <2>1, <2>2, <2>3
            <3>3. \A i \in 1..Len(checkpoints) : checkpoints[i].u <= members'[k].at
                BY <1>6, <2>1
            <3> QED BY <3>1, <3>2, <3>3
        <2>5. \A m \in 1..Len(members') : m = k \/ (m \in 1..(k - 1) /\ m \in 1..k)
            BY <1>1, <1>6
        <2> QED BY <1>1, <1>4, <1>6, <2>4, <2>5 DEF Apart
    <1> QED BY <1>5, <1>6, BlockCase

LEMMA ApartStep ==
    ASSUME TypeInv, Counts, Streamed, Advanced, Apart, Placed, [Next]_vars
    PROVE  Apart'
    <1>0. /\ received \in Nat /\ received' \in Nat /\ received' >= received
          /\ \A m \in 1..Len(members) : End(m) \in Nat
        BY Monotone, NextType, MemberNats DEF TypeInv, Numbers
    <1>1. CASE WriteBlock("header") \/ WriteBlock("data")
        BY <1>1, ApartBlock
    <1>2. CASE UNCHANGED <<members, checkpoints>>
        <2>1. \A m \in 1..Len(members) : End(m)' = End(m)
            BY <1>2 DEF End
        <2> QED BY <1>0, <1>2, <2>1 DEF Apart
    <1>3. CASE UNCHANGED members /\ Checkpoint
        <2> DEFINE n == Len(checkpoints)
        <2>1. /\ n \in Nat /\ Len(checkpoints') = n + 1
              /\ \A i \in 1..n : checkpoints'[i] = checkpoints[i]
              /\ checkpoints'[n + 1].u = received
            BY <1>3, Appended
        <2>2. \A m \in 1..Len(members) : End(m)' = End(m)
            BY <1>3 DEF End
        <2>3. \A i \in 1..Len(checkpoints') : i \in 1..n \/ i = n + 1
            BY <2>1
        <2>4. ASSUME NEW m \in 1..Len(members')
              PROVE  /\ members'[m].header > 0
                     /\ End(m)' <= received'
                     /\ \A i \in 1..Len(checkpoints') :
                          checkpoints'[i].u <= members'[m].at \/ End(m)' <= checkpoints'[i].u
            <3>1. m \in 1..Len(members) /\ members'[m] = members[m] /\ End(m)' = End(m)
                BY <1>3, <2>2
            <3>2. /\ members[m].header > 0 /\ End(m) <= received
                  /\ \A i \in 1..n :
                       checkpoints[i].u <= members[m].at \/ End(m) <= checkpoints[i].u
                BY <3>1 DEF Apart
            <3> QED BY <1>0, <2>1, <2>3, <3>1, <3>2
        <2> QED BY <2>4 DEF Apart
    <1> QED BY <1>1, <1>2, <1>3, MembersStay, Monotone

LEMMA PlacedStep ==
    ASSUME TypeInv, Counts, Streamed, Advanced, Apart, Placed, [Next]_vars
    PROVE  Placed'
    <1>0. /\ Len(members) \in Nat /\ Len(calls) \in Nat
          /\ \A m \in 1..Len(members) : End(m) \in Nat
        BY MemberNats
    <1> USE DEF Begun
    <1>1. CASE (\E m \in Metas : AddEntry(m)) \/ (\E n \in Globals : AddGlobalMeta(n))
        <2>1. \E g \in BOOLEAN :
                /\ pc = "ready" /\ pc' = "consider" /\ calls' = Append(calls, g)
                /\ left'.header > 0 /\ UNCHANGED members
            BY <1>1, AddsCall, CallEffect
        <2>2. Len(calls') = Len(calls) + 1
            BY <2>1 DEF TypeInv, Tables
        <2>3. Len(members) = Len(calls)
            BY <2>1 DEF Placed, Outside, Steps, InCall
        <2> QED BY <1>0, <2>1, <2>2, <2>3 DEF Placed, Outside, Sections, InCall
    <1>2. CASE ConsiderCheckpoint
        <2>1. /\ pc = "consider" /\ pc' \in {"checkpoint", "entry"}
              /\ UNCHANGED <<members, calls, left>>
            BY <1>2, ConsiderEffect
        <2> QED BY <1>0, <2>1 DEF Placed, Outside, Sections, InCall
    <1>3. CASE Checkpoint
        <2>1. /\ pc \in CkSteps /\ pc' = After[pc] /\ UNCHANGED <<members, calls, left>>
            BY <1>3, CheckpointEffect
        <2>2. /\ pc' \in {"entry", "index", "checkpoints", "tail"}
              /\ pc' = "entry" <=> pc = "checkpoint"
            BY <2>1, AfterFacts DEF CkSteps
        <2>3. \A m \in 1..Len(members') : End(m)' <= checkpoints'[Len(checkpoints')].u
            <3>1. checkpoints'[Len(checkpoints')].u = received
                BY <1>3, Appended
            <3>2. \A m \in 1..Len(members) : End(m)' = End(m) /\ End(m) <= received
                BY <2>1 DEF Apart, End
            <3> QED BY <2>1, <3>1, <3>2
        <2>4. CASE pc = "checkpoint"
            BY <1>0, <2>1, <2>2, <2>4 DEF Placed, Outside, Sections, InCall
        <2>5. CASE pc # "checkpoint"
            <3>1. pc \in Outside /\ pc' \in {"index", "checkpoints", "tail"}
                BY <2>1, <2>2, <2>5 DEF Outside, Steps, InCall, CkSteps
            <3> QED BY <1>0, <2>1, <2>3, <3>1 DEF Placed, Outside, Sections, InCall
        <2> QED BY <2>4, <2>5
    <1>4. CASE BeginEntry
        <2>1. /\ pc = "entry" /\ pc' = "blocks"
              /\ UNCHANGED <<left, members, calls, checkpoints>>
            BY <1>4 DEF BeginEntry
        <2> QED BY <1>0, <2>1 DEF Placed, Outside, Sections, InCall
    <1>5. CASE WriteBlock("header") \/ WriteBlock("data")
        <2>1. PICK part \in {"header", "data"} : WriteBlock(part)
            BY <1>5
        <2>2. /\ pc = "blocks" /\ pc' = "blocks" /\ UNCHANGED <<calls, checkpoints>>
              /\ received \in Nat
            BY <2>1, WriteBlockEffect DEF TypeInv, Numbers
        <2> PICK k \in Nat : k = Len(members)
            BY <1>0
        <2>3. CASE /\ ~Begun /\ k + 1 = Len(calls) /\ Len(members') = Len(calls)
                   /\ members'[k + 1].at = received
            <3>1. \A i \in 1..Len(checkpoints) :
                    checkpoints[i].u <= members'[Len(members')].at
                BY <2>3 DEF Advanced
            <3> QED BY <1>0, <2>2, <2>3, <3>1 DEF Placed, Outside, Sections, InCall
        <2>4. CASE Begun /\ Len(members') = k /\ members'[k].at = members[k].at
            <3>1. \A i \in 1..Len(checkpoints) :
                    checkpoints[i].u <= members'[Len(members')].at
                BY <2>2, <2>4 DEF Placed
            <3> QED BY <1>0, <2>2, <2>4, <3>1 DEF Placed, Outside, Sections, InCall
        <2> QED BY <2>1, <2>3, <2>4, BlockCase
    <1>6. CASE Return
        <2>1. pc' = "ready" /\ UNCHANGED <<members, calls>>
            BY <1>6 DEF Return
        <2>2. Len(members) = Len(calls)
            BY <1>6, ReturnPassed
        <2> QED BY <1>0, <2>1, <2>2 DEF Placed, Outside, Sections, InCall
    <1>7. CASE Finish
        <2>1. pc = "ready" /\ pc' = "index_checkpoint" /\ UNCHANGED <<members, calls>>
            BY <1>7, FinishEffect
        <2>2. Len(members) = Len(calls)
            BY <2>1 DEF Placed, Outside, Steps, InCall
        <2> QED BY <1>0, <2>1, <2>2 DEF Placed, Outside, Sections, InCall
    <1>8. CASE WriteIndex \/ WriteCheckpoints \/ WriteTail \/ Close
        <2>1. /\ pc \in {"index", "checkpoints", "tail", "close"}
              /\ pc' \in {"checkpoints_checkpoint", "tail_checkpoint", "close", "done"}
              /\ UNCHANGED <<members, calls, checkpoints>>
            BY <1>8, IndexEffect, CheckpointsEffect, TailEffect, CloseEffect
        <2>2. /\ Len(members) = Len(calls)
              /\ \A m \in 1..Len(members) : End(m) <= checkpoints[Len(checkpoints)].u
            BY <2>1 DEF Placed, Outside, Sections, Steps, InCall
        <2>3. \A m \in 1..Len(members') : End(m)' <= checkpoints'[Len(checkpoints')].u
            BY <2>1, <2>2 DEF End
        <2> QED BY <1>0, <2>1, <2>2, <2>3 DEF Placed, Outside, InCall
    <1>9. CASE Fail
        <2>1. pc' = "failed" /\ UNCHANGED <<members, calls>>
            BY <1>9 DEF Fail
        <2> QED BY <1>0, <2>1 DEF Placed, Outside, Sections, InCall
    <1>10. CASE UNCHANGED vars
        <2>1. UNCHANGED <<pc, members, calls, left, checkpoints>>
            BY <1>10 DEF vars
        <2>2. \A m \in 1..Len(members) : End(m)' = End(m)
            BY <2>1 DEF End
        <2> QED BY <2>1, <2>2 DEF Placed
    <1> QED BY <1>1, <1>2, <1>3, <1>4, <1>5, <1>6, <1>7, <1>8, <1>9, <1>10 DEF Next

-----------------------------------------------------------------------------
(***************************************************************************)
(* The index                                                               *)
(***************************************************************************)
LEMMA IndexedFrame ==
    ASSUME TypeInv, Indexed, UNCHANGED <<scar_index, calls, members>>
    PROVE  /\ Len(scar_index') <= Len(calls')
           /\ \A i \in 1..Len(scar_index') :
                /\ scar_index'[i].entry = i
                /\ scar_index'[i].g = calls'[i]
                /\ i <= Len(members') => scar_index'[i].raw_loc = members'[i].at
    BY DEF Indexed

(* What the lines say once another is put behind them.                     *)
LEMMA LineAppended ==
    ASSUME TypeInv, Indexed, pc \in InCall, NEW n \in Nat,
           Len(scar_index) = Len(calls) - 1,
           scar_index' = Append(scar_index, Line(n)), UNCHANGED <<calls, members>>,
           Begun => members[Len(calls)].at = n, Len(members) <= Len(calls)
    PROVE  /\ Len(scar_index') = Len(calls')
           /\ scar_index'[Len(calls)].raw_loc = n
           /\ \A i \in 1..Len(scar_index') :
                /\ scar_index'[i].entry = i
                /\ scar_index'[i].g = calls'[i]
                /\ i <= Len(members') => scar_index'[i].raw_loc = members'[i].at
    <1> PICK c \in Nat : c = Len(calls)
        BY MemberNats
    <1>1. /\ scar_index \in Seq(IndexLine) /\ Len(scar_index) = c - 1 /\ c > 0
          /\ Len(members) \in Nat
        BY LastCall, MemberNats DEF TypeInv, Tables
    <1>2. Line(n) \in IndexLine
        BY LineType
    <1>3. /\ Line(n).entry = c /\ Line(n).g = calls[c] /\ Line(n).raw_loc = n
        BY DEF Line
    <1>4. /\ Len(scar_index') = c /\ scar_index'[c] = Line(n)
          /\ \A i \in 1..(c - 1) : scar_index'[i] = scar_index[i]
        BY <1>1, <1>2
    <1>5. ASSUME NEW i \in 1..c
          PROVE  /\ scar_index'[i].entry = i
                 /\ scar_index'[i].g = calls[i]
                 /\ i <= Len(members) => scar_index'[i].raw_loc = members[i].at
        <2>1. CASE i = c
            <3>1. i <= Len(members) => Begun
                BY <1>1, <2>1 DEF Begun
            <3> QED BY <1>3, <1>4, <2>1, <3>1
        <2>2. CASE i # c
            <3>1. i \in 1..(c - 1) /\ i \in 1..Len(scar_index)
                BY <1>1, <2>2
            <3> QED BY <1>4, <3>1 DEF Indexed
        <2> QED BY <2>1, <2>2
    <1> QED BY <1>3, <1>4, <1>5

LEMMA IndexedBlock ==
    ASSUME TypeInv, Placed, Indexed, NEW part \in {"header", "data"}, WriteBlock(part)
    PROVE  Indexed'
    <1> PICK k \in Nat : k = Len(members)
        BY MemberNats
    <1>1. /\ pc = "blocks" /\ pc' = "blocks" /\ UNCHANGED <<calls, loc, scar_index>>
          /\ Len(calls) \in Nat /\ Len(scar_index) \in Nat
        BY WriteBlockEffect DEF TypeInv, Tables
    <1>2. CASE /\ ~Begun /\ k + 1 = Len(calls) /\ Len(members') = Len(calls)
               /\ \A m \in 1..k : members'[m] = members[m]
               /\ members'[k + 1].at = received
        <2>1. ASSUME NEW i \in 1..Len(scar_index)
              PROVE  i <= Len(members') => scar_index[i].raw_loc = members'[i].at
            <3>1. CASE i \in 1..k
                BY <1>2, <3>1 DEF Indexed
            <3>2. CASE i \notin 1..k
                <4>1. SUFFICES ASSUME i <= k + 1
                               PROVE  scar_index[i].raw_loc = members'[i].at
                    BY <1>2
                <4>2. i = Len(calls) /\ i = k + 1
                    BY <1>1, <1>2, <3>2, <4>1
                <4>3. ~calls[Len(calls)]
                    BY <1>1, <4>2 DEF Indexed
                <4> QED BY <1>1, <1>2, <4>2, <4>3 DEF Indexed
            <3> QED BY <3>1, <3>2
        <2>2. Begun' /\ members'[Len(members')].at = received
            BY <1>1, <1>2 DEF Begun
        <2>3. calls[Len(calls)] => loc = received
            BY <1>1, <1>2 DEF Indexed
        <2> QED BY <1>1, <2>1, <2>2, <2>3 DEF Indexed, Outside, InCall
    <1>3. CASE /\ Begun /\ k \in 1..k /\ Len(members') = k
               /\ \A m \in 1..(k - 1) : members'[m] = members[m]
               /\ members'[k].at = members[k].at
        <2>1. \A m \in 1..k : members'[m].at = members[m].at
            BY <1>3
        <2>2. Begun' /\ Begun /\ members'[Len(members')].at = members[Len(members)].at
            BY <1>1, <1>3, <2>1 DEF Begun
        <2>3. ASSUME NEW i \in 1..Len(scar_index)
              PROVE  i <= Len(members') => scar_index[i].raw_loc = members'[i].at
            BY <1>1, <1>3, <2>1 DEF Indexed
        <2>4. calls[Len(calls)] => loc = members[Len(members)].at
            BY <1>1, <1>3 DEF Indexed
        <2> QED BY <1>1, <2>2, <2>3, <2>4 DEF Indexed, Outside, InCall
    <1> QED BY <1>2, <1>3, BlockCase

LEMMA IndexedStep ==
    ASSUME TypeInv, Counts, Streamed, Apart, Placed, Indexed, [Next]_vars
    PROVE  Indexed'
    <1>0. /\ Len(members) \in Nat /\ Len(calls) \in Nat /\ Len(scar_index) \in Nat
          /\ received \in Nat /\ loc \in Nat /\ raw_loc = received
        BY MemberNats DEF TypeInv, Tables, Numbers, Counts
    <1>1. CASE (\E m \in Metas : AddEntry(m)) \/ (\E n \in Globals : AddGlobalMeta(n))
        <2>1. PICK g \in BOOLEAN :
                /\ pc = "ready" /\ pc' = "consider" /\ calls' = Append(calls, g)
                /\ UNCHANGED <<members, scar_index>>
            BY <1>1, AddsCall, CallEffect
        <2>2. /\ Len(calls') = Len(calls) + 1
              /\ \A i \in 1..Len(calls) : calls'[i] = calls[i]
            BY <2>1 DEF TypeInv, Tables
        <2>3. Len(scar_index) = Len(calls)
            BY <2>1 DEF Indexed, Outside, Steps, InCall
        <2> QED BY <1>0, <2>1, <2>2, <2>3 DEF Indexed, Outside, InCall
    <1>2. CASE ConsiderCheckpoint
        <2>1. /\ pc = "consider" /\ pc' \in {"checkpoint", "entry"}
              /\ UNCHANGED <<members, calls, scar_index>>
            BY <1>2, ConsiderEffect
        <2> QED BY <2>1, IndexedFrame DEF Indexed, Outside, InCall
    <1>3. CASE Checkpoint
        <2>1. /\ pc \in CkSteps /\ pc' = After[pc] /\ UNCHANGED <<members, calls, scar_index>>
            BY <1>3, CheckpointEffect
        <2>2. /\ pc' \in {"entry", "index", "checkpoints", "tail"}
              /\ pc' = "entry" <=> pc = "checkpoint"
            BY <2>1, AfterFacts DEF CkSteps
        <2>3. CASE pc = "checkpoint"
            BY <2>1, <2>2, <2>3, IndexedFrame DEF Indexed, Outside, InCall
        <2>4. CASE pc # "checkpoint"
            <3>1. pc \in Outside /\ pc' \in {"index", "checkpoints", "tail"}
                BY <2>1, <2>2, <2>4 DEF Outside, Steps, InCall, CkSteps
            <3> QED BY <2>1, <3>1, IndexedFrame DEF Indexed, Outside, InCall
        <2> QED BY <2>3, <2>4
    <1>4. CASE BeginEntry
        <2>1. /\ pc = "entry" /\ pc' = "blocks" /\ pc \in InCall
              /\ UNCHANGED <<members, calls, counters>>
            BY <1>4 DEF BeginEntry, InCall
        <2>2. /\ Len(members) = Len(calls) - 1 /\ ~Begun /\ ~Begun'
              /\ Len(scar_index) = Len(calls) - 1
            BY <1>0, <2>1 DEF Placed, Indexed, Begun
        <2>3. CASE calls[Len(calls)]
            <3>1. UNCHANGED scar_index /\ loc' = received
                BY <1>0, <1>4, <2>3 DEF BeginEntry
            <3>2. received' = received
                BY <2>1 DEF counters
            <3> QED BY <1>0, <2>1, <2>2, <2>3, <3>1, <3>2, IndexedFrame
                    DEF Indexed, Outside, InCall
        <2>4. CASE ~calls[Len(calls)]
            <3>1. scar_index' = Append(scar_index, Line(received))
                BY <1>0, <1>4, <2>4 DEF BeginEntry
            <3>2. /\ Len(scar_index') = Len(calls')
                  /\ scar_index'[Len(calls)].raw_loc = received
                  /\ \A i \in 1..Len(scar_index') :
                       /\ scar_index'[i].entry = i
                       /\ scar_index'[i].g = calls'[i]
                       /\ i <= Len(members') => scar_index'[i].raw_loc = members'[i].at
                BY <1>0, <2>1, <2>2, <3>1, LineAppended DEF Placed
            <3>3. received' = received
                BY <2>1 DEF counters
            <3> QED BY <1>0, <2>1, <2>2, <2>4, <3>2, <3>3 DEF Indexed, Outside, InCall
        <2> QED BY <2>3, <2>4
    <1>5. CASE WriteBlock("header") \/ WriteBlock("data")
        BY <1>5, IndexedBlock
    <1>6. CASE Return
        <2>1. /\ pc = "blocks" /\ pc' = "ready" /\ pc \in InCall
              /\ UNCHANGED <<members, calls>>
            BY <1>6 DEF Return, InCall
        <2>2. Begun
            BY <1>6, ReturnPassed
        <2>3. CASE calls[Len(calls)]
            <3>1. scar_index' = Append(scar_index, Line(loc))
                BY <1>6, <2>3 DEF Return
            <3>2. Len(scar_index) = Len(calls) - 1 /\ loc = members[Len(calls)].at
                BY <2>1, <2>2, <2>3 DEF Indexed, Begun
            <3>3. /\ Len(scar_index') = Len(calls')
                  /\ \A i \in 1..Len(scar_index') :
                       /\ scar_index'[i].entry = i
                       /\ scar_index'[i].g = calls'[i]
                       /\ i <= Len(members') => scar_index'[i].raw_loc = members'[i].at
                BY <1>0, <2>1, <3>1, <3>2, LineAppended DEF Placed
            <3> QED BY <1>0, <2>1, <3>3 DEF Indexed, Outside, InCall
        <2>4. CASE ~calls[Len(calls)]
            <3>1. UNCHANGED scar_index /\ Len(scar_index) = Len(calls)
                BY <1>6, <2>1, <2>4 DEF Return, Indexed
            <3> QED BY <2>1, <3>1, IndexedFrame DEF Indexed, Outside, InCall
        <2> QED BY <2>3, <2>4
    <1>7. CASE Finish \/ WriteIndex \/ WriteCheckpoints \/ WriteTail \/ Close
        <2>1. /\ pc \in Outside
              /\ pc' \in {"index_checkpoint", "checkpoints_checkpoint", "tail_checkpoint",
                          "close", "done"}
              /\ UNCHANGED <<members, calls, scar_index>>
            BY <1>7, FinishEffect, IndexEffect, CheckpointsEffect, TailEffect, CloseEffect
            DEF Outside, Steps, InCall
        <2> QED BY <2>1, IndexedFrame DEF Indexed, InCall
    <1>8. CASE Fail
        <2>1. pc' = "failed" /\ UNCHANGED <<members, calls, scar_index>>
            BY <1>8 DEF Fail
        <2> QED BY <2>1, IndexedFrame DEF Indexed, Outside, InCall
    <1>9. CASE UNCHANGED vars
        BY <1>9 DEF Indexed, vars, counters, Begun
    <1> QED BY <1>1, <1>2, <1>3, <1>4, <1>5, <1>6, <1>7, <1>8, <1>9 DEF Next

-----------------------------------------------------------------------------
(***************************************************************************)
(* Spacing                                                                 *)
(***************************************************************************)
LEMMA NearStep ==
    ASSUME TypeInv, Counts, Placed, Near, [Next]_vars
    PROVE  Near'
    <1>0. devLen' \in Nat /\ compressed_loc' = devLen'
        BY NextType DEF TypeInv, Numbers, Counts
    <1>a. last_checkpoint \in Nat /\ Interval \in Nat
        BY IntervalAssumption DEF TypeInv, Numbers
    <1>1. CASE ConsiderCheckpoint
        <2>1. /\ held' = 0 /\ last_checkpoint' = last_checkpoint
              /\ pc' = IF compressed_loc' - last_checkpoint > Interval THEN "checkpoint"
                       ELSE "entry"
            BY <1>1, ConsiderEffect
        <2>2. CASE compressed_loc' - last_checkpoint > Interval
            BY <2>1, <2>2 DEF Near
        <2>3. CASE ~(compressed_loc' - last_checkpoint > Interval)
            <3>1. PICK d : d \in Nat /\ d = devLen'
                BY <1>0
            <3>2. d \in Nat
                BY <3>1
            <3>3. ~(d - last_checkpoint > Interval)
                BY <1>0, <2>3, <3>1
            <3>4. d - last_checkpoint <= Interval
                BY <1>a, <3>2, <3>3
            <3> QED BY <2>1, <3>1, <3>4 DEF Near
        <2> QED BY <2>2, <2>3
    <1>2. CASE Checkpoint
        <2>1. held' = 0 /\ last_checkpoint' = devLen'
            BY <1>0, <1>2, CheckpointEffect
        <2>2. PICK d : d \in Nat /\ d = devLen'
            BY <1>0
        <2>3. d \in Nat
            BY <2>2
        <2>4. d - d <= Interval
            BY <1>a, <2>3
        <2> QED BY <2>1, <2>2, <2>4 DEF Near
    <1>3. CASE BeginEntry
        <2>1. pc = "entry" /\ UNCHANGED <<held, devLen, last_checkpoint>>
            BY <1>3 DEF BeginEntry, counters
        <2> QED BY <2>1 DEF Near
    <1>4. CASE WriteBlock("header") \/ WriteBlock("data")
        <2>1. PICK part \in {"header", "data"} : WriteBlock(part)
            BY <1>4
        <2>2. pc' = "blocks" /\ calls' = calls
            BY <2>1, WriteBlockEffect
        <2>3. Begun'
            BY <2>1, <2>2, BlockCase DEF Begun
        <2> QED BY <2>2, <2>3 DEF Near
    <1>5. CASE UNCHANGED vars
        BY <1>5 DEF Near, Begun, vars, counters
    <1>6. CASE \/ \E m \in Metas : AddEntry(m)
               \/ \E n \in Globals : AddGlobalMeta(n)
               \/ Return \/ Finish \/ WriteIndex \/ WriteCheckpoints \/ WriteTail \/ Close
               \/ Fail
        <2>1. pc' \notin {"entry", "blocks"}
            BY <1>6 DEF AddEntry, AddGlobalMeta, Call, Return, Finish, WriteIndex,
                        WriteCheckpoints, WriteTail, Close, Fail
        <2> QED BY <2>1 DEF Near
    <1> QED BY <1>1, <1>2, <1>3, <1>4, <1>5, <1>6 DEF Next

(* A member's distance from the checkpoint before it.                      *)
Reach(e) ==
    \/ members[e].out <= Interval
    \/ \E i \in 1..Len(checkpoints) :
         /\ checkpoints[i].u <= members[e].at
         /\ members[e].out - checkpoints[i].c \in 0..Interval

LEMMA NewReach ==
    ASSUME TypeInv, Streamed, Advanced, Near, pc = "blocks", ~Begun,
           NEW a, a = received, NEW o, o = devLen + held
    PROVE  \/ o <= Interval
           \/ \E i \in 1..Len(checkpoints) :
                checkpoints[i].u <= a /\ o - checkpoints[i].c \in 0..Interval
    <1> DEFINE n == Len(checkpoints)
    <1>1. /\ n \in Nat /\ devLen \in Nat /\ Interval \in Nat
          /\ held = 0 /\ devLen - last_checkpoint <= Interval /\ last_checkpoint \in Nat
          /\ Len(streams) = n + 1 /\ last_checkpoint = streams[n + 1].at
        BY IntervalAssumption DEF TypeInv, CkTables, Numbers, Near, Streamed
    <1>2. CASE n = 0
        BY <1>1, <1>2 DEF Streamed
    <1>3. CASE n # 0
        <2>1. n \in 1..n
            BY <1>1, <1>3
        <2>2. /\ streams[n + 1].at = checkpoints[n].c /\ checkpoints[n].c <= devLen
              /\ checkpoints[n].u <= received
            BY <2>1 DEF Streamed, Advanced
        <2>3. o - checkpoints[n].c \in 0..Interval
            BY <1>1, <2>2
        <2> QED BY <2>1, <2>2, <2>3
    <1> QED BY <1>2, <1>3

LEMMA SpacedStep ==
    ASSUME TypeInv, Counts, Streamed, Advanced, Placed, Spaced, [Next]_vars
    PROVE  Spaced'
    <1>1. \A e \in 1..Len(members) : Reach(e)
        BY DEF Spaced, SpacingBounded, Reach
    <1>2. Near'
        BY NearStep DEF Spaced
    <1>3. CASE UNCHANGED <<members, checkpoints>>
        BY <1>2, <1>3 DEF Spaced, SpacingBounded
    <1>4. CASE UNCHANGED members /\ Checkpoint
        <2> DEFINE n == Len(checkpoints)
        <2>1. /\ n \in Nat /\ Len(checkpoints') = n + 1
              /\ \A i \in 1..n : checkpoints'[i] = checkpoints[i]
            BY <1>4, Appended
        <2>2. \A i \in 1..n : i \in 1..Len(checkpoints')
            BY <2>1
        <2>3. SpacingBounded'
            BY <1>1, <1>4, <2>1, <2>2 DEF SpacingBounded, Reach
        <2> QED BY <1>2, <2>3 DEF Spaced
    <1>5. CASE WriteBlock("header") \/ WriteBlock("data")
        <2>1. PICK part \in {"header", "data"} : WriteBlock(part)
            BY <1>5
        <2>2. UNCHANGED checkpoints /\ pc = "blocks"
            BY <2>1, WriteBlockEffect
        <2> PICK k \in Nat : k = Len(members)
            BY MemberNats
        <2>3. CASE /\ ~Begun /\ Len(members') = k + 1
                   /\ \A m \in 1..k : members'[m] = members[m]
                   /\ members'[k + 1].at = received /\ members'[k + 1].out = devLen + held
            <3>1. ASSUME NEW e \in 1..Len(members')
                  PROVE  \/ members'[e].out <= Interval
                         \/ \E i \in 1..Len(checkpoints) :
                              /\ checkpoints[i].u <= members'[e].at
                              /\ members'[e].out - checkpoints[i].c \in 0..Interval
                <4>1. CASE e \in 1..k
                    BY <1>1, <2>3, <4>1 DEF Reach
                <4>2. CASE e = k + 1
                    <5> PICK a : a = members'[e].at
                        OBVIOUS
                    <5> PICK o : o = members'[e].out
                        OBVIOUS
                    <5>1. a = received /\ o = devLen + held
                        BY <2>3, <4>2
                    <5>2. \/ o <= Interval
                          \/ \E i \in 1..Len(checkpoints) :
                               checkpoints[i].u <= a /\ o - checkpoints[i].c \in 0..Interval
                        BY <2>2, <2>3, <5>1, NewReach DEF Spaced
                    <5> QED BY <5>2
                <4> QED BY <2>3, <4>1, <4>2
            <3> QED BY <1>2, <2>2, <3>1 DEF Spaced, SpacingBounded
        <2>4. CASE /\ k \in 1..k /\ Len(members') = k
                   /\ \A m \in 1..(k - 1) : members'[m] = members[m]
                   /\ members'[k].at = members[k].at /\ members'[k].out = members[k].out
            <3>1. \A e \in 1..k : members'[e].at = members[e].at /\ members'[e].out = members[e].out
                BY <2>4
            <3>2. \A e \in 1..Len(members') :
                         \/ members'[e].out <= Interval
                         \/ \E i \in 1..Len(checkpoints) :
                              /\ checkpoints[i].u <= members'[e].at
                              /\ members'[e].out - checkpoints[i].c \in 0..Interval
                BY <1>1, <2>4, <3>1 DEF Reach
            <3> QED BY <1>2, <2>2, <3>2 DEF Spaced, SpacingBounded
        <2> QED BY <2>1, <2>3, <2>4, BlockCase
    <1> QED BY <1>3, <1>4, <1>5, MembersStay, Monotone

-----------------------------------------------------------------------------
(***************************************************************************)
(* The sections                                                            *)
(***************************************************************************)
LEMMA LocatedStep ==
    ASSUME TypeInv, Counts, Streamed, Located, [Next]_vars
    PROVE  Located'
    <1>0. /\ tail \in [index : Int, checkpoints : Int] /\ layout \in Layout
          /\ Len(checkpoints) \in Nat
        BY DEF TypeInv, Records, CkTables
    <1>1. CASE Checkpoint
        <2> DEFINE n == Len(checkpoints)
        <2>1. /\ n \in Nat /\ Len(checkpoints') = n + 1
              /\ \A i \in 1..n : checkpoints'[i] = checkpoints[i]
              /\ checkpoints'[n + 1].c = devLen'
              /\ pc \in CkSteps /\ pc' = After[pc] /\ UNCHANGED <<tail, layout>>
            BY <1>1, Appended, CheckpointEffect
        <2>2. LastC' = devLen'
            BY <2>1 DEF LastC
        <2>3. n > 0 => Before(1)' = LastC
            BY <2>1 DEF LastC, Before
        <2>4. n > 1 => Before(2)' = Before(1)
            BY <2>1 DEF Before
        <2>5. CASE pc = "checkpoint"
            BY <2>1, <2>5, AfterFacts DEF Located
        <2>6. CASE pc = "index_checkpoint"
            BY <2>1, <2>2, <2>6, AfterFacts DEF Located
        <2>7. CASE pc = "checkpoints_checkpoint"
            <3>1. n > 0
                BY <2>7, HereType DEF Sections
            <3> QED BY <2>1, <2>2, <2>3, <2>7, <3>1, AfterFacts DEF Located
        <2>8. CASE pc = "tail_checkpoint"
            BY <2>1, <2>2, <2>3, <2>4, <2>8, AfterFacts DEF Located
        <2> QED BY <2>1, <2>5, <2>6, <2>7, <2>8 DEF CkSteps
    <1>2. CASE WriteIndex
        <2>1. LastC' = LastC /\ LastC = devLen /\ Here = LastC
            BY <1>2, IndexEffect DEF Located, LastC, Here
        <2> QED BY <1>0, <1>2, <2>1, IndexEffect DEF Located, Layout
    <1>3. CASE WriteCheckpoints
        <2>1. /\ LastC' = LastC /\ LastC = devLen /\ Here = LastC /\ Before(1)' = Before(1)
              /\ Len(checkpoints') = Len(checkpoints)
            BY <1>3, CheckpointsEffect DEF Located, LastC, Here, Before
        <2> QED BY <1>0, <1>3, <2>1, CheckpointsEffect DEF Located, Layout
    <1>4. CASE WriteTail
        <2>1. /\ Before(1)' = Before(1) /\ Before(2)' = Before(2)
              /\ Len(checkpoints') = Len(checkpoints)
            BY <1>4, TailEffect DEF Before
        <2> QED BY <1>0, <1>4, <2>1, TailEffect DEF Located, Layout
    <1>5. CASE Close
        <2>1. /\ Before(1)' = Before(1) /\ Before(2)' = Before(2)
              /\ Len(checkpoints') = Len(checkpoints)
            BY <1>5, CloseEffect DEF Before
        <2>2. devLen' \in Nat
            BY NextType DEF TypeInv, Numbers
        <2>3. layout'.eof + 1 = devLen'
            BY <1>0, <1>5, <2>2, CloseEffect DEF Layout
        <2> QED BY <1>0, <1>5, <2>1, <2>3, CloseEffect DEF Located, Layout
    <1>6. CASE \/ \E m \in Metas : AddEntry(m)
               \/ \E n \in Globals : AddGlobalMeta(n)
               \/ ConsiderCheckpoint \/ BeginEntry \/ WriteBlock("header")
               \/ WriteBlock("data") \/ Return \/ Finish \/ Fail
        <2>1. pc' \in {"consider", "checkpoint", "entry", "blocks", "ready",
                      "index_checkpoint", "failed"}
            BY <1>6 DEF AddEntry, AddGlobalMeta, Call, ConsiderCheckpoint, BeginEntry,
                        WriteBlock, Return, Finish, Fail
        <2> QED BY <2>1 DEF Located
    <1>7. CASE UNCHANGED vars
        BY <1>7 DEF Located, LastC, Before, vars, counters
    <1> QED BY <1>1, <1>2, <1>3, <1>4, <1>5, <1>6, <1>7 DEF Next

-----------------------------------------------------------------------------
(***************************************************************************)
(* The theorems                                                            *)
(***************************************************************************)
LEMMA InitIInv == Init => IInv
    <1> SUFFICES ASSUME Init PROVE IInv
        OBVIOUS
    <1>1. TypeInv /\ Counts
        BY TypeInit
    <1>2. /\ pc = "ready" /\ Len(calls) = 0 /\ Len(members) = 0 /\ Len(checkpoints) = 0
          /\ Len(scar_index) = 0 /\ Len(streams) = 1
          /\ streams[1].at = 0 /\ streams[1].raw = 0 /\ last_checkpoint = 0
        BY DEF Init
    <1>3. Streamed /\ Ordered /\ Advanced
        BY <1>2 DEF Streamed, Ordered, Advanced, SectionCkSteps
    <1>4. Apart /\ Placed /\ Indexed
        BY <1>2 DEF Apart, Placed, Indexed, Begun, Sections
    <1>5. Spaced /\ Located
        BY <1>2 DEF Spaced, SpacingBounded, Near, Located
    <1> QED BY <1>1, <1>3, <1>4, <1>5 DEF IInv

LEMMA NextIInv == IInv /\ [Next]_vars => IInv'
    <1> SUFFICES ASSUME IInv, [Next]_vars PROVE IInv'
        OBVIOUS
    <1> USE DEF IInv
    <1>1. TypeInv' /\ Counts'
        BY NextType
    <1>2. Streamed' /\ Ordered' /\ Advanced'
        BY StreamedStep, OrderedStep, AdvancedStep
    <1>3. Apart' /\ Placed' /\ Indexed'
        BY ApartStep, PlacedStep, IndexedStep
    <1>4. Spaced' /\ Located'
        BY SpacedStep, LocatedStep
    <1> QED BY <1>1, <1>2, <1>3, <1>4

LEMMA RustInvariant == Spec => []IInv
    BY InitIInv, NextIInv, PTL DEF Spec

(* Every line of the index of a Rust archive is that of its call and has   *)
(* the location of its first block, global metadata too.                   *)
THEOREM RustIndexTheorem == Spec => []IndexSound
    <1>1. IInv => IndexSound
        BY DEF IInv, Indexed, IndexSound, Outside, Steps, InCall
    <1> QED BY <1>1, RustInvariant, PTL

(* Whatever the compressor holds back and when, at most checkpoint_interval *)
(* of output lies between an entry and the checkpoint before it.           *)
THEOREM RustSpacingTheorem == Spec => []SpacingBounded
    <1>1. IInv => SpacingBounded
        BY DEF IInv, Spaced
    <1> QED BY <1>1, RustInvariant, PTL

LEMMA TableSeq ==
    ASSUME NEW S, NEW n \in Nat, NEW f \in [1..n -> S]
    PROVE  f \in Seq(S) /\ Len(f) = n
    BY SeqDef

LEMMA ButLastFacts ==
    ASSUME NEW S, NEW s \in Seq(S), Len(s) > 0
    PROVE  /\ ButLast(s) \in Seq(S) /\ Len(ButLast(s)) = Len(s) - 1
           /\ \A i \in 1..(Len(s) - 1) : ButLast(s)[i] = s[i]
    <1> PICK k \in Nat : k = Len(s) - 1
        OBVIOUS
    <1>1. ButLast(s) = [i \in 1..k |-> s[i]]
        BY DEF ButLast
    <1>2. \A i \in 1..k : s[i] \in S
        BY ElementOfSeq
    <1>3. ButLast(s) \in [1..k -> S]
        BY <1>1, <1>2
    <1> QED BY <1>1, <1>3, TableSeq

(* The members in the archive, and the lines of its index.                 *)
LEMMA ArchiveTables ==
    ASSUME IInv, pc = "done"
    PROVE  /\ Archive.files \in Seq([off : Nat, header : Nat, data : Nat])
           /\ Archive.lines \in Seq([g : BOOLEAN, file : Nat, len : Nat \ {0}])
           /\ Len(Archive.files) = Len(members)
           /\ \A m \in 1..Len(members) :
                Archive.files[m] = [off |-> members[m].at, header |-> members[m].header,
                                    data |-> members[m].data]
    <1> PICK n \in Nat : n = Len(members)
        BY MemberNats DEF IInv
    <1>1. Len(scar_index) = n /\ scar_index \in Seq(IndexLine)
        BY DEF IInv, Indexed, Placed, Begun, Outside, Steps, InCall, TypeInv, Tables
    <1>2. \A m \in 1..n : scar_index[m] \in IndexLine /\ scar_index[m].raw_loc = members[m].at
        BY <1>1, ElementOfSeq DEF IInv, Indexed
    <1>3. \A m \in 1..n : members[m].header \in Nat /\ members[m].data \in Nat
        BY MemberNats DEF IInv
    <1> DEFINE f == [k \in 1..n |-> [off |-> scar_index[k].raw_loc,
                                    header |-> members[k].header, data |-> members[k].data]]
               l == [k \in 1..n |-> [g |-> scar_index[k].g, file |-> scar_index[k].entry,
                                    len |-> 1]]
    <1>4. Archive.files = f /\ Archive.lines = l
        BY <1>1 DEF Archive
    <1>5. \A m \in 1..n : /\ scar_index[m].raw_loc \in Nat /\ scar_index[m].g \in BOOLEAN
                          /\ scar_index[m].entry \in Nat
        BY <1>2 DEF IndexLine
    <1>6. f \in [1..n -> [off : Nat, header : Nat, data : Nat]]
        BY <1>3, <1>5
    <1>7. l \in [1..n -> [g : BOOLEAN, file : Nat, len : Nat \ {0}]]
        BY <1>5
    <1>8. \A m \in 1..n : f[m] = [off |-> members[m].at, header |-> members[m].header,
                                  data |-> members[m].data]
        BY <1>2
    <1> HIDE DEF f, l
    <1>9. f \in Seq([off : Nat, header : Nat, data : Nat]) /\ Len(f) = n
        BY <1>6, TableSeq
    <1>10. l \in Seq([g : BOOLEAN, file : Nat, len : Nat \ {0}])
        BY <1>7, TableSeq
    <1> QED BY <1>4, <1>8, <1>9, <1>10

(* What the archive's checkpoints and streams are.                         *)
LEMMA ArchiveChecks ==
    ASSUME IInv, pc = "done"
    PROVE  \E n \in Nat :
           /\ n > 1 /\ Len(checkpoints) = n + 1 /\ Len(streams) = n + 2
           /\ Archive.cks \in Seq([c : Nat, u : Nat]) /\ Len(Archive.cks) = n
           /\ \A i \in 1..n : Archive.cks[i] = checkpoints[i]
           /\ Archive.streams \in Seq([at : Nat, raw : Nat]) /\ Len(Archive.streams) = n + 1
           /\ \A i \in 1..(n + 1) : Archive.streams[i] = streams[i]
    <1>1. /\ checkpoints \in Seq([c : Nat, u : Nat]) /\ streams \in Seq([at : Nat, raw : Nat])
          /\ Len(checkpoints) \in Nat /\ Len(checkpoints) > 2
          /\ Len(streams) = Len(checkpoints) + 1
        BY DEF IInv, TypeInv, CkTables, Located, Streamed
    <1>2. Archive.cks = ButLast(checkpoints) /\ Archive.streams = ButLast(streams)
        BY DEF Archive
    <1>3. PICK n \in Nat : n > 1 /\ Len(checkpoints) = n + 1 /\ Len(streams) = n + 2
        <2>1. PICK c \in Nat : c = Len(checkpoints)
            BY <1>1
        <2>2. c > 2 /\ Len(streams) = c + 1
            BY <1>1, <2>1
        <2>3. c - 1 \in Nat /\ c - 1 > 1 /\ c = (c - 1) + 1 /\ c + 1 = (c - 1) + 2
            BY <2>2
        <2> QED BY <2>1, <2>2, <2>3
    <1>4. Len(checkpoints) > 0 /\ Len(streams) > 0
        BY <1>3
    <1>5. /\ ButLast(checkpoints) \in Seq([c : Nat, u : Nat])
          /\ Len(ButLast(checkpoints)) = n
          /\ \A i \in 1..n : ButLast(checkpoints)[i] = checkpoints[i]
        <2>1. /\ ButLast(checkpoints) \in Seq([c : Nat, u : Nat])
              /\ Len(ButLast(checkpoints)) = Len(checkpoints) - 1
              /\ \A i \in 1..(Len(checkpoints) - 1) : ButLast(checkpoints)[i] = checkpoints[i]
            BY ONLY <1>1, <1>4, ButLastFacts, Zenon
        <2>2. Len(checkpoints) - 1 = n
            BY <1>3
        <2> QED BY ONLY <2>1, <2>2, Zenon
    <1>6. /\ ButLast(streams) \in Seq([at : Nat, raw : Nat])
          /\ Len(ButLast(streams)) = n + 1
          /\ \A i \in 1..(n + 1) : ButLast(streams)[i] = streams[i]
        <2>1. /\ ButLast(streams) \in Seq([at : Nat, raw : Nat])
              /\ Len(ButLast(streams)) = Len(streams) - 1
              /\ \A i \in 1..(Len(streams) - 1) : ButLast(streams)[i] = streams[i]
            BY ONLY <1>1, <1>4, ButLastFacts, Zenon
        <2>2. Len(streams) - 1 = n + 1
            BY <1>3
        <2> QED BY ONLY <2>1, <2>2, Zenon
    <1> QED BY <1>2, <1>3, <1>5, <1>6

(* A finished archive is a good one.                                       *)
LEMMA Finished == ASSUME IInv, pc = "done" PROVE ArchiveOK(Archive)
    <1> DEFINE a == Archive
    <1>1. PICK n \in Nat :
            /\ n > 1 /\ Len(checkpoints) = n + 1 /\ Len(streams) = n + 2
            /\ a.cks \in Seq([c : Nat, u : Nat]) /\ Len(a.cks) = n
            /\ \A i \in 1..n : a.cks[i] = checkpoints[i]
            /\ a.streams \in Seq([at : Nat, raw : Nat]) /\ Len(a.streams) = n + 1
            /\ \A i \in 1..(n + 1) : a.streams[i] = streams[i]
        BY ArchiveChecks
    <1>2. /\ a.gzip = Gzip /\ a.bodyLen = checkpoints[n + 1].u
          /\ a.idxAt = tail.index /\ a.ckAt = tail.checkpoints /\ a.devLen = devLen
        BY <1>1 DEF Archive
    <1>3. /\ a.files \in Seq([off : Nat, header : Nat, data : Nat])
          /\ a.lines \in Seq([g : BOOLEAN, file : Nat, len : Nat \ {0}])
          /\ Len(a.files) = Len(members)
          /\ \A m \in 1..Len(members) :
               a.files[m] = [off |-> members[m].at, header |-> members[m].header,
                             data |-> members[m].data]
        BY ArchiveTables
    <1> HIDE DEF a
    <1>4. /\ \A i \in 1..(n + 1) : checkpoints[i].c \in Nat /\ checkpoints[i].u \in Nat
          /\ \A i \in 1..(n + 1) : streams[i + 1].at = checkpoints[i].c
          /\ \A i \in 1..(n + 1) : streams[i + 1].raw = checkpoints[i].u
        BY <1>1, CkNats DEF IInv, Streamed
    <1>5. /\ \A i, j \in 1..(n + 2) : i < j => streams[i].at < streams[j].at
          /\ \A i, j \in 1..(n + 1) : i < j => checkpoints[i].u < checkpoints[j].u
        BY <1>1 DEF IInv, Ordered
    <1>6. ASSUME NEW i \in 1..(n + 1), NEW j \in 1..(n + 1), i < j
          PROVE  checkpoints[i].c < checkpoints[j].c
        <2>1. i + 1 \in 1..(n + 2) /\ j + 1 \in 1..(n + 2) /\ i + 1 < j + 1
            BY <1>6
        <2> QED BY <1>4, <1>5, <2>1
    <1>7. a.idxAt = checkpoints[n - 1].c /\ a.ckAt = checkpoints[n].c
        BY <1>1, <1>2 DEF IInv, Located, Before
    <1>8. /\ {a.bodyLen, a.idxAt, a.ckAt, a.devLen} \subseteq Nat
          /\ a.idxAt < a.ckAt /\ a.ckAt < a.devLen
        <2>1. /\ n - 1 \in 1..(n + 1) /\ n \in 1..(n + 1) /\ n + 1 \in 1..(n + 1)
              /\ n - 1 < n /\ n < n + 1
            BY <1>1
        <2>2. checkpoints[n - 1].c < checkpoints[n].c /\ checkpoints[n].c < checkpoints[n + 1].c
            BY <1>6, <2>1
        <2>3. checkpoints[n + 1].c <= devLen /\ devLen \in Nat
            BY <1>1, <2>1 DEF IInv, Streamed, TypeInv, Numbers
        <2>4. /\ checkpoints[n - 1].c \in Nat /\ checkpoints[n].c \in Nat
              /\ checkpoints[n + 1].c \in Nat /\ checkpoints[n + 1].u \in Nat
            BY <1>4, <2>1
        <2> QED BY <1>2, <1>7, <2>2, <2>3, <2>4
    <1>9. a.streams # << >> /\ a.streams[1] = [at |-> 0, raw |-> 0]
        <2>1. 1 \in 1..(n + 1) /\ a.streams[1] = streams[1] /\ 1 \in 1..Len(a.streams)
            BY <1>1
        <2>2. streams[1].at = 0 /\ streams[1].raw = 0
            BY DEF IInv, Streamed
        <2>3. a.streams[1] \in [at : Nat, raw : Nat]
            BY <1>1, <2>1, ElementOfSeq
        <2> QED BY <1>1, <2>1, <2>2, <2>3
    <1>10. /\ \A i, j \in 1..Len(a.streams) : i < j => a.streams[i].at < a.streams[j].at
           /\ \A i, j \in 1..Len(a.cks) : i < j => a.cks[i].u < a.cks[j].u
        <2>1. ASSUME NEW i \in 1..(n + 1), NEW j \in 1..(n + 1), i < j
              PROVE  a.streams[i].at < a.streams[j].at
            <3>1. i \in 1..(n + 2) /\ j \in 1..(n + 2)
                OBVIOUS
            <3> QED BY <1>1, <1>5, <2>1, <3>1
        <2>2. ASSUME NEW i \in 1..n, NEW j \in 1..n, i < j
              PROVE  a.cks[i].u < a.cks[j].u
            <3>1. i \in 1..(n + 1) /\ j \in 1..(n + 1)
                OBVIOUS
            <3> QED BY <1>1, <1>5, <2>2, <3>1
        <2> QED BY <1>1, <2>1, <2>2
    <1>11. \A i \in 1..Len(a.cks) : a.cks[i].c <= a.ckAt
        <2>1. ASSUME NEW i \in 1..n PROVE checkpoints[i].c <= checkpoints[n].c
            <3>1. i \in 1..(n + 1) /\ n \in 1..(n + 1) /\ (i = n \/ i < n)
                BY <1>1
            <3>2. checkpoints[i].c \in Nat /\ checkpoints[n].c \in Nat
                BY <1>4, <3>1
            <3>3. i < n => checkpoints[i].c < checkpoints[n].c
                BY <1>6, <3>1
            <3> QED BY <3>1, <3>2, <3>3
        <2> QED BY <1>1, <1>7, <2>1
    <1>12. ASSUME NEW i \in 1..n
           PROVE  a.streams[i + 1] = [at |-> a.cks[i].c, raw |-> a.cks[i].u]
        <2>1. i + 1 \in 1..(n + 1) /\ i + 1 \in 1..Len(a.streams)
            BY <1>1
        <2>2. a.streams[i + 1] \in [at : Nat, raw : Nat]
            BY <1>1, <2>1, ElementOfSeq
        <2>3. a.streams[i + 1].at = a.cks[i].c /\ a.streams[i + 1].raw = a.cks[i].u
            <3>1. a.streams[i + 1] = streams[i + 1] /\ a.cks[i] = checkpoints[i]
                BY <1>1, <2>1
            <3>2. /\ streams[i + 1].at = checkpoints[i].c
                  /\ streams[i + 1].raw = checkpoints[i].u
                BY <1>4, <2>1
            <3> QED BY <3>1, <3>2
        <2> QED BY <2>2, <2>3
    <1>13. ASSUME ~Gzip, NEW i \in 1..n PROVE a.cks[i].c = a.cks[i].u
        <2>1. a.cks[i] = checkpoints[i] /\ i \in 1..Len(checkpoints)
            BY <1>1
        <2> QED BY <1>13, <2>1 DEF IInv, Streamed
    <1>14. ASSUME NEW m \in 1..Len(a.files)
           PROVE  LET f == a.files[m] IN
                  /\ f.off + f.header + f.data <= a.bodyLen
                  /\ \A i \in 1..Len(a.cks) :
                       a.cks[i].u <= f.off \/ f.off + f.header + f.data <= a.cks[i].u
        <2> DEFINE f == a.files[m]
        <2>1. m \in 1..Len(members)
            BY <1>3
        <2>2. f.off + f.header + f.data = End(m) /\ f.off = members[m].at
            <3>1. /\ f.off = members[m].at /\ f.header = members[m].header
                  /\ f.data = members[m].data
                <4>1. f = [off |-> members[m].at, header |-> members[m].header,
                           data |-> members[m].data]
                    BY <1>3, <2>1
                <4> HIDE DEF f
                <4> QED BY <4>1
            <3> HIDE DEF f
            <3> QED BY <3>1 DEF End
        <2>3. End(m) <= checkpoints[n + 1].u
            BY <1>1, <2>1 DEF IInv, Placed, Sections
        <2>4. \A i \in 1..n : checkpoints[i].u <= members[m].at \/ End(m) <= checkpoints[i].u
            BY <1>1, <2>1 DEF IInv, Apart
        <2> HIDE DEF f
        <2>5. f.off + f.header + f.data <= a.bodyLen
            BY <1>2, <2>2, <2>3
        <2>6. \A i \in 1..Len(a.cks) :
                a.cks[i].u <= f.off \/ f.off + f.header + f.data <= a.cks[i].u
            BY <1>1, <2>2, <2>4
        <2> QED BY <2>5, <2>6 DEF f
    <1>15. IF a.gzip
           THEN /\ Len(a.streams) = Len(a.cks) + 1
                /\ \A i \in 1..Len(a.cks) :
                     a.streams[i + 1] = [at |-> a.cks[i].c, raw |-> a.cks[i].u]
           ELSE \A i \in 1..Len(a.cks) : a.cks[i].c = a.cks[i].u
        BY <1>1, <1>2, <1>12, <1>13
    <1>16. a.gzip \in BOOLEAN
        BY <1>2, GzipAssumption
    <1>17. ArchiveOK(a)
        BY <1>1, <1>3, <1>8, <1>9, <1>10, <1>11, <1>14, <1>15, <1>16 DEF ArchiveOK
    <1> QED BY <1>17 DEF a

(* Every archive the Rust writer finishes, with whatever entries, global   *)
(* metadata, interval and compressor, is well formed: its index and        *)
(* checkpoints are those its tail points at, its checkpoints start streams *)
(* and never split a member.                                               *)
THEOREM RustWellFormedTheorem == Spec => []WellFormed
    <1>1. ASSUME IInv PROVE WellFormed
        <2> SUFFICES ASSUME pc = "done"
                     PROVE  /\ ArchiveOK(Archive)
                            /\ tail = [index |-> layout.index, checkpoints |-> layout.checkpoints]
                            /\ layout.eof + 1 = devLen
            BY DEF WellFormed
        <2>1. ArchiveOK(Archive)
            BY <1>1, Finished
        <2>2. /\ tail.index = layout.index /\ tail.checkpoints = layout.checkpoints
              /\ layout.eof + 1 = devLen /\ tail \in [index : Int, checkpoints : Int]
            BY <1>1 DEF IInv, Located, TypeInv, Records
        <2>3. tail = [index |-> layout.index, checkpoints |-> layout.checkpoints]
            BY <2>2
        <2> QED BY <2>1, <2>2, <2>3
    <1> QED BY <1>1, RustInvariant, PTL

(***************************************************************************)
(* Operators of the reader                                                 *)
(***************************************************************************)
(* The natural numbers are well-founded, in the form used below.           *)
LEMMA Descends == \E R : IsWellFoundedOn(R, Nat) /\ \A x, y \in Nat : y < x => <<y, x>> \in R
    <1> DEFINE R == OpToRel(<, Nat)
    <1>1. IsWellFoundedOn(R, Nat)
        BY NatLessThanWellFounded
    <1>2. ASSUME NEW x \in Nat, NEW y \in Nat, y < x PROVE <<y, x>> \in R
        BY <1>2 DEF OpToRel
    <1> QED BY <1>1, <1>2

(* Min of the community modules is what its name says.                     *)
LEMMA MinFacts ==
    ASSUME NEW S \in SUBSET Nat, S # {}
    PROVE  Min(S) \in S /\ \A x \in S : Min(S) <= x
    <1>1. PICK R : IsWellFoundedOn(R, Nat) /\ \A x, y \in Nat : y < x => <<y, x>> \in R
        BY Descends
    <1>2. PICK x \in S : \A y \in S : ~(<<y, x>> \in R)
        BY <1>1, WFMin
    <1>3. ASSUME NEW y \in S PROVE x <= y
        <2>1. x \in Nat /\ y \in Nat /\ ~(<<y, x>> \in R)
            BY <1>2
        <2>2. ~(y < x)
            BY <1>1, <2>1
        <2> QED BY <2>1, <2>2
    <1> QED BY <1>3 DEF Min

LEMMA MinTwo ==
    ASSUME NEW a \in Nat, NEW b \in Nat
    PROVE  Min({a, b}) = IF a <= b THEN a ELSE b
    <1>1. Min({a, b}) \in {a, b} /\ \A x \in {a, b} : Min({a, b}) <= x
        BY MinFacts
    <1> QED BY <1>1

LEMMA UptoFacts ==
    ASSUME devLen \in Nat, NEW p \in Nat
    PROVE  /\ Upto(p) \in 0..devLen /\ Upto(p) \in Nat
           /\ p <= devLen => Upto(p) = p
    BY MinTwo DEF Upto

-----------------------------------------------------------------------------
(***************************************************************************)
(* The archive                                                             *)
(***************************************************************************)
(* A writer that has finished does not move any more.                      *)
LEMMA DoneStays == ASSUME pc = "done", [Next]_vars PROVE UNCHANGED vars
    <1>1. "done" \notin DOMAIN After
        BY AfterFacts DEF CkSteps
    <1>2. CASE Next
        <2>1. ~(\E m \in Metas : AddEntry(m)) /\ ~(\E n \in Globals : AddGlobalMeta(n))
            BY DEF AddEntry, AddGlobalMeta, Call
        <2>2. ~ConsiderCheckpoint /\ ~Checkpoint /\ ~BeginEntry /\ ~Return
            BY <1>1 DEF ConsiderCheckpoint, Checkpoint, BeginEntry, Return
        <2>3. ~WriteBlock("header") /\ ~WriteBlock("data")
            BY DEF WriteBlock
        <2>4. ~Finish /\ ~WriteIndex /\ ~WriteCheckpoints /\ ~WriteTail /\ ~Close /\ ~Fail
            BY DEF Finish, WriteIndex, WriteCheckpoints, WriteTail, Close, Fail
        <2> QED BY <1>2, <2>1, <2>2, <2>3, <2>4 DEF Next
    <1> QED BY <1>2

(* The lines of a finished archive's index are those of the calls.         *)
LEMMA DoneTables ==
    ASSUME IInv, pc = "done"
    PROVE  \E n \in Nat :
           /\ Len(calls) = n /\ Len(members) = n /\ Len(scar_index) = n
           /\ \A k \in 1..n : /\ scar_index[k].entry = k
                              /\ scar_index[k].g = calls[k]
                              /\ scar_index[k].raw_loc = members[k].at
                              /\ members[k].at \in Nat /\ members[k].header \in Nat
                              /\ members[k].data \in Nat
    <1>1. PICK n \in Nat : n = Len(calls)
        BY MemberNats DEF IInv
    <1>2. Len(members) = n /\ Len(scar_index) = n
        BY <1>1 DEF IInv, Indexed, Placed, Begun, Outside, Steps, InCall
    <1>3. \A k \in 1..n : /\ scar_index[k].entry = k
                          /\ scar_index[k].g = calls[k]
                          /\ scar_index[k].raw_loc = members[k].at
        BY <1>2 DEF IInv, Indexed
    <1>4. \A k \in 1..n : /\ members[k].at \in Nat /\ members[k].header \in Nat
                          /\ members[k].data \in Nat
        BY <1>2, MemberNats DEF IInv
    <1> QED BY <1>1, <1>2, <1>3, <1>4

(* A location is where the checkpoint the scan keeps, or the start of the  *)
(* archive, is or lies before.                                             *)
LEMMA CheckpointForFacts ==
    ASSUME IInv, pc = "done", NEW loc0 \in Nat, NEW known
    PROVE  LET ck == CheckpointFor(loc0, known)
           IN  /\ ck.u \in Nat /\ ck.u <= loc0
               /\ \/ ck = [c |-> 0, u |-> 0]
                  \/ \E k \in 1..Len(checkpoints) : ck = checkpoints[k]
    <1>1. PICK n \in Nat :
            /\ n > 1 /\ Len(checkpoints) = n + 1 /\ Len(streams) = n + 2
            /\ Archive.cks \in Seq([c : Nat, u : Nat]) /\ Len(Archive.cks) = n
            /\ \A i \in 1..n : Archive.cks[i] = checkpoints[i]
        BY ArchiveChecks
    <1> DEFINE S == {i \in 1..n : i > known \/ Archive.cks[i].u > loc0} \cup {n + 1}
               stop == Min(S)
    <1>2. S \in SUBSET Nat /\ S # {} /\ \A i \in S : i \in 1..n + 1
        OBVIOUS
    <1>3. stop \in S /\ \A i \in S : stop <= i
        BY <1>2, MinFacts
    <1>4. CheckpointFor(loc0, known) = IF stop = 1 THEN [c |-> 0, u |-> 0] ELSE Archive.cks[stop - 1]
        BY <1>1 DEF CheckpointFor
    <1>5. stop \in 1..n + 1
        BY <1>2, <1>3
    <1> HIDE DEF stop
    <1>6. CASE stop = 1
        BY <1>4, <1>6
    <1>7. CASE stop # 1
        <2>1. stop - 1 \in 1..n /\ ~(stop <= stop - 1)
            BY <1>5, <1>7
        <2>2. stop - 1 \notin S
            BY <1>3, <2>1
        <2>3. ~(Archive.cks[stop - 1].u > loc0)
            BY <2>1, <2>2
        <2>4. Archive.cks[stop - 1] = checkpoints[stop - 1] /\ stop - 1 \in 1..Len(checkpoints)
            BY <1>1, <2>1
        <2>5. checkpoints[stop - 1].u \in Nat
            BY <2>4, CkNats DEF IInv
        <2> QED BY <1>4, <1>7, <2>3, <2>4, <2>5
    <1> QED BY <1>6, <1>7

DcType == [cur : Nat, end : Nat, hi : Nat, fresh : BOOLEAN, bad : BOOLEAN]

(* A decompressor created there delivers the tar stream from there.        *)
LEMMA DecompressorFacts ==
    ASSUME IInv, NEW ck, \/ ck = [c |-> 0, u |-> 0]
                         \/ \E k \in 1..Len(checkpoints) : ck = checkpoints[k]
    PROVE  /\ DecompressorAt(ck.c) \in DcType
           /\ DecompressorAt(ck.c).cur = ck.u
           /\ DecompressorAt(ck.c).hi = ck.c
           /\ ~DecompressorAt(ck.c).bad
           /\ ck.c \in 0..devLen
    <1>1. /\ Len(checkpoints) \in Nat /\ Len(streams) = Len(checkpoints) + 1
          /\ devLen \in Nat /\ received \in Nat
          /\ \A i \in 1..Len(checkpoints) : checkpoints[i].c \in Nat /\ checkpoints[i].u \in Nat
          /\ \A i \in 1..Len(streams) : streams[i].at \in Nat
        BY CkNats DEF IInv, Streamed, TypeInv, Numbers
    <1>2. PICK k \in 1..Len(streams) : streams[k].at = ck.c /\ streams[k].raw = ck.u
        <2>1. CASE ck = [c |-> 0, u |-> 0]
            BY <1>1, <2>1 DEF IInv, Streamed
        <2>2. CASE \E i \in 1..Len(checkpoints) : ck = checkpoints[i]
            <3> PICK i \in 1..Len(checkpoints) : ck = checkpoints[i]
                BY <2>2
            <3>1. streams[i + 1].at = ck.c /\ streams[i + 1].raw = ck.u
                BY DEF IInv, Streamed
            <3>2. i + 1 \in 1..Len(streams)
                BY <1>1
            <3> QED BY <3>1, <3>2
        <2> QED BY <2>1, <2>2
    <1>3. ck.c \in Nat /\ ck.u \in Nat /\ ck.c <= devLen /\ (~Gzip => ck.c = ck.u)
        <2>1. CASE ck = [c |-> 0, u |-> 0]
            BY <1>1, <2>1
        <2>2. CASE \E i \in 1..Len(checkpoints) : ck = checkpoints[i]
            BY <1>1, <2>2 DEF IInv, Streamed
        <2> QED BY <2>1, <2>2
    <1>4. CASE ~Gzip
        <2>1. DecompressorAt(ck.c) = [NoDecomp EXCEPT !.cur = ck.c, !.end = devLen, !.hi = ck.c]
            BY <1>4 DEF DecompressorAt
        <2>2. DecompressorAt(ck.c) = [cur |-> ck.c, end |-> devLen, hi |-> ck.c,
                                      fresh |-> TRUE, bad |-> FALSE]
            BY <2>1 DEF NoDecomp
        <2> QED BY <1>1, <1>3, <1>4, <2>2 DEF DcType
    <1>5. CASE Gzip
        <2> DEFINE at == {i \in 1..Len(streams) : streams[i].at = ck.c}
        <2>1. ASSUME NEW i \in at PROVE i = k
            <3>1. i \in 1..Len(streams) /\ streams[i].at = ck.c
                OBVIOUS
            <3>2. ~(i < k) /\ ~(k < i)
                BY <1>1, <1>2, <1>3, <3>1 DEF IInv, Ordered
            <3> QED BY <1>1, <3>1, <3>2
        <2>2. at = {k}
            BY <1>2, <2>1
        <2>3. Min(at) = k
            <3>1. at \in SUBSET Nat /\ at # {}
                BY <2>2, <1>1
            <3>2. Min(at) \in at
                BY <3>1, MinFacts
            <3> QED BY <2>2, <3>2
        <2> DEFINE end == IF k = Len(streams) THEN received ELSE streams[k + 1].raw
        <2>4. end \in Nat
            <3>1. ASSUME k # Len(streams) PROVE streams[k + 1].raw \in Nat
                <4>1. k \in 1..Len(checkpoints)
                    BY <1>1, <3>1
                <4>2. streams[k + 1].raw = checkpoints[k].u
                    BY <4>1 DEF IInv, Streamed
                <4> QED BY <1>1, <4>1, <4>2
            <3> QED BY <1>1, <3>1
        <2>5. DecompressorAt(ck.c) = [NoDecomp EXCEPT !.cur = streams[k].raw, !.hi = ck.c,
                                                      !.end = end]
            BY <1>5, <2>2, <2>3 DEF DecompressorAt
        <2> HIDE DEF end
        <2>6. DecompressorAt(ck.c) = [cur |-> ck.u, end |-> end, hi |-> ck.c,
                                      fresh |-> TRUE, bad |-> FALSE]
            BY <1>2, <2>5 DEF NoDecomp
        <2> QED BY <1>3, <2>4, <2>6 DEF DcType
    <1> QED BY <1>4, <1>5, <1>3, <1>1

(* Reading from the cursor where the input ends leaves no gap.             *)
LEMMA ReadExactFacts ==
    ASSUME devLen \in Nat, NEW d \in DcType, NEW n \in Nat, NEW p \in 0..devLen,
           ReadExact(d, n, p)
    PROVE  /\ dc' \in DcType /\ dc'.cur = d.cur + n /\ dc'.bad \in BOOLEAN
           /\ d.hi = p /\ ~d.bad => dc'.hi = pos' /\ ~dc'.bad
           /\ pos' \in 0..devLen
    <1>1. {ChunkCap, MaxRefills} \subseteq Nat
        BY CapsAssumption
    <1> DEFINE K == IF ~Gzip THEN {n}
                    ELSE IF n = 0 THEN {0}
                    ELSE {t * ChunkCap : t \in (IF d.fresh THEN 1 ELSE 0)..MaxRefills}
    <1>2. PICK k \in K :
            /\ pos' = IF k = 0 THEN p ELSE Upto(p + k)
            /\ dc' = [d EXCEPT !.cur = @ + n, !.fresh = @ /\ n = 0,
                               !.hi = IF k = 0 THEN @ ELSE Upto(p + k),
                               !.bad = @ \/ (k > 0 /\ p # d.hi)]
        BY DEF ReadExact
    <1>3. k \in Nat
        <2>1. \A t \in (IF d.fresh THEN 1 ELSE 0)..MaxRefills : t * ChunkCap \in Nat
            BY <1>1
        <2> QED BY <2>1
    <1>4. p + k \in Nat /\ Upto(p + k) \in 0..devLen /\ Upto(p + k) \in Nat
        BY <1>3, UptoFacts
    <1> HIDE DEF K
    <1>5. pos' \in 0..devLen
        BY <1>2, <1>4
    <1> DEFINE h == IF k = 0 THEN d.hi ELSE Upto(p + k)
    <1>6. dc' = [d EXCEPT !.cur = d.cur + n, !.fresh = d.fresh /\ n = 0, !.hi = h,
                          !.bad = d.bad \/ (k > 0 /\ p # d.hi)]
        BY <1>2
    <1>7. h \in Nat /\ (d.hi = p => h = pos')
        BY <1>2, <1>4 DEF DcType
    <1> HIDE DEF h
    <1>8. /\ dc'.cur = d.cur + n /\ dc'.hi = h
          /\ d.hi = p /\ ~d.bad => ~dc'.bad
        BY <1>6 DEF DcType
    <1>9. dc' \in DcType
        <2>1. \A b \in BOOLEAN, c, e, y \in Nat, x \in BOOLEAN :
                [d EXCEPT !.cur = c, !.fresh = b, !.hi = y, !.bad = x] \in DcType
            BY DEF DcType
        <2>2. (d.fresh /\ n = 0) \in BOOLEAN /\ (d.bad \/ (k > 0 /\ p # d.hi)) \in BOOLEAN
            OBVIOUS
        <2>3. d.cur + n \in Nat
            BY DEF DcType
        <2> QED BY <1>6, <1>7, <2>1, <2>2, <2>3
    <1>10. dc'.bad \in BOOLEAN
        BY <1>9 DEF DcType
    <1> QED BY <1>5, <1>7, <1>8, <1>9, <1>10

-----------------------------------------------------------------------------
(***************************************************************************)
(* The inductive invariant                                                 *)
(***************************************************************************)
IterType == [open : BOOLEAN, line : Nat, cur : Nat, hi : Nat, seek_pos : Nat, bad : BOOLEAN,
             seen : Seq(Nat), ended : BOOLEAN, failed : BOOLEAN, faulted : BOOLEAN]

(* The tail section begins before the marker.                              *)
TailPlaced ==
    /\ pc = "close" => layout.tail \in 0..devLen
    /\ pc = "done" => layout.tail \in 0..(devLen - 1)

(* What an iterator remembers as the place to seek to is where its buffers *)
(* end, whatever the cursor did in between; it has yielded the calls       *)
(* before its line.                                                        *)
Iterates(it) ==
    /\ ~it.open => it = Closed
    /\ it.open =>
         /\ it.seek_pos = it.hi /\ it.hi <= devLen /\ ~it.bad
         /\ it.line = Len(it.seen) + 1
         /\ Len(it.seen) <= Len(calls)
         /\ \A k \in 1..Len(it.seen) : it.seen[k] = k
         /\ it.ended => Len(it.seen) = Len(calls) \/ it.faulted
         /\ it.failed => it.faulted \/ \E k \in 1..Len(calls) : calls[k] \/ TooLong(k)

(* While an item is being read its decompressor is where the next part of  *)
(* it begins, and the cursor where the decompressor's input ends unless an *)
(* iterator has moved it.                                                  *)
Reading ==
    /\ step \in {"header", "content"} /\ disturbed \in BOOLEAN
    /\ got \in [header : Int, content : Int, bad : BOOLEAN]
    /\ got.bad => disturbed
    /\ item = 0 => got = Nothing /\ step = "header"
    /\ item # 0 =>
         /\ item \in 1..Len(members)
         /\ dc \in DcType
         /\ disturbed \/ (dc.hi = pos /\ ~dc.bad)
         /\ step = "header" => got = Nothing /\ dc.cur = members[item].at
         /\ step = "content" =>
              /\ got.header = members[item].at
              /\ got.content = Nowhere => dc.cur = members[item].at + members[item].header
              /\ got.content # Nowhere =>
                   got.content = members[item].at + members[item].header

(* The reader is created on a finished archive and used when it was.       *)
Opened ==
    /\ reader \in {"none", "open", "failed"}
    /\ reader # "none" => pc = "done"
    /\ item # 0 => reader = "open"
    /\ \A i \in Iterators : its[i].open => reader = "open"

RTInv ==
    /\ IInv /\ TailPlaced
    /\ Opened
    /\ pos \in 0..devLen
    /\ its \in [Iterators -> IterType]
    /\ \A i \in Iterators : Iterates(its[i])
    /\ Reading

LEMMA NothingFacts ==
    /\ Nothing \in [header : Int, content : Int, bad : BOOLEAN] /\ Nothing.bad = FALSE
    /\ Nothing.header = Nowhere /\ Nothing.content = Nowhere
    BY DEF Nothing, Nowhere

LEMMA InitRTInv == RTInit => RTInv
    <1> SUFFICES ASSUME RTInit PROVE RTInv
        OBVIOUS
    <1>1. IInv
        BY InitIInv DEF RTInit
    <1>2. TailPlaced /\ pos \in 0..devLen
        BY <1>1 DEF RTInit, Init, TailPlaced
    <1>3. Closed \in IterType /\ ~Closed.open
        BY DEF Closed, IterType
    <1>4. its \in [Iterators -> IterType] /\ \A i \in Iterators : its[i] = Closed
        BY <1>3 DEF RTInit
    <1>5. Opened
        BY <1>3, <1>4 DEF RTInit, Opened
    <1>6. \A i \in Iterators : Iterates(its[i])
        BY <1>3, <1>4 DEF Iterates
    <1>7. Reading
        BY NothingFacts DEF RTInit, Reading
    <1> QED BY <1>1, <1>2, <1>4, <1>5, <1>6, <1>7 DEF RTInv

LEMMA TailPlacedStep == ASSUME IInv, TailPlaced, [Next]_vars PROVE TailPlaced'
    <1>0. TypeInv /\ TypeInv' /\ devLen \in Nat
        BY NextIInv DEF IInv, TypeInv, Numbers
    <1>1. CASE WriteTail
        <2>1. WriteSection("tail", 2) /\ pc' = "close"
            BY <1>1 DEF WriteTail
        <2>2. Counted(1 + 2) /\ layout' = [layout EXCEPT !.tail = devLen]
            BY <1>0, <2>1, SectionEffect
        <2>3. layout'.tail = devLen
            BY <1>0, <2>2 DEF TypeInv, Records, Layout
        <2> QED BY <1>0, <2>1, <2>2, <2>3 DEF TailPlaced, Counted
    <1>2. CASE Close
        <2>1. /\ devLen' >= devLen + 1 /\ pc = "close" /\ pc' = "done" /\ Counted(0)
              /\ layout' = [layout EXCEPT !.eof = devLen' - 1]
            BY <1>0, <1>2, CloseEffect
        <2>2. layout'.tail = layout.tail
            BY <1>0, <2>1 DEF TypeInv, Records, Layout
        <2> QED BY <1>0, <2>1, <2>2 DEF TailPlaced, Counted
    <1>3. CASE UNCHANGED vars
        BY <1>3 DEF vars, counters, TailPlaced
    <1>4. CASE Next /\ ~WriteTail /\ ~Close
        <2>1. pc' \notin {"close", "done"}
            <3>1. \A k \in CkSteps : After[k] \notin {"close", "done"}
                BY AfterFacts DEF CkSteps
            <3> QED BY <1>4, <3>1, AfterFacts
                    DEF Next, AddEntry, AddGlobalMeta, Call, ConsiderCheckpoint, Checkpoint,
                        BeginEntry, WriteBlock, Return, Finish, WriteIndex, WriteCheckpoints,
                        Fail
        <2> QED BY <2>1 DEF TailPlaced
    <1> QED BY <1>1, <1>2, <1>3, <1>4

LEMMA WriterStepRTInv == ASSUME RTInv, WriterStep PROVE RTInv'
    <1>1. IInv' /\ TailPlaced'
        BY NextIInv, TailPlacedStep DEF RTInv, WriterStep
    <1>2. UNCHANGED <<reader, pos, its, item, step, dc, got, disturbed>>
        BY DEF WriterStep, readerVars, itemVars
    <1>3. CASE reader = "none"
        <2>1. \A i \in Iterators : its[i] = Closed /\ ~its[i].open
            BY <1>3 DEF RTInv, Opened, Iterates
        <2>2. item = 0
            BY <1>3 DEF RTInv, Opened
        <2>3. devLen \in Nat /\ devLen' \in Nat /\ devLen' >= devLen
            <3>1. devLen' \in Nat
                BY <1>1 DEF IInv, TypeInv, Numbers
            <3>2. TypeInv /\ devLen \in Nat
                BY DEF RTInv, IInv, TypeInv, Numbers
            <3>3. \/ \E n \in Nat : Counted(n)
                  \/ UNCHANGED counters
                <4>1. CASE \E m \in Metas : AddEntry(m)
                    BY <4>1 DEF AddEntry, Call
                <4>2. CASE \E n \in Globals : AddGlobalMeta(n)
                    BY <4>2 DEF AddGlobalMeta, Call
                <4>3. CASE ConsiderCheckpoint
                    BY <3>2, <4>3, ConsiderEffect
                <4>4. CASE Checkpoint
                    BY <3>2, <4>4, CheckpointEffect
                <4>5. CASE BeginEntry \/ Return \/ Fail
                    BY <4>5 DEF BeginEntry, Return, Fail
                <4>6. CASE WriteBlock("header") \/ WriteBlock("data")
                    BY <3>2, <4>6, WriteBlockEffect
                <4>7. CASE Finish
                    BY <3>2, <4>7, FinishEffect
                <4>8. CASE WriteIndex \/ WriteCheckpoints \/ WriteTail
                    <5>1. \E name : \E n \in Nat : WriteSection(name, n)
                        <6>1. Len(scar_index) \in Nat /\ Len(checkpoints) \in Nat
                            BY <3>2 DEF TypeInv, Tables, CkTables
                        <6> QED BY <4>8, <6>1 DEF WriteIndex, WriteCheckpoints, WriteTail
                    <5> PICK name : \E n \in Nat : WriteSection(name, n)
                        BY <5>1
                    <5>2. PICK n \in Nat : WriteSection(name, n)
                        OBVIOUS
                    <5>3. Counted(1 + n) /\ 1 + n \in Nat
                        BY <3>2, <5>2, SectionEffect
                    <5> QED BY <5>3
                <4>9. CASE Close
                    BY <3>2, <4>9, CloseEffect
                <4> QED BY <4>1, <4>2, <4>3, <4>4, <4>5, <4>6, <4>7, <4>8, <4>9
                        DEF WriterStep, Next
            <3> QED BY <3>1, <3>2, <3>3 DEF Counted, counters
        <2>4. pos' \in 0..devLen'
            BY <1>2, <2>3 DEF RTInv
        <2>5. Opened' /\ \A i \in Iterators : Iterates(its[i])'
            BY <1>2, <1>3, <2>1, <2>2 DEF Opened, Iterates, Closed
        <2>6. Reading'
            BY <1>2, <2>2 DEF RTInv, Reading, Nothing
        <2>7. its' \in [Iterators -> IterType]
            BY <1>2 DEF RTInv
        <2> QED BY <1>1, <2>4, <2>5, <2>6, <2>7 DEF RTInv
    <1>4. CASE reader # "none"
        <2>1. UNCHANGED vars
            BY <1>4, DoneStays DEF RTInv, Opened, WriterStep
        <2>2. UNCHANGED <<pc, calls, members, devLen>>
            BY <2>1 DEF vars, counters
        <2> QED BY <1>1, <1>2, <2>2
                DEF RTInv, Opened, Iterates, TooLong, Closed, Reading, Nothing
    <1> QED BY <1>3, <1>4

-----------------------------------------------------------------------------
(***************************************************************************)
(* Creating a reader                                                       *)
(***************************************************************************)
LEMMA StillFinished ==
    ASSUME RTInv, UNCHANGED vars
    PROVE  /\ IInv' /\ TailPlaced' /\ devLen' = devLen /\ members' = members
           /\ calls' = calls /\ pc' = pc /\ devLen \in Nat
    <1>1. /\ UNCHANGED <<pc, calls, members, devLen, layout>>
          /\ devLen \in Nat
        BY DEF vars, counters, RTInv, IInv, TypeInv, Numbers
    <1>2. IInv'
        BY NextIInv DEF RTInv
    <1>3. TailPlaced'
        BY <1>1 DEF TailPlaced, RTInv
    <1> QED BY <1>1, <1>2, <1>3

LEMMA CreateReaderRTInv ==
    ASSUME RTInv, NEW guess \in BOOLEAN, CreateReader(guess) PROVE RTInv'
    <1>1. /\ pc = "done" /\ reader = "none" /\ pos' = devLen
          /\ UNCHANGED <<vars, its, item, step, dc, got, disturbed>>
        BY DEF CreateReader, itemVars
    <1>2. /\ IInv' /\ TailPlaced' /\ devLen' = devLen /\ members' = members
          /\ calls' = calls /\ pc' = pc /\ devLen \in Nat
        BY <1>1, StillFinished
    <1>3. reader' \in {"open", "failed"}
        BY DEF CreateReader
    <1>5. Opened'
        BY <1>1, <1>2, <1>3 DEF RTInv, Opened
    <1>6. item = 0
        BY <1>1 DEF RTInv, Opened
    <1>7. Reading' /\ \A i \in Iterators : Iterates(its[i])'
        <2>1. got = Nothing /\ got.bad = FALSE
            BY <1>6, NothingFacts DEF RTInv, Reading
        <2>2. Reading'
            BY <1>1, <1>2, <1>6, <2>1, NothingFacts DEF RTInv, Reading, Nothing
        <2> QED BY <1>1, <1>2, <2>2 DEF RTInv, Iterates, TooLong, Closed
    <1>8. pos' \in 0..devLen' /\ its' \in [Iterators -> IterType]
        BY <1>1, <1>2 DEF RTInv
    <1> QED BY <1>2, <1>5, <1>7, <1>8 DEF RTInv

-----------------------------------------------------------------------------
(***************************************************************************)
(* The index                                                               *)
(***************************************************************************)
LEMMA FetchesType ==
    ASSUME NEW it \in IterType, NEW n \in Nat, NEW k \in Fetches(it, n)
    PROVE  k \in Nat
    <1>1. BufCap \in Nat \ {0} /\ ChunkCap \in Nat /\ MaxRefills \in Nat
        BY CapsAssumption
    <1>2. CASE Gzip
        <2>1. PICK t \in 0..MaxRefills : k = t * ChunkCap
            BY <1>2 DEF Fetches
        <2> QED BY <1>1, <2>1
    <1>3. CASE ~Gzip
        <2> DEFINE b == it.hi - it.cur
        <2>1. b \in Int
            BY DEF IterType
        <2>2. k = Refills(b, n) * BufCap
            BY <1>3 DEF Fetches
        <2> HIDE DEF b
        <2>3. Refills(b, n) \in Nat
            <3>1. CASE n <= b
                BY <3>1 DEF Refills
            <3>2. CASE ~(n <= b)
                <4>1. n - b + BufCap - 1 \in Nat
                    BY <1>1, <2>1, <3>2
                <4>2. (n - b + BufCap - 1) \div BufCap \in Nat
                    BY <1>1, <4>1
                <4> QED BY <3>2, <4>2 DEF Refills
            <3> QED BY <3>1, <3>2
        <2> QED BY <1>1, <2>2, <2>3
    <1> QED BY <1>2, <1>3

(* An iterator that moves on by an item, and one at the first line.        *)
LEMMA IterUpdates ==
    /\ \A it \in IterType, l, c, p \in Nat, s \in Seq(Nat) :
         [it EXCEPT !.line = l, !.cur = c, !.bad = FALSE, !.seek_pos = p, !.hi = p,
                    !.seen = s] \in IterType
    /\ \A c, p \in Nat :
         LET it == [Closed EXCEPT !.open = TRUE, !.line = 1, !.cur = c, !.hi = p, !.seek_pos = p]
         IN  /\ it \in IterType /\ it.open /\ it.line = 1 /\ it.hi = p /\ it.seek_pos = p
             /\ ~it.bad /\ it.seen = << >> /\ ~it.ended /\ ~it.failed
    <1>1. ASSUME NEW it \in IterType, NEW l \in Nat, NEW c \in Nat, NEW p \in Nat,
                 NEW s \in Seq(Nat)
          PROVE  [it EXCEPT !.line = l, !.cur = c, !.bad = FALSE, !.seek_pos = p, !.hi = p,
                            !.seen = s] \in IterType
        BY DEF IterType
    <1>2. ASSUME NEW c \in Nat, NEW p \in Nat, NEW it,
                 it = [Closed EXCEPT !.open = TRUE, !.line = 1, !.cur = c, !.hi = p, !.seek_pos = p]
          PROVE  /\ it \in IterType /\ it.open /\ it.line = 1 /\ it.hi = p /\ it.seek_pos = p
                 /\ ~it.bad /\ it.seen = << >> /\ ~it.ended /\ ~it.failed
        <2>1. Closed \in IterType /\ ~Closed.bad /\ Closed.seen = << >> /\ ~Closed.ended
              /\ ~Closed.failed
            BY DEF Closed, IterType
        <2> QED BY <1>2, <2>1 DEF IterType
    <1> QED BY <1>1, <1>2

(* A step of one iterator, which moves the cursor below an item.           *)
LEMMA IteratorRTInv ==
    ASSUME RTInv, reader = "open", MovesCursor, pos' \in 0..devLen,
           NEW i \in Iterators, NEW it \in IterType, its' = [its EXCEPT ![i] = it],
           Iterates(it)
    PROVE  RTInv'
    <1>0. UNCHANGED <<vars, reader, item, step, dc, got>> /\ disturbed' = TRUE
        BY DEF MovesCursor, itemVars
    <1>1. /\ IInv' /\ TailPlaced' /\ devLen' = devLen /\ members' = members
          /\ calls' = calls /\ pc' = pc /\ devLen \in Nat
        BY <1>0, StillFinished
    <1>2. its \in [Iterators -> IterType] /\ its' \in [Iterators -> IterType]
        BY DEF RTInv
    <1>3. \A j \in Iterators : its'[j] = IF j = i THEN it ELSE its[j]
        BY <1>2
    <1>4. \A j \in Iterators : Iterates(its[j])'
        BY <1>1, <1>3 DEF RTInv, Iterates, TooLong, Closed
    <1>5. Opened'
        BY <1>0, <1>1 DEF RTInv, Opened
    <1>6. Reading'
        BY <1>0, <1>1 DEF RTInv, Reading, Nothing
    <1> QED BY <1>1, <1>2, <1>4, <1>5, <1>6 DEF RTInv

LEMMA DoneTail == ASSUME IInv, pc = "done" PROVE tail.index \in Nat
    <1>1. /\ Len(checkpoints) > 2 /\ tail.index = Before(2) /\ Len(checkpoints) \in Nat
          /\ \A i \in 1..Len(checkpoints) : checkpoints[i].c \in Nat
        BY CkNats DEF IInv, Located
    <1>2. Len(checkpoints) - 2 \in 1..Len(checkpoints)
        BY <1>1
    <1> QED BY <1>1, <1>2 DEF Before

LEMMA IndexRTInv == ASSUME RTInv, NEW i \in Iterators, Index(i) PROVE RTInv'
    <1>1. PICK n \in IF Gzip THEN {t * ChunkCap : t \in 1..MaxRefills} ELSE {BufCap} :
            /\ pos' = Upto(tail.index + n)
            /\ its' = [its EXCEPT ![i] =
                 [Closed EXCEPT !.open = TRUE, !.line = 1, !.cur = tail.index + 1,
                                !.hi = pos', !.seek_pos = pos']]
        BY DEF Index
    <1>2. reader = "open" /\ MovesCursor
        BY DEF Index
    <1>3. n \in Nat
        <2>1. \A t \in 1..MaxRefills : t * ChunkCap \in Nat
            BY CapsAssumption
        <2> QED BY <2>1, CapsAssumption
    <1>4. tail.index \in Nat /\ devLen \in Nat
        BY <1>2, DoneTail DEF RTInv, Opened, IInv, TypeInv, Numbers
    <1>5. pos' \in 0..devLen /\ pos' \in Nat
        BY <1>1, <1>3, <1>4, UptoFacts
    <1> DEFINE it == [Closed EXCEPT !.open = TRUE, !.line = 1, !.cur = tail.index + 1,
                                    !.hi = pos', !.seek_pos = pos']
    <1>6. its' = [its EXCEPT ![i] = it]
        BY <1>1
    <1>7. /\ it \in IterType /\ it.open /\ it.line = 1 /\ it.hi = pos' /\ it.seek_pos = pos'
          /\ ~it.bad /\ it.seen = << >> /\ ~it.ended /\ ~it.failed
        <2>1. tail.index + 1 \in Nat
            BY <1>4
        <2> QED BY <1>5, <2>1, IterUpdates
    <1> HIDE DEF it
    <1>8. Iterates(it)
        <2>1. Len(calls) \in Nat
            BY MemberNats DEF RTInv, IInv
        <2> QED BY <1>5, <1>7, <2>1 DEF Iterates
    <1> QED BY <1>2, <1>5, <1>6, <1>7, <1>8, IteratorRTInv

LEMMA NextItemRTInv == ASSUME RTInv, NEW i \in Iterators, NextItem(i) PROVE RTInv'
    <1> DEFINE it == its[i]
    <1> DEFINE Bad(n) == it.bad \/ (n > 0 /\ it.seek_pos # it.hi)
               Yields(n) == [it EXCEPT !.line = it.line + 1, !.cur = it.cur + 1, !.bad = Bad(n),
                              !.seek_pos = pos', !.hi = IF n > 0 THEN pos' ELSE it.hi,
                              !.seen = Append(it.seen, IF Bad(n) THEN 0
                                                       ELSE scar_index[it.line].entry)]
    <1>1. PICK n \in Fetches(it, 1) :
            pos' = Upto(it.seek_pos + n) /\ its' = [its EXCEPT ![i] = Yields(n)]
        BY DEF NextItem
    <1>2. /\ reader = "open" /\ MovesCursor
          /\ it.open /\ ~it.ended /\ ~it.failed /\ it.line <= Len(scar_index)
        BY DEF NextItem, Running
    <1>3. its \in [Iterators -> IterType] /\ it \in IterType /\ pc = "done" /\ devLen \in Nat
        BY <1>2 DEF RTInv, Opened, IInv, TypeInv, Numbers
    <1>4. Iterates(it)
        BY DEF RTInv
    <1> HIDE DEF it
    <1>5. n \in Nat
        BY <1>3, FetchesType
    <1>6. /\ it.seek_pos = it.hi /\ it.hi <= devLen /\ it.hi \in Nat /\ it.bad = FALSE
          /\ it.line = Len(it.seen) + 1 /\ it.seen \in Seq(Nat) /\ Len(it.seen) \in Nat
          /\ \A k \in 1..Len(it.seen) : it.seen[k] = k
        BY <1>2, <1>3, <1>4 DEF Iterates, IterType
    <1>7. pos' \in 0..devLen /\ pos' \in Nat /\ (n = 0 => pos' = it.hi)
        BY <1>1, <1>3, <1>5, <1>6, UptoFacts
    <1>8. PICK c \in Nat : /\ Len(calls) = c /\ Len(scar_index) = c
                           /\ \A k \in 1..c : scar_index[k].entry = k
        BY <1>3, DoneTables DEF RTInv
    <1>9. scar_index[it.line].entry = it.line /\ it.line \in 1..c /\ it.line \in Nat
        BY <1>2, <1>6, <1>8
    <1> DEFINE new == [it EXCEPT !.line = it.line + 1, !.cur = it.cur + 1, !.bad = FALSE,
                                 !.seek_pos = pos', !.hi = pos',
                                 !.seen = Append(it.seen, it.line)]
    <1>10. its' = [its EXCEPT ![i] = new]
        <2>1. Bad(n) = FALSE
            BY <1>6
        <2>2. (IF n > 0 THEN pos' ELSE it.hi) = pos'
            BY <1>5, <1>7
        <2>3. (IF Bad(n) THEN 0 ELSE scar_index[it.line].entry) = it.line
            BY <1>9, <2>1
        <2>4. Yields(n) = new
            BY ONLY <2>1, <2>2, <2>3
        <2> QED BY <1>1, <2>4
    <1>11. /\ new.open = it.open /\ new.line = it.line + 1 /\ new.bad = FALSE
           /\ new.seek_pos = pos' /\ new.hi = pos' /\ new.seen = Append(it.seen, it.line)
           /\ new.ended = it.ended /\ new.failed = it.failed
        BY <1>3 DEF IterType
    <1>12. new \in IterType
        <2>1. /\ Append(it.seen, it.line) \in Seq(Nat) /\ it.line + 1 \in Nat
              /\ it.cur + 1 \in Nat
            BY <1>3, <1>6, <1>9 DEF IterType
        <2> QED BY <1>3, <1>7, <2>1, IterUpdates
    <1> HIDE DEF new
    <1>13. Iterates(new)
        <2>1. Len(new.seen) = Len(it.seen) + 1 /\ Len(new.seen) <= c
            BY <1>6, <1>9, <1>11
        <2>2. \A k \in 1..Len(new.seen) : new.seen[k] = k
            BY <1>6, <1>11, <2>1
        <2> QED BY <1>2, <1>6, <1>7, <1>8, <1>11, <2>1, <2>2 DEF Iterates
    <1> QED BY <1>2, <1>7, <1>10, <1>12, <1>13, IteratorRTInv

(* The iterator has failed or has reported the end.                        *)
LEMMA NextStopsRTInv ==
    ASSUME RTInv, NEW i \in Iterators, Running(i), MovesCursor, pos' \in 0..devLen,
           NEW ended \in BOOLEAN, NEW failed \in BOOLEAN, NEW faulted \in BOOLEAN,
           its' = [its EXCEPT ![i] = [its[i] EXCEPT !.ended = ended, !.failed = failed,
                                                    !.faulted = faulted]],
           ended => Len(its[i].seen) = Len(calls) \/ faulted,
           failed => faulted \/ \E k \in 1..Len(calls) : calls[k] \/ TooLong(k)
    PROVE  RTInv'
    <1> DEFINE it == its[i]
               new == [it EXCEPT !.ended = ended, !.failed = failed, !.faulted = faulted]
    <1>1. it \in IterType /\ Iterates(it) /\ it.open /\ reader = "open"
        BY DEF RTInv, Running
    <1>2. its' = [its EXCEPT ![i] = new]
        OBVIOUS
    <1>3. ended => Len(it.seen) = Len(calls) \/ faulted
        OBVIOUS
    <1> HIDE DEF it
    <1>4. /\ new \in IterType
          /\ new.open = it.open /\ new.line = it.line /\ new.bad = it.bad
          /\ new.seek_pos = it.seek_pos /\ new.hi = it.hi /\ new.seen = it.seen
          /\ new.ended = ended /\ new.failed = failed /\ new.faulted = faulted
        BY <1>1 DEF IterType
    <1> HIDE DEF new
    <1>5. Iterates(new)
        BY <1>1, <1>3, <1>4 DEF Iterates
    <1> QED BY <1>1, <1>2, <1>4, <1>5, IteratorRTInv

LEMMA RunningFacts ==
    ASSUME RTInv, NEW i \in Iterators, Running(i)
    PROVE  /\ its \in [Iterators -> IterType] /\ its[i] \in IterType /\ pc = "done" /\ IInv
           /\ devLen \in Nat /\ Iterates(its[i]) /\ its[i].seek_pos \in 0..devLen
           /\ its[i].ended = FALSE /\ its[i].failed = FALSE /\ its[i].faulted \in BOOLEAN
           /\ \E c \in Nat : /\ Len(calls) = c /\ Len(scar_index) = c
                             /\ its[i].line = Len(its[i].seen) + 1
                             /\ Len(its[i].seen) \in 0..c
    <1>1. /\ its \in [Iterators -> IterType] /\ its[i] \in IterType /\ pc = "done" /\ IInv
          /\ devLen \in Nat /\ Iterates(its[i]) /\ its[i].open
        BY DEF RTInv, Running, Opened, IInv, TypeInv, Numbers
    <1>2. PICK c \in Nat : Len(calls) = c /\ Len(scar_index) = c
        BY <1>1, DoneTables
    <1>3. /\ its[i].seek_pos \in Nat /\ its[i].seek_pos <= devLen
          /\ its[i].line = Len(its[i].seen) + 1 /\ Len(its[i].seen) \in 0..c
        BY <1>1, <1>2 DEF Iterates, IterType
    <1>4. its[i].ended = FALSE /\ its[i].failed = FALSE /\ its[i].faulted \in BOOLEAN
        BY <1>1 DEF Running, IterType
    <1> QED BY <1>1, <1>2, <1>3, <1>4

(* Where a call of next that fetches leaves the cursor.                    *)
LEMMA CursorAfter ==
    ASSUME RTInv, NEW i \in Iterators, Running(i), NEW m \in Nat,
           NEW n \in Fetches(its[i], m), pos' = Upto(its[i].seek_pos + n)
    PROVE  pos' \in 0..devLen
    <1>0. its[i] \in IterType /\ its[i].seek_pos \in 0..devLen /\ devLen \in Nat
        BY RunningFacts
    <1>1. n \in Nat
        BY <1>0, FetchesType
    <1>2. its[i].seek_pos + n \in Nat
        BY <1>0, <1>1
    <1> QED BY <1>0, <1>2, UptoFacts

LEMMA NextRefusesRTInv ==
    ASSUME RTInv, NEW i \in Iterators, NextRefuses(i) PROVE RTInv'
    <1>1. Running(i) /\ MovesCursor
        BY DEF NextRefuses
    <1>2. PICK n \in Fetches(its[i], 2) : pos' = Upto(its[i].seek_pos + n)
        BY DEF NextRefuses
    <1>3. pos' \in 0..devLen
        BY <1>1, <1>2, CursorAfter
    <1>r. /\ its \in [Iterators -> IterType] /\ its[i] \in IterType /\ pc = "done" /\ IInv
          /\ devLen \in Nat /\ its[i].seek_pos \in 0..devLen
          /\ its[i].ended = FALSE /\ its[i].failed = FALSE /\ its[i].faulted \in BOOLEAN
        BY <1>1, RunningFacts
    <1>4. PICK c \in Nat : /\ Len(calls) = c /\ Len(scar_index) = c
                           /\ \A k \in 1..c : /\ scar_index[k].g = calls[k]
                                              /\ scar_index[k].entry = k
        BY <1>r, DoneTables
    <1> DEFINE l == its[i].line
    <1>5. l \in 1..c
        <2>1. PICK c2 \in Nat : /\ Len(calls) = c2 /\ Len(scar_index) = c2
                                /\ its[i].line = Len(its[i].seen) + 1
                                /\ Len(its[i].seen) \in 0..c2
            BY <1>1, RunningFacts
        <2>2. l \in Nat /\ l >= 1
            BY <2>1
        <2>3. l <= Len(scar_index)
            BY DEF NextRefuses
        <2> QED BY <1>4, <2>2, <2>3
    <1>6. calls[l] \/ TooLong(l)
        BY <1>4, <1>5 DEF NextRefuses
    <1>7. \E k \in 1..Len(calls) : calls[k] \/ TooLong(k)
        BY <1>4, <1>5, <1>6
    <1> HIDE DEF l
    <1> DEFINE faulted == its[i].faulted
    <1>8. /\ its' = [its EXCEPT ![i] = [its[i] EXCEPT !.ended = FALSE, !.failed = TRUE,
                                                      !.faulted = faulted]]
          /\ faulted \in BOOLEAN
        <2>1. [its[i] EXCEPT !.failed = TRUE]
                = [its[i] EXCEPT !.ended = FALSE, !.failed = TRUE, !.faulted = faulted]
            BY <1>r DEF IterType
        <2> QED BY <1>r, <2>1 DEF NextRefuses
    <1> HIDE DEF faulted
    <1> QED BY <1>1, <1>3, <1>7, <1>8, NextStopsRTInv

LEMMA NextEndsRTInv ==
    ASSUME RTInv, NEW i \in Iterators, NextEnds(i) PROVE RTInv'
    <1>1. Running(i) /\ MovesCursor
        BY DEF NextEnds
    <1>2. PICK n \in Fetches(its[i], 1) : pos' = Upto(its[i].seek_pos + n)
        BY DEF NextEnds
    <1>3. pos' \in 0..devLen
        BY <1>1, <1>2, CursorAfter
    <1>r. /\ its \in [Iterators -> IterType] /\ its[i] \in IterType /\ pc = "done" /\ IInv
          /\ devLen \in Nat /\ its[i].seek_pos \in 0..devLen
          /\ its[i].ended = FALSE /\ its[i].failed = FALSE /\ its[i].faulted \in BOOLEAN
        BY <1>1, RunningFacts
    <1>4. Len(its[i].seen) = Len(calls)
        <2>1. PICK c \in Nat : /\ Len(calls) = c /\ Len(scar_index) = c
                               /\ its[i].line = Len(its[i].seen) + 1
                               /\ Len(its[i].seen) \in 0..c
            BY <1>1, RunningFacts
        <2> QED BY <2>1 DEF NextEnds
    <1> DEFINE faulted == its[i].faulted
    <1>5. /\ its' = [its EXCEPT ![i] = [its[i] EXCEPT !.ended = TRUE, !.failed = FALSE,
                                                      !.faulted = faulted]]
          /\ faulted \in BOOLEAN
        <2>1. [its[i] EXCEPT !.ended = TRUE]
                = [its[i] EXCEPT !.ended = TRUE, !.failed = FALSE, !.faulted = faulted]
            BY <1>r DEF IterType
        <2> QED BY <1>r, <2>1 DEF NextEnds
    <1> HIDE DEF faulted
    <1> QED BY <1>1, <1>3, <1>4, <1>5, NextStopsRTInv

(* A read of an iterator fails.                                            *)
LEMMA IteratorFailsRTInv ==
    ASSUME RTInv, NEW i \in Iterators, IteratorFails(i) \/ NextEndsOnError(i) PROVE RTInv'
    <1>1. MovesCursor /\ reader = "open" /\ devLen \in Nat
        BY DEF IteratorFails, NextEndsOnError, Running, RTInv, IInv, TypeInv, Numbers
    <1>2. CASE IteratorFails(i) /\ UNCHANGED its
        <2>1. its[i] \in IterType /\ Iterates(its[i]) /\ its' = [its EXCEPT ![i] = its[i]]
            BY <1>2 DEF RTInv
        <2>2. pos' \in 0..devLen
            BY <1>1, <1>2 DEF IteratorFails, RTInv
        <2> QED BY <1>1, <2>1, <2>2, IteratorRTInv
    <1>3. CASE /\ Running(i)
               /\ IteratorFails(i) \/ NextEndsOnError(i)
               /\ its' = [its EXCEPT ![i].failed = TRUE, ![i].faulted = TRUE]
                    \/ its' = [its EXCEPT ![i].ended = TRUE, ![i].faulted = TRUE]
        <2>r. /\ its \in [Iterators -> IterType] /\ its[i] \in IterType
              /\ its[i].seek_pos \in 0..devLen
              /\ its[i].ended = FALSE /\ its[i].failed = FALSE
            BY <1>3, RunningFacts
        <2>1. pos' \in 0..devLen
            BY <1>1, <1>3, <2>r DEF IteratorFails, NextEndsOnError, RTInv
        <2>2. PICK e \in BOOLEAN, f \in BOOLEAN :
                its' = [its EXCEPT ![i] = [its[i] EXCEPT !.ended = e, !.failed = f,
                                                         !.faulted = TRUE]]
            <3>1. /\ [its[i] EXCEPT !.failed = TRUE, !.faulted = TRUE]
                       = [its[i] EXCEPT !.ended = FALSE, !.failed = TRUE, !.faulted = TRUE]
                  /\ [its[i] EXCEPT !.ended = TRUE, !.faulted = TRUE]
                       = [its[i] EXCEPT !.ended = TRUE, !.failed = FALSE, !.faulted = TRUE]
                BY <2>r DEF IterType
            <3> QED BY <1>3, <2>r, <3>1
        <2> QED BY <1>1, <1>3, <2>1, <2>2, NextStopsRTInv
    <1> QED BY <1>2, <1>3 DEF IteratorFails, NextEndsOnError

-----------------------------------------------------------------------------
(***************************************************************************)
(* Items                                                                   *)
(***************************************************************************)
(* A step that reads of an item, and leaves the iterators alone.           *)
LEMMA ItemRTInv ==
    ASSUME RTInv, reader = "open", UNCHANGED <<vars, reader, its>>,
           pos' \in 0..devLen, Reading'
    PROVE  RTInv'
    <1>1. /\ IInv' /\ TailPlaced' /\ devLen' = devLen /\ members' = members
          /\ calls' = calls /\ pc' = pc /\ devLen \in Nat
        BY StillFinished
    <1>2. Opened'
        BY <1>1 DEF RTInv, Opened
    <1>3. \A i \in Iterators : Iterates(its[i])'
        BY <1>1 DEF RTInv, Iterates, TooLong, Closed
    <1> QED BY <1>1, <1>2, <1>3 DEF RTInv

LEMMA ReadFailsRTInv ==
    ASSUME RTInv, reader = "open", UNCHANGED <<vars, reader, its>>, disturbed' \in BOOLEAN,
           NEW d, NEW n, NEW p, ReadFails(d, n, p)
    PROVE  RTInv'
    <1>1. pos' = devLen /\ NoItem /\ devLen \in Nat
        BY StillFinished DEF ReadFails
    <1>2. item' = 0 /\ step' = "header" /\ got' = Nothing /\ Nothing' = Nothing
        BY <1>1 DEF NoItem, Nothing
    <1>3. Reading'
        BY <1>2, NothingFacts DEF Reading
    <1> QED BY <1>1, <1>3, ItemRTInv

LEMMA ReadItemRTInv ==
    ASSUME RTInv, NEW f \in 1..Len(members), ReadItem(f) PROVE RTInv'
    <1>0. PICK ck \in {CheckpointFor(scar_index[f].raw_loc, known) : known \in Known} :
               LET d == DecompressorAt(ck.c)
                   diff == scar_index[f].raw_loc - ck.u
               IN  \/ ReadExact(d, diff, ck.c) /\ item' = f /\ step' = "header" /\ got' = Nothing
                   \/ ReadFails(d, diff, ck.c)
        BY DEF ReadItem
    <1> DEFINE d == DecompressorAt(ck.c)
               diff == scar_index[f].raw_loc - ck.u
    <1>1. /\ reader = "open" /\ UNCHANGED <<vars, reader, its>>
          /\ disturbed' = FALSE
          /\ \/ ReadExact(d, diff, ck.c) /\ item' = f /\ step' = "header" /\ got' = Nothing
             \/ ReadFails(d, diff, ck.c)
        BY <1>0 DEF ReadItem
    <1>2. IInv /\ pc = "done"
        BY <1>1 DEF RTInv, Opened
    <1>3. /\ scar_index[f].raw_loc = members[f].at /\ members[f].at \in Nat
          /\ f \in Nat /\ f # 0
        BY <1>2, DoneTables
    <1>4. /\ ck.u \in Nat /\ ck.u <= members[f].at
          /\ ck = [c |-> 0, u |-> 0] \/ \E k \in 1..Len(checkpoints) : ck = checkpoints[k]
        <2>1. PICK known \in Known : ck = CheckpointFor(scar_index[f].raw_loc, known)
            OBVIOUS
        <2> QED BY <1>2, <1>3, <2>1, CheckpointForFacts
    <1>5. d \in DcType /\ d.cur = ck.u /\ d.hi = ck.c /\ ~d.bad /\ ck.c \in 0..devLen
        BY <1>2, <1>4, DecompressorFacts
    <1> HIDE DEF d
    <1>6. diff \in Nat /\ ck.u + diff = members[f].at
        BY <1>3, <1>4
    <1> HIDE DEF diff
    <1>7. CASE ReadExact(d, diff, ck.c) /\ item' = f /\ step' = "header" /\ got' = Nothing
        <2>1. /\ devLen \in Nat /\ members' = members
            BY <1>1, StillFinished
        <2>2. /\ dc' \in DcType /\ dc'.cur = members[f].at /\ dc'.hi = pos' /\ ~dc'.bad
              /\ pos' \in 0..devLen
            BY <1>5, <1>6, <1>7, <2>1, ReadExactFacts
        <2>3. Reading'
            BY <1>1, <1>3, <1>7, <2>1, <2>2, NothingFacts DEF Reading
        <2> QED BY <1>1, <2>2, <2>3, ItemRTInv
    <1>8. CASE ReadFails(d, diff, ck.c)
        BY <1>1, <1>8, ReadFailsRTInv
    <1> QED BY <1>1, <1>7, <1>8

(* The parts of a member that are read are where it was written.           *)
LEMMA NextHeaderRTInv == ASSUME RTInv, NextHeader PROVE RTInv'
    <1> DEFINE n == members[item].header
    <1>1. /\ item # 0 /\ step = "header" /\ UNCHANGED <<vars, reader, its, disturbed>>
          /\ \/ /\ ReadExact(dc, n, pos)
                /\ got' = [Nothing EXCEPT !.header = dc.cur, !.bad = dc'.bad]
                /\ step' = "content" /\ UNCHANGED item
             \/ ReadFails(dc, n, pos)
        BY DEF NextHeader
    <1>2. /\ reader = "open" /\ IInv /\ pc = "done" /\ item \in 1..Len(members)
          /\ dc \in DcType /\ dc.cur = members[item].at
          /\ disturbed \in BOOLEAN /\ (disturbed \/ (dc.hi = pos /\ ~dc.bad))
          /\ pos \in 0..devLen
        BY <1>1 DEF RTInv, Opened, Reading
    <1>3. n \in Nat /\ members[item].at \in Nat
        BY <1>2, DoneTables
    <1> HIDE DEF n
    <1>4. CASE /\ ReadExact(dc, n, pos)
               /\ got' = [Nothing EXCEPT !.header = dc.cur, !.bad = dc'.bad]
               /\ step' = "content" /\ UNCHANGED item
        <2>1. /\ devLen \in Nat /\ members' = members
            BY <1>1, StillFinished
        <2>2. /\ dc' \in DcType /\ dc'.cur = members[item].at + n /\ pos' \in 0..devLen
              /\ dc'.bad \in BOOLEAN
              /\ disturbed \/ (dc'.hi = pos' /\ ~dc'.bad)
            BY <1>2, <1>3, <1>4, <2>1, ReadExactFacts
        <2>4. got' = [header |-> members[item].at, content |-> Nowhere, bad |-> dc'.bad]
            BY <1>2, <1>4 DEF Nothing
        <2>5. Reading'
            <3>1. got' \in [header : Int, content : Int, bad : BOOLEAN] /\ got'.bad = dc'.bad
                BY <1>3, <2>2, <2>4 DEF Nowhere
            <3>2. got'.header = members[item].at /\ got'.content = Nowhere
                BY <2>4
            <3> QED BY <1>1, <1>2, <1>4, <2>1, <2>2, <3>1, <3>2 DEF Reading, n
        <2> QED BY <1>1, <1>2, <2>2, <2>5, ItemRTInv
    <1>5. CASE ReadFails(dc, n, pos)
        BY <1>1, <1>2, <1>5, ReadFailsRTInv
    <1> QED BY <1>1, <1>4, <1>5

LEMMA ReadContentRTInv == ASSUME RTInv, ReadContent PROVE RTInv'
    <1> DEFINE n == members[item].data
    <1>1. /\ item # 0 /\ step = "content" /\ got.content = Nowhere
          /\ UNCHANGED <<vars, reader, its, disturbed>>
          /\ \/ /\ ReadExact(dc, n, pos)
                /\ got' = [got EXCEPT !.content = dc.cur, !.bad = dc'.bad]
                /\ UNCHANGED <<item, step>>
             \/ ReadFails(dc, n, pos)
        BY DEF ReadContent
    <1>2. /\ reader = "open" /\ IInv /\ pc = "done" /\ item \in 1..Len(members)
          /\ dc \in DcType
          /\ disturbed \in BOOLEAN /\ (disturbed \/ (dc.hi = pos /\ ~dc.bad))
          /\ dc.cur = members[item].at + members[item].header
          /\ got \in [header : Int, content : Int, bad : BOOLEAN]
          /\ got.header = members[item].at
          /\ pos \in 0..devLen
        BY <1>1 DEF RTInv, Opened, Reading
    <1>3. n \in Nat /\ members[item].at \in Nat /\ members[item].header \in Nat
        BY <1>2, DoneTables
    <1> HIDE DEF n
    <1>4. CASE /\ ReadExact(dc, n, pos)
               /\ got' = [got EXCEPT !.content = dc.cur, !.bad = dc'.bad]
               /\ UNCHANGED <<item, step>>
        <2>1. /\ devLen \in Nat /\ members' = members
            BY <1>1, StillFinished
        <2>2. /\ dc' \in DcType /\ dc'.cur = dc.cur + n /\ pos' \in 0..devLen
              /\ dc'.bad \in BOOLEAN
              /\ disturbed \/ (dc'.hi = pos' /\ ~dc'.bad)
            BY <1>2, <1>3, <1>4, <2>1, ReadExactFacts
        <2>4. got' = [header |-> members[item].at, content |-> dc.cur, bad |-> dc'.bad]
            BY <1>2, <1>4
        <2>5. Reading'
            <3>1. got' \in [header : Int, content : Int, bad : BOOLEAN] /\ got'.bad = dc'.bad
                BY <1>2, <1>3, <2>2, <2>4
            <3>2. /\ got'.header = members[item].at
                  /\ got'.content = members[item].at + members[item].header
                  /\ got'.content # Nowhere
                BY <1>2, <1>3, <2>4 DEF Nowhere
            <3> QED BY <1>1, <1>2, <1>4, <2>1, <2>2, <3>1, <3>2 DEF Reading
        <2> QED BY <1>1, <1>2, <2>2, <2>5, ItemRTInv
    <1>5. CASE ReadFails(dc, n, pos)
        BY <1>1, <1>2, <1>5, ReadFailsRTInv
    <1> QED BY <1>1, <1>4, <1>5

-----------------------------------------------------------------------------
(***************************************************************************)
(* The theorems                                                            *)
(***************************************************************************)
(* An item an iterator yielded is a call of the writer.                    *)
LEMMA SeenCalls ==
    ASSUME RTInv, NEW i \in Iterators, NEW k \in 1..Len(its[i].seen)
    PROVE  reader = "open" => its[i].seen[k] \in 1..Len(members)
    <1> SUFFICES ASSUME reader = "open" PROVE its[i].seen[k] \in 1..Len(members)
        OBVIOUS
    <1>1. Iterates(its[i]) /\ its[i] \in IterType /\ IInv /\ pc = "done"
        BY DEF RTInv, Opened
    <1>2. Len(members) = Len(calls) /\ Len(calls) \in Nat
        BY <1>1, DoneTables
    <1>3. CASE its[i].open
        BY <1>1, <1>2, <1>3 DEF Iterates, IterType
    <1>4. CASE ~its[i].open
        BY <1>1, <1>4 DEF Iterates, Closed
    <1> QED BY <1>3, <1>4

LEMMA NextRTInv == RTInv /\ [RTNext]_<<vars, readerVars>> => RTInv'
    <1> SUFFICES ASSUME RTInv, [RTNext]_<<vars, readerVars>> PROVE RTInv'
        OBVIOUS
    <1>1. CASE WriterStep
        BY <1>1, WriterStepRTInv
    <1>2. CASE UNCHANGED <<vars, readerVars>>
        <2>1. UNCHANGED <<vars, reader, pos, its, item, step, dc, got, disturbed>>
            BY <1>2 DEF readerVars, itemVars
        <2>2. /\ IInv' /\ TailPlaced' /\ devLen' = devLen /\ members' = members
              /\ calls' = calls /\ pc' = pc
            BY <2>1, StillFinished
        <2> QED BY <2>1, <2>2 DEF RTInv, Opened, Iterates, TooLong, Closed, Reading, Nothing
    <1>3. CASE \E guess \in BOOLEAN : CreateReader(guess)
        BY <1>3, CreateReaderRTInv
    <1>4. CASE \E i \in Iterators : \/ Index(i) \/ NextItem(i) \/ NextRefuses(i) \/ NextEnds(i)
                                   \/ IteratorFails(i) \/ NextEndsOnError(i)
        BY <1>4, IndexRTInv, NextItemRTInv, NextRefusesRTInv, NextEndsRTInv, IteratorFailsRTInv
    <1>5. CASE \E i \in Iterators : \E k \in 1..Len(its[i].seen) : ReadItem(its[i].seen[k])
        <2> PICK i \in Iterators : \E k \in 1..Len(its[i].seen) : ReadItem(its[i].seen[k])
            BY <1>5
        <2>1. PICK k \in 1..Len(its[i].seen) : ReadItem(its[i].seen[k])
            OBVIOUS
        <2>2. its[i].seen[k] \in 1..Len(members)
            BY <2>1, SeenCalls DEF ReadItem
        <2> QED BY <2>1, <2>2, ReadItemRTInv
    <1>6. CASE NextHeader
        BY <1>6, NextHeaderRTInv
    <1>7. CASE ReadContent
        BY <1>7, ReadContentRTInv
    <1> QED BY <1>1, <1>2, <1>3, <1>4, <1>5, <1>6, <1>7 DEF RTNext

LEMMA RTInvReadBack == RTInv => ReadBack
    <1> SUFFICES ASSUME RTInv PROVE ReadBack
        OBVIOUS
    <1>2. ASSUME NEW i \in Iterators
          PROVE  /\ Len(its[i].seen) <= Len(calls)
                 /\ \A k \in 1..Len(its[i].seen) : its[i].seen[k] = k
                 /\ its[i].ended => Len(its[i].seen) = Len(calls) \/ its[i].faulted
                 /\ its[i].failed =>
                      its[i].faulted \/ \E k \in 1..Len(calls) : calls[k] \/ TooLong(k)
        <2>1. Iterates(its[i]) /\ Len(calls) \in Nat
            BY MemberNats DEF RTInv, IInv
        <2>2. CASE its[i].open
            BY <2>1, <2>2 DEF Iterates
        <2>3. CASE ~its[i].open
            BY <2>1, <2>3 DEF Iterates, Closed
        <2> QED BY <2>2, <2>3
    <1>3. /\ got.bad => disturbed
          /\ got.header # Nowhere => got.header = members[item].at
          /\ got.content # Nowhere => got.content = members[item].at + members[item].header
        <2>1. Reading
            BY DEF RTInv
        <2>2. CASE item = 0 \/ step = "header"
            BY <2>1, <2>2 DEF Reading, Nothing
        <2>3. CASE item # 0 /\ step = "content"
            BY <2>1, <2>3 DEF Reading
        <2> QED BY <2>1, <2>2, <2>3 DEF Reading
    <1> QED BY <1>2, <1>3 DEF ReadBack

(* Whatever archive the Rust writer finished, in whatever order a client   *)
(* interleaves its iterators and its items and whichever of their reads    *)
(* fail: an iterator yields the calls in order and misses some only when a *)
(* read failed, and an item's header and content are read where they were  *)
(* written unless an iterator was moved in between.                        *)
THEOREM RustReadBackTheorem == RTSpec => []ReadBack
    <1>1. RTSpec => []RTInv
        BY InitRTInv, NextRTInv, PTL DEF RTSpec
    <1> QED BY <1>1, RTInvReadBack, PTL
=============================================================================
