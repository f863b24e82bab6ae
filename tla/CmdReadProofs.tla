---------------------------- MODULE CmdReadProofs ----------------------------
(***************************************************************************)
(* Theorems about CmdRead: what ls, cat, tree and extract put out and how  *)
(* they exit, for every archive, command line and failure.                 *)
(***************************************************************************)
EXTENDS CmdRead, ScarReaderProofs

(***************************************************************************)
(* The commands as clients of the reader                                   *)
(***************************************************************************)
Steps == {"start", "iterate", "next", "returned", "meta", "end"}

(* A pass is one of the command's, and has an iterator.                    *)
CmdTyped ==
    /\ arc \in Archives /\ command \in Commands
    /\ step \in Steps
    /\ pass \in 1..Len(Handles)
    /\ step = "start" => pass = 1
    /\ step \notin {"start", "end"} => pass <= Passes
    /\ exit \in {0, 1, Minus1, Running}

LEMMA CommandFacts ==
    ASSUME command \in Commands
    PROVE  /\ command.cmd \in {"ls", "cat", "tree", "extract"}
           /\ Len(command.argv) \in Nat /\ Len(command.argv) <= Len(Handles)
           /\ Len(command.argv) = 0 <=> command.argv = << >>
           /\ Len(Handles) \in Nat /\ 1 <= Len(Handles)
    <1>1. /\ command.cmd \in {"ls", "cat", "tree", "extract"}
          /\ command.argv \in Seq(Seq(STRING) \ {<< >>}) /\ Len(command.argv) <= Len(Handles)
          /\ Handles \in Seq(Iterators) /\ Handles # << >>
        BY CommandsAssumption
    <1>2. Len(command.argv) \in Nat /\ (Len(command.argv) = 0 <=> command.argv = << >>)
        BY <1>1, EmptySeq, LenProperties
    <1>3. Len(Handles) \in Nat /\ Len(Handles) # 0
        BY <1>1, EmptySeq, LenProperties
    <1> QED BY <1>1, <1>2, <1>3

LEMMA PassFacts ==
    ASSUME CmdTyped
    PROVE  Handles[pass] \in Iterators /\ pass \in Nat /\ Passes \in Nat /\ Passes <= Len(Handles)
    <1>1. Handles \in Seq(Iterators) /\ pass \in 1..Len(Handles)
        BY CommandsAssumption DEF CmdTyped
    <1>2. Handles[pass] \in Iterators
        BY <1>1, ElementOfSeq
    <1> QED BY <1>1, <1>2, CommandFacts DEF CmdTyped, Passes

(* Every step of a command is one of the reader, or none of its business.  *)
LEMMA SimulatesReader ==
    ASSUME TypeInv, CmdTyped, [CmdNext]_allVars
    PROVE  [Next]_vars
    <1>1. CASE UNCHANGED allVars
        BY <1>1 DEF allVars, vars
    <1>2. CASE CallIterate \/ CallNext
        <2>1. \/ UNCHANGED vars \/ Iterate(Handles[pass]) \/ IteratorNext(Handles[pass])
            BY <1>2 DEF CallIterate, CallNext
        <2> QED BY <2>1, PassFacts DEF Next
    <1>3. CASE CallReadMeta
        <2>1. command.cmd = "cat" /\ Selected(Here) /\ ReadMeta(Here)
            BY <1>3 DEF CallReadMeta
        <2>2. Here \in FileMembers
            BY <2>1 DEF Selected, Roots
        <2>3. Here \in 1..Len(arc.files)
            BY <2>2, NamesAssumption DEF CmdTyped
        <2> QED BY <2>1, <2>3 DEF Next
    <1>4. CASE ReaderStep
        BY <1>4, PassFacts DEF ReaderStep, Next
    <1>5. CASE CallReadContent
        BY <1>5 DEF CallReadContent, Next
    <1>6. CASE Start \/ NextFails \/ NextEnds \/ NextEndsOnError \/ SkipEntry \/ PrintEntry
               \/ ReadMetaFailed
        BY <1>6 DEF Start, NextFails, NextEnds, NextEndsOnError, EndPass, SkipEntry, PrintEntry,
                    ReadMetaFailed
    <1> QED BY <1>1, <1>2, <1>3, <1>4, <1>5, <1>6 DEF CmdNext

LEMMA ArcStays ==
    ASSUME [Next]_vars
    PROVE  UNCHANGED arc
    BY DEF Next, vars, Iterate, IteratorNext, IteratorGoOn, IteratorFree, ReadMeta,
           EnsureCheckpointSection, SeekToCheckpoint, SkipToOffset, ReadHeaders, ReadContent

LEMMA CommandStays ==
    ASSUME [CmdNext]_allVars
    PROVE  UNCHANGED command
    BY DEF CmdNext, allVars, cmdVars, Start, CallIterate, CallNext, NextFails, NextEnds,
           NextEndsOnError, EndPass, SkipEntry, PrintEntry, CallReadMeta, ReaderStep,
           ReadMetaFailed, CallReadContent

LEMMA CmdInitTyped == CmdInit => TypeInv /\ ReadInv /\ CmdTyped
    <1> SUFFICES ASSUME CmdInit PROVE TypeInv /\ ReadInv /\ CmdTyped
        OBVIOUS
    <1>1. Init /\ command \in Commands /\ step = "start" /\ pass = 1 /\ exit = Running
        BY DEF CmdInit
    <1>2. TypeInv /\ ReadInv
        BY <1>1, InitType, InitRead DEF Init
    <1>3. 1 \in 1..Len(Handles)
        BY <1>1, CommandFacts
    <1> QED BY <1>1, <1>2, <1>3 DEF CmdTyped, Steps, Init

LEMMA CmdStepTyped ==
    ASSUME TypeInv, CmdTyped, [CmdNext]_allVars
    PROVE  CmdTyped'
    <1>1. UNCHANGED arc
        BY SimulatesReader, ArcStays
    <1>2. UNCHANGED command
        BY CommandStays
    <1>3. Passes' = Passes
        BY <1>2 DEF Passes, Roots
    <1>4. CASE UNCHANGED <<step, pass, exit>>
        BY <1>1, <1>2, <1>3, <1>4 DEF CmdTyped
    <1>5. CASE Start
        <2>1. UNCHANGED pass /\ step = "start"
            BY <1>5 DEF Start
        <2>2. CASE step' = "end" /\ exit' = 1
            BY <1>1, <1>2, <2>1, <2>2 DEF CmdTyped, Steps
        <2>3. CASE /\ step' = "iterate" /\ exit' = exit
                   /\ command.cmd = "cat" => command.argv # << >>
            <3>1. 1 <= Passes
                BY <2>3, CommandFacts DEF CmdTyped, Passes, Roots
            <3>2. pass = 1
                BY <2>1 DEF CmdTyped
            <3> QED BY <1>1, <1>2, <1>3, <2>1, <2>3, <3>1, <3>2 DEF CmdTyped, Steps
        <2> QED BY <1>5, <2>2, <2>3 DEF Start, Exit
    <1>6. CASE CallIterate \/ NextFails
        <2>1. UNCHANGED pass /\ step \notin {"start", "end"} /\ step' \in {"next", "end"}
              /\ exit' \in {exit, 1, Minus1}
            BY <1>6 DEF CallIterate, NextFails, Exit
        <2> QED BY <1>1, <1>2, <1>3, <2>1 DEF CmdTyped, Steps
    <1>7. CASE NextEnds \/ NextEndsOnError
        <2>1. EndPass /\ step \notin {"start", "end"} /\ pass <= Passes
            BY <1>7 DEF NextEnds, NextEndsOnError, CmdTyped
        <2>2. CASE pass < Passes /\ pass' = pass + 1 /\ step' = "iterate" /\ UNCHANGED exit
            <3>1. pass' \in 1..Len(Handles) /\ pass' <= Passes
                BY <2>2, PassFacts, CommandFacts DEF CmdTyped
            <3> QED BY <1>1, <1>2, <1>3, <2>2, <3>1 DEF CmdTyped, Steps
        <2>3. CASE step' = "end" /\ exit' = 0 /\ UNCHANGED pass
            BY <1>1, <1>2, <2>3 DEF CmdTyped, Steps
        <2> QED BY <2>1, <2>2, <2>3 DEF EndPass, Exit
    <1>8. CASE CallNext \/ SkipEntry \/ PrintEntry \/ CallReadMeta \/ ReadMetaFailed
               \/ CallReadContent
        <2>1. /\ UNCHANGED <<pass, exit>> /\ step \notin {"start", "end"}
              /\ step' \in {"next", "returned", "meta"}
            BY <1>8 DEF CallNext, SkipEntry, PrintEntry, CallReadMeta, ReadMetaFailed,
                        CallReadContent
        <2> QED BY <1>1, <1>2, <1>3, <2>1 DEF CmdTyped, Steps
    <1>9. CASE ReaderStep \/ UNCHANGED allVars
        BY <1>4, <1>9 DEF ReaderStep, allVars, cmdVars
    <1> QED BY <1>5, <1>6, <1>7, <1>8, <1>9 DEF CmdNext

LEMMA CmdStepReads ==
    TypeInv /\ ReadInv /\ CmdTyped /\ [CmdNext]_allVars => (TypeInv /\ ReadInv /\ CmdTyped)'
    BY SimulatesReader, NextType, NextRead, CmdStepTyped

(***************************************************************************)
(* What cat writes                                                         *)
(***************************************************************************)
PieceType ==
    [member : 1..Len(EntryNames), pass : Nat, whole : BOOLEAN, at : Nat, damaged : BOOLEAN]

(* How a step adds to what was put out.                                    *)
LEMMA OutEffect ==
    ASSUME [CmdNext]_allVars
    PROVE  \/ UNCHANGED out
           \/ \E whole \in BOOLEAN :
                /\ out' = Append(out, Piece(Here, whole))
                /\ command.cmd = "cat" /\ whole => ReadContent /\ result'.file = Here
                /\ PrintEntry \/ ReadMetaFailed \/ CallReadContent
    <1>1. CASE UNCHANGED allVars
        BY <1>1 DEF allVars, cmdVars
    <1>2. CASE Start \/ CallIterate \/ CallNext \/ NextFails \/ NextEnds \/ NextEndsOnError
               \/ SkipEntry \/ CallReadMeta \/ ReaderStep
        BY <1>2 DEF Start, CallIterate, CallNext, NextFails, NextEnds, NextEndsOnError, EndPass,
                    SkipEntry, CallReadMeta, ReaderStep
    <1>3. CASE PrintEntry
        BY <1>3 DEF PrintEntry
    <1>4. CASE ReadMetaFailed
        BY <1>4 DEF ReadMetaFailed
    <1>5. CASE CallReadContent
        BY <1>5 DEF CallReadContent
    <1> QED BY <1>1, <1>2, <1>3, <1>4, <1>5 DEF CmdNext

LEMMA PieceTyped ==
    ASSUME TypeInv', CmdTyped, NEW e \in 1..Len(EntryNames), NEW whole \in BOOLEAN
    PROVE  Piece(e, whole) \in PieceType
    <1>1. result' \in ResultType
        BY DEF TypeInv, TypeData
    <1>2. result'.content \in Nat /\ result'.damaged \in BOOLEAN
        BY <1>1 DEF ResultType
    <1> QED BY <1>2, PassFacts DEF Piece, PieceType

(* While cat has a member at hand it stays that one; what was written so   *)
(* far is right.                                                           *)
CatInv ==
    command.cmd = "cat" =>
        /\ step = "meta" => running = None /\ Here \in FileMembers
        /\ out \in Seq(PieceType)
        /\ CatContents

(* The member at hand after a step of a cat that has called read_meta.     *)
LEMMA HereStays ==
    ASSUME CmdTyped, CatInv, command.cmd = "cat", [CmdNext]_allVars, step' = "meta"
    PROVE  running' = None /\ Here' \in FileMembers
    <1>1. CASE step = "meta" /\ UNCHANGED <<its, running, pass>>
        BY <1>1 DEF CatInv, Here, It
    <1>2. CASE CallReadMeta
        <2>1. /\ running = None /\ UNCHANGED <<its, running, pass>>
              /\ Selected(Here)
            BY <1>2 DEF CallReadMeta, ReadMeta
        <2>2. Here \in FileMembers
            BY <2>1 DEF Selected, Roots
        <2> QED BY <2>1, <2>2 DEF Here, It
    <1>3. CASE ReaderStep
        <2>1. step = "meta" /\ UNCHANGED pass /\ running = None
            BY <1>3 DEF ReaderStep, cmdVars, CatInv
        <2>2. ~IteratorGoOn(Handles[pass])
            BY <2>1, PassFacts, IteratorsAssumption DEF IteratorGoOn
        <2>3. UNCHANGED <<its, running>>
            BY <1>3, <2>2 DEF ReaderStep, EnsureCheckpointSection, SeekToCheckpoint, SkipToOffset,
                              ReadHeaders
        <2> QED BY <1>1, <2>1, <2>3
    <1>4. CASE UNCHANGED allVars
        BY <1>1, <1>4 DEF allVars, vars, cmdVars
    <1>5. CASE Start \/ CallIterate \/ CallNext \/ NextFails \/ NextEnds \/ NextEndsOnError
               \/ SkipEntry \/ PrintEntry \/ ReadMetaFailed \/ CallReadContent
        BY <1>5 DEF Start, CallIterate, CallNext, NextFails, NextEnds, NextEndsOnError, EndPass,
                    SkipEntry, PrintEntry, ReadMetaFailed, CallReadContent, Exit
    <1> QED BY <1>2, <1>3, <1>4, <1>5 DEF CmdNext

LEMMA CatStep ==
    ASSUME TypeInv, ReadInv, CmdTyped, CatInv, [CmdNext]_allVars
    PROVE  CatInv'
    <1>1. TypeInv' /\ ReadInv' /\ UNCHANGED <<arc, command>>
        <2>1. UNCHANGED arc
            BY SimulatesReader, ArcStays
        <2>2. UNCHANGED command
            BY CommandStays
        <2> QED BY <2>1, <2>2, CmdStepReads
    <1> SUFFICES ASSUME command.cmd = "cat"
                 PROVE  /\ step' = "meta" => running' = None /\ Here' \in FileMembers
                        /\ out' \in Seq(PieceType) /\ CatContents'
        BY <1>1 DEF CatInv
    <1>2. step' = "meta" => running' = None /\ Here' \in FileMembers
        BY HereStays
    <1>3. out \in Seq(PieceType)
        BY DEF CatInv
    <1>4. \A k \in 1..Len(out) : out[k].whole =>
              /\ out[k].at = arc.files[out[k].member].off + arc.files[out[k].member].header
              /\ ~out[k].damaged
        BY DEF CatInv, CatContents
    <1>5. CASE UNCHANGED out
        BY <1>1, <1>2, <1>3, <1>4, <1>5 DEF CatContents
    <1>6. ASSUME NEW whole \in BOOLEAN,
                 out' = Append(out, Piece(Here, whole)),
                 whole => ReadContent /\ result'.file = Here,
                 PrintEntry \/ ReadMetaFailed \/ CallReadContent
          PROVE  out' \in Seq(PieceType) /\ CatContents'
        <2>1. step = "meta"
            BY <1>6 DEF PrintEntry, ReadMetaFailed, CallReadContent
        <2>2. Here \in FileMembers
            BY <2>1 DEF CatInv
        <2>3. Here \in 1..Len(EntryNames)
            BY <2>2, NamesAssumption
        <2> DEFINE piece == Piece(Here, whole)
        <2>4. piece \in PieceType
            BY <1>1, <2>3, PieceTyped
        <2>5. /\ piece.member = Here /\ piece.whole = whole
              /\ piece.at = result'.content /\ piece.damaged = result'.damaged
            BY DEF Piece
        <2>6. whole => /\ piece.at = arc.files[Here].off + arc.files[Here].header
                       /\ ~piece.damaged
            <3> SUFFICES ASSUME whole PROVE result'.content = arc.files[Here].off + arc.files[Here].header
                                            /\ ~result'.damaged
                BY <2>5
            <3>1. ContentCorrect' /\ result'.file = Here
                BY <1>1, <1>6 DEF ReadInv
            <3>2. Here # 0
                BY <2>3
            <3> QED BY <1>1, <3>1, <3>2 DEF ContentCorrect
        <2> HIDE DEF piece
        <2>7. /\ out' \in Seq(PieceType) /\ Len(out') = Len(out) + 1 /\ Len(out) \in Nat
              /\ \A k \in 1..Len(out) : out'[k] = out[k]
              /\ out'[Len(out) + 1] = piece
            BY <1>3, <1>6, <2>4, AppendProperties, LenProperties DEF piece
        <2>8. ASSUME NEW k \in 1..Len(out'), out'[k].whole
              PROVE  /\ out'[k].at = arc.files[out'[k].member].off + arc.files[out'[k].member].header
                     /\ ~out'[k].damaged
            <3>1. CASE k \in 1..Len(out)
                BY <1>4, <2>7, <2>8, <3>1
            <3>2. CASE k \notin 1..Len(out)
                <4>1. k = Len(out) + 1
                    BY <2>7, <3>2
                <4> QED BY <2>5, <2>6, <2>7, <2>8, <4>1
            <3> QED BY <3>1, <3>2
        <2> QED BY <1>1, <2>7, <2>8 DEF CatContents
    <1> QED BY <1>2, <1>5, <1>6, OutEffect

(* Whatever could not be read before, and wherever the iterators have left *)
(* the cursor, what cat writes as the content of a file is all of it, out  *)
(* of one stream without a gap.                                            *)
THEOREM CatTheorem == CmdSpec => []CatContents
    <1>1. CmdInit => TypeInv /\ ReadInv /\ CmdTyped
        BY CmdInitTyped
    <1>2. CmdInit => CatInv
        <2> SUFFICES ASSUME CmdInit PROVE CatInv
            OBVIOUS
        <2>1. out = << >> /\ step = "start"
            BY DEF CmdInit
        <2>2. out \in Seq(PieceType) /\ Len(out) = 0
            BY <2>1, EmptySeq
        <2> QED BY <2>1, <2>2 DEF CatInv, CatContents
    <1>3. TypeInv /\ ReadInv /\ CmdTyped /\ CatInv /\ [CmdNext]_allVars
              => (TypeInv /\ ReadInv /\ CmdTyped /\ CatInv)'
        BY CmdStepReads, CatStep
    <1>4. CmdTyped /\ CatInv => CatContents
        BY DEF CatInv, CatContents
    <1> QED BY <1>1, <1>2, <1>3, <1>4, PTL DEF CmdSpec

(***************************************************************************)
(* What a pass over the index has put out                                  *)
(***************************************************************************)
Told(o, p, e) == \E i \in 1..Len(o) : o[i].pass = p /\ o[i].member = e
Whole(c, o, p, n) == \A e \in 1..n : Expected(c, p, e) <=> Told(o, p, e)
NoneBeyond(o, p, n) == \A i \in 1..Len(o) : o[i].pass = p => o[i].member <= n
Ordered(c, o) ==
    /\ \A i, j \in 1..Len(o) : i < j =>
         \/ o[i].pass < o[j].pass
         \/ o[i].pass = o[j].pass /\ o[i].member < o[j].member
    /\ \A i \in 1..Len(o) : Whole(c, o, o[i].pass, o[i].member)

LEMMA InOrderOrdered == Ordered(command, out) => InOrder
    BY DEF Ordered, InOrder, Whole, Complete, Told, TakenUp

LEMMA PieceFacts ==
    ASSUME NEW o \in Seq(PieceType), NEW i \in 1..Len(o)
    PROVE  o[i].pass \in Nat /\ o[i].member \in Nat /\ o[i].member \in 1..Len(EntryNames)
    <1>1. o[i] \in PieceType
        BY ElementOfSeq
    <1>2. Len(EntryNames) \in Nat
        BY NamesAssumption, LenProperties
    <1> QED BY <1>1, <1>2 DEF PieceType

LEMMA AppendTold ==
    ASSUME NEW o \in Seq(PieceType), NEW x \in PieceType
    PROVE  LET o2 == Append(o, x) IN
           /\ o2 \in Seq(PieceType) /\ Len(o2) = Len(o) + 1 /\ Len(o) \in Nat
           /\ \A k \in 1..Len(o) : o2[k] = o[k]
           /\ o2[Len(o) + 1] = x
           /\ \A p, e : Told(o2, p, e) <=> Told(o, p, e) \/ (x.pass = p /\ x.member = e)
    <1> DEFINE o2 == Append(o, x)
    <1>1. o2 \in Seq(PieceType) /\ Len(o2) = Len(o) + 1
        BY AppendProperties
    <1>2. (\A k \in 1..Len(o) : o2[k] = o[k]) /\ o2[Len(o) + 1] = x
        BY AppendProperties
    <1>3. Len(o) \in Nat
        BY LenProperties
    <1> HIDE DEF o2
    <1>4. \A k : k \in 1..Len(o2) <=> k \in 1..Len(o) \/ k = Len(o) + 1
        BY <1>1, <1>3
    <1>5. \A p, e : Told(o2, p, e) <=> Told(o, p, e) \/ (x.pass = p /\ x.member = e)
        BY <1>2, <1>4 DEF Told
    <1> QED BY <1>1, <1>2, <1>3, <1>5 DEF o2

(* Putting out the next member that is expected.                           *)
LEMMA AppendOrdered ==
    ASSUME NEW c, NEW o \in Seq(PieceType), NEW x \in PieceType, NEW o2, o2 = Append(o, x),
           Ordered(c, o),
           \A i \in 1..Len(o) : o[i].pass <= x.pass,
           NoneBeyond(o, x.pass, x.member - 1),
           Whole(c, o, x.pass, x.member - 1),
           Expected(c, x.pass, x.member)
    PROVE  /\ Ordered(c, o2)
           /\ Whole(c, o2, x.pass, x.member)
           /\ NoneBeyond(o2, x.pass, x.member)
           /\ \A p, n : p # x.pass => (Whole(c, o2, p, n) <=> Whole(c, o, p, n))
    <1>1. /\ o2 \in Seq(PieceType) /\ Len(o2) = Len(o) + 1 /\ Len(o) \in Nat
          /\ \A k \in 1..Len(o) : o2[k] = o[k]
          /\ o2[Len(o) + 1] = x
          /\ \A p, e : Told(o2, p, e) <=> Told(o, p, e) \/ (x.pass = p /\ x.member = e)
        BY AppendTold
    <1>2. x.pass \in Nat /\ x.member \in Nat
        <2>1. Len(EntryNames) \in Nat
            BY NamesAssumption, LenProperties
        <2> QED BY <2>1 DEF PieceType
    <1>3. ASSUME NEW i \in 1..Len(o)
          PROVE  /\ o[i].pass \in Nat /\ o[i].member \in Nat
                 /\ \/ o[i].pass < x.pass
                    \/ o[i].pass = x.pass /\ o[i].member < x.member
        <2>1. o[i].pass \in Nat /\ o[i].member \in Nat
            BY PieceFacts
        <2>2. o[i].pass <= x.pass /\ (o[i].pass = x.pass => o[i].member <= x.member - 1)
            BY DEF NoneBeyond
        <2> QED BY <1>2, <2>1, <2>2
    <1>4. \A p, n : p # x.pass => (Whole(c, o2, p, n) <=> Whole(c, o, p, n))
        BY <1>1 DEF Whole
    <1>5. Whole(c, o2, x.pass, x.member)
        <2>1. ASSUME NEW e \in 1..x.member
              PROVE  Expected(c, x.pass, e) <=> Told(o2, x.pass, e)
            <3>1. CASE e = x.member
                BY <1>1, <3>1
            <3>2. CASE e # x.member
                <4>1. e \in 1..x.member - 1
                    BY <1>2, <3>2
                <4> QED BY <1>1, <3>2, <4>1 DEF Whole
            <3> QED BY <3>1, <3>2
        <2> QED BY <2>1 DEF Whole
    <1>6. NoneBeyond(o2, x.pass, x.member)
        <2>1. ASSUME NEW i \in 1..Len(o2), o2[i].pass = x.pass PROVE o2[i].member <= x.member
            <3>1. CASE i \in 1..Len(o)
                BY <1>1, <1>2, <1>3, <2>1, <3>1
            <3>2. CASE i \notin 1..Len(o)
                <4>1. i = Len(o) + 1
                    BY <1>1, <3>2
                <4> QED BY <1>1, <1>2, <4>1
            <3> QED BY <3>1, <3>2
        <2> QED BY <2>1 DEF NoneBeyond
    <1>7. ASSUME NEW i \in 1..Len(o2), NEW j \in 1..Len(o2), i < j
          PROVE  \/ o2[i].pass < o2[j].pass
                 \/ o2[i].pass = o2[j].pass /\ o2[i].member < o2[j].member
        <2>1. i \in 1..Len(o)
            BY <1>1, <1>7
        <2>2. CASE j \in 1..Len(o)
            BY <1>1, <1>7, <2>1, <2>2 DEF Ordered
        <2>3. CASE j \notin 1..Len(o)
            <3>1. j = Len(o) + 1
                BY <1>1, <2>3
            <3>2. o2[j] = x /\ o2[i] = o[i]
                BY <1>1, <2>1, <3>1
            <3> QED BY <1>3, <2>1, <3>2
        <2> QED BY <2>2, <2>3
    <1>8. ASSUME NEW i \in 1..Len(o2)
          PROVE  Whole(c, o2, o2[i].pass, o2[i].member)
        <2>1. CASE i \notin 1..Len(o)
            <3>1. i = Len(o) + 1
                BY <1>1, <2>1
            <3> QED BY <1>1, <1>5, <3>1
        <2>2. CASE i \in 1..Len(o)
            <3>1. o2[i] = o[i] /\ Whole(c, o, o[i].pass, o[i].member)
                BY <1>1, <2>2 DEF Ordered
            <3>2. CASE o[i].pass # x.pass
                BY <1>4, <3>1, <3>2
            <3>3. CASE o[i].pass = x.pass
                <4>1. o[i].member \in Nat /\ o[i].member < x.member
                    <5>1. /\ o[i].member \in Nat
                          /\ o[i].pass < x.pass \/ o[i].member < x.member
                        BY <1>3, <2>2
                    <5>2. ~ (o[i].pass < x.pass)
                        BY <1>2, <3>3
                    <5> QED BY <5>1, <5>2
                <4>2. \A e \in 1..o[i].member : e \in 1..x.member
                    <5>1. ASSUME NEW m \in Nat, NEW n \in Nat, m < n
                          PROVE  \A e \in 1..m : e \in 1..n
                        BY <5>1
                    <5> QED BY <1>2, <4>1, <5>1
                <4> QED BY <1>5, <3>1, <3>3, <4>2 DEF Whole
            <3> QED BY <3>2, <3>3
        <2> QED BY <2>1, <2>2
    <1> QED BY <1>4, <1>5, <1>6, <1>7, <1>8 DEF Ordered

(***************************************************************************)
(* The invariant of a pass                                                 *)
(***************************************************************************)
N == Len(EntryNames)

(* prev is the last topmost member of the first n, if there is one.        *)
Topmost(root, n) ==
    \/ root = << >> /\ \A d \in 1..n : ~IsRoot(d)
    \/ \E d \in 1..n : /\ IsRoot(d) /\ root = EntryNames[d]
                       /\ \A b \in d + 1..n : ~IsRoot(b)

(* Of the first n members the pass has put out those it should, and none   *)
(* beyond.                                                                 *)
Covers(c, o, p, root, n) ==
    /\ Whole(c, o, p, n)
    /\ NoneBeyond(o, p, n)
    /\ c.cmd = "ls" /\ c.argv = << >> => Topmost(root, n)

OutInv ==
    /\ out \in Seq(PieceType) /\ broken \in BOOLEAN
    /\ prev \in {<< >>} \cup {EntryNames[k] : k \in 1..Len(EntryNames)}
    /\ \A k \in 1..Len(out) : out[k].pass <= pass
    /\ Ordered(command, out)
    /\ \A p \in 1..pass - 1 : p \in cut \/ Whole(command, out, p, N)
    /\ step = "start" => out = << >> /\ prev = << >>

Seen == Len(It.seen)

PlaceInv ==
    /\ step = "iterate" => Covers(command, out, pass, prev, 0)
    /\ step \in {"next", "returned", "meta"} => It.open
    /\ step = "next" => ~It.ended /\ Covers(command, out, pass, prev, Seen)
    /\ step = "returned" /\ It.ended => Covers(command, out, pass, prev, N)
    /\ step \in {"returned", "meta"} /\ ~It.ended =>
         Seen >= 1 /\ Covers(command, out, pass, prev, Seen - 1)
    /\ step = "meta" => ~It.ended /\ ~Roots /\ Expected(command, pass, Seen)

ExitInv ==
    /\ exit = 0 => \A p \in 1..Passes : p \in cut \/ Whole(command, out, p, N)
    /\ exit \in {1, Minus1} =>
         \/ broken
         \/ command.cmd = "cat" /\ command.argv = << >>
         \/ command.cmd = "tree" /\ command.argv # << >>
    /\ exit # Running => step = "end"

CInv == TypeInv /\ ReadInv /\ CmdTyped /\ IterInv
PInv == CInv /\ OutInv /\ PlaceInv /\ ExitInv

(* The iterator of the pass has yielded the members up to the one at hand. *)
LEMMA SeenFacts ==
    ASSUME PlainIndex, CInv
    PROVE  /\ N \in Nat /\ Seen \in 0..N /\ Seen \in Nat
           /\ It.ended => Seen = N
           /\ Seen >= 1 => Here = Seen
    <1>1. TypeInv /\ CmdTyped /\ Faithful(It) /\ It \in IteratorType
        BY PassFacts, TypeFacts DEF CInv, IterInv, It
    <1>2. Len(arc.lines) = N /\ \A k \in 1..N : arc.lines[k].file = k
        BY <1>1 DEF PlainIndex, CmdTyped, N
    <1>3. N \in Nat
        BY NamesAssumption, LenProperties DEF N
    <1>4. Seen \in Nat
        BY <1>1 DEF IteratorType, Seen
    <1>5. Seen <= N /\ (It.ended => Seen = N) /\ \A k \in 1..Seen : It.seen[k] = arc.lines[k].file
        BY <1>1, <1>2 DEF Faithful, Seen
    <1>6. Seen >= 1 => It.seen[Seen] = Seen
        BY <1>2, <1>3, <1>4, <1>5
    <1> QED BY <1>3, <1>4, <1>5, <1>6 DEF Here, Seen

(* The member at hand is one the loop goes on with if and only if it       *)
(* should be put out.                                                      *)
LEMMA SelectedRight ==
    ASSUME PatternsFaithful, TopmostApart, CmdTyped, step = "returned",
           NEW e \in 1..N, Roots => Topmost(prev, e - 1)
    PROVE  Selected(e) <=> Expected(command, pass, e)
    <1>1. /\ NameOf(e) = EntryNames[e] /\ EntryNames[e] # << >> /\ e \in Nat /\ N \in Nat
          /\ e \in 1..Len(EntryNames)
        <2>1. EntryNames \in Seq(Seq(STRING) \ {<< >>}) /\ N \in Nat
            BY NamesAssumption, LenProperties DEF N
        <2>2. EntryNames[e] \in Seq(STRING) \ {<< >>}
            BY <2>1, ElementOfSeq DEF N
        <2>3. e # 0 /\ e \in Nat
            BY <2>1
        <2> QED BY <2>1, <2>2, <2>3 DEF NameOf, N
    <1>2. CASE command.cmd = "tree"
        BY <1>2 DEF Selected, Expected, Roots
    <1>3. CASE Roots
        <2>1. Selected(e) <=> ~IsPrefix(prev, EntryNames[e]) \/ prev = << >>
            BY <1>1, <1>3 DEF Selected, Roots
        <2>2. Expected(command, pass, e) <=> IsRoot(e)
            BY <1>3 DEF Expected, Roots
        <2>3. CASE prev = << >> /\ \A d \in 1..e - 1 : ~IsRoot(d)
            <3>1. IsRoot(e)
                BY <1>1, <2>3 DEF TopmostApart
            <3> QED BY <2>1, <2>2, <2>3, <3>1
        <2>4. ASSUME NEW d \in 1..e - 1, IsRoot(d), prev = EntryNames[d],
                     \A b \in d + 1..e - 1 : ~IsRoot(b)
              PROVE  Selected(e) <=> Expected(command, pass, e)
            <3>1. prev # << >>
                <4>1. d \in 1..Len(EntryNames)
                    BY <1>1
                <4>2. EntryNames[d] \in Seq(STRING) \ {<< >>}
                    BY <4>1, NamesAssumption, ElementOfSeq
                <4> QED BY <2>4, <4>2
            <3>2. IsRoot(e) => ~IsPrefix(prev, EntryNames[e])
                BY <1>1, <2>4 DEF TopmostApart
            <3>3. ~IsPrefix(prev, EntryNames[e]) => IsRoot(e)
                <4> SUFFICES ASSUME ~IsPrefix(prev, EntryNames[e]) PROVE IsRoot(e)
                    OBVIOUS
                <4>1. ASSUME NEW k \in 1..e - 1, IsRoot(k), \A b \in k + 1..e - 1 : ~IsRoot(b)
                      PROVE  k = d
                    <5>1. ~(k < d) /\ ~(d < k)
                        <6>1. k < d => d \in k + 1..e - 1
                            BY <1>1
                        <6>2. d < k => k \in d + 1..e - 1
                            BY <1>1
                        <6> QED BY <2>4, <4>1, <6>1, <6>2
                    <5> QED BY <1>1, <5>1
                <4> QED BY <1>1, <2>4, <4>1 DEF TopmostApart
            <3> QED BY <2>1, <2>2, <3>1, <3>2, <3>3
        <2> QED BY <1>3, <2>3, <2>4 DEF Topmost
    <1>4. CASE command.cmd = "extract"
        <2>1. \A k \in 1..Len(command.argv) :
                 Wanted(command.cmd, command.argv[k], e) <=>
                    RxMatch(Matcher(command.cmd, command.argv[k]), EntryNames[e])
            BY <1>1, <1>4 DEF PatternsFaithful, CmdTyped
        <2> QED BY <1>1, <1>4, <2>1 DEF Selected, Expected, Roots
    <1>5. CASE command.cmd \in {"ls", "cat"} /\ ~Roots
        <2>1. pass \in 1..Len(command.argv)
            BY <1>5, CommandFacts DEF CmdTyped, Passes
        <2>2. Wanted(command.cmd, command.argv[pass], e) <=>
                 /\ command.cmd = "cat" => e \in FileMembers
                 /\ RxMatch(Matcher(command.cmd, command.argv[pass]), EntryNames[e])
            BY <1>1, <1>5, <2>1 DEF PatternsFaithful, CmdTyped
        <2> QED BY <1>1, <1>5, <2>2 DEF Selected, Expected, Roots
    <1> QED BY <1>2, <1>3, <1>4, <1>5, CommandFacts DEF CmdTyped

(***************************************************************************)
(* The steps                                                               *)
(***************************************************************************)
LEMMA CmdInitInv ==
    ASSUME PlainIndex, CmdInit
    PROVE  PInv
    <1>1. TypeInv /\ ReadInv /\ CmdTyped
        BY CmdInitTyped
    <1>2. /\ step = "start" /\ prev = << >> /\ out = << >> /\ broken = FALSE /\ pass = 1
          /\ exit = Running
        BY DEF CmdInit
    <1>3. IterInv
        <2>1. arc \in Archives /\ ReaderInit
            BY DEF CmdInit, Init
        <2>2. NoGlobals
            BY <2>1 DEF PlainIndex, NoGlobals
        <2> QED BY <2>1, <2>2, InitIter, ArchivesAssumption
    <1>4. OutInv
        <2>1. out \in Seq(PieceType) /\ Len(out) = 0
            BY <1>2, EmptySeq
        <2>2. Ordered(command, out)
            BY <2>1 DEF Ordered
        <2>3. \A p \in 1..pass - 1 : FALSE
            BY <1>2
        <2>4. \A k \in 1..Len(out) : out[k].pass <= pass
            BY <2>1
        <2> QED BY <1>2, <2>1, <2>2, <2>3, <2>4, Zenon DEF OutInv
    <1>5. PlaceInv
        BY <1>2 DEF PlaceInv
    <1>6. ExitInv
        BY <1>2 DEF ExitInv, Running, Minus1
    <1> QED BY <1>1, <1>3, <1>4, <1>5, <1>6 DEF PInv, CInv

LEMMA CInvStep == CInv /\ [CmdNext]_allVars => CInv'
    BY CmdStepReads, SimulatesReader, NextIter DEF CInv

(* A step that puts nothing out and stays in its pass.                     *)
LEMMA OutStays ==
    ASSUME OutInv, UNCHANGED <<command, pass, prev, out, cut>>, broken' \in {broken, TRUE},
           step' # "start" \/ step = "start"
    PROVE  OutInv'
    BY DEF OutInv

(* Steps that do not exit.                                                 *)
LEMMA ExitStays ==
    ASSUME ExitInv, UNCHANGED <<command, exit>>, exit = Running
    PROVE  ExitInv'
    BY DEF ExitInv, Running, Minus1

(* An iterator after a call of next.                                       *)
LEMMA NextSeen ==
    ASSUME CInv, NEW i \in Iterators, IteratorNext(i), IterInv'
    PROVE  /\ its'[i].open
           /\ Len(its'[i].seen) =
                IF its'[i].ended THEN Len(its[i].seen) ELSE Len(its[i].seen) + 1
    <1>1. /\ its \in [Iterators -> IteratorType] /\ its[i].open /\ ~its[i].ended
          /\ Faithful(its[i]) /\ Faithful(its'[i]) /\ UNCHANGED arc
        BY TypeFacts DEF CInv, IterInv, IteratorNext, Faithful
    <1>2. its[i].line \in Nat /\ Len(its[i].seen) = its[i].line - 1
        BY <1>1 DEF IteratorType, Faithful
    <1>3. CASE its[i].line > Len(arc.lines)
        <2>1. its' = [its EXCEPT ![i].ended = TRUE]
            BY <1>3 DEF IteratorNext, ParseLine
        <2> QED BY <1>1, <2>1 DEF IteratorType
    <1>4. CASE ~(its[i].line > Len(arc.lines))
        <2> DEFINE it == its[i]
                   l == arc.lines[it.line]
        <2>1. PICK f \in Fetches(it, l.len) :
                LET hi == IF f.times = 0 THEN it.hi
                          ELSE Upto(it.next_offset + f.times * f.size)
                    cursor == IF f.times = 0 THEN it.next_offset ELSE hi
                    bad == it.bad \/ (f.times > 0 /\ it.hi # it.next_offset)
                IN  its' = [its EXCEPT ![i] =
                     [it EXCEPT !.line = it.line + 1, !.cur = it.cur + l.len, !.hi = hi,
                                !.bad = bad,
                                !.next_offset = IF l.g THEN it.next_offset ELSE cursor,
                                !.seen = IF l.g THEN it.seen
                                         ELSE Append(it.seen, IF bad THEN 0 ELSE l.file)]]
            BY <1>1, <1>4 DEF IteratorNext, ParseLine, IteratorType
        <2>2. its'[i].open /\ ~its'[i].ended /\ its'[i].line = its[i].line + 1
            BY <1>1, <2>1 DEF IteratorType
        <2>3. Len(its'[i].seen) = its'[i].line - 1
            BY <1>1, <2>2 DEF Faithful
        <2> QED BY <1>2, <2>2, <2>3
    <1> QED BY <1>3, <1>4

LEMMA SeenAfter ==
    ASSUME PlainIndex
    PROVE  CInv' => (It.ended => Seen = N)'
    <1>1. CInv => (It.ended => Seen = N)
        BY SeenFacts
    <1> QED BY <1>1, PTL

LEMMA StartStep ==
    ASSUME PInv, Start
    PROVE  OutInv' /\ PlaceInv' /\ ExitInv'
    <1>1. /\ step = "start" /\ UNCHANGED <<vars, command, pass, prev, out, cut>>
          /\ broken' \in {broken, TRUE} /\ step' \in {"iterate", "end"}
        BY DEF Start, Exit, history
    <1>2. OutInv'
        BY <1>1, OutStays DEF PInv
    <1>3. out = << >> /\ prev = << >> /\ Len(out) = 0
        BY <1>1, EmptySeq DEF PInv, OutInv
    <1>4. Covers(command, out, pass, prev, 0)
        BY <1>3 DEF Covers, Whole, NoneBeyond, Topmost
    <1>5. PlaceInv'
        BY <1>1, <1>4 DEF PlaceInv
    <1>6. exit = Running
        BY <1>1 DEF PInv, ExitInv
    <1>7. CASE step' = "iterate" /\ UNCHANGED exit
        BY <1>1, <1>2, <1>5, <1>6, <1>7, ExitStays DEF PInv
    <1>8. CASE exit' = 1 /\ step' = "end"
        <2>1. \/ broken'
              \/ command'.cmd = "cat" /\ command'.argv = << >>
              \/ command'.cmd = "tree" /\ command'.argv # << >>
            BY <1>1, <1>8 DEF Start, Exit
        <2> QED BY <1>2, <1>5, <1>8, <2>1 DEF ExitInv, Running, Minus1
    <1> QED BY <1>2, <1>5, <1>7, <1>8 DEF Start, Exit

LEMMA IterateStep ==
    ASSUME PInv, CallIterate
    PROVE  OutInv' /\ PlaceInv' /\ ExitInv'
    <1>1. /\ step = "iterate" /\ UNCHANGED <<command, pass, prev, out, cut>>
          /\ broken' \in {broken, TRUE} /\ step' \in {"next", "end"}
        BY DEF CallIterate, Exit, history
    <1>2. OutInv'
        BY <1>1, OutStays DEF PInv
    <1>3. Covers(command, out, pass, prev, 0)' /\ exit = Running
        BY <1>1 DEF PInv, PlaceInv, ExitInv
    <1>4. CASE Iterate(Handles[pass]) /\ step' = "next" /\ UNCHANGED <<broken, exit>>
        <2>1. /\ Handles[pass] \in Iterators /\ its \in [Iterators -> IteratorType]
            BY PassFacts, TypeFacts DEF PInv, CInv
        <2>2. \E cur, hi : its' = [its EXCEPT ![Handles[pass]] =
                 [Closed EXCEPT !.open = TRUE, !.line = 1, !.cur = cur, !.hi = hi,
                                !.next_offset = hi]]
            BY <1>4 DEF Iterate
        <2>3. It'.open /\ ~It'.ended /\ It'.seen = << >>
            BY <1>1, <2>1, <2>2 DEF It, Closed
        <2>4. Seen' = 0
            BY <2>3, EmptySeq DEF Seen
        <2>5. PlaceInv'
            BY <1>3, <1>4, <2>3, <2>4 DEF PlaceInv
        <2> QED BY <1>1, <1>2, <1>3, <1>4, <2>5, ExitStays DEF PInv
    <1>5. CASE exit' = 1 /\ step' = "end" /\ broken' = TRUE
        BY <1>2, <1>5 DEF PlaceInv, ExitInv, Running, Minus1
    <1> QED BY <1>4, <1>5 DEF CallIterate, Exit

LEMMA NextStep ==
    ASSUME PlainIndex, PInv, CInv', CallNext
    PROVE  OutInv' /\ PlaceInv' /\ ExitInv'
    <1>1. /\ step = "next" /\ step' = "returned"
          /\ UNCHANGED <<command, pass, prev, out, broken, exit, cut>>
          /\ IteratorNext(Handles[pass]) /\ Handles[pass] \in Iterators
        BY PassFacts DEF CallNext, PInv, CInv, history
    <1>2. OutInv' /\ ExitInv'
        BY <1>1, OutStays, ExitStays DEF PInv, ExitInv
    <1>3. It.open /\ ~It.ended /\ Covers(command, out, pass, prev, Seen)
        BY <1>1 DEF PInv, PlaceInv
    <1>4. It'.open /\ Seen' = IF It'.ended THEN Seen ELSE Seen + 1
        BY <1>1, NextSeen DEF PInv, CInv, It, Seen
    <1>5. Seen \in Nat
        BY SeenFacts DEF PInv
    <1>6. CASE ~It'.ended
        <2>1. Seen' >= 1 /\ Seen' - 1 = Seen
            BY <1>4, <1>5, <1>6
        <2> QED BY <1>1, <1>2, <1>3, <1>4, <1>6, <2>1 DEF PlaceInv
    <1>7. CASE It'.ended
        <2>1. Seen = N
            BY <1>4, <1>7, SeenAfter
        <2> QED BY <1>1, <1>2, <1>3, <1>4, <1>7, <2>1 DEF PlaceInv, N
    <1> QED BY <1>6, <1>7

(* next fails in the middle of a line.                                     *)
LEMMA FailsStep ==
    ASSUME PInv, NextFails
    PROVE  OutInv' /\ PlaceInv' /\ ExitInv'
    <1>1. /\ step' = "end" /\ UNCHANGED <<command, pass, prev, out, cut>> /\ broken' = TRUE
          /\ exit' \in {1, Minus1}
        BY DEF NextFails, Exit, history
    <1>2. OutInv'
        BY <1>1, OutStays DEF PInv
    <1> QED BY <1>1, <1>2 DEF PlaceInv, ExitInv, Running, Minus1

(* A pass ends, by the end of the index or by what next takes for it.      *)
LEMMA EndsStep ==
    ASSUME PlainIndex, PInv, NextEnds \/ NextEndsOnError
    PROVE  OutInv' /\ PlaceInv' /\ ExitInv'
    <1>1. /\ EndPass /\ step \in {"next", "returned"} /\ cut \subseteq cut'
          /\ UNCHANGED <<command, prev, out, broken>>
        BY DEF NextEnds, NextEndsOnError, EndPass
    <1>2. pass \in cut' \/ Whole(command, out, pass, N)
        BY DEF NextEnds, NextEndsOnError, PInv, PlaceInv, Covers
    <1>3. /\ pass \in Nat /\ Passes \in Nat /\ pass <= Passes /\ pass >= 1
        BY <1>1, PassFacts DEF PInv, CInv, CmdTyped
    <1>4. /\ OutInv /\ broken \in BOOLEAN /\ exit = Running /\ Passes' = Passes
        BY <1>1 DEF PInv, OutInv, ExitInv, Passes, Roots
    <1>5. \A p \in 1..pass : p \in cut' \/ Whole(command, out, p, N)
        <2>1. \A p \in 1..pass : p = pass \/ p \in 1..pass - 1
            BY <1>3
        <2> QED BY <1>1, <1>2, <1>4, <2>1 DEF OutInv
    <1>6. CASE pass < Passes /\ pass' = pass + 1 /\ step' = "iterate" /\ UNCHANGED exit
        <2>1. \A k \in 1..Len(out) : out[k].pass <= pass /\ out[k].pass \in Nat
            BY <1>4, PieceFacts DEF OutInv
        <2>2. /\ \A k \in 1..Len(out) : out[k].pass <= pass'
              /\ \A k \in 1..Len(out) : out[k].pass # pass'
            BY <1>3, <1>6, <2>1
        <2>3. pass' - 1 = pass
            BY <1>3, <1>6
        <2>4. OutInv'
            BY <1>1, <1>4, <1>5, <1>6, <2>2, <2>3 DEF OutInv, N
        <2>5. ~(command.cmd = "ls" /\ command.argv = << >>)
            BY <1>3, <1>6 DEF Passes, Roots
        <2>6. Covers(command, out, pass', prev, 0)
            BY <2>2, <2>5 DEF Covers, Whole, NoneBeyond
        <2>7. PlaceInv'
            BY <1>1, <1>6, <2>6 DEF PlaceInv
        <2> QED BY <1>1, <1>4, <1>6, <2>4, <2>7, ExitStays DEF PInv
    <1>7. CASE ~(pass < Passes) /\ exit' = 0 /\ step' = "end" /\ UNCHANGED pass
        <2>1. OutInv'
            <3>1. \A p \in 1..pass - 1 : p \in 1..pass
                BY <1>3
            <3> QED BY <1>1, <1>4, <1>5, <1>7, <3>1 DEF OutInv, N
        <2>2. pass = Passes
            BY <1>3, <1>7
        <2>3. \A p \in 1..Passes : p \in cut' \/ Whole(command, out, p, N)
            BY <1>5, <2>2
        <2>4. ExitInv'
            BY <1>1, <1>4, <1>7, <2>3 DEF ExitInv, Running, Minus1, N
        <2> QED BY <1>7, <2>1, <2>4 DEF PlaceInv
    <1> QED BY <1>1, <1>6, <1>7 DEF EndPass, Exit

(* A member that should not be put out is passed over.                     *)
LEMMA SkipStep ==
    ASSUME PlainIndex, PatternsFaithful, TopmostApart, PInv, SkipEntry
    PROVE  OutInv' /\ PlaceInv' /\ ExitInv'
    <1>1. /\ step = "returned" /\ step' = "next" /\ ~It.ended /\ ~Selected(Here)
          /\ UNCHANGED <<vars, command, pass, prev, out, broken, exit, cut>>
        BY DEF SkipEntry, history
    <1>2. OutInv' /\ ExitInv'
        BY <1>1, OutStays, ExitStays DEF PInv, ExitInv
    <1>3. It.open /\ Seen >= 1 /\ Covers(command, out, pass, prev, Seen - 1)
        BY <1>1 DEF PInv, PlaceInv
    <1>4. Here = Seen /\ Seen \in 1..N /\ Seen \in Nat /\ N \in Nat
        BY <1>3, SeenFacts DEF PInv
    <1>5. ~Expected(command, pass, Seen)
        BY <1>1, <1>3, <1>4, SelectedRight DEF PInv, CInv, Covers, Roots
    <1>6. ~Told(out, pass, Seen) /\ NoneBeyond(out, pass, Seen)
        <2>1. ASSUME NEW k \in 1..Len(out), out[k].pass = pass
              PROVE  out[k].member # Seen /\ out[k].member <= Seen
            <3>1. out[k].member <= Seen - 1
                BY <1>3, <2>1 DEF Covers, NoneBeyond
            <3>2. out[k].member \in Nat
                BY PieceFacts DEF PInv, OutInv
            <3> QED BY <1>4, <3>1, <3>2
        <2> QED BY <2>1 DEF Told, NoneBeyond
    <1>7. \A e \in 1..Seen : e \in 1..Seen - 1 \/ e = Seen
        BY <1>4
    <1>8. Whole(command, out, pass, Seen)
        BY <1>3, <1>5, <1>6, <1>7 DEF Covers, Whole
    <1>9. ASSUME command.cmd = "ls", command.argv = << >>
          PROVE  Topmost(prev, Seen)
        <2>1. ~IsRoot(Seen) /\ Topmost(prev, Seen - 1)
            BY <1>3, <1>5, <1>9 DEF Expected, Covers
        <2>2. CASE prev = << >> /\ \A d \in 1..Seen - 1 : ~IsRoot(d)
            BY <1>7, <2>1, <2>2 DEF Topmost
        <2>3. ASSUME NEW d \in 1..Seen - 1, IsRoot(d), prev = EntryNames[d],
                     \A b \in d + 1..Seen - 1 : ~IsRoot(b)
              PROVE  Topmost(prev, Seen)
            <3>1. d \in 1..Seen /\ \A b \in d + 1..Seen : b \in d + 1..Seen - 1 \/ b = Seen
                BY <1>4
            <3> QED BY <2>1, <2>3, <3>1 DEF Topmost
        <2> QED BY <2>1, <2>2, <2>3 DEF Topmost
    <1>10. Covers(command, out, pass, prev, Seen)
        BY <1>6, <1>8, <1>9 DEF Covers
    <1>11. It' = It /\ Seen' = Seen
        BY <1>1 DEF It, Seen, vars
    <1> QED BY <1>1, <1>2, <1>3, <1>10, <1>11 DEF PlaceInv

(* The member at hand is put out.                                          *)
LEMMA PutStep ==
    ASSUME PlainIndex, PInv, TypeInv', step \in {"returned", "meta"}, step' = "next", ~It.ended,
           UNCHANGED <<its, command, pass, broken, exit, cut>>,
           Expected(command, pass, Seen),
           NEW whole \in BOOLEAN, out' = Append(out, Piece(Here, whole)),
           prev' = IF Roots THEN NameOf(Here) ELSE prev
    PROVE  OutInv' /\ PlaceInv' /\ ExitInv'
    <1>1. It.open /\ Seen >= 1 /\ Covers(command, out, pass, prev, Seen - 1)
        BY DEF PInv, PlaceInv
    <1>2. Here = Seen /\ Seen \in 1..N /\ Seen \in Nat /\ N \in Nat
        BY <1>1, SeenFacts DEF PInv
    <1> DEFINE x == Piece(Here, whole)
    <1>3. x \in PieceType /\ x.pass = pass /\ x.member = Seen
        <2>1. Here \in 1..Len(EntryNames)
            BY <1>2 DEF N
        <2> QED BY <1>2, <2>1, PieceTyped DEF Piece, PInv, CInv
    <1>4. /\ out \in Seq(PieceType) /\ Ordered(command, out)
          /\ \A k \in 1..Len(out) : out[k].pass <= pass
        BY DEF PInv, OutInv
    <1> HIDE DEF x
    <1>5. out' = Append(out, x)
        BY DEF x
    <1>6. /\ Ordered(command, out')
          /\ Whole(command, out', pass, Seen)
          /\ NoneBeyond(out', pass, Seen)
          /\ \A p, n : p # pass => (Whole(command, out', p, n) <=> Whole(command, out, p, n))
        BY <1>1, <1>3, <1>4, <1>5, AppendOrdered DEF Covers
    <1>7. /\ out' \in Seq(PieceType)
          /\ \A k \in 1..Len(out') : out'[k].pass <= pass
        <2>1. LET o2 == Append(out, x) IN
              /\ o2 \in Seq(PieceType) /\ Len(o2) = Len(out) + 1 /\ Len(out) \in Nat
              /\ \A k \in 1..Len(out) : o2[k] = out[k]
              /\ o2[Len(out) + 1] = x
            BY <1>3, <1>4, AppendTold
        <2>2. \A k \in 1..Len(out') : k \in 1..Len(out) \/ k = Len(out) + 1
            BY <1>5, <2>1
        <2>3. pass <= pass
            BY PassFacts DEF PInv, CInv
        <2> QED BY <1>3, <1>4, <1>5, <2>1, <2>2, <2>3
    <1>8. prev' \in {<< >>} \cup {EntryNames[k] : k \in 1..Len(EntryNames)}
        <2>1. NameOf(Here) = EntryNames[Seen] /\ Seen \in 1..Len(EntryNames)
            BY <1>2 DEF NameOf, N
        <2>2. prev \in {<< >>} \cup {EntryNames[k] : k \in 1..Len(EntryNames)}
            BY DEF PInv, OutInv
        <2> QED BY <2>1, <2>2
    <1>9. \A p \in 1..pass - 1 : p \in cut \/ Whole(command, out', p, N)
        <2>1. \A p \in 1..pass - 1 : p # pass
            BY PassFacts DEF PInv, CInv
        <2> QED BY <1>6, <2>1 DEF PInv, OutInv
    <1>10. OutInv'
        BY <1>6, <1>7, <1>8, <1>9 DEF OutInv, PInv, N
    <1>11. ASSUME command.cmd = "ls", command.argv = << >>
           PROVE  Topmost(prev', Seen)
        <2>1. IsRoot(Seen)
            BY <1>11 DEF Expected
        <2>2. prev' = EntryNames[Seen]
            BY <1>2, <1>11 DEF Roots, NameOf
        <2>3. Seen \in 1..Seen /\ \A b \in Seen + 1..Seen : FALSE
            BY <1>2
        <2> QED BY <2>1, <2>2, <2>3 DEF Topmost
    <1>12. Covers(command, out', pass, prev', Seen)
        BY <1>6, <1>11 DEF Covers
    <1>13. It' = It /\ Seen' = Seen
        BY DEF It, Seen
    <1>14. PlaceInv'
        BY <1>1, <1>12, <1>13 DEF PlaceInv
    <1>15. ExitInv'
        BY ExitStays DEF PInv, ExitInv
    <1> QED BY <1>10, <1>14, <1>15

LEMMA PrintStep ==
    ASSUME PlainIndex, PatternsFaithful, TopmostApart, PInv, CInv', PrintEntry
    PROVE  OutInv' /\ PlaceInv' /\ ExitInv'
    <1>1. /\ step = "returned" /\ step' = "next" /\ ~It.ended /\ Selected(Here)
          /\ UNCHANGED <<vars, command, pass, broken, exit, cut>>
          /\ out' = Append(out, Piece(Here, TRUE))
          /\ prev' = IF Roots THEN NameOf(Here) ELSE prev
        BY DEF PrintEntry, history
    <1>2. Seen >= 1 /\ Covers(command, out, pass, prev, Seen - 1)
        BY <1>1 DEF PInv, PlaceInv
    <1>3. Here = Seen /\ Seen \in 1..N
        BY <1>2, SeenFacts DEF PInv
    <1>4. Expected(command, pass, Seen)
        BY <1>1, <1>2, <1>3, SelectedRight DEF PInv, CInv, Covers, Roots
    <1>5. UNCHANGED its /\ TypeInv'
        BY <1>1 DEF vars, CInv
    <1> QED BY <1>1, <1>4, <1>5, PutStep

(* cat puts out the member it has read the metadata of, or failed to.      *)
LEMMA CatPutsStep ==
    ASSUME PlainIndex, PInv, CInv', ReadMetaFailed \/ CallReadContent
    PROVE  OutInv' /\ PlaceInv' /\ ExitInv'
    <1>1. /\ step = "meta" /\ step' = "next"
          /\ UNCHANGED <<its, command, pass, prev, broken, exit, cut>>
          /\ \E whole \in BOOLEAN : out' = Append(out, Piece(Here, whole))
        BY DEF ReadMetaFailed, CallReadContent, ReadContent, vars, history
    <1>2. ~It.ended /\ ~Roots /\ Expected(command, pass, Seen)
        BY <1>1 DEF PInv, PlaceInv
    <1>3. TypeInv'
        BY DEF CInv
    <1> QED BY <1>1, <1>2, <1>3, PutStep

LEMMA ReadMetaStep ==
    ASSUME PlainIndex, PatternsFaithful, TopmostApart, PInv, CallReadMeta
    PROVE  OutInv' /\ PlaceInv' /\ ExitInv'
    <1>1. /\ step = "returned" /\ step' = "meta" /\ ~It.ended /\ Selected(Here)
          /\ command.cmd = "cat"
          /\ UNCHANGED <<its, command, pass, prev, out, broken, exit, cut>>
        BY DEF CallReadMeta, ReadMeta, history
    <1>2. OutInv' /\ ExitInv'
        BY <1>1, OutStays, ExitStays DEF PInv, ExitInv
    <1>3. It.open /\ Seen >= 1 /\ Covers(command, out, pass, prev, Seen - 1)
        BY <1>1 DEF PInv, PlaceInv
    <1>4. Here = Seen /\ Seen \in 1..N
        BY <1>3, SeenFacts DEF PInv
    <1>5. Expected(command, pass, Seen)
        BY <1>1, <1>3, <1>4, SelectedRight DEF PInv, CInv, Covers, Roots
    <1>6. It' = It /\ Seen' = Seen /\ ~Roots'
        BY <1>1 DEF It, Seen, Roots
    <1> QED BY <1>1, <1>2, <1>3, <1>5, <1>6 DEF PlaceInv

(* The steps of read_meta leave the iterators alone.                       *)
LEMMA ReaderStepStays ==
    ASSUME PInv, ReaderStep \/ UNCHANGED allVars
    PROVE  OutInv' /\ PlaceInv' /\ ExitInv'
    <1>1. running = None /\ Handles[pass] # None
        BY PassFacts, IteratorsAssumption DEF PInv, CInv, IterInv
    <1>2. ~IteratorGoOn(Handles[pass])
        BY <1>1 DEF IteratorGoOn
    <1>3. UNCHANGED <<its, command, step, pass, prev, out, broken, exit, cut>>
        BY <1>2 DEF ReaderStep, EnsureCheckpointSection, SeekToCheckpoint, SkipToOffset,
                    ReadHeaders, allVars, vars, cmdVars, history
    <1>4. It' = It /\ Seen' = Seen /\ Roots' = Roots /\ Passes' = Passes
        BY <1>3 DEF It, Seen, Roots, Passes
    <1>5. OutInv'
        BY <1>3 DEF PInv, OutInv
    <1>6. PlaceInv'
        BY <1>3, <1>4 DEF PInv, PlaceInv
    <1>7. ExitInv'
        BY <1>3, <1>4 DEF PInv, ExitInv
    <1> QED BY <1>5, <1>6, <1>7

LEMMA PInvStep ==
    ASSUME PlainIndex, PatternsFaithful, TopmostApart
    PROVE  PInv /\ [CmdNext]_allVars => PInv'
    <1> SUFFICES ASSUME PInv, [CmdNext]_allVars PROVE PInv'
        OBVIOUS
    <1>1. CInv'
        BY CInvStep DEF PInv
    <1>2. OutInv' /\ PlaceInv' /\ ExitInv'
        BY <1>1, StartStep, IterateStep, NextStep, FailsStep, EndsStep, SkipStep, PrintStep,
           ReadMetaStep, ReaderStepStays, CatPutsStep DEF CmdNext
    <1> QED BY <1>1, <1>2 DEF PInv

LEMMA PInvariant ==
    ASSUME PlainIndex, PatternsFaithful, TopmostApart
    PROVE  CmdSpec => []PInv
    <1>1. CmdInit => PInv
        BY CmdInitInv
    <1> QED BY <1>1, PInvStep, PTL DEF CmdSpec

(***************************************************************************)
(* What became of a member that was taken up                               *)
(***************************************************************************)
(* The call of read_meta that runs, and the metadata that was read, are of *)
(* the member at hand; when neither is there, one of its reads has failed. *)
AtHand ==
    step = "meta" =>
        /\ pc # "idle" => target = Here
        /\ pc = "idle" /\ last # 0 => last = Here
        /\ pc = "idle" /\ last = 0 => <<pass, Here>> \in unreadable

Accounted ==
    \A i \in 1..Len(out) : out[i].whole \/ <<out[i].pass, out[i].member>> \in unreadable

(* Where a call reads there is what it reads.                              *)
LEMMA InReach ==
    ASSUME TypeInv, ReadInv, pc \in {"skip", "header"} \/ (pc = "idle" /\ last # 0)
    PROVE  decomp.cur + Needed <= decomp.end
    <1>1. ArchiveOK(arc) /\ decomp \in DecompType /\ result \in ResultType
        BY DEF TypeInv, TypeData
    <1> DEFINE e == IF pc = "idle" THEN last ELSE target
               f == arc.files[e]
    <1>2. e \in 1..Len(arc.files)
        <2>1. target \in 0..Len(arc.files) /\ last \in 0..Len(arc.files)
              /\ (pc # "idle" => target # 0)
            BY DEF TypeInv, TypeData, OneCall
        <2> QED BY <2>1
    <1>3. f.off \in Nat /\ f.header \in Nat /\ f.data \in Nat
        BY <1>1, <1>2, FileFacts
    <1>4. decomp.cur \in Nat /\ decomp.end \in Nat /\ result.skip \in Int
        BY <1>1 DEF DecompType, ResultType
    <1>5. CASE pc = "skip"
        <2>1. /\ decomp.cur + result.skip = f.off
              /\ f.off + f.header + f.data <= decomp.end
            BY <1>5 DEF ReadInv, Seeking
        <2>2. Needed = result.skip
            BY <1>5 DEF Needed
        <2> HIDE DEF f
        <2> QED BY <1>3, <1>4, <2>1, <2>2
    <1>6. CASE pc = "header"
        <2>1. /\ decomp.cur + 0 = f.off
              /\ f.off + f.header + f.data <= decomp.end
            BY <1>6 DEF ReadInv, Seeking
        <2>2. Needed = f.header
            BY <1>6 DEF Needed
        <2> HIDE DEF f
        <2> QED BY <1>3, <1>4, <2>1, <2>2
    <1>7. CASE pc = "idle" /\ last # 0
        <2>1. /\ decomp.cur = f.off + f.header
              /\ f.off + f.header + f.data <= decomp.end
            BY <1>7 DEF ReadInv, HaveMeta
        <2>2. Needed = f.data
            BY <1>7 DEF Needed
        <2> HIDE DEF f
        <2> QED BY <1>3, <1>4, <2>1, <2>2
    <1> QED BY <1>5, <1>6, <1>7

LEMMA AccountedAppend ==
    ASSUME out \in Seq(PieceType), Accounted, unreadable \subseteq unreadable',
           NEW whole \in BOOLEAN, out' = Append(out, Piece(Here, whole)),
           whole \/ <<pass, Here>> \in unreadable'
    PROVE  Accounted'
    <1> DEFINE x == Piece(Here, whole)
    <1>1. x.member = Here /\ x.pass = pass /\ x.whole = whole
        BY DEF Piece
    <1> HIDE DEF x
    <1>2. /\ Len(out') = Len(out) + 1 /\ Len(out) \in Nat
          /\ \A k \in 1..Len(out) : out'[k] = out[k]
          /\ out'[Len(out) + 1] = x
        BY LenProperties DEF x
    <1>3. ASSUME NEW k \in 1..Len(out')
          PROVE  out'[k].whole \/ <<out'[k].pass, out'[k].member>> \in unreadable'
        <2>1. CASE k \in 1..Len(out)
            BY <1>2, <2>1 DEF Accounted
        <2>2. CASE k = Len(out) + 1
            BY <1>1, <1>2, <2>2
        <2>3. k \in 1..Len(out) \/ k = Len(out) + 1
            BY <1>2
        <2> QED BY <2>1, <2>2, <2>3
    <1> QED BY <1>3 DEF Accounted

(* A step of read_meta.                                                    *)
LEMMA ReaderStepAccounted ==
    ASSUME PInv, AtHand, Accounted, ReaderStep
    PROVE  AtHand' /\ Accounted'
    <1>1. running = None /\ Handles[pass] # None
        BY PassFacts, IteratorsAssumption DEF PInv, CInv, IterInv
    <1>2. /\ EnsureCheckpointSection \/ SeekToCheckpoint \/ SkipToOffset \/ ReadHeaders
          /\ Note(step = "meta" /\ pc' = "idle" /\ last' = 0)
          /\ UNCHANGED <<step, pass, out>>
        BY <1>1 DEF ReaderStep, IteratorGoOn
    <1>3. /\ pc # "idle" /\ UNCHANGED its
          /\ \/ pc' # "idle" /\ target' = target
             \/ pc' = "idle" /\ last' = target
             \/ pc' = "idle" /\ last' = 0 /\ pc \in {"ensure", "skip", "header"}
        BY <1>2 DEF EnsureCheckpointSection, SeekToCheckpoint, SkipToOffset, ReadHeaders,
                    ReadFails, Fail
    <1>4. Here' = Here /\ unreadable \subseteq unreadable'
        BY <1>2, <1>3 DEF Here, It, Note
    <1>5. Accounted'
        BY <1>2, <1>4 DEF Accounted
    <1>6. step = "meta" => target = Here
        BY <1>3 DEF AtHand
    <1>7. CASE ~(pc' = "idle" /\ last' = 0)
        BY <1>2, <1>3, <1>4, <1>5, <1>6, <1>7 DEF AtHand
    <1>8. CASE pc' = "idle" /\ last' = 0
        <2>1. target # 0
            BY <1>3 DEF PInv, CInv, TypeInv, OneCall
        <2>2. pc = "ensure" \/ decomp.cur + Needed <= decomp.end
            BY <1>3, <1>8, <2>1, InReach DEF PInv, CInv
        <2>3. step = "meta" => <<pass, Here>> \in unreadable'
            BY <1>2, <1>8, <2>2 DEF Note
        <2> QED BY <1>2, <1>4, <1>5, <1>8, <2>3 DEF AtHand
    <1> QED BY <1>7, <1>8

LEMMA ContentAccounted ==
    ASSUME PInv, AtHand, Accounted, CallReadContent
    PROVE  AtHand' /\ Accounted'
    <1>1. /\ step = "meta" /\ pc = "idle" /\ last # 0 /\ ReadContent /\ step' = "next"
          /\ out' = Append(out, Piece(Here, result'.file = Here))
          /\ Note(result'.file # Here)
        BY DEF CallReadContent
    <1>2. decomp.cur + Needed <= decomp.end
        BY <1>1, InReach DEF PInv, CInv
    <1>3. result'.file # Here => <<pass, Here>> \in unreadable'
        BY <1>1, <1>2 DEF Note
    <1>4. unreadable \subseteq unreadable'
        BY <1>1 DEF Note
    <1> DEFINE whole == result'.file = Here
    <1>5. whole \in BOOLEAN /\ (whole \/ <<pass, Here>> \in unreadable')
          /\ out' = Append(out, Piece(Here, whole)) /\ out \in Seq(PieceType)
        BY <1>1, <1>3 DEF PInv, OutInv
    <1> HIDE DEF whole
    <1>6. Accounted'
        BY <1>4, <1>5, AccountedAppend
    <1> QED BY <1>1, <1>6 DEF AtHand

LEMMA AccountedStep ==
    ASSUME PInv, AtHand, Accounted, [CmdNext]_allVars
    PROVE  AtHand' /\ Accounted'
    <1>1. out \in Seq(PieceType)
        BY DEF PInv, OutInv
    <1>2. CASE Start \/ CallIterate \/ CallNext \/ NextFails \/ NextEnds \/ NextEndsOnError
               \/ SkipEntry
        <2>1. step' # "meta" /\ UNCHANGED <<out, unreadable>>
            BY <1>2 DEF Start, CallIterate, CallNext, NextFails, NextEnds, NextEndsOnError,
                        EndPass, SkipEntry, Exit, history
        <2> QED BY <2>1 DEF AtHand, Accounted
    <1>3. CASE PrintEntry
        <2>1. step' = "next" /\ UNCHANGED unreadable /\ out' = Append(out, Piece(Here, TRUE))
            BY <1>3 DEF PrintEntry, history
        <2>2. Accounted'
            BY <1>1, <2>1, AccountedAppend
        <2> QED BY <2>1, <2>2 DEF AtHand
    <1>4. CASE ReadMetaFailed
        <2>1. /\ step' = "next" /\ UNCHANGED unreadable /\ out' = Append(out, Piece(Here, FALSE))
              /\ step = "meta" /\ pc = "idle" /\ last = 0
            BY <1>4 DEF ReadMetaFailed, history
        <2>2. <<pass, Here>> \in unreadable'
            BY <2>1 DEF AtHand
        <2>3. Accounted'
            BY <1>1, <2>1, <2>2, AccountedAppend
        <2> QED BY <2>1, <2>3 DEF AtHand
    <1>5. CASE CallReadMeta
        <2>1. /\ step' = "meta" /\ UNCHANGED <<its, pass, out, unreadable>>
              /\ pc' = "ensure" /\ target' = Here
            BY <1>5 DEF CallReadMeta, ReadMeta, history
        <2>2. Here' = Here
            BY <2>1 DEF Here, It
        <2> QED BY <2>1, <2>2 DEF AtHand, Accounted
    <1>6. CASE UNCHANGED allVars
        <2>1. UNCHANGED <<its, pc, target, last, step, pass, out, unreadable>>
            BY <1>6 DEF allVars, vars, cmdVars, history
        <2>2. Here' = Here
            BY <2>1 DEF Here, It
        <2> QED BY <2>1, <2>2 DEF AtHand, Accounted
    <1> QED BY <1>2, <1>3, <1>4, <1>5, <1>6, ReaderStepAccounted, ContentAccounted DEF CmdNext

(***************************************************************************)
(* Types do not depend on what the patterns mean.                          *)
(***************************************************************************)
TypedInv ==
    /\ out \in Seq(PieceType) /\ broken \in BOOLEAN
    /\ prev \in {<< >>} \cup {EntryNames[k] : k \in 1..Len(EntryNames)}
    /\ step \in {"next", "returned", "meta"} => It.open
    /\ step = "next" => ~It.ended
    /\ step = "returned" /\ ~It.ended => Seen >= 1
    /\ step = "meta" => ~It.ended /\ Seen >= 1

LEMMA TypedPut ==
    ASSUME PlainIndex, CInv, TypedInv, CInv', step \in {"returned", "meta"}, ~It.ended,
           step' = "next", UNCHANGED <<its, pass, broken>>,
           \E whole \in BOOLEAN : out' = Append(out, Piece(Here, whole)),
           prev' \in {prev, NameOf(Here)}
    PROVE  TypedInv'
    <1>1. It.open /\ Seen >= 1
        BY DEF TypedInv
    <1>2. Here = Seen /\ Seen \in 1..Len(EntryNames) /\ Seen # 0
        BY <1>1, SeenFacts DEF N
    <1>3. NameOf(Here) = EntryNames[Seen]
        BY <1>2 DEF NameOf
    <1>4. ASSUME NEW whole \in BOOLEAN, out' = Append(out, Piece(Here, whole))
          PROVE  out' \in Seq(PieceType)
        <2>1. Piece(Here, whole) \in PieceType
            BY <1>2, PieceTyped DEF CInv
        <2> QED BY <1>4, <2>1, AppendProperties DEF TypedInv
    <1>5. It' = It /\ Seen' = Seen
        BY DEF It, Seen
    <1>6. prev' \in {<< >>} \cup {EntryNames[k] : k \in 1..Len(EntryNames)}
        BY <1>2, <1>3 DEF TypedInv
    <1> QED BY <1>1, <1>4, <1>5, <1>6 DEF TypedInv

LEMMA TypedStep ==
    ASSUME PlainIndex, CInv, TypedInv, CInv', [CmdNext]_allVars
    PROVE  TypedInv'
    <1>1. Handles[pass] \in Iterators /\ its \in [Iterators -> IteratorType] /\ running = None
          /\ Handles[pass] # None
        BY PassFacts, TypeFacts, IteratorsAssumption DEF CInv, IterInv
    <1>2. CASE Start \/ NextFails \/ NextEnds \/ NextEndsOnError
        <2>1. /\ step' \in {"iterate", "end"} /\ UNCHANGED <<out, prev>>
              /\ broken' \in {broken, TRUE}
            BY <1>2 DEF Start, NextFails, NextEnds, NextEndsOnError, EndPass, Exit
        <2> QED BY <2>1 DEF TypedInv
    <1>3. CASE CallIterate
        <2>1. UNCHANGED <<out, prev, pass>> /\ broken' \in {broken, TRUE}
            BY <1>3 DEF CallIterate
        <2>2. CASE Iterate(Handles[pass]) /\ step' = "next"
            <3>1. \E cur, hi : its' = [its EXCEPT ![Handles[pass]] =
                     [Closed EXCEPT !.open = TRUE, !.line = 1, !.cur = cur, !.hi = hi,
                                    !.next_offset = hi]]
                BY <2>2 DEF Iterate
            <3>2. It'.open /\ ~It'.ended
                BY <1>1, <2>1, <3>1 DEF It, Closed
            <3> QED BY <2>1, <2>2, <3>2 DEF TypedInv
        <2>3. CASE step' = "end"
            BY <2>1, <2>3 DEF TypedInv
        <2> QED BY <1>3, <2>2, <2>3 DEF CallIterate, Exit
    <1>4. CASE CallNext
        <2>1. /\ step = "next" /\ step' = "returned" /\ UNCHANGED <<pass, prev, out, broken>>
              /\ IteratorNext(Handles[pass])
            BY <1>4 DEF CallNext
        <2>2. It'.open /\ Seen' = IF It'.ended THEN Seen ELSE Seen + 1
            BY <1>1, <2>1, NextSeen DEF CInv, It, Seen
        <2>3. ~It'.ended => Seen' >= 1
            BY <2>2, SeenFacts
        <2> QED BY <2>1, <2>2, <2>3 DEF TypedInv
    <1>5. CASE SkipEntry \/ CallReadMeta
        <2>1. /\ step = "returned" /\ step' \in {"next", "meta"} /\ ~It.ended
              /\ UNCHANGED <<its, pass, prev, out, broken>>
            BY <1>5 DEF SkipEntry, CallReadMeta, ReadMeta, vars
        <2>2. It' = It /\ Seen' = Seen
            BY <2>1 DEF It, Seen
        <2> QED BY <2>1, <2>2 DEF TypedInv
    <1>6. CASE PrintEntry \/ ReadMetaFailed \/ CallReadContent
        <2>1. /\ step \in {"returned", "meta"} /\ step' = "next"
              /\ UNCHANGED <<its, pass, broken>> /\ prev' \in {prev, NameOf(Here)}
              /\ \E whole \in BOOLEAN : out' = Append(out, Piece(Here, whole))
            BY <1>6 DEF PrintEntry, ReadMetaFailed, CallReadContent, ReadContent, vars
        <2>2. ~It.ended
            BY <1>6 DEF PrintEntry, ReadMetaFailed, CallReadContent, TypedInv
        <2> QED BY <2>1, <2>2, TypedPut
    <1>7. CASE ReaderStep \/ UNCHANGED allVars
        <2>1. ~IteratorGoOn(Handles[pass])
            BY <1>1 DEF IteratorGoOn
        <2>2. UNCHANGED <<its, step, pass, prev, out, broken>>
            BY <1>7, <2>1 DEF ReaderStep, EnsureCheckpointSection, SeekToCheckpoint,
                              SkipToOffset, ReadHeaders, allVars, vars, cmdVars
        <2>3. It' = It /\ Seen' = Seen
            BY <2>2 DEF It, Seen
        <2> QED BY <2>2, <2>3 DEF TypedInv
    <1> QED BY <1>2, <1>3, <1>4, <1>5, <1>6, <1>7 DEF CmdNext

NotesInv ==
    /\ cut \subseteq 1..Len(Handles)
    /\ unreadable \subseteq (1..Len(Handles)) \X (1..Len(EntryNames))

(* What a step adds to the history.                                        *)
LEMMA NoteEffect ==
    ASSUME [CmdNext]_allVars
    PROVE  /\ cut' \in {cut, cut \cup {pass}}
           /\ \/ unreadable' = unreadable
              \/ step = "meta" /\ unreadable' = unreadable \cup {<<pass, Here>>}
    <1>1. CASE UNCHANGED history
        BY <1>1 DEF history
    <1>2. CASE NextEnds \/ NextEndsOnError
        BY <1>2 DEF NextEnds, NextEndsOnError, EndPass
    <1>3. CASE ReaderStep \/ CallReadContent
        BY <1>3 DEF ReaderStep, CallReadContent, Note
    <1>4. CASE Start \/ CallIterate \/ CallNext \/ NextFails \/ SkipEntry \/ PrintEntry
               \/ CallReadMeta \/ ReadMetaFailed \/ UNCHANGED allVars
        BY <1>1, <1>4 DEF Start, CallIterate, CallNext, NextFails, SkipEntry, PrintEntry,
                          CallReadMeta, ReadMetaFailed, allVars, cmdVars
    <1> QED BY <1>2, <1>3, <1>4 DEF CmdNext

LEMMA NotesStep ==
    ASSUME PlainIndex, CInv, TypedInv, NotesInv, [CmdNext]_allVars
    PROVE  NotesInv'
    <1>1. pass \in 1..Len(Handles)
        BY DEF CInv, CmdTyped
    <1>2. step = "meta" => Here \in 1..Len(EntryNames)
        <2> SUFFICES ASSUME step = "meta" PROVE Here \in 1..Len(EntryNames)
            OBVIOUS
        <2>1. Seen >= 1
            BY DEF TypedInv
        <2> QED BY <2>1, SeenFacts DEF N
    <1>3. cut' \subseteq 1..Len(Handles)
        BY <1>1, NoteEffect DEF NotesInv
    <1>4. step = "meta" => <<pass, Here>> \in (1..Len(Handles)) \X (1..Len(EntryNames))
        BY <1>1, <1>2
    <1>5. unreadable' \subseteq (1..Len(Handles)) \X (1..Len(EntryNames))
        <2> DEFINE S == (1..Len(Handles)) \X (1..Len(EntryNames))
                   x == <<pass, Here>>
        <2>1. unreadable \subseteq S /\ (step = "meta" => x \in S)
            BY <1>4 DEF NotesInv
        <2>2. unreadable' = unreadable \/ (step = "meta" /\ unreadable' = unreadable \cup {x})
            BY NoteEffect
        <2> HIDE DEF S, x
        <2>3. unreadable' \subseteq S
            BY <2>1, <2>2
        <2> QED BY <2>3 DEF S
    <1> QED BY <1>3, <1>5 DEF NotesInv

LEMMA CmdInitTypes == ASSUME PlainIndex PROVE CmdInit => CInv /\ TypedInv /\ NotesInv
    <1>1. CmdInit => PInv
        BY CmdInitInv
    <1>2. CmdInit => step = "start" /\ cut = {} /\ unreadable = {}
        BY DEF CmdInit
    <1> QED BY <1>1, <1>2 DEF PInv, OutInv, TypedInv, NotesInv

(***************************************************************************)
(* The theorems                                                            *)
(***************************************************************************)
(* Every variable of a command has its type: it never has a pass without   *)
(* an iterator, and what it puts out is a member.                          *)
THEOREM CmdTypeCorrect ==
    ASSUME PlainIndex
    PROVE  CmdSpec => []CmdTypeOK
    <1>1. CInv /\ TypedInv /\ NotesInv => CmdTypeOK
        <2> SUFFICES ASSUME CInv, TypedInv, NotesInv PROVE CmdTypeOK
            OBVIOUS
        <2>1. TypeOK
            BY DEF CInv, CmdTyped, TypeInv, TypeData, TypeOK, IteratorType, DecompType, ResultType
        <2>2. \A k \in 1..Len(out) : out[k].member \in 1..Len(EntryNames)
            BY PieceFacts DEF TypedInv
        <2> QED BY <2>1, <2>2 DEF CInv, CmdTyped, TypedInv, NotesInv, CmdTypeOK, Steps
    <1>2. CInv /\ TypedInv /\ NotesInv /\ [CmdNext]_allVars
              => (CInv /\ TypedInv /\ NotesInv)'
        BY CInvStep, TypedStep, NotesStep
    <1> QED BY <1>1, <1>2, CmdInitTypes, PTL DEF CmdSpec

(* ls, cat, tree and extract put out the members their arguments name, in  *)
(* the order of the index, each once and none left out on the way.         *)
THEOREM InOrderTheorem ==
    ASSUME PlainIndex, PatternsFaithful, TopmostApart
    PROVE  CmdSpec => []InOrder
    <1>1. PInv => InOrder
        BY InOrderOrdered DEF PInv, OutInv
    <1> QED BY <1>1, PInvariant, PTL

(* With exit status 0 a command has taken up all it was asked for, but for *)
(* what follows in a pass whose iterator took a failed fetch for the end   *)
(* of the index, and all it took up is put out whole but the members whose *)
(* own reading failed; any other status means that it was used wrongly or  *)
(* that the reader or an iterator returned an error.                       *)
THEOREM StatusTheorem ==
    ASSUME PlainIndex, PatternsFaithful, TopmostApart
    PROVE  CmdSpec => []StatusTells
    <1>1. CmdInit => PInv /\ AtHand /\ Accounted
        <2> SUFFICES ASSUME CmdInit PROVE PInv /\ AtHand /\ Accounted
            OBVIOUS
        <2>1. step = "start" /\ out = << >>
            BY DEF CmdInit
        <2>2. Len(out) = 0
            BY <2>1, EmptySeq
        <2> QED BY <2>1, <2>2, CmdInitInv DEF AtHand, Accounted
    <1>2. PInv /\ AtHand /\ Accounted /\ [CmdNext]_allVars => (PInv /\ AtHand /\ Accounted)'
        BY PInvStep, AccountedStep
    <1>3. PInv /\ Accounted => StatusTells
        BY DEF PInv, ExitInv, Accounted, StatusTells, Whole, Told, Complete, TakenUp, N
    <1> QED BY <1>1, <1>2, <1>3, PTL DEF CmdSpec
=============================================================================
