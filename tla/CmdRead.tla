------------------------------- MODULE CmdRead -------------------------------
(***************************************************************************)
(* The commands that read an archive: ls, cat, tree and extract            *)
(* (scar-c/cmd/scar/subcmds).  Each is a client of ScarReader: it goes     *)
(* through the index with an iterator, once or once for each pattern, and  *)
(* cat reads members between two calls of next.                            *)
(***************************************************************************)
EXTENDS ScarReader, Glob

CONSTANTS
    EntryNames,  \* the names of the members, in the order of the archive
    FileMembers, \* the members whose type is SCAR_FT_FILE
    Handles,     \* the iterators a command creates, in order
    Commands     \* command lines: [cmd, argv]

ASSUME NamesAssumption ==
    /\ EntryNames \in Seq(Seq(STRING) \ {<< >>})
    /\ \A a \in Archives : Len(a.files) = Len(EntryNames)
    /\ FileMembers \subseteq 1..Len(EntryNames)
ASSUME CommandsAssumption ==
    /\ Handles \in Seq(Iterators) /\ Handles # << >>
    /\ \A c \in Commands : /\ c.cmd \in {"ls", "cat", "tree", "extract"}
                           /\ c.argv \in Seq(Seq(STRING) \ {<< >>})
                           /\ Len(c.argv) <= Len(Handles)

VARIABLES
    command,   \* the command line
    step,      \* where the command is
    pass,      \* the number of the pattern at hand, and of its iterator
    prev,      \* prev_root of do_print_roots
    out,       \* what was put out for which member, in order
    broken,    \* the reader or an iterator has returned an error
    exit,      \* exit status, or Running
    cut,       \* history: the passes an error of the block reader has ended
    unreadable \* history: <<pass, member>> a read of which has failed

history == <<cut, unreadable>>
cmdVars == <<command, step, pass, prev, out, broken, exit, history>>
allVars == <<vars, cmdVars>>

Running == 2
Minus1 == 255    \* what the shell sees of a main that returns -1

(* A member the command has taken up: what it printed the line of, or what *)
(* it went to read and write the content of; from where in the tar stream, *)
(* and whether it got all of it.                                           *)
Piece(e, whole) ==
    [member |-> e, pass |-> pass, whole |-> whole,
     at |-> result'.content, damaged |-> result'.damaged]

(* An iterator that has lost its place (ScarReader's 0) yields a name that *)
(* is no member's.                                                         *)
NameOf(e) == IF e = 0 THEN <<"?">> ELSE EntryNames[e]

It == its[Handles[pass]]
Here == It.seen[Len(It.seen)]
Roots == command.cmd = "ls" /\ command.argv = << >>
Passes == IF command.cmd \in {"ls", "cat"} /\ ~Roots THEN Len(command.argv) ELSE 1

(* The regular expressions of a command, by its options for rx_build.      *)
Matcher(cmd, pattern) ==
    CASE cmd = "ls"      -> Rx(pattern, DirEntries(pattern))
      [] cmd = "cat"     -> Rx(pattern, {<< >>})
      [] cmd = "extract" -> Rx(pattern, AllChildren(pattern))

\* Mutant: cat does not look at the type of a member.
SelectedAnyType(e) ==
    CASE command.cmd = "tree" -> TRUE
      [] Roots -> ~IsPrefix(prev, NameOf(e)) \/ prev = << >>
      [] command.cmd = "extract" ->
           \/ command.argv = << >>
           \/ \E i \in 1..Len(command.argv) :
                RxMatch(Matcher(command.cmd, command.argv[i]), NameOf(e))
      [] OTHER -> RxMatch(Matcher(command.cmd, command.argv[pass]), NameOf(e))

(* The member is one the loop body goes on with.                           *)
Selected(e) ==
    CASE command.cmd = "tree" -> TRUE
      [] Roots -> ~IsPrefix(prev, NameOf(e)) \/ prev = << >>
      [] command.cmd = "extract" ->
           \/ command.argv = << >>
           \/ \E i \in 1..Len(command.argv) :
                RxMatch(Matcher(command.cmd, command.argv[i]), NameOf(e))
      [] OTHER ->
           /\ command.cmd = "cat" => e \in FileMembers
           /\ RxMatch(Matcher(command.cmd, command.argv[pass]), NameOf(e))

CmdInit ==
    /\ Init
    /\ command \in Commands
    /\ step = "start"
    /\ pass = 1
    /\ prev = << >>
    /\ out = << >>
    /\ broken = FALSE
    /\ exit = Running
    /\ cut = {} /\ unreadable = {}

Exit(status) == exit' = status /\ step' = "end"

(* The usage checks and scar_reader_create.                                *)
Start ==
    /\ step = "start"
    /\ \/ /\ CASE command.cmd = "cat"  -> command.argv = << >>
               [] command.cmd = "tree" -> command.argv # << >>
               [] OTHER                -> FALSE
          /\ Exit(1)
          /\ UNCHANGED broken
       \/ /\ step' = "iterate"
          /\ command.cmd = "cat" => command.argv # << >>
          /\ command.cmd = "tree" => command.argv = << >>
          /\ UNCHANGED <<broken, exit>>
       \/ /\ IoFaults
          /\ Exit(1)
          /\ broken' = TRUE
    /\ UNCHANGED <<vars, command, pass, prev, out, history>>

(* Each pattern gets an iterator; the one before it is not freed.          *)
CallIterate ==
    /\ step = "iterate"
    /\ \/ /\ Iterate(Handles[pass])
          /\ step' = "next"
          /\ UNCHANGED <<broken, exit>>
       \/ /\ IoFaults
          /\ Exit(1)
          /\ broken' = TRUE
          /\ UNCHANGED vars
    /\ UNCHANGED <<command, pass, prev, out, history>>

CallNext ==
    /\ step = "next"
    /\ IteratorNext(Handles[pass])
    /\ step' = "returned"
    /\ UNCHANGED <<command, pass, prev, out, broken, exit, history>>

(* next returns -1 when the archive cannot be read in the middle of a line. *)
NextFails ==
    /\ step = "next"
    /\ IoFaults
    /\ broken' = TRUE
    /\ Exit(IF Roots THEN Minus1 ELSE 1)
    /\ UNCHANGED <<vars, command, pass, prev, out, history>>

(* next returns 0: the next pattern, or the end.                           *)
EndPass ==
    /\ IF pass < Passes
       THEN pass' = pass + 1 /\ step' = "iterate" /\ UNCHANGED exit
       ELSE Exit(0) /\ UNCHANGED pass
    /\ UNCHANGED <<vars, command, prev, out, broken, unreadable>>

NextEnds ==
    /\ step = "returned" /\ running = None /\ It.ended
    /\ EndPass
    /\ UNCHANGED cut

(* The block reader fetches a block when the last byte of the one before   *)
(* is consumed.  If that was the end of a line and the fetch failed, next  *)
(* finds no digit and returns 0: it does not look at the reader's error.   *)
NextEndsOnError ==
    /\ step = "next"
    /\ IoFaults
    /\ arc.gzip \/ It.hi = It.cur + BlockCap
    /\ EndPass
    /\ cut' = cut \cup {pass}

(* A member that is not selected is passed over; ls, tree and extract      *)
(* print the others.                                                       *)
SkipEntry ==
    /\ step = "returned" /\ running = None /\ ~It.ended
    /\ ~Selected(Here)
    /\ step' = "next"
    /\ UNCHANGED <<vars, command, pass, prev, out, broken, exit, history>>

PrintEntry ==
    /\ step = "returned" /\ running = None /\ ~It.ended
    /\ command.cmd # "cat" /\ Selected(Here)
    /\ prev' = IF Roots THEN NameOf(Here) ELSE prev
    /\ UNCHANGED vars
    /\ out' = Append(out, Piece(Here, TRUE))
    /\ step' = "next"
    /\ UNCHANGED <<command, pass, broken, exit, history>>

(* History: the call at hand returns -1 because a read failed, and not for *)
(* lack of anything to read in the stream it was looking in.               *)
Needed ==
    CASE pc = "skip"   -> result.skip
      [] pc = "header" -> arc.files[target].header
      [] pc = "idle"   -> arc.files[last].data
Note(failed) ==
    unreadable' =
        IF failed /\ (pc = "ensure" \/ decomp.cur + Needed <= decomp.end)
        THEN unreadable \cup {<<pass, Here>>} ELSE unreadable

(* cat reads the metadata of the member, in the steps of read_meta,        *)
CallReadMeta ==
    /\ step = "returned" /\ running = None /\ ~It.ended
    /\ command.cmd = "cat" /\ Selected(Here)
    /\ ReadMeta(Here)
    /\ step' = "meta"
    /\ UNCHANGED <<command, pass, prev, out, broken, exit, history>>

ReaderStep ==
    /\ \/ EnsureCheckpointSection \/ SeekToCheckpoint \/ SkipToOffset \/ ReadHeaders
       \/ IteratorGoOn(Handles[pass])
    /\ Note(step = "meta" /\ pc' = "idle" /\ last' = 0)
    /\ UNCHANGED <<command, step, pass, prev, out, broken, exit, cut>>

\* Mutant: a member that could not be read is tried again.
ReadMetaFailedRetries ==
    /\ step = "meta" /\ pc = "idle" /\ last = 0
    /\ UNCHANGED <<vars, out>>
    /\ step' = "returned"
    /\ UNCHANGED <<command, pass, prev, broken, exit, history>>

(* and goes on with the next one when that fails,                          *)
ReadMetaFailed ==
    /\ step = "meta" /\ pc = "idle" /\ last = 0
    /\ UNCHANGED vars
    /\ out' = Append(out, Piece(Here, FALSE))
    /\ step' = "next"
    /\ UNCHANGED <<command, pass, prev, broken, exit, history>>

(* or when its content cannot be read to the end.                          *)
CallReadContent ==
    /\ step = "meta" /\ pc = "idle" /\ last # 0
    /\ ReadContent
    /\ out' = Append(out, Piece(Here, result'.file = Here))
    /\ Note(result'.file # Here)
    /\ step' = "next"
    /\ UNCHANGED <<command, pass, prev, broken, exit, cut>>

CmdNext ==
    \/ Start \/ CallIterate \/ CallNext \/ NextFails \/ NextEnds \/ NextEndsOnError
    \/ SkipEntry \/ PrintEntry \/ CallReadMeta \/ ReaderStep \/ ReadMetaFailed
    \/ CallReadContent

(* One thread, which never waits for anything.                             *)
CmdSpec == CmdInit /\ [][CmdNext]_allVars /\ WF_allVars(CmdNext)
-----------------------------------------------------------------------------
CmdTypeOK ==
    /\ TypeOK
    /\ command \in Commands
    /\ step \in {"start", "iterate", "next", "returned", "meta", "end"}
    /\ pass \in 1..Len(Handles)
    /\ prev \in {<< >>} \cup {EntryNames[i] : i \in 1..Len(EntryNames)}
    /\ \A i \in 1..Len(out) : out[i].member \in 1..Len(EntryNames)
    /\ broken \in BOOLEAN
    /\ exit \in {0, 1, Minus1, Running}
    /\ cut \subseteq 1..Len(Handles)
    /\ unreadable \subseteq (1..Len(Handles)) \X (1..Len(EntryNames))

(***************************************************************************)
(* What the usage text says of the commands, over the tree of the names.   *)
(***************************************************************************)
IsRoot(e) ==
    \A d \in 1..Len(EntryNames) : EntryNames[d] \notin Ancestors(EntryNames[e])

Wanted(cmd, pattern, e) ==
    LET name == EntryNames[e] IN
    CASE cmd = "ls" ->
           Names(pattern, name) \/ \E d \in Ancestors(name) :
                                     IsParent(d, name) /\ Names(pattern, d)
      [] cmd = "cat" -> e \in FileMembers /\ Names(pattern, name)
      [] cmd = "extract" ->
           Names(pattern, name) \/ \E d \in Ancestors(name) : Names(pattern, d)

(* Pass p of command c over the index should take member e up, and has.    *)
Expected(c, p, e) ==
    CASE c.cmd = "tree" -> TRUE
      [] c.cmd = "ls" /\ c.argv = << >> -> IsRoot(e)
      [] c.cmd = "extract" ->
           c.argv = << >> \/ \E i \in 1..Len(c.argv) : Wanted(c.cmd, c.argv[i], e)
      [] OTHER -> Wanted(c.cmd, c.argv[p], e)

TakenUp(p, e) == \E i \in 1..Len(out) : out[i].pass = p /\ out[i].member = e
Complete(p, members) == \A e \in members : Expected(command, p, e) <=> TakenUp(p, e)

(* ls takes up the entries its arguments name and those right in them, or  *)
(* the topmost entries; tree all of them; extract those named and below;   *)
(* cat the files named: in the order of the index, pattern by pattern,     *)
(* none of them twice and none passed by on the way, though cat moves the  *)
(* cursor of the file under its iterator.  (What became of one that was    *)
(* taken up: StatusTells.)                                                 *)
InOrder ==
    /\ \A i, j \in 1..Len(out) : i < j =>
         \/ out[i].pass < out[j].pass
         \/ out[i].pass = out[j].pass /\ out[i].member < out[j].member
    /\ \A i \in 1..Len(out) : Complete(out[i].pass, 1..out[i].member)

(* What is missing when a command has exited.  With 0, every member asked  *)
(* for was taken up, but for the rest of a pass whose iterator took a      *)
(* failed fetch for the end of the index.  One that was taken up was put   *)
(* out whole, unless a read of that member itself failed: cat goes on then *)
(* and may still exit with 0, and what failed for one member spoils none   *)
(* of the others.  With another status, the command was used wrongly or    *)
(* the reader or an iterator returned an error.                            *)
StatusTells ==
    /\ exit = 0 => \A p \in 1..Passes : p \in cut \/ Complete(p, 1..Len(EntryNames))
    /\ \A i \in 1..Len(out) :
         out[i].whole \/ <<out[i].pass, out[i].member>> \in unreadable
    /\ exit \in {1, Minus1} =>
         \/ broken
         \/ command.cmd = "cat" /\ command.argv = << >>
         \/ command.cmd = "tree" /\ command.argv # << >>

(* What the two rest on, besides the program.  The index is one of the C   *)
(* writer's: a line for each member and none of global metadata.           *)
PlainIndex ==
    \A a \in Archives :
        /\ Len(a.lines) = Len(EntryNames)
        /\ \A k \in 1..Len(a.lines) : a.lines[k].file = k /\ ~a.lines[k].g

(* The regular expressions of the arguments match what these name.         *)
PatternsFaithful ==
    \A c \in Commands, e \in 1..Len(EntryNames) :
        c.cmd # "tree" =>
            \A i \in 1..Len(c.argv) :
                Wanted(c.cmd, c.argv[i], e) <=>
                    /\ c.cmd = "cat" => e \in FileMembers
                    /\ RxMatch(Matcher(c.cmd, c.argv[i]), EntryNames[e])

(* Every entry but a topmost one begins with the last topmost one's name,  *)
(* and no topmost one begins with that of the topmost one before it.       *)
TopmostApart ==
    \A e \in 1..Len(EntryNames) :
        IsRoot(e) <=>
            \A d \in 1..e - 1 :
                IsRoot(d) /\ (\A b \in d + 1..e - 1 : ~IsRoot(b))
                    => ~IsPrefix(EntryNames[d], EntryNames[e])

(* What cat writes for a file is the content of that file, out of one      *)
(* stream without a gap, whatever was read and failed before it.           *)
CatContents ==
    command.cmd = "cat" =>
        \A i \in 1..Len(out) : out[i].whole =>
            LET f == arc.files[out[i].member] IN
            out[i].at = f.off + f.header /\ ~out[i].damaged

(* Every command ends, whatever cannot be read.                            *)
Terminates == <>(exit # Running)
=============================================================================
