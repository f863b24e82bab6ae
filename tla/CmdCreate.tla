----------------------------- MODULE CmdCreate -----------------------------
(***************************************************************************)
(* `scar create` (scar-c/cmd/scar/subcmds/create.c): the recursive walk    *)
(* over the arguments and the directories below them, composed with the    *)
(* writer it drives.  The C call stack of create_entry and                 *)
(* create_directory_entry is the variable stack; its top frame runs.       *)
(***************************************************************************)
EXTENDS ScarWriter

CONSTANTS
    Nodes,        \* files and directories of the file system
    IsDir(_),     \* what stat says of a node
    Children(_),  \* the listing of a directory, in the order it is returned
    NodeMeta(_),  \* the metadata stat and the path give for a node
    Args,         \* the command line: a sequence of nodes
    SlashArgs,    \* the arguments that may be spelled with a '/' at the end
    SysFaults     \* system calls that may fail: a subset of SysCalls

SysCalls == {"stat", "open", "list"}

ASSUME TreeAssumption ==
    /\ \A n \in Nodes : IsDir(n) \in BOOLEAN /\ Children(n) \in Seq(Nodes)
    /\ \A n \in Nodes : NodeMeta(n) \in Metas
    /\ Args \in Seq(Nodes)
    /\ SlashArgs \subseteq Nodes
    /\ SysFaults \subseteq SysCalls

(* This client calls the writer again after a failed call.                 *)
ASSUME ClientAssumption == ~StopOnError

VARIABLES
    stack,     \* frames of create_entry, outermost first
    args,      \* arguments not yet begun
    archived,  \* the node of each write_entry call, in order
    exit       \* exit status of the command, or Running

cmdVars == <<stack, args, archived, exit>>
allVars == <<vars, cmdVars>>

Running == 2
Steps == {"stat", "format", "open", "write", "wait", "list", "entries"}

Frame(n) == [node |-> n, step |-> "stat", kids |-> << >>]
Top == stack[Len(stack)]
Pop == SubSeq(stack, 1, Len(stack) - 1)
Goto(step) == stack' = [stack EXCEPT ![Len(stack)].step = step]

(* The platform layer (platform/posix.c): a call answers, or it fails, for *)
(* whatever reason of its own; a stat also fails on what is no file.       *)
May(call, ok) == ok \/ call \in SysFaults

CmdInit ==
    /\ Init
    /\ stack = << >>
    /\ args = Args
    /\ archived = << >>
    /\ exit = Running

\* Mutants of Return: the command exits with the C function's -1,
ReturnRaw(ok) ==
    IF Len(stack) = 1
    THEN /\ stack' = << >>
         /\ exit' = IF ok THEN exit ELSE -1
    ELSE /\ stack' = IF ok THEN Pop
                     ELSE [Pop EXCEPT ![Len(stack) - 1].kids = << >>]
         /\ UNCHANGED exit
\* the argument loop goes on after a failed argument,
ReturnGoesOn(ok) ==
    /\ stack' = IF ok \/ Len(stack) = 1 THEN Pop
                ELSE [Pop EXCEPT ![Len(stack) - 1].kids = << >>]
    /\ UNCHANGED exit
\* a failed child makes the directory be walked again.
ReturnRestarts(ok) ==
    IF Len(stack) = 1
    THEN /\ stack' = << >>
         /\ exit' = IF ok THEN exit ELSE 1
    ELSE /\ stack' = IF ok THEN Pop ELSE [Pop EXCEPT ![Len(stack) - 1].step = "list"]
         /\ UNCHANGED exit

(* create_entry returns.  A caller that is the argument loop of cmd_create *)
(* gives up on -1.  A caller that is the loop of create_directory_entry    *)
(* goes on after 0 and leaves the loop after -1, with its own return value *)
(* still 0, so that the enclosing create_entry returns 0 too.              *)
Return(ok) ==
    IF Len(stack) = 1
    THEN /\ stack' = << >>
         /\ exit' = IF ok THEN exit ELSE 1
    ELSE /\ stack' = IF ok THEN Pop
                     ELSE [Pop EXCEPT ![Len(stack) - 1].kids = << >>]
         /\ UNCHANGED exit

NextArgument ==
    /\ exit = Running /\ stack = << >> /\ args # << >>
    /\ stack' = <<Frame(Head(args))>>
    /\ args' = Tail(args)
    /\ UNCHANGED <<vars, archived, exit>>

InStep(step) == exit = Running /\ stack # << >> /\ Top.step = step

Stat ==
    /\ InStep("stat")
    /\ \E ok \in BOOLEAN :
        /\ May("stat", ok)
        /\ IF ok THEN Goto("format") /\ UNCHANGED exit ELSE Return(FALSE)
    /\ UNCHANGED <<vars, args, archived>>

(* ensure_path_format refuses a directory whose path already has a '/'.    *)
EnsurePathFormat ==
    /\ InStep("format")
    /\ \E slash \in BOOLEAN :
        /\ slash => Len(stack) = 1 /\ Top.node \in SlashArgs
        /\ IF IsDir(Top.node) /\ slash
           THEN Return(FALSE)
           ELSE Goto(IF IsDir(Top.node) THEN "write" ELSE "open") /\ UNCHANGED exit
    /\ UNCHANGED <<vars, args, archived>>

Open ==
    /\ InStep("open")
    /\ \E ok \in BOOLEAN :
        /\ May("open", ok)
        /\ IF ok THEN Goto("write") /\ UNCHANGED exit ELSE Return(FALSE)
    /\ UNCHANGED <<vars, args, archived>>

CallWriteEntry ==
    /\ InStep("write")
    /\ WriteEntry(NodeMeta(Top.node))
    /\ archived' = Append(archived, Top.node)
    /\ Goto("wait")
    /\ UNCHANGED <<args, exit>>

WriteEntryReturned ==
    /\ InStep("wait")
    /\ pc = "ready"
    /\ LET ok == acked # << >> /\ acked[Len(acked)] = Len(metas) IN
       IF ok /\ IsDir(Top.node) THEN Goto("list") /\ UNCHANGED exit ELSE Return(ok)
    /\ UNCHANGED <<vars, args, archived>>

(* scar_dir_open_at and scar_dir_list.                                     *)
ListDirectory ==
    /\ InStep("list")
    /\ \E ok \in BOOLEAN :
        /\ May("list", ok)
        /\ IF ok
           THEN /\ stack' = [stack EXCEPT ![Len(stack)] =
                               [@ EXCEPT !.step = "entries", !.kids = Children(Top.node)]]
                /\ UNCHANGED exit
           ELSE Return(FALSE)
    /\ UNCHANGED <<vars, args, archived>>

\* Mutants: the listing does not advance; its nodes join the arguments.
NextDirectoryEntryRepeats ==
    /\ InStep("entries")
    /\ IF Top.kids = << >>
       THEN Return(TRUE)
       ELSE /\ stack' = Append(stack, Frame(Head(Top.kids)))
            /\ UNCHANGED exit
    /\ UNCHANGED <<vars, args, archived>>
NextDirectoryEntryQueues ==
    /\ InStep("entries")
    /\ args' = args \o Top.kids
    /\ Return(TRUE)
    /\ UNCHANGED <<vars, archived>>

NextDirectoryEntry ==
    /\ InStep("entries")
    /\ IF Top.kids = << >>
       THEN Return(TRUE)
       ELSE /\ stack' = Append([stack EXCEPT ![Len(stack)].kids = Tail(@)],
                               Frame(Head(Top.kids)))
            /\ UNCHANGED exit
    /\ UNCHANGED <<vars, args, archived>>

CallFinish ==
    /\ exit = Running /\ stack = << >> /\ args = << >>
    /\ Finish
    /\ UNCHANGED cmdVars

FinishReturned ==
    /\ exit = Running
    /\ pc \in {"done", "failed"}
    /\ exit' = IF pc = "done" THEN 0 ELSE 1
    /\ UNCHANGED <<vars, stack, args, archived>>

CmdNext ==
    \/ NextArgument \/ Stat \/ EnsurePathFormat \/ Open \/ CallWriteEntry
    \/ WriteEntryReturned \/ ListDirectory \/ NextDirectoryEntry
    \/ CallFinish \/ FinishReturned
    \/ (CallStep /\ UNCHANGED cmdVars)

(* One thread runs the command and every loop of it is finite: as long as  *)
(* a step is possible it is taken.                                         *)
CmdSpec == CmdInit /\ [][CmdNext]_allVars /\ WF_allVars(CmdNext)
-----------------------------------------------------------------------------
IsChild(c, n) == \E i \in 1..Len(Children(n)) : c = Children(n)[i]
HoldsChildren(S) == \A n \in S : \A i \in 1..Len(Children(n)) : Children(n)[i] \in S

(* A node and everything under it: what every set has that has the node    *)
(* and the children of what it has.                                        *)
Below ==
    [n \in Nodes |->
        {m \in Nodes : \A S \in SUBSET Nodes : n \in S /\ HoldsChildren(S) => m \in S}]

(* The file system is a tree, as platform/posix.c sees it, which does not  *)
(* follow symbolic links; and no argument is another one, or below it.     *)
Forest ==
    /\ \A m, n \in Nodes :
         \A i \in 1..Len(Children(m)), j \in 1..Len(Children(n)) :
             Children(m)[i] = Children(n)[j] => m = n /\ i = j
    /\ \A n \in Nodes : \A i \in 1..Len(Children(n)) : n \notin Below[Children(n)[i]]
    /\ \A i, j \in 1..Len(Args) : i # j => Args[j] \notin Below[Args[i]]

CmdTypeOK ==
    /\ TypeOK
    /\ stack \in Seq([node : Nodes, step : Steps, kids : Seq(Nodes)])
    /\ args \in Seq(Nodes)
    /\ archived \in Seq(Nodes)
    /\ exit \in {0, 1, Running}

(* No entry precedes the directory that contains it, and no node is        *)
(* archived twice, whatever fails on the way: extraction in index order    *)
(* finds every parent in place.                                            *)
ParentsFirst ==
    \A i, j \in 1..Len(archived) :
        /\ i # j => archived[i] # archived[j]
        /\ archived[j] \in Below[archived[i]] => i <= j

(* The entries of a directory follow it without a foreign entry between:   *)
(* an entry that is not under a directory never separates two that are.    *)
SubtreesContiguous ==
    \A i, k \in 1..Len(archived) : \A j \in i..k :
        archived[k] \in Below[archived[i]] => archived[j] \in Below[archived[i]]

(* The archive is sealed only when every argument was archived, and the    *)
(* command says so with its exit status.                                   *)
ArgumentsArchived ==
    /\ exit = 0 => pc = "done"
    /\ exit = 1 => pc # "done"
    /\ pc \in FinishSteps \cup {"done"} =>
         \A i \in 1..Len(Args) : \E j \in 1..Len(archived) : archived[j] = Args[i]

(* README: the tar body is a normal tar archive.  When the command has     *)
(* sealed it, the output got all that was meant for it, and every entry of *)
(* the index has its headers and all the content its header announces.     *)
SealedIntact ==
    exit = 0 => whole /\ \A i \in 1..Len(idxLines) : EntryIntact(idxLines[i].entry)

(* The command ends, whatever fails.                                       *)
Terminates == <>(exit # Running)
=============================================================================
