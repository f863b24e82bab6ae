----------------------------- MODULE MCCmdRead -----------------------------
(***************************************************************************)
(* Instances of CmdRead for TLC: a directory with a file and a directory,  *)
(* a file in that, and a file whose name continues the directory's; gzip   *)
(* with three streams, and plain with a line of global metadata that stays *)
(* in its buffer; entries' lines that straddle buffers.  And an archive of *)
(* two files, the name of one of which begins with that of the other, or   *)
(* with a line of global metadata that ends in a later buffer.             *)
(***************************************************************************)
EXTENDS CmdRead

CONSTANTS i1, i2

MCNames == <<<<"d", "/">>, <<"d", "/", "a">>, <<"d", "/", "e", "/">>,
             <<"d", "/", "e", "/", "b">>, <<"d", "b">>>>
MCFileMembers == {2, 4, 5}
MCHandles == <<i1, i2>>

Cells(off, header, data) == [off |-> off, header |-> header, data |-> data]
MCFiles == <<Cells(0, 1, 0), Cells(1, 2, 2), Cells(5, 1, 0), Cells(6, 1, 1), Cells(8, 1, 3)>>
Entry(f, len) == [g |-> FALSE, file |-> f, len |-> len]
MCLines == <<Entry(1, 2), Entry(2, 1), Entry(3, 3), Entry(4, 1), Entry(5, 2)>>

GzipArchive == [gzip |-> TRUE, files |-> MCFiles, lines |-> MCLines, bodyLen |-> 14,
    streams |-> <<[at |-> 0, raw |-> 0], [at |-> 2, raw |-> 1], [at |-> 5, raw |-> 6]>>,
    cks |-> <<[c |-> 2, u |-> 1], [c |-> 5, u |-> 6]>>,
    idxAt |-> 8, ckAt |-> 14, devLen |-> 18]

Global == [g |-> TRUE, file |-> 0, len |-> 1]
PlainLines == <<Entry(1, 1), Global, Entry(2, 1), Entry(3, 3), Entry(4, 1), Entry(5, 2)>>

PlainArchive == [gzip |-> FALSE, files |-> MCFiles, lines |-> PlainLines, bodyLen |-> 14,
    streams |-> <<[at |-> 0, raw |-> 0]>>,
    cks |-> <<[c |-> 1, u |-> 1], [c |-> 6, u |-> 6]>>,
    idxAt |-> 14, ckAt |-> 24, devLen |-> 30]

MCArchives == {GzipArchive, PlainArchive}

dir == <<"d">>
Patterns == {dir, dir \o <<"/">>, dir \o <<"/", "*">>, <<"*">>, <<"*", "*">>,
             dir \o <<"/", "e", "/", "b">>, dir \o <<"b">>}
Pairs == {<<dir, <<"*">>>>, <<dir \o <<"b">>, dir \o <<"/">>>>,
          <<dir \o <<"/", "e", "/", "b">>, <<"*", "*">>>>}
ArgLists == {<< >>} \cup {<<p>> : p \in Patterns} \cup Pairs
MCCommands == [cmd : {"ls", "cat", "tree", "extract"}, argv : ArgLists]

SiblingNames == <<<<"e", "/">>, <<"e", "/", "d">>, <<"d">>, <<"d", "b">>, <<"f">>>>
SiblingFiles == {2, 3, 4, 5}
GlobalLines == <<Entry(1, 1), [Global EXCEPT !.len = 3], Entry(2, 1), Entry(3, 3), Entry(4, 1),
                 Entry(5, 2)>>
LossyArchives == {GzipArchive, [PlainArchive EXCEPT !.lines = GlobalLines, !.ckAt = 26,
                                                    !.devLen = 32]}
LossyCommands == [cmd : {"ls", "tree"}, argv : {<< >>}]

(* What the theorems about InOrder and StatusTells assume is so here.      *)
ASSUME MCPatternsFaithful == PatternsFaithful
ASSUME MCTopmostApart == EntryNames = MCNames => TopmostApart
=============================================================================
