---------------------------- MODULE MCScarReader ----------------------------
(***************************************************************************)
(* Instances of ScarReader for TLC: four members, checkpoints before the   *)
(* second and the fourth, index lines that straddle the buffers.           *)
(***************************************************************************)
EXTENDS ScarReader, TLC

MCFiles == <<[off |-> 0, header |-> 1, data |-> 0], [off |-> 1, header |-> 2, data |-> 2],
             [off |-> 5, header |-> 1, data |-> 1], [off |-> 7, header |-> 1, data |-> 3]>>
Entry(f, len) == [g |-> FALSE, file |-> f, len |-> len]
Global(len) == [g |-> TRUE, file |-> 0, len |-> len]

MCLines == <<Entry(1, 2), Entry(2, 1), Entry(3, 3), Entry(4, 2)>>

GzipArchive == [gzip |-> TRUE, files |-> MCFiles, lines |-> MCLines, bodyLen |-> 13,
    streams |-> <<[at |-> 0, raw |-> 0], [at |-> 2, raw |-> 1], [at |-> 5, raw |-> 7]>>,
    cks |-> <<[c |-> 2, u |-> 1], [c |-> 5, u |-> 7]>>,
    idxAt |-> 8, ckAt |-> 14, devLen |-> 18]

PlainArchive == [gzip |-> FALSE, files |-> MCFiles, lines |-> MCLines, bodyLen |-> 13,
    streams |-> <<[at |-> 0, raw |-> 0]>>,
    cks |-> <<[c |-> 1, u |-> 1], [c |-> 7, u |-> 7]>>,
    idxAt |-> 13, ckAt |-> 22, devLen |-> 28]

\* A typeflag g line that does not cross a block of the block reader.
SmallGlobalArchive == [gzip |-> FALSE, files |-> SubSeq(MCFiles, 1, 2), bodyLen |-> 7,
    lines |-> <<Entry(1, 1), Global(1), Entry(2, 1)>>,
    streams |-> <<[at |-> 0, raw |-> 0]>>, cks |-> << >>,
    idxAt |-> 7, ckAt |-> 11, devLen |-> 15]

\* The iterators are alike.
IteratorSymmetry == Permutations(Iterators)

MCArchives == {GzipArchive, PlainArchive, SmallGlobalArchive}
=============================================================================
