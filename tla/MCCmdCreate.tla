---------------------------- MODULE MCCmdCreate ----------------------------
(***************************************************************************)
(* Instances of CmdCreate for TLC: a directory with a file, a directory    *)
(* and another file in it, the inner directory holding one file; beside it *)
(* a file and an empty directory.                                          *)
(***************************************************************************)
EXTENDS CmdCreate

MCDirMeta == [pax |-> 0, size |-> 0]
MCFileMeta == [pax |-> 0, size |-> 3]
MCMetas == {MCDirMeta, MCFileMeta}

MCNodes == {"top", "a", "sub", "deep", "b", "other", "last"}
MCIsDir(n) == n \in {"top", "sub", "last"}
MCChildren(n) == CASE n = "top" -> <<"a", "sub", "b">>
                   [] n = "sub" -> <<"deep">>
                   [] OTHER -> << >>
MCNodeMeta(n) == IF MCIsDir(n) THEN MCDirMeta ELSE MCFileMeta
MCArgs == <<"top", "other", "last">>

(* What the theorems about CmdCreate assume is so here.                    *)
ASSUME MCForest == Forest
=============================================================================
