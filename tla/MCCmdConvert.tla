---------------------------- MODULE MCCmdConvert ----------------------------
(* Tar streams for CmdConvert: every sequence of at most MaxGroups groups  *)
(* of objects, a group being a member with the headers before it, or a     *)
(* global header.                                                          *)
EXTENDS CmdConvert, SequencesExt

CONSTANT MaxGroups    \* bound: groups in a tar

T(id, len) == [id |-> id, len |-> len]
Cell(id, n) == [k |-> "data", id |-> id, n |-> n]

Header(type, path, size, written) ==
    [type |-> type,
     fields |-> [path |-> path, prefix |-> Empty, linkpath |-> Empty, uname |-> T("u", 1),
                 gname |-> T("staff", 1), size |-> written, uid |-> 3, gid |-> 2,
                 mtime |-> 300, mode |-> 1, devmajor |-> 0, devminor |-> 0],
     payload |-> [n \in 1..size |-> Cell(path.id, n)]]

Member(type, path, size) == Header(type, path, size, size)
Extended(type, records) ==
    [type |-> type, fields |-> [size |-> Len(records)], payload |-> records]
Name(type, value) ==
    [type |-> type, fields |-> [size |-> value.len + 1],
     payload |-> [n \in 1..value.len + 1 |-> Text(value)]]

a == T("a", 1)
long == T("long", 3)

Plain == <<Member("0", a, 3)>>
LongPath == <<Extended("x", <<Record("path", long)>>), Member("nul", a, 1)>>
HardLink == <<Member("1", a, 1)>>
ManyRecords ==
    <<Extended("x", <<Record("comment", T("c", 3)), Record("gid", 9),
                      Record("vendor", T("v", 1)), Record("mtime", 325)>>),
      Member("0", a, 2)>>
Large == <<Extended("x", <<Record("size", 5), Record("mtime", 950)>>), Header("0", a, 5, 2)>>
GnuNames == <<Name("K", T("to", 4)), Name("L", long), Member("2", a, 0)>>
EmptyExtended == <<Extended("x", << >>), Member("5", a, 0)>>
GlobalComment == <<Extended("g", <<Record("comment", T("all", 2)), Record("uid", 12)>>)>>
GlobalOwner == <<Extended("g", <<Record("uname", T("root", 4))>>)>>

Sequences(groups) == UNION {[1..n -> groups] : n \in 0..MaxGroups}
Tar(s) == FoldLeft(LAMBDA t, group : t \o group, << >>, s)

Groups == {Plain, LongPath, HardLink, ManyRecords, Large, GnuNames, EmptyExtended,
           GlobalComment, GlobalOwner}

(* Complete members only: no global header after the last of them.         *)
MCTars ==
    {Tar(s) : s \in {t \in Sequences(Groups) :
                        t = << >> \/ t[Len(t)] \notin {GlobalComment, GlobalOwner}}}

(* What the theorems about CmdConvert assume is so here.                   *)
ASSUME MCTarsAssumption ==
    \A t \in MCTars :
        Complete(t) /\ \A i \in 1..Len(Meaning(t)) : Lossless(Meaning(t)[i].meta)

(* What convert is known to change, one group for each: a long name that   *)
(* its header splits in a prefix and a rest; a name as long as its field;  *)
(* a group number too large for its field, without a comment; a time of    *)
(* one digit more than its field has; a time of less than a tenth of a     *)
(* second after a full one; a time three seconds before 1970; a global     *)
(* header between another one and its member; and a global header after    *)
(* the last member, which pax allows, with padding after the end.          *)
SplitName == <<[Member("0", a, 1) EXCEPT !.fields.prefix = T("dir", 2)]>>
FullName == <<Member("0", T("full", Width), 1)>>
With(key, value) == <<Extended("x", <<Record(key, value)>>), Member("0", a, 1)>>
LargeGid == With("gid", Limit + 1)
LongTime == With("mtime", Ticks * (Limit + 2))
Timed == With("mtime", 3 * Ticks + 5)
Before1970 == With("mtime", -3 * Ticks)
GlobalBetween ==
    <<Extended("x", <<Record("comment", T("c", 1))>>)>> \o GlobalOwner \o Plain

LossyTars ==
    {Tar(<<SplitName, FullName, LargeGid, LongTime, Timed, Before1970, GlobalBetween,
           GlobalOwner>>)}
=============================================================================
