-------------------------------- MODULE Glob --------------------------------
(***************************************************************************)
(* The patterns of ls, cat and extract (scar-c/cmd/scar/rx.c), and the     *)
(* meaning they are compared with: the tree the names of an archive form.  *)
(*                                                                         *)
(* A name and a pattern are sequences of characters, "/" and "*" among     *)
(* them.  A regular expression is the set of its alternatives, each a      *)
(* sequence of characters and of the two repetitions below.                *)
(***************************************************************************)
EXTENDS Integers, Sequences, SequencesExt

Slash == "/"
NoSlashes == "[^/]*"
Anything == ".*"

(* build_rx_string: every character stands for itself but "*" and "**".    *)
Translate(pattern) ==
    LET from[i \in 1..Len(pattern) + 2] ==
          IF i > Len(pattern) THEN << >>
          ELSE IF pattern[i] # "*" THEN <<pattern[i]>> \o from[i + 1]
          ELSE IF i < Len(pattern) /\ pattern[i + 1] = "*" THEN <<Anything>> \o from[i + 2]
          ELSE <<NoSlashes>> \o from[i + 1]
    IN  from[1]

EndsInSlash(s) == s # << >> /\ s[Len(s)] = Slash

(* What RX_MATCH_DIR_ENTRIES and RX_MATCH_ALL_CHILDREN add to a pattern,   *)
(* each alternative of a group or an optional character by itself.         *)
DirEntries(pattern) ==
    IF EndsInSlash(pattern) THEN {<<NoSlashes>>, <<NoSlashes, Slash>>}
    ELSE {<< >>, <<Slash>>, <<Slash, NoSlashes>>, <<Slash, NoSlashes, Slash>>}
AllChildren(pattern) ==
    IF EndsInSlash(pattern) THEN {<<Anything>>} ELSE {<< >>, <<Slash, Anything>>}

Rx(pattern, suffixes) == {Translate(pattern) \o s : s \in suffixes}

(* pcre2_match, anchored at both ends.                                     *)
Accepts(alternative, name) ==
    LET m[i \in 1..Len(alternative) + 1, j \in 1..Len(name) + 1] ==
          IF i > Len(alternative) THEN j > Len(name)
          ELSE IF alternative[i] \in {NoSlashes, Anything}
          THEN \/ m[i + 1, j]
               \/ /\ j <= Len(name)
                  /\ alternative[i] = Anything \/ name[j] # Slash
                  /\ m[i, j + 1]
          ELSE j <= Len(name) /\ name[j] = alternative[i] /\ m[i + 1, j + 1]
    IN  m[1, 1]

RxMatch(rx, name) == \E alternative \in rx : Accepts(alternative, name)

(***************************************************************************)
(* The tree: a directory's name ends in a slash and begins the names of    *)
(* what is in it.  A pattern here is a path, with a slash at its end or a  *)
(* "*" or "**" in the place of its last component.                         *)
(***************************************************************************)
Path(name) == IF EndsInSlash(name) THEN Front(name) ELSE name

(* The directories an entry is in, by their names, and the innermost.      *)
Ancestors(name) == {SubSeq(name, 1, k) : k \in {i \in 1..Len(name) - 1 : name[i] = Slash}}
IsParent(d, name) == d \in Ancestors(name) /\ \A a \in Ancestors(name) : Len(a) <= Len(d)

(* The pattern names the entry itself.                                     *)
Names(pattern, name) ==
    LET dir == SelectSeq(pattern, LAMBDA c : c # "*") IN
    IF dir = pattern
    THEN IF EndsInSlash(pattern) THEN name = pattern ELSE Path(name) = pattern
    ELSE /\ IsPrefix(dir, name)
         /\ \/ Len(pattern) = Len(dir) + 2
            \/ \A i \in Len(dir) + 1..Len(Path(name)) : name[i] # Slash
=============================================================================
