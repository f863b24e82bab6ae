-------------------------- MODULE CmdCreateProofs --------------------------
(***************************************************************************)
(* Theorems about CmdCreate: what `scar create` archives, and in which     *)
(* order, for every tree of files, every command line and every failure.   *)
(***************************************************************************)
EXTENDS CmdCreate, ScarWriterProofs

(***************************************************************************)
(* The tree of files                                                       *)
(***************************************************************************)
LEMMA ChildFacts ==
    ASSUME NEW n \in Nodes, NEW i \in 1..Len(Children(n))
    PROVE  Len(Children(n)) \in Nat /\ Children(n)[i] \in Nodes
    BY TreeAssumption

(* Below[n] is closed, and the least such set.                             *)
LEMMA BelowFacts ==
    ASSUME NEW n \in Nodes
    PROVE  n \in Below[n] /\ Below[n] \in SUBSET Nodes /\ HoldsChildren(Below[n])
    <1>1. n \in Below[n] /\ Below[n] \in SUBSET Nodes
        BY DEF Below
    <1>2. ASSUME NEW m \in Below[n], NEW i \in 1..Len(Children(m))
          PROVE  Children(m)[i] \in Below[n]
        <2>1. m \in Nodes /\ Children(m)[i] \in Nodes
            BY <1>1, ChildFacts
        <2>2. ASSUME NEW S \in SUBSET Nodes, n \in S, HoldsChildren(S)
              PROVE  Children(m)[i] \in S
            <3>1. m \in S
                BY <2>2 DEF Below
            <3> QED BY <3>1, <2>2 DEF HoldsChildren
        <2> QED BY <2>1, <2>2 DEF Below
    <1> QED BY <1>1, <1>2 DEF HoldsChildren

LEMMA BelowLeast ==
    ASSUME NEW n \in Nodes, NEW S \in SUBSET Nodes, n \in S, HoldsChildren(S)
    PROVE  Below[n] \subseteq S
    BY DEF Below

LEMMA BelowWithin ==
    ASSUME NEW n \in Nodes, NEW m \in Below[n]
    PROVE  m \in Nodes /\ Below[m] \subseteq Below[n]
    BY BelowFacts, BelowLeast

LEMMA ChildBelow ==
    ASSUME NEW n \in Nodes, NEW c, IsChild(c, n)
    PROVE  c \in Nodes /\ c \in Below[n] /\ Below[c] \subseteq Below[n]
    <1>1. PICK i \in 1..Len(Children(n)) : c = Children(n)[i]
        BY DEF IsChild
    <1>2. c \in Nodes /\ c \in Below[n]
        BY <1>1, ChildFacts, BelowFacts DEF HoldsChildren
    <1> QED BY <1>2, BelowWithin

(* What is below a node, and is not the node, has its parent below it.     *)
LEMMA ParentBelow ==
    ASSUME Forest, NEW n \in Nodes, NEW p \in Nodes, NEW c, IsChild(c, p), c \in Below[n], c # n
    PROVE  p \in Below[n]
    <1> SUFFICES ASSUME p \notin Below[n] PROVE FALSE
        OBVIOUS
    <1> DEFINE S == Below[n] \ {c}
    <1>1. PICK i \in 1..Len(Children(p)) : c = Children(p)[i]
        BY DEF IsChild
    <1>2. ASSUME NEW m \in S, NEW k \in 1..Len(Children(m)) PROVE Children(m)[k] \in S
        <2>1. m \in Nodes /\ Children(m)[k] \in Below[n]
            BY BelowFacts DEF HoldsChildren
        <2>2. Children(m)[k] # c
            BY <1>1, <2>1 DEF Forest
        <2> QED BY <2>1, <2>2
    <1>3. S \in SUBSET Nodes /\ n \in S /\ HoldsChildren(S)
        BY <1>2, BelowFacts DEF HoldsChildren
    <1>4. Below[n] \subseteq S
        BY <1>3, BelowLeast
    <1> QED BY <1>4

(* Two nodes neither of which is below the other have nothing in common.   *)
LEMMA BelowApart ==
    ASSUME Forest, NEW a \in Nodes, NEW b \in Nodes, a \notin Below[b], b \notin Below[a]
    PROVE  Below[a] \cap Below[b] = {}
    <1> DEFINE S == Below[a] \ Below[b]
    <1>1. ASSUME NEW m \in S, NEW k \in 1..Len(Children(m)) PROVE Children(m)[k] \in S
        <2>1. m \in Nodes /\ Children(m)[k] \in Below[a] /\ IsChild(Children(m)[k], m)
            BY BelowFacts DEF HoldsChildren, IsChild
        <2>2. Children(m)[k] \notin Below[b]
            BY <2>1, ParentBelow
        <2> QED BY <2>1, <2>2
    <1>2. S \in SUBSET Nodes /\ a \in S /\ HoldsChildren(S)
        BY <1>1, BelowFacts DEF HoldsChildren
    <1>3. Below[a] \subseteq S
        BY <1>2, BelowLeast
    <1> QED BY <1>3

(* Nothing is below two nodes of the sequence; nothing below one is in S.  *)
Apart(t) == \A i, j \in 1..Len(t) : i # j => Below[t[i]] \cap Below[t[j]] = {}
Away(t, S) == \A i \in 1..Len(t) : Below[t[i]] \cap S = {}

LEMMA ChildrenApart ==
    ASSUME Forest, NEW n \in Nodes
    PROVE  Apart(Children(n))
    <1> SUFFICES ASSUME NEW i \in 1..Len(Children(n)), NEW j \in 1..Len(Children(n)), i # j
                 PROVE  Below[Children(n)[i]] \cap Below[Children(n)[j]] = {}
        BY DEF Apart
    <1> DEFINE a == Children(n)[i]
               b == Children(n)[j]
    <1>1. a \in Nodes /\ b \in Nodes /\ IsChild(a, n) /\ IsChild(b, n)
        BY ChildFacts DEF IsChild
    <1>2. a # b /\ n \notin Below[a] /\ n \notin Below[b]
        BY DEF Forest
    <1>3. a \notin Below[b] /\ b \notin Below[a]
        BY <1>1, <1>2, ParentBelow
    <1> QED BY <1>1, <1>3, BelowApart

LEMMA ArgsApart ==
    ASSUME Forest
    PROVE  Apart(Args)
    <1> SUFFICES ASSUME NEW i \in 1..Len(Args), NEW j \in 1..Len(Args), i # j
                 PROVE  Below[Args[i]] \cap Below[Args[j]] = {}
        BY DEF Apart
    <1>1. Args[i] \in Nodes /\ Args[j] \in Nodes
        BY TreeAssumption
    <1>2. Args[i] \notin Below[Args[j]] /\ Args[j] \notin Below[Args[i]]
        BY DEF Forest
    <1> QED BY <1>1, <1>2, BelowApart

LEMMA ApartTail ==
    ASSUME NEW t \in Seq(Nodes), t # << >>, Apart(t)
    PROVE  /\ Tail(t) \in Seq(Nodes) /\ Head(t) \in Nodes /\ Head(t) = t[1]
           /\ Len(Tail(t)) = Len(t) - 1 /\ \A i \in 1..Len(Tail(t)) : Tail(t)[i] = t[i + 1]
           /\ Apart(Tail(t)) /\ Away(Tail(t), Below[Head(t)])
    <1>1. /\ Len(t) \in Nat /\ Len(t) >= 1 /\ Head(t) = t[1] /\ t[1] \in Nodes
          /\ Tail(t) \in Seq(Nodes) /\ Len(Tail(t)) = Len(t) - 1
          /\ \A i \in 1..Len(Tail(t)) : Tail(t)[i] = t[i + 1]
        OBVIOUS
    <1>2. \A i \in 1..Len(Tail(t)) : i + 1 \in 1..Len(t) /\ i + 1 # 1 /\ 1 \in 1..Len(t)
        BY <1>1
    <1>3. Apart(Tail(t))
        <2> SUFFICES ASSUME NEW i \in 1..Len(Tail(t)), NEW j \in 1..Len(Tail(t)), i # j
                     PROVE  Below[Tail(t)[i]] \cap Below[Tail(t)[j]] = {}
            BY DEF Apart
        <2>1. i + 1 # j + 1
            OBVIOUS
        <2> QED BY <1>1, <1>2, <2>1 DEF Apart
    <1>4. Away(Tail(t), Below[Head(t)])
        BY <1>1, <1>2 DEF Apart, Away
    <1> QED BY <1>1, <1>3, <1>4

(***************************************************************************)
(* The walk                                                                *)
(***************************************************************************)
FrameType == [node : Nodes, step : Steps, kids : Seq(Nodes)]
Begun == {"stat", "format", "open", "write"}
Entered == {"wait", "list"}

(* The frames s go down the tree, and what is still to be listed of each   *)
(* is apart from what is below it.                                         *)
Descends(s) ==
    \A l \in 1..Len(s) :
        /\ s[l].step # "entries" => s[l].kids = << >>
        /\ \A i \in 1..Len(s[l].kids) : IsChild(s[l].kids[i], s[l].node)
        /\ Apart(s[l].kids)
        /\ \A k \in l + 1..Len(s) :
             /\ s[l].step = "entries"
             /\ s[k].node \in Below[s[l].node]
             /\ Away(s[l].kids, Below[s[k].node])

(* Nothing that is still to come, by the frames s and the arguments t, is  *)
(* among the nodes a that were archived, or is below one.                  *)
Fresh(s, a) ==
    \A j \in 1..Len(a) :
        /\ \A l \in 1..Len(s) : \A i \in 1..Len(s[l].kids) : a[j] \notin Below[s[l].kids[i]]
        /\ s # << >> /\ s[Len(s)].step \in Begun => a[j] \notin Below[s[Len(s)].node]
        /\ s # << >> /\ s[Len(s)].step \in Entered =>
             \A c \in Nodes : IsChild(c, s[Len(s)].node) => a[j] \notin Below[c]
ArgsFresh(s, t, a) ==
    /\ Apart(t)
    /\ \A l \in 1..Len(s) : Away(t, Below[s[l].node])
    /\ \A j \in 1..Len(a) : Away(t, Below[a[j]])

(* What was archived since the command entered a node that a frame is in   *)
(* is below that node.                                                     *)
Inside(s, a) ==
    \A l \in 1..Len(s) : \A i, j \in 1..Len(a) :
        i <= j /\ s[l].node \in Below[a[i]] => a[j] \in Below[a[i]]

Walk(s, t, a) ==
    /\ s \in Seq(FrameType) /\ t \in Seq(Nodes) /\ a \in Seq(Nodes)
    /\ Descends(s) /\ Fresh(s, a) /\ ArgsFresh(s, t, a) /\ Inside(s, a)

LEMMA FrameFacts ==
    ASSUME NEW s \in Seq(FrameType), NEW l \in 1..Len(s)
    PROVE  /\ s[l] \in FrameType /\ s[l].node \in Nodes /\ s[l].step \in Steps
           /\ s[l].kids \in Seq(Nodes) /\ Len(s[l].kids) \in Nat /\ Len(s) \in Nat
           /\ \A i \in 1..Len(s[l].kids) : s[l].kids[i] \in Nodes
    <1>1. s[l] \in FrameType /\ Len(s) \in Nat
        OBVIOUS
    <1>2. s[l].node \in Nodes /\ s[l].step \in Steps /\ s[l].kids \in Seq(Nodes)
        BY <1>1 DEF FrameType
    <1> QED BY <1>1, <1>2

LEMMA StackTop ==
    ASSUME NEW s \in Seq(FrameType), s # << >>
    PROVE  Len(s) \in 1..Len(s) /\ Len(s) \in Nat
    OBVIOUS

(* What a step does to the frames: some are left, or the last one goes on, *)
GoesOn(s, s2) ==
    /\ Len(s2) <= Len(s)
    /\ \A l \in 1..Len(s2) : /\ s2[l].node = s[l].node
                             /\ s2[l].kids = s[l].kids \/ s2[l].kids = << >>
                             /\ s2[l].step # "entries" => s2[l].kids = << >>
                             /\ l < Len(s2) => s2[l].step = "entries"
    /\ s2 # << >> /\ s2[Len(s2)].step \in Begun =>
           Len(s2) = Len(s) /\ s[Len(s)].step \in Begun
    /\ s2 # << >> /\ s2[Len(s2)].step \in Entered =>
           Len(s2) = Len(s) /\ s[Len(s)].step \in Entered
(* or only it changes: it begins with its listing,                         *)
Changes(s, s2, from, step) ==
    /\ s # << >> /\ s[Len(s)].step \in from
    /\ \A l \in 1..Len(s) - 1 : s2[l] = s[l]
    /\ s2[Len(s)].node = s[Len(s)].node /\ s2[Len(s)].step = step
Lists(s, s2) ==
    /\ Changes(s, s2, Entered, "entries") /\ Len(s2) = Len(s)
    /\ s2[Len(s)].kids = Children(s[Len(s)].node)
(* or its node is archived,                                                *)
Archives(s, s2) ==
    /\ Changes(s, s2, {"write"}, "wait") /\ Len(s2) = Len(s)
    /\ s2[Len(s)].kids = s[Len(s)].kids
(* or it enters a child.                                                   *)
Enters(s, s2) ==
    /\ Changes(s, s2, {"entries"}, "entries") /\ Len(s2) = Len(s) + 1
    /\ s[Len(s)].kids # << >> /\ s2[Len(s)].kids = Tail(s[Len(s)].kids)
    /\ s2[Len(s) + 1] = Frame(Head(s[Len(s)].kids))

LEMMA WalkGoesOn ==
    ASSUME NEW s \in Seq(FrameType), NEW s2 \in Seq(FrameType), NEW t, NEW a, Walk(s, t, a),
           GoesOn(s, s2)
    PROVE  Walk(s2, t, a)
    <1> USE DEF Walk, GoesOn
    <1>1. Len(s) \in Nat /\ Len(s2) \in Nat /\ \A l \in 1..Len(s2) : l \in 1..Len(s)
        OBVIOUS
    <1>2. \A l \in 1..Len(s2) : \A i \in 1..Len(s2[l].kids) :
              i \in 1..Len(s[l].kids) /\ s2[l].kids[i] = s[l].kids[i]
        OBVIOUS
    <1>3. Descends(s2)
        <2> SUFFICES ASSUME NEW l \in 1..Len(s2)
                     PROVE  /\ s2[l].step # "entries" => s2[l].kids = << >>
                            /\ \A i \in 1..Len(s2[l].kids) : IsChild(s2[l].kids[i], s2[l].node)
                            /\ Apart(s2[l].kids)
                            /\ \A k \in l + 1..Len(s2) :
                                 /\ s2[l].step = "entries"
                                 /\ s2[k].node \in Below[s2[l].node]
                                 /\ Away(s2[l].kids, Below[s2[k].node])
            BY DEF Descends
        <2>1. \A i \in 1..Len(s2[l].kids) : IsChild(s2[l].kids[i], s2[l].node)
            BY <1>1, <1>2 DEF Descends
        <2>2. Apart(s2[l].kids)
            <3>1. Apart(s[l].kids)
                BY <1>1 DEF Descends
            <3>2. s2[l].kids = << >> => Apart(s2[l].kids)
                BY DEF Apart
            <3>3. s2[l].kids = s[l].kids \/ s2[l].kids = << >>
                OBVIOUS
            <3> QED BY <3>1, <3>2, <3>3, Zenon
        <2>3. ASSUME NEW k \in l + 1..Len(s2)
              PROVE  /\ s2[l].step = "entries" /\ s2[k].node \in Below[s2[l].node]
                     /\ Away(s2[l].kids, Below[s2[k].node])
            <3>1. k \in 1..Len(s2) /\ k \in l + 1..Len(s) /\ l < Len(s2) /\ l \in 1..Len(s)
                BY <1>1
            <3>2. s[k].node \in Below[s[l].node] /\ Away(s[l].kids, Below[s[k].node])
                BY <3>1 DEF Descends
            <3>3. s2[k].node = s[k].node /\ s2[l].node = s[l].node
                BY <3>1
            <3> QED BY <1>2, <3>1, <3>2, <3>3 DEF Away
        <2> QED BY <2>1, <2>2, <2>3
    <1>4. Fresh(s2, a)
        <2> SUFFICES ASSUME NEW j \in 1..Len(a)
                     PROVE  /\ \A l \in 1..Len(s2) : \A i \in 1..Len(s2[l].kids) :
                                   a[j] \notin Below[s2[l].kids[i]]
                            /\ s2 # << >> /\ s2[Len(s2)].step \in Begun =>
                                   a[j] \notin Below[s2[Len(s2)].node]
                            /\ s2 # << >> /\ s2[Len(s2)].step \in Entered =>
                                 \A c \in Nodes : IsChild(c, s2[Len(s2)].node) =>
                                     a[j] \notin Below[c]
            BY DEF Fresh
        <2>1. \A l \in 1..Len(s2) : \A i \in 1..Len(s2[l].kids) : a[j] \notin Below[s2[l].kids[i]]
            BY <1>1, <1>2 DEF Fresh
        <2>2. s2 # << >> => Len(s2) \in 1..Len(s2) /\ (Len(s2) = Len(s) => s # << >>)
            OBVIOUS
        <2>3. s2 # << >> /\ Len(s2) = Len(s) => s2[Len(s2)].node = s[Len(s)].node
            BY <2>2
        <2> QED BY <2>1, <2>2, <2>3 DEF Fresh
    <1>5. ArgsFresh(s2, t, a) /\ Inside(s2, a)
        BY <1>1 DEF ArgsFresh, Inside
    <1> QED BY <1>3, <1>4, <1>5

LEMMA WalkLists ==
    ASSUME Forest, NEW s \in Seq(FrameType), NEW s2 \in Seq(FrameType), NEW t, NEW a,
           Walk(s, t, a), Lists(s, s2)
    PROVE  Walk(s2, t, a)
    <1> USE DEF Walk, Lists, Changes
    <1> DEFINE n == Len(s)
               kids == Children(s[n].node)
    <1>1. n \in Nat /\ n \in 1..n /\ \A l \in 1..n : l # n => l \in 1..n - 1
        OBVIOUS
    <1>2. /\ s[n].node \in Nodes /\ Len(kids) \in Nat /\ Apart(kids)
          /\ \A i \in 1..Len(kids) : kids[i] \in Nodes /\ IsChild(kids[i], s[n].node)
        BY <1>1, FrameFacts, ChildFacts, ChildrenApart DEF IsChild
    <1>3. \A l \in 1..n : s2[l].node = s[l].node
        BY <1>1
    <1>4. Descends(s2)
        <2> SUFFICES ASSUME NEW l \in 1..n
                     PROVE  /\ s2[l].step # "entries" => s2[l].kids = << >>
                            /\ \A i \in 1..Len(s2[l].kids) : IsChild(s2[l].kids[i], s2[l].node)
                            /\ Apart(s2[l].kids)
                            /\ \A k \in l + 1..n :
                                 /\ s2[l].step = "entries"
                                 /\ s2[k].node \in Below[s2[l].node]
                                 /\ Away(s2[l].kids, Below[s2[k].node])
            BY DEF Descends
        <2>1. CASE l = n
            BY <1>1, <1>2, <2>1
        <2>2. CASE l # n
            <3>1. s2[l] = s[l]
                BY <1>1, <2>2
            <3>2. \A k \in l + 1..n : k \in 1..n
                BY <1>1
            <3> QED BY <1>3, <3>1, <3>2 DEF Descends
        <2> QED BY <2>1, <2>2
    <1>5. Fresh(s2, a)
        <2> SUFFICES ASSUME NEW j \in 1..Len(a)
                     PROVE  /\ \A l \in 1..n : \A i \in 1..Len(s2[l].kids) :
                                   a[j] \notin Below[s2[l].kids[i]]
                            /\ s2[n].step \notin Begun \cup Entered
            BY DEF Fresh
        <2>1. ASSUME NEW l \in 1..n, NEW i \in 1..Len(s2[l].kids)
              PROVE  a[j] \notin Below[s2[l].kids[i]]
            <3>1. CASE l = n
                <4>1. s2[l].kids = kids /\ i \in 1..Len(kids)
                    BY <3>1
                <4>2. \A c \in Nodes : IsChild(c, s[n].node) => a[j] \notin Below[c]
                    BY DEF Fresh
                <4> QED BY <1>2, <4>1, <4>2
            <3>2. CASE l # n
                <4>1. s2[l] = s[l]
                    BY <1>1, <3>2
                <4> QED BY <4>1 DEF Fresh
            <3> QED BY <3>1, <3>2
        <2> QED BY <2>1 DEF Begun, Entered
    <1>6. ArgsFresh(s2, t, a) /\ Inside(s2, a)
        BY <1>3 DEF ArgsFresh, Inside
    <1> QED BY <1>4, <1>5, <1>6

LEMMA WalkEnters ==
    ASSUME Forest, NEW s \in Seq(FrameType), NEW s2 \in Seq(FrameType), NEW t, NEW a,
           Walk(s, t, a), Enters(s, s2)
    PROVE  Walk(s2, t, a)
    <1> USE DEF Walk, Enters, Changes
    <1> DEFINE n == Len(s)
               kids == s[n].kids
               c == Head(kids)
    <1>1. /\ n \in Nat /\ n \in 1..n
          /\ \A l \in 1..n : l # n => l \in 1..n - 1
          /\ \A l \in 1..n + 1 : l \in 1..n \/ l = n + 1
        OBVIOUS
    <1>2. /\ s[n].node \in Nodes /\ kids \in Seq(Nodes) /\ Apart(kids) /\ Len(kids) \in Nat
          /\ \A i \in 1..Len(kids) : IsChild(kids[i], s[n].node)
        BY <1>1, FrameFacts DEF Descends
    <1>3. /\ c \in Nodes /\ c = kids[1] /\ 1 \in 1..Len(kids) /\ IsChild(c, s[n].node)
          /\ Len(Tail(kids)) = Len(kids) - 1
          /\ \A i \in 1..Len(Tail(kids)) : i + 1 \in 1..Len(kids) /\ Tail(kids)[i] = kids[i + 1]
          /\ Apart(Tail(kids)) /\ Away(Tail(kids), Below[c])
        BY <1>2, ApartTail
    <1>4. c \in Below[s[n].node] /\ Below[c] \subseteq Below[s[n].node]
        BY <1>2, <1>3, ChildBelow
    <1>5. s2[n + 1].node = c /\ s2[n + 1].step = "stat" /\ s2[n + 1].kids = << >>
        BY DEF Frame
    <1>6. \A l \in 1..n : s2[l].node = s[l].node
        BY <1>1
    <1>7. \A l \in 1..n : /\ Below[s[n].node] \subseteq Below[s[l].node]
                          /\ l # n => /\ s[l].step = "entries"
                                      /\ Away(s[l].kids, Below[s[n].node])
        <2> SUFFICES ASSUME NEW l \in 1..n
                     PROVE  /\ Below[s[n].node] \subseteq Below[s[l].node]
                            /\ l # n => /\ s[l].step = "entries"
                                        /\ Away(s[l].kids, Below[s[n].node])
            OBVIOUS
        <2>1. CASE l = n
            BY <2>1
        <2>2. CASE l # n
            <3>1. n \in l + 1..n
                BY <1>1, <2>2
            <3>2. s[l].step = "entries" /\ s[n].node \in Below[s[l].node]
                  /\ Away(s[l].kids, Below[s[n].node])
                BY <3>1 DEF Descends
            <3>3. s[l].node \in Nodes
                BY FrameFacts
            <3> QED BY <3>2, <3>3, BelowWithin
        <2> QED BY <2>1, <2>2
    <1>8. Descends(s2)
        <2> SUFFICES ASSUME NEW l \in 1..n + 1
                     PROVE  /\ s2[l].step # "entries" => s2[l].kids = << >>
                            /\ \A i \in 1..Len(s2[l].kids) : IsChild(s2[l].kids[i], s2[l].node)
                            /\ Apart(s2[l].kids)
                            /\ \A k \in l + 1..n + 1 :
                                 /\ s2[l].step = "entries"
                                 /\ s2[k].node \in Below[s2[l].node]
                                 /\ Away(s2[l].kids, Below[s2[k].node])
            BY DEF Descends
        <2>1. CASE l = n + 1
            <3>1. s2[l].kids = << >> /\ Apart(s2[l].kids)
                BY <1>5, <2>1 DEF Apart
            <3>2. \A k \in l + 1..n + 1 : FALSE
                BY <1>1, <2>1
            <3> QED BY <3>1, <3>2
        <2>2. CASE l = n
            <3>1. \A i \in 1..Len(s2[l].kids) : IsChild(s2[l].kids[i], s2[l].node)
                BY <1>2, <1>3, <1>6, <2>2
            <3>2. \A k \in l + 1..n + 1 : k = n + 1
                BY <1>1, <2>2
            <3> QED BY <1>3, <1>4, <1>5, <1>6, <2>2, <3>1, <3>2
        <2>3. CASE l \in 1..n /\ l # n
            <3>1. s2[l] = s[l] /\ s[l].step = "entries" /\ Away(s[l].kids, Below[s[n].node])
                BY <1>1, <1>7, <2>3
            <3>2. c \in Below[s[l].node] /\ Away(s[l].kids, Below[c])
                BY <1>4, <1>7, <2>3, <3>1 DEF Away
            <3>3. ASSUME NEW k \in l + 1..n + 1
                  PROVE  s2[k].node \in Below[s2[l].node] /\ Away(s2[l].kids, Below[s2[k].node])
                <4>1. CASE k = n + 1
                    BY <1>5, <3>1, <3>2, <4>1
                <4>2. CASE k # n + 1
                    <5>1. k \in l + 1..n /\ k \in 1..n
                        BY <1>1, <4>2
                    <5> QED BY <1>6, <2>3, <3>1, <5>1 DEF Descends
                <4> QED BY <4>1, <4>2
            <3> QED BY <2>3, <3>1, <3>3 DEF Descends
        <2> QED BY <1>1, <2>1, <2>2, <2>3
    <1>9. Fresh(s2, a)
        <2> SUFFICES ASSUME NEW j \in 1..Len(a)
                     PROVE  /\ \A l \in 1..n + 1 : \A i \in 1..Len(s2[l].kids) :
                                   a[j] \notin Below[s2[l].kids[i]]
                            /\ a[j] \notin Below[s2[n + 1].node]
                            /\ s2[n + 1].step \notin Entered
            BY DEF Fresh
        <2>1. \A i \in 1..Len(kids) : a[j] \notin Below[kids[i]]
            BY <1>1 DEF Fresh
        <2>2. ASSUME NEW l \in 1..n + 1, NEW i \in 1..Len(s2[l].kids)
              PROVE  a[j] \notin Below[s2[l].kids[i]]
            <3>1. CASE l = n + 1
                BY <1>5, <3>1
            <3>2. CASE l = n
                <4>1. s2[l].kids = Tail(kids) /\ i \in 1..Len(Tail(kids))
                    BY <3>2
                <4>2. i + 1 \in 1..Len(kids) /\ s2[l].kids[i] = kids[i + 1]
                    BY <1>3, <4>1
                <4> QED BY <2>1, <4>2
            <3>3. CASE l \in 1..n /\ l # n
                <4>1. s2[l] = s[l]
                    BY <1>1, <3>3
                <4> QED BY <3>3, <4>1 DEF Fresh
            <3> QED BY <1>1, <3>1, <3>2, <3>3
        <2> QED BY <1>3, <1>5, <2>1, <2>2 DEF Entered
    <1>10. ArgsFresh(s2, t, a)
        <2>1. Away(t, Below[s2[n + 1].node])
            BY <1>1, <1>4, <1>5 DEF ArgsFresh, Away
        <2>2. \A l \in 1..n : Away(t, Below[s2[l].node])
            BY <1>6 DEF ArgsFresh
        <2> QED BY <1>1, <2>1, <2>2 DEF ArgsFresh
    <1>11. Inside(s2, a)
        <2> SUFFICES ASSUME NEW l \in 1..n + 1, NEW i \in 1..Len(a), NEW j \in 1..Len(a),
                            i <= j, s2[l].node \in Below[a[i]]
                     PROVE  a[j] \in Below[a[i]]
            BY DEF Inside
        <2>1. CASE l = n + 1
            <3>1. c # a[i] /\ a[i] \in Nodes
                <4>1. a[i] \in Nodes /\ a[i] \in Below[a[i]]
                    BY BelowFacts
                <4>2. a[i] \notin Below[s[n].kids[1]]
                    BY <1>1, <1>3 DEF Fresh
                <4> QED BY <1>3, <4>1, <4>2
            <3>2. s[n].node \in Below[a[i]]
                BY <1>2, <1>3, <1>5, <2>1, <3>1, ParentBelow
            <3> QED BY <1>1, <3>2 DEF Inside
        <2>2. CASE l \in 1..n
            BY <1>6, <2>2 DEF Inside
        <2> QED BY <1>1, <2>1, <2>2
    <1> QED BY <1>8, <1>9, <1>10, <1>11

(* The order, as in the properties, of what was archived.                  *)
Parents(a) ==
    \A i, j \in 1..Len(a) :
        /\ i # j => a[i] # a[j]
        /\ a[j] \in Below[a[i]] => i <= j
Contiguous(a) ==
    \A i, k \in 1..Len(a) : \A j \in i..k : a[k] \in Below[a[i]] => a[j] \in Below[a[i]]

LEMMA WalkArchives ==
    ASSUME Forest, NEW s \in Seq(FrameType), NEW s2 \in Seq(FrameType), NEW t, NEW a,
           Walk(s, t, a), Archives(s, s2), Parents(a), Contiguous(a)
    PROVE  LET a2 == Append(a, s[Len(s)].node) IN
           Walk(s2, t, a2) /\ Parents(a2) /\ Contiguous(a2)
    <1> USE DEF Walk, Archives, Changes
    <1> DEFINE a2 == Append(a, s[Len(s)].node)
               n == Len(s)
               x == s[n].node
               m == Len(a)
    <1>1. n \in Nat /\ n \in 1..n /\ \A l \in 1..n : l # n => l \in 1..n - 1
        OBVIOUS
    <1>2. x \in Nodes /\ x \in Below[x] /\ s[n].kids = << >>
        BY <1>1, FrameFacts, BelowFacts DEF Descends
    <1>3. /\ a2 \in Seq(Nodes) /\ m \in Nat /\ Len(a2) = m + 1 /\ a2[m + 1] = x
          /\ \A j \in 1..m : a2[j] = a[j]
        BY <1>2, AppendFacts
    <1> HIDE DEF a2
    <1>4. \A j \in 1..m + 1 : j \in 1..m \/ j = m + 1
        BY <1>3
    <1>5. \A l \in 1..n : s2[l].node = s[l].node /\ s2[l].kids = s[l].kids
        BY <1>1
    <1>6. \A j \in 1..m : a[j] \in Nodes /\ a[j] \notin Below[x]
        BY DEF Fresh, Begun
    <1>7. Descends(s2)
        <2> SUFFICES ASSUME NEW l \in 1..n
                     PROVE  /\ s2[l].step # "entries" => s2[l].kids = << >>
                            /\ \A i \in 1..Len(s2[l].kids) : IsChild(s2[l].kids[i], s2[l].node)
                            /\ Apart(s2[l].kids)
                            /\ \A k \in l + 1..n :
                                 /\ s2[l].step = "entries"
                                 /\ s2[k].node \in Below[s2[l].node]
                                 /\ Away(s2[l].kids, Below[s2[k].node])
            BY DEF Descends
        <2>1. \A k \in l + 1..n : k \in 1..n
            BY <1>1
        <2>2. CASE l = n
            <3>1. \A k \in l + 1..n : FALSE
                BY <1>1, <2>2
            <3>2. s2[l].kids = << >>
                BY <1>2, <1>5, <2>2
            <3> QED BY <3>1, <3>2 DEF Apart
        <2>3. CASE l # n
            <3>1. s2[l] = s[l]
                BY <1>1, <2>3
            <3> QED BY <1>5, <2>1, <3>1 DEF Descends
        <2> QED BY <2>2, <2>3
    <1>8. Fresh(s2, a2)
        <2> SUFFICES ASSUME NEW j \in 1..m + 1
                     PROVE  /\ \A l \in 1..n : \A i \in 1..Len(s[l].kids) :
                                   a2[j] \notin Below[s[l].kids[i]]
                            /\ \A c \in Nodes : IsChild(c, x) => a2[j] \notin Below[c]
            BY <1>3, <1>5 DEF Fresh, Begun, Entered
        <2>1. CASE j \in 1..m
            <3>1. a2[j] = a[j] /\ a[j] \notin Below[x]
                BY <1>3, <1>6, <2>1
            <3>2. \A c \in Nodes : IsChild(c, x) => Below[c] \subseteq Below[x]
                BY <1>2, ChildBelow
            <3> QED BY <2>1, <3>1, <3>2 DEF Fresh
        <2>2. CASE j = m + 1
            <3>1. ASSUME NEW l \in 1..n, NEW i \in 1..Len(s[l].kids)
                  PROVE  x \notin Below[s[l].kids[i]]
                <4>1. CASE l = n
                    BY <1>2, <4>1
                <4>2. CASE l # n
                    <5>1. n \in l + 1..n
                        BY <1>1, <4>2
                    <5>2. Away(s[l].kids, Below[x])
                        BY <5>1 DEF Descends
                    <5> QED BY <1>2, <5>2 DEF Away
                <4> QED BY <4>1, <4>2
            <3>2. ASSUME NEW c \in Nodes, IsChild(c, x) PROVE x \notin Below[c]
                <4>1. PICK i \in 1..Len(Children(x)) : c = Children(x)[i]
                    BY <3>2 DEF IsChild
                <4> QED BY <1>2, <4>1 DEF Forest
            <3> QED BY <1>3, <2>2, <3>1, <3>2
        <2> QED BY <1>4, <2>1, <2>2
    <1>9. ArgsFresh(s2, t, a2)
        <2>1. Away(t, Below[x])
            BY <1>1 DEF ArgsFresh
        <2>2. \A j \in 1..m + 1 : Away(t, Below[a2[j]])
            BY <1>3, <1>4, <2>1 DEF ArgsFresh
        <2> QED BY <1>3, <1>5, <2>2 DEF ArgsFresh
    <1>10. \A l \in 1..n : Below[x] \subseteq Below[s[l].node]
        <2> SUFFICES ASSUME NEW l \in 1..n PROVE Below[x] \subseteq Below[s[l].node]
            OBVIOUS
        <2>1. CASE l = n
            BY <2>1
        <2>2. CASE l # n
            <3>1. n \in l + 1..n /\ s[l].node \in Nodes
                BY <1>1, <2>2, FrameFacts
            <3>2. x \in Below[s[l].node]
                BY <3>1 DEF Descends
            <3> QED BY <3>1, <3>2, BelowWithin
        <2> QED BY <2>1, <2>2
    <1>11. Inside(s2, a2)
        <2> SUFFICES ASSUME NEW l \in 1..n, NEW i \in 1..m + 1, NEW j \in 1..m + 1,
                            i <= j /\ s2[l].node \in Below[a2[i]]
                     PROVE  a2[j] \in Below[a2[i]]
            BY <1>3 DEF Inside
        <2> USE <1>5
        <2>1. CASE i = m + 1
            <3>1. j = m + 1
                BY <1>3, <2>1
            <3> QED BY <1>2, <1>3, <2>1, <3>1
        <2>2. CASE i \in 1..m /\ j \in 1..m
            BY <1>3, <2>2 DEF Inside
        <2>3. CASE i \in 1..m /\ j = m + 1
            <3>1. Below[s[l].node] \subseteq Below[a[i]]
                BY <1>3, <1>6, <2>3, BelowWithin
            <3> QED BY <1>2, <1>3, <1>10, <2>3, <3>1
        <2> QED BY <1>4, <2>1, <2>2, <2>3
    <1>12. Parents(a2)
        <2> SUFFICES ASSUME NEW i \in 1..m + 1, NEW j \in 1..m + 1
                     PROVE  /\ i # j => a2[i] # a2[j]
                            /\ a2[j] \in Below[a2[i]] => i <= j
            BY <1>3 DEF Parents
        <2>1. CASE i \in 1..m /\ j \in 1..m
            BY <1>3, <2>1 DEF Parents
        <2>2. CASE i = m + 1 /\ j \in 1..m
            BY <1>2, <1>3, <1>6, <2>2
        <2>3. CASE j = m + 1 /\ i \in 1..m
            BY <1>2, <1>3, <1>6, <2>3
        <2>4. CASE i = m + 1 /\ j = m + 1
            BY <1>3, <2>4
        <2> QED BY <1>4, <2>1, <2>2, <2>3, <2>4
    <1>13. Contiguous(a2)
        <2> SUFFICES ASSUME NEW i \in 1..m + 1, NEW k \in 1..m + 1, NEW j \in i..k,
                            a2[k] \in Below[a2[i]]
                     PROVE  a2[j] \in Below[a2[i]]
            BY <1>3 DEF Contiguous
        <2>1. CASE k \in 1..m
            <3>1. i \in 1..m /\ j \in 1..m
                BY <1>3, <2>1
            <3> QED BY <1>3, <2>1, <3>1 DEF Contiguous
        <2>2. CASE k = m + 1 /\ j = m + 1
            BY <2>2
        <2>3. CASE k = m + 1 /\ j # m + 1
            <3>1. i \in 1..m /\ j \in 1..m /\ i <= j
                BY <1>3, <2>3
            <3>2. s[n].node \in Below[a[i]]
                BY <1>3, <2>3, <3>1
            <3> QED BY <1>1, <1>3, <3>1, <3>2 DEF Inside
        <2> QED BY <1>4, <2>1, <2>2, <2>3
    <1> QED BY <1>3, <1>7, <1>8, <1>9, <1>11, <1>12, <1>13 DEF a2

(* The next argument is begun.                                             *)
LEMMA WalkBegins ==
    ASSUME NEW t, NEW a, Walk(<< >>, t, a), t # << >>
    PROVE  Walk(<<Frame(Head(t))>>, Tail(t), a)
    <1> USE DEF Walk
    <1> DEFINE f == Frame(Head(t))
               s == <<f>>
    <1>1. Apart(t) /\ \A j \in 1..Len(a) : Away(t, Below[a[j]])
        BY DEF ArgsFresh
    <1>2. /\ Tail(t) \in Seq(Nodes) /\ Head(t) \in Nodes /\ Head(t) = t[1]
          /\ Len(Tail(t)) = Len(t) - 1
          /\ \A i \in 1..Len(Tail(t)) : i + 1 \in 1..Len(t) /\ Tail(t)[i] = t[i + 1]
          /\ Apart(Tail(t)) /\ Away(Tail(t), Below[Head(t)]) /\ 1 \in 1..Len(t)
        BY <1>1, ApartTail
    <1>3. f.node = Head(t) /\ f.step = "stat" /\ f.kids = << >> /\ f \in FrameType
        BY <1>2 DEF Frame, FrameType, Steps
    <1>4. s \in Seq(FrameType) /\ Len(s) = 1 /\ s[1] = f /\ \A l \in 1..Len(s) : l = 1
        BY <1>3
    <1> HIDE DEF s, f
    <1>5. Descends(s)
        BY <1>3, <1>4 DEF Descends, Apart
    <1>6. \A j \in 1..Len(a) : a[j] \in Nodes /\ Head(t) \notin Below[a[j]] /\ a[j] \notin Below[Head(t)]
        BY <1>1, <1>2, BelowFacts DEF Away
    <1>7. Fresh(s, a)
        BY <1>3, <1>4, <1>6 DEF Fresh, Entered
    <1>8. Inside(s, a)
        BY <1>3, <1>4, <1>6 DEF Inside
    <1>9. ArgsFresh(s, Tail(t), a)
        <2>1. \A j \in 1..Len(a) : Away(Tail(t), Below[a[j]])
            BY <1>1, <1>2 DEF Away
        <2> QED BY <1>2, <1>3, <1>4, <2>1 DEF ArgsFresh
    <1> QED BY <1>2, <1>4, <1>5, <1>7, <1>8, <1>9 DEF s, f

(***************************************************************************)
(* The command's steps                                                     *)
(***************************************************************************)

(* Only the last frame is not in the middle of a listing.                  *)
Framed(s) ==
    /\ s \in Seq(FrameType)
    /\ \A l \in 1..Len(s) : /\ s[l].step # "entries" => s[l].kids = << >>
                            /\ l < Len(s) => s[l].step = "entries"

CmdTyped ==
    /\ Framed(stack) /\ args \in Seq(Nodes) /\ archived \in Seq(Nodes)
    /\ exit \in {0, 1, Running}

WriteSteps == {"checkpoint", "index", "pax"}

(* Where the writer is, when the command is where it is.                   *)
Calls ==
    /\ pc \in WriteSteps => stack # << >> /\ Top.step = "wait"
    /\ stack # << >> => pc \in WriteSteps \cup {"ready"} /\ exit = Running
    /\ pc \notin WriteSteps \cup {"ready"} => args = << >>
    /\ exit = 0 => pc = "done"
    /\ exit = 1 => pc \in {"ready", "failed"}

LEMMA GotoFacts ==
    ASSUME NEW s, Framed(s), s # << >>, NEW step \in Steps \ {"entries"},
           s[Len(s)].kids = << >>
    PROVE  LET s2 == [s EXCEPT ![Len(s)].step = step] IN
           /\ Framed(s2) /\ Len(s2) = Len(s) /\ s2 # << >>
           /\ \A l \in 1..Len(s) - 1 : s2[l] = s[l]
           /\ s2[Len(s)].node = s[Len(s)].node
           /\ s2[Len(s)].kids = << >> /\ s2[Len(s)].step = step
    <1> DEFINE n == Len(s)
               f == [s[n] EXCEPT !.step = step]
               s2 == [s EXCEPT ![n].step = step]
    <1>1. n \in Nat /\ n \in 1..n /\ s[n] \in FrameType /\ s \in Seq(FrameType)
        BY FrameFacts DEF Framed
    <1>2. f \in FrameType /\ f.node = s[n].node /\ f.kids = << >> /\ f.step = step
        BY <1>1 DEF FrameType
    <1>3. s2 = [s EXCEPT ![n] = f]
        BY <1>1
    <1> HIDE DEF f
    <1>4. /\ s2 \in Seq(FrameType) /\ Len(s2) = n /\ s2[n] = f
          /\ \A l \in 1..n : l # n => s2[l] = s[l]
        BY <1>1, <1>2, <1>3
    <1> HIDE DEF s2
    <1>5. Framed(s2)
        BY <1>1, <1>2, <1>4 DEF Framed
    <1>6. \A l \in 1..n - 1 : l \in 1..n /\ l # n
        BY <1>1
    <1> QED BY <1>1, <1>2, <1>4, <1>5, <1>6 DEF s2

LEMMA EmptiedFacts ==
    ASSUME NEW e \in FrameType
    PROVE  LET f == [e EXCEPT !.kids = << >>] IN
           f \in FrameType /\ f.node = e.node /\ f.step = e.step /\ f.kids = << >>
    <1>1. << >> \in Seq(Nodes)
        OBVIOUS
    <1> QED BY <1>1 DEF FrameType

(* The last frame returns: the one before goes on, or stops listing.       *)
LEMMA ReturnFacts ==
    ASSUME CmdTyped, stack # << >>, NEW ok \in BOOLEAN, Return(ok)
    PROVE  /\ Framed(stack') /\ GoesOn(stack, stack') /\ Len(stack') = Len(stack) - 1
           /\ stack' # << >> => stack'[1].node = stack[1].node /\ Top'.step = "entries"
           /\ exit' = exit \/ (exit' = 1 /\ stack' = << >>)
    <1> DEFINE n == Len(stack)
               s == stack
               s2 == stack'
    <1>1. /\ n \in Nat /\ n \in 1..n /\ s \in Seq(FrameType)
          /\ \A l \in 1..n : /\ s[l].step # "entries" => s[l].kids = << >>
                             /\ l < n => s[l].step = "entries"
        BY DEF CmdTyped, Framed
    <1>2. /\ Pop \in Seq(FrameType) /\ Len(Pop) = n - 1
          /\ \A l \in 1..n - 1 : Pop[l] = s[l] /\ l \in 1..n
        <2>1. 1 \in Int /\ n - 1 \in Int /\ \A l \in 1..n - 1 : l \in 1..n /\ 1 + l - 1 = l
            BY <1>1
        <2>2. \A l \in 1..n - 1 : s[l] \in FrameType
            BY <1>1, <2>1
        <2>3. Pop \in Seq(FrameType) /\ Len(Pop) = n - 1
            <3> DEFINE k == n - 1
            <3>1. /\ 1 \in Int /\ k \in Int /\ 0 <= k /\ Pop = SubSeq(s, 1, k)
                  /\ \A i \in 1..k : s[i] \in FrameType
                BY <1>1, <2>2 DEF Pop
            <3> HIDE DEF k, s
            <3>2. /\ SubSeq(s, 1, k) \in Seq(FrameType)
                  /\ Len(SubSeq(s, 1, k)) = IF 1 <= k THEN k - 1 + 1 ELSE 0
                BY <3>1, SubSeqProperties
            <3>3. SubSeq(s, 1, k) \in Seq(FrameType) /\ Len(SubSeq(s, 1, k)) = k
                BY <3>1, <3>2
            <3> QED BY <3>1, <3>3, Zenon DEF k
        <2>4. \A l \in 1..n - 1 : Pop[l] = s[l]
            BY <1>1, <2>1 DEF Pop
        <2> QED BY <2>1, <2>3, <2>4
    <1>3. /\ s2 \in Seq(FrameType) /\ Len(s2) = n - 1
          /\ \A l \in 1..n - 1 : /\ s2[l].node = s[l].node /\ s2[l].step = "entries"
                                 /\ s2[l].kids = s[l].kids \/ s2[l].kids = << >>
        <2>1. CASE n = 1
            BY <2>1 DEF Return
        <2>2. CASE n # 1 /\ ok
            <3>1. s2 = Pop
                BY <2>2 DEF Return
            <3>2. \A l \in 1..n - 1 : s[l].step = "entries"
                BY <1>1, <1>2
            <3> QED BY <1>2, <3>1, <3>2
        <2>3. CASE n # 1 /\ ~ok
            <3> DEFINE f == [s[n - 1] EXCEPT !.kids = << >>]
            <3>0. n - 1 \in 1..n - 1
                BY <1>1, <2>3
            <3>1. s2 = [Pop EXCEPT ![n - 1].kids = << >>]
                BY <2>3, Zenon DEF Return
            <3>2. s2 = [Pop EXCEPT ![n - 1] = f]
                BY <1>2, <3>0, <3>1
            <3> HIDE DEF s2
            <3>3. Pop[n - 1] = s[n - 1] /\ s[n - 1] \in FrameType /\ s[n - 1].step = "entries"
                BY <1>1, <1>2, <3>0
            <3>4. /\ f \in FrameType /\ f.node = s[n - 1].node /\ f.kids = << >>
                  /\ f.step = "entries"
                BY <3>3, EmptiedFacts
            <3> HIDE DEF f
            <3>5. /\ s2 \in Seq(FrameType) /\ Len(s2) = n - 1 /\ s2[n - 1] = f
                  /\ \A l \in 1..n - 1 : l # n - 1 => s2[l] = s[l]
                BY <1>2, <3>0, <3>2, <3>4
            <3>6. ASSUME NEW l \in 1..n - 1
                  PROVE  /\ s2[l].node = s[l].node /\ s2[l].step = "entries"
                         /\ s2[l].kids = s[l].kids \/ s2[l].kids = << >>
                BY <1>1, <3>4, <3>5
            <3> QED BY <3>5, <3>6
        <2> QED BY <2>1, <2>2, <2>3
    <1>4. \A l \in 1..n - 1 : l \in 1..n /\ l < n
        BY <1>1
    <1>5. s2 # << >> => n - 1 \in 1..n - 1 /\ 1 \in 1..n - 1
        BY <1>1, <1>3
    <1>6. Framed(s2)
        BY <1>3 DEF Framed
    <1>7. GoesOn(s, s2)
        BY <1>1, <1>3, <1>5 DEF GoesOn, Begun, Entered
    <1>8. exit' = exit \/ (exit' = 1 /\ s2 = << >>)
        BY DEF Return
    <1> QED BY <1>3, <1>5, <1>6, <1>7, <1>8 DEF Top

LEMMA TopFacts ==
    ASSUME CmdTyped, stack # << >>
    PROVE  /\ Len(stack) \in Nat /\ Len(stack) \in 1..Len(stack) /\ Top = stack[Len(stack)]
           /\ Top.node \in Nodes /\ Top.step \in Steps /\ Top.kids \in Seq(Nodes)
           /\ Top.step # "entries" => Top.kids = << >>
    BY FrameFacts, StackTop DEF CmdTyped, Framed, Top

LEMMA SameGoesOn ==
    ASSUME NEW s, Framed(s)
    PROVE  GoesOn(s, s)
    BY DEF Framed, GoesOn

(* The last frame takes its next step before its listing.                  *)
LEMMA GotoGoesOn ==
    ASSUME CmdTyped, stack # << >>, NEW step \in Steps, Goto(step),
           \/ Top.step \in Begun /\ step \in Begun
           \/ Top.step \in Entered /\ step \in Entered
    PROVE  /\ Framed(stack') /\ GoesOn(stack, stack') /\ Len(stack') = Len(stack)
           /\ stack' # << >> /\ stack'[1].node = stack[1].node /\ Top'.step = step
    <1>1. Top.step # "entries" /\ step \in Steps \ {"entries"}
        BY DEF Begun, Entered
    <1>2. /\ Framed(stack) /\ stack[Len(stack)].kids = << >> /\ Top = stack[Len(stack)]
          /\ Len(stack) \in Nat /\ Len(stack) \in 1..Len(stack)
        BY <1>1, TopFacts DEF CmdTyped
    <1>3. /\ Framed(stack') /\ Len(stack') = Len(stack) /\ stack' # << >>
          /\ \A l \in 1..Len(stack) - 1 : stack'[l] = stack[l]
          /\ stack'[Len(stack)].node = stack[Len(stack)].node
          /\ stack'[Len(stack)].kids = << >> /\ stack'[Len(stack)].step = step
        <2> DEFINE s2 == [stack EXCEPT ![Len(stack)].step = step]
        <2>1. stack' = s2
            BY DEF Goto
        <2>2. /\ Framed(s2) /\ Len(s2) = Len(stack) /\ s2 # << >>
              /\ \A l \in 1..Len(stack) - 1 : s2[l] = stack[l]
              /\ s2[Len(stack)].node = stack[Len(stack)].node
              /\ s2[Len(stack)].kids = << >> /\ s2[Len(stack)].step = step
            BY <1>1, <1>2, GotoFacts
        <2> HIDE DEF s2
        <2> QED BY <2>1, <2>2
    <1>4. \A l \in 1..Len(stack) : l # Len(stack) => l \in 1..Len(stack) - 1
        BY <1>2
    <1>5. \A l \in 1..Len(stack') : /\ stack'[l].node = stack[l].node
                                    /\ stack'[l].kids = stack[l].kids \/ stack'[l].kids = << >>
        BY <1>3, <1>4
    <1>6. GoesOn(stack, stack')
        <2>1. \A l \in 1..Len(stack') : /\ stack'[l].step # "entries" => stack'[l].kids = << >>
                                        /\ l < Len(stack') => stack'[l].step = "entries"
            BY <1>3 DEF Framed
        <2>2. Len(stack') <= Len(stack)
            BY <1>2, <1>3
        <2>3. /\ step \in Begun => stack[Len(stack)].step \in Begun
              /\ step \in Entered => stack[Len(stack)].step \in Entered
            BY <1>2 DEF Begun, Entered
        <2> QED BY <1>3, <1>5, <2>1, <2>2, <2>3, Zenon DEF GoesOn
    <1>7. 1 \in 1..Len(stack')
        BY <1>2, <1>3
    <1> QED BY <1>2, <1>3, <1>5, <1>6, <1>7 DEF Top

LEMMA ReplaceFacts ==
    ASSUME NEW s \in Seq(FrameType), s # << >>, NEW f \in FrameType
    PROVE  LET s2 == [s EXCEPT ![Len(s)] = f] IN
           /\ s2 \in Seq(FrameType) /\ Len(s2) = Len(s) /\ s2[Len(s)] = f
           /\ \A l \in 1..Len(s) : l # Len(s) => s2[l] = s[l]
    <1>1. Len(s) \in Nat /\ Len(s) \in 1..Len(s)
        BY StackTop
    <1> QED BY <1>1

(* What becomes of the arguments and of what was archived.                 *)
Onward == UNCHANGED <<args, archived>>
Begins ==
    /\ stack = << >> /\ args # << >> /\ stack' = <<Frame(Head(args))>>
    /\ args' = Tail(args) /\ UNCHANGED archived

LEMMA ListFacts ==
    ASSUME CmdTyped, ListDirectory, Top.step = "list", Top.node \in Nodes,
           stack' = [stack EXCEPT ![Len(stack)] =
                       [@ EXCEPT !.step = "entries", !.kids = Children(Top.node)]],
           stack # << >>
    PROVE  Framed(stack') /\ Lists(stack, stack') /\ stack' # << >> /\ stack'[1].node = stack[1].node
    <1> DEFINE n == Len(stack)
               f == [stack[n] EXCEPT !.step = "entries", !.kids = Children(Top.node)]
    <1>1. /\ n \in Nat /\ n \in 1..n /\ Top = stack[n] /\ stack[n] \in FrameType
          /\ Children(Top.node) \in Seq(Nodes) /\ stack \in Seq(FrameType)
        BY TopFacts, FrameFacts, TreeAssumption DEF CmdTyped, Framed
    <1>2. /\ f \in FrameType /\ f.node = stack[n].node /\ f.step = "entries"
          /\ f.kids = Children(stack[n].node)
        BY <1>1 DEF FrameType, Steps
    <1> HIDE DEF f
    <1>3. stack' = [stack EXCEPT ![n] = f]
        BY <1>1 DEF f
    <1>4. /\ stack' \in Seq(FrameType) /\ Len(stack') = n /\ stack'[n] = f
          /\ \A l \in 1..n : l # n => stack'[l] = stack[l]
        <2> DEFINE s2 == [stack EXCEPT ![n] = f]
        <2>1. /\ s2 \in Seq(FrameType) /\ Len(s2) = n /\ s2[n] = f
              /\ \A l \in 1..n : l # n => s2[l] = stack[l]
            BY <1>1, <1>2, ReplaceFacts
        <2> HIDE DEF s2
        <2> QED BY <1>3, <2>1 DEF s2
    <1>5. \A l \in 1..n - 1 : l \in 1..n /\ l # n
        BY <1>1
    <1>6. Framed(stack')
        BY <1>1, <1>2, <1>4 DEF Framed, CmdTyped
    <1>7. Lists(stack, stack')
        BY <1>1, <1>2, <1>4, <1>5 DEF Lists, Changes, Entered
    <1>8. 1 \in 1..n /\ stack' # << >>
        BY <1>1, <1>4
    <1> QED BY <1>2, <1>4, <1>6, <1>7, <1>8

LEMMA EnterFacts ==
    ASSUME CmdTyped, stack # << >>, Top.step = "entries", Top.kids # << >>,
           stack' = Append([stack EXCEPT ![Len(stack)].kids = Tail(@)], Frame(Head(Top.kids)))
    PROVE  /\ Framed(stack') /\ Enters(stack, stack') /\ stack' # << >>
           /\ stack'[1].node = stack[1].node /\ Len(stack') > 1
    <1> DEFINE n == Len(stack)
               f == [stack[n] EXCEPT !.kids = Tail(@)]
               g == Frame(Head(Top.kids))
               s == [stack EXCEPT ![n] = f]
    <1>1. /\ n \in Nat /\ n \in 1..n /\ Top = stack[n] /\ stack[n] \in FrameType
          /\ stack \in Seq(FrameType) /\ Top.kids \in Seq(Nodes) /\ Top.node \in Nodes
        BY TopFacts, FrameFacts DEF CmdTyped, Framed
    <1>2. Tail(Top.kids) \in Seq(Nodes) /\ Head(Top.kids) \in Nodes
        BY <1>1
    <1>3. /\ f \in FrameType /\ f.node = stack[n].node /\ f.step = "entries"
          /\ f.kids = Tail(stack[n].kids)
        BY <1>1, <1>2 DEF FrameType
    <1>4. g \in FrameType /\ g.step = "stat" /\ g.kids = << >>
        BY <1>2 DEF Frame, FrameType, Steps
    <1>5. stack' = Append(s, g)
        BY <1>1
    <1> HIDE DEF f, g
    <1>6. /\ s \in Seq(FrameType) /\ Len(s) = n /\ s[n] = f
          /\ \A l \in 1..n : l # n => s[l] = stack[l]
        BY <1>1, <1>3, ReplaceFacts, Zenon
    <1> HIDE DEF s
    <1>7. /\ stack' \in Seq(FrameType) /\ Len(stack') = n + 1 /\ stack'[n + 1] = g
          /\ \A l \in 1..n : stack'[l] = s[l]
        <2>1. /\ Append(s, g) \in Seq(FrameType) /\ Len(Append(s, g)) = Len(s) + 1
              /\ Append(s, g)[Len(s) + 1] = g
              /\ \A l \in 1..Len(s) : Append(s, g)[l] = s[l]
            BY <1>4, <1>6, AppendFacts
        <2> QED BY <1>5, <1>6, <2>1, Zenon
    <1>8. \A l \in 1..n + 1 : l \in 1..n \/ l = n + 1
        BY <1>1
    <1>9. \A l \in 1..n - 1 : l \in 1..n /\ l # n
        BY <1>1
    <1>10. Framed(stack')
        <2> SUFFICES ASSUME NEW l \in 1..n + 1
                     PROVE  /\ stack'[l].step # "entries" => stack'[l].kids = << >>
                            /\ l < n + 1 => stack'[l].step = "entries"
            BY <1>7 DEF Framed
        <2>1. CASE l = n + 1
            <3>1. ~(l < n + 1)
                BY <1>1, <2>1
            <3>2. stack'[l].kids = << >>
                BY <1>4, <1>7, <2>1
            <3> QED BY <3>1, <3>2
        <2>2. CASE l = n
            <3>1. stack'[l] = f
                BY <1>1, <1>6, <1>7, <2>2
            <3> QED BY <1>3, <3>1
        <2>3. CASE l \in 1..n /\ l # n
            <3>1. l < n /\ stack'[l] = stack[l]
                BY <1>1, <1>6, <1>7, <2>3
            <3> QED BY <2>3, <3>1 DEF CmdTyped, Framed
        <2> QED BY <1>8, <2>1, <2>2, <2>3
    <1>11. Enters(stack, stack')
        BY <1>1, <1>3, <1>6, <1>7, <1>9 DEF Enters, Changes, g
    <1>12. 1 \in 1..n /\ Len(stack') > 1
        BY <1>1, <1>7
    <1>13. stack'[1].node = stack[1].node
        BY <1>1, <1>3, <1>6, <1>7, <1>12
    <1> QED BY <1>7, <1>10, <1>11, <1>12, <1>13

LEMMA ArchiveFacts ==
    ASSUME CmdTyped, CallWriteEntry
    PROVE  /\ Framed(stack') /\ Archives(stack, stack') /\ stack' # << >>
           /\ stack'[1].node = stack[1].node /\ Top'.step = "wait"
           /\ archived' = Append(archived, stack[Len(stack)].node) /\ args' = args
    <1>1. /\ stack # << >> /\ Top.step = "write" /\ Goto("wait")
          /\ archived' = Append(archived, Top.node) /\ args' = args
        BY DEF CallWriteEntry, InStep
    <1> DEFINE n == Len(stack)
               s2 == [stack EXCEPT ![n].step = "wait"]
    <1>2. /\ n \in Nat /\ n \in 1..n /\ Top = stack[n] /\ stack[n].kids = << >>
          /\ Framed(stack) /\ "wait" \in Steps \ {"entries"}
        BY <1>1, TopFacts DEF CmdTyped, Steps
    <1>3. stack' = s2
        BY <1>1 DEF Goto
    <1>4. /\ Framed(s2) /\ Len(s2) = n /\ s2 # << >>
          /\ \A l \in 1..n - 1 : s2[l] = stack[l]
          /\ s2[n].node = stack[n].node /\ s2[n].kids = << >> /\ s2[n].step = "wait"
        BY <1>1, <1>2, GotoFacts
    <1> HIDE DEF s2
    <1>5. Archives(stack, s2)
        BY <1>1, <1>2, <1>4 DEF Archives, Changes
    <1>6. s2[1].node = stack[1].node
        <2>1. n = 1 \/ 1 \in 1..n - 1
            BY <1>2
        <2> QED BY <1>4, <2>1
    <1> QED BY <1>1, <1>2, <1>3, <1>4, <1>5, <1>6 DEF Top

LEMMA StackStep ==
    ASSUME CmdTyped, [CmdNext]_allVars
    PROVE  /\ CmdTyped'
           /\ \/ Onward /\ GoesOn(stack, stack')
              \/ Onward /\ (Lists(stack, stack') \/ Enters(stack, stack'))
              \/ /\ Archives(stack, stack') /\ UNCHANGED args
                 /\ archived' = Append(archived, stack[Len(stack)].node)
              \/ Begins
    <1> USE DEF CmdTyped, Onward
    <1>1. CASE UNCHANGED cmdVars
        BY <1>1, SameGoesOn DEF cmdVars
    <1>2. CASE FinishReturned
        BY <1>2, SameGoesOn DEF FinishReturned
    <1>3. CASE NextArgument
        <2>1. Begins
            BY <1>3 DEF NextArgument, Begins
        <2>2. Tail(args) \in Seq(Nodes) /\ Head(args) \in Nodes
            BY <2>1 DEF Begins
        <2>3. Frame(Head(args)) \in FrameType
            BY <2>2 DEF Frame, FrameType, Steps
        <2>4. Framed(stack')
            BY <2>1, <2>3 DEF Begins, Framed, Frame
        <2> QED BY <1>3, <2>1, <2>2, <2>4 DEF Begins, NextArgument
    <1>4. ASSUME stack # << >>, Onward, exit' = exit,
                 NEW step \in Steps, Goto(step),
                 \/ Top.step \in Begun /\ step \in Begun
                 \/ Top.step \in Entered /\ step \in Entered
          PROVE  CmdTyped' /\ GoesOn(stack, stack')
        BY <1>4, GotoGoesOn
    <1>5. ASSUME stack # << >>, Onward, NEW ok \in BOOLEAN, Return(ok)
          PROVE  CmdTyped' /\ GoesOn(stack, stack')
        BY <1>5, ReturnFacts
    <1>6. CASE Stat \/ EnsurePathFormat \/ Open
        <2>1. stack # << >> /\ Onward /\ Top.step \in Begun
            BY <1>6 DEF Stat, EnsurePathFormat, Open, InStep, Begun
        <2>2. \/ Return(FALSE)
              \/ exit' = exit /\ (Goto("format") \/ Goto("open") \/ Goto("write"))
            BY <1>6 DEF Stat, EnsurePathFormat, Open
        <2>3. {"format", "open", "write"} \subseteq Begun \cap Steps /\ FALSE \in BOOLEAN
            BY DEF Begun, Steps
        <2> QED BY <1>4, <1>5, <2>1, <2>2, <2>3
    <1>7. CASE CallWriteEntry
        <2>1. archived' \in Seq(Nodes) /\ exit' = exit
            BY <1>7, TopFacts DEF CallWriteEntry, InStep
        <2> QED BY <1>7, <2>1, ArchiveFacts
    <1>8. CASE WriteEntryReturned
        <2>1. stack # << >> /\ Onward /\ Top.step \in Entered
            BY <1>8 DEF WriteEntryReturned, InStep, Entered
        <2>2. \/ exit' = exit /\ Goto("list")
              \/ \E ok \in BOOLEAN : Return(ok)
            BY <1>8 DEF WriteEntryReturned
        <2>3. "list" \in Entered \cap Steps
            BY DEF Entered, Steps
        <2> QED BY <1>4, <1>5, <2>1, <2>2, <2>3
    <1>9. CASE ListDirectory
        <2>1. stack # << >> /\ Onward /\ Top.step = "list"
            BY <1>9 DEF ListDirectory, InStep
        <2>2. \/ Return(FALSE)
              \/ /\ exit' = exit
                 /\ stack' = [stack EXCEPT ![Len(stack)] =
                                [@ EXCEPT !.step = "entries", !.kids = Children(Top.node)]]
            BY <1>9 DEF ListDirectory
        <2>3. Top.node \in Nodes
            BY <2>1, TopFacts
        <2> QED BY <1>5, <1>9, <2>1, <2>2, <2>3, ListFacts
    <1>10. CASE NextDirectoryEntry
        <2>1. stack # << >> /\ Onward /\ Top.step = "entries"
            BY <1>10 DEF NextDirectoryEntry, InStep
        <2>2. \/ Return(TRUE)
              \/ /\ exit' = exit /\ Top.kids # << >>
                 /\ stack' = Append([stack EXCEPT ![Len(stack)].kids = Tail(@)],
                                    Frame(Head(Top.kids)))
            BY <1>10 DEF NextDirectoryEntry
        <2> QED BY <1>5, <2>1, <2>2, EnterFacts
    <1>11. CASE CallFinish
        BY <1>1, <1>11 DEF CallFinish
    <1>12. CASE UNCHANGED allVars
        BY <1>1, <1>12 DEF allVars
    <1> QED BY <1>1, <1>2, <1>3, <1>6, <1>7, <1>8, <1>9, <1>10, <1>11, <1>12 DEF CmdNext

LEMMA SimulatesWriter ==
    ASSUME CmdTyped, [CmdNext]_allVars
    PROVE  [Next]_vars
    <1>1. CASE UNCHANGED allVars
        BY <1>1 DEF allVars, vars
    <1>2. CASE CallWriteEntry
        <2>1. WriteEntry(NodeMeta(Top.node)) /\ Top.node \in Nodes
            BY <1>2, TopFacts DEF CallWriteEntry, InStep
        <2>2. NodeMeta(Top.node) \in Metas
            BY <2>1, TreeAssumption
        <2> QED BY <2>1, <2>2 DEF Next
    <1>3. CASE CallFinish \/ CallStep
        BY <1>3 DEF CallFinish, Next
    <1>4. CASE \/ NextArgument \/ Stat \/ EnsurePathFormat \/ Open \/ WriteEntryReturned
               \/ ListDirectory \/ NextDirectoryEntry \/ FinishReturned
        BY <1>4 DEF NextArgument, Stat, EnsurePathFormat, Open, WriteEntryReturned,
                    ListDirectory, NextDirectoryEntry, FinishReturned
    <1> QED BY <1>1, <1>2, <1>3, <1>4 DEF CmdNext

(* A call of the writer goes on or returns; a failed write_entry leaves it *)
(* in use.                                                                 *)
LEMMA CallMoves ==
    ASSUME CallStep
    PROVE  \/ pc \in WriteSteps /\ pc' \in WriteSteps \cup {"ready"}
           \/ pc \in FinishSteps /\ pc' \in FinishSteps \cup {"done", "failed"}
    <1> USE ClientAssumption DEF WriteSteps, FinishSteps
    <1>1. CASE CreateCheckpoint
        BY <1>1 DEF CreateCheckpoint, Flushed, Fail
    <1>2. CASE WriteIndexLine
        BY <1>2 DEF WriteIndexLine
    <1>3. CASE PaxWrite
        BY <1>3 DEF PaxWrite, Wrote, Fail
    <1>4. CASE ContentShort
        BY <1>4 DEF ContentShort, Fail
    <1>5. CASE CloseBody
        BY <1>5 DEF CloseBody, Fail
    <1>6. CASE WriteIndexSection
        BY <1>6 DEF WriteIndexSection, Fail
    <1>7. CASE WriteCheckpointsSection
        BY <1>7 DEF WriteCheckpointsSection, Fail
    <1>8. CASE WriteTail
        BY <1>8 DEF WriteTail, Fail
    <1>9. CASE WriteEofMarker
        BY <1>9 DEF WriteEofMarker, Fail
    <1> QED BY <1>1, <1>2, <1>3, <1>4, <1>5, <1>6, <1>7, <1>8, <1>9 DEF CallStep

LEMMA CallsStep ==
    ASSUME CmdTyped, Calls, [CmdNext]_allVars
    PROVE  Calls'
    <1> USE DEF Calls, WriteSteps
    <1>1. CASE CallStep /\ UNCHANGED cmdVars
        <2>1. UNCHANGED <<stack, args, exit>> /\ Top' = Top
            BY <1>1 DEF cmdVars, Top
        <2> QED BY <1>1, <2>1, CallMoves DEF FinishSteps
    <1>2. CASE FinishReturned
        <2>1. UNCHANGED <<stack, args, pc>> /\ Top' = Top /\ exit = Running
            BY <1>2 DEF FinishReturned, vars, Top
        <2> QED BY <1>2, <2>1 DEF FinishReturned, Running
    <1>3. CASE NextArgument
        <2>1. stack = << >> /\ args # << >> /\ exit = Running /\ UNCHANGED <<pc, exit>>
            BY <1>3 DEF NextArgument, vars
        <2>2. pc = "ready" /\ stack' # << >>
            BY <1>3, <2>1 DEF NextArgument
        <2> QED BY <2>1, <2>2 DEF Running
    <1>4. ASSUME stack # << >>, UNCHANGED <<pc, args>>, pc = "ready",
                 exit' = exit \/ (exit' = 1 /\ stack' = << >>)
          PROVE  Calls'
        BY <1>4 DEF Running
    <1>5. CASE \/ Stat \/ EnsurePathFormat \/ Open \/ WriteEntryReturned
               \/ ListDirectory \/ NextDirectoryEntry
        <2>1. stack # << >> /\ UNCHANGED <<pc, args>>
            BY <1>5 DEF Stat, EnsurePathFormat, Open, WriteEntryReturned, ListDirectory,
                        NextDirectoryEntry, InStep, vars
        <2>2. pc = "ready"
            BY <1>5 DEF Stat, EnsurePathFormat, Open, WriteEntryReturned, ListDirectory,
                        NextDirectoryEntry, InStep
        <2>3. exit' = exit \/ \E ok \in BOOLEAN : Return(ok)
            BY <1>5 DEF Stat, EnsurePathFormat, Open, WriteEntryReturned, ListDirectory,
                        NextDirectoryEntry
        <2>4. exit' = exit \/ (exit' = 1 /\ stack' = << >>)
            BY <2>1, <2>3, ReturnFacts
        <2> QED BY <1>4, <2>1, <2>2, <2>4
    <1>6. CASE CallWriteEntry
        <2>1. pc' \in {"checkpoint", "index"} /\ exit = Running /\ exit' = exit
            BY <1>6 DEF CallWriteEntry, WriteEntry, InStep
        <2> QED BY <1>6, <2>1, ArchiveFacts DEF Running
    <1>7. CASE CallFinish
        <2>1. /\ pc' = "end" /\ stack = << >> /\ args = << >> /\ exit = Running
              /\ UNCHANGED <<stack, args, exit>>
            BY <1>7 DEF CallFinish, Finish, cmdVars
        <2> QED BY <2>1 DEF Running
    <1>8. CASE UNCHANGED allVars
        <2>1. UNCHANGED <<stack, args, exit, pc>> /\ Top' = Top
            BY <1>8 DEF allVars, cmdVars, vars, Top
        <2> QED BY <2>1
    <1> QED BY <1>1, <1>2, <1>3, <1>5, <1>6, <1>7, <1>8 DEF CmdNext

(* The arguments before those in args are archived, but for the one whose  *)
(* frame is alone and has not got to that, and unless the command failed.  *)
Archived(a, n) == \E j \in 1..Len(a) : a[j] = n
Taken(t) == Len(Args) - Len(t)
UpTo(s, t, a) ==
    \A i \in 1..Taken(t) :
        Archived(a, Args[i]) \/ (i = Taken(t) /\ Len(s) = 1 /\ s[1].step \in Begun)
ArgsOrder(s, t) ==
    /\ Len(t) <= Len(Args)
    /\ \A i \in 1..Len(t) : t[i] = Args[Taken(t) + i]
    /\ s # << >> => Taken(t) >= 1 /\ s[1].node = Args[Taken(t)]
ArgsInv == ArgsOrder(stack, args) /\ (exit # 1 => UpTo(stack, args, archived))

LEMMA ExitStays ==
    ASSUME [CmdNext]_allVars, exit = 1
    PROVE  exit' = 1
    BY DEF CmdNext, NextArgument, Stat, EnsurePathFormat, Open, CallWriteEntry,
           WriteEntryReturned, ListDirectory, NextDirectoryEntry, CallFinish,
           FinishReturned, InStep, Running, cmdVars, allVars

(* An argument whose frame is alone is archived, or the command fails.     *)
LEMMA BegunStays ==
    ASSUME CmdTyped, [CmdNext]_allVars, Onward, Len(stack) = 1, stack[1].step \in Begun,
           exit' # 1
    PROVE  Len(stack') = 1 /\ stack'[1].step \in Begun
    <1>1. stack # << >> /\ Top = stack[1]
        BY TopFacts DEF Top
    <1>2. CASE UNCHANGED stack
        BY <1>2
    <1>3. ASSUME NEW step \in Begun, Goto(step)
          PROVE  Len(stack') = 1 /\ stack'[1].step \in Begun
        <2>1. step \in Steps
            BY DEF Begun, Steps
        <2>2. Len(stack') = 1 /\ Top'.step = step
            BY <1>1, <1>3, <2>1, GotoGoesOn
        <2> QED BY <2>2 DEF Top
    <1>4. ~Return(FALSE)
        BY DEF Return
    <1>5. CASE Stat \/ EnsurePathFormat \/ Open
        <2>1. Goto("format") \/ Goto("open") \/ Goto("write")
            BY <1>4, <1>5, Zenon DEF Stat, EnsurePathFormat, Open
        <2>2. {"format", "open", "write"} \subseteq Begun
            BY DEF Begun
        <2> QED BY <1>3, <2>1, <2>2
    <1>6. CASE CallWriteEntry
        <2>1. archived' = Append(archived, Top.node) /\ archived' = archived
            BY <1>6 DEF CallWriteEntry, Onward
        <2>2. Len(Append(archived, Top.node)) = Len(archived) + 1 /\ Len(archived) \in Nat
            BY <1>1, TopFacts, AppendFacts DEF CmdTyped
        <2>3. Len(archived) = Len(archived) + 1
            BY <2>1, <2>2
        <2> QED BY <2>2, <2>3
    <1>7. CASE NextArgument
        BY <1>1, <1>7 DEF NextArgument
    <1>8. ~(WriteEntryReturned \/ ListDirectory \/ NextDirectoryEntry)
        BY <1>1 DEF WriteEntryReturned, ListDirectory, NextDirectoryEntry, InStep, Begun
    <1>9. CASE CallFinish \/ FinishReturned \/ (CallStep /\ UNCHANGED cmdVars) \/ UNCHANGED allVars
        BY <1>2, <1>9 DEF CallFinish, FinishReturned, cmdVars, allVars
    <1> QED BY <1>5, <1>6, <1>7, <1>8, <1>9 DEF CmdNext

LEMMA ArgsStep ==
    ASSUME CmdTyped, ArgsInv, [CmdNext]_allVars
    PROVE  ArgsInv'
    <1>1. /\ Len(Args) \in Nat /\ Len(args) \in Nat /\ Len(stack) \in Nat
          /\ Taken(args) \in Int /\ Len(archived) \in Nat
        BY TreeAssumption DEF CmdTyped, Framed, Taken
    <1>2. CmdTyped' /\ Len(stack') \in Nat
        BY StackStep DEF CmdTyped, Framed
    <1>3. exit' # 1 => UpTo(stack, args, archived)
        BY ExitStays DEF ArgsInv
    <1>4. CASE Onward /\ GoesOn(stack, stack')
        <2>1. stack' # << >> => 1 \in 1..Len(stack') /\ stack # << >>
            BY <1>1, <1>2, <1>4 DEF GoesOn, CmdTyped, Framed
        <2>2. stack' # << >> => stack'[1].node = stack[1].node
            BY <1>4, <2>1 DEF GoesOn
        <2>3. ArgsOrder(stack', args')
            BY <1>4, <2>1, <2>2 DEF ArgsInv, ArgsOrder, Onward
        <2>4. exit' # 1 => UpTo(stack', args', archived')
            BY <1>3, <1>4, BegunStays DEF UpTo, Onward
        <2> QED BY <2>3, <2>4 DEF ArgsInv
    <1>5. CASE Onward /\ (Lists(stack, stack') \/ Enters(stack, stack'))
        <2> USE DEF Lists, Enters, Changes
        <2>1. stack # << >> /\ (Len(stack) = 1 \/ 1 \in 1..Len(stack) - 1)
            <3>1. stack # << >>
                BY <1>5
            <3>2. Len(stack) \in Nat /\ Len(stack) # 0
                BY <1>1, <3>1 DEF CmdTyped, Framed
            <3> QED BY <3>1, <3>2
        <2>2. stack'[1].node = stack[1].node
            BY <1>5, <2>1
        <2>3. ~(Len(stack) = 1 /\ stack[1].step \in Begun)
            BY <1>5 DEF Begun, Entered
        <2>4. ArgsOrder(stack', args')
            BY <1>5, <2>1, <2>2 DEF ArgsInv, ArgsOrder, Onward
        <2>5. exit' # 1 => UpTo(stack', args', archived')
            BY <1>3, <1>5, <2>3 DEF UpTo, Onward
        <2> QED BY <2>4, <2>5 DEF ArgsInv
    <1>6. CASE /\ Archives(stack, stack') /\ UNCHANGED args
               /\ archived' = Append(archived, stack[Len(stack)].node)
        <2> USE DEF Archives, Changes
        <2>1. stack # << >> /\ (Len(stack) = 1 \/ 1 \in 1..Len(stack) - 1)
            BY <1>1, <1>6 DEF CmdTyped, Framed
        <2>2. stack'[1].node = stack[1].node
            BY <1>6, <2>1
        <2>3. ArgsOrder(stack', args')
            BY <1>6, <2>1, <2>2 DEF ArgsInv, ArgsOrder
        <2>4. /\ Len(archived') = Len(archived) + 1
              /\ archived'[Len(archived) + 1] = stack[Len(stack)].node
              /\ \A j \in 1..Len(archived) : archived'[j] = archived[j]
            BY <1>6, <2>1, TopFacts, AppendFacts DEF CmdTyped, Top
        <2>5. /\ \A n \in Nodes : Archived(archived, n) => Archived(archived', n)
              /\ Archived(archived', stack[Len(stack)].node)
            BY <1>1, <2>4 DEF Archived
        <2>6. exit' # 1 => UpTo(stack', args', archived')
            <3> SUFFICES ASSUME exit' # 1, NEW i \in 1..Taken(args)
                         PROVE  Archived(archived', Args[i])
                BY <1>6 DEF UpTo
            <3>1. i \in 1..Len(Args) /\ Args[i] \in Nodes
                BY <1>1, TreeAssumption DEF Taken
            <3>2. CASE Archived(archived, Args[i])
                BY <2>5, <3>1, <3>2
            <3>3. CASE i = Taken(args) /\ Len(stack) = 1
                <4>1. stack[1].node = Args[i]
                    BY <2>1, <3>3 DEF ArgsInv, ArgsOrder
                <4> QED BY <2>5, <3>3, <4>1
            <3> QED BY <1>3, <3>2, <3>3 DEF UpTo
        <2> QED BY <2>3, <2>6 DEF ArgsInv
    <1>7. CASE Begins
        <2>1. /\ stack = << >> /\ args # << >> /\ args' = Tail(args) /\ archived' = archived
              /\ stack' = <<Frame(Head(args))>> /\ args \in Seq(Nodes)
            BY <1>7 DEF Begins, CmdTyped
        <2>2. /\ Len(args') = Len(args) - 1 /\ Head(args) = args[1] /\ 1 \in 1..Len(args)
              /\ \A i \in 1..Len(args') : i + 1 \in 1..Len(args) /\ args'[i] = args[i + 1]
            BY <2>1
        <2>3. Taken(args') = Taken(args) + 1 /\ Taken(args) >= 0
            BY <1>1, <2>2 DEF Taken, ArgsInv, ArgsOrder
        <2>4. stack'[1].node = Head(args) /\ stack'[1].step = "stat" /\ Len(stack') = 1
            BY <2>1 DEF Frame
        <2>5. ArgsOrder(stack', args')
            <3>1. Args[Taken(args) + 1] = args[1]
                BY <2>2 DEF ArgsInv, ArgsOrder
            <3>2. ASSUME NEW i \in 1..Len(args') PROVE args'[i] = Args[Taken(args') + i]
                <4>1. args'[i] = Args[Taken(args) + (i + 1)]
                    BY <2>2 DEF ArgsInv, ArgsOrder
                <4>2. Taken(args) + (i + 1) = Taken(args') + i
                    BY <1>1, <1>2, <2>3
                <4> QED BY <4>1, <4>2
            <3>3. Len(args') <= Len(Args)
                BY <1>1, <2>2 DEF ArgsInv, ArgsOrder
            <3>4. Taken(args') >= 1
                BY <1>1, <2>3
            <3> QED BY <2>2, <2>3, <2>4, <3>1, <3>2, <3>3, <3>4 DEF ArgsOrder
        <2>6. exit' # 1 => UpTo(stack', args', archived')
            <3> SUFFICES ASSUME exit' # 1, NEW i \in 1..Taken(args'), i # Taken(args')
                         PROVE  Archived(archived', Args[i])
                BY <2>4 DEF UpTo, Begun
            <3>1. i \in 1..Taken(args)
                BY <1>1, <2>3
            <3>2. Len(stack) # 1
                BY <2>1
            <3> QED BY <1>3, <2>1, <3>1, <3>2 DEF UpTo
        <2> QED BY <2>5, <2>6 DEF ArgsInv
    <1> QED BY <1>4, <1>5, <1>6, <1>7, StackStep

(***************************************************************************)
(* What holds of every run                                                 *)
(***************************************************************************)
LEMMA CmdTypedInit == CmdInit => CmdTyped
    BY TreeAssumption DEF CmdInit, CmdTyped, Framed, Running

LEMMA CmdTypedStep == CmdTyped /\ [CmdNext]_allVars => CmdTyped'
    BY StackStep

(* The command's state and the writer's have their types.                  *)
THEOREM CreateTypeCorrect == CmdSpec => []CmdTypeOK
    <1>1. CmdInit => TypeInv /\ CmdTyped
        BY CmdTypedInit, TypeInit DEF CmdInit
    <1>2. (TypeInv /\ CmdTyped) /\ [CmdNext]_allVars => (TypeInv /\ CmdTyped)'
        BY SimulatesWriter, TypeStep, CmdTypedStep
    <1>3. TypeInv /\ CmdTyped => CmdTypeOK
        BY TypeInvIsType DEF CmdTypeOK, CmdTyped, Framed, FrameType
    <1> QED BY <1>1, <1>2, <1>3, PTL DEF CmdSpec

(* The walk as it is in the middle of its work.                            *)
WalkInv ==
    CmdTyped /\ Walk(stack, args, archived) /\ Parents(archived) /\ Contiguous(archived)

LEMMA WalkInit ==
    ASSUME Forest, CmdInit
    PROVE  WalkInv
    <1>1. stack = << >> /\ args = Args /\ archived = << >> /\ CmdTyped
        BY CmdTypedInit DEF CmdInit
    <1>2. Descends(<< >>) /\ Fresh(<< >>, << >>) /\ Inside(<< >>, << >>)
        BY DEF Descends, Fresh, Inside
    <1>3. ArgsFresh(<< >>, Args, << >>)
        BY ArgsApart DEF ArgsFresh
    <1>4. Parents(<< >>) /\ Contiguous(<< >>)
        BY DEF Parents, Contiguous
    <1> QED BY <1>1, <1>2, <1>3, <1>4, TreeAssumption DEF WalkInv, Walk

LEMMA WalkStep ==
    ASSUME Forest, WalkInv, [CmdNext]_allVars
    PROVE  WalkInv'
    <1>1. /\ CmdTyped /\ Walk(stack, args, archived) /\ Parents(archived)
          /\ Contiguous(archived) /\ stack \in Seq(FrameType)
        BY DEF WalkInv, CmdTyped, Framed
    <1>2. CmdTyped' /\ stack' \in Seq(FrameType)
        BY <1>1, StackStep DEF CmdTyped, Framed
    <1>3. CASE Onward /\ GoesOn(stack, stack')
        <2>1. Walk(stack', args, archived)
            BY <1>1, <1>2, <1>3, WalkGoesOn
        <2> QED BY <1>1, <1>2, <1>3, <2>1 DEF Onward, WalkInv
    <1>4. CASE Onward /\ (Lists(stack, stack') \/ Enters(stack, stack'))
        <2>1. Walk(stack', args, archived)
            BY <1>1, <1>2, <1>4, WalkLists, WalkEnters
        <2> QED BY <1>1, <1>2, <1>4, <2>1 DEF Onward, WalkInv
    <1>5. CASE /\ Archives(stack, stack') /\ UNCHANGED args
               /\ archived' = Append(archived, stack[Len(stack)].node)
        <2>1. Walk(stack', args, archived') /\ Parents(archived') /\ Contiguous(archived')
            BY <1>1, <1>2, <1>5, WalkArchives
        <2> QED BY <1>2, <1>5, <2>1 DEF WalkInv
    <1>6. CASE Begins
        <2>1. Walk(stack', args', archived')
            BY <1>1, <1>6, WalkBegins DEF Begins
        <2> QED BY <1>1, <1>2, <1>6, <2>1 DEF Begins, WalkInv
    <1> QED BY <1>1, <1>3, <1>4, <1>5, <1>6, StackStep

(* What the walk has done and what it still has before it fit together, as *)
(* the walk needs for what it archives next, at every step.                *)
THEOREM WalkCorrect == ASSUME Forest PROVE CmdSpec => []WalkInv
    <1>1. CmdInit => WalkInv
        BY WalkInit
    <1>2. WalkInv /\ [CmdNext]_allVars => WalkInv'
        BY WalkStep
    <1> QED BY <1>1, <1>2, PTL DEF CmdSpec

(* In a file system that is a tree, no entry of the archive precedes the   *)
(* directory it is in and none is archived twice, whatever fails.          *)
THEOREM ParentsFirstTheorem == ASSUME Forest PROVE CmdSpec => []ParentsFirst
    <1>1. WalkInv => ParentsFirst
        BY DEF WalkInv, Parents, ParentsFirst
    <1> QED BY <1>1, WalkCorrect, PTL

(* In a file system that is a tree, everything archived between two        *)
(* entries of a directory is itself in that directory.                     *)
THEOREM SubtreesTheorem == ASSUME Forest PROVE CmdSpec => []SubtreesContiguous
    <1>1. WalkInv => SubtreesContiguous
        BY DEF WalkInv, Contiguous, SubtreesContiguous
    <1> QED BY <1>1, WalkCorrect, PTL

(* The archive is sealed only after every argument was archived, and the   *)
(* exit status says whether it was sealed.                                 *)
THEOREM ArgumentsTheorem == CmdSpec => []ArgumentsArchived
    <1> DEFINE AllInv == CmdTyped /\ Calls /\ ArgsInv
    <1>1. CmdInit => AllInv
        <2> SUFFICES ASSUME CmdInit PROVE AllInv
            OBVIOUS
        <2>1. /\ CmdTyped /\ stack = << >> /\ args = Args /\ archived = << >>
              /\ exit = Running /\ pc = "ready"
            BY CmdTypedInit DEF CmdInit, Init
        <2>2. Len(Args) \in Nat
            BY TreeAssumption
        <2>3. Taken(Args) = 0
            BY <2>2 DEF Taken
        <2>4. ArgsInv
            BY <2>1, <2>2, <2>3 DEF ArgsInv, ArgsOrder, UpTo
        <2> QED BY <2>1, <2>4 DEF Calls, WriteSteps, Running
    <1>2. AllInv /\ [CmdNext]_allVars => AllInv'
        BY CmdTypedStep, CallsStep, ArgsStep
    <1>3. AllInv => ArgumentsArchived
        <2> SUFFICES ASSUME AllInv PROVE ArgumentsArchived
            OBVIOUS
        <2>1. exit = 1 => pc \in {"ready", "failed"}
            BY DEF Calls
        <2>2. ASSUME pc \in FinishSteps \cup {"done"}, NEW i \in 1..Len(Args)
              PROVE  \E j \in 1..Len(archived) : archived[j] = Args[i]
            <3>1. pc \notin WriteSteps \cup {"ready"} /\ exit # 1
                BY <2>1, <2>2 DEF FinishSteps, WriteSteps
            <3>2. args = << >> /\ stack = << >>
                BY <3>1 DEF Calls
            <3>3. Taken(args) = Len(Args) /\ Len(stack) = 0
                BY <3>2, TreeAssumption DEF Taken
            <3> QED BY <2>2, <3>1, <3>3 DEF ArgsInv, UpTo, Archived
        <2> QED BY <2>1, <2>2 DEF ArgumentsArchived, Calls
    <1> HIDE DEF AllInv
    <1> QED BY <1>1, <1>2, <1>3, PTL DEF CmdSpec
=============================================================================
