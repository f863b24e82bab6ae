-------------------------- MODULE CmdConvertProofs --------------------------
(***************************************************************************)
(* Theorems about CmdConvert: what `scar convert` makes of a complete tar, *)
(* wherever the input ends and whatever fails.                             *)
(***************************************************************************)
EXTENDS CmdConvert, SequenceTheorems, WellFoundedInduction, TLAPS

(***************************************************************************)
(* Numbers                                                                 *)
(***************************************************************************)
LEMMA Induction ==
    ASSUME NEW T, 0 \in T, \A n \in Nat : n \in T => n + 1 \in T
    PROVE  Nat \subseteq T
    <1> DEFINE S == OpToRel(<, Nat)
               U == Nat \ T
    <1>1. IsWellFoundedOn(S, Nat)
        BY NatLessThanWellFounded
    <1>2. ASSUME NEW x \in Nat, NEW y \in Nat, y < x PROVE <<y, x>> \in S
        BY <1>2 DEF OpToRel
    <1> HIDE DEF S
    <1>3. SUFFICES ASSUME U # {} PROVE FALSE
        OBVIOUS
    <1>4. PICK x \in U : \A y \in U : ~(<<y, x>> \in S)
        <2>1. U \in SUBSET Nat
            OBVIOUS
        <2> HIDE DEF U
        <2> QED BY <1>1, <1>3, <2>1, WFMin
    <1>5. x \in Nat /\ x # 0 /\ x - 1 \in Nat
        BY <1>4
    <1>6. x - 1 \notin U
        <2>1. x - 1 < x
            BY <1>5
        <2>2. <<x - 1, x>> \in S
            BY <1>2, <1>5, <2>1
        <2> QED BY <1>4, <2>2
    <1> QED BY <1>4, <1>5, <1>6

(* Payloads end where a block does.                                        *)
LEMMA AlignedFacts ==
    ASSUME NEW n \in Nat
    PROVE  /\ Aligned(n) \in Nat /\ n <= Aligned(n) /\ Aligned(n) < n + Block
           /\ n = 0 => Aligned(n) = 0
           /\ 0 < n /\ n <= Block => Aligned(n) = Block
           /\ n >= Block => Aligned(n) = Block + Aligned(n - Block)
    <1>1. Block \in Nat /\ Block > 0
        BY BlockAssumption
    <1>2. ASSUME NEW x \in Nat
          PROVE  /\ x \div Block \in Nat /\ Block * (x \div Block) \in Nat
                 /\ Block * (x \div Block) <= x /\ x < Block * (x \div Block) + Block
        BY <1>1
    <1>3. ASSUME NEW x \in Nat
          PROVE  (x + Block) \div Block = x \div Block + 1
        BY <1>1
    <1>4. n + Block - 1 \in Nat
        BY <1>1
    <1>5. /\ Aligned(n) \in Nat /\ Aligned(n) <= n + Block - 1
          /\ n + Block - 1 < Aligned(n) + Block
        BY <1>2, <1>4 DEF Aligned
    <1>6. n = 0 => Aligned(n) = 0
        <2>1. (Block - 1) \div Block = 0
            BY <1>1
        <2> QED BY <1>1, <2>1 DEF Aligned
    <1>7. 0 < n /\ n <= Block => Aligned(n) = Block
        <2>1. CASE 0 < n /\ n <= Block
            <3>1. n - 1 \in Nat /\ n - 1 < Block /\ n + Block - 1 = (n - 1) + Block
                BY <1>1, <2>1
            <3>2. (n - 1) \div Block = 0
                BY <1>1, <3>1
            <3>3. (n + Block - 1) \div Block = 1
                BY <1>3, <3>1, <3>2
            <3> QED BY <1>1, <3>3 DEF Aligned
        <2> QED BY <2>1
    <1>8. n >= Block => Aligned(n) = Block + Aligned(n - Block)
        <2> SUFFICES ASSUME n >= Block PROVE Aligned(n) = Block + Aligned(n - Block)
            OBVIOUS
        <2> DEFINE x == n - Block + Block - 1
        <2>1. x \in Nat /\ n + Block - 1 = x + Block
            BY <1>1
        <2>2. x \div Block \in Nat /\ (n + Block - 1) \div Block = x \div Block + 1
            BY <1>2, <1>3, <2>1
        <2>3. Aligned(n - Block) = Block * (x \div Block)
            BY DEF Aligned
        <2> HIDE DEF x
        <2>4. Aligned(n) = Block * (x \div Block + 1)
            BY <2>2 DEF Aligned
        <2> QED BY <1>1, <2>2, <2>3, <2>4
    <1> QED BY <1>1, <1>5, <1>6, <1>7, <1>8

(***************************************************************************)
(* Sequences                                                               *)
(***************************************************************************)
LEMMA SequenceFacts ==
    ASSUME NEW s, IsSequence(s)
    PROVE  /\ Len(s) \in Nat /\ s \in Seq({s[i] : i \in 1..Len(s)})
           /\ DOMAIN s = 1..Len(s)
           /\ s = << >> <=> Len(s) = 0
    BY DEF IsSequence

LEMMA SeqIsSequence ==
    ASSUME NEW S, NEW s \in Seq(S)
    PROVE  IsSequence(s)
    BY DEF IsSequence

LEMMA InSeq ==
    ASSUME NEW S, NEW s, IsSequence(s), \A i \in 1..Len(s) : s[i] \in S
    PROVE  s \in Seq(S)
    BY DEF IsSequence

LEMMA ConcatFacts ==
    ASSUME NEW a, NEW b, IsSequence(a), IsSequence(b)
    PROVE  /\ IsSequence(a \o b) /\ Len(a \o b) = Len(a) + Len(b)
           /\ \A i \in 1..Len(a) : (a \o b)[i] = a[i]
           /\ \A i \in 1..Len(b) : (a \o b)[Len(a) + i] = b[i]
    <1> DEFINE S == {a[i] : i \in 1..Len(a)} \cup {b[i] : i \in 1..Len(b)}
    <1>1. a \in Seq(S) /\ b \in Seq(S)
        BY InSeq
    <1> HIDE DEF S
    <1>2. a \o b \in Seq(S) /\ Len(a \o b) = Len(a) + Len(b)
        BY <1>1
    <1>3. \A i \in 1..Len(a) : (a \o b)[i] = a[i]
        BY <1>1, ConcatProperties
    <1>4. \A i \in 1..Len(b) : (a \o b)[Len(a) + i] = b[i]
        BY <1>1, ConcatProperties
    <1> QED BY <1>2, <1>3, <1>4, SeqIsSequence

LEMMA AppendFacts ==
    ASSUME NEW s, IsSequence(s), NEW e
    PROVE  /\ IsSequence(Append(s, e)) /\ Len(Append(s, e)) = Len(s) + 1
           /\ Append(s, e)[Len(s) + 1] = e
           /\ \A i \in 1..Len(s) : Append(s, e)[i] = s[i]
    <1> DEFINE S == {s[i] : i \in 1..Len(s)} \cup {e}
    <1>1. s \in Seq(S) /\ e \in S
        BY InSeq
    <1> HIDE DEF S
    <1>2. /\ Append(s, e) \in Seq(S) /\ Len(Append(s, e)) = Len(s) + 1
          /\ Append(s, e)[Len(s) + 1] = e
          /\ \A i \in 1..Len(s) : Append(s, e)[i] = s[i]
        BY <1>1, AppendProperties
    <1> QED BY <1>2, SeqIsSequence

LEMMA SubSeqFacts ==
    ASSUME NEW s, IsSequence(s), NEW m \in Nat, NEW n \in Nat, m >= 1, n <= Len(s), n >= m - 1
    PROVE  /\ IsSequence(SubSeq(s, m, n)) /\ Len(SubSeq(s, m, n)) = n - m + 1
           /\ \A i \in 1..n - m + 1 : SubSeq(s, m, n)[i] = s[m + i - 1]
    <1> DEFINE S == {s[i] : i \in 1..Len(s)}
    <1>1. s \in Seq(S) /\ Len(s) \in Nat
        BY SequenceFacts
    <1>2. \A i \in m..n : s[i] \in S
        BY <1>1
    <1> HIDE DEF S
    <1>3. /\ SubSeq(s, m, n) \in Seq(S)
          /\ Len(SubSeq(s, m, n)) = IF m <= n THEN n - m + 1 ELSE 0
          /\ \A i \in 1..n - m + 1 : SubSeq(s, m, n)[i] = s[m + i - 1]
        BY <1>1, <1>2, SubSeqProperties
    <1>4. Len(SubSeq(s, m, n)) = n - m + 1
        BY <1>1, <1>3
    <1> QED BY <1>3, <1>4, SeqIsSequence

LEMMA SameSequence ==
    ASSUME NEW a, NEW b, IsSequence(a), IsSequence(b), Len(a) = Len(b),
           \A i \in 1..Len(a) : a[i] = b[i]
    PROVE  a = b
    BY DEF IsSequence

(***************************************************************************)
(* Metadata                                                                *)
(***************************************************************************)
IsMeta(m) == m = [key \in DOMAIN m |-> m[key]]

LEMMA OverFacts ==
    ASSUME NEW m, NEW b
    PROVE  /\ IsMeta(Over(m, b)) /\ DOMAIN Over(m, b) = DOMAIN m \cup DOMAIN b
           /\ \A key \in DOMAIN m : Over(m, b)[key] = m[key]
           /\ \A key \in DOMAIN b \ DOMAIN m : Over(m, b)[key] = b[key]
    BY DEF IsMeta, Over

LEMMA SetFacts ==
    ASSUME NEW m, NEW k, NEW v
    PROVE  /\ IsMeta(Set(k, v, m)) /\ DOMAIN Set(k, v, m) = DOMAIN m \cup {k}
           /\ Set(k, v, m)[k] = v
           /\ \A key \in DOMAIN m \ {k} : Set(k, v, m)[key] = m[key]
    BY DEF IsMeta, Set

LEMMA SameMeta ==
    ASSUME NEW a, NEW b, IsMeta(a), IsMeta(b), DOMAIN a = DOMAIN b,
           \A key \in DOMAIN a : a[key] = b[key]
    PROVE  a = b
    BY DEF IsMeta

LEMMA NoMetaFacts == IsMeta(NoMeta) /\ DOMAIN NoMeta = {}
    BY DEF IsMeta, NoMeta

LEMMA OverNone ==
    ASSUME NEW m, IsMeta(m)
    PROVE  Over(NoMeta, m) = m /\ Over(m, NoMeta) = m
    <1>1. DOMAIN NoMeta \cup DOMAIN m = DOMAIN m /\ DOMAIN m \cup DOMAIN NoMeta = DOMAIN m
        BY NoMetaFacts
    <1>2. Over(NoMeta, m) = [key \in DOMAIN m |-> m[key]]
        BY <1>1, NoMetaFacts DEF Over
    <1>3. Over(m, NoMeta) = [key \in DOMAIN m |-> m[key]]
        BY <1>1, NoMetaFacts DEF Over
    <1> QED BY <1>2, <1>3 DEF IsMeta

LEMMA OverAssociative ==
    ASSUME NEW a, NEW b, NEW c
    PROVE  Over(Over(a, b), c) = Over(a, Over(b, c))
    BY DEF Over

LEMMA OverSet ==
    ASSUME NEW m, NEW b, NEW k, NEW v
    PROVE  Over(Set(k, v, m), b) = Set(k, v, Over(m, b))
    BY DEF Over, Set

(***************************************************************************)
(* Functions by recursion: they satisfy their equations                    *)
(***************************************************************************)
LEMMA InterpretationFacts ==
    ASSUME NEW t, Len(t) \in Nat
    PROVE  /\ Interpretation(t)[0] = Nothing
           /\ \A n \in 1..Len(t) : Interpretation(t)[n] = Interpret(Interpretation(t)[n - 1], t[n])
    <1> DEFINE F(n, f) == f = [k \in 0..n |-> IF k = 0 THEN Nothing ELSE Interpret(f[k - 1], t[k])]
               T == {n \in Nat : \E f : F(n, f)}
    <1>1. 0 \in T
        <2> DEFINE f == [k \in 0..0 |-> Nothing]
        <2>1. F(0, f)
            OBVIOUS
        <2> QED BY <2>1
    <1>2. ASSUME NEW n \in Nat, n \in T PROVE n + 1 \in T
        <2>1. PICK f : F(n, f)
            BY <1>2
        <2> DEFINE g == [k \in 0..n + 1 |-> IF k = n + 1 THEN Interpret(f[n], t[n + 1]) ELSE f[k]]
        <2>2. \A k \in 0..n : g[k] = f[k] /\ (k # 0 => k - 1 \in 0..n)
            OBVIOUS
        <2>3. \A k \in 0..n : f[k] = IF k = 0 THEN Nothing ELSE Interpret(f[k - 1], t[k])
            BY <2>1
        <2>4. ASSUME NEW k \in 0..n + 1
              PROVE  g[k] = IF k = 0 THEN Nothing ELSE Interpret(g[k - 1], t[k])
            <3>1. CASE k = n + 1
                BY <2>2, <3>1
            <3>2. CASE k # n + 1
                <4>1. k \in 0..n
                    BY <3>2
                <4> QED BY <2>2, <2>3, <4>1
            <3> QED BY <3>1, <3>2
        <2>5. F(n + 1, g)
            BY <2>4
        <2> HIDE DEF g, F
        <2> QED BY <2>5
    <1>3. Len(t) \in T
        <2> HIDE DEF T
        <2> QED BY <1>1, <1>2, Induction
    <1>4. PICK f : F(Len(t), f)
        BY <1>3
    <1>5. F(Len(t), Interpretation(t))
        BY <1>4 DEF Interpretation
    <1> HIDE DEF T
    <1> QED BY <1>5

LEMMA ParseSteps ==
    ASSUME NEW m, NEW r, Len(r) \in Nat
    PROVE  \E f : /\ f[0] = m /\ Parse(m, r) = f[Len(r)]
                /\ \A n \in 1..Len(r) : f[n] = ParseOne(f[n - 1], r[n])
    <1> DEFINE F(n, f) == f = [k \in 0..n |-> IF k = 0 THEN m ELSE ParseOne(f[k - 1], r[k])]
               T == {n \in Nat : \E f : F(n, f)}
    <1>1. 0 \in T
        <2> DEFINE f == [k \in 0..0 |-> m]
        <2>1. F(0, f)
            OBVIOUS
        <2> QED BY <2>1
    <1>2. ASSUME NEW n \in Nat, n \in T PROVE n + 1 \in T
        <2>1. PICK f : F(n, f)
            BY <1>2
        <2> DEFINE g == [j \in 0..n + 1 |->
                            IF j = n + 1 THEN ParseOne(f[n], r[n + 1]) ELSE f[j]]
        <2>2. \A k \in 0..n : g[k] = f[k] /\ (k # 0 => k - 1 \in 0..n)
            OBVIOUS
        <2>3. \A k \in 0..n : f[k] = IF k = 0 THEN m ELSE ParseOne(f[k - 1], r[k])
            BY <2>1
        <2>4. ASSUME NEW k \in 0..n + 1
              PROVE  g[k] = IF k = 0 THEN m ELSE ParseOne(g[k - 1], r[k])
            <3>1. CASE k = n + 1
                BY <2>2, <3>1
            <3>2. CASE k # n + 1
                <4>1. k \in 0..n
                    BY <3>2
                <4> QED BY <2>2, <2>3, <4>1
            <3> QED BY <3>1, <3>2
        <2>5. F(n + 1, g)
            BY <2>4
        <2> HIDE DEF g, F
        <2> QED BY <2>5
    <1>3. Len(r) \in T
        <2> HIDE DEF T
        <2> QED BY <1>1, <1>2, Induction
    <1> DEFINE p == CHOOSE f : F(Len(r), f)
    <1>4. F(Len(r), p)
        BY <1>3
    <1>5. Parse(m, r) = p[Len(r)]
        BY DEF Parse
    <1> HIDE DEF T, p
    <1> QED BY <1>4, <1>5

LEMMA RecordsSteps ==
    ASSUME NEW m
    PROVE  \E f : /\ f[0] = << >> /\ Records(m) = f[Len(RecordOrder)]
                /\ \A k \in 1..Len(RecordOrder) :
                     f[k] = AddRecord(m, f[k - 1], RecordOrder[k])
    <1> DEFINE F(n, f) ==
                 f = [k \in 0..n |->
                        IF k = 0 THEN << >> ELSE AddRecord(m, f[k - 1], RecordOrder[k])]
               T == {n \in Nat : \E f : F(n, f)}
    <1>1. 0 \in T
        <2> DEFINE f == [k \in 0..0 |-> << >>]
        <2>1. F(0, f)
            OBVIOUS
        <2> QED BY <2>1
    <1>2. ASSUME NEW n \in Nat, n \in T PROVE n + 1 \in T
        <2>1. PICK f : F(n, f)
            BY <1>2
        <2> DEFINE g == [j \in 0..n + 1 |->
                            IF j = n + 1 THEN AddRecord(m, f[n], RecordOrder[n + 1]) ELSE f[j]]
        <2>2. \A k \in 0..n : g[k] = f[k] /\ (k # 0 => k - 1 \in 0..n)
            OBVIOUS
        <2>3. \A k \in 0..n :
                  f[k] = IF k = 0 THEN << >> ELSE AddRecord(m, f[k - 1], RecordOrder[k])
            BY <2>1
        <2>4. ASSUME NEW k \in 0..n + 1
              PROVE  g[k] = IF k = 0 THEN << >> ELSE AddRecord(m, g[k - 1], RecordOrder[k])
            <3>1. CASE k = n + 1
                BY <2>2, <3>1
            <3>2. CASE k # n + 1
                <4>1. k \in 0..n
                    BY <3>2
                <4> QED BY <2>2, <2>3, <4>1
            <3> QED BY <3>1, <3>2
        <2>5. F(n + 1, g)
            BY <2>4
        <2> HIDE DEF g, F
        <2> QED BY <2>5
    <1>3. Len(RecordOrder) \in T
        <2>1. Len(RecordOrder) \in Nat
            BY DEF RecordOrder
        <2> HIDE DEF T
        <2> QED BY <1>1, <1>2, <2>1, Induction
    <1> DEFINE p == CHOOSE f : F(Len(RecordOrder), f)
    <1>4. F(Len(RecordOrder), p)
        BY <1>3
    <1>5. Records(m) = p[Len(RecordOrder)]
        BY DEF Records
    <1>6. Len(RecordOrder) \in Nat
        BY DEF RecordOrder
    <1> HIDE DEF T, p
    <1>7. /\ p[0] = << >>
          /\ \A k \in 1..Len(RecordOrder) : p[k] = AddRecord(m, p[k - 1], RecordOrder[k])
        BY <1>4, <1>6
    <1> QED BY <1>5, <1>7

LEMMA FlatSteps ==
    ASSUME NEW t, Len(t) \in Nat
    PROVE  /\ Flat(t)[0] = << >>
           /\ \A n \in 1..Len(t) : Flat(t)[n] = Flat(t)[n - 1] \o Cells(t[n])
    <1> DEFINE F(n, f) == f = [k \in 0..n |-> IF k = 0 THEN << >> ELSE f[k - 1] \o Cells(t[k])]
               T == {n \in Nat : \E f : F(n, f)}
    <1>1. 0 \in T
        <2> DEFINE f == [k \in 0..0 |-> << >>]
        <2>1. F(0, f)
            OBVIOUS
        <2> QED BY <2>1
    <1>2. ASSUME NEW n \in Nat, n \in T PROVE n + 1 \in T
        <2>1. PICK f : F(n, f)
            BY <1>2
        <2> DEFINE g == [j \in 0..n + 1 |->
                            IF j = n + 1 THEN f[n] \o Cells(t[n + 1]) ELSE f[j]]
        <2>2. \A k \in 0..n : g[k] = f[k] /\ (k # 0 => k - 1 \in 0..n)
            OBVIOUS
        <2>3. \A k \in 0..n : f[k] = IF k = 0 THEN << >> ELSE f[k - 1] \o Cells(t[k])
            BY <2>1
        <2>4. ASSUME NEW k \in 0..n + 1
              PROVE  g[k] = IF k = 0 THEN << >> ELSE g[k - 1] \o Cells(t[k])
            <3>1. CASE k = n + 1
                BY <2>2, <3>1
            <3>2. CASE k # n + 1
                <4>1. k \in 0..n
                    BY <3>2
                <4> QED BY <2>2, <2>3, <4>1
            <3> QED BY <3>1, <3>2
        <2>5. F(n + 1, g)
            BY <2>4
        <2> HIDE DEF g, F
        <2> QED BY <2>5
    <1>3. Len(t) \in T
        <2> HIDE DEF T
        <2> QED BY <1>1, <1>2, Induction
    <1>4. PICK f : F(Len(t), f)
        BY <1>3
    <1>5. F(Len(t), Flat(t))
        BY <1>4 DEF Flat
    <1> HIDE DEF T
    <1> QED BY <1>5

(***************************************************************************)
(* Records                                                                 *)
(***************************************************************************)
LEMMA LastFacts ==
    ASSUME NEW r, IsSequence(r), NEW i \in 1..Len(r)
    PROVE  LET l == LastOf(r, r[i].key) IN
           /\ l \in 1..Len(r) /\ r[l].key = r[i].key
           /\ \A j \in l + 1..Len(r) : r[j].key # r[i].key
    <1> DEFINE key == r[i].key
               Last(n, l) == l \in 1..n /\ r[l].key = key /\ \A j \in l + 1..n : r[j].key # key
               T == {n \in Nat : i <= n => \E l \in 1..n : Last(n, l)}
    <1>1. Len(r) \in Nat /\ i \in Nat /\ i >= 1
        BY SequenceFacts
    <1>2. 0 \in T
        BY <1>1
    <1>3. ASSUME NEW n \in Nat, n \in T PROVE n + 1 \in T
        <2>1. CASE n + 1 < i
            BY <1>1, <2>1
        <2>2. CASE n + 1 >= i /\ r[n + 1].key = key
            <3>1. n + 1 \in 1..n + 1 /\ Last(n + 1, n + 1)
                BY <2>2
            <3> QED BY <3>1
        <2>3. CASE n + 1 >= i /\ r[n + 1].key # key
            <3>1. i <= n
                BY <1>1, <2>3
            <3>2. PICK l \in 1..n : Last(n, l)
                BY <1>3, <3>1
            <3>3. l \in 1..n + 1 /\ Last(n + 1, l)
                BY <2>3, <3>2
            <3> HIDE DEF Last
            <3> QED BY <3>3
        <2> QED BY <1>1, <2>1, <2>2, <2>3
    <1>4. Len(r) \in T
        <2> HIDE DEF T
        <2> QED BY <1>1, <1>2, <1>3, Induction
    <1>5. PICK l \in 1..Len(r) : Last(Len(r), l)
        BY <1>1, <1>4
    <1> QED BY <1>5 DEF LastOf

(* Records as metadata: of each key the last value.                        *)
LEMMA OverlayFacts ==
    ASSUME NEW r
    PROVE  /\ IsMeta(Overlay(r))
           /\ DOMAIN Overlay(r) = RecordKeys \cap {r[i].key : i \in 1..Len(r)}
           /\ \A key \in DOMAIN Overlay(r) : Overlay(r)[key] = r[LastOf(r, key)].value
    BY DEF IsMeta, Overlay

(* Records that override each other one by one are what the last of each   *)
(* key says.                                                               *)
LEMMA ParseOver ==
    ASSUME NEW m, IsMeta(m), NEW r, IsSequence(r), \A i \in 1..Len(r) : ~SignLost(r[i])
    PROVE  Parse(m, r) = Over(Overlay(r), m)
    <1>1. PICK f : /\ f[0] = m /\ Parse(m, r) = f[Len(r)]
                   /\ \A n \in 1..Len(r) : f[n] = ParseOne(f[n - 1], r[n])
        BY ParseSteps, SequenceFacts
    <1> DEFINE Keys(n) == RecordKeys \cap {r[i].key : i \in 1..n}
               P(n) == /\ IsMeta(f[n]) /\ DOMAIN f[n] = DOMAIN m \cup Keys(n)
                       /\ \A key \in DOMAIN m \ Keys(n) : f[n][key] = m[key]
                       /\ \A i \in 1..n :
                            r[i].key \in RecordKeys /\ (\A j \in i + 1..n : r[j].key # r[i].key)
                              => f[n][r[i].key] = r[i].value
               T == {n \in Nat : n <= Len(r) => P(n)}
    <1>2. 0 \in T
        BY <1>1
    <1>3. ASSUME NEW n \in Nat, n \in T PROVE n + 1 \in T
        <2> HIDE DEF P
        <2> SUFFICES ASSUME n + 1 <= Len(r) PROVE P(n + 1)
            OBVIOUS
        <2>1. Len(r) \in Nat /\ n + 1 \in 1..Len(r) /\ n <= Len(r)
            BY SequenceFacts
        <2>2. P(n) /\ f[n + 1] = ParseOne(f[n], r[n + 1])
            BY <1>1, <1>3, <2>1
        <2> USE DEF P
        <2> DEFINE k == r[n + 1].key
        <2>3. \A i \in 1..n + 1 : i = n + 1 \/ i \in 1..n
            OBVIOUS
        <2>4. Keys(n + 1) = Keys(n) \cup ({k} \cap RecordKeys)
            BY <2>3
        <2>5. CASE k \notin RecordKeys
            <3>1. f[n + 1] = f[n]
                BY <2>2, <2>5 DEF ParseOne
            <3>2. Keys(n + 1) = Keys(n)
                BY <2>4, <2>5
            <3>3. ASSUME NEW i \in 1..n + 1, r[i].key \in RecordKeys,
                         \A j \in i + 1..n + 1 : r[j].key # r[i].key
                  PROVE  f[n + 1][r[i].key] = r[i].value
                <4>1. i \in 1..n
                    BY <2>3, <2>5, <3>3
                <4>2. \A j \in i + 1..n : r[j].key # r[i].key
                    BY <3>3
                <4> QED BY <2>2, <3>1, <3>3, <4>1, <4>2
            <3> QED BY <2>2, <3>1, <3>2, <3>3
        <2>6. CASE k \in RecordKeys
            <3>1. f[n + 1] = Set(k, r[n + 1].value, f[n])
                BY <2>1, <2>2, <2>6 DEF ParseOne, ParsedValue
            <3>2. /\ IsMeta(f[n + 1]) /\ DOMAIN f[n + 1] = DOMAIN f[n] \cup {k}
                  /\ f[n + 1][k] = r[n + 1].value
                  /\ \A key \in DOMAIN f[n] \ {k} : f[n + 1][key] = f[n][key]
                <4> DEFINE g == f[n]
                           v == r[n + 1].value
                <4> HIDE DEF P, T, Keys, k, g, v
                <4>1. f[n + 1] = Set(k, v, g)
                    BY <3>1 DEF g, v
                <4>2. /\ IsMeta(f[n + 1]) /\ DOMAIN f[n + 1] = DOMAIN g \cup {k}
                      /\ f[n + 1][k] = v
                      /\ \A key \in DOMAIN g \ {k} : f[n + 1][key] = g[key]
                    <5> DEFINE h == Set(k, v, g)
                    <5>1. /\ IsMeta(h) /\ DOMAIN h = DOMAIN g \cup {k} /\ h[k] = v
                          /\ \A key \in DOMAIN g \ {k} : h[key] = g[key]
                        BY DEF Set, IsMeta, h
                    <5> HIDE DEF h
                    <5> QED BY <4>1, <5>1 DEF h
                <4> QED BY <4>2 DEF g, v
            <3>3. Keys(n + 1) = Keys(n) \cup {k}
                BY <2>4, <2>6
            <3>4. ASSUME NEW i \in 1..n + 1, r[i].key \in RecordKeys,
                         \A j \in i + 1..n + 1 : r[j].key # r[i].key
                  PROVE  f[n + 1][r[i].key] = r[i].value
                <4>1. CASE i = n + 1
                    BY <3>2, <4>1
                <4>2. CASE i \in 1..n
                    <5>1. n + 1 \in i + 1..n + 1
                        BY <4>2
                    <5>2. r[i].key # k /\ r[i].key \in DOMAIN f[n]
                        BY <2>2, <3>4, <4>2, <5>1
                    <5>3. \A j \in i + 1..n : r[j].key # r[i].key
                        BY <3>4
                    <5>4. f[n][r[i].key] = r[i].value
                        BY <2>2, <3>4, <4>2, <5>3
                    <5> QED BY <3>2, <5>2, <5>4
                <4> QED BY <2>3, <4>1, <4>2
            <3>5. \A key \in DOMAIN m \ Keys(n + 1) : f[n + 1][key] = m[key]
                BY <2>2, <3>2, <3>3
            <3> QED BY <2>2, <3>2, <3>3, <3>4, <3>5
        <2> QED BY <2>5, <2>6
    <1>4. Len(r) \in Nat /\ P(Len(r))
        <2>1. Len(r) \in Nat
            BY SequenceFacts
        <2>2. Len(r) \in T
            <3> HIDE DEF T
            <3> QED BY <1>2, <1>3, <2>1, Induction
        <2> QED BY <2>1, <2>2
    <1> DEFINE o == Over(Overlay(r), m)
    <1>5. /\ IsMeta(o) /\ DOMAIN o = DOMAIN m \cup Keys(Len(r))
          /\ \A key \in Keys(Len(r)) : o[key] = r[LastOf(r, key)].value
          /\ \A key \in DOMAIN m \ Keys(Len(r)) : o[key] = m[key]
        <2> DEFINE v == Overlay(r)
        <2>1. /\ DOMAIN v = Keys(Len(r))
              /\ \A key \in Keys(Len(r)) : v[key] = r[LastOf(r, key)].value
            BY OverlayFacts
        <2> HIDE DEF v, Keys
        <2>2. /\ IsMeta(Over(v, m)) /\ DOMAIN Over(v, m) = DOMAIN v \cup DOMAIN m
              /\ \A key \in DOMAIN v : Over(v, m)[key] = v[key]
              /\ \A key \in DOMAIN m \ DOMAIN v : Over(v, m)[key] = m[key]
            BY OverFacts
        <2>3. o = Over(v, m)
            BY DEF v
        <2> HIDE DEF o
        <2> QED BY <2>1, <2>2, <2>3
    <1>6. ASSUME NEW key \in DOMAIN o PROVE f[Len(r)][key] = o[key]
        <2>1. CASE key \in Keys(Len(r))
            <3>1. PICK i \in 1..Len(r) : key = r[i].key
                BY <2>1
            <3>2. /\ LastOf(r, key) \in 1..Len(r) /\ r[LastOf(r, key)].key = key
                  /\ \A j \in LastOf(r, key) + 1..Len(r) : r[j].key # key
                BY <3>1, LastFacts
            <3> QED BY <1>4, <1>5, <2>1, <3>2
        <2>2. CASE key \notin Keys(Len(r))
            BY <1>4, <1>5, <2>2
        <2> QED BY <2>1, <2>2
    <1> HIDE DEF o, Keys
    <1>7. f[Len(r)] = o
        BY <1>4, <1>5, <1>6, SameMeta
    <1> QED BY <1>1, <1>7 DEF o

LEMMA OrderFacts ==
    /\ Len(RecordOrder) = 12
    /\ \A k \in 1..12 : RecordOrder[k] \in RecordKeys
    /\ \A k, l \in 1..12 : k # l => RecordOrder[k] # RecordOrder[l]
    /\ \A key \in RecordKeys : \E k \in 1..12 : RecordOrder[k] = key
    <1> USE DEF RecordOrder, RecordKeys, TextFields, NumberFields, RecordOnly
    <1>1. Len(RecordOrder) = 12
        OBVIOUS
    <1>2. \A k \in 1..12 : \/ k = 1 \/ k = 2 \/ k = 3 \/ k = 4 \/ k = 5 \/ k = 6
                           \/ k = 7 \/ k = 8 \/ k = 9 \/ k = 10 \/ k = 11 \/ k = 12
        OBVIOUS
    <1>3. \A k \in 1..12 : RecordOrder[k] \in RecordKeys
        BY <1>2
    <1>4. \A k, l \in 1..12 : k # l => RecordOrder[k] # RecordOrder[l]
        BY <1>2
    <1>5. /\ RecordOrder[1] = "atime" /\ RecordOrder[2] = "charset" /\ RecordOrder[3] = "comment"
          /\ RecordOrder[4] = "gid" /\ RecordOrder[5] = "gname" /\ RecordOrder[6] = "hdrcharset"
          /\ RecordOrder[7] = "linkpath" /\ RecordOrder[8] = "mtime" /\ RecordOrder[9] = "path"
          /\ RecordOrder[10] = "size" /\ RecordOrder[11] = "uid" /\ RecordOrder[12] = "uname"
        OBVIOUS
    <1>6. \A key \in RecordKeys : \E k \in 1..12 : RecordOrder[k] = key
        <2> SUFFICES ASSUME NEW key \in RecordKeys PROVE \E k \in 1..12 : RecordOrder[k] = key
            OBVIOUS
        <2> HIDE DEF RecordOrder
        <2> QED BY <1>5
    <1> QED BY <1>1, <1>3, <1>4, <1>6

(* The extended header has a record for every key that needs one, and      *)
(* nothing else.                                                           *)
LEMMA RecordsFacts ==
    ASSUME NEW m
    PROVE  LET r == Records(m) IN
           /\ IsSequence(r)
           /\ \A i \in 1..Len(r) : /\ r[i].key \in RecordKeys /\ NeedsRecord(m, r[i].key)
                                   /\ r[i] = Record(r[i].key, WrittenValue(r[i].key, m[r[i].key]))
           /\ \A i, j \in 1..Len(r) : i # j => r[i].key # r[j].key
           /\ \A key \in RecordKeys : NeedsRecord(m, key) => \E i \in 1..Len(r) : r[i].key = key
    <1>1. PICK f : /\ f[0] = << >> /\ Records(m) = f[Len(RecordOrder)]
                   /\ \A k \in 1..Len(RecordOrder) :
                        f[k] = AddRecord(m, f[k - 1], RecordOrder[k])
        BY RecordsSteps
    <1> DEFINE Made(key) == Record(key, WrittenValue(key, m[key]))
               Before(n) == {RecordOrder[k] : k \in 1..n}
               P(n) == /\ IsSequence(f[n])
                       /\ \A i \in 1..Len(f[n]) : /\ f[n][i].key \in Before(n)
                                                  /\ NeedsRecord(m, f[n][i].key)
                                                  /\ f[n][i] = Made(f[n][i].key)
                       /\ \A i, j \in 1..Len(f[n]) : i # j => f[n][i].key # f[n][j].key
                       /\ \A key \in Before(n) :
                            NeedsRecord(m, key) => \E i \in 1..Len(f[n]) : f[n][i].key = key
               T == {n \in Nat : n <= 12 => P(n)}
    <1>2. 0 \in T
        <2>1. IsSequence(<< >>) /\ Len(<< >>) = 0
            BY DEF IsSequence
        <2> QED BY <1>1, <2>1
    <1>3. ASSUME NEW n \in Nat, n \in T PROVE n + 1 \in T
        <2> HIDE DEF P
        <2> SUFFICES ASSUME n + 1 <= 12 PROVE P(n + 1)
            OBVIOUS
        <2> DEFINE k == RecordOrder[n + 1]
        <2>1. P(n) /\ n + 1 \in 1..12 /\ f[n + 1] = AddRecord(m, f[n], k)
            <3>1. P(n) /\ n + 1 \in 1..12 /\ n + 1 - 1 = n
                BY <1>3
            <3> QED BY <1>1, <3>1, OrderFacts
        <2> USE DEF P
        <2>2. Before(n + 1) = Before(n) \cup {k}
            <3>1. \A i \in 1..n + 1 : i = n + 1 \/ i \in 1..n
                OBVIOUS
            <3> QED BY <3>1
        <2>3. k \notin Before(n)
            <3>1. \A i \in 1..n : i \in 1..12 /\ i # n + 1
                OBVIOUS
            <3> QED BY <2>1, <3>1, OrderFacts
        <2>4. CASE ~NeedsRecord(m, k)
            <3>1. f[n + 1] = f[n]
                BY <2>1, <2>4 DEF AddRecord
            <3> HIDE DEF Before, k, Made
            <3> QED BY <2>1, <2>2, <2>4, <3>1
        <2>5. CASE NeedsRecord(m, k)
            <3> DEFINE e == Made(k)
                       l == Len(f[n])
            <3>1. f[n + 1] = Append(f[n], e)
                BY <2>1, <2>5 DEF AddRecord
            <3>2. e.key = k
                BY DEF Record
            <3>3. /\ IsSequence(f[n + 1]) /\ Len(f[n + 1]) = l + 1 /\ f[n + 1][l + 1] = e
                  /\ \A i \in 1..l : f[n + 1][i] = f[n][i]
                BY <2>1, <3>1, AppendFacts
            <3>4. l \in Nat /\ \A i \in 1..l + 1 : i = l + 1 \/ i \in 1..l
                BY <2>1, SequenceFacts
            <3> HIDE DEF Before, k, e, l
            <3>5. ASSUME NEW i \in 1..l + 1
                  PROVE  /\ f[n + 1][i].key \in Before(n + 1) /\ NeedsRecord(m, f[n + 1][i].key)
                         /\ f[n + 1][i] = Made(f[n + 1][i].key)
                <4>1. CASE i = l + 1
                    BY <2>2, <2>5, <3>2, <3>3, <4>1 DEF e
                <4>2. CASE i \in 1..l
                    BY <2>1, <2>2, <3>3, <4>2 DEF l
                <4> QED BY <3>4, <4>1, <4>2
            <3>6. ASSUME NEW i \in 1..l + 1, NEW j \in 1..l + 1, i # j
                  PROVE  f[n + 1][i].key # f[n + 1][j].key
                <4> HIDE DEF Made
                <4>1. \A x \in 1..l : f[n + 1][x].key \in Before(n) /\ f[n + 1][x].key # k
                    BY <2>1, <2>3, <3>3 DEF l
                <4>2. f[n + 1][l + 1].key = k
                    BY <3>2, <3>3
                <4>3. \A x, y \in 1..l : x # y => f[n + 1][x].key # f[n + 1][y].key
                    BY <2>1, <3>3 DEF l
                <4> QED BY <3>4, <3>6, <4>1, <4>2, <4>3
            <3>7. ASSUME NEW key \in Before(n + 1), NeedsRecord(m, key)
                  PROVE  \E i \in 1..l + 1 : f[n + 1][i].key = key
                <4>1. CASE key = k
                    BY <3>2, <3>3, <3>4, <4>1
                <4>2. CASE key \in Before(n)
                    <5>1. PICK i \in 1..l : f[n][i].key = key
                        BY <2>1, <3>7, <4>2 DEF l
                    <5> QED BY <3>3, <3>4, <5>1
                <4> QED BY <2>2, <4>1, <4>2
            <3> QED BY <3>3, <3>5, <3>6, <3>7
        <2> QED BY <2>4, <2>5
    <1>4. P(12)
        <2>1. 12 \in T
            <3> HIDE DEF T
            <3> QED BY <1>2, <1>3, Induction
        <2> HIDE DEF P
        <2> QED BY <2>1
    <1>5. Before(12) = RecordKeys
        BY OrderFacts
    <1> HIDE DEF Before
    <1> QED BY <1>1, <1>4, <1>5, OrderFacts

(***************************************************************************)
(* What is written of metadata is read back                                *)
(***************************************************************************)
FileTypes == {"file", "hardlink", "symlink", "chardev", "blockdev", "directory", "fifo"}

LEMMA TypeFacts ==
    /\ \A c : FileType(c) \in FileTypes \cup {"unknown"}
    /\ "unknown" \notin FileTypes
    /\ \A t \in FileTypes : FileType(TypeChar(t)) = t
    <1>1. \A c : FileType(c) \in FileTypes \cup {"unknown"}
        BY DEF FileType, FileTypes
    <1>2. ASSUME NEW t \in FileTypes PROVE FileType(TypeChar(t)) = t
        <2>1. \E c \in {"0", "1", "2", "3", "4", "5", "6"} : FileType(c) = t
            <3>1. /\ FileType("0") = "file" /\ FileType("1") = "hardlink"
                  /\ FileType("2") = "symlink" /\ FileType("3") = "chardev"
                  /\ FileType("4") = "blockdev" /\ FileType("5") = "directory"
                  /\ FileType("6") = "fifo"
                BY DEF FileType
            <3> QED BY <3>1 DEF FileTypes
        <2> QED BY <2>1 DEF TypeChar
    <1> QED BY <1>1, <1>2 DEF FileTypes

LEMMA LimitFacts == Limit \in Int /\ MtimeLimit \in Int /\ Width \in Nat
    <1>1. Base ^ Digits \in Int
        BY DigitsAssumption, SMT
    <1>2. Digits + 1 \in Nat
        BY DigitsAssumption
    <1>3. Base ^ (Digits + 1) \in Int
        BY <1>2, DigitsAssumption, SMT
    <1> QED BY <1>1, <1>3, WidthAssumption DEF Limit, MtimeLimit

LEMMA KeyFacts ==
    /\ TextFields \cap NumberFields = {} /\ "prefix" \notin MetaKeys /\ "type" \notin HeaderKeys
    /\ HeaderKeys = TextFields \cup {"gid", "size", "uid"} \cup PlainFields \cup {"mtime"}
    /\ RecordKeys \subseteq HeaderKeys \cup RecordOnly /\ RecordOnly \cap HeaderKeys = {}
    /\ MetaKeys = HeaderKeys \cup RecordOnly \cup {"type"} /\ "type" \notin RecordOnly
    /\ RecordOnly \subseteq RecordKeys /\ "path" \in RecordKeys /\ "linkpath" \in RecordKeys
    /\ NumberFields = {"gid", "size", "uid"} /\ "mtime" \in HeaderKeys
    BY DEF TextFields, NumberFields, PlainFields, HeaderKeys, RecordOnly, RecordKeys, MetaKeys

LEMMA NeededFacts ==
    ASSUME NEW m, NEW key, NeedsRecord(m, key)
    PROVE  key \in DOMAIN m
    BY DEF NeedsRecord

LEMMA TimeWritten ==
    ASSUME NEW t \in Nat, t % Ticks = 0 \/ 10 * (t % Ticks) >= Ticks
    PROVE  WrittenTime(t) = t
    <1>1. t % 100 \in 0..99
        OBVIOUS
    <1> QED BY <1>1 DEF WrittenTime, Ticks

(* What needs no record is read back from the field of the header block.   *)
LEMMA FieldRead ==
    ASSUME NEW m, HeaderKeys \subseteq DOMAIN m, DOMAIN m \subseteq MetaKeys, Lossless(m),
           NEW key \in HeaderKeys, ~NeedsRecord(m, key)
    PROVE  HeaderMeaning(Fields(m))[key] = m[key]
    <1>1. Fields(m)["prefix"] = Empty
        BY KeyFacts DEF Fields, BlockFields, TextField
    <1>2. HeaderMeaning(Fields(m))[key] = Fields(m)[key]
        BY <1>1 DEF HeaderMeaning
    <1>3. key \in BlockFields /\ key \in DOMAIN m /\ key # "prefix"
        BY KeyFacts DEF BlockFields
    <1>4. CASE key \in TextFields
        <2>1. m[key].len \in Nat \ {Width} /\ ~(m[key].len > Width)
            BY <1>3, <1>4 DEF Lossless, NeedsRecord
        <2>2. m[key].len < Width
            BY <2>1, LimitFacts
        <2>3. TextField(m, key) = m[key]
            BY <1>3, <2>2 DEF TextField
        <2>4. Fields(m)[key] = TextField(m, key)
            BY <1>3, <1>4 DEF Fields
        <2> QED BY <1>2, <2>3, <2>4
    <1>5. CASE key \in {"gid", "size", "uid"} \cup PlainFields
        <2>1. m[key] \in Nat /\ m[key] <= Limit
            BY <1>3, <1>5, LimitFacts, KeyFacts DEF Lossless, NeedsRecord
        <2>2. NumberField(m, key) = m[key]
            BY <1>3, <2>1 DEF NumberField, Leading
        <2>3. Fields(m)[key] = NumberField(m, key)
            BY <1>3, <1>5, KeyFacts DEF Fields, TextFields, PlainFields
        <2> QED BY <1>2, <2>2, <2>3
    <1>6. CASE key = "mtime"
        <2> DEFINE t == m["mtime"]
        <2>1. t \in Nat /\ t % Ticks = 0 /\ ~(t > Ticks * MtimeLimit)
            BY <1>3, <1>6 DEF Lossless, NeedsRecord, TimeKeys
        <2>2. t \notin Ticks * Limit + 1..Ticks * MtimeLimit
            BY <2>1 DEF Lossless
        <2> HIDE DEF t
        <2>3. t <= 100 * Limit
            BY <2>1, <2>2, LimitFacts DEF Ticks
        <2>4. t \div 100 \in Nat /\ 100 * (t \div 100) = t /\ t \div 100 <= Limit
            BY <2>1, <2>3, LimitFacts DEF Ticks
        <2>5. MtimeField(m) = t
            BY <1>3, <1>6, <2>1, <2>4 DEF MtimeField, Leading, Ticks, t
        <2>6. Fields(m)[key] = MtimeField(m)
            BY <1>3, <1>6 DEF Fields, TextFields
        <2> QED BY <1>2, <1>6, <2>5, <2>6 DEF t
    <1> QED BY <1>4, <1>5, <1>6, KeyFacts

(* The records written for m say what the header block cannot.             *)
LEMMA OverlayRecords ==
    ASSUME NEW m
    PROVE  LET o == Overlay(Records(m)) IN
           /\ IsMeta(o)
           /\ \A key : key \in DOMAIN o <=> key \in RecordKeys /\ NeedsRecord(m, key)
           /\ \A key \in DOMAIN o : o[key] = WrittenValue(key, m[key])
    <1> DEFINE r == Records(m)
               o == Overlay(r)
    <1>1. /\ IsSequence(r)
          /\ \A i \in 1..Len(r) : /\ r[i].key \in RecordKeys /\ NeedsRecord(m, r[i].key)
                                  /\ r[i] = Record(r[i].key, WrittenValue(r[i].key, m[r[i].key]))
          /\ \A key \in RecordKeys : NeedsRecord(m, key) => \E i \in 1..Len(r) : r[i].key = key
        BY RecordsFacts
    <1> HIDE DEF r
    <1>2. /\ IsMeta(o) /\ DOMAIN o = RecordKeys \cap {r[i].key : i \in 1..Len(r)}
          /\ \A key \in DOMAIN o : o[key] = r[LastOf(r, key)].value
        BY OverlayFacts
    <1> HIDE DEF o
    <1>3. ASSUME NEW key \in DOMAIN o PROVE o[key] = WrittenValue(key, m[key])
        <2>1. PICK i \in 1..Len(r) : r[i].key = key
            BY <1>2
        <2>2. LastOf(r, key) \in 1..Len(r) /\ r[LastOf(r, key)].key = key
            BY <1>1, <2>1, LastFacts
        <2>3. r[LastOf(r, key)] = Record(key, WrittenValue(key, m[key]))
            BY <1>1, <2>2
        <2>4. r[LastOf(r, key)].value = WrittenValue(key, m[key])
            BY <2>3 DEF Record
        <2> QED BY <1>2, <2>4
    <1>4. \A key : key \in DOMAIN o <=> key \in RecordKeys /\ NeedsRecord(m, key)
        BY <1>1, <1>2
    <1> QED BY <1>2, <1>3, <1>4 DEF o, r

(* The metadata of an entry that was written, by the pax format, is the one*)
(* it was written from.                                                    *)
LEMMA WrittenBack ==
    ASSUME NEW m, IsMeta(m), HeaderKeys \cup {"type"} \subseteq DOMAIN m,
           DOMAIN m \subseteq MetaKeys, m["type"] \in FileTypes, Lossless(m)
    PROVE  Set("type", FileType(TypeChar(m["type"])),
               Over(Overlay(Records(m)), HeaderMeaning(Fields(m)))) = m
    <1> DEFINE o == Overlay(Records(m))
               h == HeaderMeaning(Fields(m))
               v == Over(o, h)
               w == Set("type", FileType(TypeChar(m["type"])), v)
    <1>1. /\ \A key : key \in DOMAIN o <=> key \in RecordKeys /\ NeedsRecord(m, key)
          /\ \A key \in DOMAIN o : o[key] = WrittenValue(key, m[key])
        BY OverlayRecords
    <1>2. DOMAIN h = HeaderKeys
        BY DEF HeaderMeaning
    <1>3. \A key \in HeaderKeys : ~NeedsRecord(m, key) => h[key] = m[key]
        BY FieldRead
    <1> HIDE DEF o, h
    <1>4. /\ DOMAIN v = DOMAIN o \cup HeaderKeys /\ \A key \in DOMAIN o : v[key] = o[key]
          /\ \A key \in HeaderKeys \ DOMAIN o : v[key] = h[key]
        <2>1. /\ DOMAIN v = DOMAIN o \cup DOMAIN h /\ \A key \in DOMAIN o : v[key] = o[key]
              /\ \A key \in DOMAIN h \ DOMAIN o : v[key] = h[key]
            BY DEF Over
        <2> HIDE DEF v
        <2> QED BY <1>2, <2>1
    <1> HIDE DEF v
    <1>5. /\ IsMeta(w) /\ DOMAIN w = DOMAIN v \cup {"type"} /\ w["type"] = m["type"]
          /\ \A key \in DOMAIN v \ {"type"} : w[key] = v[key]
        <2> DEFINE c == FileType(TypeChar(m["type"]))
        <2>1. c = m["type"]
            BY TypeFacts
        <2> HIDE DEF c
        <2>2. w = Set("type", c, v)
            BY DEF c
        <2> HIDE DEF w
        <2>3. /\ IsMeta(w) /\ DOMAIN w = DOMAIN v \cup {"type"} /\ w["type"] = c
              /\ \A key \in DOMAIN v \ {"type"} : w[key] = v[key]
            BY <2>2 DEF Set, IsMeta
        <2> QED BY <2>1, <2>3
    <1> HIDE DEF w
    <1>6. \A key \in DOMAIN m : NeedsRecord(m, key) => WrittenValue(key, m[key]) = m[key]
        <2> SUFFICES ASSUME NEW key \in DOMAIN m PROVE WrittenValue(key, m[key]) = m[key]
            OBVIOUS
        <2>1. key \in {"atime", "mtime"} =>
                 m[key] \in Nat /\ (m[key] % Ticks = 0 \/ 10 * (m[key] % Ticks) >= Ticks)
            BY DEF Lossless, TimeKeys
        <2> QED BY <2>1, TimeWritten DEF WrittenValue, TimeKeys
    <1>7. \A key \in DOMAIN o : key \in DOMAIN m /\ v[key] = m[key]
        BY <1>1, <1>4, <1>6, NeededFacts
    <1>8. \A key \in HeaderKeys : v[key] = m[key]
        <2> SUFFICES ASSUME NEW key \in HeaderKeys PROVE v[key] = m[key]
            OBVIOUS
        <2>1. CASE key \in DOMAIN o
            BY <1>7, <2>1
        <2>2. CASE key \notin DOMAIN o
            <3>1. key \in PlainFields \/ key \in RecordKeys
                BY DEF HeaderKeys, RecordKeys
            <3>2. key \in PlainFields => ~NeedsRecord(m, key)
                BY DEF PlainFields, NeedsRecord, RecordOnly, TextFields
            <3>3. ~NeedsRecord(m, key)
                BY <1>1, <2>2, <3>1, <3>2
            <3> QED BY <1>3, <1>4, <2>2, <3>3
        <2> QED BY <2>1, <2>2
    <1>9. \A key \in DOMAIN m \cap RecordOnly : key \in DOMAIN o
        BY <1>1, KeyFacts DEF NeedsRecord
    <1>10. DOMAIN w = DOMAIN m
        BY <1>4, <1>5, <1>7, <1>9, KeyFacts
    <1>11. \A key \in DOMAIN w : w[key] = m[key]
        BY <1>4, <1>5, <1>7, <1>8
    <1>12. w = m
        BY <1>5, <1>10, <1>11, SameMeta
    <1> QED BY <1>12 DEF w, v, h, o

(***************************************************************************)
(* The cells of a tar                                                      *)
(***************************************************************************)
LEMMA BlockFacts == Block \in Nat /\ Block >= 2 /\ ZeroBlocks \in Nat /\ ZeroBlocks >= 2
    BY BlockAssumption, ZeroBlocksAssumption

LEMMA ZerosFacts ==
    ASSUME NEW n \in Nat
    PROVE  IsSequence(Zeros(n)) /\ Len(Zeros(n)) = n /\ \A i \in 1..n : Zeros(n)[i] = Zero
    BY DEF IsSequence, Zeros

HeadCell(o) == [k |-> "head", type |-> o.type, fields |-> o.fields]

LEMMA CellsFacts ==
    ASSUME NEW o, IsSequence(o.payload)
    PROVE  LET l == Len(o.payload) IN
           /\ IsSequence(Cells(o)) /\ l \in Nat /\ Len(Cells(o)) = Block + Aligned(l)
           /\ Cells(o)[1] = HeadCell(o)
           /\ \A i \in 1..l : Cells(o)[Block + i] = o.payload[i]
    <1> DEFINE l == Len(o.payload)
               a == <<HeadCell(o)>>
               b == [i \in 1..Block - 1 |-> [k |-> "rest"]]
               z == Zeros(Aligned(l) - l)
    <1>1. l \in Nat /\ Aligned(l) \in Nat /\ Aligned(l) - l \in Nat
        BY SequenceFacts, AlignedFacts
    <1>2. IsSequence(a) /\ Len(a) = 1 /\ a[1] = HeadCell(o)
        BY DEF IsSequence
    <1>3. IsSequence(b) /\ Len(b) = Block - 1
        BY BlockFacts DEF IsSequence
    <1>4. IsSequence(z) /\ Len(z) = Aligned(l) - l
        BY <1>1, ZerosFacts
    <1>5. Cells(o) = ((a \o b) \o o.payload) \o z
        BY DEF Cells, HeadCell
    <1> HIDE DEF a, b, z, l
    <1>6. IsSequence(a \o b) /\ Len(a \o b) = Block /\ (a \o b)[1] = HeadCell(o)
        <2>1. /\ IsSequence(a \o b) /\ Len(a \o b) = Len(a) + Len(b)
              /\ \A i \in 1..Len(a) : (a \o b)[i] = a[i]
            BY <1>2, <1>3, ConcatFacts
        <2> QED BY <1>2, <1>3, <2>1, BlockFacts
    <1> DEFINE c == a \o b
    <1>7. IsSequence(c) /\ Len(c) = Block /\ c[1] = HeadCell(o)
        BY <1>6
    <1> HIDE DEF c
    <1> DEFINE d == c \o o.payload
    <1>8. /\ IsSequence(d) /\ Len(d) = Block + l /\ d[1] = HeadCell(o)
          /\ \A i \in 1..l : d[Block + i] = o.payload[i]
        <2>1. /\ IsSequence(d) /\ Len(d) = Len(c) + Len(o.payload)
              /\ \A i \in 1..Len(c) : d[i] = c[i]
              /\ \A i \in 1..Len(o.payload) : d[Len(c) + i] = o.payload[i]
            BY <1>7, ConcatFacts
        <2>2. 1 \in 1..Len(c)
            BY <1>7, BlockFacts
        <2> HIDE DEF d
        <2> QED BY <1>7, <2>1, <2>2 DEF l
    <1> HIDE DEF d
    <1>9. /\ IsSequence(d \o z) /\ Len(d \o z) = Block + Aligned(l) /\ (d \o z)[1] = HeadCell(o)
          /\ \A i \in 1..l : (d \o z)[Block + i] = o.payload[i]
        <2>1. /\ IsSequence(d \o z) /\ Len(d \o z) = Len(d) + Len(z)
              /\ \A i \in 1..Len(d) : (d \o z)[i] = d[i]
            BY <1>4, <1>8, ConcatFacts
        <2>2. 1 \in 1..Len(d) /\ \A i \in 1..l : Block + i \in 1..Len(d)
            BY <1>1, <1>8, BlockFacts
        <2> QED BY <1>1, <1>4, <1>8, <2>1, <2>2, BlockFacts
    <1>10. Cells(o) = d \o z
        BY <1>5 DEF c, d
    <1> QED BY <1>1, <1>9, <1>10 DEF l

(* Where the object after the n-th begins.                                 *)
Offset(t, n) == Len(Flat(t)[n])

(* The cells of a tar: where each object begins, and what is there.        *)
LEMMA FlatFacts ==
    ASSUME NEW t, Complete(t)
    PROVE  /\ Len(t) \in Nat /\ Offset(t, 0) = 0
           /\ \A n \in 0..Len(t) : IsSequence(Flat(t)[n]) /\ Offset(t, n) \in Nat
           /\ \A n \in 1..Len(t) :
                /\ Len(t[n].payload) \in Nat
                /\ Offset(t, n) = Offset(t, n - 1) + Block + Aligned(Len(t[n].payload))
                /\ \A i \in 1..Len(Cells(t[n])) : Flat(t)[n][Offset(t, n - 1) + i] = Cells(t[n])[i]
           /\ \A n \in 0..Len(t) : \A k \in 0..n :
                /\ Offset(t, k) <= Offset(t, n)
                /\ \A i \in 1..Offset(t, k) : Flat(t)[n][i] = Flat(t)[k][i]
    <1> DEFINE f == Flat(t)
    <1>1. /\ Len(t) \in Nat /\ f[0] = << >>
          /\ \A n \in 1..Len(t) : f[n] = f[n - 1] \o Cells(t[n])
        BY FlatSteps, SequenceFacts DEF Complete
    <1> HIDE DEF f
    <1>2. ASSUME NEW n \in 1..Len(t)
          PROVE  /\ Len(t[n].payload) \in Nat /\ IsSequence(Cells(t[n]))
                 /\ Len(Cells(t[n])) = Block + Aligned(Len(t[n].payload))
                 /\ Len(Cells(t[n])) \in Nat
        <2>1. IsSequence(t[n].payload)
            BY DEF Complete, Readable
        <2> QED BY <2>1, CellsFacts, SequenceFacts
    <1> DEFINE P(n) == /\ IsSequence(f[n])
                       /\ \A k \in 0..n : /\ Len(f[k]) \in Nat /\ Len(f[k]) <= Len(f[n])
                                          /\ \A i \in 1..Len(f[k]) : f[n][i] = f[k][i]
               T == {n \in Nat : n <= Len(t) => P(n)}
    <1>3. 0 \in T
        <2>1. IsSequence(<< >>) /\ Len(<< >>) = 0
            BY DEF IsSequence
        <2>2. \A k \in 0..0 : k = 0
            OBVIOUS
        <2> QED BY <1>1, <2>1, <2>2
    <1>4. ASSUME NEW n \in Nat, n + 1 \in 1..Len(t), IsSequence(f[n])
          PROVE  /\ IsSequence(f[n + 1]) /\ Len(f[n + 1]) = Len(f[n]) + Len(Cells(t[n + 1]))
                 /\ \A i \in 1..Len(f[n]) : f[n + 1][i] = f[n][i]
                 /\ \A i \in 1..Len(Cells(t[n + 1])) : f[n + 1][Len(f[n]) + i] = Cells(t[n + 1])[i]
        <2> DEFINE a == f[n]
                   b == Cells(t[n + 1])
        <2>1. f[n + 1] = a \o b /\ IsSequence(a) /\ IsSequence(b)
            <3>1. n + 1 - 1 = n
                OBVIOUS
            <3> HIDE DEF P, T, a, b
            <3> DEFINE m == n + 1
            <3>2. f[m] = f[m - 1] \o Cells(t[m])
                <4>1. m \in 1..Len(t)
                    BY <1>4
                <4> HIDE DEF m
                <4> QED BY <1>1, <4>1
            <3> USE DEF a, b
            <3> QED BY <1>2, <1>4, <3>1, <3>2
        <2> HIDE DEF a, b, P, T
        <2>2. /\ IsSequence(a \o b) /\ Len(a \o b) = Len(a) + Len(b)
              /\ \A i \in 1..Len(a) : (a \o b)[i] = a[i]
              /\ \A i \in 1..Len(b) : (a \o b)[Len(a) + i] = b[i]
            BY <2>1, ConcatFacts
        <2>3. /\ IsSequence(f[n + 1]) /\ Len(f[n + 1]) = Len(a) + Len(b)
              /\ \A i \in 1..Len(a) : f[n + 1][i] = a[i]
              /\ \A i \in 1..Len(b) : f[n + 1][Len(a) + i] = b[i]
            BY <2>1, <2>2
        <2> QED BY <2>3 DEF a, b
    <1>5. ASSUME NEW n \in Nat, n \in T PROVE n + 1 \in T
        <2> HIDE DEF P
        <2> SUFFICES ASSUME n + 1 <= Len(t) PROVE P(n + 1)
            OBVIOUS
        <2>1. P(n) /\ n + 1 \in 1..Len(t) /\ n + 1 - 1 = n /\ n \in 0..n
            BY <1>1, <1>5
        <2> HIDE DEF T
        <2> USE DEF P
        <2>2. /\ IsSequence(f[n + 1]) /\ Len(f[n + 1]) = Len(f[n]) + Len(Cells(t[n + 1]))
              /\ \A i \in 1..Len(f[n]) : f[n + 1][i] = f[n][i]
            <3>1. IsSequence(f[n])
                BY <2>1
            <3> HIDE DEF P
            <3> QED BY <1>4, <2>1, <3>1
        <2>3. /\ Len(f[n]) \in Nat /\ Len(f[n + 1]) \in Nat /\ Len(f[n]) <= Len(f[n + 1])
              /\ \A i \in 1..Len(f[n]) : f[n + 1][i] = f[n][i]
            <3>1. Len(f[n]) \in Nat /\ Len(Cells(t[n + 1])) \in Nat
                BY <1>2, <2>1
            <3> HIDE DEF P
            <3> DEFINE a == f[n]
                       b == Cells(t[n + 1])
                       c == f[n + 1]
            <3>2. /\ Len(a) \in Nat /\ Len(b) \in Nat /\ Len(c) = Len(a) + Len(b)
                  /\ \A i \in 1..Len(a) : c[i] = a[i]
                BY <2>2, <3>1
            <3> HIDE DEF a, b, c
            <3>3. /\ Len(a) \in Nat /\ Len(c) \in Nat /\ Len(a) <= Len(c)
                  /\ \A i \in 1..Len(a) : c[i] = a[i]
                BY <3>2
            <3> QED BY <3>3 DEF a, c
        <2>4. ASSUME NEW k \in 0..n + 1
              PROVE  /\ Len(f[k]) \in Nat /\ Len(f[k]) <= Len(f[n + 1])
                     /\ \A i \in 1..Len(f[k]) : f[n + 1][i] = f[k][i]
            <3>1. CASE k = n + 1
                BY <2>3, <3>1
            <3>2. CASE k \in 0..n
                <4>1. /\ Len(f[k]) \in Nat /\ Len(f[k]) <= Len(f[n])
                      /\ \A i \in 1..Len(f[k]) : f[n][i] = f[k][i]
                    BY <2>1, <3>2
                <4> HIDE DEF P
                <4> DEFINE a == f[k]
                           b == f[n]
                           c == f[n + 1]
                <4>2. /\ Len(a) \in Nat /\ Len(a) <= Len(b) /\ \A i \in 1..Len(a) : b[i] = a[i]
                      /\ Len(b) \in Nat /\ Len(c) \in Nat /\ Len(b) <= Len(c)
                      /\ \A i \in 1..Len(b) : c[i] = b[i]
                    BY <2>3, <4>1
                <4> HIDE DEF a, b, c
                <4>3. /\ Len(a) \in Nat /\ Len(a) <= Len(c) /\ \A i \in 1..Len(a) : c[i] = a[i]
                    BY <4>2
                <4> QED BY <4>3 DEF a, c
            <3> QED BY <3>1, <3>2
        <2> QED BY <2>2, <2>4
    <1>6. ASSUME NEW n \in 0..Len(t) PROVE P(n)
        <2>1. n \in T
            <3> HIDE DEF T
            <3> QED BY <1>3, <1>5, Induction
        <2> HIDE DEF P
        <2> QED BY <2>1
    <1>7. \A n \in 0..Len(t) : IsSequence(f[n]) /\ Len(f[n]) \in Nat
        BY <1>6, SequenceFacts
    <1>8. \A n \in 1..Len(t) : n - 1 \in 0..Len(t) /\ n \in 0..Len(t)
        BY <1>1
    <1>9. Len(f[0]) = 0
        BY <1>1
    <1>10. ASSUME NEW n \in 1..Len(t)
           PROVE  /\ Len(f[n]) = Len(f[n - 1]) + Block + Aligned(Len(t[n].payload))
                  /\ \A i \in 1..Len(Cells(t[n])) : f[n][Len(f[n - 1]) + i] = Cells(t[n])[i]
        <2>1. IsSequence(f[n - 1]) /\ Len(f[n - 1]) \in Nat /\ n - 1 \in Nat /\ n - 1 + 1 = n
            BY <1>7, <1>8
        <2> HIDE DEF P, T
        <2>2. /\ Len(f[n]) = Len(f[n - 1]) + Len(Cells(t[n]))
              /\ \A i \in 1..Len(Cells(t[n])) : f[n][Len(f[n - 1]) + i] = Cells(t[n])[i]
            <3> DEFINE l == n - 1
            <3>1. IsSequence(f[l]) /\ l \in Nat /\ n = l + 1
                BY <2>1
            <3> HIDE DEF l
            <3>2. /\ Len(f[l + 1]) = Len(f[l]) + Len(Cells(t[l + 1]))
                  /\ \A i \in 1..Len(Cells(t[l + 1])) :
                       f[l + 1][Len(f[l]) + i] = Cells(t[l + 1])[i]
                BY <1>4, <3>1
            <3>3. /\ Len(f[n]) = Len(f[l]) + Len(Cells(t[n]))
                  /\ \A i \in 1..Len(Cells(t[n])) : f[n][Len(f[l]) + i] = Cells(t[n])[i]
                BY <3>1, <3>2
            <3> QED BY <3>3 DEF l
        <2>3. Len(Cells(t[n])) = Block + Aligned(Len(t[n].payload)) /\ Block \in Nat
              /\ Aligned(Len(t[n].payload)) \in Nat
            BY <1>2, AlignedFacts, BlockFacts
        <2> QED BY <2>1, <2>2, <2>3
    <1>11. \A n \in 0..Len(t) : \A k \in 0..n :
             Len(f[k]) <= Len(f[n]) /\ \A i \in 1..Len(f[k]) : f[n][i] = f[k][i]
        BY <1>6
    <1> HIDE DEF T, P
    <1> QED BY <1>1, <1>2, <1>7, <1>9, <1>10, <1>11 DEF f, Offset

(* Where the objects of t end, and the zero blocks begin.                  *)
End(t) == Offset(t, Len(t))

(* The input: the cells of the objects, then zeros.                        *)
LEMMA StreamFacts ==
    ASSUME NEW t \in Tars, Complete(t)
    PROVE  /\ IsSequence(Stream[t]) /\ Len(Stream[t]) = End(t) + Block * ZeroBlocks
           /\ End(t) \in Nat /\ Len(FlatCells(t)) = End(t) /\ End(t) + 2 * Block <= Len(Stream[t])
           /\ \A n \in 1..Len(t) :
                /\ Stream[t][Offset(t, n - 1) + 1] = HeadCell(t[n])
                /\ \A i \in 1..Len(t[n].payload) :
                     Stream[t][Offset(t, n - 1) + Block + i] = t[n].payload[i]
           /\ \A i \in 1..2 * Block : Stream[t][End(t) + i] = Zero
    <1> DEFINE l == Len(t)
               a == Flat(t)[l]
               b == Zeros(Block * ZeroBlocks)
               s == a \o b
    <1>1. l \in Nat /\ l \in 0..l /\ \A n \in 1..l : n \in 0..l
        BY FlatFacts
    <1>2. Block * ZeroBlocks \in Nat /\ 2 * Block <= Block * ZeroBlocks
        BY BlockFacts
    <1>3. /\ IsSequence(a) /\ Len(a) = End(t) /\ Len(a) \in Nat
        BY <1>1, FlatFacts DEF End, Offset
    <1>4. IsSequence(b) /\ Len(b) = Block * ZeroBlocks /\ \A i \in 1..Len(b) : b[i] = Zero
        BY <1>2, ZerosFacts
    <1>5. Stream[t] = s /\ FlatCells(t) = a
        BY DEF Stream, FlatCells
    <1>6. /\ IsSequence(s) /\ Len(s) = Len(a) + Len(b) /\ \A i \in 1..Len(a) : s[i] = a[i]
          /\ \A i \in 1..Len(b) : s[Len(a) + i] = b[i]
        <2> HIDE DEF a, b
        <2> QED BY <1>3, <1>4, ConcatFacts
    <1>7. \A i \in 1..2 * Block : i \in 1..Len(b)
        BY <1>2, <1>4, BlockFacts
    <1>8. ASSUME NEW n \in 1..l
          PROVE  /\ s[Offset(t, n - 1) + 1] = HeadCell(t[n])
                 /\ \A i \in 1..Len(t[n].payload) :
                      s[Offset(t, n - 1) + Block + i] = t[n].payload[i]
        <2> DEFINE c == Cells(t[n])
                   p == t[n].payload
                   o == Offset(t, n - 1)
        <2>1. /\ IsSequence(p) /\ Len(p) \in Nat /\ Len(c) = Block + Aligned(Len(p))
              /\ c[1] = HeadCell(t[n]) /\ \A i \in 1..Len(p) : c[Block + i] = p[i]
            BY CellsFacts DEF Complete, Readable
        <2>2. Aligned(Len(p)) \in Nat /\ Len(p) <= Aligned(Len(p))
            BY <2>1, AlignedFacts
        <2>3. o \in Nat /\ Offset(t, n) = o + Block + Aligned(Len(p))
            <3>1. n - 1 \in 0..l
                BY <1>1
            <3> QED BY <3>1, FlatFacts
        <2>4. \A i \in 1..Len(c) : Flat(t)[n][o + i] = c[i]
            BY FlatFacts
        <2>5. Offset(t, n) <= Offset(t, l) /\ \A i \in 1..Offset(t, n) : a[i] = Flat(t)[n][i]
            <3>1. n \in 0..l /\ l \in 0..Len(t)
                BY <1>1
            <3> QED BY <3>1, FlatFacts
        <2>6. Offset(t, l) = Len(a)
            BY DEF Offset
        <2> HIDE DEF o, p, c, a, b, s, l
        <2>7. ASSUME NEW i \in 1..Len(c) PROVE s[o + i] = c[i]
            <3>1. o + i \in 1..Offset(t, n) /\ o + i \in 1..Len(a)
                BY <1>3, <2>1, <2>2, <2>3, <2>5, <2>6, BlockFacts
            <3> QED BY <1>6, <2>4, <2>5, <3>1
        <2>8. 1 \in 1..Len(c) /\ \A i \in 1..Len(p) : Block + i \in 1..Len(c)
            BY <2>1, <2>2, BlockFacts
        <2>9. s[o + 1] = HeadCell(t[n])
            BY <2>1, <2>7, <2>8
        <2>10. ASSUME NEW i \in 1..Len(p) PROVE s[o + Block + i] = p[i]
            <3>1. o + Block + i = o + (Block + i)
                BY <2>3, BlockFacts
            <3> QED BY <2>1, <2>7, <2>8, <3>1
        <2> QED BY <2>9, <2>10 DEF o, p
    <1>9. \A i \in 1..2 * Block : s[End(t) + i] = Zero
        BY <1>3, <1>4, <1>6, <1>7
    <1> HIDE DEF a, b, s
    <1>10. End(t) + 2 * Block <= Len(s) /\ Len(s) = End(t) + Block * ZeroBlocks
        BY <1>2, <1>3, <1>4, <1>6, BlockFacts
    <1> QED BY <1>3, <1>5, <1>6, <1>8, <1>9, <1>10

HeaderOf(o) == [type |-> o.type, fields |-> o.fields]

(* Where an object begins the reader finds its header, and not zeros.      *)
LEMMA HeaderFacts ==
    ASSUME tar \in Tars, Complete(tar), NEW n \in 1..Len(tar)
    PROVE  ~IsZero(Offset(tar, n - 1)) /\ HeaderAt(Offset(tar, n - 1)) = HeaderOf(tar[n])
    <1> DEFINE o == Offset(tar, n - 1)
               s == Stream[tar]
    <1>1. s[o + 1] = HeadCell(tar[n])
        BY StreamFacts
    <1> HIDE DEF s, o
    <1>2. /\ s[o + 1].k = "head" /\ s[o + 1].type = tar[n].type
          /\ s[o + 1].fields = tar[n].fields
        BY <1>1 DEF HeadCell
    <1>3. s[o + 1] # Zero
        BY <1>2 DEF Zero
    <1>4. 1 \in 1..Block
        BY BlockFacts
    <1>5. ~IsZero(o)
        BY <1>3, <1>4 DEF IsZero, s
    <1>6. HeaderAt(o) = HeaderOf(tar[n])
        BY <1>2, <1>5 DEF HeaderAt, HeaderOf, s
    <1> QED BY <1>5, <1>6 DEF o

(* Where the objects end the reader finds the end marker.                  *)
LEMMA TailFacts ==
    ASSUME tar \in Tars, Complete(tar)
    PROVE  IsZero(End(tar)) /\ IsZero(End(tar) + Block)
    <1>1. End(tar) \in Nat /\ \A i \in 1..2 * Block : Stream[tar][End(tar) + i] = Zero
        BY StreamFacts
    <1>2. \A i \in 1..Block : /\ i \in 1..2 * Block /\ Block + i \in 1..2 * Block
                              /\ End(tar) + Block + i = End(tar) + (Block + i)
        BY <1>1, BlockFacts
    <1> QED BY <1>1, <1>2 DEF IsZero

(* The reader finds k cells of a payload of which it has read d.           *)
LEMMA PayloadFacts ==
    ASSUME tar \in Tars, Complete(tar), NEW n \in 1..Len(tar), NEW d \in Nat, NEW k \in Nat,
           d + k <= Len(tar[n].payload), pos = Offset(tar, n - 1) + Block + d
    PROVE  /\ IsSequence(Payload(k)) /\ Len(Payload(k)) = k
           /\ \A i \in 1..k : Payload(k)[i] = tar[n].payload[d + i]
    <1> DEFINE o == Offset(tar, n - 1)
               s == Stream[tar]
               p == tar[n].payload
    <1>1. /\ o \in Nat /\ Len(p) \in Nat /\ Offset(tar, n) = o + Block + Aligned(Len(p))
          /\ Offset(tar, n) <= End(tar)
        <2>1. Len(tar) \in Nat /\ n - 1 \in 0..Len(tar) /\ n \in 0..Len(tar)
              /\ Len(tar) \in 0..Len(tar)
            BY FlatFacts
        <2> QED BY <2>1, FlatFacts DEF End
    <1>2. Aligned(Len(p)) \in Nat /\ Len(p) <= Aligned(Len(p))
        BY <1>1, AlignedFacts
    <1>3. /\ IsSequence(s) /\ Len(s) \in Nat /\ End(tar) \in Nat /\ End(tar) <= Len(s)
          /\ \A i \in 1..Len(p) : s[o + Block + i] = p[i]
        <2>1. /\ IsSequence(s) /\ End(tar) \in Nat /\ End(tar) + 2 * Block <= Len(s)
              /\ \A i \in 1..Len(p) : s[o + Block + i] = p[i]
            BY StreamFacts
        <2>2. Len(s) \in Nat
            BY <2>1, SequenceFacts
        <2> QED BY <2>1, <2>2, BlockFacts
    <1>4. pos = o + Block + d /\ d + k <= Len(p) /\ Payload(k) = SubSeq(s, pos + 1, pos + k)
        BY DEF Payload
    <1> HIDE DEF o, s, p
    <1> DEFINE l == Len(p)
               e == Aligned(l)
               z == End(tar)
               y == Len(s)
    <1>5. /\ pos + 1 \in Nat /\ pos + k \in Nat /\ pos + 1 >= 1 /\ pos + k <= y
          /\ pos + k >= pos + 1 - 1 /\ pos \in Nat
        <2>1. /\ o \in Nat /\ l \in Nat /\ e \in Nat /\ l <= e /\ z \in Nat /\ y \in Nat /\ z <= y
              /\ o + Block + e <= z /\ pos = o + Block + d /\ d + k <= l
            BY <1>1, <1>2, <1>3, <1>4
        <2> HIDE DEF l, e, z, y
        <2> QED BY <2>1, BlockFacts
    <1> DEFINE u == pos + 1
               v == pos + k
               w == SubSeq(s, u, v)
    <1>6. IsSequence(w) /\ Len(w) = v - u + 1 /\ \A i \in 1..v - u + 1 : w[i] = s[u + i - 1]
        <2>1. u \in Nat /\ v \in Nat /\ u >= 1 /\ v <= Len(s) /\ v >= u - 1
            BY <1>5
        <2> HIDE DEF u, v
        <2>2. IsSequence(s)
            BY <1>3
        <2> HIDE DEF l, e, z, y
        <2> QED BY <2>1, <2>2, SubSeqFacts
    <1>7. v - u + 1 = k
        BY <1>5
    <1>8. \A i \in 1..k : u + i - 1 = o + Block + (d + i) /\ d + i \in 1..l
        <2>1. l \in Nat /\ d + k <= l /\ o \in Nat /\ Block \in Nat /\ u = o + Block + d + 1
            BY <1>1, <1>4, BlockFacts
        <2> HIDE DEF l, u
        <2> QED BY <2>1
    <1> HIDE DEF u, v
    <1>9. IsSequence(w) /\ Len(w) = k /\ \A i \in 1..k : w[i] = p[d + i]
        BY <1>3, <1>6, <1>7, <1>8
    <1> QED BY <1>4, <1>9 DEF p, u, v

(***************************************************************************)
(* What a complete tar means                                               *)
(***************************************************************************)
MemberOf(acc, o) ==
    [meta |-> Set("type", FileType(o.type),
                  Over(Over(acc.own, acc.global), HeaderMeaning(o.fields))),
     content |-> o.payload]

Known(acc) == acc = [global |-> acc.global, own |-> acc.own, members |-> acc.members]

LEMMA InterpretFacts ==
    ASSUME NEW acc, NEW o, Known(acc)
    PROVE  LET a == Interpret(acc, o) IN
           /\ Known(a)
           /\ o.type = "g" => /\ a.global = Over(Overlay(o.payload), acc.global)
                              /\ a.own = acc.own /\ a.members = acc.members
           /\ o.type = "x" => /\ a.own = Over(Overlay(o.payload), acc.own)
                              /\ a.global = acc.global /\ a.members = acc.members
           /\ o.type = "L" => /\ a.own = Set("path", o.payload[1].value, acc.own)
                              /\ a.global = acc.global /\ a.members = acc.members
           /\ o.type = "K" => /\ a.own = Set("linkpath", o.payload[1].value, acc.own)
                              /\ a.global = acc.global /\ a.members = acc.members
           /\ o.type \notin MetadataTypes =>
                /\ a.global = acc.global /\ a.own = NoMeta
                /\ a.members = Append(acc.members, MemberOf(acc, o))
    <1> DEFINE a == Interpret(acc, o)
               g == Over(Overlay(o.payload), acc.global)
               x == Over(Overlay(o.payload), acc.own)
               l == Set("path", o.payload[1].value, acc.own)
               k == Set("linkpath", o.payload[1].value, acc.own)
               m == Append(acc.members, MemberOf(acc, o))
    <1>1. CASE o.type = "g"
        <2>1. a = [acc EXCEPT !.global = g]
            BY <1>1 DEF Interpret
        <2> HIDE DEF a, g, x, l, k, m
        <2>2. a = [global |-> g, own |-> acc.own, members |-> acc.members]
            BY <2>1 DEF Known
        <2> QED BY <1>1, <2>2 DEF Known, MetadataTypes, a, g
    <1>2. CASE o.type = "x"
        <2>1. a = [acc EXCEPT !.own = x]
            BY <1>2 DEF Interpret
        <2> HIDE DEF a, g, x, l, k, m
        <2>2. a = [global |-> acc.global, own |-> x, members |-> acc.members]
            BY <2>1 DEF Known
        <2> QED BY <1>2, <2>2 DEF Known, MetadataTypes, a, x
    <1>3. CASE o.type = "L"
        <2>1. a = [acc EXCEPT !.own = l]
            BY <1>3 DEF Interpret
        <2> HIDE DEF a, g, x, l, k, m
        <2>2. a = [global |-> acc.global, own |-> l, members |-> acc.members]
            BY <2>1 DEF Known
        <2> QED BY <1>3, <2>2 DEF Known, MetadataTypes, a, l
    <1>4. CASE o.type = "K"
        <2>1. a = [acc EXCEPT !.own = k]
            BY <1>4 DEF Interpret
        <2> HIDE DEF a, g, x, l, k, m
        <2>2. a = [global |-> acc.global, own |-> k, members |-> acc.members]
            BY <2>1 DEF Known
        <2> QED BY <1>4, <2>2 DEF Known, MetadataTypes, a, k
    <1>5. CASE o.type \notin MetadataTypes
        <2>1. a = [acc EXCEPT !.own = NoMeta, !.members = m]
            BY <1>5 DEF Interpret, MetadataTypes, MemberOf
        <2> HIDE DEF a, g, x, l, k, m
        <2>2. a = [global |-> acc.global, own |-> NoMeta, members |-> m]
            BY <2>1 DEF Known
        <2> QED BY <1>5, <2>2 DEF Known, MetadataTypes, a, m
    <1> QED BY <1>1, <1>2, <1>3, <1>4, <1>5 DEF MetadataTypes

Good(m) ==
    /\ m = [meta |-> m.meta, content |-> m.content] /\ IsSequence(m.content)
    /\ IsMeta(m.meta) /\ HeaderKeys \cup {"type"} \subseteq DOMAIN m.meta
    /\ DOMAIN m.meta \subseteq MetaKeys /\ m.meta["type"] \in FileTypes

(* A member has every field of a header and a known type.                  *)
LEMMA MemberFacts ==
    ASSUME NEW acc, NEW o, DOMAIN acc.own \subseteq RecordKeys,
           DOMAIN acc.global \subseteq RecordKeys, FileType(o.type) # "unknown",
           IsSequence(o.payload)
    PROVE  Good(MemberOf(acc, o))
    <1> DEFINE h == HeaderMeaning(o.fields)
               v == Over(acc.own, acc.global)
               w == Over(v, h)
               c == FileType(o.type)
               m == Set("type", c, w)
    <1>1. DOMAIN h = HeaderKeys
        BY DEF HeaderMeaning
    <1>2. c \in FileTypes
        BY TypeFacts
    <1>3. DOMAIN v \subseteq RecordKeys
        BY DEF Over
    <1> HIDE DEF h, v, c
    <1>4. DOMAIN w = DOMAIN v \cup HeaderKeys
        BY <1>1 DEF Over
    <1> HIDE DEF w
    <1>5. IsMeta(m) /\ DOMAIN m = DOMAIN w \cup {"type"} /\ m["type"] = c
        BY DEF Set, IsMeta
    <1> HIDE DEF m
    <1>6. HeaderKeys \cup {"type"} \subseteq DOMAIN m /\ DOMAIN m \subseteq MetaKeys
        BY <1>3, <1>4, <1>5, KeyFacts
    <1>7. MemberOf(acc, o) = [meta |-> m, content |-> o.payload]
        BY DEF MemberOf, m, w, v, h, c
    <1> QED BY <1>2, <1>5, <1>6, <1>7 DEF Good

After(t, n) == Interpretation(t)[n]

(* What is known of a complete tar after n objects: nothing of its own is  *)
(* left over but between a metadata object and its member, and members only*)
(* become more.                                                            *)
LEMMA MeaningFacts ==
    ASSUME NEW t, Complete(t), NEW n \in 0..Len(t)
    PROVE  /\ Known(After(t, n)) /\ IsSequence(After(t, n).members)
           /\ IsMeta(After(t, n).global) /\ DOMAIN After(t, n).global \subseteq RecordKeys
           /\ IsMeta(After(t, n).own) /\ DOMAIN After(t, n).own \subseteq RecordKeys
           /\ n = 0 \/ t[n].type \notin MetadataTypes \ {"g"} => After(t, n).own = NoMeta
           /\ \A i \in 1..Len(After(t, n).members) : Good(After(t, n).members[i])
           /\ \A k \in 0..n :
                /\ Len(After(t, k).members) \in Nat
                /\ Len(After(t, k).members) <= Len(After(t, n).members)
                /\ \A i \in 1..Len(After(t, k).members) :
                      After(t, n).members[i] = After(t, k).members[i]
    <1> DEFINE a == Interpretation(t)
               Kept(d) ==
                   \A k \in 0..d :
                       /\ Len(a[k].members) \in Nat
                       /\ Len(a[k].members) <= Len(a[d].members)
                       /\ \A i \in 1..Len(a[k].members) : a[d].members[i] = a[k].members[i]
               Metas(d) == /\ IsMeta(a[d].global) /\ DOMAIN a[d].global \subseteq RecordKeys
                           /\ IsMeta(a[d].own) /\ DOMAIN a[d].own \subseteq RecordKeys
               Alone(d) == d = 0 \/ t[d].type \notin MetadataTypes \ {"g"} => a[d].own = NoMeta
               Listed(d) == /\ IsSequence(a[d].members)
                            /\ \A i \in 1..Len(a[d].members) : Good(a[d].members[i])
               P(d) == Known(a[d]) /\ Kept(d) /\ Metas(d) /\ Alone(d) /\ Listed(d)
               T == {d \in Nat : d <= Len(t) => P(d)}
    <1>1. /\ Len(t) \in Nat /\ a[0] = Nothing
          /\ \A k \in 1..Len(t) : a[k] = Interpret(a[k - 1], t[k])
        BY InterpretationFacts, SequenceFacts DEF Complete
    <1> HIDE DEF a
    <1>2. 0 \in T
        <2>1. IsSequence(<< >>) /\ Len(<< >>) = 0
            BY DEF IsSequence
        <2>2. \A k \in 0..0 : k = 0
            OBVIOUS
        <2>3. /\ Known(Nothing) /\ Nothing.global = NoMeta /\ Nothing.own = NoMeta
              /\ Nothing.members = << >>
            BY DEF Known, Nothing
        <2> QED BY <1>1, <2>1, <2>2, <2>3, NoMetaFacts
    <1>3. ASSUME NEW j \in Nat, j \in T PROVE j + 1 \in T
        <2> HIDE DEF P
        <2> SUFFICES ASSUME j + 1 <= Len(t) PROVE P(j + 1)
            OBVIOUS
        <2> DEFINE o == t[j + 1]
                   b == a[j]
                   c == a[j + 1]
        <2>1. P(j) /\ j + 1 \in 1..Len(t) /\ j + 1 - 1 = j
            BY <1>1, <1>3
        <2> HIDE DEF T
        <2>2. c = Interpret(b, o)
            <3> DEFINE i == j + 1
            <3>1. i \in 1..Len(t) /\ i - 1 = j
                BY <2>1
            <3> HIDE DEF i, P
            <3>2. a[i] = Interpret(a[i - 1], t[i])
                BY <1>1, <3>1
            <3> QED BY <3>1, <3>2 DEF i
        <2>3. Known(b) /\ Kept(j) /\ Metas(j) /\ Alone(j) /\ Listed(j)
            BY <2>1 DEF P
        <2>4. /\ Readable(o)
              /\ o.type = "g" /\ j > 0 => t[j].type \notin MetadataTypes \ {"g"}
            <3> DEFINE i == j + 1
            <3>1. i \in 1..Len(t) /\ i - 1 = j
                BY <2>1
            <3> HIDE DEF i
            <3>2. /\ Readable(t[i])
                  /\ t[i].type = "g" /\ i > 1 => t[i - 1].type \notin MetadataTypes \ {"g"}
                BY <3>1 DEF Complete
            <3> QED BY <3>1, <3>2 DEF i
        <2>5. IsSequence(o.payload)
            BY <2>4 DEF Readable
        <2> DEFINE y == Overlay(o.payload)
                   x == o.payload[1].value
        <2>6. IsMeta(y) /\ DOMAIN y \subseteq RecordKeys
            BY OverlayFacts
        <2>7. /\ Known(c)
              /\ o.type = "g" => /\ c.global = Over(y, b.global) /\ c.own = b.own
                                 /\ c.members = b.members
              /\ o.type = "x" => /\ c.own = Over(y, b.own) /\ c.global = b.global
                                 /\ c.members = b.members
              /\ o.type = "L" => /\ c.own = Set("path", x, b.own) /\ c.global = b.global
                                 /\ c.members = b.members
              /\ o.type = "K" => /\ c.own = Set("linkpath", x, b.own) /\ c.global = b.global
                                 /\ c.members = b.members
              /\ o.type \notin MetadataTypes =>
                   /\ c.global = b.global /\ c.own = NoMeta
                   /\ c.members = Append(b.members, MemberOf(b, o))
            <3> HIDE DEF Kept, Metas, Alone, Listed, b, o, c
            <3> QED BY <2>2, <2>3, InterpretFacts
        <2>8. \A v : /\ IsMeta(Over(y, v))
                     /\ DOMAIN v \subseteq RecordKeys => DOMAIN Over(y, v) \subseteq RecordKeys
            <3> HIDE DEF y
            <3> SUFFICES ASSUME NEW v
                         PROVE  /\ IsMeta(Over(y, v))
                                /\ \/ ~(DOMAIN v \subseteq RecordKeys)
                                   \/ DOMAIN Over(y, v) \subseteq RecordKeys
                OBVIOUS
            <3>1. IsMeta(Over(y, v)) /\ DOMAIN Over(y, v) = DOMAIN y \cup DOMAIN v
                BY DEF Over, IsMeta
            <3> QED BY <2>6, <3>1
        <2>9. \A key \in {"path", "linkpath"} : \A v :
                 /\ IsMeta(Set(key, x, v))
                 /\ DOMAIN v \subseteq RecordKeys => DOMAIN Set(key, x, v) \subseteq RecordKeys
            <3> HIDE DEF x
            <3> SUFFICES ASSUME NEW key \in {"path", "linkpath"}, NEW v
                         PROVE  /\ IsMeta(Set(key, x, v))
                                /\ \/ ~(DOMAIN v \subseteq RecordKeys)
                                   \/ DOMAIN Set(key, x, v) \subseteq RecordKeys
                OBVIOUS
            <3>1. IsMeta(Set(key, x, v)) /\ DOMAIN Set(key, x, v) = DOMAIN v \cup {key}
                BY DEF Set, IsMeta
            <3> QED BY <3>1, KeyFacts
        <2> HIDE DEF y, x
        <2>10. Metas(j + 1)
            <3> USE <2>3 DEF Metas
            <3> HIDE DEF Kept, Alone, Listed, o
            <3>1. CASE o.type = "g"
                BY <2>7, <2>8, <3>1
            <3>2. CASE o.type = "x"
                BY <2>7, <2>8, <3>2
            <3>3. CASE o.type \in {"L", "K"}
                BY <2>7, <2>9, <3>3
            <3>4. CASE o.type \notin MetadataTypes
                BY <2>7, <3>4, NoMetaFacts
            <3> QED BY <3>1, <3>2, <3>3, <3>4 DEF MetadataTypes
        <2>11. Alone(j + 1)
            <3>1. CASE o.type = "g"
                <4>1. b.own = NoMeta
                    <5>1. j = 0 \/ j > 0
                        OBVIOUS
                    <5> QED BY <2>3, <2>4, <3>1, <5>1
                <4> QED BY <2>7, <3>1, <4>1
            <3>2. CASE o.type \notin MetadataTypes
                BY <2>7, <3>2
            <3>3. CASE o.type \in MetadataTypes \ {"g"}
                BY <3>3
            <3> QED BY <3>1, <3>2, <3>3
        <2>12. /\ Listed(j + 1)
               /\ Len(b.members) \in Nat /\ Len(c.members) \in Nat
               /\ Len(b.members) <= Len(c.members)
               /\ \A i \in 1..Len(b.members) : c.members[i] = b.members[i]
            <3>1. CASE o.type \in MetadataTypes
                <4>1. c.members = b.members
                    BY <2>7, <3>1 DEF MetadataTypes
                <4> QED BY <2>3, <4>1, SequenceFacts
            <3>2. CASE o.type \notin MetadataTypes
                <4> DEFINE e == MemberOf(b, o)
                           s == b.members
                           u == c.members
                <4>1. Good(e)
                    <5>1. FileType(o.type) # "unknown"
                        BY <2>4, <3>2 DEF Readable
                    <5>2. DOMAIN b.own \subseteq RecordKeys /\ DOMAIN b.global \subseteq RecordKeys
                        BY <2>3
                    <5> HIDE DEF b, o
                    <5> QED BY <2>5, <5>1, <5>2, MemberFacts
                <4>2. u = Append(s, e) /\ IsSequence(s) /\ \A i \in 1..Len(s) : Good(s[i])
                    BY <2>3, <2>7, <3>2
                <4> HIDE DEF e, s, u
                <4>3. /\ IsSequence(u) /\ Len(u) = Len(s) + 1 /\ u[Len(s) + 1] = e
                      /\ \A i \in 1..Len(s) : u[i] = s[i]
                    BY <4>2, AppendFacts
                <4>4. Len(s) \in Nat /\ \A i \in 1..Len(s) + 1 : i = Len(s) + 1 \/ i \in 1..Len(s)
                    BY <4>2, SequenceFacts
                <4>5. \A i \in 1..Len(u) : Good(u[i])
                    BY <4>1, <4>2, <4>3, <4>4
                <4>6. Len(u) \in Nat /\ Len(s) <= Len(u)
                    BY <4>3, <4>4
                <4> QED BY <4>3, <4>4, <4>5, <4>6 DEF s, u
            <3> QED BY <3>1, <3>2
        <2>13. Kept(j + 1)
            <3> SUFFICES ASSUME NEW k \in 0..j + 1
                         PROVE  /\ Len(a[k].members) \in Nat
                                /\ Len(a[k].members) <= Len(c.members)
                                /\ \A i \in 1..Len(a[k].members) : c.members[i] = a[k].members[i]
                OBVIOUS
            <3>1. CASE k = j + 1
                BY <2>12, <3>1
            <3>2. CASE k \in 0..j
                <4> DEFINE s == a[k].members
                           u == b.members
                           w == c.members
                <4>1. /\ Len(s) \in Nat /\ Len(s) <= Len(u) /\ \A i \in 1..Len(s) : u[i] = s[i]
                    BY <2>3, <3>2
                <4>2. /\ Len(u) \in Nat /\ Len(w) \in Nat /\ Len(u) <= Len(w)
                      /\ \A i \in 1..Len(u) : w[i] = u[i]
                    BY <2>12
                <4> HIDE DEF s, u, w
                <4>3. Len(s) \in Nat /\ Len(s) <= Len(w) /\ \A i \in 1..Len(s) : w[i] = s[i]
                    BY <4>1, <4>2
                <4> QED BY <4>3 DEF s, w
            <3> QED BY <3>1, <3>2
        <2> HIDE DEF Kept, Metas, Alone, Listed
        <2> QED BY <2>7, <2>10, <2>11, <2>12, <2>13 DEF P
    <1>4. n \in T
        <2> HIDE DEF T
        <2> QED BY <1>1, <1>2, <1>3, Induction
    <1>5. P(n)
        <2> HIDE DEF P
        <2> QED BY <1>1, <1>4
    <1> HIDE DEF T
    <1> QED BY <1>5 DEF a, After

LEMMA ReadFieldsFacts ==
    ASSUME NEW fields, fields["prefix"] = Empty
    PROVE  ReadFields(fields) = HeaderMeaning(fields)
    <1>1. fields["prefix"].len = 0
        <2>1. Empty.len = 0
            BY DEF Empty
        <2> QED BY <2>1
    <1>2. ReadFields(fields) = [key \in HeaderKeys |-> fields[key]]
        BY <1>1 DEF ReadFields
    <1>3. HeaderMeaning(fields) = [key \in HeaderKeys |-> fields[key]]
        BY DEF HeaderMeaning
    <1> QED BY <1>2, <1>3

(* The n-th object of a complete tar, and what is known after it.          *)
LEMMA ObjectFacts ==
    ASSUME NEW t, Complete(t), NEW n \in 1..Len(t)
    PROVE  LET o == t[n]
               b == After(t, n - 1)
               c == After(t, n)
               l == Len(c.members)
           IN
           /\ Readable(o) /\ IsSequence(o.payload) /\ Len(o.payload) \in Nat
           /\ o.type \in MetadataTypes => n + 1 \in 1..Len(t)
           /\ o.type = "g" => /\ b.own = NoMeta /\ c.own = NoMeta /\ c.members = b.members
                              /\ c.global = Over(Overlay(o.payload), b.global)
           /\ o.type = "x" => /\ c.own = Over(Overlay(o.payload), b.own)
                              /\ c.global = b.global /\ c.members = b.members
           /\ o.type = "L" => /\ c.own = Set("path", o.payload[1].value, b.own)
                              /\ c.global = b.global /\ c.members = b.members
           /\ o.type = "K" => /\ c.own = Set("linkpath", o.payload[1].value, b.own)
                              /\ c.global = b.global /\ c.members = b.members
           /\ o.type \notin MetadataTypes =>
                /\ c.global = b.global /\ c.own = NoMeta
                /\ l = Len(b.members) + 1 /\ l \in 1..Len(Meaning(t))
                /\ \A k \in 1..Len(b.members) : c.members[k] = b.members[k]
                /\ c.members[l] = MemberOf(b, o) /\ Meaning(t)[l] = MemberOf(b, o)
                /\ MemberOf(b, o).meta["size"] = Len(o.payload)
    <1> DEFINE o == t[n]
               b == After(t, n - 1)
               c == After(t, n)
               l == Len(c.members)
               e == After(t, Len(t))
    <1>1. Len(t) \in Nat /\ n - 1 \in 0..Len(t) /\ n \in 0..Len(t) /\ Len(t) \in 0..Len(t)
        BY FlatFacts
    <1>2. Known(b) /\ IsSequence(b.members) /\ c = Interpret(b, o)
        BY <1>1, MeaningFacts, InterpretationFacts DEF After
    <1>3. /\ n - 1 = 0 \/ t[n - 1].type \notin MetadataTypes \ {"g"} => b.own = NoMeta
        BY <1>1, MeaningFacts
    <1>4. /\ Readable(o) /\ (o.type = "g" /\ n > 1 => t[n - 1].type \notin MetadataTypes \ {"g"})
          /\ (n = Len(t) => o.type \notin MetadataTypes)
          /\ \A i \in 1..Len(Meaning(t)) : Meaning(t)[i].meta["size"] = Len(Meaning(t)[i].content)
        BY DEF Complete
    <1>5. Meaning(t) = e.members
        BY DEF Meaning, After
    <1>6. /\ Len(c.members) \in Nat /\ Len(c.members) <= Len(e.members)
          /\ \A i \in 1..Len(c.members) : e.members[i] = c.members[i]
        BY <1>1, MeaningFacts
    <1> HIDE DEF o, b, c, e
    <1>7. IsSequence(o.payload) /\ Len(o.payload) \in Nat
        BY <1>4, SequenceFacts DEF Readable
    <1>8. o.type \in MetadataTypes => n + 1 \in 1..Len(t)
        BY <1>1, <1>4
    <1>9. o.type = "g" => b.own = NoMeta
        BY <1>1, <1>3, <1>4
    <1>10. ASSUME o.type \notin MetadataTypes
           PROVE  /\ l = Len(b.members) + 1 /\ l \in 1..Len(Meaning(t))
                  /\ \A k \in 1..Len(b.members) : c.members[k] = b.members[k]
                  /\ c.members[l] = MemberOf(b, o) /\ Meaning(t)[l] = MemberOf(b, o)
                  /\ MemberOf(b, o).meta["size"] = Len(o.payload)
        <2> DEFINE s == b.members
                   m == MemberOf(b, o)
        <2>1. c.members = Append(s, m)
            BY <1>2, <1>10, InterpretFacts
        <2>2. m.content = o.payload
            BY DEF MemberOf
        <2> HIDE DEF s, m
        <2>3. /\ Len(c.members) = Len(s) + 1 /\ c.members[Len(s) + 1] = m
              /\ \A k \in 1..Len(s) : c.members[k] = s[k]
            BY <1>2, <2>1, AppendFacts DEF s
        <2>4. Len(s) \in Nat
            BY <1>2, SequenceFacts DEF s
        <2>5. l = Len(s) + 1 /\ l \in 1..Len(c.members) /\ c.members[l] = m
            BY <2>3, <2>4
        <2>6. l \in 1..Len(Meaning(t)) /\ Meaning(t)[l] = m
            BY <1>1, <1>5, <1>6, <2>5
        <2>7. m.meta["size"] = Len(o.payload)
            BY <1>4, <2>2, <2>6
        <2> QED BY <2>3, <2>5, <2>6, <2>7 DEF s, m
    <1>11. /\ o.type = "g" => /\ c.own = b.own /\ c.members = b.members
                              /\ c.global = Over(Overlay(o.payload), b.global)
           /\ o.type = "x" => /\ c.own = Over(Overlay(o.payload), b.own)
                              /\ c.global = b.global /\ c.members = b.members
           /\ o.type = "L" => /\ c.own = Set("path", o.payload[1].value, b.own)
                              /\ c.global = b.global /\ c.members = b.members
           /\ o.type = "K" => /\ c.own = Set("linkpath", o.payload[1].value, b.own)
                              /\ c.global = b.global /\ c.members = b.members
           /\ o.type \notin MetadataTypes => c.global = b.global /\ c.own = NoMeta
        BY <1>2, InterpretFacts
    <1> QED BY <1>4, <1>7, <1>8, <1>9, <1>10, <1>11 DEF o, b, c

(***************************************************************************)
(* The reading: where cmd_convert is in the tar, and what it knows there.  *)
(* After i whole objects; at the header of object i; with the header of a  *)
(* member taken; and with left cells of its content still to copy.         *)
(***************************************************************************)
Delivered(i) ==
    /\ Len(delivered) = Len(After(tar, i).members)
    /\ \A k \in 1..Len(delivered) : delivered[k] = After(tar, i).members[k].meta

Reading(i) ==
    /\ pos = Least(Offset(tar, i), avail)
    /\ global = After(tar, i).global /\ After(tar, i).own = NoMeta
    /\ Delivered(i)

Heading(i) ==
    /\ pos = Offset(tar, i - 1) + Block /\ block = HeaderOf(tar[i])
    /\ global = After(tar, i - 1).global /\ meta = Over(After(tar, i - 1).own, global)
    /\ Delivered(i - 1)

Taken(i) ==
    /\ tar[i].type \notin MetadataTypes
    /\ global = After(tar, i).global /\ Delivered(i)
    /\ Len(delivered) >= 1 /\ meta = delivered[Len(delivered)]

Writing(i) == Taken(i) /\ pos = Offset(tar, i - 1) + Block

Copying(i) ==
    /\ Taken(i) /\ left \in 1..Len(tar[i].payload)
    /\ pos = Offset(tar, i - 1) + Block + (Len(tar[i].payload) - left)
    /\ pos + Aligned(left) = Offset(tar, i)
    /\ Len(out) >= 1

IInv ==
    /\ tar \in Tars /\ TypeOK /\ MembersFaithful
    /\ IsSequence(delivered) /\ IsSequence(index) /\ IsSequence(out)
    /\ pc = "read" => \E i \in 0..Len(tar) : Reading(i)
    /\ pc = "headers" => \E i \in 1..Len(tar) : Heading(i)
    /\ pc = "write" => \E i \in 1..Len(tar) : Writing(i)
    /\ pc = "content" => \E i \in 1..Len(tar) : Copying(i)
    /\ pc \in {"finish", "done"} =>
         pos = End(tar) + 2 * Block /\ Len(delivered) = Len(Members[tar])
    /\ pc = "failed" => faulted \/ avail < End(tar) + 2 * Block

LEMMA PlaceFacts ==
    ASSUME NEW t \in Tars, Complete(t)
    PROVE  /\ Len(t) \in Nat /\ End(t) \in Nat /\ Len(Stream[t]) \in Nat
           /\ End(t) + 2 * Block <= Len(Stream[t]) /\ Offset(t, 0) = 0
           /\ \A n \in 0..Len(t) : Offset(t, n) \in Nat /\ Offset(t, n) <= End(t)
           /\ \A n \in 1..Len(t) :
                /\ n - 1 \in 0..Len(t) /\ n \in 0..Len(t) /\ Len(t[n].payload) \in Nat
                /\ Aligned(Len(t[n].payload)) \in Nat
                /\ Len(t[n].payload) <= Aligned(Len(t[n].payload))
                /\ Offset(t, n) = Offset(t, n - 1) + Block + Aligned(Len(t[n].payload))
    <1>1. /\ Len(t) \in Nat /\ Len(t) \in 0..Len(t)
          /\ \A n \in 1..Len(t) : n - 1 \in 0..Len(t) /\ n \in 0..Len(t)
        BY FlatFacts
    <1>2. /\ End(t) \in Nat /\ Len(Stream[t]) \in Nat
          /\ End(t) + 2 * Block <= Len(Stream[t])
        BY StreamFacts, SequenceFacts
    <1>3. \A n \in 0..Len(t) : Offset(t, n) \in Nat /\ Offset(t, n) <= End(t)
        BY <1>1, FlatFacts DEF End
    <1>4. \A n \in 1..Len(t) :
            /\ Len(t[n].payload) \in Nat
            /\ Aligned(Len(t[n].payload)) \in Nat
            /\ Len(t[n].payload) <= Aligned(Len(t[n].payload))
            /\ Offset(t, n) = Offset(t, n - 1) + Block + Aligned(Len(t[n].payload))
        BY FlatFacts, AlignedFacts
    <1> QED BY <1>1, <1>2, <1>3, <1>4, FlatFacts

(* The members of a complete tar, and those known after n objects.         *)
LEMMA MembersFacts ==
    ASSUME NEW t \in Tars, Complete(t)
    PROVE  /\ Members[t] = After(t, Len(t)).members /\ IsSequence(Members[t])
           /\ Len(Members[t]) \in Nat
           /\ \A j \in 1..Len(Members[t]) :
                Good(Members[t][j]) /\ Members[t][j].meta["size"] = Len(Members[t][j].content)
           /\ \A n \in 0..Len(t) :
                /\ Len(After(t, n).members) \in Nat /\ Len(After(t, n).members) <= Len(Members[t])
                /\ \A j \in 1..Len(After(t, n).members) : Members[t][j] = After(t, n).members[j]
    <1>1. Members[t] = Meaning(t) /\ Meaning(t) = After(t, Len(t)).members
        BY DEF Members, Meaning, After
    <1>2. Len(t) \in 0..Len(t)
        BY PlaceFacts
    <1>3. IsSequence(Members[t]) /\ Len(Members[t]) \in Nat
        BY <1>1, <1>2, MeaningFacts, SequenceFacts
    <1>4. \A j \in 1..Len(Members[t]) : Good(Members[t][j])
        BY <1>1, <1>2, MeaningFacts
    <1>5. \A j \in 1..Len(Members[t]) : Members[t][j].meta["size"] = Len(Members[t][j].content)
        BY <1>1 DEF Complete
    <1>6. \A n \in 0..Len(t) :
            /\ Len(After(t, n).members) \in Nat /\ Len(After(t, n).members) <= Len(Members[t])
            /\ \A j \in 1..Len(After(t, n).members) : Members[t][j] = After(t, n).members[j]
        BY <1>1, <1>2, MeaningFacts
    <1> QED BY <1>1, <1>3, <1>4, <1>5, <1>6

LEMMA ExceptFacts ==
    ASSUME NEW s, IsSequence(s), NEW i \in 1..Len(s), NEW e
    PROVE  LET r == [s EXCEPT ![i] = e] IN
           /\ IsSequence(r) /\ Len(r) = Len(s) /\ r[i] = e
           /\ \A j \in 1..Len(s) : j # i => r[j] = s[j]
    <1> DEFINE S == {s[j] : j \in 1..Len(s)} \cup {e}
               r == [s EXCEPT ![i] = e]
    <1>1. s \in Seq(S) /\ e \in S /\ Len(s) \in Nat /\ DOMAIN s = 1..Len(s)
        BY InSeq, SequenceFacts
    <1> HIDE DEF S
    <1>2. r \in Seq(S) /\ Len(r) = Len(s)
        BY <1>1, ExceptSeq
    <1>3. r[i] = e /\ \A j \in 1..Len(s) : j # i => r[j] = s[j]
        BY <1>1
    <1> QED BY <1>2, <1>3, SeqIsSequence

IsHeader(b) == b = [type |-> b.type, fields |-> b.fields]

LEMMA IsHeaderFacts ==
    IsHeader(ZeroHeader) /\ \A o : IsHeader(HeaderOf(o))
    BY DEF IsHeader, ZeroHeader, HeaderOf

(* The reading begins before the first object.                             *)
LEMMA Initially ==
    ASSUME \A t \in Tars : Complete(t), Init
    PROVE  IInv
    <1> USE DEF Init
    <1>1. Complete(tar)
        OBVIOUS
    <1>2. Len(Stream[tar]) \in Nat /\ Offset(tar, 0) = 0 /\ Len(tar) \in Nat
        BY <1>1, PlaceFacts
    <1>3. After(tar, 0) = Nothing
        BY <1>1, <1>2, InterpretationFacts DEF After
    <1>4. IsSequence(<< >>) /\ Len(<< >>) = 0
        BY DEF IsSequence
    <1>5. Delivered(0)
        BY <1>3, <1>4 DEF Delivered, Nothing
    <1>6. Reading(0)
        BY <1>2, <1>3, <1>5 DEF Reading, Nothing, Least
    <1>7. TypeOK
        <2>1. avail \in 0..Len(Stream[tar]) /\ pos \in 0..avail /\ left \in Nat
            BY <1>2
        <2>2. DOMAIN global \subseteq RecordKeys /\ DOMAIN meta \subseteq MetaKeys
            BY NoMetaFacts
        <2>3. Len(index) <= Len(out)
            BY <1>4
        <2>4. block = [type |-> block.type, fields |-> block.fields]
            BY IsHeaderFacts DEF IsHeader
        <2> QED BY <2>1, <2>2, <2>3, <2>4 DEF TypeOK
    <1>8. Len(Members[tar]) \in Nat
        BY <1>1, MembersFacts
    <1>9. MembersFaithful
        BY <1>4, <1>8 DEF MembersFaithful
    <1>10. 0 \in 0..Len(tar)
        BY <1>2
    <1> QED BY <1>4, <1>6, <1>7, <1>9, <1>10 DEF IInv

(* A header, or the end marker, after whole objects.                       *)
LEMMA ReadMetaKeeps ==
    ASSUME IInv, Complete(tar), ReadMeta
    PROVE  IInv'
    <1> USE DEF IInv, TypeOK, ReadMeta
    <1>1. PICK i \in 0..Len(tar) : Reading(i)
        OBVIOUS
    <1>2. /\ Len(tar) \in Nat /\ End(tar) \in Nat /\ Offset(tar, i) \in Nat
          /\ Offset(tar, i) <= End(tar) /\ avail \in Nat
        BY PlaceFacts
    <1>3. pos = Offset(tar, i) /\ pos + Block <= avail /\ pos \in Nat
        BY <1>1, <1>2, BlockFacts DEF Reading, Least, Has
    <1>4. DOMAIN global \subseteq MetaKeys
        BY KeyFacts
    <1>5. CASE i < Len(tar)
        <2> DEFINE n == i + 1
        <2>1. n \in 1..Len(tar) /\ n - 1 = i
            BY <1>2, <1>5
        <2> HIDE DEF n
        <2>2. ~IsZero(pos) /\ HeaderAt(pos) = HeaderOf(tar[n])
            BY <1>3, <2>1, HeaderFacts
        <2>3. /\ pc' = "headers" /\ pos' = pos + Block /\ block' = HeaderOf(tar[n])
              /\ meta' = global
            BY <2>2
        <2>4. IsHeader(block')
            BY <2>1, <2>3, IsHeaderFacts
        <2>5. IsMeta(After(tar, i).global)
            BY MeaningFacts
        <2>6. meta' = Over(After(tar, i).own, global)
            BY <1>1, <2>3, <2>5, OverNone DEF Reading
        <2>7. Heading(n)'
            BY <1>1, <1>3, <2>1, <2>3, <2>6 DEF Reading, Heading, Delivered
        <2>8. pos' \in 0..avail
            BY <1>2, <1>3, <2>3, BlockFacts
        <2>9. TypeOK'
            BY <1>4, <2>3, <2>4, <2>8 DEF IsHeader
        <2>10. MembersFaithful'
            BY DEF MembersFaithful
        <2> QED BY <2>1, <2>3, <2>7, <2>9, <2>10
    <1>6. CASE i = Len(tar)
        <2>1. pos = End(tar) /\ IsZero(pos) /\ IsZero(pos + Block)
            BY <1>3, <1>6, TailFacts DEF End
        <2>2. /\ pos' = End(tar) + 2 * Block /\ pc' = "finish" /\ meta' = global
              /\ block' = ZeroHeader /\ pos' <= avail
            BY <2>1 DEF HeaderAt, Has
        <2>3. Len(delivered) = Len(Members[tar])
            BY <1>1, <1>6, MembersFacts DEF Reading, Delivered
        <2>4. pos' \in 0..avail
            <3> HIDE DEF IInv, TypeOK, ReadMeta
            <3> DEFINE e == End(tar)
            <3>1. e \in Nat /\ avail \in Nat /\ Block \in Nat
                BY <1>2, BlockFacts
            <3>2. pos' = e + 2 * Block /\ pos' <= avail
                BY <2>2
            <3> HIDE DEF e
            <3> QED BY <3>1, <3>2
        <2>5. IsHeader(block')
            BY <2>2, IsHeaderFacts
        <2>6. TypeOK'
            BY <1>4, <2>2, <2>4, <2>5 DEF IsHeader
        <2>7. MembersFaithful'
            BY DEF MembersFaithful
        <2> QED BY <2>2, <2>3, <2>6, <2>7
    <1> QED BY <1>2, <1>5, <1>6

(* Where the header after a metadata object is, and what it says.          *)
LEMMA AfterObject ==
    ASSUME IInv, Complete(tar), NEW i \in 1..Len(tar), Heading(i),
           block.type \in MetadataTypes, HeaderAfter(Size)
    PROVE  /\ Size = Len(tar[i].payload) /\ Payload(Size) = tar[i].payload
           /\ i + 1 \in 1..Len(tar) /\ pos' = Offset(tar, i) + Block
           /\ block' = HeaderOf(tar[i + 1]) /\ IsHeader(block') /\ pos' \in 0..avail
    <1> DEFINE o == tar[i]
               l == Len(o.payload)
    <1>1. block.type = o.type /\ block.fields = o.fields /\ pos = Offset(tar, i - 1) + Block
        BY DEF Heading, HeaderOf
    <1>2. Readable(o) /\ IsSequence(o.payload) /\ l \in Nat /\ i + 1 \in 1..Len(tar)
        BY <1>1, ObjectFacts
    <1>3. Size = l
        BY <1>1, <1>2 DEF Readable, Size
    <1>4. tar \in Tars /\ avail \in Nat
        BY StreamFacts, SequenceFacts DEF IInv, TypeOK
    <1>5. /\ Offset(tar, i) = Offset(tar, i - 1) + Block + Aligned(l) /\ Offset(tar, i - 1) \in Nat
          /\ Aligned(l) \in Nat /\ Offset(tar, i) \in Nat
        BY <1>4, PlaceFacts
    <1>6. Payload(Size) = o.payload
        <2>1. l \in Nat /\ 0 + l <= l /\ pos = Offset(tar, i - 1) + Block + 0
            BY <1>1, <1>2, <1>5, BlockFacts
        <2>2. /\ IsSequence(Payload(l)) /\ Len(Payload(l)) = l
              /\ \A k \in 1..l : Payload(l)[k] = o.payload[0 + k]
            BY <1>4, <2>1, PayloadFacts
        <2>3. \A k \in 1..l : 0 + k = k
            BY <1>2
        <2> QED BY <1>2, <1>3, <2>2, <2>3, SameSequence
    <1>7. /\ pos' = Offset(tar, i) + Block /\ block' = HeaderAt(Offset(tar, i))
          /\ pos' <= avail /\ pos' \in Nat
        <2>1. pos + Aligned(l) = Offset(tar, i)
            BY <1>1, <1>5, BlockFacts
        <2>2. /\ pos' = pos + Aligned(l) + Block /\ block' = HeaderAt(pos + Aligned(l))
              /\ pos + (Aligned(l) + Block) <= avail
            BY <1>3 DEF HeaderAfter, Has
        <2>3. pos \in Nat
            BY <1>1, <1>5, BlockFacts
        <2> QED BY <1>5, <2>1, <2>2, <2>3, BlockFacts
    <1>8. block' = HeaderOf(tar[i + 1])
        <2> DEFINE n == i + 1
        <2>1. n \in 1..Len(tar) /\ n - 1 = i
            BY <1>2
        <2> HIDE DEF n
        <2>2. HeaderAt(Offset(tar, n - 1)) = HeaderOf(tar[n])
            BY <1>4, <2>1, HeaderFacts
        <2> QED BY <1>7, <2>1, <2>2 DEF n
    <1>9. IsHeader(block')
        BY <1>2, <1>8, IsHeaderFacts
    <1> QED BY <1>2, <1>3, <1>4, <1>6, <1>7, <1>8, <1>9

(* After a metadata object the reader holds the header that follows it.    *)
LEMMA Advance ==
    ASSUME IInv, Complete(tar), NEW i \in 1..Len(tar), Heading(i), pc = "headers",
           block.type \in MetadataTypes, HeaderAfter(Size),
           UNCHANGED <<tar, avail, pc, left, out, index, delivered, faulted>>,
           global' = After(tar, i).global, meta' = Over(After(tar, i).own, After(tar, i).global),
           After(tar, i).members = After(tar, i - 1).members
    PROVE  IInv'
    <1>1. /\ i + 1 \in 1..Len(tar) /\ pos' = Offset(tar, i) + Block
          /\ block' = HeaderOf(tar[i + 1]) /\ IsHeader(block') /\ pos' \in 0..avail
        BY AfterObject
    <1> DEFINE n == i + 1
    <1>2. n - 1 = i /\ n \in 1..Len(tar)
        BY <1>1
    <1>3. i \in 0..Len(tar)
        OBVIOUS
    <1>4. /\ DOMAIN After(tar, i).global \subseteq RecordKeys
          /\ DOMAIN After(tar, i).own \subseteq RecordKeys
        BY <1>3, MeaningFacts
    <1>5. DOMAIN meta' = DOMAIN After(tar, i).own \cup DOMAIN After(tar, i).global
        BY DEF Over
    <1>6. DOMAIN global' \subseteq RecordKeys /\ DOMAIN meta' \subseteq MetaKeys
        BY <1>4, <1>5, KeyFacts
    <1>7. TypeOK'
        BY <1>1, <1>6 DEF IInv, TypeOK, IsHeader
    <1>8. MembersFaithful'
        BY DEF IInv, MembersFaithful
    <1>9. Delivered(i)'
        BY DEF Heading, Delivered
    <1>10. block' = HeaderOf(tar[n])
        BY <1>1
    <1> HIDE DEF n
    <1>11. Heading(n)'
        BY <1>1, <1>2, <1>9, <1>10 DEF Heading
    <1> QED BY <1>2, <1>7, <1>8, <1>11 DEF IInv

(* The four metadata objects: what the reader holds after one is what the  *)
(* format says is known then.                                              *)
LEMMA MetadataKeeps ==
    ASSUME IInv, Complete(tar),
           \/ ReadName("L", "path") \/ ReadName("K", "linkpath") \/ ReadExtended \/ ReadGlobal
    PROVE  IInv'
    <1>1. /\ pc = "headers" /\ block.type \in MetadataTypes /\ HeaderAfter(Size)
          /\ UNCHANGED <<tar, avail, pc, left, out, index, delivered, faulted>>
        BY DEF ReadName, ReadExtended, ReadGlobal, MetadataTypes
    <1>2. PICK i \in 1..Len(tar) : Heading(i)
        BY <1>1 DEF IInv
    <1> DEFINE o == tar[i]
               p == o.payload
               b == After(tar, i - 1)
               c == After(tar, i)
    <1>3. block.type = o.type /\ global = b.global /\ meta = Over(b.own, b.global)
        BY <1>2 DEF Heading, HeaderOf
    <1>4. Size = Len(p) /\ Payload(Size) = p
        BY <1>1, <1>2, AfterObject
    <1>5. /\ Readable(o) /\ IsSequence(p)
          /\ o.type = "g" => /\ b.own = NoMeta /\ c.own = NoMeta /\ c.members = b.members
                             /\ c.global = Over(Overlay(p), b.global)
          /\ o.type = "x" => /\ c.own = Over(Overlay(p), b.own)
                             /\ c.global = b.global /\ c.members = b.members
          /\ o.type = "L" => /\ c.own = Set("path", p[1].value, b.own)
                             /\ c.global = b.global /\ c.members = b.members
          /\ o.type = "K" => /\ c.own = Set("linkpath", p[1].value, b.own)
                             /\ c.global = b.global /\ c.members = b.members
        BY ObjectFacts
    <1>6. IsMeta(b.global) /\ IsMeta(c.global) /\ IsMeta(meta)
        <2>1. Len(tar) \in Nat /\ i - 1 \in 0..Len(tar) /\ i \in 0..Len(tar)
            BY FlatFacts
        <2>2. IsMeta(b.global) /\ IsMeta(c.global)
            BY <2>1, MeaningFacts
        <2>3. IsMeta(Over(b.own, b.global))
            BY OverFacts
        <2> QED BY <1>3, <2>2, <2>3
    <1>7. Size # 0 => Payload(Size)[1].value = p[1].value
        BY <1>4
    <1>8. o.type \in {"L", "K"} => Size # 0
        <2>1. o.type \in {"L", "K"} => p # << >>
            BY <1>5 DEF Readable, MetadataTypes
        <2>2. p = << >> <=> Len(p) = 0
            BY <1>5, SequenceFacts
        <2> HIDE DEF p
        <2> QED BY <1>4, <2>1, <2>2
    <1>13. o.type \in {"x", "g"} => \A k \in 1..Len(p) : ~SignLost(p[k])
        BY <1>5 DEF Readable, MetadataTypes
    <1> HIDE DEF o, p, b, c
    <1>9. CASE ReadName("L", "path")
        <2>1. o.type = "L" /\ global' = global /\ Size # 0
            BY <1>3, <1>8, <1>9 DEF ReadName
        <2>2. meta' = Set("path", p[1].value, meta)
            BY <1>7, <1>9, <2>1 DEF ReadName
        <2>3. Set("path", p[1].value, Over(b.own, b.global))
                = Over(Set("path", p[1].value, b.own), b.global)
            BY OverSet
        <2>4. meta' = Over(c.own, c.global) /\ global' = c.global /\ c.members = b.members
            BY <1>3, <1>5, <2>1, <2>2, <2>3
        <2> QED BY <1>1, <1>2, <2>4, Advance DEF b, c
    <1>10. CASE ReadName("K", "linkpath")
        <2>1. o.type = "K" /\ global' = global /\ Size # 0
            BY <1>3, <1>8, <1>10 DEF ReadName
        <2>2. meta' = Set("linkpath", p[1].value, meta)
            BY <1>7, <1>10, <2>1 DEF ReadName
        <2>3. Set("linkpath", p[1].value, Over(b.own, b.global))
                = Over(Set("linkpath", p[1].value, b.own), b.global)
            BY OverSet
        <2>4. meta' = Over(c.own, c.global) /\ global' = c.global /\ c.members = b.members
            BY <1>3, <1>5, <2>1, <2>2, <2>3
        <2> QED BY <1>1, <1>2, <2>4, Advance DEF b, c
    <1>11. CASE ReadExtended
        <2>1. o.type = "x" /\ global' = global /\ meta' = Parse(meta, p)
            BY <1>3, <1>4, <1>11 DEF ReadExtended
        <2>2. Parse(meta, p) = Over(Overlay(p), meta)
            BY <1>5, <1>6, <1>13, <2>1, ParseOver
        <2>3. Over(Overlay(p), Over(b.own, b.global)) = Over(Over(Overlay(p), b.own), b.global)
            BY OverAssociative
        <2>4. meta' = Over(c.own, c.global) /\ global' = c.global /\ c.members = b.members
            BY <1>3, <1>5, <2>1, <2>2, <2>3
        <2> QED BY <1>1, <1>2, <2>4, Advance DEF b, c
    <1>12. CASE ReadGlobal
        <2>1. o.type = "g" /\ global' = Parse(b.global, p) /\ meta' = global'
            BY <1>3, <1>4, <1>12 DEF ReadGlobal
        <2>2. Parse(b.global, p) = Over(Overlay(p), b.global)
            BY <1>5, <1>6, <1>13, <2>1, ParseOver
        <2>3. global' = c.global /\ c.members = b.members /\ c.own = NoMeta
            BY <1>5, <2>1, <2>2
        <2>4. meta' = Over(c.own, c.global)
            BY <1>6, <2>1, <2>3, OverNone
        <2> QED BY <1>1, <1>2, <2>3, <2>4, Advance DEF b, c
    <1> QED BY <1>9, <1>10, <1>11, <1>12

(* The header of a member completes its metadata.                          *)
LEMMA TakeHeaderKeeps ==
    ASSUME IInv, Complete(tar), TakeHeader
    PROVE  IInv'
    <1> USE DEF IInv, TypeOK, TakeHeader
    <1>1. PICK i \in 1..Len(tar) : Heading(i)
        OBVIOUS
    <1> DEFINE o == tar[i]
               b == After(tar, i - 1)
               c == After(tar, i)
               l == Len(c.members)
               m == MemberOf(b, o)
    <1>2. /\ block.type = o.type /\ block.fields = o.fields /\ o.type \notin MetadataTypes
          /\ FileType(o.type) # "unknown"
          /\ global = b.global /\ meta = Over(b.own, b.global) /\ Delivered(i - 1)
          /\ pos = Offset(tar, i - 1) + Block
        BY <1>1 DEF Heading, HeaderOf
    <1>3. /\ Readable(o) /\ c.global = b.global
          /\ l = Len(b.members) + 1 /\ l \in 1..Len(Meaning(tar))
          /\ \A k \in 1..Len(b.members) : c.members[k] = b.members[k]
          /\ c.members[l] = m /\ Meaning(tar)[l] = m
        BY <1>2, ObjectFacts
    <1>4. Members[tar] = Meaning(tar) /\ Len(Members[tar]) \in Nat
        BY MembersFacts DEF Members
    <1>5. Good(m)
        <2>1. tar \in Tars /\ l \in 1..Len(Members[tar]) /\ Members[tar][l] = m
            BY <1>3, <1>4
        <2> HIDE DEF l, m
        <2>2. Good(Members[tar][l])
            BY <2>1, MembersFacts
        <2> QED BY <2>1, <2>2
    <1> HIDE DEF m
    <1>6. meta' = m.meta
        <2>1. ReadFields(o.fields) = HeaderMeaning(o.fields)
            <3>1. o.fields["prefix"] = Empty
                BY <1>2, <1>3 DEF Readable
            <3> QED BY <3>1, ReadFieldsFacts
        <2>2. meta' = Set("type", FileType(o.type),
                          Over(Over(b.own, b.global), HeaderMeaning(o.fields)))
            BY <1>2, <2>1
        <2> QED BY <2>2 DEF m, MemberOf
    <1> HIDE DEF o, b, c, l
    <1> DEFINE d == Len(delivered)
    <1>7. d = Len(b.members) /\ d \in Nat /\ \A k \in 1..d : delivered[k] = b.members[k].meta
        BY <1>2, SequenceFacts DEF Delivered, b
    <1>8. /\ IsSequence(delivered') /\ Len(delivered') = d + 1
          /\ delivered'[d + 1] = m.meta
          /\ \A k \in 1..d : delivered'[k] = delivered[k]
        <2>1. delivered' = Append(delivered, m.meta)
            BY <1>6
        <2> QED BY <2>1, AppendFacts
    <1>9. l = d + 1 /\ \A k \in 1..d + 1 : k = d + 1 \/ k \in 1..d
        BY <1>3, <1>7
    <1> HIDE DEF d
    <1>10. \A k \in 1..d + 1 : delivered'[k] = c.members[k].meta
        BY <1>3, <1>7, <1>8, <1>9
    <1>11. Taken(i)'
        <2>1. Delivered(i)'
            BY <1>8, <1>9, <1>10 DEF Delivered, c, l
        <2>2. Len(delivered') >= 1
            BY <1>7, <1>8
        <2>3. meta' = delivered'[Len(delivered')]
            BY <1>6, <1>8
        <2> QED BY <1>2, <1>3, <2>1, <2>2, <2>3 DEF Taken, o, b, c
    <1>12. Writing(i)'
        BY <1>2, <1>11 DEF Writing
    <1>13. MembersFaithful'
        <2>1. Len(delivered') <= Len(Members[tar])
            BY <1>3, <1>4, <1>8, <1>9
        <2>2. ASSUME NEW k \in 1..Len(delivered') PROVE delivered'[k] = Members[tar][k].meta
            <3>1. CASE k = d + 1
                BY <1>3, <1>4, <1>8, <1>9, <3>1
            <3>2. CASE k \in 1..d
                BY <1>8, <3>2 DEF MembersFaithful, d
            <3> QED BY <1>8, <1>9, <3>1, <3>2
        <2> QED BY <2>1, <2>2 DEF MembersFaithful
    <1>14. HeaderKeys \cup {"type"} \subseteq DOMAIN meta' /\ DOMAIN meta' \subseteq MetaKeys
        BY <1>5, <1>6 DEF Good
    <1>15. TypeOK'
        BY <1>14
    <1> QED BY <1>8, <1>12, <1>13, <1>15

(* An entry begins with its header, or an extended one and then its header.*)
LEMMA WriteMetaFacts ==
    ASSUME NEW m
    PROVE  IsSequence(WriteMeta(m)) /\ Len(WriteMeta(m)) \in {1, 2}
    <1> DEFINE h == [type |-> TypeChar(m["type"]), fields |-> Fields(m), payload |-> << >>]
               x == [type |-> "x", fields |-> [size |-> Len(Records(m))], payload |-> Records(m)]
    <1>1. WriteMeta(m) = IF Records(m) = << >> THEN <<h>> ELSE <<x, h>>
        BY DEF WriteMeta
    <1> HIDE DEF h, x
    <1>2. IsSequence(<<h>>) /\ Len(<<h>>) = 1 /\ IsSequence(<<x, h>>) /\ Len(<<x, h>>) = 2
        BY DEF IsSequence
    <1> QED BY <1>1, <1>2

(* What the entry being written is.                                        *)
LEMMA TakenFacts ==
    ASSUME IInv, Complete(tar), NEW i \in 1..Len(tar), Taken(i)
    PROVE  LET d == Len(delivered) IN
           /\ d \in 1..Len(Members[tar]) /\ meta = Members[tar][d].meta
           /\ Members[tar][d].content = tar[i].payload /\ After(tar, i).own = NoMeta
           /\ meta["size"] = Len(tar[i].payload)
    <1> DEFINE o == tar[i]
               m == MemberOf(After(tar, i - 1), o)
               d == Len(delivered)
    <1>1. /\ o.type \notin MetadataTypes /\ d = Len(After(tar, i).members) /\ d >= 1
          /\ meta = delivered[d]
        BY DEF Taken, Delivered
    <1>2. /\ d \in 1..Len(Meaning(tar)) /\ Meaning(tar)[d] = m /\ After(tar, i).own = NoMeta
          /\ m.meta["size"] = Len(o.payload)
        BY <1>1, ObjectFacts
    <1>3. m.content = o.payload
        BY DEF MemberOf
    <1>4. Members[tar] = Meaning(tar) /\ Len(Members[tar]) \in Nat /\ d \in Nat
        BY MembersFacts, SequenceFacts DEF Members, IInv
    <1> HIDE DEF m
    <1>5. d \in 1..d
        BY <1>1, <1>4
    <1>6. meta = Members[tar][d].meta
        BY <1>1, <1>5 DEF IInv, MembersFaithful
    <1> QED BY <1>2, <1>3, <1>4, <1>6

LEMMA WriteEntryKeeps ==
    ASSUME IInv, Complete(tar), WriteEntry
    PROVE  IInv'
    <1> USE DEF IInv, TypeOK, WriteEntry
    <1>1. PICK i \in 1..Len(tar) : Writing(i)
        OBVIOUS
    <1> DEFINE l == Len(tar[i].payload)
    <1>2. Taken(i) /\ pos = Offset(tar, i - 1) + Block
        BY <1>1 DEF Writing
    <1>3. left' = l /\ After(tar, i).own = NoMeta
        BY <1>2, TakenFacts
    <1>4. /\ i \in 0..Len(tar) /\ l \in Nat /\ Aligned(l) \in Nat /\ Offset(tar, i - 1) \in Nat
          /\ Offset(tar, i) = Offset(tar, i - 1) + Block + Aligned(l) /\ Offset(tar, i) \in Nat
        BY PlaceFacts
    <1>5. /\ IsSequence(out') /\ IsSequence(index') /\ Len(index') <= Len(out') /\ Len(out') >= 1
        <2> DEFINE w == WriteMeta(meta)
                   e == [type |-> TypeChar(meta["type"]), at |-> Len(out) + 1,
                         path |-> meta["path"]]
        <2>1. IsSequence(w) /\ Len(w) \in {1, 2} /\ out' = out \o w /\ index' = Append(index, e)
            BY WriteMetaFacts
        <2> HIDE DEF w, e
        <2>2. IsSequence(out \o w) /\ Len(out \o w) = Len(out) + Len(w)
            BY <2>1, ConcatFacts
        <2>3. IsSequence(Append(index, e)) /\ Len(Append(index, e)) = Len(index) + 1
            BY AppendFacts
        <2>4. Len(out) \in Nat /\ Len(index) \in Nat /\ Len(index) <= Len(out)
            BY SequenceFacts
        <2>5. IsSequence(out') /\ IsSequence(index')
            BY <2>1, <2>2, <2>3
        <2> DEFINE a == Len(out)
                   b == Len(index)
                   c == Len(w)
        <2>6. /\ a \in Nat /\ b \in Nat /\ b <= a /\ c \in {1, 2}
              /\ Len(out') = a + c /\ Len(index') = b + 1
            BY <2>1, <2>2, <2>3, <2>4
        <2> HIDE DEF a, b, c, TypeOK, IInv, WriteEntry
        <2>7. Len(index') <= Len(out') /\ Len(out') >= 1
            BY <2>6
        <2> QED BY <2>5, <2>7
    <1>6. MembersFaithful'
        BY DEF MembersFaithful
    <1>7. Delivered(i)'
        BY <1>2 DEF Taken, Delivered
    <1>8. CASE left' = 0
        <2>1. pc' = "read" /\ meta' = NoMeta /\ l = 0
            BY <1>3, <1>8
        <2>2. Aligned(l) = 0
            BY <2>1, AlignedFacts
        <2>3. pos = Offset(tar, i) /\ pos <= avail /\ avail \in Nat
            <3>1. Len(Stream[tar]) \in Nat
                BY PlaceFacts
            <3> QED BY <1>2, <1>4, <2>2, <3>1, BlockFacts
        <2>4. Reading(i)'
            BY <1>2, <1>3, <1>7, <2>1, <2>3 DEF Taken, Reading, Least
        <2>5. TypeOK'
            BY <1>3, <1>5, <2>1, NoMetaFacts
        <2> QED BY <1>4, <1>5, <1>6, <2>1, <2>4, <2>5
    <1>9. CASE left' # 0
        <2>1. pc' = "content" /\ meta' = meta
            BY <1>9
        <2>2. left' \in 1..l
            BY <1>3, <1>4, <1>9
        <2>3. Taken(i)'
            BY <1>2, <1>7, <2>1 DEF Taken
        <2>4. /\ pos = Offset(tar, i - 1) + Block + (l - left')
              /\ pos + Aligned(left') = Offset(tar, i)
            BY <1>2, <1>3, <1>4, BlockFacts
        <2>5. Copying(i)'
            BY <1>5, <2>2, <2>3, <2>4 DEF Copying
        <2>6. TypeOK'
            BY <1>3, <1>4, <1>5, <2>1
        <2> QED BY <1>5, <1>6, <2>1, <2>5, <2>6
    <1> QED BY <1>8, <1>9

(* The cells of content one step copies.                                   *)
LEMMA CopyFacts ==
    ASSUME IInv, Complete(tar), NEW i \in 1..Len(tar), Copying(i),
           NEW n \in Nat, n <= left
    PROVE  LET p == tar[i].payload IN
           /\ left \in 1..Len(p) /\ Len(p) \in Nat
           /\ IsSequence(Payload(n)) /\ Len(Payload(n)) = n
           /\ \A k \in 1..n : Payload(n)[k] = p[Len(p) - left + k]
    <1> DEFINE l == Len(tar[i].payload)
               e == l - left
    <1>1. tar \in Tars /\ l \in Nat /\ left \in 1..l /\ pos = Offset(tar, i - 1) + Block + e
        BY PlaceFacts DEF IInv, Copying
    <1>2. e \in Nat /\ e + n <= l
        BY <1>1
    <1> HIDE DEF e
    <1>3. /\ IsSequence(Payload(n)) /\ Len(Payload(n)) = n
          /\ \A k \in 1..n : Payload(n)[k] = tar[i].payload[e + k]
        BY <1>1, <1>2, PayloadFacts
    <1> QED BY <1>1, <1>3 DEF e

(* A block of content, the last one up to where the next object begins.    *)
LEMMA CopyBlockKeeps ==
    ASSUME IInv, Complete(tar), CopyBlock
    PROVE  IInv'
    <1>1. /\ pc = "content" /\ tar \in Tars /\ TypeOK /\ MembersFaithful
          /\ IsSequence(delivered) /\ IsSequence(index) /\ IsSequence(out)
        BY DEF CopyBlock, IInv
    <1>2. PICK i \in 1..Len(tar) : Copying(i)
        BY <1>1 DEF IInv
    <1> DEFINE l == Len(tar[i].payload)
               n == Least(left, Block)
    <1>3. /\ Taken(i) /\ left \in 1..l /\ pos = Offset(tar, i - 1) + Block + (l - left)
          /\ pos + Aligned(left) = Offset(tar, i) /\ Len(out) >= 1
        BY <1>2 DEF Copying
    <1>4. /\ i \in 0..Len(tar) /\ l \in Nat /\ Offset(tar, i) \in Nat /\ avail \in Nat
          /\ pos \in 0..avail /\ left \in Nat /\ After(tar, i).own = NoMeta
          /\ Offset(tar, i - 1) \in Nat
        <2>1. /\ i \in 0..Len(tar) /\ l \in Nat /\ Offset(tar, i) \in Nat
              /\ Offset(tar, i - 1) \in Nat /\ Len(Stream[tar]) \in Nat
            BY <1>1, PlaceFacts
        <2>2. avail \in 0..Len(Stream[tar]) /\ pos \in 0..avail /\ left \in Nat
            BY <1>1 DEF TypeOK
        <2>3. After(tar, i).own = NoMeta
            BY <1>3, TakenFacts
        <2> HIDE DEF l
        <2> QED BY <2>1, <2>2, <2>3
    <1>5. /\ pos + n <= avail /\ left' = left - n /\ pos' = Least(pos + Block, avail)
          /\ pc' = IF left' = 0 THEN "read" ELSE "content"
          /\ meta' = IF left' = 0 THEN NoMeta ELSE meta
          /\ out' = [out EXCEPT ![Len(out)].payload = @ \o Payload(n)]
          /\ UNCHANGED <<tar, avail, global, block, index, delivered, faulted>>
        BY DEF CopyBlock, Has
    <1>6. IsSequence(out') /\ Len(out') = Len(out)
        <2> DEFINE j == Len(out)
                   e == [out[j] EXCEPT !.payload = @ \o Payload(n)]
        <2>1. out' = [out EXCEPT ![j] = e]
            BY <1>5
        <2>2. j \in 1..j
            BY <1>3, SequenceFacts
        <2> DEFINE r == [out EXCEPT ![j] = e]
        <2> HIDE DEF e, n
        <2>3. IsSequence(r) /\ Len(r) = Len(out)
            BY <1>1, <2>2, ExceptFacts
        <2> QED BY <2>1, <2>3
    <1>7. MembersFaithful'
        BY <1>1, <1>5 DEF MembersFaithful
    <1>8. Delivered(i)'
        BY <1>3, <1>5 DEF Taken, Delivered
    <1> HIDE DEF l
    <1>9. CASE left <= Block
        <2>1. n = left /\ left' = 0 /\ pc' = "read" /\ meta' = NoMeta
            <3>1. n = left
                BY <1>4, <1>9, BlockFacts DEF Least
            <3> HIDE DEF n
            <3>2. left' = 0
                BY <1>4, <1>5, <3>1
            <3> QED BY <1>5, <3>1, <3>2
        <2>2. Aligned(left) = Block
            BY <1>3, <1>4, <1>9, AlignedFacts
        <2>3. pos + Block = Offset(tar, i)
            BY <1>3, <2>2
        <2>4. pos' = Least(Offset(tar, i), avail)
            BY <1>5, <2>3
        <2>5. Reading(i)'
            BY <1>3, <1>4, <1>5, <1>8, <2>4 DEF Reading, Taken
        <2>6. pos' \in 0..avail
            BY <1>4, <2>4 DEF Least
        <2>7. TypeOK'
            BY <1>1, <1>5, <1>6, <2>1, <2>6, NoMetaFacts DEF TypeOK
        <2> QED BY <1>1, <1>4, <1>5, <1>6, <1>7, <2>1, <2>5, <2>7 DEF IInv
    <1>10. CASE left > Block
        <2>1. n = Block /\ left' = left - Block /\ left' \in 1..l /\ left' # 0
            <3>1. n = Block
                BY <1>4, <1>10, BlockFacts DEF Least
            <3>2. left' = left - n
                BY <1>5
            <3>3. left' = left - Block /\ left \in 1..l /\ l \in Nat /\ Block \in Nat
                BY <1>3, <1>4, <3>1, <3>2, BlockFacts
            <3> QED BY <1>10, <3>1, <3>3
        <2>2. pc' = "content" /\ meta' = meta /\ pos' = pos + Block /\ pos' \in 0..avail
            <3>1. pos + Block <= avail
                BY <1>5, <2>1
            <3>2. pos' = pos + Block
                BY <1>4, <1>5, <3>1, BlockFacts DEF Least
            <3> HIDE DEF n
            <3> QED BY <1>4, <1>5, <2>1, <3>1, <3>2, BlockFacts
        <2>3. Aligned(left) = Block + Aligned(left - Block)
            BY <1>3, <1>4, <1>10, BlockFacts, AlignedFacts
        <2>4. Aligned(left') \in Nat
            BY <2>1, <1>4, AlignedFacts
        <2> HIDE DEF n
        <2>5. pos' + Aligned(left') = Offset(tar, i)
            <3>1. Aligned(left) = Block + Aligned(left')
                BY <2>1, <2>3
            <3>2. pos \in Nat /\ Block \in Nat
                BY <1>4, BlockFacts
            <3> QED BY <1>3, <2>2, <2>4, <3>1, <3>2
        <2>6. pos' = Offset(tar, i - 1) + Block + (l - left')
            <3> DEFINE o == Offset(tar, i - 1)
            <3>1. /\ Block \in Nat /\ o \in Nat /\ l \in Nat /\ left \in Nat /\ left' = left - Block
                  /\ pos = o + Block + (l - left) /\ pos' = pos + Block
                BY <1>3, <1>4, <2>1, <2>2, BlockFacts
            <3> HIDE DEF o
            <3>2. pos' = o + Block + (l - left')
                BY <3>1
            <3> QED BY <3>2 DEF o
        <2>7. Taken(i)'
            BY <1>3, <1>5, <1>8, <2>2 DEF Taken
        <2>8. Copying(i)'
            BY <1>3, <1>5, <1>6, <2>1, <2>5, <2>6, <2>7 DEF Copying, l
        <2>9. TypeOK'
            <3>1. left' \in Nat
                BY <1>4, <2>1
            <3> QED BY <1>1, <1>4, <1>5, <1>6, <2>2, <3>1 DEF TypeOK
        <2> QED BY <1>1, <1>5, <1>6, <1>7, <2>2, <2>8, <2>9 DEF IInv
    <1> QED BY <1>4, <1>9, <1>10, BlockFacts

(* What cannot be read is beyond the end of a tar that was cut.            *)
LEMMA ReadFailsKeeps ==
    ASSUME IInv, Complete(tar), ReadFails
    PROVE  IInv'
    <1>1. /\ tar \in Tars /\ TypeOK /\ MembersFaithful /\ pos \in 0..avail /\ avail \in Nat
          /\ left \in Nat
        <2>1. tar \in Tars /\ TypeOK /\ MembersFaithful
            BY DEF IInv
        <2>2. Len(Stream[tar]) \in Nat
            BY <2>1, PlaceFacts
        <2> QED BY <2>1, <2>2 DEF TypeOK
    <1>2. /\ Unreadable /\ pc' = "failed"
          /\ UNCHANGED <<tar, avail, pos, global, meta, block, left, out, index, delivered,
                         faulted>>
        BY DEF ReadFails, Fail
    <1>3. End(tar) \in Nat /\ Block \in Nat /\ Block >= 2 /\ Len(tar) \in Nat
        BY <1>1, PlaceFacts, BlockFacts
    <1>4. avail < End(tar) + 2 * Block
        <2>1. CASE pc = "read" /\ ~Has(IF Has(Block) /\ IsZero(pos) THEN 2 * Block ELSE Block)
            <3>1. PICK i \in 0..Len(tar) : Reading(i)
                BY <2>1 DEF IInv
            <3>2. Offset(tar, i) \in Nat /\ Offset(tar, i) <= End(tar)
                BY <1>1, PlaceFacts
            <3>3. pos <= Offset(tar, i)
                BY <1>1, <3>1, <3>2 DEF Reading, Least
            <3> DEFINE n == IF Has(Block) /\ IsZero(pos) THEN 2 * Block ELSE Block
            <3>4. n \in Nat /\ n <= 2 * Block /\ ~(pos + n <= avail)
                BY <1>3, <2>1 DEF Has
            <3> HIDE DEF n
            <3> QED BY <1>1, <1>3, <3>2, <3>3, <3>4
        <2>2. CASE /\ pc = "headers" /\ block.type \in MetadataTypes
                   /\ \/ ~Has(Aligned(Size) + Block)
                      \/ block.type \in {"x", "g"} /\ ~Parsable(Payload(Size))
            <3>1. PICK i \in 1..Len(tar) : Heading(i)
                BY <2>2 DEF IInv
            <3> DEFINE o == tar[i]
                       l == Len(o.payload)
                       s == Offset(tar, i - 1)
            <3>2. block.type = o.type /\ block.fields = o.fields /\ pos = s + Block
                BY <3>1 DEF Heading, HeaderOf
            <3>3. Readable(o) /\ IsSequence(o.payload) /\ l \in Nat
                BY ObjectFacts
            <3>4. Size = l
                BY <2>2, <3>2, <3>3 DEF Readable, Size
            <3>5. /\ s \in Nat /\ Aligned(l) \in Nat /\ s + Block + Aligned(l) <= End(tar)
                  /\ s + Block + Aligned(l) = Offset(tar, i)
                BY <1>1, PlaceFacts
            <3>6. Payload(Size) = o.payload
                <4>1. l \in Nat /\ 0 + l <= l /\ pos = s + Block + 0
                    BY <1>3, <3>2, <3>3, <3>5
                <4>2. /\ IsSequence(Payload(l)) /\ Len(Payload(l)) = l
                      /\ \A k \in 1..l : Payload(l)[k] = o.payload[0 + k]
                    BY <1>1, <4>1, PayloadFacts
                <4>3. \A k \in 1..l : 0 + k = k
                    BY <3>3
                <4> QED BY <3>3, <3>4, <4>2, <4>3, SameSequence
            <3>7. block.type \in {"x", "g"} => Parsable(Payload(Size))
                BY <3>2, <3>3, <3>6 DEF Readable, MetadataTypes
            <3>8. ~(pos + (Aligned(l) + Block) <= avail)
                BY <2>2, <3>4, <3>7 DEF Has
            <3> DEFINE a == Aligned(l)
                       e == End(tar)
            <3>9. /\ s \in Nat /\ a \in Nat /\ e \in Nat /\ s + Block + a <= e
                  /\ pos = s + Block /\ ~(pos + (a + Block) <= avail)
                BY <1>3, <3>2, <3>5, <3>8
            <3> HIDE DEF s, a, e
            <3>10. avail < e + 2 * Block
                BY <1>1, <1>3, <3>9
            <3> QED BY <3>10 DEF e
        <2>3. CASE /\ pc = "headers" /\ block.type \notin MetadataTypes
                   /\ FileType(block.type) = "unknown"
            <3>1. PICK i \in 1..Len(tar) : Heading(i)
                BY <2>3 DEF IInv
            <3>2. block.type = tar[i].type
                BY <3>1 DEF Heading, HeaderOf
            <3>3. Readable(tar[i])
                BY DEF Complete
            <3> QED BY <2>3, <3>2, <3>3 DEF Readable
        <2>4. CASE pc = "content" /\ ~Has(Least(left, Block))
            <3>1. PICK i \in 1..Len(tar) : Copying(i)
                BY <2>4 DEF IInv
            <3>2. pos + Aligned(left) = Offset(tar, i) /\ Offset(tar, i) <= End(tar)
                BY <1>1, <3>1, PlaceFacts DEF Copying
            <3>3. Aligned(left) \in Nat /\ left <= Aligned(left)
                BY <1>1, AlignedFacts
            <3> DEFINE n == Least(left, Block)
            <3>4. n \in Nat /\ n <= left
                BY <1>1, <1>3 DEF Least
            <3>5. ~(pos + n <= avail)
                BY <2>4 DEF Has
            <3> DEFINE a == Aligned(left)
                       e == End(tar)
            <3>6. a \in Nat /\ e \in Nat /\ left <= a /\ pos + a <= e
                BY <1>3, <3>2, <3>3
            <3> HIDE DEF n, a, e
            <3>7. avail < e + 2 * Block
                BY <1>1, <1>3, <3>4, <3>5, <3>6
            <3> QED BY <3>7 DEF e
        <2> QED BY <1>2, <2>1, <2>2, <2>3, <2>4 DEF Unreadable
    <1>5. MembersFaithful'
        BY <1>1, <1>2 DEF MembersFaithful
    <1>6. TypeOK'
        BY <1>1, <1>2 DEF TypeOK
    <1> QED BY <1>2, <1>4, <1>5, <1>6 DEF IInv

LEMMA IInvKept ==
    ASSUME \A t \in Tars : Complete(t), IInv, [Next]_vars
    PROVE  IInv'
    <1>1. tar \in Tars /\ Complete(tar)
        BY DEF IInv
    <1>2. ASSUME UNCHANGED <<tar, avail, pos, global, meta, block, left, out, index, delivered>>,
                 faulted' \in BOOLEAN,
                 pc' \in {"read", "headers", "write", "content", "finish", "done", "failed"},
                 \/ pc' = "failed" /\ faulted'
                 \/ pc = "finish" /\ pc' = "done"
                 \/ pc' = pc /\ (faulted => faulted')
          PROVE  IInv'
        <2>1. MembersFaithful'
            BY <1>2 DEF MembersFaithful, IInv
        <2>2. TypeOK'
            BY <1>2 DEF TypeOK, IInv
        <2>3. CASE pc' # pc
            BY <1>2, <2>1, <2>2, <2>3 DEF IInv
        <2>4. CASE pc' = pc /\ (faulted => faulted')
            <3>1. /\ \A i : Reading(i)' <=> Reading(i)
                  /\ \A i : Heading(i)' <=> Heading(i)
                  /\ \A i : Writing(i)' <=> Writing(i)
                  /\ \A i : Copying(i)' <=> Copying(i)
                BY <1>2 DEF Reading, Heading, Writing, Copying, Taken, Delivered
            <3> QED BY <1>2, <2>1, <2>2, <2>4, <3>1 DEF IInv
        <2> QED BY <1>2, <2>1, <2>2, <2>3, <2>4 DEF IInv
    <1>3. CASE ReadMeta
        BY <1>1, <1>3, ReadMetaKeeps
    <1>4. CASE ReadName("L", "path") \/ ReadName("K", "linkpath") \/ ReadExtended \/ ReadGlobal
        BY <1>1, <1>4, MetadataKeeps
    <1>5. CASE TakeHeader
        BY <1>1, <1>5, TakeHeaderKeeps
    <1>6. CASE WriteEntry
        BY <1>1, <1>6, WriteEntryKeeps
    <1>7. CASE CopyBlock
        BY <1>1, <1>7, CopyBlockKeeps
    <1>8. CASE ReadFails
        BY <1>1, <1>8, ReadFailsKeeps
    <1>9. CASE Finish
        <2>1. faulted \in BOOLEAN
            BY DEF IInv, TypeOK
        <2> QED BY <1>2, <1>9, <2>1 DEF Finish
    <1>10. CASE Fault
        BY <1>2, <1>10 DEF Fault
    <1>12. CASE ShortWrite
        BY <1>2, <1>12 DEF ShortWrite
    <1>11. CASE UNCHANGED vars
        <2>1. /\ faulted \in BOOLEAN
              /\ pc \in {"read", "headers", "write", "content", "finish", "done", "failed"}
            BY DEF IInv, TypeOK
        <2> QED BY <1>2, <1>11, <2>1 DEF vars
    <1> QED BY <1>3, <1>4, <1>5, <1>6, <1>7, <1>8, <1>9, <1>10, <1>11, <1>12 DEF Next, Step

(* What convert has read is what the tar says, whatever it reads next: the *)
(* invariant that the theorems on the reading follow from.                 *)
THEOREM ConvertInvariant ==
    ASSUME \A t \in Tars : Complete(t)
    PROVE  Spec => []IInv
    <1>1. Init => IInv
        BY Initially
    <1>2. IInv /\ [Next]_vars => IInv'
        BY IInvKept
    <1> QED BY <1>1, <1>2, PTL DEF Spec

(* TypeOK: the state of cmd_convert stays of its kind, metadata has the    *)
(* keys it must have when an entry is written, and no read goes beyond the *)
(* end of the input.                                                       *)
THEOREM ConvertTypeCorrect ==
    ASSUME \A t \in Tars : Complete(t)
    PROVE  Spec => []TypeOK
    <1>1. IInv => TypeOK
        BY DEF IInv
    <1> QED BY <1>1, ConvertInvariant, PTL

(* MembersFaithful: scar_pax_read_meta returns the members of the tar, in  *)
(* order, each with the metadata the pax format gives it, for every        *)
(* complete tar and wherever the input is cut.                             *)
THEOREM MembersTheorem ==
    ASSUME \A t \in Tars : Complete(t)
    PROVE  Spec => []MembersFaithful
    <1>1. IInv => MembersFaithful
        BY DEF IInv
    <1> QED BY <1>1, ConvertInvariant, PTL

(* TruncationDetected: scar_pax_read_meta reports the end of the archive   *)
(* only where the second zero block ends.                                  *)
THEOREM TruncationTheorem ==
    ASSUME \A t \in Tars : Complete(t)
    PROVE  Spec => []TruncationDetected
    <1>1. IInv => TruncationDetected
        <2> SUFFICES ASSUME IInv, pc \in {"finish", "done"}
                     PROVE  pos >= Len(FlatCells(tar)) + 2 * Block
            BY DEF TruncationDetected
        <2>1. tar \in Tars /\ pos = End(tar) + 2 * Block
            BY DEF IInv
        <2>2. Len(FlatCells(tar)) = End(tar) /\ End(tar) \in Nat
            BY <2>1, StreamFacts
        <2> QED BY <2>1, <2>2, BlockFacts
    <1> QED BY <1>1, ConvertInvariant, PTL

(* AcceptsComplete: scar_pax_read_meta and the copying of a content refuse *)
(* a complete tar only when a read or a write fails.                       *)
THEOREM AcceptsTheorem ==
    ASSUME \A t \in Tars : Complete(t)
    PROVE  Spec => []AcceptsComplete
    <1>1. IInv => AcceptsComplete
        <2> SUFFICES ASSUME IInv, pc = "failed"
                     PROVE  faulted \/ avail < Len(FlatCells(tar)) + 2 * Block
            BY DEF AcceptsComplete
        <2>1. tar \in Tars /\ (faulted \/ avail < End(tar) + 2 * Block)
            BY DEF IInv
        <2>2. Len(FlatCells(tar)) = End(tar)
            BY <2>1, StreamFacts
        <2> QED BY <2>1, <2>2
    <1> QED BY <1>1, ConvertInvariant, PTL

(***************************************************************************)
(* What the output means                                                   *)
(***************************************************************************)
LEMMA KnownFacts ==
    ASSUME NEW s, IsSequence(s), NEW n \in 0..Len(s)
    PROVE  Known(After(s, n)) /\ IsSequence(After(s, n).members) /\ Len(After(s, n).members) \in Nat
    <1> DEFINE a == Interpretation(s)
               P(k) == Known(a[k]) /\ IsSequence(a[k].members)
               T == {k \in Nat : k <= Len(s) => P(k)}
    <1>1. /\ Len(s) \in Nat /\ a[0] = Nothing
          /\ \A k \in 1..Len(s) : a[k] = Interpret(a[k - 1], s[k])
        BY InterpretationFacts, SequenceFacts
    <1> HIDE DEF a
    <1>2. 0 \in T
        <2>1. IsSequence(<< >>)
            BY DEF IsSequence
        <2>2. Known(Nothing) /\ Nothing.members = << >>
            BY DEF Known, Nothing
        <2> QED BY <1>1, <2>1, <2>2
    <1>3. ASSUME NEW j \in Nat, j \in T PROVE j + 1 \in T
        <2> HIDE DEF P
        <2> SUFFICES ASSUME j + 1 <= Len(s) PROVE P(j + 1)
            OBVIOUS
        <2> DEFINE i == j + 1
                   b == a[j]
                   c == a[i]
                   o == s[i]
        <2>1. i \in 1..Len(s) /\ i - 1 = j /\ P(j)
            BY <1>1, <1>3
        <2> HIDE DEF T, i
        <2>2. c = Interpret(b, o)
            BY <1>1, <2>1
        <2>3. Known(b) /\ IsSequence(b.members)
            BY <2>1 DEF P
        <2> HIDE DEF b, c, o
        <2>4. /\ Known(c)
              /\ o.type \in MetadataTypes => c.members = b.members
              /\ o.type \notin MetadataTypes => c.members = Append(b.members, MemberOf(b, o))
            BY <2>2, <2>3, InterpretFacts DEF MetadataTypes
        <2>5. IsSequence(c.members)
            <3> DEFINE q == b.members
                       e == MemberOf(b, o)
            <3> HIDE DEF q, e
            <3>1. IsSequence(q) => IsSequence(Append(q, e))
                BY AppendFacts
            <3> QED BY <2>3, <2>4, <3>1 DEF q, e
        <2> QED BY <2>4, <2>5 DEF P, c, i
    <1>4. n \in T
        <2> HIDE DEF T
        <2> QED BY <1>1, <1>2, <1>3, Induction
    <1>5. P(n)
        <2> HIDE DEF P
        <2> QED BY <1>1, <1>4
    <1> HIDE DEF T
    <1> QED BY <1>5, SequenceFacts DEF a, After

(* What is known after n objects depends on these only.                    *)
LEMMA SamePrefix ==
    ASSUME NEW s, NEW r, IsSequence(s), IsSequence(r), NEW n \in Nat, n <= Len(s), n <= Len(r),
           \A i \in 1..n : s[i] = r[i]
    PROVE  After(s, n) = After(r, n)
    <1> DEFINE a == Interpretation(s)
               b == Interpretation(r)
               T == {k \in Nat : k <= n => a[k] = b[k]}
    <1>1. /\ Len(s) \in Nat /\ a[0] = Nothing
          /\ \A k \in 1..Len(s) : a[k] = Interpret(a[k - 1], s[k])
        BY InterpretationFacts, SequenceFacts
    <1>2. /\ Len(r) \in Nat /\ b[0] = Nothing
          /\ \A k \in 1..Len(r) : b[k] = Interpret(b[k - 1], r[k])
        BY InterpretationFacts, SequenceFacts
    <1> HIDE DEF a, b
    <1>3. 0 \in T
        BY <1>1, <1>2
    <1>4. ASSUME NEW j \in Nat, j \in T PROVE j + 1 \in T
        <2> SUFFICES ASSUME j + 1 <= n PROVE a[j + 1] = b[j + 1]
            OBVIOUS
        <2> DEFINE i == j + 1
        <2>1. /\ i \in 1..Len(s) /\ i \in 1..Len(r) /\ i \in 1..n /\ i - 1 = j /\ a[j] = b[j]
            BY <1>1, <1>2, <1>4
        <2> HIDE DEF T, i
        <2>2. a[i] = b[i]
            BY <1>1, <1>2, <2>1
        <2> QED BY <2>2 DEF i
    <1>5. n \in T
        <2> HIDE DEF T
        <2> QED BY <1>3, <1>4, Induction
    <1> QED BY <1>5 DEF a, b, After

(* Reading from an object before which nothing is in force gives the       *)
(* members from there on.                                                  *)
LEMMA Resumed ==
    ASSUME NEW s, IsSequence(s), NEW a \in 0..Len(s),
           After(s, a).global = NoMeta, After(s, a).own = NoMeta, NEW n \in 0..Len(s) - a
    PROVE  LET r == SubSeq(s, a + 1, Len(s))
               l == Len(After(s, a).members)
               u == After(r, n)
               v == After(s, a + n)
           IN
           /\ IsSequence(r) /\ Len(r) = Len(s) - a
           /\ v.global = u.global /\ v.own = u.own
           /\ Len(v.members) = l + Len(u.members)
           /\ \A k \in 1..Len(u.members) : v.members[l + k] = u.members[k]
    <1> DEFINE r == SubSeq(s, a + 1, Len(s))
               l == Len(After(s, a).members)
               Q(u, v) == /\ v.global = u.global /\ v.own = u.own
                          /\ Len(v.members) = l + Len(u.members)
                          /\ \A k \in 1..Len(u.members) : v.members[l + k] = u.members[k]
               T == {k \in Nat : k <= Len(s) - a => Q(After(r, k), After(s, a + k))}
    <1>1. Len(s) \in Nat /\ a \in Nat /\ a <= Len(s)
        BY SequenceFacts
    <1>2. IsSequence(r) /\ Len(r) = Len(s) - a /\ \A i \in 1..Len(r) : r[i] = s[a + i]
        <2> DEFINE m == a + 1
                   e == Len(s)
        <2>1. m \in Nat /\ e \in Nat /\ m >= 1 /\ e <= Len(s) /\ e >= m - 1 /\ e - m + 1 = e - a
            BY <1>1
        <2>2. \A i \in 1..e - a : m + i - 1 = a + i
            BY <1>1
        <2> HIDE DEF m
        <2>3. /\ IsSequence(SubSeq(s, m, e)) /\ Len(SubSeq(s, m, e)) = e - m + 1
              /\ \A i \in 1..e - m + 1 : SubSeq(s, m, e)[i] = s[m + i - 1]
            BY <2>1, SubSeqFacts
        <2>4. r = SubSeq(s, m, e)
            BY DEF m
        <2> HIDE DEF e, r
        <2> QED BY <2>1, <2>2, <2>3, <2>4 DEF e
    <1> HIDE DEF r
    <1>3. Known(After(s, a)) /\ IsSequence(After(s, a).members) /\ l \in Nat
        BY KnownFacts
    <1>4. \A k \in 0..Len(r) : Known(After(r, k)) /\ IsSequence(After(r, k).members)
        BY <1>2, KnownFacts
    <1>5. \A k \in 0..Len(s) : Known(After(s, k)) /\ IsSequence(After(s, k).members)
        BY KnownFacts
    <1>6. /\ After(s, 0) = Nothing
          /\ \A k \in 1..Len(s) : After(s, k) = Interpret(After(s, k - 1), s[k])
        BY <1>1, InterpretationFacts DEF After
    <1>7. /\ After(r, 0) = Nothing
          /\ \A k \in 1..Len(r) : After(r, k) = Interpret(After(r, k - 1), r[k])
        BY <1>1, <1>2, InterpretationFacts DEF After
    <1>8. 0 \in T
        <2>1. Len(<< >>) = 0
            OBVIOUS
        <2>2. /\ After(r, 0).global = NoMeta /\ After(r, 0).own = NoMeta
              /\ After(r, 0).members = << >>
            BY <1>7 DEF Nothing
        <2>3. a + 0 = a
            BY <1>1
        <2> DEFINE u == After(r, 0)
                   v == After(s, a)
        <2>4. /\ v.global = u.global /\ v.own = u.own /\ Len(v.members) = l /\ l \in Nat
              /\ Len(u.members) = 0
            BY <1>3, <2>1, <2>2
        <2> HIDE DEF u, v, l
        <2>5. Q(u, v)
            BY <2>4
        <2> HIDE DEF Q
        <2>6. Q(After(r, 0), After(s, a + 0))
            BY <2>3, <2>5 DEF u, v
        <2> QED BY <2>6
    <1>9. ASSUME NEW j \in Nat, j \in T PROVE j + 1 \in T
        <2> DEFINE i == j + 1
                   e == a + i
                   o == r[i]
                   b == After(r, j)
                   c == After(s, a + j)
        <2> HIDE DEF Q
        <2> SUFFICES ASSUME i <= Len(s) - a PROVE Q(After(r, i), After(s, e))
            BY DEF T
        <2>1. /\ i \in 1..Len(r) /\ i - 1 = j /\ e \in 1..Len(s) /\ e - 1 = a + j
              /\ j \in 0..Len(r) /\ a + j \in 0..Len(s)
            BY <1>1, <1>2
        <2>2. Q(b, c)
            BY <1>1, <1>9
        <2> HIDE DEF T, l
        <2>3. s[e] = o /\ Known(b) /\ Known(c) /\ IsSequence(b.members) /\ IsSequence(c.members)
            BY <1>2, <1>4, <1>5, <2>1
        <2>4. After(r, i) = Interpret(b, o) /\ After(s, e) = Interpret(c, o)
            <3> HIDE DEF i, e
            <3> QED BY <1>6, <1>7, <2>1, <2>3
        <2> DEFINE b2 == After(r, i)
                   c2 == After(s, e)
        <2> HIDE DEF i, e, o, b, c, b2, c2
        <2>5. /\ o.type = "g" => /\ b2.global = Over(Overlay(o.payload), b.global)
                                 /\ b2.own = b.own /\ b2.members = b.members
              /\ o.type = "x" => /\ b2.own = Over(Overlay(o.payload), b.own)
                                 /\ b2.global = b.global /\ b2.members = b.members
              /\ o.type = "L" => /\ b2.own = Set("path", o.payload[1].value, b.own)
                                 /\ b2.global = b.global /\ b2.members = b.members
              /\ o.type = "K" => /\ b2.own = Set("linkpath", o.payload[1].value, b.own)
                                 /\ b2.global = b.global /\ b2.members = b.members
              /\ o.type \notin MetadataTypes => /\ b2.global = b.global /\ b2.own = NoMeta
                                                /\ b2.members = Append(b.members, MemberOf(b, o))
            BY <2>3, <2>4, InterpretFacts DEF b2
        <2>6. /\ o.type = "g" => /\ c2.global = Over(Overlay(o.payload), c.global)
                                 /\ c2.own = c.own /\ c2.members = c.members
              /\ o.type = "x" => /\ c2.own = Over(Overlay(o.payload), c.own)
                                 /\ c2.global = c.global /\ c2.members = c.members
              /\ o.type = "L" => /\ c2.own = Set("path", o.payload[1].value, c.own)
                                 /\ c2.global = c.global /\ c2.members = c.members
              /\ o.type = "K" => /\ c2.own = Set("linkpath", o.payload[1].value, c.own)
                                 /\ c2.global = c.global /\ c2.members = c.members
              /\ o.type \notin MetadataTypes => /\ c2.global = c.global /\ c2.own = NoMeta
                                                /\ c2.members = Append(c.members, MemberOf(c, o))
            BY <2>3, <2>4, InterpretFacts DEF c2
        <2>7. c.global = b.global /\ c.own = b.own
            BY <2>2 DEF Q
        <2>8. CASE o.type \in MetadataTypes
            <3>1. /\ c2.global = b2.global /\ c2.own = b2.own
                  /\ c2.members = c.members /\ b2.members = b.members
                BY <2>5, <2>6, <2>7, <2>8 DEF MetadataTypes
            <3> QED BY <2>2, <3>1 DEF Q, b2, c2
        <2>9. CASE o.type \notin MetadataTypes
            <3> DEFINE m == MemberOf(b, o)
                       p == b.members
                       q == c.members
            <3>1. MemberOf(c, o) = m
                BY <2>7 DEF MemberOf
            <3>2. /\ c2.global = b2.global /\ c2.own = b2.own
                  /\ c2.members = Append(q, m) /\ b2.members = Append(p, m)
                BY <2>5, <2>6, <2>7, <2>9, <3>1
            <3>3. IsSequence(p) /\ IsSequence(q) /\ Len(q) = l + Len(p) /\ Len(p) \in Nat
                  /\ \A k \in 1..Len(p) : q[l + k] = p[k]
                BY <2>2, <2>3, SequenceFacts DEF Q
            <3> HIDE DEF m, p, q
            <3>4. /\ Len(Append(p, m)) = Len(p) + 1 /\ Append(p, m)[Len(p) + 1] = m
                  /\ \A k \in 1..Len(p) : Append(p, m)[k] = p[k]
                BY <3>3, AppendFacts
            <3>5. /\ Len(Append(q, m)) = Len(q) + 1 /\ Append(q, m)[Len(q) + 1] = m
                  /\ \A k \in 1..Len(q) : Append(q, m)[k] = q[k]
                BY <3>3, AppendFacts
            <3>6. l \in Nat
                BY <1>3 DEF l
            <3> DEFINE x == Len(p)
                       y == Len(q)
                       f == Append(p, m)
                       g == Append(q, m)
            <3>7. /\ x \in Nat /\ y = l + x /\ \A k \in 1..x : q[l + k] = p[k]
                  /\ Len(f) = x + 1 /\ f[x + 1] = m /\ \A k \in 1..x : f[k] = p[k]
                  /\ Len(g) = y + 1 /\ g[y + 1] = m /\ \A k \in 1..y : g[k] = q[k]
                BY <3>3, <3>4, <3>5
            <3> HIDE DEF x, y, f, g
            <3>8. Len(g) = l + Len(f)
                BY <3>6, <3>7
            <3>9. ASSUME NEW k \in 1..Len(f) PROVE g[l + k] = f[k]
                <4>1. CASE k = x + 1
                    <5>1. l + k = y + 1
                        BY <3>6, <3>7, <4>1
                    <5> QED BY <3>7, <4>1, <5>1
                <4>2. CASE k \in 1..x
                    <5>1. l + k \in 1..y
                        BY <3>6, <3>7, <4>2
                    <5> QED BY <3>7, <4>2, <5>1
                <4> QED BY <3>7, <4>1, <4>2
            <3>10. c2.members = g /\ b2.members = f
                BY <3>2 DEF f, g
            <3> QED BY <3>2, <3>8, <3>9, <3>10 DEF Q, b2, c2
        <2> QED BY <2>8, <2>9
    <1>10. n \in T
        <2> HIDE DEF T
        <2> QED BY <1>1, <1>8, <1>9, Induction
    <1>11. Q(After(r, n), After(s, a + n))
        <2> HIDE DEF Q
        <2> QED BY <1>1, <1>10
    <1> HIDE DEF T
    <1> QED BY <1>2, <1>11 DEF r

LEMMA TypeCharFacts ==
    \A t \in FileTypes : TypeChar(t) \notin MetadataTypes
    <1> SUFFICES ASSUME NEW t \in FileTypes PROVE TypeChar(t) \notin MetadataTypes
        OBVIOUS
    <1>1. FileType(TypeChar(t)) = t /\ t # "unknown"
        BY TypeFacts
    <1>2. \A c \in MetadataTypes : FileType(c) = "unknown"
        BY DEF FileType, MetadataTypes
    <1> QED BY <1>1, <1>2

OneMember(acc, m) ==
    Append(acc.members, [meta |-> m, content |-> << >>])

(* An entry written after whole members adds its member, and only that.    *)
LEMMA EntryFacts ==
    ASSUME NEW m, IsMeta(m), HeaderKeys \cup {"type"} \subseteq DOMAIN m,
           DOMAIN m \subseteq MetaKeys, m["type"] \in FileTypes, Lossless(m),
           NEW s, IsSequence(s), After(s, Len(s)).global = NoMeta, After(s, Len(s)).own = NoMeta
    PROVE  LET r == s \o WriteMeta(m)
               a == After(r, Len(r))
               h == r[Len(r)]
           IN
           /\ IsSequence(r) /\ Len(s) < Len(r) /\ Len(s) \in Nat /\ Len(r) \in Nat
           /\ \A k \in 0..Len(s) : After(r, k) = After(s, k)
           /\ a.global = NoMeta /\ a.own = NoMeta /\ a.members = OneMember(After(s, Len(s)), m)
           /\ h = [type |-> h.type, fields |-> h.fields, payload |-> h.payload]
           /\ h.type \notin MetadataTypes /\ h.payload = << >>
    <1> DEFINE w == WriteMeta(m)
               r == s \o w
               q == Records(m)
               b == After(s, Len(s))
               l == Len(s)
               h == [type |-> TypeChar(m["type"]), fields |-> Fields(m), payload |-> << >>]
               x == [type |-> "x", fields |-> [size |-> Len(q)], payload |-> q]
    <1>1. w = IF q = << >> THEN <<h>> ELSE <<x, h>>
        BY DEF WriteMeta
    <1>2. IsSequence(w) /\ Len(w) \in {1, 2}
        BY WriteMetaFacts
    <1>3. l \in Nat /\ Len(s) \in 0..Len(s)
        BY SequenceFacts
    <1> HIDE DEF w
    <1>4. /\ IsSequence(r) /\ Len(r) = l + Len(w) /\ \A i \in 1..l : r[i] = s[i]
          /\ \A i \in 1..Len(w) : r[l + i] = w[i]
        BY <1>2, ConcatFacts
    <1> HIDE DEF r
    <1>5. Len(r) \in Nat /\ l < Len(r)
        <2> DEFINE k == Len(w)
        <2>1. k = 1 \/ k = 2
            BY <1>2
        <2>2. l \in Nat /\ Len(r) = l + k
            BY <1>3, <1>4
        <2> HIDE DEF l, k
        <2> QED BY <2>1, <2>2
    <1>6. ASSUME NEW k \in 0..l PROVE After(r, k) = After(s, k)
        <2>1. k \in Nat /\ k <= Len(s) /\ k <= Len(r) /\ \A i \in 1..k : r[i] = s[i]
            BY <1>3, <1>4, <1>5
        <2> QED BY <1>4, <2>1, SamePrefix
    <1>7. Known(b) /\ IsSequence(b.members) /\ After(r, l) = b
        BY <1>3, <1>6, KnownFacts
    <1>8. \A i \in 1..Len(r) : After(r, i) = Interpret(After(r, i - 1), r[i])
        BY <1>5, InterpretationFacts DEF After
    <1> DEFINE o == Overlay(q)
               c == IF q = << >> THEN b ELSE Interpret(b, x)
    <1>9. IsMeta(o) /\ (q = << >> => o = NoMeta)
        <2>1. IsMeta(o) /\ DOMAIN o = RecordKeys \cap {q[i].key : i \in 1..Len(q)}
            BY OverlayFacts
        <2>2. ASSUME q = << >> PROVE o = NoMeta
            <3>1. Len(q) = 0
                BY <2>2
            <3> HIDE DEF q
            <3>2. {q[i].key : i \in 1..Len(q)} = {}
                BY <3>1
            <3> HIDE DEF o
            <3>3. DOMAIN o = {}
                BY <2>1, <3>2
            <3> QED BY <2>1, <3>3, NoMetaFacts, SameMeta
        <2> QED BY <2>1, <2>2
    <1>10. Known(c) /\ c.global = NoMeta /\ c.own = o /\ c.members = b.members
        <2>1. CASE q = << >>
            BY <1>7, <1>9, <2>1
        <2>2. CASE q # << >>
            <3> DEFINE e == Interpret(b, x)
            <3>1. x.type = "x" /\ x.payload = q
                OBVIOUS
            <3> HIDE DEF x, q, b
            <3>2. Known(e) /\ e.own = Over(Overlay(x.payload), b.own) /\ e.global = b.global
                  /\ e.members = b.members
                BY <1>7, <3>1, InterpretFacts
            <3>3. e.own = Over(o, NoMeta)
                BY <3>1, <3>2 DEF b
            <3>4. e.own = o
                BY <1>9, <3>3, OverNone
            <3> QED BY <2>2, <3>2, <3>4 DEF b
        <2> QED BY <2>1, <2>2
    <1>11. After(r, Len(r)) = Interpret(c, h) /\ r[Len(r)] = h
        <2>1. CASE q = << >>
            <3>1. Len(w) = 1 /\ w[1] = h
                BY <1>1, <2>1
            <3> DEFINE i == Len(r)
            <3>2. i = l + 1 /\ i - 1 = l /\ i \in 1..Len(r) /\ r[l + 1] = h
                BY <1>3, <1>4, <1>5, <3>1
            <3> HIDE DEF i, h, c
            <3>3. After(r, i) = Interpret(After(r, i - 1), r[i])
                BY <1>8, <3>2
            <3> QED BY <1>7, <2>1, <3>2, <3>3 DEF c, i
        <2>2. CASE q # << >>
            <3>1. Len(w) = 2 /\ w[1] = x /\ w[2] = h
                BY <1>1, <2>2
            <3> DEFINE i == Len(r)
                       j == l + 1
            <3>2. /\ i = l + 2 /\ i - 1 = j /\ i \in 1..Len(r) /\ r[i] = h
                  /\ j \in 1..Len(r) /\ j - 1 = l /\ r[j] = x
                <4>1. r[l + 1] = x /\ r[l + 2] = h
                    <5>1. 1 \in 1..Len(w) /\ 2 \in 1..Len(w)
                        BY <3>1
                    <5> QED BY <1>4, <3>1, <5>1
                <4>2. i = l + 2
                    BY <1>4, <3>1
                <4> QED BY <1>3, <1>5, <4>1, <4>2
            <3> HIDE DEF i, j, h, c, x
            <3>3. After(r, j) = Interpret(b, x)
                BY <1>7, <1>8, <3>2
            <3>4. After(r, i) = Interpret(After(r, i - 1), r[i])
                BY <1>8, <3>2
            <3> QED BY <2>2, <3>2, <3>3, <3>4 DEF c, i
        <2> QED BY <2>1, <2>2
    <1>12. h.type \notin MetadataTypes
        BY TypeCharFacts
    <1>13. MemberOf(c, h) = [meta |-> m, content |-> << >>]
        <2> DEFINE d == HeaderMeaning(Fields(m))
                   y == FileType(TypeChar(m["type"]))
        <2>1. MemberOf(c, h) = [meta |-> Set("type", y, Over(Over(c.own, c.global), d)),
                                content |-> << >>]
            BY DEF MemberOf
        <2> HIDE DEF c, h, d, y
        <2>2. Over(c.own, c.global) = o
            <3>1. Over(o, NoMeta) = o
                BY <1>9, OverNone
            <3> QED BY <1>10, <3>1
        <2>3. Set("type", y, Over(o, d)) = m
            BY WrittenBack DEF d, y
        <2> QED BY <2>1, <2>2, <2>3
    <1> DEFINE e == Interpret(c, h)
               u == c.members
               v == MemberOf(c, h)
    <1>14. /\ e.global = NoMeta /\ e.own = NoMeta /\ e.members = Append(u, v)
        <2> HIDE DEF c, h
        <2> QED BY <1>10, <1>12, InterpretFacts
    <1>15. h = [type |-> h.type, fields |-> h.fields, payload |-> h.payload] /\ h.payload = << >>
        OBVIOUS
    <1> HIDE DEF c, h, e, u, v, b, l
    <1>16. e.members = OneMember(b, m)
        BY <1>10, <1>13, <1>14 DEF OneMember, u, v
    <1> QED BY <1>4, <1>5, <1>3, <1>6, <1>11, <1>12, <1>14, <1>15, <1>16 DEF r, w, e, b, l

(***************************************************************************)
(* The writing: how many members the output has, what each of them is, and *)
(* what the index says of it.                                              *)
(***************************************************************************)
Written == IF pc = "write" THEN Len(delivered) - 1 ELSE Len(delivered)

Copied(j) ==
    LET m == Members[tar][j] IN
    IF j = Len(delivered) /\ pc = "content"
    THEN [m EXCEPT !.content = SubSeq(@, 1, Len(@) - left)] ELSE m

Entry(j) ==
    /\ index[j].at \in 1..Len(out)
    /\ After(out, index[j].at - 1).global = NoMeta /\ After(out, index[j].at - 1).own = NoMeta
    /\ Len(After(out, index[j].at - 1).members) = j - 1
    /\ index[j].type = TypeChar(Members[tar][j].meta["type"])
    /\ index[j].path = Members[tar][j].meta["path"]

OutInv ==
    pc # "failed" =>
        LET o == After(out, Len(out)) IN
        /\ o.global = NoMeta /\ o.own = NoMeta
        /\ Len(o.members) = Written /\ Len(index) = Written
        /\ \A j \in 1..Written : o.members[j] = Copied(j) /\ Entry(j)
        /\ pc = "content" =>
             /\ out[Len(out)].type \notin MetadataTypes
             /\ out[Len(out)] = [type |-> out[Len(out)].type, fields |-> out[Len(out)].fields,
                                 payload |-> out[Len(out)].payload]

LEMMA OutInitially ==
    ASSUME Init
    PROVE  OutInv
    <1>1. out = << >> /\ index = << >> /\ delivered = << >> /\ pc = "read" /\ Len(<< >>) = 0
        BY DEF Init
    <1>2. After(<< >>, 0) = Nothing
        <2>1. Len(<< >>) \in Nat
            OBVIOUS
        <2> QED BY <2>1, InterpretationFacts DEF After
    <1>3. Written = 0 /\ Len(index) = 0 /\ Len(out) = 0
        BY <1>1 DEF Written
    <1>4. After(out, Len(out)) = Nothing
        BY <1>1, <1>2, <1>3
    <1>5. /\ After(out, Len(out)).global = NoMeta /\ After(out, Len(out)).own = NoMeta
          /\ Len(After(out, Len(out)).members) = 0
        BY <1>1, <1>4 DEF Nothing
    <1> QED BY <1>1, <1>3, <1>5 DEF OutInv

LEMMA OutUntouched ==
    ASSUME OutInv, UNCHANGED <<tar, out, index>>, pc \notin {"failed", "content"},
           pc' \notin {"failed", "content"}, Written' = Written
    PROVE  OutInv'
    <1>1. ASSUME NEW j \in 1..Written PROVE Copied(j)' = Copied(j) /\ (Entry(j)' <=> Entry(j))
        BY DEF Copied, Entry
    <1> QED BY <1>1 DEF OutInv

(* An entry is written where nothing is left in force.                     *)
LEMMA OutWriteEntry ==
    ASSUME IInv, Complete(tar), \A j \in 1..Len(Members[tar]) : Lossless(Members[tar][j].meta),
           OutInv, WriteEntry
    PROVE  OutInv'
    <1>1. PICK i \in 1..Len(tar) : Writing(i)
        BY DEF IInv, WriteEntry
    <1>17. PICK d : d = Len(delivered)
        OBVIOUS
    <1> DEFINE m == Members[tar][d]
               o == After(out, Len(out))
               w == WriteMeta(meta)
               e == [type |-> TypeChar(meta["type"]), at |-> Len(out) + 1, path |-> meta["path"]]
    <1>2. d \in 1..Len(Members[tar]) /\ meta = m.meta
        BY <1>1, <1>17, TakenFacts DEF Writing
    <1>3. tar \in Tars /\ IsSequence(out) /\ IsSequence(index) /\ pc = "write"
        BY DEF IInv, WriteEntry
    <1>4. Good(m) /\ meta["size"] = Len(m.content) /\ Len(Members[tar]) \in Nat
        BY <1>2, <1>3, MembersFacts
    <1>5. Lossless(meta)
        BY <1>2
    <1>6. /\ Written = d - 1 /\ o.global = NoMeta /\ o.own = NoMeta /\ Len(o.members) = d - 1
          /\ Len(index) = d - 1
          /\ \A j \in 1..d - 1 : o.members[j] = Members[tar][j] /\ Entry(j)
        <2>1. Written = d - 1
            BY <1>3, <1>17 DEF Written
        <2>2. \A j : Copied(j) = Members[tar][j]
            BY <1>3 DEF Copied
        <2> QED BY <1>3, <2>1, <2>2 DEF OutInv
    <1>7. /\ out' = out \o w /\ index' = Append(index, e) /\ left' = meta["size"]
          /\ pc' = IF left' = 0 THEN "read" ELSE "content"
          /\ UNCHANGED <<tar, delivered>>
        BY DEF WriteEntry
    <1> HIDE DEF e, o
    <1>8. /\ IsSequence(out') /\ Len(out) < Len(out') /\ Len(out) \in Nat /\ Len(out') \in Nat
          /\ \A k \in 0..Len(out) : After(out', k) = After(out, k)
          /\ After(out', Len(out')).global = NoMeta /\ After(out', Len(out')).own = NoMeta
          /\ After(out', Len(out')).members = OneMember(o, meta)
          /\ out'[Len(out')] = [type |-> out'[Len(out')].type, fields |-> out'[Len(out')].fields,
                                payload |-> out'[Len(out')].payload]
          /\ out'[Len(out')].type \notin MetadataTypes
        <2> DEFINE r == out \o w
        <2>1. /\ IsMeta(meta) /\ HeaderKeys \cup {"type"} \subseteq DOMAIN meta
              /\ DOMAIN meta \subseteq MetaKeys /\ meta["type"] \in FileTypes
            BY <1>2, <1>4 DEF Good
        <2>2. /\ IsSequence(r) /\ Len(out) < Len(r) /\ Len(out) \in Nat /\ Len(r) \in Nat
              /\ \A k \in 0..Len(out) : After(r, k) = After(out, k)
              /\ After(r, Len(r)).global = NoMeta /\ After(r, Len(r)).own = NoMeta
              /\ After(r, Len(r)).members = OneMember(After(out, Len(out)), meta)
              /\ r[Len(r)] = [type |-> r[Len(r)].type, fields |-> r[Len(r)].fields,
                              payload |-> r[Len(r)].payload]
              /\ r[Len(r)].type \notin MetadataTypes
            BY <1>3, <1>5, <1>6, <2>1, EntryFacts DEF o
        <2>3. out' = r
            BY <1>7
        <2> HIDE DEF r, m, w
        <2> QED BY <2>2, <2>3 DEF o
    <1>9. d \in Nat /\ d >= 1 /\ \A j \in 1..d : j = d \/ j \in 1..d - 1
        BY <1>2, <1>4
    <1>10. Written' = d
        BY <1>7, <1>17 DEF Written
    <1> DEFINE p == After(out', Len(out'))
               x == [meta |-> meta, content |-> << >>]
    <1>11. /\ Len(p.members) = d /\ p.members[d] = x
           /\ \A j \in 1..d - 1 : p.members[j] = Members[tar][j]
        <2> DEFINE q == o.members
        <2>1. IsSequence(q)
            <3>1. Len(out) \in 0..Len(out)
                BY <1>8
            <3> QED BY <1>3, <3>1, KnownFacts DEF o
        <2>2. p.members = Append(q, x)
            BY <1>8 DEF OneMember
        <2> HIDE DEF p, q, x
        <2>3. /\ Len(Append(q, x)) = Len(q) + 1 /\ Append(q, x)[Len(q) + 1] = x
              /\ \A j \in 1..Len(q) : Append(q, x)[j] = q[j]
            BY <2>1, AppendFacts
        <2>4. Len(q) = d - 1 /\ d - 1 + 1 = d
            BY <1>6, <1>9 DEF q
        <2> HIDE DEF m
        <2> QED BY <1>6, <2>2, <2>3, <2>4 DEF q
    <1>12. /\ Len(index') = d /\ index'[d] = e /\ \A j \in 1..d - 1 : index'[j] = index[j]
        <2>1. /\ Len(Append(index, e)) = Len(index) + 1 /\ Append(index, e)[Len(index) + 1] = e
              /\ \A j \in 1..Len(index) : Append(index, e)[j] = index[j]
            BY <1>3, AppendFacts
        <2>2. Len(index) = d - 1 /\ d - 1 + 1 = d
            BY <1>6, <1>9
        <2> QED BY <1>7, <2>1, <2>2
    <1>13. \A j \in 1..d - 1 : Copied(j)' = Members[tar][j] /\ Entry(j)'
        <2> SUFFICES ASSUME NEW j \in 1..d - 1
                     PROVE  Copied(j)' = Members[tar][j] /\ Entry(j)'
            OBVIOUS
        <2>1. j # d
            BY <1>9
        <2>2. Copied(j)' = Members[tar][j]
            BY <1>7, <1>17, <2>1 DEF Copied
        <2> DEFINE a == index[j].at
        <2>3. /\ a \in 1..Len(out) /\ After(out, a - 1).global = NoMeta
              /\ After(out, a - 1).own = NoMeta
              /\ Len(After(out, a - 1).members) = j - 1
              /\ index[j].type = TypeChar(Members[tar][j].meta["type"])
              /\ index[j].path = Members[tar][j].meta["path"]
            BY <1>6 DEF Entry
        <2>4. index'[j] = index[j] /\ a \in 1..Len(out') /\ a - 1 \in 0..Len(out)
            BY <1>8, <1>12, <2>3
        <2>5. After(out', a - 1) = After(out, a - 1)
            BY <1>8, <2>4
        <2>6. index'[j].at = a
            BY <2>4
        <2> HIDE DEF a
        <2>7. Entry(j)'
            BY <1>7, <2>3, <2>4, <2>5, <2>6 DEF Entry
        <2> QED BY <2>2, <2>7
    <1>14. Entry(d)'
        <2>1. e.at = Len(out) + 1 /\ e.type = TypeChar(meta["type"]) /\ e.path = meta["path"]
            BY DEF e
        <2>2. e.at \in 1..Len(out') /\ e.at - 1 = Len(out) /\ Len(out) \in 0..Len(out)
            BY <1>8, <2>1
        <2>3. After(out', e.at - 1) = o
            BY <1>8, <2>2 DEF o
        <2> QED BY <1>2, <1>6, <1>7, <1>12, <2>1, <2>2, <2>3 DEF Entry
    <1>15. Copied(d)' = x
        <2> DEFINE c == m.content
        <2>1. IsSequence(c) /\ Len(c) \in Nat /\ m = [meta |-> m.meta, content |-> c]
            BY <1>4, SequenceFacts DEF Good
        <2>2. CASE left' = 0
            <3>1. c = << >>
                BY <1>4, <1>7, <2>1, <2>2, SequenceFacts
            <3>2. Copied(d)' = m
                BY <1>7, <2>2 DEF Copied
            <3>3. m = [meta |-> meta, content |-> << >>]
                BY <1>2, <2>1, <3>1
            <3> QED BY <3>2, <3>3
        <2>3. CASE left' # 0
            <3>1. Copied(d)' = [m EXCEPT !.content = SubSeq(@, 1, Len(@) - left')]
                BY <1>7, <1>17, <2>3 DEF Copied
            <3>2. Len(c) - left' = 0
                BY <1>4, <1>7, <2>1
            <3>3. SubSeq(c, 1, 0) = << >>
                <4>1. /\ IsSequence(SubSeq(c, 1, 0)) /\ Len(SubSeq(c, 1, 0)) = 0 - 1 + 1
                    BY <2>1, SubSeqFacts
                <4> QED BY <4>1, SequenceFacts
            <3> HIDE DEF m
            <3> DEFINE y == SubSeq(c, 1, Len(c) - left')
            <3>4. y = << >>
                BY <3>2, <3>3
            <3> HIDE DEF y
            <3>5. Copied(d)' = [m EXCEPT !.content = y]
                BY <3>1 DEF y
            <3> HIDE DEF c
            <3>6. [m EXCEPT !.content = y] = [meta |-> m.meta, content |-> y]
                BY <2>1
            <3>7. m.meta = meta
                BY <1>2
            <3> QED BY <3>4, <3>5, <3>6, <3>7
        <2> QED BY <2>2, <2>3
    <1> HIDE DEF x, m, w
    <1>16. \A j \in 1..d : p.members[j] = Copied(j)' /\ Entry(j)'
        BY <1>9, <1>11, <1>13, <1>14, <1>15
    <1> QED BY <1>7, <1>8, <1>10, <1>11, <1>12, <1>16 DEF OutInv

(* A content without its last n cells, and the cells x that come next.     *)
LEMMA LongerContent ==
    ASSUME NEW c, NEW n, NEW x, IsSequence(c), IsSequence(x), n \in Nat, n <= Len(c),
           Len(x) \in Nat, Len(x) <= n, \A i \in 1..Len(x) : x[i] = c[Len(c) - n + i]
    PROVE  /\ SubSeq(c, 1, Len(c) - n) \o x = SubSeq(c, 1, Len(c) - (n - Len(x)))
           /\ SubSeq(c, 1, Len(c)) = c
    <1> DEFINE k == Len(x)
               l == Len(c)
               a == l - n
               b == l - (n - k)
    <1>1. k \in Nat /\ l \in Nat /\ a \in Nat /\ b \in Nat /\ b = a + k /\ a <= l /\ b <= l
        BY SequenceFacts
    <1>2. ASSUME NEW e \in Nat, e <= l
          PROVE  /\ IsSequence(SubSeq(c, 1, e)) /\ Len(SubSeq(c, 1, e)) = e
                 /\ \A i \in 1..e : SubSeq(c, 1, e)[i] = c[i]
        <2>1. e <= Len(c) /\ e >= 1 - 1 /\ e - 1 + 1 = e /\ \A i \in 1..e : 1 + i - 1 = i
            BY <1>2
        <2>2. /\ IsSequence(SubSeq(c, 1, e)) /\ Len(SubSeq(c, 1, e)) = e - 1 + 1
              /\ \A i \in 1..e - 1 + 1 : SubSeq(c, 1, e)[i] = c[1 + i - 1]
            BY <2>1, SubSeqFacts
        <2> QED BY <2>1, <2>2
    <1> DEFINE s == SubSeq(c, 1, a)
               t == SubSeq(c, 1, b)
    <1>3. /\ IsSequence(s) /\ Len(s) = a /\ \A i \in 1..a : s[i] = c[i]
          /\ IsSequence(t) /\ Len(t) = b /\ \A i \in 1..b : t[i] = c[i]
        BY <1>1, <1>2
    <1>4. \A i \in 1..k : x[i] = c[a + i]
        OBVIOUS
    <1>5. SubSeq(c, 1, l) = c
        <2>1. /\ IsSequence(SubSeq(c, 1, l)) /\ Len(SubSeq(c, 1, l)) = Len(c)
              /\ \A i \in 1..Len(c) : SubSeq(c, 1, l)[i] = c[i]
            BY <1>1, <1>2
        <2> QED BY <2>1, SameSequence
    <1> HIDE DEF k, l, a, b, s, t
    <1> DEFINE u == s \o x
    <1>6. /\ IsSequence(u) /\ Len(u) = a + k /\ \A i \in 1..a : u[i] = s[i]
          /\ \A i \in 1..k : u[a + i] = x[i]
        <2>1. /\ IsSequence(u) /\ Len(u) = Len(s) + Len(x) /\ \A i \in 1..Len(s) : u[i] = s[i]
              /\ \A i \in 1..Len(x) : u[Len(s) + i] = x[i]
            <3>1. IsSequence(s) /\ IsSequence(x)
                BY <1>3
            <3> QED BY <3>1, ConcatFacts
        <2> HIDE DEF u
        <2> QED BY <1>3, <2>1 DEF k
    <1> HIDE DEF u
    <1>7. ASSUME NEW i \in 1..Len(u) PROVE u[i] = t[i]
        <2>1. i \in 1..b
            BY <1>1, <1>6
        <2>2. CASE i \in 1..a
            BY <1>3, <1>6, <2>1, <2>2
        <2>3. CASE i \notin 1..a
            <3> DEFINE j == i - a
            <3>1. j \in 1..k /\ a + j = i
                BY <1>1, <2>1, <2>3
            <3> HIDE DEF j
            <3> QED BY <1>3, <1>4, <1>6, <2>1, <3>1
        <2> QED BY <2>2, <2>3
    <1>8. u = t
        BY <1>1, <1>3, <1>6, <1>7, SameSequence
    <1> QED BY <1>5, <1>8 DEF u, s, t, a, b, l, k

(* Copied content only makes the last member longer.                       *)
LEMMA OutCopyBlock ==
    ASSUME IInv, Complete(tar), OutInv, CopyBlock
    PROVE  OutInv'
    <1>1. PICK i \in 1..Len(tar) : Copying(i)
        BY DEF IInv, CopyBlock
    <1>2. PICK d : d = Len(delivered)
        OBVIOUS
    <1>3. PICK z : z = Len(out)
        OBVIOUS
    <1>4. PICK n : n = Least(left, Block)
        OBVIOUS
    <1> DEFINE m == Members[tar][d]
               c == m.content
               x == Payload(n)
               o == After(out, z)
               q == After(out, z - 1)
               h == out[z]
               e == [h EXCEPT !.payload = @ \o x]
               p == After(out', z)
    <1>5. /\ tar \in Tars /\ IsSequence(out) /\ pc = "content" /\ left \in Nat /\ z >= 1
          /\ z \in 1..Len(out) /\ z \in 0..Len(out) /\ z - 1 \in 0..Len(out)
        <2>1. tar \in Tars /\ IsSequence(out) /\ pc = "content" /\ left \in Nat /\ z >= 1
            BY <1>1, <1>3 DEF IInv, CopyBlock, TypeOK, Copying
        <2>2. z \in Nat
            BY <1>3, <2>1, SequenceFacts
        <2> QED BY <1>3, <2>1, <2>2
    <1>6. d \in 1..Len(Members[tar]) /\ c = tar[i].payload
        BY <1>1, <1>2, TakenFacts DEF Copying
    <1>7. Good(m)
        BY <1>5, <1>6, MembersFacts
    <1>8. n \in Nat /\ n <= left
        BY <1>4, <1>5, BlockFacts DEF Least
    <1>9. /\ left \in 1..Len(c) /\ Len(c) \in Nat /\ IsSequence(x) /\ Len(x) = n
          /\ \A k \in 1..n : x[k] = c[Len(c) - left + k]
        BY <1>1, <1>6, <1>8, CopyFacts
    <1>10. /\ left' = left - n /\ out' = [out EXCEPT ![z] = e]
           /\ pc' = IF left' = 0 THEN "read" ELSE "content"
           /\ UNCHANGED <<tar, index, delivered>>
        BY <1>3, <1>4 DEF CopyBlock
    <1>11. d \in Nat /\ d >= 1 /\ \A j \in 1..d : j = d \/ j \in 1..d - 1
        <2>1. Len(Members[tar]) \in Nat
            BY <1>5, MembersFacts
        <2> QED BY <1>6, <2>1
    <1> DEFINE r == SubSeq(c, 1, Len(c) - left)
    <1>12. /\ o.global = NoMeta /\ o.own = NoMeta /\ Len(o.members) = d /\ Len(index) = d
           /\ \A j \in 1..d : Entry(j)
           /\ \A j \in 1..d - 1 : o.members[j] = Members[tar][j]
           /\ o.members[d] = [m EXCEPT !.content = r]
           /\ h.type \notin MetadataTypes
           /\ h = [type |-> h.type, fields |-> h.fields, payload |-> h.payload]
        <2>1. Written = d
            BY <1>2, <1>5 DEF Written
        <2>2. Copied(d) = [m EXCEPT !.content = r]
            BY <1>2, <1>5 DEF Copied
        <2>3. \A j \in 1..d - 1 : Copied(j) = Members[tar][j]
            <3>1. \A j \in 1..d - 1 : j # d
                BY <1>11
            <3> QED BY <1>2, <3>1 DEF Copied
        <2>4. d \in 1..d /\ \A j \in 1..d - 1 : j \in 1..d
            BY <1>11
        <2> HIDE DEF m, r
        <2> QED BY <1>3, <1>5, <2>1, <2>2, <2>3, <2>4 DEF OutInv
    <1> HIDE DEF c, x, r
    <1>13. /\ IsSequence(out') /\ Len(out') = z /\ out'[z] = e
           /\ \A j \in 1..z : j # z => out'[j] = out[j]
        <2> DEFINE s == [out EXCEPT ![z] = e]
        <2> HIDE DEF e
        <2>1. IsSequence(out) /\ z \in 1..Len(out)
            BY <1>5
        <2>2. IsSequence(s) /\ Len(s) = Len(out) /\ s[z] = e
            BY <2>1, ExceptFacts
        <2>3. \A j \in 1..Len(out) : j # z => s[j] = out[j]
            BY <2>1, ExceptFacts
        <2> QED BY <1>3, <1>10, <2>2, <2>3
    <1>14. /\ e.type = h.type /\ e.fields = h.fields /\ e.payload = h.payload \o x
           /\ e = [type |-> e.type, fields |-> e.fields, payload |-> e.payload]
        <2> DEFINE v == h.payload \o x
        <2>1. e = [h EXCEPT !.payload = v]
            OBVIOUS
        <2> HIDE DEF h, v, e
        <2>2. e = [type |-> h.type, fields |-> h.fields, payload |-> v]
            BY <1>12, <2>1
        <2> QED BY <2>2 DEF v
    <1>15. ASSUME NEW k \in 0..z - 1 PROVE After(out', k) = After(out, k)
        <2>1. /\ k \in Nat /\ k <= Len(out) /\ k <= Len(out')
              /\ \A j \in 1..k : out'[j] = out[j]
            BY <1>3, <1>5, <1>13
        <2> QED BY <1>5, <1>13, <2>1, SamePrefix
    <1>16. Known(q) /\ IsSequence(q.members) /\ Len(q.members) \in Nat
        BY <1>5, KnownFacts
    <1>17. o = Interpret(q, h) /\ p = Interpret(q, e)
        <2>1. o = Interpret(q, h)
            BY <1>5, SequenceFacts, InterpretationFacts DEF After
        <2>2. After(out', z) = Interpret(After(out', z - 1), out'[z])
            <3>1. Len(out') \in Nat /\ z \in 1..Len(out')
                BY <1>5, <1>13
            <3> QED BY <3>1, InterpretationFacts DEF After
        <2>3. z - 1 \in 0..z - 1
            BY <1>5
        <2>4. After(out', z - 1) = q
            BY <1>15, <2>3
        <2> QED BY <1>13, <2>1, <2>2, <2>4
    <1> HIDE DEF o, p, q, h, e
    <1>18. /\ o.global = q.global /\ o.members = Append(q.members, MemberOf(q, h))
        BY <1>12, <1>16, <1>17, InterpretFacts
    <1>19. /\ p.global = q.global /\ p.own = NoMeta
           /\ p.members = Append(q.members, MemberOf(q, e))
        BY <1>12, <1>14, <1>16, <1>17, InterpretFacts
    <1> DEFINE y == MemberOf(q, h)
               w == MemberOf(q, e)
               u == q.members
    <1>20. /\ y = [meta |-> y.meta, content |-> h.payload]
           /\ w = [meta |-> y.meta, content |-> h.payload \o x]
        BY <1>14 DEF MemberOf
    <1> HIDE DEF y, w, u
    <1>21. /\ Len(o.members) = Len(u) + 1 /\ o.members[Len(u) + 1] = y
           /\ \A j \in 1..Len(u) : o.members[j] = u[j]
           /\ Len(p.members) = Len(u) + 1 /\ p.members[Len(u) + 1] = w
           /\ \A j \in 1..Len(u) : p.members[j] = u[j]
        <2>1. IsSequence(u) /\ o.members = Append(u, y) /\ p.members = Append(u, w)
            BY <1>16, <1>18, <1>19 DEF u, y, w
        <2>2. /\ Len(Append(u, y)) = Len(u) + 1 /\ Append(u, y)[Len(u) + 1] = y
              /\ \A j \in 1..Len(u) : Append(u, y)[j] = u[j]
            BY <2>1, AppendFacts
        <2>3. /\ Len(Append(u, w)) = Len(u) + 1 /\ Append(u, w)[Len(u) + 1] = w
              /\ \A j \in 1..Len(u) : Append(u, w)[j] = u[j]
            BY <2>1, AppendFacts
        <2> QED BY <2>1, <2>2, <2>3
    <1>22. Len(u) \in Nat /\ Len(u) + 1 = d /\ Len(u) = d - 1
        BY <1>11, <1>12, <1>16, <1>21 DEF u
    <1>23. /\ Len(p.members) = d /\ p.members[d] = w /\ o.members[d] = y
           /\ \A j \in 1..d - 1 : p.members[j] = Members[tar][j]
        BY <1>12, <1>21, <1>22
    <1>24. y.meta = m.meta /\ h.payload = r
        <2>1. m = [meta |-> m.meta, content |-> m.content]
            BY <1>7 DEF Good
        <2> HIDE DEF m
        <2>2. [m EXCEPT !.content = r] = [meta |-> m.meta, content |-> r]
            BY <2>1
        <2>3. y = [meta |-> m.meta, content |-> r]
            BY <1>12, <1>23, <2>2
        <2>4. y.meta = m.meta /\ y.content = r
            BY <2>3
        <2>5. y.content = h.payload
            BY <1>20
        <2> QED BY <2>4, <2>5
    <1> DEFINE f == SubSeq(c, 1, Len(c) - left')
    <1>25. r \o x = f /\ SubSeq(c, 1, Len(c)) = c
        <2>1. IsSequence(c) /\ left <= Len(c)
            BY <1>7, <1>9 DEF Good, c
        <2>2. /\ left \in Nat /\ IsSequence(x) /\ Len(x) \in Nat /\ Len(x) <= left
              /\ \A k \in 1..Len(x) : x[k] = c[Len(c) - left + k]
            BY <1>5, <1>8, <1>9
        <2> HIDE DEF m
        <2>3. /\ SubSeq(c, 1, Len(c) - left) \o x = SubSeq(c, 1, Len(c) - (left - Len(x)))
              /\ SubSeq(c, 1, Len(c)) = c
            BY <2>1, <2>2, LongerContent
        <2> QED BY <1>9, <1>10, <2>3 DEF r
    <1> HIDE DEF f
    <1>26. w = [meta |-> m.meta, content |-> f]
        BY <1>20, <1>24, <1>25
    <1>27. Copied(d)' = w
        <2>1. m = [meta |-> m.meta, content |-> m.content]
            BY <1>7 DEF Good
        <2>2. CASE left' = 0
            <3>1. Copied(d)' = m
                BY <1>10, <2>2 DEF Copied
            <3>2. Len(c) - left' = Len(c)
                BY <1>9, <2>2
            <3>3. f = m.content
                BY <1>25, <3>2 DEF f, c
            <3> HIDE DEF m
            <3> QED BY <1>26, <2>1, <3>1, <3>3
        <2>3. CASE left' # 0
            <3>1. Copied(d)' = [m EXCEPT !.content = SubSeq(@, 1, Len(@) - left')]
                BY <1>2, <1>10, <2>3 DEF Copied
            <3>2. Copied(d)' = [m EXCEPT !.content = f]
                BY <3>1 DEF f, c
            <3> HIDE DEF m
            <3>3. [m EXCEPT !.content = f] = [meta |-> m.meta, content |-> f]
                BY <2>1
            <3> QED BY <1>26, <3>2, <3>3
        <2> QED BY <2>2, <2>3
    <1>28. \A j \in 1..d - 1 : Copied(j)' = Members[tar][j]
        <2>1. \A j \in 1..d - 1 : j # d
            BY <1>11
        <2> QED BY <1>2, <1>10, <2>1 DEF Copied
    <1>29. ASSUME NEW j \in 1..d PROVE Entry(j)'
        <2> DEFINE a == index[j].at
        <2>1. /\ a \in 1..Len(out) /\ After(out, a - 1).global = NoMeta
              /\ After(out, a - 1).own = NoMeta
              /\ Len(After(out, a - 1).members) = j - 1
              /\ index[j].type = TypeChar(Members[tar][j].meta["type"])
              /\ index[j].path = Members[tar][j].meta["path"]
            BY <1>12 DEF Entry
        <2>2. a \in 1..Len(out') /\ a - 1 \in 0..z - 1
            BY <1>3, <1>5, <1>13, <2>1
        <2>3. After(out', a - 1) = After(out, a - 1)
            BY <1>15, <2>2
        <2> QED BY <1>10, <2>1, <2>2, <2>3 DEF Entry
    <1>30. Written' = d
        BY <1>2, <1>10 DEF Written
    <1>31. \A j \in 1..d : p.members[j] = Copied(j)' /\ Entry(j)'
        <2> HIDE DEF m
        <2> QED BY <1>11, <1>23, <1>27, <1>28, <1>29
    <1>32. p.global = NoMeta /\ p.own = NoMeta
        BY <1>12, <1>18, <1>19
    <1>33. After(out', Len(out')) = p /\ out'[Len(out')] = e /\ Len(index') = d
        BY <1>10, <1>12, <1>13 DEF p
    <1> HIDE DEF m
    <1> QED BY <1>12, <1>14, <1>23, <1>30, <1>31, <1>32, <1>33 DEF OutInv

LEMMA OutInvKept ==
    ASSUME \A t \in Tars : Complete(t),
           \A t \in Tars : \A j \in 1..Len(Members[t]) : Lossless(Members[t][j].meta),
           IInv, OutInv, [Next]_vars
    PROVE  OutInv'
    <1>1. /\ tar \in Tars /\ Complete(tar)
          /\ \A j \in 1..Len(Members[tar]) : Lossless(Members[tar][j].meta)
        BY DEF IInv
    <1>2. CASE ReadMeta
        <2>1. /\ pc = "read" /\ UNCHANGED <<tar, out, index, delivered>>
              /\ pc' \in {"headers", "finish", "failed"}
            BY <1>2 DEF ReadMeta
        <2>2. CASE pc' = "failed"
            BY <2>2 DEF OutInv
        <2>3. CASE pc' # "failed"
            <3>1. Written' = Written
                BY <2>1 DEF Written
            <3> QED BY <2>1, <2>3, <3>1, OutUntouched
        <2> QED BY <2>2, <2>3
    <1>3. CASE ReadName("L", "path") \/ ReadName("K", "linkpath") \/ ReadExtended \/ ReadGlobal
        <2>1. pc = "headers" /\ pc' = "headers" /\ UNCHANGED <<tar, out, index, delivered>>
            BY <1>3 DEF ReadName, ReadExtended, ReadGlobal
        <2>2. Written' = Written
            BY <2>1 DEF Written
        <2> QED BY <2>1, <2>2, OutUntouched
    <1>4. CASE TakeHeader
        <2>1. /\ pc = "headers" /\ pc' = "write" /\ UNCHANGED <<tar, out, index>>
              /\ delivered' = Append(delivered, meta')
            BY <1>4 DEF TakeHeader
        <2>2. Len(delivered) \in Nat /\ Len(delivered') = Len(delivered) + 1
            BY <2>1, AppendFacts, SequenceFacts DEF IInv
        <2>3. Written' = Written
            BY <2>1, <2>2 DEF Written
        <2> QED BY <2>1, <2>3, OutUntouched
    <1>5. CASE WriteEntry
        BY <1>1, <1>5, OutWriteEntry
    <1>6. CASE CopyBlock
        BY <1>1, <1>6, OutCopyBlock
    <1>7. CASE Finish
        <2>1. pc = "finish" /\ pc' = "done" /\ UNCHANGED <<tar, out, index, delivered>>
            BY <1>7 DEF Finish
        <2>2. Written' = Written
            BY <2>1 DEF Written
        <2> QED BY <2>1, <2>2, OutUntouched
    <1>8. CASE ReadFails \/ Fault
        BY <1>8 DEF ReadFails, Fail, Fault, OutInv
    <1>9. CASE UNCHANGED vars \/ ShortWrite
        <2>1. /\ Written' = Written
              /\ \A j : Copied(j)' = Copied(j) /\ (Entry(j)' <=> Entry(j))
            BY <1>9 DEF vars, ShortWrite, Written, Copied, Entry
        <2> QED BY <1>9, <2>1 DEF vars, ShortWrite, OutInv
    <1> QED BY <1>2, <1>3, <1>4, <1>5, <1>6, <1>7, <1>8, <1>9 DEF Next, Step

(* What was written means the members that were read, but for the content  *)
(* that is being copied, and the index says where each of them begins.     *)
THEOREM OutputInvariant ==
    ASSUME \A t \in Tars : Complete(t),
           \A t \in Tars : \A j \in 1..Len(Members[t]) : Lossless(Members[t][j].meta)
    PROVE  Spec => [](IInv /\ OutInv)
    <1>1. Init => IInv /\ OutInv
        BY Initially, OutInitially
    <1>2. (IInv /\ OutInv) /\ [Next]_vars => (IInv /\ OutInv)'
        BY IInvKept, OutInvKept
    <1> QED BY <1>1, <1>2, PTL DEF Spec

(* When convert is done, the output means the members of the input.        *)
LEMMA DoneFacts ==
    ASSUME \A t \in Tars : Complete(t), IInv, OutInv, pc = "done"
    PROVE  LET o == After(out, Len(out)) IN
           /\ IsSequence(out) /\ Len(out) \in Nat /\ Meaning(out) = o.members
           /\ Members[tar] = o.members /\ Len(index) = Len(o.members) /\ Len(index) \in Nat
           /\ \A j \in 1..Len(index) : Entry(j) /\ Good(Members[tar][j])
    <1> DEFINE o == After(out, Len(out))
               u == Members[tar]
    <1>1. /\ tar \in Tars /\ IsSequence(out) /\ Len(out) \in 0..Len(out)
          /\ Len(delivered) = Len(u) /\ Len(out) \in Nat
        BY SequenceFacts DEF IInv
    <1>2. IsSequence(u) /\ Len(u) \in Nat /\ \A j \in 1..Len(u) : Good(u[j])
        BY <1>1, MembersFacts
    <1>3. IsSequence(o.members)
        BY <1>1, KnownFacts
    <1>4. Written = Len(u)
        BY <1>1 DEF Written
    <1>5. \A j \in 1..Len(u) : Copied(j) = u[j]
        BY DEF Copied
    <1>6. /\ Len(o.members) = Len(u) /\ Len(index) = Len(u)
          /\ \A j \in 1..Len(u) : o.members[j] = u[j] /\ Entry(j)
        BY <1>4, <1>5 DEF OutInv
    <1> DEFINE v == o.members
    <1> HIDE DEF u, v
    <1>7. v = u
        BY <1>2, <1>3, <1>6, SameSequence DEF v
    <1>8. Meaning(out) = v
        BY DEF Meaning, After, v
    <1> QED BY <1>1, <1>2, <1>6, <1>7, <1>8 DEF u, v

(* ConvertPreserves: what scar_writer_write_entry wrote for the entries    *)
(* means, by the pax format, the members of the tar.                       *)
THEOREM PreservesTheorem ==
    ASSUME \A t \in Tars : Complete(t),
           \A t \in Tars : \A j \in 1..Len(Members[t]) : Lossless(Members[t][j].meta)
    PROVE  Spec => []ConvertPreserves
    <1>1. IInv /\ OutInv => ConvertPreserves
        BY DoneFacts DEF ConvertPreserves
    <1> QED BY <1>1, OutputInvariant, PTL

(* IndexNames: reading what was written from the place that a line of the  *)
(* index gives finds the member of that line, its type and its path.       *)
THEOREM IndexNamesTheorem ==
    ASSUME \A t \in Tars : Complete(t),
           \A t \in Tars : \A j \in 1..Len(Members[t]) : Lossless(Members[t][j].meta)
    PROVE  Spec => []IndexNames
    <1>1. ASSUME IInv, OutInv PROVE IndexNames
        <2> SUFFICES ASSUME pc = "done", NEW j \in 1..Len(index)
                     PROVE  LET m == Meaning(SubSeq(out, index[j].at, Len(out))) IN
                            /\ m[1] = Meaning(out)[j]
                            /\ m[1].meta["type"] = FileType(index[j].type)
                            /\ m[1].meta["path"] = index[j].path
            BY <1>1 DEF IndexNames
        <2>1. PICK z : z = Len(out)
            OBVIOUS
        <2>2. PICK a : a = index[j].at - 1
            OBVIOUS
        <2>0. PICK n : n = z - a
            OBVIOUS
        <2> DEFINE o == After(out, z)
                   r == SubSeq(out, a + 1, Len(out))
                   e == Members[tar][j]
                   u == After(r, n)
                   b == After(out, a)
        <2>3. /\ IsSequence(out) /\ z \in Nat /\ Meaning(out) = o.members
              /\ Members[tar] = o.members /\ Len(index) = Len(o.members) /\ Len(index) \in Nat
              /\ Entry(j) /\ Good(e)
            BY <1>1, <2>1, DoneFacts
        <2>4. /\ index[j].at \in 1..z /\ b.global = NoMeta /\ b.own = NoMeta
              /\ Len(b.members) = j - 1
              /\ index[j].type = TypeChar(e.meta["type"]) /\ index[j].path = e.meta["path"]
            BY <2>1, <2>2, <2>3 DEF Entry
        <2>5. /\ a \in 0..Len(out) /\ n \in 0..Len(out) - a /\ a + n = z /\ a + 1 = index[j].at
              /\ Len(out) - a = n
            <3> DEFINE k == index[j].at
            <3>1. k \in 1..z /\ a = k - 1 /\ z \in Nat /\ z = Len(out) /\ n = z - a
                BY <2>1, <2>2, <2>3, <2>4, <2>0
            <3> HIDE DEF k
            <3>2. /\ a \in 0..z /\ n \in 0..z - a /\ a + n = z /\ a + 1 = k /\ z - a = n
                BY <3>1
            <3> QED BY <3>1, <3>2 DEF k
        <2>6. /\ IsSequence(r) /\ Len(r) = Len(out) - a
              /\ Len(After(out, a + n).members) = Len(b.members) + Len(u.members)
              /\ \A k \in 1..Len(u.members) :
                   After(out, a + n).members[Len(b.members) + k] = u.members[k]
            <3>1. /\ IsSequence(out) /\ a \in 0..Len(out) /\ n \in 0..Len(out) - a
                  /\ After(out, a).global = NoMeta /\ After(out, a).own = NoMeta
                BY <2>3, <2>4, <2>5
            <3> HIDE DEF o, e
            <3> QED BY <3>1, Resumed
        <2>7. Len(u.members) \in Nat
            <3>1. n \in 0..Len(r)
                BY <2>5, <2>6
            <3> QED BY <2>6, <3>1, KnownFacts
        <2>8. Meaning(r) = u.members
            BY <2>5, <2>6 DEF Meaning, After
        <2>9. r = SubSeq(out, index[j].at, Len(out))
            BY <2>5
        <2> DEFINE v == u.members
                   w == o.members
        <2>10. /\ Len(w) = j - 1 + Len(v) /\ \A k \in 1..Len(v) : w[j - 1 + k] = v[k]
               /\ j \in 1..Len(w) /\ Len(w) \in Nat /\ Len(v) \in Nat
            BY <2>3, <2>4, <2>5, <2>6, <2>7
        <2> HIDE DEF v, w, e
        <2>11. v[1] = w[j]
            <3>1. 1 \in 1..Len(v) /\ j - 1 + 1 = j
                BY <2>10
            <3> QED BY <2>10, <3>1
        <2>12. w[j] = e
            BY <2>3 DEF w, e
        <2>13. FileType(TypeChar(e.meta["type"])) = e.meta["type"]
            BY <2>3, TypeFacts DEF Good
        <2> HIDE DEF r
        <2>14. Meaning(r)[1] = e /\ Meaning(out)[j] = e
            BY <2>3, <2>8, <2>11, <2>12 DEF v, w
        <2> QED BY <2>4, <2>9, <2>13, <2>14
    <1> QED BY <1>1, OutputInvariant, PTL
=============================================================================
