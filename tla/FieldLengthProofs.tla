------------------------- MODULE FieldLengthProofs -------------------------
(***************************************************************************)
(* Proof that a line that begins with its own length gives it right,       *)
(* whatever its length.                                                    *)
(***************************************************************************)
EXTENDS FieldLength, TLAPS

(* What log10_ceil was called for.                                         *)
Arg == IF pc = "guess" THEN rest ELSE rest + fieldsizelen

(* The powers, which are all there that the loop variables need; each is   *)
(* more than its exponent.                                                 *)
PowersOK ==
    /\ PowersOfTen
    /\ \A i, j \in 1..Len(pows) : i < j => 10 * pows[i] <= pows[j]
    /\ \A i \in 1..Len(pows) : i - 1 < pows[i]
    /\ lg + 1 \in 1..Len(pows)

(* num is the argument without its last lg digits, the first of which is   *)
(* not a leading zero.                                                     *)
LoopOK ==
    pc \in {"guess", "correct"} =>
        /\ pows[lg + 1] * num <= Arg /\ Arg < pows[lg + 1] * (num + 1)
        /\ IF lg = 0 THEN num = Arg ELSE pows[lg] <= Arg

Guessed == pc = "correct" => HasDigits(rest, fieldsizelen)

IInv == TypeOK /\ PowersOK /\ LoopOK /\ Guessed /\ SelfDescribing

LEMMA Shift ==
    ASSUME NEW p \in Nat, NEW n \in Nat
    PROVE  /\ n \div 10 \in Nat
           /\ (10 * p) * (n \div 10) <= p * n
           /\ p * (n + 1) <= (10 * p) * ((n \div 10) + 1)
<1> DEFINE q == n \div 10
           r == n - 10 * q
<1>1. q \in Nat /\ r \in 0..9 /\ n = 10 * q + r
  OBVIOUS
<1> HIDE DEF q, r
<1>2. p * n = (10 * p) * q + p * r
  BY <1>1
<1>3. p * (n + 1) = (10 * p) * q + p * (r + 1)
  BY <1>1
<1>4. (10 * p) * (q + 1) = (10 * p) * q + 10 * p
  BY <1>1
<1>5. 0 <= p * r /\ p * (r + 1) <= 10 * p
  <2>1. CASE r = 0 BY <2>1
  <2>2. CASE r = 1 BY <2>2
  <2>3. CASE r = 2 BY <2>3
  <2>4. CASE r = 3 BY <2>4
  <2>5. CASE r = 4 BY <2>5
  <2>6. CASE r = 5 BY <2>6
  <2>7. CASE r = 6 BY <2>7
  <2>8. CASE r = 7 BY <2>8
  <2>9. CASE r = 8 BY <2>9
  <2>10. CASE r = 9 BY <2>10
  <2> QED
    BY <1>1, <2>1, <2>2, <2>3, <2>4, <2>5, <2>6, <2>7, <2>8, <2>9, <2>10
<1>6. (10 * p) * q \in Nat /\ p * r \in Nat /\ p * (r + 1) \in Nat
  BY <1>1
<1>7. (10 * p) * q <= p * n /\ p * (n + 1) <= (10 * p) * (q + 1)
  BY <1>2, <1>3, <1>4, <1>5, <1>6
<1> QED
  BY <1>1, <1>7 DEF q

LEMMA InitIInv == Init => IInv
<1> SUFFICES ASSUME Init PROVE IInv
  OBVIOUS
<1>1. rest \in Nat \ {0}
  BY LengthsAssumption DEF Init, IndexLine, PaxField, RustIndexLine
<1>2. pows = <<1>> /\ Len(pows) = 1 /\ pows[1] = 1
  BY DEF Init
<1> QED
  BY <1>1, <1>2 DEF Init, IInv, TypeOK, PowersOK, PowersOfTen, LoopOK, Arg, Guessed,
                    SelfDescribing

(* A round may meet a power of ten for the first time.                     *)
LEMMA DividePowers ==
    ASSUME IInv, Divide
    PROVE  /\ PowersOK'
           /\ \A i \in 1..Len(pows) : pows'[i] = pows[i]
           /\ Len(pows') >= Len(pows)
           /\ pows' \in Seq(Nat \ {0})
           /\ pows'[lg' + 1] = 10 * pows[lg + 1]
<1> USE DEF IInv, TypeOK, PowersOK, PowersOfTen, Divide
<1>1. CASE lg + 2 > Len(pows)
  <2>1. Len(pows) = lg + 1 /\ pows' = Append(pows, 10 * pows[lg + 1])
    BY <1>1
  <2>2. /\ Len(pows') = lg + 2 /\ pows' \in Seq(Nat \ {0})
        /\ pows'[lg + 2] = 10 * pows[lg + 1]
        /\ \A i \in 1..Len(pows) : pows'[i] = pows[i]
    BY <2>1
  <2>3. \A i \in 1..lg + 1 : pows[i] \in Nat /\ pows[i] <= pows[lg + 1]
    BY <2>1
  <2>4. \A i, j \in 1..Len(pows') : i < j => 10 * pows'[i] <= pows'[j]
    <3> SUFFICES ASSUME NEW i \in 1..lg + 2, NEW j \in 1..lg + 2, i < j
                 PROVE  10 * pows'[i] <= pows'[j]
      BY <2>2
    <3>1. CASE j <= lg + 1
      <4>1. lg \in Nat /\ i \in 1..Len(pows) /\ j \in 1..Len(pows)
        BY <2>1, <3>1
      <4>2. pows'[i] = pows[i] /\ pows'[j] = pows[j]
        BY <2>2, <4>1
      <4>3. 10 * pows[i] <= pows[j]
        BY <4>1
      <4> HIDE DEF IInv, TypeOK, PowersOK, PowersOfTen, Divide
      <4> QED BY <4>2, <4>3
    <3>2. CASE j = lg + 2
      <4>1. lg \in Nat /\ i \in 1..lg + 1 /\ i \in 1..Len(pows)
        BY <2>1, <3>2
      <4>2. pows'[i] = pows[i] /\ pows'[j] = 10 * pows[lg + 1]
        BY <2>2, <3>2, <4>1
      <4>3. lg + 1 \in 1..lg + 1
        BY <4>1
      <4> HIDE DEF IInv, TypeOK, PowersOK, PowersOfTen, Divide
      <4>4. pows[i] \in Nat /\ pows[lg + 1] \in Nat /\ pows[i] <= pows[lg + 1]
        BY <2>3, <4>1, <4>3
      <4> QED BY <4>2, <4>4
    <3>3. lg \in Nat
      OBVIOUS
    <3> HIDE DEF IInv, TypeOK, PowersOK, PowersOfTen, Divide
    <3>4. j <= lg + 1 \/ j = lg + 2
      BY <3>3
    <3> QED BY <3>1, <3>2, <3>4
  <2>5. ASSUME NEW i \in 1..Len(pows') - 1 PROVE pows'[i + 1] = 10 * pows'[i]
    <3>1. CASE i = lg + 1
      BY <2>1, <2>2, <3>1
    <3>2. CASE i # lg + 1
      <4>1. i \in 1..Len(pows) - 1 /\ i \in 1..Len(pows) /\ i + 1 \in 1..Len(pows)
        BY <2>1, <2>2, <3>2
      <4> QED BY <2>2, <4>1
    <3> QED BY <3>1, <3>2
  <2>6. \A i \in 1..Len(pows') : i - 1 < pows'[i]
    BY <2>1, <2>2
  <2>7. lg' = lg + 1 /\ lg' + 1 \in 1..Len(pows') /\ pows'[1] = 1
    BY <2>1, <2>2
  <2>8. PowersOK'
    <3>1. PowersOfTen'
      BY <2>2, <2>5, <2>7
    <3> QED
      BY <2>4, <2>6, <2>7, <3>1
  <2> HIDE DEF PowersOK, PowersOfTen
  <2> QED BY <2>1, <2>2, <2>7, <2>8
<1>2. CASE ~(lg + 2 > Len(pows))
  BY <1>2
<1> QED BY <1>1, <1>2

LEMMA DivideIInv == ASSUME IInv, Divide PROVE IInv'
<1> DEFINE p == pows[lg + 1]
<1>1. /\ PowersOK' /\ pows' \in Seq(Nat \ {0})
      /\ \A i \in 1..Len(pows) : pows'[i] = pows[i]
      /\ Len(pows') >= Len(pows)
      /\ pows'[lg' + 1] = 10 * p
  BY DividePowers
<1>2. /\ p \in Nat \ {0} /\ num \in Nat \ {0} /\ lg' = lg + 1 /\ num' = num \div 10
      /\ Arg' = Arg /\ Arg \in Nat /\ pc' = pc
  BY DEF IInv, TypeOK, PowersOK, Divide, Arg
<1>3. num' \in Nat /\ (10 * p) * num' <= p * num /\ p * (num + 1) <= (10 * p) * (num' + 1)
  BY <1>2, Shift
<1>4. p * num <= Arg /\ Arg < p * (num + 1)
  BY DEF IInv, LoopOK, Divide
<1>5. p <= p * num
  BY <1>2
<1>6. pows'[lg'] = p
  BY <1>1, <1>2 DEF IInv, PowersOK, TypeOK
<1>7. LoopOK'
  <2>1. (10 * p) * num' <= Arg /\ Arg < (10 * p) * (num' + 1) /\ p <= Arg
    <3>1. /\ (10 * p) * num' \in Nat /\ p * num \in Nat /\ p * (num + 1) \in Nat
          /\ (10 * p) * (num' + 1) \in Nat
      BY <1>2, <1>3
    <3> QED BY <1>2, <1>3, <1>4, <1>5, <3>1
  <2> HIDE DEF p
  <2>2. lg' # 0
    BY <1>2 DEF IInv, TypeOK
  <2> QED BY <1>1, <1>2, <1>6, <2>1, <2>2 DEF LoopOK
<1>8. TypeOK'
  BY <1>1, <1>2, <1>3 DEF IInv, TypeOK, Divide
<1>9. Guessed'
  BY <1>1, <1>2 DEF IInv, TypeOK, Guessed, HasDigits, Divide
<1>10. SelfDescribing'
  BY <1>2 DEF Divide, SelfDescribing
<1> QED BY <1>1, <1>7, <1>8, <1>9, <1>10 DEF IInv

LEMMA GuessIInv == ASSUME IInv, Guess PROVE IInv'
<1>1. rest < pows[lg + 1] /\ lg # 0 /\ pows[lg] <= rest
  BY DEF IInv, TypeOK, PowersOK, LoopOK, Arg, Guess
<1>2. HasDigits(rest, fieldsizelen)'
  BY <1>1 DEF IInv, TypeOK, PowersOK, Guess, HasDigits
<1> QED
  BY <1>1, <1>2 DEF IInv, TypeOK, PowersOK, PowersOfTen, LoopOK, Arg, Guess, Guessed,
                    SelfDescribing

LEMMA Monotone ==
    ASSUME IInv, NEW i \in 1..Len(pows), NEW j \in 1..Len(pows), i <= j
    PROVE  pows[i] \in Nat /\ pows[j] \in Nat /\ pows[i] <= pows[j]
<1>1. pows[i] \in Nat /\ pows[j] \in Nat
  BY DEF IInv, TypeOK
<1>2. CASE i = j BY <1>1, <1>2
<1>3. CASE i < j
  <2>1. 10 * pows[i] <= pows[j]
    BY <1>3 DEF IInv, PowersOK
  <2> QED BY <1>1, <2>1
<1> QED BY <1>1, <1>2, <1>3

LEMMA CorrectIInv == ASSUME IInv, Correct PROVE IInv'
<1>0. /\ fieldsizelen \in Nat /\ lg \in Nat /\ rest \in Nat /\ pows \in Seq(Nat \ {0})
      /\ lg + 1 <= Len(pows)
      /\ \A i \in 1..Len(pows) : pows[i] \in Nat
  BY DEF IInv, TypeOK, PowersOK
<1>1. /\ rest + fieldsizelen < pows[lg + 1] /\ lg # 0 /\ pows[lg] <= rest + fieldsizelen
      /\ pows' = pows /\ rest' = rest /\ lg' = lg /\ pc' = "printed"
  BY DEF IInv, TypeOK, PowersOK, LoopOK, Arg, Correct
<1>2. /\ fieldsizelen \in 1..Len(pows) - 1 /\ pows[fieldsizelen] <= rest
      /\ rest < pows[fieldsizelen + 1]
  BY DEF IInv, Guessed, HasDigits, Correct
<1>3. PowersOfTen'
  BY <1>1 DEF IInv, PowersOK, PowersOfTen
<1>4. \E digits \in 1..Len(pows) :
          HasDigits(fieldsize', digits) /\ fieldsize' = digits + rest
  <2>1. CASE lg > fieldsizelen
    <3>1. fieldsizelen' = fieldsizelen + 1 /\ fieldsize' = rest + fieldsizelen + 1
      BY <2>1, <1>0 DEF Correct
    <3>2. fieldsizelen + 2 <= Len(pows)
      BY <2>1, <1>0
    <3>3. pows[fieldsizelen + 1] <= pows[lg]
      <4>1. /\ fieldsizelen + 1 \in 1..Len(pows) /\ lg \in 1..Len(pows)
            /\ fieldsizelen + 1 <= lg
        BY <2>1, <1>0, <1>1, <1>2, <3>2
      <4> QED BY <4>1, Monotone
    <3>4. 10 * pows[fieldsizelen + 1] <= pows[fieldsizelen + 2]
      BY <1>0, <1>2, <3>2 DEF IInv, PowersOK
    <3>5. fieldsizelen < pows[fieldsizelen + 1]
      BY <1>0, <1>2, <3>2 DEF IInv, PowersOK
    <3>6. /\ pows[fieldsizelen + 1] \in Nat /\ pows[fieldsizelen + 2] \in Nat
          /\ pows[lg] \in Nat
      <4>1. /\ fieldsizelen + 1 \in 1..Len(pows) /\ fieldsizelen + 2 \in 1..Len(pows)
            /\ lg \in 1..Len(pows)
        BY <1>0, <1>1, <3>2
      <4> QED BY <1>0, <4>1
    <3>7. /\ pows[fieldsizelen + 1] <= rest + fieldsizelen + 1
          /\ rest + fieldsizelen + 1 < pows[fieldsizelen + 2]
      <4>1. rest < pows[fieldsizelen + 1] /\ pows[lg] <= rest + fieldsizelen
        BY <1>1, <1>2
      <4>2. fieldsizelen \in Nat /\ rest \in Nat
        BY <1>0
      <4>3. pows[fieldsizelen + 1] <= rest + fieldsizelen
        BY <4>1, <4>2, <3>3, <3>6
      <4>4. rest + fieldsizelen + 1 < 10 * pows[fieldsizelen + 1]
        BY <4>1, <4>2, <3>5, <3>6
      <4> QED BY <4>2, <4>3, <4>4, <3>4, <3>6
    <3>8. (fieldsizelen + 1) + 1 = fieldsizelen + 2
      BY <1>0
    <3>9. HasDigits(fieldsize', fieldsizelen + 1)
      BY <1>0, <1>2, <3>1, <3>2, <3>7, <3>8 DEF HasDigits
    <3> QED BY <1>0, <1>2, <3>1, <3>2, <3>9
  <2>2. CASE ~(lg > fieldsizelen)
    <3>1. fieldsizelen' = fieldsizelen /\ fieldsize' = rest + fieldsizelen
      BY <2>2, <1>0 DEF Correct
    <3>2. pows[lg + 1] <= pows[fieldsizelen + 1]
      BY <2>2, <1>0, <1>2, Monotone
    <3>3. /\ pows[fieldsizelen] \in Nat /\ pows[fieldsizelen + 1] \in Nat
          /\ pows[lg + 1] \in Nat
      BY <1>0, <1>2
    <3>4. /\ pows[fieldsizelen] <= rest + fieldsizelen
          /\ rest + fieldsizelen < pows[fieldsizelen + 1]
      <4>1. rest \in Nat /\ fieldsizelen \in Nat
        BY <1>0
      <4>2. pows[fieldsizelen] <= rest /\ rest + fieldsizelen < pows[lg + 1]
        BY <1>1, <1>2
      <4> QED BY <4>1, <4>2, <3>2, <3>3
    <3>5. HasDigits(fieldsize', fieldsizelen)
      BY <1>0, <1>2, <3>1, <3>4 DEF HasDigits
    <3> QED BY <1>0, <1>2, <3>1, <3>5
  <2> QED BY <2>1, <2>2
<1>5. SelfDescribing'
  BY <1>1, <1>3, <1>4 DEF SelfDescribing, HasDigits
<1>6. TypeOK'
  BY <1>0, <1>1 DEF IInv, TypeOK, Correct
<1> QED
  BY <1>1, <1>5, <1>6 DEF IInv, PowersOK, PowersOfTen, LoopOK, Guessed, Correct

LEMMA NextIInv == IInv /\ [Next]_vars => IInv'
<1> SUFFICES ASSUME IInv, [Next]_vars PROVE IInv'
  OBVIOUS
<1>1. CASE Divide BY <1>1, DivideIInv
<1>2. CASE Guess BY <1>2, GuessIInv
<1>3. CASE Correct BY <1>3, CorrectIInv
<1>4. CASE UNCHANGED vars
  BY <1>4 DEF vars, IInv, TypeOK, PowersOK, PowersOfTen, LoopOK, Arg, Guessed, HasDigits,
              SelfDescribing
<1> QED BY <1>1, <1>2, <1>3, <1>4 DEF Next

(* The length printed before an index line or a pax field is the length of *)
(* all of it, for every length of the text.                                *)
THEOREM LengthsSelfDescribing == Spec => []SelfDescribing
<1>1. IInv => SelfDescribing
  BY DEF IInv
<1> QED
  BY <1>1, InitIInv, NextIInv, PTL DEF Spec
=============================================================================
