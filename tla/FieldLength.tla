---------------------------- MODULE FieldLength ----------------------------
(***************************************************************************)
(* Lines that begin with their own length in decimal: those of the index   *)
(* (scar_writer_write_entry in scar-writer.c) and the fields of a pax      *)
(* extended header (pax_write_field in pax.c), and those the Rust library  *)
(* writes (write_entry in write.rs, write_pax_bytes in pax.rs).  The       *)
(* length counts its own digits, so the writer guesses their number from   *)
(* the rest of the line, corrects it once, and prints; a reader takes that *)
(* many bytes for the line.  The digits are counted by log10_ceil          *)
(* (internal-util.h, util.rs).                                             *)
(***************************************************************************)
EXTENDS Integers, Sequences

CONSTANT Lengths   \* lengths the text of an index line or a field may have

ASSUME LengthsAssumption == Lengths \subseteq Nat

VARIABLES
    pc,             \* "guess" and "correct" in a call of log10_ceil, or "printed"
    rest,           \* the characters of the line but for the number
    num, lg,        \* num and lg of log10_ceil
    fieldsizelen, fieldsize,
    pows            \* auxiliary: the powers of ten met so far, from 1 on

vars == <<pc, rest, num, lg, fieldsizelen, fieldsize, pows>>

(* A space and the text of the line, of which there always is some;        *)
(* a space, the name, "=", the value and the end of the line.              *)
IndexLine(len) == 1 + len
PaxField(namelen, len) == 1 + namelen + 1 + len + 1

(* What write.rs adds up for a line of an entry: a space, the typeflag and *)
(* a space, the digits of the location, a space, the path and the end of   *)
(* the line.  (A g line has no end of its own and is one shorter.)         *)
RustIndexLine(digits, len) == 3 + digits + 1 + len + 1

Init ==
    /\ pc = "guess"
    /\ \/ \E len \in Lengths : rest = IndexLine(len)
       \/ \E namelen, len \in Lengths : rest = PaxField(namelen, len)
       \/ \E digits \in 1..20, len \in Lengths : rest = RustIndexLine(digits, len)
    /\ num = rest
    /\ lg = 0
    /\ fieldsizelen = 0
    /\ fieldsize = 0
    /\ pows = <<1>>

(* One round of the loop of log10_ceil.                                    *)
Divide ==
    /\ pc \in {"guess", "correct"} /\ num > 0
    /\ lg' = lg + 1
    /\ num' = num \div 10
    /\ pows' = IF lg + 2 > Len(pows) THEN Append(pows, 10 * pows[lg + 1]) ELSE pows
    /\ UNCHANGED <<pc, rest, fieldsizelen, fieldsize>>

(* log10_ceil returns: its second call is for the length with the digits.  *)
Guess ==
    /\ pc = "guess" /\ num = 0
    /\ fieldsizelen' = lg
    /\ num' = rest + lg
    /\ lg' = 0
    /\ pc' = "correct"
    /\ UNCHANGED <<rest, fieldsize, pows>>

\* Mutant: the number of digits is not corrected.
CorrectNot ==
    /\ pc = "correct" /\ num = 0
    /\ fieldsize' = rest + fieldsizelen
    /\ pc' = "printed"
    /\ UNCHANGED <<rest, num, lg, fieldsizelen, pows>>

Correct ==
    /\ pc = "correct" /\ num = 0
    /\ fieldsizelen' = IF lg > fieldsizelen THEN fieldsizelen + 1 ELSE fieldsizelen
    /\ fieldsize' = rest + fieldsizelen'
    /\ pc' = "printed"
    /\ UNCHANGED <<rest, num, lg, pows>>

Next == Divide \/ Guess \/ Correct

Spec == Init /\ [][Next]_vars
-----------------------------------------------------------------------------
TypeOK ==
    /\ pc \in {"guess", "correct", "printed"}
    /\ rest \in Nat \ {0}
    /\ num \in Nat /\ lg \in Nat
    /\ fieldsizelen \in Nat /\ fieldsize \in Nat
    /\ pows \in Seq(Nat \ {0})

(* pows[k + 1] is the k-th power of ten.                                   *)
PowersOfTen ==
    /\ Len(pows) > 0 /\ pows[1] = 1
    /\ \A i \in 1..Len(pows) - 1 : pows[i + 1] = 10 * pows[i]

(* n, which is not 0, has d digits in decimal.                             *)
HasDigits(n, d) == d \in 1..Len(pows) - 1 /\ pows[d] <= n /\ n < pows[d + 1]

(* The number printed before a line is the length of the whole line, the   *)
(* digits of that number among it, also where counting them in makes it    *)
(* one digit longer (9 and 10, 98 to 100, 997 to 1000): a reader that      *)
(* takes as many bytes stops at the end of this very line.                 *)
SelfDescribing ==
    pc = "printed" =>
        \E digits \in 1..Len(pows) :
            PowersOfTen /\ HasDigits(fieldsize, digits) /\ fieldsize = digits + rest
=============================================================================
