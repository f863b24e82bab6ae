--------------------------- MODULE MCFieldLength ---------------------------
(***************************************************************************)
(* An instance of FieldLength for TLC: lines of up to 35 characters, and   *)
(* lines around a hundred, a thousand and ten thousand.                    *)
(***************************************************************************)
EXTENDS FieldLength

MCLengths == 0..16 \cup 84..102 \cup 985..1002 \cup 9985..10002
=============================================================================
