------------------------------ MODULE PaxFormat ------------------------------
(***************************************************************************)
(* The pax interchange format as scar-c/src/pax.c reads and writes it:     *)
(* metadata, ustar header blocks whose fields have a width, and the        *)
(* extended headers that hold what does not fit.                           *)
(*                                                                         *)
(* Metadata is a function from the keys that are present to their values:  *)
(* a field that scar_meta calls missing is not in its domain.  A text is   *)
(* an identity and a length.  A numeric field has Digits digits of base    *)
(* Base, and a block is Block cells.                                       *)
(***************************************************************************)
EXTENDS Integers, Sequences

CONSTANTS
    Block,     \* cells of a block (512 bytes)
    Width,     \* longest text a ustar text field can hold (100 or 32 bytes)
    Base,      \* base of the digits of a numeric field (8)
    Digits     \* digits of a numeric field, without its terminator (7 or 11)

ASSUME BlockAssumption == Block \in Nat \ {0, 1}
ASSUME WidthAssumption == Width \in Nat \ {0}
ASSUME DigitsAssumption == Base \in Nat \ {0, 1} /\ Digits \in Nat \ {0}

(***************************************************************************)
(* Metadata                                                                *)
(***************************************************************************)
TextFields == {"gname", "linkpath", "path", "uname"}
NumberFields == {"gid", "size", "uid"}
PlainFields == {"mode", "devmajor", "devminor"}     \* no record sets these
HeaderKeys == TextFields \cup NumberFields \cup PlainFields \cup {"mtime"}
RecordOnly == {"atime", "charset", "comment", "hdrcharset"}
RecordKeys == TextFields \cup NumberFields \cup RecordOnly \cup {"mtime"}
MetaKeys == HeaderKeys \cup RecordOnly \cup {"type"}

Empty == [id |-> "", len |-> 0]
NoMeta == [key \in {} |-> Empty]     \* scar_meta_init_empty: every field is missing

Set(key, value, m) ==
    [k \in DOMAIN m \cup {key} |-> IF k = key THEN value ELSE m[k]]

(* The fields of m, and those of base where m has none.                    *)
Over(m, base) ==
    [key \in DOMAIN m \cup DOMAIN base |-> IF key \in DOMAIN m THEN m[key] ELSE base[key]]

FileType(c) ==
    CASE c \in {"0", "7", "nul"} -> "file"
      [] c = "1" -> "hardlink"
      [] c = "2" -> "symlink"
      [] c = "3" -> "chardev"
      [] c = "4" -> "blockdev"
      [] c = "5" -> "directory"
      [] c = "6" -> "fifo"
      [] OTHER -> "unknown"

TypeChar(t) == CHOOSE c \in {"0", "1", "2", "3", "4", "5", "6"} : FileType(c) = t

(***************************************************************************)
(* Objects of a tar stream: a header and what follows it, in cells.        *)
(***************************************************************************)
Aligned(n) == Block * ((n + Block - 1) \div Block)

Zero == [k |-> "zero"]
Zeros(n) == [i \in 1..n |-> Zero]
Record(key, value) == [k |-> "record", key |-> key, value |-> value, blank |-> FALSE]
Blank(key) == [k |-> "record", key |-> key, value |-> Empty, blank |-> TRUE]
Text(value) == [k |-> "text", value |-> value]

Cells(o) ==
    <<[k |-> "head", type |-> o.type, fields |-> o.fields]>>
      \o [i \in 1..Block - 1 |-> [k |-> "rest"]]
      \o o.payload
      \o Zeros(Aligned(Len(o.payload)) - Len(o.payload))

(* The fields of a header block: those of the metadata, and the prefix     *)
(* of a name that was split.                                               *)
BlockFields == HeaderKeys \cup {"prefix"}

(* What an all-zero block says when it is taken for a header.              *)
ZeroHeader ==
    [type |-> "nul",
     fields |-> [key \in BlockFields |->
                    IF key \in TextFields \cup {"prefix"} THEN Empty ELSE 0]]

Join(prefix, name) == [id |-> prefix.id \o "/" \o name.id, len |-> prefix.len + 1 + name.len]

(* block_read_path, used for path and linkpath, prepends the prefix.       *)
ReadFields(fields) ==
    [key \in HeaderKeys |->
        IF key \in {"path", "linkpath"} /\ fields["prefix"].len > 0
        THEN Join(fields["prefix"], fields[key]) ELSE fields[key]]

Ticks == 100                            \* of mtime and atime, per second
TimeKeys == {"atime", "mtime"}

(***************************************************************************)
(* scar_pax_parse: records override what is there, in order; an unknown    *)
(* key is skipped; a record without a value is an error, and so is one     *)
(* whose key does not fit in fieldname: OverlongKeys stands for these.     *)
(***************************************************************************)
OverlongKeys == {"overlong"}    \* of 63 characters and more

\* parse_time returns a time without a fraction before it applies the sign.
SignLost(r) == r.key \in TimeKeys /\ r.value < 0 /\ r.value % Ticks = 0
ParsedValue(r) == IF SignLost(r) THEN -r.value ELSE r.value
ParseOne(m, r) == IF r.key \in RecordKeys THEN Set(r.key, ParsedValue(r), m) ELSE m
Parse(m, records) ==
    LET parsed[n \in 0..Len(records)] ==
            IF n = 0 THEN m ELSE ParseOne(parsed[n - 1], records[n])
    IN  parsed[Len(records)]
Parsable(records) ==
    \A i \in 1..Len(records) :
        records[i].k = "record" /\ ~records[i].blank /\ records[i].key \notin OverlongKeys

(***************************************************************************)
(* scar_pax_write_meta                                                     *)
(***************************************************************************)
Limit == Base ^ Digits - 1              \* largest number a field can hold
MtimeLimit == Base ^ (Digits + 1) - 1   \* 0777777777777: one digit more

\* snprintf with the field's length: the last byte is its terminator.
TextField(m, key) ==
    IF key \notin DOMAIN m THEN Empty
    ELSE IF m[key].len < Width THEN m[key] ELSE [m[key] EXCEPT !.len = Width - 1]

\* snprintf keeps the leading digits of a number that is too long.
Leading(n) ==
    IF n <= Limit THEN n
    ELSE CHOOSE d \in Base ^ (Digits - 1)..Limit : \E k \in 1..n : d = n \div Base ^ k
NumberField(m, key) == IF key \notin DOMAIN m THEN 0 ELSE Leading(m[key])

MtimeField(m) ==
    IF "mtime" \in DOMAIN m /\ m["mtime"] > 0
    THEN Ticks * Leading(m["mtime"] \div Ticks) ELSE 0

Fields(m) ==
    [key \in BlockFields |->
        IF key \in TextFields \cup {"prefix"} THEN TextField(m, key)
        ELSE IF key = "mtime" THEN MtimeField(m) ELSE NumberField(m, key)]

\* Mutant: the test for texts has the terminator on the wrong side.
NeedsRecordLonger(m, key) ==
    \/ key \in RecordOnly /\ key \in DOMAIN m
    \/ key \in TextFields /\ key \in DOMAIN m /\ m[key].len > Width + 1
    \/ key \in NumberFields /\ key \in DOMAIN m /\ m[key] > Limit

(* What must go into an extended header.  HAS_GID tests the comment.       *)
NeedsRecord(m, key) ==
    \/ key \in RecordOnly /\ key \in DOMAIN m
    \/ key \in TextFields /\ key \in DOMAIN m /\ m[key].len > Width
    \/ key \in {"size", "uid"} /\ key \in DOMAIN m /\ m[key] > Limit
    \/ key = "gid" /\ "comment" \in DOMAIN m /\ key \in DOMAIN m /\ m[key] > Limit
    \/ /\ key = "mtime" /\ key \in DOMAIN m
       /\ m[key] < 0 \/ m[key] > Ticks * MtimeLimit \/ m[key] % Ticks # 0

RecordOrder == <<"atime", "charset", "comment", "gid", "gname", "hdrcharset", "linkpath",
                 "mtime", "path", "size", "uid", "uname">>

\* pax_write_time writes the digits of the fraction without leading zeros:
\* a fraction below a tenth is written as if it were ten times itself.
\* Before 1970 the full seconds become one character, as far below '0' as
\* their last digit says.
WrittenTime(t) ==
    LET fraction == t % Ticks
        written == IF 10 * fraction < Ticks THEN 10 * fraction ELSE fraction
    IN  IF t >= 0 THEN t - fraction + written
        ELSE [belowZero |-> (-(t \div Ticks)) % 10, fraction |-> written]

WrittenValue(key, value) == IF key \in TimeKeys THEN WrittenTime(value) ELSE value

(* The records of the extended header that precedes the header, in order.  *)
AddRecord(m, records, key) ==
    IF NeedsRecord(m, key) THEN Append(records, Record(key, WrittenValue(key, m[key])))
    ELSE records
Records(m) ==
    LET made[n \in 0..Len(RecordOrder)] ==
            IF n = 0 THEN << >> ELSE AddRecord(m, made[n - 1], RecordOrder[n])
    IN  made[Len(RecordOrder)]

(* The objects an entry begins with; its content is still to come.         *)
WriteMeta(m) ==
    LET records == Records(m)
        header == [type |-> TypeChar(m["type"]), fields |-> Fields(m), payload |-> << >>]
    IN  IF records = << >> THEN <<header>>
        ELSE <<[type |-> "x", fields |-> [size |-> Len(records)], payload |-> records],
               header>>

(***************************************************************************)
(* What a tar stream means, by the standard and not by the code: global    *)
(* records stay in force, extended headers and GNU names hold for the next *)
(* member and win over global records, and both win over the header.       *)
(***************************************************************************)
\* Of several records with a key the last one holds.
LastOf(records, key) ==
    CHOOSE i \in 1..Len(records) :
        records[i].key = key /\ \A j \in i + 1..Len(records) : records[j].key # key
Overlay(records) ==
    [key \in RecordKeys \cap {records[i].key : i \in 1..Len(records)} |->
        records[LastOf(records, key)].value]

\* The prefix belongs to the name, not to the target of a link.
HeaderMeaning(fields) ==
    [key \in HeaderKeys |->
        IF key = "path" /\ fields["prefix"] # Empty THEN Join(fields["prefix"], fields[key])
        ELSE fields[key]]

Nothing == [global |-> NoMeta, own |-> NoMeta, members |-> << >>]

Interpret(acc, o) ==
    CASE o.type = "g" -> [acc EXCEPT !.global = Over(Overlay(o.payload), @)]
      [] o.type = "x" -> [acc EXCEPT !.own = Over(Overlay(o.payload), @)]
      [] o.type = "L" -> [acc EXCEPT !.own = Set("path", o.payload[1].value, @)]
      [] o.type = "K" -> [acc EXCEPT !.own = Set("linkpath", o.payload[1].value, @)]
      [] OTHER ->
           [acc EXCEPT !.own = NoMeta,
                       !.members = Append(@,
                          [meta |-> Set("type", FileType(o.type),
                                        Over(Over(acc.own, acc.global), HeaderMeaning(o.fields))),
                           content |-> o.payload])]

\* What is known after each object.
Interpretation(objects) ==
    LET after[n \in 0..Len(objects)] ==
            IF n = 0 THEN Nothing ELSE Interpret(after[n - 1], objects[n])
    IN  after
Meaning(objects) == Interpretation(objects)[Len(objects)].members
=============================================================================
