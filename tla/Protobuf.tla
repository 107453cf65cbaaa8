------------------------------ MODULE Protobuf ------------------------------
(***************************************************************************)
(* The reader of the protobuf wire format: exchanges/_protobuf.py.  Data   *)
(* is a sequence of bytes 0 .. 255, a message the sequence of its fields.  *)
(* ProtobufError is a field, the last one, that is not ok.                 *)
(*                                                                         *)
(* A varint is read up to Huge: the frames the program reads are smaller,  *)
(* and so are the field numbers it knows.                                  *)
(***************************************************************************)
EXTENDS Integers, Sequences, FiniteSets, FiniteSetsExt, Functions, SequencesExt

Huge == 268435456          \* 2 ^ 28
Broken == [ok |-> FALSE]

\* The number in the bytes from pos to last: seven bits a byte, the lowest first.
Bits(data, pos, last) ==
    LET Septet(k) == IF pos + k <= last THEN data[pos + k] % 128 ELSE 0
    IN IF \E k \in 4 .. last - pos : Septet(k) # 0 THEN Huge + (Septet(0) % 8)
       ELSE Septet(0) + 128 * (Septet(1) + 128 * (Septet(2) + 128 * Septet(3)))

\* _read_varint: up to the first byte below 128, at most ten bytes.
Varint(data, pos) ==
    LET ends == {p \in pos .. pos + 9 : p <= Len(data) /\ data[p] < 128}
    IN IF ends = {} THEN Broken
       ELSE [ok |-> TRUE, value |-> Bits(data, pos, Min(ends)), next |-> Min(ends) + 1]

\* Mutant: a slice that ends beyond the data is not refused.
BytesClipped(data, pos, n) ==
    [ok |-> TRUE, value |-> SubSeq(data, pos, Min({pos + n - 1, Len(data)})), next |-> Min({pos + n, Len(data) + 1})]

\* n bytes from pos on, which must be there.
Bytes(data, pos, n) ==
    IF pos + n - 1 > Len(data) THEN Broken
    ELSE [ok |-> TRUE, value |-> SubSeq(data, pos, pos + n - 1), next |-> pos + n]

\* As many bytes as a length says that was read before them.
Prefixed(data, length) == IF length.ok THEN Bytes(data, length.next, length.value) ELSE Broken

\* Mutant: the 32-bit fields are taken for 64-bit ones.
ValueWide(data, pos, type) ==
    CASE type = 0 -> Varint(data, pos)
      [] type \in {1, 5} -> Bytes(data, pos, 8)
      [] type = 2 -> Prefixed(data, Varint(data, pos))
      [] OTHER -> Broken

\* The value of a field, by its wire type.
Value(data, pos, type) ==
    CASE type = 0 -> Varint(data, pos)
      [] type = 1 -> Bytes(data, pos, 8)
      [] type = 2 -> Prefixed(data, Varint(data, pos))
      [] type = 5 -> Bytes(data, pos, 4)
      [] OTHER -> Broken

\* A field of this key and value; number 0 is refused.
FieldOf(key, value) ==
    IF key.value < 8 \/ ~value.ok THEN Broken
    ELSE [ok |-> TRUE, no |-> key.value \div 8, wire |-> key.value % 8,
          value |-> value.value, next |-> value.next]

\* The field at pos.
Field(data, pos) ==
    LET key == Varint(data, pos)
    IN IF key.ok THEN FieldOf(key, Value(data, key.next, key.value % 8)) ELSE Broken

\* What parse_message keeps of it.
Kept(field) == [ok |-> TRUE, no |-> field.no, wire |-> field.wire, value |-> field.value]

\* iter_fields, from each place on.
Fields(data) ==
    LET From[pos \in 1 .. Len(data) + 1] ==
          LET field == Field(data, pos)
          IN IF pos > Len(data) THEN <<>>
             ELSE IF field.ok THEN <<Kept(field)>> \o From[field.next] ELSE <<Broken>>
    IN From

\* parse_message.
Message(data) == Fields(data)[1]

Readable(msg) == \A i \in DOMAIN msg : msg[i].ok

\* The last field of a number.
Latest(msg, no) ==
    LET at == {i \in DOMAIN msg : msg[i].no = no}
    IN IF at = {} THEN Broken ELSE msg[Max(at)]

\* get_str, get_bytes and get_int: the last value, if it is of that sort.
None == <<-1>>
Text(msg, no) ==
    IF Latest(msg, no).ok /\ Latest(msg, no).wire = 2 THEN Latest(msg, no).value ELSE None
Number(msg, no) ==
    IF Latest(msg, no).ok /\ Latest(msg, no).wire # 2 THEN Latest(msg, no).value ELSE None

\* get_submessages.
Submessages(msg, no) ==
    FlattenSeq([i \in DOMAIN msg |->
        IF msg[i].no = no /\ msg[i].wire = 2 THEN <<Message(msg[i].value)>> ELSE <<>>])
=============================================================================
