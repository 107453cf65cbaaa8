--------------------------- MODULE MexcBytesProofs ---------------------------
(***************************************************************************)
(* Proofs about the protobuf reader and about MEXC's frames as bytes.      *)
(***************************************************************************)
EXTENDS MexcBytes, FeedProofs

Data == Seq(Nat)

\* The rest of y from q on is what the rest of x from p on begins with.
Extends(x, p, y, q) ==
    \A i \in Nat : q + i <= Len(y) => p + i <= Len(x) /\ x[p + i] = y[q + i]

\* Something read at p in one place and at q in the other, of one value and size.
Moved(f, p, g, q) ==
    /\ f.ok /\ g.ok
    /\ f.value = g.value
    /\ f.next - p = g.next - q

LEMMA ShiftBack ==
    ASSUME NEW a \in Int, NEW b \in Int, NEW c \in Int, NEW d \in Int, a - b = c - d,
           NEW p \in Int, NEW q \in Int
    PROVE  /\ a = b + (c - d)
           /\ b = p + (d - q) => a = p + (c - q)
OBVIOUS

\* A byte of data is a number.
LEMMA ByteOf ==
    ASSUME NEW x \in Data
    PROVE  Len(x) \in Nat /\ \A i \in 1 .. Len(x) : x[i] \in Nat
BY LenProperties, ElementOfSeq DEF Data

LEMMA ExtendsOn ==
    ASSUME NEW x, NEW p \in Nat, NEW y, NEW q \in Nat, Extends(x, p, y, q), NEW n \in Nat
    PROVE  Extends(x, p + n, y, q + n)
<1>1. ASSUME NEW i \in Nat, (q + n) + i <= Len(y)
      PROVE  (p + n) + i <= Len(x) /\ x[(p + n) + i] = y[(q + n) + i]
  <2>1. n + i \in Nat /\ (q + n) + i = q + (n + i) /\ (p + n) + i = p + (n + i)
    OBVIOUS
  <2> QED
    BY <1>1, <2>1 DEF Extends
<1> QED
  BY <1>1 DEF Extends

-----------------------------------------------------------------------------
(* Varints.                                                                *)

LEMMA Remainders ==
    /\ \A n \in Nat : n % 8 \in 0 .. 7 /\ n \div 8 \in Nat /\ n = 8 * (n \div 8) + (n % 8)
    /\ \A n \in Nat : n % 128 \in 0 .. 127 /\ n \div 128 \in Nat /\ n = 128 * (n \div 128) + (n % 128)
OBVIOUS

\* The bound on numbers is what four bytes hold.
LEMMA HugeIsNat == Huge \in Nat /\ Huge = 128 * (128 * (128 * 128))
BY SMT DEF Huge

\* The varint at pos ends with the byte at e.
Stops(data, pos, e) ==
    /\ e \in pos .. pos + 9 /\ e <= Len(data)
    /\ data[e] < 128
    /\ \A b \in pos .. e - 1 : ~(data[b] < 128)

\* Seven bits of the number.
Septet(data, pos, last, k) == IF pos + k <= last THEN data[pos + k] % 128 ELSE 0

LEMMA SeptetType ==
    ASSUME NEW data \in Data, NEW pos \in Nat \ {0}, NEW last \in Nat, last <= Len(data), NEW k \in Nat
    PROVE  Septet(data, pos, last, k) \in 0 .. 127
<1>1. CASE pos + k <= last
  <2>1. pos + k \in 1 .. Len(data)
    BY <1>1, ByteOf
  <2>2. data[pos + k] \in Nat
    BY <2>1, ByteOf
  <2> QED
    BY <1>1, <2>2, Remainders DEF Septet
<1> QED
  BY <1>1 DEF Septet

\* The value of a varint depends on its septets only.
LEMMA BitsOfSeptets ==
    ASSUME NEW data, NEW pos, NEW last
    PROVE  Bits(data, pos, last) =
             IF \E k \in 4 .. last - pos : Septet(data, pos, last, k) # 0
             THEN Huge + (Septet(data, pos, last, 0) % 8)
             ELSE Septet(data, pos, last, 0) + 128 * (Septet(data, pos, last, 1)
                    + 128 * (Septet(data, pos, last, 2) + 128 * Septet(data, pos, last, 3)))
BY Zenon DEF Bits, Septet

LEMMA BitsType ==
    ASSUME NEW data \in Data, NEW pos \in Nat \ {0}, NEW last \in Nat, last <= Len(data)
    PROVE  Bits(data, pos, last) \in Nat
<1> DEFINE a == Septet(data, pos, last, 0)
           b == Septet(data, pos, last, 1)
           c == Septet(data, pos, last, 2)
           d == Septet(data, pos, last, 3)
<1>1. a \in 0 .. 127 /\ b \in 0 .. 127 /\ c \in 0 .. 127 /\ d \in 0 .. 127
  BY SeptetType
<1>2. \/ Bits(data, pos, last) = Huge + (a % 8)
      \/ Bits(data, pos, last) = a + 128 * (b + 128 * (c + 128 * d))
  BY BitsOfSeptets
<1> HIDE DEF a, b, c, d
<1>3. a % 8 \in 0 .. 7
  <2>1. a \in Nat
    BY <1>1
  <2> QED
    BY <2>1, Remainders
<1> QED
  BY <1>1, <1>2, <1>3, HugeIsNat

\* _read_varint by the place where it stops: there is one, and the number is read up to
\* there; or there is none, and the varint is broken.
LEMMA VarintStops ==
    ASSUME NEW data \in Data, NEW pos \in Nat \ {0}
    PROVE  /\ \A e : Stops(data, pos, e) =>
                Varint(data, pos) = [ok |-> TRUE, value |-> Bits(data, pos, e), next |-> e + 1]
           /\ \/ \E e : Stops(data, pos, e)
              \/ Varint(data, pos) = Broken
<1> DEFINE ends == {p \in pos .. pos + 9 : p <= Len(data) /\ data[p] < 128}
<1>1. Varint(data, pos) =
        IF ends = {} THEN Broken
        ELSE [ok |-> TRUE, value |-> Bits(data, pos, Min(ends)), next |-> Min(ends) + 1]
  BY DEF Varint
<1>2. ASSUME NEW e, Stops(data, pos, e)
      PROVE  ends # {} /\ Min(ends) = e
  <2>1. e \in ends /\ \A p \in ends : e <= p
    BY <1>2 DEF Stops
  <2>2. ends \subseteq Int
    OBVIOUS
  <2> HIDE DEF ends
  <2>3. \A m \in ends : (\A p \in ends : m <= p) => m = e
    BY <2>1, <2>2
  <2> QED
    BY <2>1, <2>3, Zenon DEF Min
<1>3. ASSUME ends # {}
      PROVE  \E e : Stops(data, pos, e)
  <2>1. ends \in SUBSET Nat
    OBVIOUS
  <2>2. PICK e \in ends : \A p \in ends : e <= p
    <3> HIDE DEF ends
    <3> QED
      BY <1>3, <2>1, LeastNat
  <2>3. Len(data) \in Nat
    BY ByteOf
  <2>4. ASSUME NEW p \in pos .. e - 1 PROVE ~(data[p] < 128)
    <3>1. p \in pos .. pos + 9 /\ p <= Len(data) /\ ~(e <= p)
      BY <2>2, <2>3
    <3> QED
      BY <2>2, <3>1
  <2>5. e \in pos .. pos + 9 /\ e <= Len(data) /\ data[e] < 128
    BY <2>2
  <2> QED
    BY <2>4, <2>5 DEF Stops
<1> HIDE DEF ends
<1> QED
  BY <1>1, <1>2, <1>3, Zenon

LEMMA BitsCarry ==
    ASSUME NEW x \in Data, NEW y \in Data, NEW p \in Nat \ {0}, NEW q \in Nat \ {0},
           Extends(x, p, y, q), NEW e, Stops(y, q, e)
    PROVE  /\ Stops(x, p, p + (e - q))
           /\ Bits(x, p, p + (e - q)) = Bits(y, q, e)
<1> DEFINE n == e - q
<1>1. n \in 0 .. 9 /\ e = q + n /\ Len(x) \in Nat /\ Len(y) \in Nat /\ q + n <= Len(y)
  BY ByteOf DEF Stops
<1> HIDE DEF n
<1>2. ASSUME NEW i \in 0 .. n
      PROVE  p + i <= Len(x) /\ x[p + i] = y[q + i]
  <2>1. i \in Nat /\ q + i <= Len(y)
    BY <1>1
  <2> QED
    BY <2>1 DEF Extends
<1>3. Stops(x, p, p + n)
  <2>1. p + n \in p .. p + 9 /\ p + n <= Len(x) /\ x[p + n] < 128
    <3>1. n \in 0 .. n
      BY <1>1
    <3>2. p + n <= Len(x) /\ x[p + n] = y[q + n]
      BY <1>2, <3>1
    <3> QED
      BY <1>1, <3>2 DEF Stops
  <2>2. ASSUME NEW r \in p .. (p + n) - 1
        PROVE  ~(x[r] < 128)
    <3>1. /\ r - p \in 0 .. n /\ r = p + (r - p)
          /\ q + (r - p) \in q .. e - 1
      BY <1>1
    <3>2. ~(y[q + (r - p)] < 128)
      BY <3>1 DEF Stops
    <3>3. x[p + (r - p)] = y[q + (r - p)]
      BY <1>2, <3>1
    <3> QED
      BY <3>1, <3>2, <3>3
  <2> QED
    BY <2>1, <2>2, Zenon DEF Stops
<1>4. ASSUME NEW k \in Nat
      PROVE  Septet(x, p, p + n, k) = Septet(y, q, q + n, k)
  <2>1. CASE k <= n
    <3>1. p + k <= p + n /\ q + k <= q + n /\ k \in 0 .. n
      BY <1>1, <2>1
    <3>2. x[p + k] = y[q + k]
      BY <1>2, <3>1
    <3> QED
      BY <3>1, <3>2 DEF Septet
  <2>2. CASE ~(k <= n)
    <3>1. ~(p + k <= p + n) /\ ~(q + k <= q + n)
      BY <1>1, <2>2
    <3> QED
      BY <3>1 DEF Septet
  <2> QED
    BY <2>1, <2>2
<1>5. Bits(x, p, p + n) = Bits(y, q, q + n)
  <2>1. /\ Septet(x, p, p + n, 0) = Septet(y, q, q + n, 0)
        /\ Septet(x, p, p + n, 1) = Septet(y, q, q + n, 1)
        /\ Septet(x, p, p + n, 2) = Septet(y, q, q + n, 2)
        /\ Septet(x, p, p + n, 3) = Septet(y, q, q + n, 3)
    BY <1>4
  <2>2. /\ (p + n) - p = n /\ (q + n) - q = n
        /\ \A k \in 4 .. n : k \in Nat
    BY <1>1
  <2>3. (\E k \in 4 .. (p + n) - p : Septet(x, p, p + n, k) # 0)
           <=> (\E k \in 4 .. (q + n) - q : Septet(y, q, q + n, k) # 0)
    BY <1>4, <2>2, Zenon
  <2> QED
    BY <2>1, <2>3, BitsOfSeptets, Zenon
<1> QED
  BY <1>1, <1>3, <1>5 DEF n

\* A varint is read alike wherever its bytes are.
LEMMA VarintCarries ==
    ASSUME NEW x \in Data, NEW y \in Data, NEW p \in Nat \ {0}, NEW q \in Nat \ {0},
           Extends(x, p, y, q), Varint(y, q).ok
    PROVE  /\ Moved(Varint(x, p), p, Varint(y, q), q)
           /\ Varint(y, q).value \in Nat
           /\ Varint(y, q).next \in q + 1 .. Len(y) + 1
<1>1. PICK e : Stops(y, q, e)
  BY VarintStops DEF Broken
<1>2. Varint(y, q) = [ok |-> TRUE, value |-> Bits(y, q, e), next |-> e + 1]
  BY <1>1, VarintStops
<1>3. Stops(x, p, p + (e - q)) /\ Bits(x, p, p + (e - q)) = Bits(y, q, e)
  BY <1>1, BitsCarry
<1>4. Varint(x, p) = [ok |-> TRUE, value |-> Bits(y, q, e), next |-> p + (e - q) + 1]
  BY <1>3, VarintStops
<1>5. e \in Nat /\ q <= e /\ e <= Len(y) /\ Len(y) \in Nat
  BY <1>1, ByteOf DEF Stops
<1>6. Bits(y, q, e) \in Nat
  BY <1>5, BitsType
<1> QED
  BY <1>2, <1>4, <1>5, <1>6 DEF Moved

\* So are bytes.
LEMMA BytesCarry ==
    ASSUME NEW x \in Data, NEW y \in Data, NEW p \in Nat \ {0}, NEW q \in Nat \ {0},
           Extends(x, p, y, q), p <= Len(x) + 1, NEW n \in Nat, Bytes(y, q, n).ok
    PROVE  /\ Moved(Bytes(x, p, n), p, Bytes(y, q, n), q)
           /\ Bytes(y, q, n).value \in Data
           /\ Bytes(y, q, n).next \in q .. Len(y) + 1
<1>1. Len(x) \in Nat /\ Len(y) \in Nat
  BY ByteOf
<1>2. ~(q + n - 1 > Len(y))
  BY DEF Bytes, Broken
<1>3. ASSUME NEW i \in 0 .. n - 1
      PROVE  p + i <= Len(x) /\ x[p + i] = y[q + i] /\ y[q + i] \in Nat
  <2>1. i \in Nat /\ q + i \in 1 .. Len(y)
    BY <1>1, <1>2
  <2> QED
    BY <2>1, ByteOf DEF Extends
<1>4. ~(p + n - 1 > Len(x))
  <2>1. n # 0 => n - 1 \in 0 .. n - 1 /\ p + (n - 1) = p + n - 1
    OBVIOUS
  <2>2. CASE n = 0
    BY <1>1, <2>2
  <2>3. CASE n # 0
    <3>1. p + (n - 1) <= Len(x)
      BY <1>3, <2>1, <2>3
    <3> QED
      BY <1>1, <2>1, <2>3, <3>1
  <2> QED
    BY <2>2, <2>3
<1>5. SubSeq(x, p, p + n - 1) = SubSeq(y, q, q + n - 1) /\ SubSeq(y, q, q + n - 1) \in Data
  <2> DEFINE s == SubSeq(x, p, p + n - 1)
             t == SubSeq(y, q, q + n - 1)
  <2>1. /\ s \in Data /\ Len(s) = n
        /\ \A i \in 1 .. n : s[i] = x[p + i - 1]
    <3>1. \A i \in p .. p + n - 1 : x[i] \in Nat
      <4>1. ASSUME NEW i \in p .. p + n - 1 PROVE x[i] \in Nat
        <5>1. i - p \in 0 .. n - 1 /\ i = p + (i - p)
          OBVIOUS
        <5> QED
          BY <1>3, <5>1
      <4> QED
        BY <4>1
    <3>2. p \in Int /\ p + n - 1 \in Int /\ (IF p <= p + n - 1 THEN p + n - 1 - p + 1 ELSE 0) = n
      OBVIOUS
    <3> QED
      BY <3>1, <3>2, SubSeqProperties DEF Data
  <2>2. /\ t \in Data /\ Len(t) = n
        /\ \A i \in 1 .. n : t[i] = y[q + i - 1]
    <3>1. \A i \in q .. q + n - 1 : y[i] \in Nat
      <4>1. ASSUME NEW i \in q .. q + n - 1 PROVE y[i] \in Nat
        <5>1. i - q \in 0 .. n - 1 /\ i = q + (i - q)
          OBVIOUS
        <5> QED
          BY <1>3, <5>1
      <4> QED
        BY <4>1
    <3>2. q \in Int /\ q + n - 1 \in Int /\ (IF q <= q + n - 1 THEN q + n - 1 - q + 1 ELSE 0) = n
      OBVIOUS
    <3> QED
      BY <3>1, <3>2, SubSeqProperties DEF Data
  <2>3. ASSUME NEW i \in 1 .. n PROVE s[i] = t[i]
    <3>1. i - 1 \in 0 .. n - 1 /\ p + (i - 1) = p + i - 1 /\ q + (i - 1) = q + i - 1
      OBVIOUS
    <3> QED
      BY <1>3, <2>1, <2>2, <3>1
  <2> HIDE DEF s, t
  <2>4. s = t
    BY <2>1, <2>2, <2>3, SeqEqual DEF Data
  <2> QED
    BY <2>2, <2>4 DEF s, t
<1> QED
  BY <1>1, <1>2, <1>4, <1>5 DEF Bytes, Moved

-----------------------------------------------------------------------------
(* Fields.                                                                 *)

LEMMA ValueCarries ==
    ASSUME NEW x \in Data, NEW y \in Data, NEW p \in Nat \ {0}, NEW q \in Nat \ {0},
           Extends(x, p, y, q), p <= Len(x) + 1, NEW type, Value(y, q, type).ok
    PROVE  /\ Moved(Value(x, p, type), p, Value(y, q, type), q)
           /\ Value(y, q, type).value \in IF type = 0 THEN Nat ELSE Data
           /\ Value(y, q, type).next \in q .. Len(y) + 1
<1>0. Len(x) \in Nat /\ Len(y) \in Nat
  BY ByteOf
<1>1. CASE type = 0
  <2>1. Value(x, p, type) = Varint(x, p) /\ Value(y, q, type) = Varint(y, q)
    BY <1>1 DEF Value
  <2> QED
    BY <1>0, <1>1, <2>1, VarintCarries
<1>2. CASE type = 1
  <2>1. Value(x, p, type) = Bytes(x, p, 8) /\ Value(y, q, type) = Bytes(y, q, 8)
    BY <1>2 DEF Value
  <2> QED
    BY <1>2, <2>1, BytesCarry
<1>3. CASE type = 5
  <2>1. Value(x, p, type) = Bytes(x, p, 4) /\ Value(y, q, type) = Bytes(y, q, 4)
    BY <1>3 DEF Value
  <2> QED
    BY <1>3, <2>1, BytesCarry
<1>4. CASE type = 2
  <2> DEFINE f == Varint(x, p)
             g == Varint(y, q)
  <2>1. Value(x, p, type) = Prefixed(x, f) /\ Value(y, q, type) = Prefixed(y, g)
    BY <1>4 DEF Value
  <2>2. g.ok
    BY <2>1 DEF Prefixed, Broken
  <2>3. /\ Moved(f, p, g, q) /\ g.value \in Nat /\ g.next \in q + 1 .. Len(y) + 1
    BY <2>2, VarintCarries
  <2>4. f.ok /\ f.next \in p + 1 .. Len(x) + 1
    <3>1. Extends(x, p, x, p)
      BY DEF Extends
    <3>2. f.ok
      BY <2>3 DEF Moved
    <3> QED
      BY <3>1, <3>2, VarintCarries
  <2> HIDE DEF f, g
  <2>5. f.next = p + (g.next - q) /\ g.next = q + (g.next - q) /\ f.value = g.value
    BY <2>3, <2>4, SMTT(30) DEF Moved
  <2>6. Extends(x, f.next, y, g.next)
    <3>1. g.next - q \in Nat
      BY <2>3
    <3>2. Extends(x, p + (g.next - q), y, q + (g.next - q))
      BY <3>1, ExtendsOn
    <3> QED
      BY <2>5, <3>2
  <2>7. Value(x, p, type) = Bytes(x, f.next, g.value) /\ Value(y, q, type) = Bytes(y, g.next, g.value)
    BY <2>1, <2>2, <2>4, <2>5 DEF Prefixed
  <2>8. /\ f.next \in Nat \ {0} /\ g.next \in Nat \ {0} /\ f.next <= Len(x) + 1
    BY <1>0, <2>3, <2>4
  <2>9. Bytes(y, g.next, g.value).ok
    BY <2>7
  <2>10. /\ Moved(Bytes(x, f.next, g.value), f.next, Bytes(y, g.next, g.value), g.next)
         /\ Bytes(y, g.next, g.value).value \in Data
         /\ Bytes(y, g.next, g.value).next \in g.next .. Len(y) + 1
    BY <2>3, <2>6, <2>8, <2>9, BytesCarry
  <2>11. Moved(Bytes(x, f.next, g.value), p, Bytes(y, g.next, g.value), q)
    <3> DEFINE u == Bytes(x, f.next, g.value).next
               v == Bytes(y, g.next, g.value).next
    <3>1. u - f.next = v - g.next /\ v \in Nat
      BY <1>0, <2>8, <2>10 DEF Moved
    <3>2. u \in Int
      <4>1. Extends(x, f.next, x, f.next)
        BY DEF Extends
      <4>2. Bytes(x, f.next, g.value).ok
        BY <2>10 DEF Moved
      <4>3. u \in f.next .. Len(x) + 1
        BY <2>3, <2>8, <4>1, <4>2, BytesCarry
      <4> QED
        BY <1>0, <2>8, <4>3
    <3> HIDE DEF u, v
    <3>3. u - p = v - q
      BY <2>3, <2>5, <2>8, <3>1, <3>2
    <3> QED
      BY <2>10, <3>3 DEF Moved, u, v
  <2> QED
    <3>1. Bytes(y, g.next, g.value).next \in q .. Len(y) + 1
      BY <1>0, <2>3, <2>8, <2>10
    <3> QED
      BY <1>4, <2>7, <2>10, <2>11, <3>1
<1>5. CASE type \notin {0, 1, 2, 5}
  BY <1>5 DEF Value, Broken
<1> QED
  BY <1>1, <1>2, <1>3, <1>4, <1>5

\* The fields a message consists of.
GoodFields ==
    [ok : {TRUE}, no : Nat, wire : {0}, value : Nat]
        \cup [ok : {TRUE}, no : Nat, wire : 1 .. 7, value : Data]
AllFields == GoodFields \cup {Broken}

LEMMA FieldCarries ==
    ASSUME NEW x \in Data, NEW y \in Data, NEW p \in Nat \ {0}, NEW q \in Nat \ {0},
           Extends(x, p, y, q), Field(y, q).ok
    PROVE  /\ Field(x, p).ok /\ Kept(Field(x, p)) = Kept(Field(y, q))
           /\ Field(x, p).next = p + (Field(y, q).next - q)
           /\ Field(y, q).next \in q + 1 .. Len(y) + 1
           /\ Kept(Field(y, q)) \in GoodFields
<1> DEFINE kx == Varint(x, p)
           ky == Varint(y, q)
           type == ky.value % 8
           vx == Value(x, kx.next, type)
           vy == Value(y, ky.next, type)
<1>1. Len(x) \in Nat /\ Len(y) \in Nat
  BY ByteOf
<1>2. ky.ok
  BY DEF Field, Broken
<1>3. Moved(kx, p, ky, q) /\ ky.value \in Nat /\ ky.next \in q + 1 .. Len(y) + 1
  BY <1>2, VarintCarries
<1>4. kx.ok /\ kx.next \in p + 1 .. Len(x) + 1
  <2>1. Extends(x, p, x, p)
    BY DEF Extends
  <2>2. kx.ok
    BY <1>3 DEF Moved
  <2> QED
    BY <2>1, <2>2, VarintCarries
<1>5. Field(x, p) = FieldOf(kx, Value(x, kx.next, kx.value % 8))
  BY <1>4 DEF Field
<1>6. Field(y, q) = FieldOf(ky, vy)
  BY <1>2 DEF Field
<1> HIDE DEF kx, ky
<1>7. kx.value = ky.value /\ kx.next = p + (ky.next - q) /\ ky.next - q \in Nat
  <2>1. kx.next \in Int /\ ky.next \in Int /\ p \in Int /\ q \in Int /\ kx.next - p = ky.next - q
    BY <1>1, <1>3, <1>4 DEF Moved
  <2>2. kx.next = p + (ky.next - q)
    BY <2>1, ShiftBack
  <2> QED
    BY <1>3, <2>2 DEF Moved
<1>8. vy.ok /\ ~(ky.value < 8)
  BY <1>6 DEF FieldOf, Broken
<1>9. type \in 0 .. 7 /\ ky.value \div 8 \in Nat
  BY <1>3, Remainders
<1>10. /\ Moved(vx, kx.next, vy, ky.next)
       /\ vy.value \in IF type = 0 THEN Nat ELSE Data
       /\ vy.next \in ky.next .. Len(y) + 1
  <2> HIDE DEF type
  <2>1. Extends(x, kx.next, y, ky.next)
    <3>1. Extends(x, p + (ky.next - q), y, q + (ky.next - q))
      BY <1>7, ExtendsOn
    <3>2. q + (ky.next - q) = ky.next
      BY <1>3
    <3> QED
      BY <1>7, <3>1, <3>2
  <2>2. kx.next \in Nat \ {0} /\ ky.next \in Nat \ {0} /\ kx.next <= Len(x) + 1
    BY <1>1, <1>3, <1>4
  <2> QED
    BY <1>8, <2>1, <2>2, ValueCarries
<1>11. vx.ok /\ vx.value = vy.value /\ vx.next = p + (vy.next - q)
  <2>1. vx.next \in Int
    <3> HIDE DEF type
    <3>1. Extends(x, kx.next, x, kx.next)
      BY DEF Extends
    <3>2. vx.ok
      BY <1>10 DEF Moved
    <3>3. kx.next \in Nat \ {0} /\ kx.next <= Len(x) + 1
      BY <1>1, <1>4
    <3>4. vx.next \in kx.next .. Len(x) + 1
      BY <3>1, <3>2, <3>3, ValueCarries
    <3> QED
      BY <1>1, <3>3, <3>4
  <2> HIDE DEF vx, vy
  <2>2. vx.ok /\ vx.value = vy.value /\ vx.next - kx.next = vy.next - ky.next
    BY <1>10 DEF Moved
  <2>3. /\ vy.next \in Int /\ kx.next \in Int /\ ky.next \in Int /\ p \in Int /\ q \in Int
        /\ kx.next = p + (ky.next - q)
    BY <1>1, <1>3, <1>4, <1>7, <1>10
  <2> QED
    BY <2>1, <2>2, <2>3, ShiftBack
<1> HIDE DEF vy, type
<1>12. Field(y, q) = [ok |-> TRUE, no |-> ky.value \div 8, wire |-> type, value |-> vy.value, next |-> vy.next]
  BY <1>6, <1>8 DEF FieldOf, type
<1>13. Field(x, p) = [ok |-> TRUE, no |-> ky.value \div 8, wire |-> type, value |-> vy.value, next |-> p + (vy.next - q)]
  <2>1. Field(x, p) = FieldOf(kx, vx)
    BY <1>5, <1>7 DEF type
  <2> HIDE DEF vx
  <2> QED
    BY <1>7, <1>8, <1>11, <2>1 DEF FieldOf, type
<1>14. vy.next \in q + 1 .. Len(y) + 1
  BY <1>1, <1>3, <1>10
<1>15. [ok |-> TRUE, no |-> ky.value \div 8, wire |-> type, value |-> vy.value] \in GoodFields
  BY <1>9, <1>10 DEF GoodFields
<1> QED
  BY <1>12, <1>13, <1>14, <1>15 DEF Kept

\* A field that can be read ends after its place, within the data.
LEMMA FieldAdvances ==
    ASSUME NEW y \in Data, NEW q \in Nat \ {0}, Field(y, q).ok
    PROVE  /\ Field(y, q).next \in q + 1 .. Len(y) + 1
           /\ Kept(Field(y, q)) \in GoodFields
<1>1. Extends(y, q, y, q)
  BY DEF Extends
<1> QED
  BY <1>1, FieldCarries

-----------------------------------------------------------------------------
(* Messages.                                                               *)

\* What iter_fields does at a place.
FieldsAt(data, f, pos) ==
    IF pos > Len(data) THEN <<>>
    ELSE IF Field(data, pos).ok THEN <<Kept(Field(data, pos))>> \o f[Field(data, pos).next]
    ELSE <<Broken>>

\* The recursion over the places of the data is well-defined.
LEMMA FieldsExist ==
    ASSUME NEW data \in Data
    PROVE  \E f : f = [pos \in 1 .. Len(data) + 1 |-> FieldsAt(data, f, pos)]
<1> DEFINE n == Len(data)
           From(f, k) == \A pos \in 1 .. n + 1 : pos + k >= n + 1 => f[pos] = FieldsAt(data, f, pos)
           S == {k \in Nat : ~ \E f : From(f, k)}
<1>1. n \in Nat
  BY ByteOf
<1>2. ASSUME NEW f, NEW g, NEW pos \in 1 .. n + 1,
             \A r \in pos + 1 .. n + 1 : f[r] = g[r]
      PROVE  FieldsAt(data, f, pos) = FieldsAt(data, g, pos)
  <2>1. Field(data, pos).ok => Field(data, pos).next \in pos + 1 .. n + 1
    BY FieldAdvances
  <2> QED
    BY <1>2, <2>1 DEF FieldsAt
<1>3. ASSUME S # {} PROVE FALSE
  <2>1. PICK m \in S : \A k \in S : m <= k
    <3>1. S \in SUBSET Nat
      OBVIOUS
    <3> HIDE DEF S
    <3> QED
      BY <1>3, <3>1, LeastNat
  <2>2. m # 0
    <3> DEFINE f == [pos \in 1 .. n + 1 |-> <<>>]
    <3>1. From(f, 0)
      BY <1>1 DEF FieldsAt
    <3> HIDE DEF From
    <3> QED
      BY <2>1, <3>1
  <2>3. PICK g : From(g, m - 1)
    <3> HIDE DEF From
    <3>1. m - 1 \in Nat /\ ~(m <= m - 1)
      BY <2>1, <2>2
    <3> QED
      BY <2>1, <3>1
  <2> DEFINE h == [pos \in 1 .. n + 1 |-> IF pos + m = n + 1 THEN FieldsAt(data, g, pos) ELSE g[pos]]
  <2>4. m \in Nat
    BY <2>1
  <2>5. ASSUME NEW pos \in 1 .. n + 1, pos + m >= n + 1
        PROVE  h[pos] = FieldsAt(data, h, pos)
    <3>1. \A r \in pos + 1 .. n + 1 : h[r] = g[r]
      BY <1>1, <2>4, <2>5
    <3>2. h[pos] = FieldsAt(data, g, pos)
      <4>1. CASE pos + m = n + 1
        BY <4>1
      <4>2. CASE pos + m # n + 1
        <5>1. pos + (m - 1) >= n + 1
          BY <1>1, <2>4, <2>5, <4>2
        <5>2. g[pos] = FieldsAt(data, g, pos)
          BY <2>3, <5>1
        <5> QED
          BY <4>2, <5>2
      <4> QED
        BY <4>1, <4>2
    <3> HIDE DEF h
    <3>3. FieldsAt(data, g, pos) = FieldsAt(data, h, pos)
      BY <1>2, <3>1
    <3> QED
      BY <3>2, <3>3
  <2> HIDE DEF h
  <2>6. From(h, m)
    BY <2>5
  <2> HIDE DEF From
  <2> QED
    BY <2>1, <2>6
<1>4. PICK g : From(g, n)
  <2> HIDE DEF From
  <2> QED
    BY <1>1, <1>3
<1> DEFINE h == [pos \in 1 .. n + 1 |-> g[pos]]
<1>5. ASSUME NEW pos \in 1 .. n + 1 PROVE h[pos] = FieldsAt(data, h, pos)
  <2>1. g[pos] = FieldsAt(data, g, pos)
    <3>1. pos + n >= n + 1
      BY <1>1
    <3> QED
      BY <1>4, <3>1
  <2>2. \A r \in pos + 1 .. n + 1 : g[r] = h[r]
    BY <1>1
  <2>3. h[pos] = g[pos]
    OBVIOUS
  <2> HIDE DEF h
  <2>4. FieldsAt(data, g, pos) = FieldsAt(data, h, pos)
    BY <1>2, <2>2
  <2> QED
    BY <2>1, <2>3, <2>4
<1>6. h = [pos \in 1 .. n + 1 |-> h[pos]]
  OBVIOUS
<1> HIDE DEF h
<1>7. h = [pos \in 1 .. n + 1 |-> FieldsAt(data, h, pos)]
  BY <1>5, <1>6, Zenon
<1> QED
  BY <1>7, Zenon

\* iter_fields, one field after the other.
LEMMA FieldsUnfold ==
    ASSUME NEW data \in Data, NEW pos \in 1 .. Len(data) + 1
    PROVE  Fields(data)[pos] = FieldsAt(data, Fields(data), pos)
<1> DEFINE F == CHOOSE f : f = [p \in 1 .. Len(data) + 1 |-> FieldsAt(data, f, p)]
<1>1. F = [p \in 1 .. Len(data) + 1 |-> FieldsAt(data, F, p)]
  BY FieldsExist, Zenon
<1>2. Fields(data) = F
  BY Zenon DEF Fields, FieldsAt
<1> HIDE DEF F
<1>3. F[pos] = FieldsAt(data, F, pos)
  BY <1>1, Zenon
<1> QED
  BY <1>2, <1>3, Zenon

LEMMA Associative ==
    ASSUME NEW S
    PROVE  \A u, v, w \in Seq(S) : u \o (v \o w) = (u \o v) \o w
BY ConcatAssociative, SMTT(30)

\* A sequence with something before it.
LEMMA Before ==
    ASSUME NEW S, NEW e \in S, NEW s \in Seq(S)
    PROVE  <<e>> \o s \in Seq(S) /\ \A t \in Seq(S) : (<<e>> \o s) \o t = <<e>> \o (s \o t)
<1>1. <<e>> \in Seq(S)
  OBVIOUS
<1> QED
  BY <1>1, ConcatProperties, ConcatAssociative

LEMMA BeforeBoth ==
    ASSUME NEW S, NEW e \in S, NEW s \in Seq(S), NEW t \in Seq(S)
    PROVE  <<e>> \o (s \o t) = (<<e>> \o s) \o t
<1>1. <<e>> \in Seq(S)
  OBVIOUS
<1> QED
  BY <1>1, ConcatAssociative

LEMMA GoodAreAll ==
    /\ GoodFields \subseteq AllFields /\ Broken \in AllFields
    /\ Seq(GoodFields) \subseteq Seq(AllFields)
    /\ <<>> \in Seq(GoodFields) /\ <<>> \in Seq(AllFields) /\ <<Broken>> \in Seq(AllFields)
<1>1. GoodFields \subseteq AllFields /\ Broken \in AllFields
  BY DEF AllFields
<1>2. \A s \in Seq(GoodFields) : s \in Seq(AllFields)
  BY <1>1, SeqMonotonic
<1>3. <<Broken>> \in Seq(AllFields)
  BY <1>1
<1> QED
  BY <1>1, <1>2, <1>3, EmptySeq

\* From any place on there are fields that can be read, and at most one more that cannot.
LEMMA FieldsShape ==
    ASSUME NEW y \in Data, NEW q \in 1 .. Len(y) + 1
    PROVE  /\ \E R \in Seq(GoodFields) : Fields(y)[q] = R \/ Fields(y)[q] = R \o <<Broken>>
           /\ Fields(y)[q] \in Seq(AllFields)
<1> DEFINE n == Len(y)
           P(r) == \E R \in Seq(GoodFields) : Fields(y)[r] = R \/ Fields(y)[r] = R \o <<Broken>>
           S == {k \in Nat : \E r \in 1 .. n + 1 : k = n + 1 - r /\ ~P(r)}
<1>1. n \in Nat
  BY ByteOf
<1>2. ASSUME S # {} PROVE FALSE
  <2>1. PICK m \in S : \A k \in S : m <= k
    <3>1. S \in SUBSET Nat
      OBVIOUS
    <3> HIDE DEF S
    <3> QED
      BY <1>2, <3>1, LeastNat
  <2>2. PICK r \in 1 .. n + 1 : m = n + 1 - r /\ ~P(r)
    BY <2>1
  <2>3. Fields(y)[r] = FieldsAt(y, Fields(y), r)
    BY FieldsUnfold
  <2>4. CASE r > n
    <3>1. Fields(y)[r] = <<>>
      BY <2>3, <2>4 DEF FieldsAt
    <3> QED
      BY <2>2, <3>1, GoodAreAll
  <2>5. CASE ~(r > n) /\ ~Field(y, r).ok
    <3>1. Fields(y)[r] = <<Broken>>
      BY <2>3, <2>5 DEF FieldsAt
    <3>2. <<>> \o <<Broken>> = <<Broken>>
      BY GoodAreAll, ConcatEmptySeq
    <3> QED
      BY <2>2, <3>1, <3>2, GoodAreAll
  <2>6. CASE ~(r > n) /\ Field(y, r).ok
    <3> DEFINE z == Field(y, r).next
               k == Kept(Field(y, r))
    <3>1. z \in r + 1 .. n + 1 /\ k \in GoodFields
      BY <2>6, FieldAdvances
    <3>2. Fields(y)[r] = <<k>> \o Fields(y)[z]
      BY <2>3, <2>6 DEF FieldsAt
    <3> HIDE DEF z, k
    <3>3. P(z)
      <4> HIDE DEF P
      <4>1. /\ n + 1 - z \in Nat /\ ~(m <= n + 1 - z) /\ z \in 1 .. n + 1
        BY <1>1, <2>2, <3>1
      <4> QED
        BY <2>1, <4>1
    <3>4. PICK R \in Seq(GoodFields) : Fields(y)[z] = R \/ Fields(y)[z] = R \o <<Broken>>
      BY <3>3
    <3>5. <<k>> \o R \in Seq(GoodFields)
      BY <3>1, Before
    <3>6. <<k>> \o (R \o <<Broken>>) = (<<k>> \o R) \o <<Broken>>
      <4>1. k \in AllFields /\ R \in Seq(AllFields) /\ <<Broken>> \in Seq(AllFields)
        BY <3>1, GoodAreAll
      <4> QED
        BY <4>1, Before
    <3>7. Fields(y)[r] = <<k>> \o R \/ Fields(y)[r] = (<<k>> \o R) \o <<Broken>>
      BY <3>2, <3>4, <3>6, Zenon
    <3> QED
      BY <2>2, <3>5, <3>7
  <2> QED
    BY <2>4, <2>5, <2>6
<1>3. P(q)
  <2> HIDE DEF P
  <2>1. n + 1 - q \in Nat
    BY <1>1
  <2> QED
    BY <1>2, <2>1
<1>4. PICK R \in Seq(GoodFields) : Fields(y)[q] = R \/ Fields(y)[q] = R \o <<Broken>>
  BY <1>3
<1>5. R \in Seq(AllFields) /\ R \o <<Broken>> \in Seq(AllFields)
  BY GoodAreAll, ConcatProperties
<1> QED
  BY <1>3, <1>4, <1>5

\* Data is read as far as it goes on the same: what can be read of the rest of y is what
\* the rest of x begins with; if that is all of y, x goes on after it.
ReadsOn(x, p, y, q, R) ==
    \/ /\ Fields(y)[q] = R
       /\ Fields(x)[p] = R \o Fields(x)[p + (Len(y) + 1 - q)]
    \/ /\ Fields(y)[q] = R \o <<Broken>>
       /\ \E T \in Seq(AllFields) : Fields(x)[p] = R \o T

LEMMA ReadOn ==
    ASSUME NEW x \in Data, NEW y \in Data, NEW p \in 1 .. Len(x) + 1, NEW q \in 1 .. Len(y) + 1,
           Extends(x, p, y, q)
    PROVE  \E R \in Seq(GoodFields) : ReadsOn(x, p, y, q, R)
<1> DEFINE n == Len(y)
           Hyp(u, r) == Extends(x, u, y, r)
           P(u, r) == \E R \in Seq(GoodFields) : ReadsOn(x, u, y, r, R)
           S == {k \in Nat : \E u \in 1 .. Len(x) + 1, r \in 1 .. n + 1 :
                                k = n + 1 - r /\ Hyp(u, r) /\ ~P(u, r)}
<1>1. n \in Nat /\ Len(x) \in Nat
  BY ByteOf
<1>2. ASSUME S # {} PROVE FALSE
  <2>1. PICK m \in S : \A k \in S : m <= k
    <3>1. S \in SUBSET Nat
      OBVIOUS
    <3> HIDE DEF S
    <3> QED
      BY <1>2, <3>1, LeastNat
  <2>2. PICK u \in 1 .. Len(x) + 1, r \in 1 .. n + 1 : m = n + 1 - r /\ Hyp(u, r) /\ ~P(u, r)
    BY <2>1
  <2>3. Fields(y)[r] = FieldsAt(y, Fields(y), r) /\ Fields(x)[u] \in Seq(AllFields)
    BY FieldsUnfold, FieldsShape
  <2>4. CASE r > n
    <3>1. Fields(y)[r] = <<>>
      BY <2>3, <2>4 DEF FieldsAt
    <3>2. u + (n + 1 - r) = u
      BY <1>1, <2>4
    <3>3. Fields(x)[u] = <<>> \o Fields(x)[u + (n + 1 - r)]
      BY <2>3, <3>2, ConcatEmptySeq
    <3>4. ReadsOn(x, u, y, r, <<>>)
      BY <3>1, <3>3, Zenon DEF ReadsOn
    <3> QED
      BY <2>2, <3>4, GoodAreAll
  <2>5. CASE ~(r > n) /\ ~Field(y, r).ok
    <3>1. Fields(y)[r] = <<Broken>>
      BY <2>3, <2>5 DEF FieldsAt
    <3>2. <<>> \o <<Broken>> = <<Broken>> /\ <<>> \o Fields(x)[u] = Fields(x)[u]
      BY <2>3, GoodAreAll, ConcatEmptySeq
    <3>3. ReadsOn(x, u, y, r, <<>>)
      BY <2>3, <3>1, <3>2, Zenon DEF ReadsOn
    <3> QED
      BY <2>2, <3>3, GoodAreAll
  <2>6. CASE ~(r > n) /\ Field(y, r).ok
    <3> DEFINE z == Field(y, r).next
               v == Field(x, u).next
               k == Kept(Field(y, r))
    <3>1. /\ z \in r + 1 .. n + 1 /\ k \in GoodFields
          /\ Field(x, u).ok /\ Kept(Field(x, u)) = k /\ v = u + (z - r)
      BY <2>2, <2>6, FieldCarries, SMTT(30)
    <3>2. Fields(y)[r] = <<k>> \o Fields(y)[z]
      BY <2>3, <2>6 DEF FieldsAt
    <3>3. v \in u + 1 .. Len(x) + 1
      BY <3>1, FieldAdvances
    <3>4. Fields(x)[u] = <<k>> \o Fields(x)[v]
      <4>1. Fields(x)[u] = FieldsAt(x, Fields(x), u) /\ ~(u > Len(x))
        BY <1>1, <3>3, FieldsUnfold
      <4> QED
        BY <3>1, <4>1 DEF FieldsAt
    <3>5. Extends(x, v, y, z)
      <4>1. z - r \in Nat /\ r + (z - r) = z
        BY <3>1, SMTT(30)
      <4>2. Extends(x, u + (z - r), y, r + (z - r))
        <5>1. u \in Nat /\ r \in Nat /\ Extends(x, u, y, r)
          BY <1>1, <2>2
        <5> HIDE DEF z
        <5> QED
          BY <4>1, <5>1, ExtendsOn
      <4> QED
        BY <3>1, <4>1, <4>2
    <3> HIDE DEF z, v, k
    <3>6. P(v, z)
      <4>1. /\ n + 1 - z \in Nat /\ ~(m <= n + 1 - z) /\ z \in 1 .. n + 1 /\ v \in 1 .. Len(x) + 1
        BY <1>1, <2>2, <3>1, <3>3
      <4> HIDE DEF P
      <4> QED
        BY <2>1, <3>5, <4>1
    <3>7. PICK R \in Seq(GoodFields) : ReadsOn(x, v, y, z, R)
      BY <3>6
    <3>8. <<k>> \o R \in Seq(GoodFields)
      BY <3>1, Before
    <3>9. \A T \in Seq(AllFields) : <<k>> \o (R \o T) = (<<k>> \o R) \o T
      <4>1. k \in AllFields /\ R \in Seq(AllFields)
        BY <3>1, GoodAreAll
      <4>2. ASSUME NEW T \in Seq(AllFields)
            PROVE  <<k>> \o (R \o T) = (<<k>> \o R) \o T
        BY <4>1, BeforeBoth, SMTT(30)
      <4> QED
        BY <4>2
    <3>10. ReadsOn(x, u, y, r, <<k>> \o R)
      <4>1. CASE /\ Fields(y)[z] = R
                 /\ Fields(x)[v] = R \o Fields(x)[v + (n + 1 - z)]
        <5>1. v + (n + 1 - z) = u + (n + 1 - r)
          BY <1>1, <3>1
        <5>2. Fields(x)[v + (n + 1 - z)] \in Seq(AllFields)
          <6>1. v + (n + 1 - z) \in 1 .. Len(x) + 1
            <7>1. CASE z = n + 1
              BY <1>1, <3>3, <7>1
            <7>2. CASE z # n + 1
              <8>1. n - z \in Nat /\ z + (n - z) <= n
                BY <1>1, <3>1, <7>2
              <8>2. v + (n - z) <= Len(x)
                BY <3>5, <8>1 DEF Extends
              <8> QED
                BY <1>1, <3>1, <3>3, <8>1, <8>2, SMTT(30)
            <7> QED
              BY <7>1, <7>2
          <6> QED
            BY <6>1, FieldsShape
        <5> QED
          BY <3>2, <3>4, <3>9, <4>1, <5>1, <5>2, Zenon DEF ReadsOn
      <4>2. CASE /\ Fields(y)[z] = R \o <<Broken>>
                 /\ \E T \in Seq(AllFields) : Fields(x)[v] = R \o T
        <5>1. PICK T \in Seq(AllFields) : Fields(x)[v] = R \o T
          BY <4>2
        <5>2. Fields(x)[u] = (<<k>> \o R) \o T
          BY <3>4, <3>9, <5>1
        <5>3. Fields(y)[r] = (<<k>> \o R) \o <<Broken>>
          BY <3>2, <3>9, <4>2, GoodAreAll
        <5> QED
          BY <5>2, <5>3, Zenon DEF ReadsOn
      <4> QED
        BY <3>7, <4>1, <4>2, Zenon DEF ReadsOn
    <3> QED
      BY <2>2, <3>8, <3>10
  <2> QED
    BY <2>4, <2>5, <2>6
<1>3. P(p, q)
  <2> HIDE DEF P
  <2>1. n + 1 - q \in Nat
    BY <1>1
  <2> QED
    BY <1>2, <2>1
<1> QED
  BY <1>3

\* The same data is read as the same, wherever it is.
LEMMA FieldsSame ==
    ASSUME NEW x \in Data, NEW y \in Data, NEW p \in 1 .. Len(x) + 1, NEW q \in 1 .. Len(y) + 1,
           Extends(x, p, y, q), Extends(y, q, x, p)
    PROVE  Fields(x)[p] = Fields(y)[q]
<1> DEFINE n == Len(y)
           Hyp(u, r) == Extends(x, u, y, r) /\ Extends(y, r, x, u)
           P(u, r) == Fields(x)[u] = Fields(y)[r]
           S == {k \in Nat : \E u \in 1 .. Len(x) + 1, r \in 1 .. n + 1 :
                                k = n + 1 - r /\ Hyp(u, r) /\ ~P(u, r)}
<1>1. n \in Nat /\ Len(x) \in Nat
  BY ByteOf
<1>2. ASSUME S # {} PROVE FALSE
  <2>1. PICK m \in S : \A k \in S : m <= k
    <3>1. S \in SUBSET Nat
      OBVIOUS
    <3> HIDE DEF S
    <3> QED
      BY <1>2, <3>1, LeastNat
  <2>2. PICK u \in 1 .. Len(x) + 1, r \in 1 .. n + 1 : m = n + 1 - r /\ Hyp(u, r) /\ ~P(u, r)
    BY <2>1
  <2>3. Fields(y)[r] = FieldsAt(y, Fields(y), r) /\ Fields(x)[u] = FieldsAt(x, Fields(x), u)
    BY FieldsUnfold
  <2>4. u > Len(x) <=> r > n
    <3>1. 0 \in Nat /\ u + 0 = u /\ r + 0 = r
      BY <1>1
    <3>2. u <= Len(x) <=> r <= n
      BY <2>2, <3>1 DEF Extends
    <3> QED
      BY <1>1, <3>2
  <2>5. Field(x, u).ok <=> Field(y, r).ok
    BY <1>1, <2>2, FieldCarries
  <2>6. CASE r > n
    BY <2>2, <2>3, <2>4, <2>6 DEF FieldsAt
  <2>7. CASE ~(r > n) /\ ~Field(y, r).ok
    <3>1. Fields(y)[r] = <<Broken>> /\ Fields(x)[u] = <<Broken>>
      BY <2>3, <2>4, <2>5, <2>7 DEF FieldsAt
    <3> QED
      BY <2>2, <3>1
  <2>8. CASE ~(r > n) /\ Field(y, r).ok
    <3> DEFINE z == Field(y, r).next
               v == Field(x, u).next
    <3>1. /\ z \in r + 1 .. n + 1
          /\ Field(x, u).ok /\ Kept(Field(x, u)) = Kept(Field(y, r)) /\ v = u + (z - r)
      <4>1. u \in Nat \ {0} /\ r \in Nat \ {0} /\ Extends(x, u, y, r)
        BY <1>1, <2>2
      <4> QED
        BY <2>8, <4>1, FieldCarries
    <3>2. v \in u + 1 .. Len(x) + 1
      BY <1>1, <3>1, FieldAdvances, SMTT(30)
    <3>3. /\ Fields(y)[r] = <<Kept(Field(y, r))>> \o Fields(y)[z]
          /\ Fields(x)[u] = <<Kept(Field(y, r))>> \o Fields(x)[v]
      BY <2>3, <2>4, <2>8, <3>1 DEF FieldsAt
    <3>4. Hyp(v, z)
      <4> HIDE DEF z, v
      <4>1. z - r \in Nat /\ r + (z - r) = z /\ v = u + (z - r)
        BY <1>1, <3>1
      <4>2. u \in Nat /\ r \in Nat /\ Extends(x, u, y, r) /\ Extends(y, r, x, u)
        BY <1>1, <2>2
      <4>3. Extends(x, u + (z - r), y, r + (z - r)) /\ Extends(y, r + (z - r), x, u + (z - r))
        BY <4>1, <4>2, ExtendsOn
      <4> QED
        BY <4>1, <4>3
    <3> HIDE DEF z, v
    <3>5. P(v, z)
      <4>1. /\ n + 1 - z \in Nat /\ ~(m <= n + 1 - z) /\ z \in 1 .. n + 1 /\ v \in 1 .. Len(x) + 1
        BY <1>1, <2>2, <3>1, <3>2
      <4> HIDE DEF P, Hyp
      <4> QED
        BY <2>1, <3>4, <4>1
    <3> QED
      BY <2>2, <3>3, <3>5
  <2> QED
    BY <2>6, <2>7, <2>8
<1>3. P(p, q)
  <2> HIDE DEF P
  <2>1. n + 1 - q \in Nat
    BY <1>1
  <2> QED
    BY <1>2, <2>1
<1> QED
  BY <1>3

\* A message is fields that can be read, and at most one more.
LEMMA ReadableMeans ==
    ASSUME NEW R \in Seq(GoodFields)
    PROVE  Readable(R) /\ ~Readable(R \o <<Broken>>)
<1>1. Len(R) \in Nat /\ DOMAIN R = 1 .. Len(R) /\ \A i \in 1 .. Len(R) : R[i] \in GoodFields
  BY LenProperties, ElementOfSeq
<1>2. \A f \in GoodFields : f.ok
  BY DEF GoodFields
<1> DEFINE T == R \o <<Broken>>
<1>3. T \in Seq(AllFields) /\ Len(T) = Len(R) + 1 /\ T[Len(R) + 1] = Broken
  <2>1. R \in Seq(AllFields) /\ <<Broken>> \in Seq(AllFields) /\ Len(<<Broken>>) = 1 /\ <<Broken>>[1] = Broken
    BY GoodAreAll
  <2>2. /\ T \in Seq(AllFields) /\ Len(T) = Len(R) + 1
        /\ \A i \in 1 .. Len(R) + 1 : T[i] = IF i <= Len(R) THEN R[i] ELSE <<Broken>>[i - Len(R)]
    BY <2>1, ConcatProperties
  <2> QED
    BY <1>1, <2>1, <2>2
<1> HIDE DEF T
<1>4. Len(R) + 1 \in DOMAIN T
  BY <1>1, <1>3, LenProperties
<1>5. ~Readable(T)
  BY <1>3, <1>4 DEF Readable, Broken
<1> QED
  BY <1>1, <1>2, <1>5 DEF Readable, T

LEMMA MessageShape ==
    ASSUME NEW a \in Data
    PROVE  /\ Message(a) \in Seq(AllFields)
           /\ Readable(Message(a)) <=> Message(a) \in Seq(GoodFields)
           /\ a = <<>> => Message(a) = <<>>
           /\ a # <<>> => Message(a) # <<>>
<1>1. Len(a) \in Nat /\ 1 \in 1 .. Len(a) + 1 /\ (a = <<>> <=> Len(a) = 0)
  <2>1. Len(<<>>) = 0 /\ (a # <<>> => Len(a) \in Nat \ {0})
    BY EmptySeq DEF Data
  <2> QED
    BY <2>1, ByteOf
<1>2. PICK R \in Seq(GoodFields) : Message(a) = R \/ Message(a) = R \o <<Broken>>
  BY <1>1, FieldsShape DEF Message
<1>3. Message(a) \in Seq(AllFields) /\ Message(a) = FieldsAt(a, Fields(a), 1)
  BY <1>1, FieldsShape, FieldsUnfold DEF Message
<1>4. Readable(Message(a)) <=> Message(a) \in Seq(GoodFields)
  BY <1>2, ReadableMeans
<1>5. ASSUME a # <<>> PROVE Message(a) # <<>>
  <2>1. CASE Field(a, 1).ok
    <3> DEFINE k == Kept(Field(a, 1))
               t == Fields(a)[Field(a, 1).next]
    <3>1. k \in AllFields /\ t \in Seq(AllFields)
      <4>1. Kept(Field(a, 1)) \in GoodFields /\ Field(a, 1).next \in 1 .. Len(a) + 1
        BY <1>1, <2>1, FieldAdvances
      <4> QED
        BY <4>1, GoodAreAll, FieldsShape
    <3>2. Message(a) = <<k>> \o t
      BY <1>1, <1>3, <1>5, <2>1 DEF FieldsAt
    <3> HIDE DEF k, t
    <3>3. <<k>> \in Seq(AllFields) /\ <<k>> # <<>>
      BY <3>1
    <3> QED
      BY <3>1, <3>2, <3>3, ConcatEqualIffEmpty
  <2>2. CASE ~Field(a, 1).ok
    BY <1>1, <1>3, <1>5, <2>2 DEF FieldsAt
  <2> QED
    BY <2>1, <2>2
<1>6. a = <<>> => Message(a) = <<>>
  BY <1>1, <1>3 DEF FieldsAt
<1> QED
  BY <1>3, <1>4, <1>5, <1>6

LEMMA ConcatExtends ==
    ASSUME NEW a \in Data, NEW b \in Data
    PROVE  /\ a \o b \in Data /\ Len(a \o b) = Len(a) + Len(b)
           /\ Extends(a \o b, 1, a, 1)
           /\ Extends(a \o b, Len(a) + 1, b, 1)
           /\ Extends(b, 1, a \o b, Len(a) + 1)
<1> DEFINE c == a \o b
<1>1. Len(a) \in Nat /\ Len(b) \in Nat
  BY ByteOf
<1>2. /\ c \in Data /\ Len(c) = Len(a) + Len(b)
      /\ \A i \in 1 .. Len(a) + Len(b) : c[i] = IF i <= Len(a) THEN a[i] ELSE b[i - Len(a)]
  BY ConcatProperties DEF Data
<1> HIDE DEF c
<1>3. ASSUME NEW i \in Nat, 1 + i <= Len(a)
      PROVE  1 + i <= Len(c) /\ c[1 + i] = a[1 + i]
  BY <1>1, <1>2, <1>3
<1>4. ASSUME NEW i \in Nat
      PROVE  /\ 1 + i <= Len(b) <=> Len(a) + 1 + i <= Len(c)
             /\ 1 + i <= Len(b) => c[Len(a) + 1 + i] = b[1 + i]
  <2>1. 1 + i <= Len(b) <=> Len(a) + 1 + i <= Len(c)
    BY <1>1, <1>2
  <2>2. ASSUME 1 + i <= Len(b) PROVE c[Len(a) + 1 + i] = b[1 + i]
    <3>1. /\ Len(a) + 1 + i \in 1 .. Len(a) + Len(b)
          /\ ~(Len(a) + 1 + i <= Len(a))
          /\ (Len(a) + 1 + i) - Len(a) = 1 + i
      BY <1>1, <2>2
    <3> QED
      BY <1>2, <3>1
  <2> QED
    BY <2>1, <2>2
<1> QED
  BY <1>2, <1>3, <1>4 DEF Extends, c

\* iter_fields keeps nothing from one field to the next: what follows a message that can
\* be read is read as if it stood alone.
THEOREM MessageOfConcat ==
    ASSUME NEW a \in Data, NEW b \in Data, Readable(Message(a))
    PROVE  Message(a \o b) = Message(a) \o Message(b)
<1> DEFINE c == a \o b
<1>1. /\ c \in Data /\ Len(c) = Len(a) + Len(b)
      /\ Extends(c, 1, a, 1) /\ Extends(c, Len(a) + 1, b, 1) /\ Extends(b, 1, c, Len(a) + 1)
  BY ConcatExtends
<1> HIDE DEF c
<1>2. /\ Len(a) \in Nat /\ Len(b) \in Nat
      /\ 1 \in 1 .. Len(c) + 1 /\ 1 \in 1 .. Len(a) + 1 /\ 1 \in 1 .. Len(b) + 1
      /\ Len(a) + 1 \in 1 .. Len(c) + 1 /\ 1 + (Len(a) + 1 - 1) = Len(a) + 1
  BY <1>1, ByteOf
<1>3. PICK R \in Seq(GoodFields) : ReadsOn(c, 1, a, 1, R)
  BY <1>1, <1>2, ReadOn
<1>4. Message(a) # R \o <<Broken>>
  BY ReadableMeans
<1>5. Message(a) = R /\ Message(c) = R \o Fields(c)[Len(a) + 1]
  BY <1>2, <1>3, <1>4 DEF ReadsOn, Message
<1>6. Fields(c)[Len(a) + 1] = Message(b)
  BY <1>1, <1>2, FieldsSame DEF Message
<1> QED
  BY <1>5, <1>6 DEF c

\* test_protobuf.py: a truncated frame is not readable.  What is read of a frame that was
\* cut short is what the whole frame begins with: no field is made up, and none is read
\* differently.
THEOREM MessageOfCut ==
    ASSUME NEW a \in Data, NEW b \in Data
    PROVE  \E R \in Seq(GoodFields), T \in Seq(AllFields) :
              /\ Message(a) = R \/ Message(a) = R \o <<Broken>>
              /\ Message(a \o b) = R \o T
<1> DEFINE c == a \o b
<1>1. c \in Data /\ Extends(c, 1, a, 1)
  BY ConcatExtends
<1> HIDE DEF c
<1>2. 1 \in 1 .. Len(c) + 1 /\ 1 \in 1 .. Len(a) + 1
  BY <1>1, ByteOf
<1>3. PICK R \in Seq(GoodFields) : ReadsOn(c, 1, a, 1, R)
  BY <1>1, <1>2, ReadOn
<1>4. CASE Readable(Message(a))
  <2>1. Message(a) \in Seq(GoodFields) /\ Message(b) \in Seq(AllFields)
    BY <1>4, MessageShape
  <2> QED
    BY <1>4, <2>1, MessageOfConcat
<1>5. CASE ~Readable(Message(a))
  <2>1. Message(a) # R
    BY <1>5, ReadableMeans
  <2>2. Message(a) = R \o <<Broken>> /\ \E T \in Seq(AllFields) : Message(c) = R \o T
    BY <1>3, <2>1 DEF ReadsOn, Message
  <2> QED
    BY <2>2 DEF c
<1> QED
  BY <1>4, <1>5

-----------------------------------------------------------------------------
(* Looking a field up.                                                     *)

Lacks(s, no) == \A i \in DOMAIN s : s[i].no # no

LEMMA MaxOfPositions ==
    ASSUME NEW n \in Nat, NEW S \in SUBSET (1 .. n), S # {}
    PROVE  /\ Max(S) \in S
           /\ \A i \in S : i <= Max(S)
<1> DEFINE T == {n - i : i \in S}
<1>1. PICK k \in T : \A j \in T : k <= j
  <2>1. T \in SUBSET Nat /\ T # {}
    <3>1. \A i \in S : i \in 1 .. n
      OBVIOUS
    <3>2. \A i \in 1 .. n : n - i \in Nat
      OBVIOUS
    <3>3. \A i \in S : n - i \in Nat
      BY <3>1, <3>2, Zenon
    <3> QED
      BY <3>3
  <2> HIDE DEF T
  <2> QED
    BY <2>1, LeastNat
<1>2. PICK m \in S : k = n - m
  BY <1>1
<1>3. \A i \in S : m >= i
  <2>1. ASSUME NEW i \in S PROVE m >= i
    <3>1. n - i \in T
      OBVIOUS
    <3>2. n - m <= n - i
      BY <1>1, <1>2, <3>1
    <3> QED
      BY <3>2
  <2> QED
    BY <2>1
<1>4. \E x \in S : \A y \in S : x >= y
  BY <1>3, Zenon
<1>5. Max(S) \in S /\ \A y \in S : Max(S) >= y
  BY <1>4, Zenon DEF Max
<1> QED
  BY <1>5

\* The last field of a number, by its place.
LEMMA LatestAt ==
    ASSUME NEW S, NEW s \in Seq(S), NEW no
    PROVE  /\ Lacks(s, no) => Latest(s, no) = Broken
           /\ \A i \in 1 .. Len(s) :
                s[i].no = no /\ (\A j \in i + 1 .. Len(s) : s[j].no # no) => Latest(s, no) = s[i]
           /\ ~Lacks(s, no) => \E i \in 1 .. Len(s) :
                s[i].no = no /\ (\A j \in i + 1 .. Len(s) : s[j].no # no)
<1> DEFINE at == {i \in DOMAIN s : s[i].no = no}
<1>1. Len(s) \in Nat /\ DOMAIN s = 1 .. Len(s)
  BY LenProperties
<1>2. Latest(s, no) = IF at = {} THEN Broken ELSE s[Max(at)]
  BY DEF Latest
<1>3. at \in SUBSET (1 .. Len(s)) /\ (at = {} <=> Lacks(s, no))
  BY <1>1 DEF Lacks
<1>4. \A i \in 1 .. Len(s) : i \in at <=> s[i].no = no
  BY <1>1
<1> HIDE DEF at
<1>5. at # {} => Max(at) \in at /\ \A i \in at : i <= Max(at)
  BY <1>1, <1>3, MaxOfPositions
<1>6. ASSUME NEW i \in 1 .. Len(s), s[i].no = no, \A j \in i + 1 .. Len(s) : s[j].no # no
      PROVE  Latest(s, no) = s[i]
  <2>1. i \in at
    BY <1>4, <1>6
  <2>2. Max(at) \in 1 .. Len(s) /\ Max(at) >= i
    BY <1>1, <1>3, <1>5, <2>1
  <2>3. ~(Max(at) \in i + 1 .. Len(s))
    BY <1>3, <1>4, <1>5, <1>6, <2>1
  <2>4. Max(at) = i
    BY <1>1, <2>2, <2>3
  <2> QED
    BY <1>2, <2>1, <2>4
<1>7. ASSUME ~Lacks(s, no)
      PROVE  \E i \in 1 .. Len(s) : s[i].no = no /\ (\A j \in i + 1 .. Len(s) : s[j].no # no)
  <2>1. Max(at) \in at /\ Max(at) \in 1 .. Len(s) /\ \A i \in at : i <= Max(at)
    BY <1>3, <1>5, <1>7
  <2>2. ASSUME NEW j \in Max(at) + 1 .. Len(s) PROVE s[j].no # no
    <3>1. j \in 1 .. Len(s) /\ ~(j <= Max(at))
      BY <1>1, <2>1
    <3> QED
      BY <1>4, <2>1, <3>1
  <2> QED
    BY <1>4, <2>1, <2>2
<1> QED
  BY <1>2, <1>3, <1>6, <1>7

LEMMA LatestIs ==
    ASSUME NEW S, NEW s \in Seq(S), NEW no, NEW i \in 1 .. Len(s),
           s[i].no = no, \A j \in i + 1 .. Len(s) : s[j].no # no
    PROVE  Latest(s, no) = s[i]
<1>1. \A k \in 1 .. Len(s) :
        s[k].no = no /\ (\A j \in k + 1 .. Len(s) : s[j].no # no) => Latest(s, no) = s[k]
  BY LatestAt
<1> QED
  BY <1>1, Zenon

\* The last field of a number is the last of the second part, if it has one.
LEMMA LatestOfConcat ==
    ASSUME NEW S, NEW s \in Seq(S), NEW t \in Seq(S), NEW no
    PROVE  /\ Lacks(t, no) => Latest(s \o t, no) = Latest(s, no)
           /\ ~Lacks(t, no) => Latest(s \o t, no) = Latest(t, no)
           /\ Lacks(s \o t, no) <=> Lacks(s, no) /\ Lacks(t, no)
<1> DEFINE c == s \o t
<1>1. /\ Len(s) \in Nat /\ Len(t) \in Nat
      /\ DOMAIN s = 1 .. Len(s) /\ DOMAIN t = 1 .. Len(t)
  BY LenProperties
<1>2. /\ c \in Seq(S) /\ Len(c) = Len(s) + Len(t) /\ DOMAIN c = 1 .. Len(s) + Len(t)
      /\ \A i \in 1 .. Len(s) + Len(t) : c[i] = IF i <= Len(s) THEN s[i] ELSE t[i - Len(s)]
  BY ConcatProperties, LenProperties
<1> HIDE DEF c
<1>3. \A i \in 1 .. Len(s) : i \in 1 .. Len(c) /\ c[i] = s[i]
  BY <1>1, <1>2
<1>4. ASSUME NEW i \in 1 .. Len(t)
      PROVE  Len(s) + i \in 1 .. Len(c) /\ c[Len(s) + i] = t[i]
  <2>1. Len(s) + i \in 1 .. Len(s) + Len(t) /\ ~(Len(s) + i <= Len(s)) /\ (Len(s) + i) - Len(s) = i
    BY <1>1
  <2> QED
    BY <1>2, <2>1
<1>5. ASSUME NEW j \in 1 .. Len(c), j > Len(s)
      PROVE  j - Len(s) \in 1 .. Len(t) /\ c[j] = t[j - Len(s)]
  BY <1>1, <1>2, <1>5
<1>6. Lacks(c, no) <=> Lacks(s, no) /\ Lacks(t, no)
  <2>1. ASSUME Lacks(c, no) PROVE Lacks(s, no) /\ Lacks(t, no)
    BY <1>1, <1>2, <1>3, <1>4, <2>1 DEF Lacks
  <2>2. ASSUME Lacks(s, no), Lacks(t, no), NEW j \in 1 .. Len(c) PROVE c[j].no # no
    <3>1. CASE j > Len(s)
      BY <1>1, <1>5, <2>2, <3>1 DEF Lacks
    <3>2. CASE ~(j > Len(s))
      <4>1. j \in 1 .. Len(s)
        BY <1>1, <1>2, <3>2
      <4> QED
        BY <1>1, <1>3, <2>2, <4>1 DEF Lacks
    <3> QED
      BY <3>1, <3>2
  <2> QED
    BY <1>2, <2>1, <2>2 DEF Lacks
<1>7. ASSUME Lacks(t, no) PROVE Latest(c, no) = Latest(s, no)
  <2>1. CASE Lacks(s, no)
    <3>1. Latest(c, no) = Broken
      BY <1>2, <1>6, <1>7, <2>1, LatestAt
    <3>2. Latest(s, no) = Broken
      BY <2>1, LatestAt
    <3> QED
      BY <3>1, <3>2
  <2>2. CASE ~Lacks(s, no)
    <3>1. PICK i \in 1 .. Len(s) : s[i].no = no /\ (\A j \in i + 1 .. Len(s) : s[j].no # no)
      BY <2>2, LatestAt
    <3>2. Latest(s, no) = s[i]
      BY <3>1, LatestAt
    <3>3. ASSUME NEW j \in i + 1 .. Len(c) PROVE c[j].no # no
      <4>1. CASE j > Len(s)
        <5>1. j \in 1 .. Len(c)
          BY <1>1, <1>2
        <5> QED
          BY <1>1, <1>5, <1>7, <4>1, <5>1 DEF Lacks
      <4>2. CASE ~(j > Len(s))
        <5>1. j \in i + 1 .. Len(s) /\ j \in 1 .. Len(s)
          BY <1>1, <1>2, <4>2
        <5> QED
          BY <1>3, <3>1, <5>1
      <4> QED
        BY <4>1, <4>2
    <3>4. i \in 1 .. Len(c) /\ c[i].no = no /\ c[i] = s[i]
      BY <1>3, <3>1
    <3>5. Latest(c, no) = c[i]
      BY <1>2, <3>3, <3>4, LatestIs
    <3> QED
      BY <3>2, <3>4, <3>5
  <2> QED
    BY <2>1, <2>2
<1>8. ASSUME ~Lacks(t, no) PROVE Latest(c, no) = Latest(t, no)
  <2>1. PICK i \in 1 .. Len(t) : t[i].no = no /\ (\A j \in i + 1 .. Len(t) : t[j].no # no)
    BY <1>8, LatestAt
  <2>2. Latest(t, no) = t[i]
    BY <2>1, LatestAt
  <2> DEFINE k == Len(s) + i
  <2>3. k \in 1 .. Len(c) /\ c[k] = t[i] /\ c[k].no = no
    BY <1>4, <2>1
  <2>4. ASSUME NEW j \in k + 1 .. Len(c) PROVE c[j].no # no
    <3>1. j \in 1 .. Len(c) /\ j > Len(s) /\ j - Len(s) \in i + 1 .. Len(t)
      BY <1>1, <1>2
    <3> QED
      BY <1>5, <2>1, <3>1
  <2> HIDE DEF k
  <2>5. Latest(c, no) = c[k]
    BY <1>2, <2>3, <2>4, LatestIs
  <2> QED
    BY <2>2, <2>3, <2>5
<1> QED
  BY <1>6, <1>7, <1>8 DEF c

LEMMA LatestOfOne ==
    ASSUME NEW S, NEW f \in S, NEW no
    PROVE  /\ <<f>> \in Seq(S)
           /\ f.no = no => ~Lacks(<<f>>, no) /\ Latest(<<f>>, no) = f
           /\ f.no # no => Lacks(<<f>>, no)
<1> DEFINE s == <<f>>
<1>1. s \in Seq(S) /\ Len(s) = 1 /\ s[1] = f /\ DOMAIN s = {1}
  OBVIOUS
<1> HIDE DEF s
<1>2. f.no = no => Latest(s, no) = f
  <2>1. 1 \in 1 .. Len(s) /\ \A j \in 1 + 1 .. Len(s) : FALSE
    BY <1>1
  <2>2. \A i \in 1 .. Len(s) :
            s[i].no = no /\ (\A j \in i + 1 .. Len(s) : s[j].no # no) => Latest(s, no) = s[i]
    BY <1>1, LatestAt
  <2> QED
    BY <1>1, <2>1, <2>2
<1> QED
  BY <1>1, <1>2 DEF s, Lacks

-----------------------------------------------------------------------------
(* Sequences joined to one.                                                *)

\* f[i] is the first i parts joined.
Joins(f, parts) ==
    f[0] = <<>> /\ \A i \in 1 .. Len(parts) : f[i] = f[i - 1] \o parts[i]

LEMMA JoinsType ==
    ASSUME NEW S, NEW parts \in Seq(Seq(S)), NEW f, Joins(f, parts)
    PROVE  \A i \in 0 .. Len(parts) : f[i] \in Seq(S)
<1> DEFINE C == {k \in Nat : k <= Len(parts) /\ f[k] \notin Seq(S)}
<1>1. Len(parts) \in Nat /\ \A i \in 1 .. Len(parts) : parts[i] \in Seq(S)
  BY LenProperties, ElementOfSeq
<1>2. ASSUME C # {} PROVE FALSE
  <2>1. PICK m \in C : \A k \in C : m <= k
    <3>1. C \in SUBSET Nat
      OBVIOUS
    <3> HIDE DEF C
    <3> QED
      BY <1>2, <3>1, LeastNat
  <2>2. m # 0
    BY <2>1, EmptySeq DEF Joins
  <2>3. m \in 1 .. Len(parts) /\ m - 1 \in Nat /\ ~(m <= m - 1) /\ m - 1 <= Len(parts)
    BY <1>1, <2>1, <2>2
  <2>4. f[m - 1] \in Seq(S) /\ f[m] = f[m - 1] \o parts[m]
    BY <2>1, <2>3 DEF Joins
  <2>5. f[m] \in Seq(S)
    BY <1>1, <2>3, <2>4, ConcatProperties
  <2> QED
    BY <2>1, <2>5
<1> QED
  BY <1>1, <1>2, SMTT(30)

LEMMA JoinsUnique ==
    ASSUME NEW parts, Len(parts) \in Nat, NEW f, Joins(f, parts), NEW g, Joins(g, parts)
    PROVE  \A i \in 0 .. Len(parts) : f[i] = g[i]
<1> DEFINE C == {k \in Nat : k <= Len(parts) /\ f[k] # g[k]}
<1>1. ASSUME C # {} PROVE FALSE
  <2>1. PICK m \in C : \A k \in C : m <= k
    <3>1. C \in SUBSET Nat
      OBVIOUS
    <3> HIDE DEF C
    <3> QED
      BY <1>1, <3>1, LeastNat
  <2>2. m # 0
    BY <2>1 DEF Joins
  <2>3. m \in 1 .. Len(parts) /\ m - 1 \in Nat /\ ~(m <= m - 1) /\ m - 1 <= Len(parts)
    BY <2>1, <2>2
  <2>4. f[m - 1] = g[m - 1]
    BY <2>1, <2>3
  <2>5. f[m] = f[m - 1] \o parts[m] /\ g[m] = g[m - 1] \o parts[m]
    BY <2>3 DEF Joins
  <2> QED
    BY <2>1, <2>4, <2>5
<1> QED
  BY <1>1

LEMMA JoinsExists ==
    ASSUME NEW parts, Len(parts) \in Nat
    PROVE  \E f : Joins(f, parts)
<1> DEFINE n == Len(parts)
           Upto(f, k) == f[0] = <<>> /\ \A i \in 1 .. n : i <= k => f[i] = f[i - 1] \o parts[i]
           C == {k \in Nat : ~ \E f : Upto(f, k)}
<1>1. ASSUME C # {} PROVE FALSE
  <2>1. PICK m \in C : \A k \in C : m <= k
    <3>1. C \in SUBSET Nat
      OBVIOUS
    <3> HIDE DEF C
    <3> QED
      BY <1>1, <3>1, LeastNat
  <2>2. m # 0
    <3> DEFINE f == [i \in {0} |-> <<>>]
    <3>1. Upto(f, 0)
      OBVIOUS
    <3> HIDE DEF Upto
    <3> QED
      BY <2>1, <3>1
  <2>3. PICK g : Upto(g, m - 1)
    <3> HIDE DEF Upto
    <3>1. m - 1 \in Nat /\ ~(m <= m - 1)
      BY <2>1, <2>2
    <3> QED
      BY <2>1, <3>1
  <2> DEFINE h == [i \in 0 .. n |-> IF i = m THEN g[m - 1] \o parts[m] ELSE g[i]]
  <2>4. m \in Nat /\ 0 \in 0 .. n
    BY <2>1
  <2>5. h[0] = <<>>
    BY <2>2, <2>3, <2>4
  <2>6. ASSUME NEW i \in 1 .. n, i <= m
        PROVE  h[i] = h[i - 1] \o parts[i]
    <3>1. h[i - 1] = g[i - 1]
      BY <2>4, <2>6
    <3>2. CASE i = m
      <4>1. h[i] = g[m - 1] \o parts[m] /\ h[i - 1] = g[m - 1]
        BY <2>4, <3>1, <3>2
      <4> QED
        BY <3>2, <4>1
    <3>3. CASE i # m
      <4>1. i <= m - 1
        BY <2>4, <2>6, <3>3
      <4>2. g[i] = g[i - 1] \o parts[i]
        BY <2>3, <4>1
      <4>3. h[i] = g[i]
        BY <2>4, <3>3
      <4> QED
        BY <3>1, <4>2, <4>3
    <3> QED
      BY <3>2, <3>3
  <2> HIDE DEF h
  <2>7. Upto(h, m)
    BY <2>5, <2>6
  <2> HIDE DEF Upto
  <2> QED
    BY <2>1, <2>7
<1>2. PICK g : Upto(g, n)
  <2> HIDE DEF Upto
  <2> QED
    BY <1>1
<1>3. Joins(g, parts)
  <2>1. \A i \in 1 .. n : i <= n
    OBVIOUS
  <2> QED
    BY <1>2, <2>1, Zenon DEF Joins
<1> QED
  BY <1>3

\* FlattenSeq of the community modules joins the parts.
LEMMA FlattenJoins ==
    ASSUME NEW S, NEW parts \in Seq(Seq(S)), NEW f, Joins(f, parts)
    PROVE  FlattenSeq(parts) = f[Len(parts)] /\ FlattenSeq(parts) \in Seq(S)
<1> DEFINE n == Len(parts)
<1>1. n \in Nat /\ (\A i \in 1 .. n : parts[i] \in Seq(S)) /\ \A i \in 0 .. n : f[i] \in Seq(S)
  BY LenProperties, ElementOfSeq, JoinsType
<1>2. CASE n = 0
  <2>1. parts = <<>>
    BY <1>2, EmptySeq
  <2>2. FlattenSeq(parts) = parts
    BY <1>2 DEF FlattenSeq
  <2> QED
    BY <1>1, <1>2, <2>1, <2>2 DEF Joins
<1>3. CASE n # 0
  <2> DEFINE F == CHOOSE h : h = [i \in 1 .. n |-> IF i = 1 THEN parts[i] ELSE h[i - 1] \o parts[i]]
             g == [i \in 1 .. n |-> f[i]]
  <2>1. FlattenSeq(parts) = F[n]
    BY <1>3, Zenon DEF FlattenSeq
  <2>2. ASSUME NEW i \in 1 .. n
        PROVE  g[i] = IF i = 1 THEN parts[i] ELSE g[i - 1] \o parts[i]
    <3>1. f[i] = f[i - 1] \o parts[i] /\ f[0] = <<>>
      BY DEF Joins
    <3>2. CASE i = 1
      <4>1. <<>> \o parts[i] = parts[i]
        BY <1>1, ConcatEmptySeq
      <4>2. f[i - 1] = <<>>
        BY <3>1, <3>2
      <4> QED
        BY <3>1, <3>2, <4>1, <4>2
    <3>3. CASE i # 1
      <4>1. i - 1 \in 1 .. n
        BY <1>1, <3>3
      <4> QED
        BY <3>1, <3>3, <4>1
    <3> QED
      BY <3>2, <3>3
  <2>3. g = [i \in 1 .. n |-> IF i = 1 THEN parts[i] ELSE g[i - 1] \o parts[i]]
    <3>1. g = [i \in 1 .. n |-> g[i]]
      OBVIOUS
    <3> HIDE DEF g
    <3> QED
      BY <2>2, <3>1, Zenon
  <2> HIDE DEF g
  <2>4. F = [i \in 1 .. n |-> IF i = 1 THEN parts[i] ELSE F[i - 1] \o parts[i]]
    BY <2>3, Zenon
  <2> HIDE DEF F
  <2> DEFINE h == [i \in 0 .. n |-> IF i = 0 THEN <<>> ELSE F[i]]
  <2>5. ASSUME NEW i \in 1 .. n
        PROVE  h[i] = h[i - 1] \o parts[i]
    <3>1. F[i] = IF i = 1 THEN parts[i] ELSE F[i - 1] \o parts[i]
      BY <2>4, Zenon
    <3>2. CASE i = 1
      <4>1. <<>> \o parts[i] = parts[i]
        BY <1>1, ConcatEmptySeq
      <4>2. h[i - 1] = <<>> /\ h[i] = F[i]
        BY <1>1, <3>2
      <4> QED
        BY <3>1, <3>2, <4>1, <4>2
    <3>3. CASE i # 1
      <4>1. i - 1 \in 1 .. n /\ i - 1 # 0 /\ i - 1 \in 0 .. n /\ i \in 0 .. n
        BY <1>1, <3>3
      <4>2. h[i - 1] = F[i - 1] /\ h[i] = F[i]
        BY <4>1
      <4> QED
        BY <3>1, <3>3, <4>2
    <3> QED
      BY <3>2, <3>3
  <2>6. h[0] = <<>> /\ h[n] = F[n]
    BY <1>1, <1>3
  <2> HIDE DEF h
  <2>7. Joins(h, parts)
    BY <2>5, <2>6 DEF Joins
  <2>8. h[n] = f[n]
    BY <1>1, <2>7, JoinsUnique
  <2> QED
    BY <1>1, <2>1, <2>6, <2>8
<1> QED
  BY <1>2, <1>3

\* Joining what is joined already, one part, no part, and single elements.
Regroups(S) == \A u, v, w \in Seq(S) : u \o (v \o w) = (u \o v) \o w

LEMMA RegroupsAll ==
    ASSUME NEW S PROVE Regroups(S)
BY Associative DEF Regroups

LEMMA FlattenConcat ==
    ASSUME NEW S, NEW p \in Seq(Seq(S)), NEW q \in Seq(Seq(S))
    PROVE  FlattenSeq(p \o q) = FlattenSeq(p) \o FlattenSeq(q)
<1> DEFINE n == Len(p)
           m == Len(q)
           c == p \o q
<1>1. n \in Nat /\ m \in Nat /\ (\A i \in 1 .. n : p[i] \in Seq(S)) /\ \A i \in 1 .. m : q[i] \in Seq(S)
  BY LenProperties, ElementOfSeq
<1>2. /\ c \in Seq(Seq(S)) /\ Len(c) = n + m
      /\ \A i \in 1 .. n + m : c[i] = IF i <= n THEN p[i] ELSE q[i - n]
  BY ConcatProperties
<1>3. PICK f : Joins(f, p)
  BY <1>1, JoinsExists
<1>4. PICK g : Joins(g, q)
  BY <1>1, JoinsExists
<1>5. /\ \A i \in 0 .. n : f[i] \in Seq(S)
      /\ \A i \in 0 .. m : g[i] \in Seq(S)
      /\ FlattenSeq(p) = f[n] /\ FlattenSeq(q) = g[m]
  BY <1>3, <1>4, JoinsType, FlattenJoins
<1>6. f[n] \in Seq(S) /\ f[n] \o g[0] = f[n]
  BY <1>1, <1>4, <1>5, ConcatEmptySeq DEF Joins
<1> HIDE DEF c
<1> DEFINE h == [i \in 0 .. n + m |-> IF i <= n THEN f[i] ELSE f[n] \o g[i - n]]
<1>7. \A j \in 0 .. m : h[n + j] = f[n] \o g[j]
  <2>1. ASSUME NEW j \in 0 .. m PROVE h[n + j] = f[n] \o g[j]
    <3>1. n + j \in 0 .. n + m /\ (n + j) - n = j /\ (n + j <= n <=> j = 0)
      BY <1>1
    <3>2. CASE j = 0
      <4>1. n + j = n /\ n \in 0 .. n + m /\ n <= n
        BY <1>1, <3>2
      <4>2. h[n] = f[n]
        BY <4>1
      <4> HIDE DEF h
      <4> QED
        BY <1>6, <3>2, <4>1, <4>2
    <3>3. CASE j # 0
      BY <3>1, <3>3
    <3> QED
      BY <3>2, <3>3
  <2> QED
    BY <2>1
<1>8. \A i \in 0 .. n : h[i] = f[i]
  BY <1>1
<1> HIDE DEF h
<1>9. ASSUME NEW i \in 1 .. n + m PROVE h[i] = h[i - 1] \o c[i]
  <2>1. CASE i <= n
    <3>1. i \in 1 .. n /\ i \in 0 .. n /\ i - 1 \in 0 .. n
      BY <1>1, <2>1
    <3>2. f[i] = f[i - 1] \o p[i]
      BY <1>3, <3>1 DEF Joins
    <3> QED
      BY <1>2, <1>8, <2>1, <3>1, <3>2
  <2>2. CASE ~(i <= n)
    <3> DEFINE j == i - n
    <3>1. j \in 1 .. m /\ j \in 0 .. m /\ j - 1 \in 0 .. m /\ i = n + j /\ i - 1 = n + (j - 1)
      BY <1>1, <2>2
    <3>2. c[i] = q[j]
      BY <1>2, <2>2
    <3> HIDE DEF j
    <3>3. g[j] = g[j - 1] \o q[j]
      BY <1>4, <3>1 DEF Joins
    <3>4. f[n] \o (g[j - 1] \o q[j]) = (f[n] \o g[j - 1]) \o q[j]
      <4>1. f[n] \in Seq(S) /\ g[j - 1] \in Seq(S) /\ q[j] \in Seq(S)
        BY <1>1, <1>5, <1>6, <3>1
      <4>2. Regroups(S)
        BY RegroupsAll
      <4> QED
        BY <4>1, <4>2, Zenon DEF Regroups
    <3>5. h[i] = f[n] \o g[j] /\ h[i - 1] = f[n] \o g[j - 1]
      BY <1>7, <3>1
    <3> QED
      BY <3>2, <3>3, <3>4, <3>5
  <2> QED
    BY <2>1, <2>2
<1>10. h[0] = <<>>
  <2>1. 0 \in 0 .. n /\ f[0] = <<>>
    BY <1>1, <1>3 DEF Joins
  <2> QED
    BY <1>8, <2>1
<1>11. Joins(h, c)
  BY <1>2, <1>9, <1>10 DEF Joins
<1>12. FlattenSeq(c) = h[n + m] /\ h[n + m] = f[n] \o g[m]
  <2>1. m \in 0 .. m
    BY <1>1
  <2>2. FlattenSeq(c) = h[Len(c)]
    BY <1>2, <1>11, FlattenJoins
  <2> QED
    BY <1>2, <1>7, <2>1, <2>2
<1> QED
  BY <1>5, <1>12 DEF c

LEMMA FlattenOne ==
    ASSUME NEW S, NEW s \in Seq(S)
    PROVE  FlattenSeq(<<s>>) = s /\ FlattenSeq(<<>>) = <<>>
<1> DEFINE parts == <<s>>
           f == [i \in 0 .. 1 |-> IF i = 0 THEN <<>> ELSE s]
<1>1. parts \in Seq(Seq(S)) /\ Len(parts) = 1 /\ parts[1] = s
  OBVIOUS
<1>2. f[0] = <<>> /\ f[1] = s /\ <<>> \o s = s
  BY ConcatEmptySeq
<1> HIDE DEF parts, f
<1>3. Joins(f, parts)
  <2>1. ASSUME NEW i \in 1 .. Len(parts) PROVE f[i] = f[i - 1] \o parts[i]
    <3>1. i = 1 /\ i - 1 = 0
      BY <1>1
    <3> QED
      BY <1>1, <1>2, <3>1
  <2> QED
    BY <1>2, <2>1 DEF Joins
<1>4. FlattenSeq(parts) = s
  BY <1>1, <1>2, <1>3, FlattenJoins
<1>5. FlattenSeq(<<>>) = <<>>
  <2>1. Len(<<>>) = 0
    BY EmptySeq
  <2> QED
    BY <2>1 DEF FlattenSeq
<1> QED
  BY <1>4, <1>5 DEF parts

LEMMA FlattenSingles ==
    ASSUME NEW S, NEW s \in Seq(S), NEW parts \in Seq(Seq(S)), Len(parts) = Len(s),
           \A i \in 1 .. Len(s) : parts[i] = <<s[i]>>
    PROVE  FlattenSeq(parts) = s
<1> DEFINE n == Len(s)
           f == [i \in 0 .. n |-> SubSeq(s, 1, i)]
<1>1. n \in Nat
  BY LenProperties
<1>2. f[0] = <<>> /\ f[n] = s
  BY <1>1, SubSeqEmpty, SubSeqFull
<1>3. ASSUME NEW i \in 1 .. n PROVE f[i] = f[i - 1] \o parts[i]
  <2>1. SubSeq(s, 1, i) = SubSeq(s, 1, i - 1) \o <<s[i]>>
    <3>1. 1 \in 1 .. Len(s) /\ i \in 1 .. Len(s)
      BY <1>1
    <3> QED
      BY <3>1, SubSeqRecursiveSecond
  <2>2. i \in 0 .. n /\ i - 1 \in 0 .. n
    BY <1>1
  <2> QED
    BY <2>1, <2>2
<1> HIDE DEF f
<1>4. Joins(f, parts)
  BY <1>2, <1>3 DEF Joins
<1> QED
  BY <1>2, <1>4, FlattenJoins

\* Joined messages are read as their fields joined.
LEMMA MessageOfParts ==
    ASSUME NEW parts \in Seq(Data), \A i \in 1 .. Len(parts) : Readable(Message(parts[i])),
           NEW msgs \in Seq(Seq(GoodFields)), Len(msgs) = Len(parts),
           \A i \in 1 .. Len(parts) : msgs[i] = Message(parts[i])
    PROVE  /\ FlattenSeq(parts) \in Data
           /\ Message(FlattenSeq(parts)) = FlattenSeq(msgs)
           /\ FlattenSeq(msgs) \in Seq(GoodFields)
<1> DEFINE n == Len(parts)
<1>1. n \in Nat /\ (\A i \in 1 .. n : parts[i] \in Data) /\ parts \in Seq(Seq(Nat))
  BY LenProperties, ElementOfSeq DEF Data
<1>2. PICK f : Joins(f, parts)
  BY <1>1, JoinsExists
<1>3. FlattenSeq(parts) = f[n] /\ FlattenSeq(parts) \in Data /\ \A i \in 0 .. n : f[i] \in Data
  BY <1>1, <1>2, JoinsType, FlattenJoins DEF Data
<1>4. PICK g : Joins(g, msgs)
  BY <1>1, JoinsExists
<1>5. FlattenSeq(msgs) = g[n] /\ FlattenSeq(msgs) \in Seq(GoodFields) /\ \A i \in 0 .. n : g[i] \in Seq(GoodFields)
  BY <1>4, JoinsType, FlattenJoins
<1> DEFINE C == {k \in Nat : k <= n /\ Message(f[k]) # g[k]}
<1>6. ASSUME C # {} PROVE FALSE
  <2>1. PICK m \in C : \A k \in C : m <= k
    <3>1. C \in SUBSET Nat
      OBVIOUS
    <3> HIDE DEF C
    <3> QED
      BY <1>6, <3>1, LeastNat
  <2>2. m # 0
    <3>1. f[0] = <<>> /\ g[0] = <<>> /\ <<>> \in Data
      BY <1>2, <1>4, EmptySeq DEF Joins, Data
    <3> QED
      BY <2>1, <3>1, MessageShape
  <2>3. /\ m \in 1 .. n /\ m - 1 \in Nat /\ m - 1 \in 0 .. n
        /\ ~(m <= m - 1) /\ m - 1 <= n
    BY <1>1, <2>1, <2>2
  <2>4. Message(f[m - 1]) = g[m - 1]
    BY <2>1, <2>3
  <2>5. Readable(Message(f[m - 1]))
    BY <1>5, <2>3, <2>4, ReadableMeans
  <2>6. f[m] = f[m - 1] \o parts[m] /\ g[m] = g[m - 1] \o Message(parts[m])
    BY <1>2, <1>4, <2>3 DEF Joins
  <2>7. Message(f[m]) = Message(f[m - 1]) \o Message(parts[m])
    BY <1>1, <1>3, <2>3, <2>5, <2>6, MessageOfConcat
  <2> QED
    BY <2>1, <2>4, <2>6, <2>7
<1>7. Message(f[n]) = g[n]
  BY <1>1, <1>6
<1> QED
  BY <1>3, <1>5, <1>7

-----------------------------------------------------------------------------
(* Embedded messages *)

\* The fields get_submessages takes, each as a message.
Chosen(s, no) ==
    [i \in 1 .. Len(s) |-> IF s[i].no = no /\ s[i].wire = 2 THEN <<Message(s[i].value)>> ELSE <<>>]

LEMMA FieldMessage ==
    ASSUME NEW f \in GoodFields, f.wire = 2
    PROVE  f.value \in Data /\ Message(f.value) \in Seq(AllFields)
<1> DEFINE A == [ok : {TRUE}, no : Nat, wire : {0}, value : Nat]
           B == [ok : {TRUE}, no : Nat, wire : 1 .. 7, value : Data]
<1>1. f \in B
  <2>1. f \in A \/ f \in B
    BY Zenon DEF GoodFields
  <2>2. f \in A => f.wire \in {0}
    OBVIOUS
  <2> HIDE DEF A, B
  <2> QED
    BY <2>1, <2>2
<1>2. f.value \in Data
  BY <1>1
<1> QED
  BY <1>2, MessageShape

LEMMA ChosenIs ==
    ASSUME NEW s \in Seq(GoodFields), NEW no
    PROVE  /\ Submessages(s, no) = FlattenSeq(Chosen(s, no))
           /\ Chosen(s, no) \in Seq(Seq(Seq(AllFields)))
           /\ Len(s) \in Nat /\ Len(Chosen(s, no)) = Len(s)
           /\ \A i \in 1 .. Len(s) : s[i] \in GoodFields
<1>1. Len(s) \in Nat /\ DOMAIN s = 1 .. Len(s) /\ \A i \in 1 .. Len(s) : s[i] \in GoodFields
  BY LenProperties, ElementOfSeq
<1>2. Submessages(s, no) = FlattenSeq(Chosen(s, no))
  BY <1>1, Zenon DEF Submessages, Chosen
<1>3. ASSUME NEW i \in 1 .. Len(s) PROVE Chosen(s, no)[i] \in Seq(Seq(AllFields))
  <2>1. CASE s[i].no = no /\ s[i].wire = 2
    <3>1. Message(s[i].value) \in Seq(AllFields)
      BY <1>1, <2>1, FieldMessage
    <3> DEFINE e == Message(s[i].value)
    <3>2. Chosen(s, no)[i] = <<e>>
      BY <2>1 DEF Chosen
    <3> HIDE DEF e
    <3>3. e \in Seq(AllFields)
      BY <3>1 DEF e
    <3>4. <<e>> \in Seq(Seq(AllFields))
      BY <3>3, LatestOfOne
    <3> QED
      BY <3>2, <3>4
  <2>2. CASE ~(s[i].no = no /\ s[i].wire = 2)
    <3>1. Chosen(s, no)[i] = <<>>
      BY <2>2 DEF Chosen
    <3> QED
      BY <3>1, EmptySeq
  <2> QED
    BY <2>1, <2>2
<1>4. Chosen(s, no) \in [1 .. Len(s) -> Seq(Seq(AllFields))]
  BY <1>3 DEF Chosen
<1>5. Chosen(s, no) \in Seq(Seq(Seq(AllFields))) /\ Len(Chosen(s, no)) = Len(s)
  BY <1>1, <1>4, IsASeq
<1> QED
  BY <1>1, <1>2, <1>5

\* The messages of two parts are those of the first and then those of the second.
LEMMA SubmessagesOfConcat ==
    ASSUME NEW s \in Seq(GoodFields), NEW t \in Seq(GoodFields), NEW no
    PROVE  Submessages(s \o t, no) = Submessages(s, no) \o Submessages(t, no)
<1> DEFINE c == s \o t
           a == Chosen(s, no)
           b == Chosen(t, no)
           d == Chosen(c, no)
<1>1. /\ c \in Seq(GoodFields) /\ Len(c) = Len(s) + Len(t)
      /\ \A i \in 1 .. Len(s) + Len(t) : c[i] = IF i <= Len(s) THEN s[i] ELSE t[i - Len(s)]
  BY ConcatProperties
<1>2. /\ a \in Seq(Seq(Seq(AllFields))) /\ Len(s) \in Nat /\ Len(a) = Len(s)
      /\ b \in Seq(Seq(Seq(AllFields))) /\ Len(t) \in Nat /\ Len(b) = Len(t)
  BY ChosenIs
<1>3. d \in Seq(Seq(Seq(AllFields))) /\ Len(d) = Len(c) /\ Submessages(c, no) = FlattenSeq(d)
  <2>1. c \in Seq(GoodFields)
    BY <1>1
  <2> HIDE DEF c
  <2> QED
    BY <2>1, ChosenIs
<1>4. /\ a \o b \in Seq(Seq(Seq(AllFields))) /\ Len(a \o b) = Len(s) + Len(t)
      /\ \A i \in 1 .. Len(s) + Len(t) : (a \o b)[i] = IF i <= Len(s) THEN a[i] ELSE b[i - Len(s)]
  <2> HIDE DEF a, b, c, d
  <2>1. a \in Seq(Seq(Seq(AllFields))) /\ b \in Seq(Seq(Seq(AllFields)))
    BY <1>2
  <2>2. /\ a \o b \in Seq(Seq(Seq(AllFields))) /\ Len(a \o b) = Len(a) + Len(b)
        /\ \A i \in 1 .. Len(a) + Len(b) : (a \o b)[i] = IF i <= Len(a) THEN a[i] ELSE b[i - Len(a)]
    BY <2>1, ConcatProperties
  <2>3. Len(a) = Len(s) /\ Len(b) = Len(t)
    BY <1>2
  <2> QED
    BY <2>2, <2>3
<1>5. ASSUME NEW i \in 1 .. Len(s) + Len(t) PROVE d[i] = (a \o b)[i]
  <2>1. i \in 1 .. Len(c)
    BY <1>1
  <2>2. CASE i <= Len(s)
    <3>1. i \in 1 .. Len(s) /\ c[i] = s[i] /\ (a \o b)[i] = a[i]
      BY <1>1, <1>2, <1>4, <2>2
    <3> QED
      BY <2>1, <3>1, Zenon DEF Chosen
  <2>3. CASE ~(i <= Len(s))
    <3>1. i - Len(s) \in 1 .. Len(t) /\ c[i] = t[i - Len(s)] /\ (a \o b)[i] = b[i - Len(s)]
      BY <1>1, <1>2, <1>4, <2>3
    <3> QED
      BY <2>1, <3>1, Zenon DEF Chosen
  <2> QED
    BY <2>2, <2>3
<1>6. d = a \o b
  <2>1. Len(d) = Len(a \o b)
    BY <1>1, <1>3, <1>4
  <2>2. \A i \in 1 .. Len(d) : d[i] = (a \o b)[i]
    BY <1>1, <1>3, <1>5
  <2> DEFINE ab == a \o b
  <2> HIDE DEF a, b, d, ab
  <2>3. d = ab
    BY <1>3, <1>4, <2>1, <2>2, SeqEqual DEF ab
  <2> QED
    BY <2>3 DEF ab
<1>7. FlattenSeq(a \o b) = FlattenSeq(a) \o FlattenSeq(b)
  <2> HIDE DEF a, b
  <2> QED
    BY <1>2, FlattenConcat
<1>8. Submessages(s, no) = FlattenSeq(a) /\ Submessages(t, no) = FlattenSeq(b)
  BY ChosenIs
<1> QED
  BY <1>3, <1>6, <1>7, <1>8

LEMMA SubmessagesLacking ==
    ASSUME NEW s \in Seq(GoodFields), NEW no, Lacks(s, no)
    PROVE  Submessages(s, no) = <<>>
<1> DEFINE a == Chosen(s, no)
           f == [i \in 0 .. Len(s) |-> <<>>]
<1>1. /\ a \in Seq(Seq(Seq(AllFields))) /\ Len(s) \in Nat /\ Len(a) = Len(s)
      /\ Submessages(s, no) = FlattenSeq(a) /\ DOMAIN s = 1 .. Len(s)
  BY ChosenIs, LenProperties
<1>2. \A i \in 1 .. Len(s) : a[i] = <<>>
  BY <1>1 DEF Lacks, Chosen
<1>3. f[0] = <<>> /\ f[Len(s)] = <<>> /\ \A i \in 1 .. Len(s) : f[i] = f[i - 1] \o a[i]
  <2>1. <<>> = <<>> \o <<>>
    BY ConcatEmptySeq, EmptySeq
  <2>2. f[0] = <<>> /\ f[Len(s)] = <<>> /\ \A i \in 1 .. Len(s) : f[i] = <<>> /\ f[i - 1] = <<>>
    BY <1>1
  <2> QED
    BY <1>2, <2>1, <2>2, Zenon
<1> HIDE DEF a, f
<1>4. Joins(f, a)
  BY <1>1, <1>3 DEF Joins
<1>5. FlattenSeq(a) = f[Len(a)]
  BY <1>1, <1>4, FlattenJoins
<1> QED
  BY <1>1, <1>3, <1>5

LEMMA SubmessagesOfAll ==
    ASSUME NEW s \in Seq(GoodFields), NEW no, \A i \in 1 .. Len(s) : s[i].no = no /\ s[i].wire = 2,
           NEW msgs \in Seq(Seq(AllFields)), Len(msgs) = Len(s),
           \A i \in 1 .. Len(s) : msgs[i] = Message(s[i].value)
    PROVE  Submessages(s, no) = msgs
<1> DEFINE a == Chosen(s, no)
<1>1. /\ a \in Seq(Seq(Seq(AllFields))) /\ Len(a) = Len(s) /\ Submessages(s, no) = FlattenSeq(a)
  BY ChosenIs
<1>2. \A i \in 1 .. Len(s) : a[i] = <<msgs[i]>>
  BY Zenon DEF Chosen
<1> HIDE DEF a
<1>3. Len(a) = Len(msgs) /\ \A i \in 1 .. Len(msgs) : a[i] = <<msgs[i]>>
  BY <1>1, <1>2
<1> QED
  BY <1>1, <1>3, FlattenSingles

LEMMA SubmessagesType ==
    ASSUME NEW s \in Seq(GoodFields), NEW no
    PROVE  Submessages(s, no) \in Seq(Seq(AllFields))
<1>1. /\ Submessages(s, no) = FlattenSeq(Chosen(s, no))
      /\ Chosen(s, no) \in Seq(Seq(Seq(AllFields)))
      /\ Len(Chosen(s, no)) \in Nat
  BY ChosenIs
<1>2. PICK f : Joins(f, Chosen(s, no))
  BY <1>1, JoinsExists
<1> QED
  BY <1>1, <1>2, FlattenJoins

-----------------------------------------------------------------------------
(* Data that is read as a message *)

ReadAs(data, msg) == data \in Data /\ msg \in Seq(GoodFields) /\ Message(data) = msg

LEMMA ReadsAsMessage ==
    ASSUME NEW data, NEW msg, ReadAs(data, msg)
    PROVE  data \in Data /\ msg \in Seq(GoodFields) /\ Message(data) = msg /\ Readable(msg)
BY ReadableMeans DEF ReadAs

LEMMA ReadsAsConcat ==
    ASSUME NEW a, NEW m, NEW b, NEW n, ReadAs(a, m), ReadAs(b, n)
    PROVE  ReadAs(a \o b, m \o n)
<1>1. /\ a \in Data /\ m \in Seq(GoodFields) /\ Message(a) = m /\ Readable(m)
      /\ b \in Data /\ n \in Seq(GoodFields) /\ Message(b) = n
  BY ReadsAsMessage
<1>2. a \o b \in Data
  BY <1>1, ConcatExtends
<1>3. m \o n \in Seq(GoodFields)
  BY <1>1, ConcatProperties
<1>4. Message(a \o b) = Message(a) \o Message(b)
  BY <1>1, MessageOfConcat
<1> QED
  BY <1>1, <1>2, <1>3, <1>4 DEF ReadAs

LEMMA ReadsAsNothing == ReadAs(<<>>, <<>>)
<1>1. <<>> \in Data /\ <<>> \in Seq(GoodFields)
  BY EmptySeq DEF Data
<1> QED
  BY <1>1, MessageShape DEF ReadAs

\* What get_str, get_bytes, get_int and get_submessages find under a number.
Found(msg, no) == <<Latest(msg, no), Submessages(msg, no)>>

\* A part without the number is as if it were not there.
LEMMA FoundInConcat ==
    ASSUME NEW s \in Seq(GoodFields), NEW t \in Seq(GoodFields), NEW no
    PROVE  /\ Lacks(t, no) => Found(s \o t, no) = Found(s, no)
           /\ Lacks(s, no) => Found(s \o t, no) = Found(t, no)
           /\ Lacks(s \o t, no) <=> Lacks(s, no) /\ Lacks(t, no)
<1>1. /\ Lacks(t, no) => Latest(s \o t, no) = Latest(s, no)
      /\ ~Lacks(t, no) => Latest(s \o t, no) = Latest(t, no)
      /\ Lacks(s \o t, no) <=> Lacks(s, no) /\ Lacks(t, no)
  BY LatestOfConcat
<1>2. /\ Lacks(s, no) => Latest(s, no) = Broken
      /\ Lacks(t, no) => Latest(t, no) = Broken
  BY LatestAt
<1>3. Submessages(s \o t, no) = Submessages(s, no) \o Submessages(t, no)
  BY SubmessagesOfConcat
<1>4. Submessages(s, no) \in Seq(Seq(AllFields)) /\ Submessages(t, no) \in Seq(Seq(AllFields))
  BY SubmessagesType
<1>5. ASSUME Lacks(t, no) PROVE Submessages(s \o t, no) = Submessages(s, no)
  BY <1>3, <1>4, <1>5, SubmessagesLacking, ConcatEmptySeq
<1>6. ASSUME Lacks(s, no) PROVE Submessages(s \o t, no) = Submessages(t, no)
  BY <1>3, <1>4, <1>6, SubmessagesLacking, ConcatEmptySeq
<1> QED
  BY <1>1, <1>2, <1>5, <1>6, Zenon DEF Found

LEMMA FoundInOne ==
    ASSUME NEW f \in GoodFields
    PROVE  /\ <<f>> \in Seq(GoodFields)
           /\ \A no : f.no # no => Lacks(<<f>>, no)
           /\ f.wire = 2 => Found(<<f>>, f.no) = <<f, <<Message(f.value)>> >>
           /\ Latest(<<f>>, f.no) = f
<1>1. /\ <<f>> \in Seq(GoodFields) /\ Latest(<<f>>, f.no) = f
      /\ \A no : f.no # no => Lacks(<<f>>, no)
  BY LatestOfOne, Zenon
<1>2. ASSUME f.wire = 2 PROVE Submessages(<<f>>, f.no) = <<Message(f.value)>>
  <2> DEFINE s == <<f>>
             m == Message(f.value)
             msgs == <<m>>
  <2>1. Len(s) = 1 /\ s[1] = f /\ s \in Seq(GoodFields)
    BY <1>1
  <2>2. m \in Seq(AllFields)
    BY <1>2, FieldMessage
  <2> HIDE DEF m
  <2>3. msgs \in Seq(Seq(AllFields)) /\ Len(msgs) = 1 /\ msgs[1] = m
    BY <2>2
  <2> HIDE DEF s, msgs
  <2>4. \A i \in 1 .. Len(s) : s[i].no = f.no /\ s[i].wire = 2 /\ msgs[i] = Message(s[i].value)
    BY <1>2, <2>1, <2>3 DEF m
  <2>5. Submessages(s, f.no) = msgs
    BY <2>1, <2>3, <2>4, SubmessagesOfAll
  <2> QED
    BY <2>5 DEF s, msgs, m
<1> QED
  BY <1>1, <1>2, Zenon DEF Found

LEMMA ReadableConcat ==
    ASSUME NEW s \in Seq(AllFields), NEW t \in Seq(AllFields)
    PROVE  Readable(s \o t) <=> Readable(s) /\ Readable(t)
<1> DEFINE c == s \o t
<1>1. /\ c \in Seq(AllFields) /\ Len(c) = Len(s) + Len(t)
      /\ \A i \in 1 .. Len(s) + Len(t) : c[i] = IF i <= Len(s) THEN s[i] ELSE t[i - Len(s)]
  BY ConcatProperties
<1>2. Len(s) \in Nat /\ Len(t) \in Nat /\ DOMAIN s = 1 .. Len(s) /\ DOMAIN t = 1 .. Len(t)
  BY LenProperties
<1>3. DOMAIN c = 1 .. Len(s) + Len(t)
  BY <1>1, LenProperties
<1> HIDE DEF c
<1>4. \A i \in 1 .. Len(s) : i \in DOMAIN c /\ c[i] = s[i]
  BY <1>1, <1>2, <1>3
<1>5. ASSUME NEW i \in 1 .. Len(t) PROVE Len(s) + i \in DOMAIN c /\ c[Len(s) + i] = t[i]
  <2>1. /\ Len(s) + i \in 1 .. Len(s) + Len(t) /\ ~(Len(s) + i <= Len(s))
        /\ (Len(s) + i) - Len(s) = i
    BY <1>2
  <2> QED
    BY <1>1, <1>3, <2>1
<1>6. ASSUME NEW i \in DOMAIN c
      PROVE  \/ i \in 1 .. Len(s) /\ c[i] = s[i]
             \/ \E j \in 1 .. Len(t) : c[i] = t[j]
  <2>1. CASE i <= Len(s)
    BY <1>1, <1>2, <1>3, <2>1
  <2>2. CASE ~(i <= Len(s))
    <3>1. i - Len(s) \in 1 .. Len(t) /\ c[i] = t[i - Len(s)]
      BY <1>1, <1>2, <1>3, <2>2
    <3> QED
      BY <3>1
  <2> QED
    BY <2>1, <2>2
<1>7. Readable(c) => Readable(s) /\ Readable(t)
  BY <1>2, <1>4, <1>5, Zenon DEF Readable
<1>8. Readable(s) /\ Readable(t) => Readable(c)
  BY <1>2, <1>6, Zenon DEF Readable
<1> QED
  BY <1>7, <1>8 DEF c

\* _protobuf.py:10, "Unknown field numbers are skipped based on their wire type": a field
\* inserted between two others, whatever it holds, changes neither whether the message
\* can be read nor what any accessor finds under another number.
THEOREM UnknownFieldsAreSkipped ==
    ASSUME NEW a \in Data, NEW u \in Data, NEW b \in Data,
           Readable(Message(a)), Readable(Message(u)), NEW no, Lacks(Message(u), no)
    PROVE  /\ Readable(Message((a \o u) \o b)) <=> Readable(Message(a \o b))
           /\ Readable(Message(a \o b)) =>
                /\ Text(Message((a \o u) \o b), no) = Text(Message(a \o b), no)
                /\ Number(Message((a \o u) \o b), no) = Number(Message(a \o b), no)
                /\ Submessages(Message((a \o u) \o b), no) = Submessages(Message(a \o b), no)
<1> DEFINE ma == Message(a)
           mu == Message(u)
           mb == Message(b)
<1>1. /\ ma \in Seq(GoodFields) /\ mu \in Seq(GoodFields) /\ mb \in Seq(AllFields)
      /\ ma \in Seq(AllFields) /\ mu \in Seq(AllFields)
      /\ Readable(mb) => mb \in Seq(GoodFields)
  BY MessageShape
<1>2. a \o u \in Data /\ Message(a \o u) = ma \o mu
  BY ConcatExtends, MessageOfConcat
<1>3. Message(a \o b) = ma \o mb
  BY MessageOfConcat
<1>4. ma \o mu \in Seq(AllFields) /\ ma \o mu \in Seq(GoodFields) /\ Readable(ma \o mu)
  <2> HIDE DEF ma, mu
  <2> QED
    BY <1>1, ConcatProperties, ReadableMeans
<1>5. Message((a \o u) \o b) = (ma \o mu) \o mb
  BY <1>2, <1>4, MessageOfConcat
<1>6. /\ Readable((ma \o mu) \o mb) <=> Readable(mb)
      /\ Readable(ma \o mb) <=> Readable(mb)
  BY <1>1, <1>4, ReadableConcat
<1>7. ASSUME Readable(mb) PROVE Found((ma \o mu) \o mb, no) = Found(ma \o mb, no)
  <2> HIDE DEF ma, mu, mb
  <2>0. mb \in Seq(GoodFields) /\ Lacks(mu, no)
    BY <1>1, <1>7 DEF mu
  <2>1. /\ Found(ma \o mu, no) = Found(ma, no)
        /\ Lacks(ma \o mu, no) <=> Lacks(ma, no)
    BY <1>1, <2>0, FoundInConcat
  <2>2. /\ Lacks(mb, no) => Found((ma \o mu) \o mb, no) = Found(ma \o mu, no)
        /\ Lacks(ma \o mu, no) => Found((ma \o mu) \o mb, no) = Found(mb, no)
    BY <1>4, <2>0, FoundInConcat
  <2>3. /\ Lacks(mb, no) => Found(ma \o mb, no) = Found(ma, no)
        /\ Lacks(ma, no) => Found(ma \o mb, no) = Found(mb, no)
    BY <1>1, <2>0, FoundInConcat
  <2>4. CASE Lacks(mb, no) \/ Lacks(ma, no)
    BY <2>1, <2>2, <2>3, <2>4
  <2>5. CASE ~Lacks(mb, no)
    <3>1. Latest((ma \o mu) \o mb, no) = Latest(mb, no) /\ Latest(ma \o mb, no) = Latest(mb, no)
      BY <1>1, <1>4, <2>0, <2>5, LatestOfConcat
    <3>2. /\ Submessages((ma \o mu) \o mb, no) = Submessages(ma \o mu, no) \o Submessages(mb, no)
          /\ Submessages(ma \o mb, no) = Submessages(ma, no) \o Submessages(mb, no)
      <4> DEFINE mm == ma \o mu
      <4>1. mm \in Seq(GoodFields)
        BY <1>4
      <4> HIDE DEF mm
      <4>2. Submessages(mm \o mb, no) = Submessages(mm, no) \o Submessages(mb, no)
        BY <2>0, <4>1, SubmessagesOfConcat
      <4>3. Submessages(ma \o mb, no) = Submessages(ma, no) \o Submessages(mb, no)
        BY <1>1, <2>0, SubmessagesOfConcat
      <4> QED
        BY <4>2, <4>3 DEF mm
    <3>3. Submessages(ma \o mu, no) = Submessages(ma, no)
      BY <2>1 DEF Found
    <3> QED
      BY <3>1, <3>2, <3>3 DEF Found
  <2> QED
    BY <2>4, <2>5
<1>8. ASSUME Readable(mb)
      PROVE  /\ Latest((ma \o mu) \o mb, no) = Latest(ma \o mb, no)
             /\ Submessages((ma \o mu) \o mb, no) = Submessages(ma \o mb, no)
  BY <1>7, <1>8 DEF Found
<1> HIDE DEF ma, mu, mb
<1> QED
  BY <1>3, <1>5, <1>6, <1>8, Zenon DEF Text, Number

-----------------------------------------------------------------------------
(* The exchange's encoding is read as what was encoded.                    *)

LEMMA LowSeven ==
    ASSUME NEW a \in 0 .. 127
    PROVE  a % 128 = a /\ (128 + a) % 128 = a
OBVIOUS

\* A varint of some length, by its septets.
LEMMA VarintOfBytes ==
    ASSUME NEW v \in Data, Stops(v, 1, Len(v)), Len(v) <= 4
    PROVE  /\ Varint(v, 1).ok /\ Varint(v, 1).next = Len(v) + 1
           /\ Varint(v, 1).value =
                Septet(v, 1, Len(v), 0) + 128 * (Septet(v, 1, Len(v), 1)
                  + 128 * (Septet(v, 1, Len(v), 2) + 128 * Septet(v, 1, Len(v), 3)))
<1>1. \A e : Stops(v, 1, e) => Varint(v, 1) = [ok |-> TRUE, value |-> Bits(v, 1, e), next |-> e + 1]
  BY VarintStops
<1>2. Varint(v, 1) = [ok |-> TRUE, value |-> Bits(v, 1, Len(v)), next |-> Len(v) + 1]
  BY <1>1, Zenon
<1>3. Len(v) \in Nat /\ 4 .. Len(v) - 1 = {}
  BY ByteOf
<1>4. ~ \E k \in 4 .. Len(v) - 1 : Septet(v, 1, Len(v), k) # 0
  BY <1>3
<1> QED
  BY <1>2, <1>4, BitsOfSeptets

\* The bytes are the varint of the number.
IsVarint(v, n) ==
    /\ v \in Data /\ Len(v) \in Nat \ {0}
    /\ Varint(v, 1).ok /\ Varint(v, 1).value = n /\ Varint(v, 1).next = Len(v) + 1

LEMMA OneByte ==
    ASSUME NEW a \in 0 .. 127
    PROVE  IsVarint(<<a>>, a)
<1> DEFINE v == <<a>>
<1>1. v \in Data /\ Len(v) = 1 /\ v[1] = a
  BY DEF Data
<1> HIDE DEF v
<1>2. Stops(v, 1, Len(v)) /\ Len(v) <= 4
  BY <1>1 DEF Stops
<1>3. /\ Septet(v, 1, Len(v), 0) = a /\ Septet(v, 1, Len(v), 1) = 0
      /\ Septet(v, 1, Len(v), 2) = 0 /\ Septet(v, 1, Len(v), 3) = 0
  BY <1>1, LowSeven DEF Septet
<1>4. a + 128 * (0 + 128 * (0 + 128 * 0)) = a
  OBVIOUS
<1>5. /\ Varint(v, 1).ok /\ Varint(v, 1).next = Len(v) + 1
      /\ Varint(v, 1).value =
           Septet(v, 1, Len(v), 0) + 128 * (Septet(v, 1, Len(v), 1)
             + 128 * (Septet(v, 1, Len(v), 2) + 128 * Septet(v, 1, Len(v), 3)))
  BY <1>1, <1>2, VarintOfBytes, Zenon
<1>6. IsVarint(v, a)
  BY <1>1, <1>3, <1>4, <1>5 DEF IsVarint
<1> QED
  BY <1>6 DEF v

LEMMA TwoBytes ==
    ASSUME NEW a \in 0 .. 127, NEW b \in 0 .. 127
    PROVE  IsVarint(<<128 + a, b>>, a + 128 * b)
<1> DEFINE v == <<128 + a, b>>
<1>1. v \in Data /\ Len(v) = 2 /\ v[1] = 128 + a /\ v[2] = b
  BY DEF Data
<1> HIDE DEF v
<1>2. Stops(v, 1, Len(v)) /\ Len(v) <= 4
  BY <1>1 DEF Stops
<1>3. /\ Septet(v, 1, Len(v), 0) = a /\ Septet(v, 1, Len(v), 1) = b
      /\ Septet(v, 1, Len(v), 2) = 0 /\ Septet(v, 1, Len(v), 3) = 0
  BY <1>1, LowSeven DEF Septet
<1>4. a + 128 * (b + 128 * (0 + 128 * 0)) = a + 128 * b
  OBVIOUS
<1>5. /\ Varint(v, 1).ok /\ Varint(v, 1).next = Len(v) + 1
      /\ Varint(v, 1).value =
           Septet(v, 1, Len(v), 0) + 128 * (Septet(v, 1, Len(v), 1)
             + 128 * (Septet(v, 1, Len(v), 2) + 128 * Septet(v, 1, Len(v), 3)))
  BY <1>1, <1>2, VarintOfBytes, Zenon
<1>6. IsVarint(v, a + 128 * b)
  BY <1>1, <1>3, <1>4, <1>5 DEF IsVarint
<1> QED
  BY <1>6 DEF v

LEMMA ThreeBytes ==
    ASSUME NEW a \in 0 .. 127, NEW b \in 0 .. 127, NEW c \in 0 .. 127
    PROVE  IsVarint(<<128 + a, 128 + b, c>>, a + 128 * (b + 128 * c))
<1> DEFINE v == <<128 + a, 128 + b, c>>
<1>1. v \in Data /\ Len(v) = 3 /\ v[1] = 128 + a /\ v[2] = 128 + b /\ v[3] = c
  BY DEF Data
<1> HIDE DEF v
<1>2. Stops(v, 1, Len(v)) /\ Len(v) <= 4
  BY <1>1 DEF Stops
<1>3. /\ Septet(v, 1, Len(v), 0) = a /\ Septet(v, 1, Len(v), 1) = b
      /\ Septet(v, 1, Len(v), 2) = c /\ Septet(v, 1, Len(v), 3) = 0
  BY <1>1, LowSeven DEF Septet
<1>4. a + 128 * (b + 128 * (c + 128 * 0)) = a + 128 * (b + 128 * c)
  OBVIOUS
<1>5. /\ Varint(v, 1).ok /\ Varint(v, 1).next = Len(v) + 1
      /\ Varint(v, 1).value =
           Septet(v, 1, Len(v), 0) + 128 * (Septet(v, 1, Len(v), 1)
             + 128 * (Septet(v, 1, Len(v), 2) + 128 * Septet(v, 1, Len(v), 3)))
  BY <1>1, <1>2, VarintOfBytes, Zenon
<1>6. IsVarint(v, a + 128 * (b + 128 * c))
  BY <1>1, <1>3, <1>4, <1>5 DEF IsVarint
<1> QED
  BY <1>6 DEF v

Quad(a, b, c, d) == <<128 + a, 128 + b, 128 + c, d>>
QuadValue(a, b, c, d) == a + 128 * (b + 128 * (c + 128 * d))

LEMMA FourBytes ==
    ASSUME NEW a \in 0 .. 127, NEW b \in 0 .. 127, NEW c \in 0 .. 127, NEW d \in 0 .. 127
    PROVE  IsVarint(Quad(a, b, c, d), QuadValue(a, b, c, d))
<1> DEFINE v == Quad(a, b, c, d)
<1>1. v \in Data /\ Len(v) = 4 /\ v[1] = 128 + a /\ v[2] = 128 + b /\ v[3] = 128 + c /\ v[4] = d
  BY DEF Data, Quad
<1> HIDE DEF v
<1>2. Stops(v, 1, Len(v)) /\ Len(v) <= 4
  BY <1>1 DEF Stops
<1>3. /\ Septet(v, 1, Len(v), 0) = a /\ Septet(v, 1, Len(v), 1) = b
      /\ Septet(v, 1, Len(v), 2) = c /\ Septet(v, 1, Len(v), 3) = d
  BY <1>1, LowSeven DEF Septet
<1>4. /\ Varint(v, 1).ok /\ Varint(v, 1).next = Len(v) + 1
      /\ Varint(v, 1).value =
           Septet(v, 1, Len(v), 0) + 128 * (Septet(v, 1, Len(v), 1)
             + 128 * (Septet(v, 1, Len(v), 2) + 128 * Septet(v, 1, Len(v), 3)))
  BY <1>1, <1>2, VarintOfBytes, Zenon
<1>5. IsVarint(v, QuadValue(a, b, c, d))
  BY <1>1, <1>3, <1>4 DEF IsVarint, QuadValue
<1> QED
  BY <1>5 DEF v

LEMMA VarintOfIsRead ==
    ASSUME NEW n \in Nat, n < Huge
    PROVE  IsVarint(VarintOf(n), n)
<1> DEFINE a == n % 128
           r == n \div 128
           b == r % 128
           s == r \div 128
           c == s % 128
           d == s \div 128
<1>1. a \in 0 .. 127 /\ r \in Nat /\ n = 128 * r + a
  BY Remainders
<1>2. b \in 0 .. 127 /\ s \in Nat /\ r = 128 * s + b
  BY <1>1, Remainders
<1>3. c \in 0 .. 127 /\ d \in Nat /\ s = 128 * d + c
  BY <1>2, Remainders
<1>4. VarintOf(n) = CASE n < 128 -> <<n>>
                      [] n >= 128 /\ r < 128 -> <<128 + a, r>>
                      [] r >= 128 /\ s < 128 -> <<128 + a, 128 + b, s>>
                      [] OTHER -> <<128 + a, 128 + b, 128 + c, d>>
  BY DEF VarintOf
<1> HIDE DEF a, r, b, s, c, d
<1>5. CASE n < 128
  <2>1. VarintOf(n) = <<n>> /\ n \in 0 .. 127
    BY <1>1, <1>4, <1>5
  <2> QED
    BY <2>1, OneByte
<1>6. CASE n >= 128 /\ r < 128
  <2>1. VarintOf(n) = <<128 + a, r>>
    <3>1. ~(n < 128) /\ ~(r >= 128)
      BY <1>1, <1>6
    <3> QED
      BY <1>4, <1>6, <3>1
  <2>2. r \in 0 .. 127 /\ n = a + 128 * r
    BY <1>1, <1>6
  <2>3. IsVarint(<<128 + a, r>>, a + 128 * r)
    BY <1>1, <2>2, TwoBytes
  <2> QED
    BY <2>1, <2>2, <2>3
<1>7. CASE r >= 128 /\ s < 128
  <2>1. s \in 0 .. 127 /\ n = a + 128 * (b + 128 * s) /\ n >= 128
    BY <1>1, <1>2, <1>7
  <2>2. VarintOf(n) = <<128 + a, 128 + b, s>>
    BY <1>1, <1>2, <1>4, <1>7, <2>1
  <2>3. IsVarint(<<128 + a, 128 + b, s>>, a + 128 * (b + 128 * s))
    BY <1>1, <1>2, <2>1, ThreeBytes, ZenonT(40)
  <2> QED
    BY <2>1, <2>2, <2>3
<1>8. CASE s >= 128
  <2>1. n = a + 128 * (b + 128 * (c + 128 * d)) /\ r >= 128 /\ n >= 128
    BY <1>1, <1>2, <1>3, <1>8
  <2>2. d \in 0 .. 127
    BY <1>1, <1>2, <1>3, <2>1, HugeIsNat
  <2>3. VarintOf(n) = <<128 + a, 128 + b, 128 + c, d>>
    BY <1>1, <1>2, <1>3, <1>4, <1>8, <2>1
  <2>4. a \in 0 .. 127 /\ b \in 0 .. 127 /\ c \in 0 .. 127
    BY <1>1, <1>2, <1>3
  <2> QED
    <3>1. n = QuadValue(a, b, c, d) /\ VarintOf(n) = Quad(a, b, c, d)
      BY <2>1, <2>3 DEF Quad, QuadValue
    <3> QED
      BY <2>2, <2>4, <3>1, FourBytes, ZenonT(40)
<1> QED
  BY <1>1, <1>2, <1>5, <1>6, <1>7, <1>8

LEMMA ExtendsThrough ==
    ASSUME NEW x, NEW p, NEW y, NEW q, NEW z, NEW r, Extends(x, p, y, q), Extends(y, q, z, r)
    PROVE  Extends(x, p, z, r)
BY Zenon DEF Extends

LEMMA VarintAt ==
    ASSUME NEW y \in Data, NEW p \in Nat \ {0}, NEW n \in Nat, n < Huge, Extends(y, p, VarintOf(n), 1)
    PROVE  /\ Len(VarintOf(n)) \in Nat \ {0}
           /\ Varint(y, p).ok /\ Varint(y, p).value = n /\ Varint(y, p).next = p + Len(VarintOf(n))
           /\ Varint(y, p).next \in Nat
<1> DEFINE v == VarintOf(n)
<1>1. IsVarint(v, n)
  BY VarintOfIsRead
<1> HIDE DEF v
<1>2. /\ v \in Data /\ Len(v) \in Nat \ {0}
      /\ Varint(v, 1).ok /\ Varint(v, 1).value = n /\ Varint(v, 1).next = Len(v) + 1
  BY <1>1 DEF IsVarint
<1>3. 1 \in Nat \ {0} /\ Extends(y, p, v, 1)
  BY DEF v
<1>4. Moved(Varint(y, p), p, Varint(v, 1), 1)
  BY <1>2, <1>3, VarintCarries
<1>5. /\ Varint(y, p).ok /\ Varint(y, p).value = n
      /\ Varint(y, p).next - p = (Len(v) + 1) - 1
  BY <1>2, <1>4 DEF Moved
<1>6. Varint(y, p).next \in Nat
  <2>1. \E e : Stops(y, p, e)
    BY <1>5, VarintStops DEF Broken
  <2>2. PICK e : Stops(y, p, e)
    BY <2>1
  <2>3. Varint(y, p) = [ok |-> TRUE, value |-> Bits(y, p, e), next |-> e + 1]
    BY <2>2, VarintStops
  <2> QED
    BY <2>2, <2>3 DEF Stops
<1>7. Varint(y, p).next = p + Len(v)
  BY <1>2, <1>5, <1>6
<1> QED
  BY <1>2, <1>5, <1>6, <1>7 DEF v

\* Bytes that are one field.
LEMMA FieldOnly ==
    ASSUME NEW y \in Data, Field(y, 1).ok, Field(y, 1).next = Len(y) + 1
    PROVE  ReadAs(y, <<Kept(Field(y, 1))>>)
<1>1. Field(y, 1).next \in 1 + 1 .. Len(y) + 1 /\ Kept(Field(y, 1)) \in GoodFields
  BY FieldAdvances
<1>2. Len(y) \in Nat /\ 1 \in 1 .. Len(y) + 1 /\ Len(y) + 1 \in 1 .. Len(y) + 1 /\ ~(1 > Len(y))
  BY <1>1, ByteOf
<1>3. Fields(y)[1] = <<Kept(Field(y, 1))>> \o Fields(y)[Len(y) + 1]
  BY <1>2, FieldsUnfold DEF FieldsAt
<1>4. Fields(y)[Len(y) + 1] = <<>>
  <2>1. Len(y) + 1 > Len(y)
    BY <1>2
  <2>2. Fields(y)[Len(y) + 1] = FieldsAt(y, Fields(y), Len(y) + 1)
    BY <1>2, FieldsUnfold, Zenon
  <2> QED
    BY <2>1, <2>2, Zenon DEF FieldsAt
<1> DEFINE k == Kept(Field(y, 1))
           s == <<k>>
<1>5. k \in GoodFields
  BY <1>1
<1> HIDE DEF k
<1>6. s \in Seq(GoodFields)
  BY <1>5
<1>7. Message(y) = s \o <<>>
  BY <1>3, <1>4 DEF Message, k
<1> HIDE DEF s
<1>8. Message(y) = s
  BY <1>6, <1>7, ConcatEmptySeq
<1> QED
  BY <1>6, <1>8 DEF ReadAs, s, k

KeyNumber(no, type) == 8 * no + type

LEMMA KeyParts ==
    ASSUME NEW no \in 1 .. 1000, NEW type \in 0 .. 7
    PROVE  /\ KeyNumber(no, type) \in Nat /\ KeyNumber(no, type) < Huge /\ ~(KeyNumber(no, type) < 8)
           /\ KeyNumber(no, type) \div 8 = no /\ KeyNumber(no, type) % 8 = type
           /\ Key(no, type) = VarintOf(KeyNumber(no, type))
BY HugeIsNat DEF Key, KeyNumber

\* The key of a field at the start of the bytes, and what comes after it.
LEMMA KeyFirst ==
    ASSUME NEW no \in 1 .. 1000, NEW type \in 0 .. 7, NEW rest \in Data
    PROVE  LET k == Key(no, type)
               y == k \o rest
           IN  /\ k \in Data /\ Len(k) \in Nat \ {0} /\ y \in Data /\ Len(y) = Len(k) + Len(rest)
               /\ Varint(y, 1).ok /\ Varint(y, 1).value = KeyNumber(no, type) /\ Varint(y, 1).next = Len(k) + 1
               /\ Extends(y, Len(k) + 1, rest, 1)
<1> DEFINE n == KeyNumber(no, type)
           k == Key(no, type)
           y == k \o rest
<1>1. n \in Nat /\ n < Huge /\ k = VarintOf(n)
  BY KeyParts, ZenonT(40)
<1>2. IsVarint(VarintOf(n), n)
  <2> HIDE DEF n
  <2> QED
    BY <1>1, VarintOfIsRead
<1>3. k \in Data /\ Len(k) \in Nat \ {0}
  BY <1>1, <1>2 DEF IsVarint
<1>4. /\ y \in Data /\ Len(y) = Len(k) + Len(rest)
      /\ Extends(y, 1, k, 1) /\ Extends(y, Len(k) + 1, rest, 1)
  <2> HIDE DEF k
  <2> QED
    BY <1>3, ConcatExtends
<1>5. /\ Varint(y, 1).ok /\ Varint(y, 1).value = n /\ Varint(y, 1).next = 1 + Len(VarintOf(n))
  <2> HIDE DEF n, y, k
  <2>1. 1 \in Nat \ {0} /\ Extends(y, 1, VarintOf(n), 1)
    BY <1>1, <1>4
  <2> QED
    BY <1>1, <1>4, <2>1, VarintAt
<1>6. 1 + Len(k) = Len(k) + 1
  BY <1>3
<1>7. Varint(y, 1).next = Len(k) + 1
  BY <1>1, <1>5, <1>6, Zenon
<1> QED
  BY <1>3, <1>4, <1>5, <1>7, Zenon

TextIs(no, text) == [ok |-> TRUE, no |-> no, wire |-> 2, value |-> text]
NumberIs(no, n) == [ok |-> TRUE, no |-> no, wire |-> 0, value |-> n]

LEMMA KeptOf ==
    ASSUME NEW f, NEW no, NEW type, NEW v, NEW next,
           f = [ok |-> TRUE, no |-> no, wire |-> type, value |-> v, next |-> next]
    PROVE  /\ f.ok /\ f.next = next
           /\ Kept(f) = [ok |-> TRUE, no |-> no, wire |-> type, value |-> v]
BY DEF Kept

\* Bytes that are a key and a value.
LEMMA FieldWith ==
    ASSUME NEW y \in Data, NEW no \in 1 .. 1000, NEW type \in 0 .. 7, NEW q,
           Varint(y, 1).ok, Varint(y, 1).value = KeyNumber(no, type), Varint(y, 1).next = q,
           Value(y, q, type).ok, Value(y, q, type).next = Len(y) + 1
    PROVE  ReadAs(y, <<[ok |-> TRUE, no |-> no, wire |-> type, value |-> Value(y, q, type).value]>>)
<1> DEFINE key == Varint(y, 1)
           v == Value(y, q, type)
           n == KeyNumber(no, type)
<1>1. ~(n < 8) /\ n \div 8 = no /\ n % 8 = type
  BY KeyParts, ZenonT(40)
<1>2. key.ok /\ key.value = n /\ key.next = q /\ v.ok
  OBVIOUS
<1>3. Field(y, 1) = FieldOf(key, v)
  BY <1>1, <1>2, Zenon DEF Field
<1> HIDE DEF key, v, n
<1>4. Field(y, 1) = [ok |-> TRUE, no |-> no, wire |-> type, value |-> v.value, next |-> v.next]
  <2>1. ~(key.value < 8 \/ ~v.ok)
    BY <1>1, <1>2
  <2>2. FieldOf(key, v) =
          [ok |-> TRUE, no |-> key.value \div 8, wire |-> key.value % 8, value |-> v.value, next |-> v.next]
    BY <2>1, Zenon DEF FieldOf
  <2> QED
    BY <1>1, <1>2, <1>3, <2>2
<1>5. /\ Field(y, 1).ok /\ Field(y, 1).next = v.next
      /\ Kept(Field(y, 1)) = [ok |-> TRUE, no |-> no, wire |-> type, value |-> v.value]
  BY <1>4, KeptOf
<1>6. v.next = Len(y) + 1
  BY DEF v
<1>7. ReadAs(y, <<Kept(Field(y, 1))>>)
  BY <1>5, <1>6, FieldOnly
<1> QED
  BY <1>5, <1>7, Zenon DEF v

LEMMA NumberFieldReads ==
    ASSUME NEW no \in 1 .. 1000, NEW n \in Nat, n < Huge
    PROVE  ReadAs(NumberField(no, n), <<NumberIs(no, n)>>)
<1> DEFINE k == Key(no, 0)
           v == VarintOf(n)
           y == k \o v
           q == Len(k) + 1
<1>1. IsVarint(v, n)
  BY VarintOfIsRead
<1>2. v \in Data /\ Len(v) \in Nat
  BY <1>1 DEF IsVarint
<1> HIDE DEF v
<1>3. 0 \in 0 .. 7
  OBVIOUS
<1>4. /\ k \in Data /\ Len(k) \in Nat \ {0} /\ y \in Data /\ Len(y) = Len(k) + Len(v)
      /\ Varint(y, 1).ok /\ Varint(y, 1).value = KeyNumber(no, 0) /\ Varint(y, 1).next = q
      /\ Extends(y, q, v, 1)
  BY <1>2, <1>3, KeyFirst, ZenonT(40)
<1> HIDE DEF k, y
<1>5. q \in Nat \ {0} /\ q + Len(v) = Len(y) + 1
  BY <1>2, <1>4
<1> HIDE DEF q
<1>6. Varint(y, q).ok /\ Varint(y, q).value = n /\ Varint(y, q).next = Len(y) + 1
  <2>1. Extends(y, q, VarintOf(n), 1)
    BY <1>4 DEF v
  <2>2. Varint(y, q).ok /\ Varint(y, q).value = n /\ Varint(y, q).next = q + Len(VarintOf(n))
    BY <1>4, <1>5, <2>1, VarintAt
  <2> QED
    BY <1>5, <2>2 DEF v
<1>7. Value(y, q, 0) = Varint(y, q)
  BY DEF Value
<1>8. ReadAs(y, <<[ok |-> TRUE, no |-> no, wire |-> 0, value |-> Value(y, q, 0).value]>>)
  <2>1. Value(y, q, 0).ok /\ Value(y, q, 0).next = Len(y) + 1
    BY <1>6, <1>7
  <2> QED
    BY <1>3, <1>4, <2>1, FieldWith, ZenonT(40)
<1>9. [ok |-> TRUE, no |-> no, wire |-> 0, value |-> Value(y, q, 0).value] = NumberIs(no, n)
  BY <1>6, <1>7 DEF NumberIs
<1> QED
  BY <1>8, <1>9, Zenon DEF NumberField, y, k, v

\* Bytes cut from where a given sequence begins.
LEMMA BytesAt ==
    ASSUME NEW y \in Data, NEW q \in Nat \ {0}, NEW text \in Data,
           Extends(y, q, text, 1), q + Len(text) = Len(y) + 1
    PROVE  LET b == Bytes(y, q, Len(text))
           IN  b.ok /\ b.value = text /\ b.next = Len(y) + 1
<1> DEFINE n == Len(text)
           s == SubSeq(y, q, q + n - 1)
<1>1. n \in Nat /\ Len(y) \in Nat /\ q + n - 1 = Len(y) /\ ~(q + n - 1 > Len(y))
  BY ByteOf
<1>2. Bytes(y, q, n) = [ok |-> TRUE, value |-> s, next |-> q + n]
  BY <1>1, Zenon DEF Bytes
<1>3. s \in Data /\ Len(s) = n /\ \A i \in 1 .. n : s[i] = y[q + i - 1]
  <2> DEFINE e == q + n - 1
  <2>1. e = Len(y) /\ q <= Len(y) + 1 /\ e \in Int /\ q \in Int
    BY <1>1
  <2>2. \A i \in q .. e : y[i] \in Nat
    BY <2>1, ByteOf
  <2>3. SubSeq(y, q, e) \in Seq(Nat) /\ Len(SubSeq(y, q, e)) = (IF q <= e THEN e - q + 1 ELSE 0)
        /\ \A i \in 1 .. e - q + 1 : SubSeq(y, q, e)[i] = y[q + i - 1]
    <3> HIDE DEF e
    <3> QED
      BY <2>1, <2>2, SubSeqProperties DEF Data
  <2>4. (IF q <= e THEN e - q + 1 ELSE 0) = n /\ e - q + 1 = n
    BY <1>1, <2>1
  <2> QED
    BY <2>3, <2>4 DEF Data
<1>4. \A i \in 1 .. n : y[q + i - 1] = text[i]
  <2>1. ASSUME NEW i \in 1 .. n PROVE y[q + i - 1] = text[i]
    <3>1. i - 1 \in Nat /\ 1 + (i - 1) <= n /\ q + (i - 1) = q + i - 1 /\ 1 + (i - 1) = i
      BY <1>1
    <3>2. y[q + (i - 1)] = text[1 + (i - 1)]
      BY <3>1, Zenon DEF Extends
    <3> QED
      BY <3>1, <3>2
  <2> QED
    BY <2>1
<1>5. s = text
  <2> HIDE DEF s
  <2>1. Len(s) = Len(text) /\ \A i \in 1 .. Len(s) : s[i] = text[i]
    BY <1>3, <1>4
  <2> QED
    BY <1>3, <2>1, SeqEqual DEF Data
<1> QED
  BY <1>2, <1>5

LEMMA TextFieldReads ==
    ASSUME NEW no \in 1 .. 1000, NEW text \in Data, Len(text) < Huge
    PROVE  ReadAs(TextField(no, text), <<TextIs(no, text)>>)
<1> DEFINE k == Key(no, 2)
           n == Len(text)
           v == VarintOf(n)
           rest == v \o text
           y == k \o rest
           q == Len(k) + 1
           r == q + Len(v)
<1>1. n \in Nat
  BY ByteOf
<1>2. IsVarint(v, n)
  <2> HIDE DEF n
  <2> QED
    BY <1>1, VarintOfIsRead DEF n
<1>3. v \in Data /\ Len(v) \in Nat
  BY <1>2 DEF IsVarint
<1> HIDE DEF v
<1>4. /\ rest \in Data /\ Len(rest) = Len(v) + n
      /\ Extends(rest, 1, v, 1) /\ Extends(rest, Len(v) + 1, text, 1)
  BY <1>3, ConcatExtends
<1> HIDE DEF rest
<1>5. 2 \in 0 .. 7
  OBVIOUS
<1>6. /\ k \in Data /\ Len(k) \in Nat \ {0} /\ y \in Data /\ Len(y) = Len(k) + Len(rest)
      /\ Varint(y, 1).ok /\ Varint(y, 1).value = KeyNumber(no, 2) /\ Varint(y, 1).next = q
      /\ Extends(y, q, rest, 1)
  BY <1>4, <1>5, KeyFirst, ZenonT(40)
<1>7. TextField(no, text) = y
  <2>1. TextField(no, text) = (k \o v) \o text
    BY DEF TextField, v
  <2> HIDE DEF k
  <2>2. (k \o v) \o text = k \o (v \o text)
    <3>1. k \in Data /\ v \in Data /\ Regroups(Nat)
      BY <1>3, <1>6, RegroupsAll
    <3> QED
      BY <3>1, ZenonT(40) DEF Regroups, Data
  <2> QED
    BY <2>1, <2>2 DEF rest
<1> HIDE DEF k, y
<1>8. q \in Nat \ {0} /\ r \in Nat \ {0} /\ r + n = Len(y) + 1
  BY <1>1, <1>3, <1>4, <1>6
<1>9. Extends(y, q, v, 1) /\ Extends(y, r, text, 1)
  <2>1. Extends(y, q, v, 1)
    BY <1>4, <1>6, ExtendsThrough
  <2>2. Extends(y, r, rest, 1 + Len(v)) /\ 1 + Len(v) = Len(v) + 1
    <3> HIDE DEF q
    <3>1. q \in Nat /\ 1 \in Nat /\ Len(v) \in Nat
      BY <1>3, <1>8
    <3>2. Extends(y, q + Len(v), rest, 1 + Len(v))
      BY <1>6, <3>1, ExtendsOn, ZenonT(40)
    <3> QED
      BY <3>1, <3>2
  <2> HIDE DEF r
  <2>3. Extends(y, r, rest, Len(v) + 1)
    BY <2>2, Zenon
  <2> QED
    BY <1>4, <2>1, <2>3, ExtendsThrough
<1> HIDE DEF q, r
<1>10. Varint(y, q).ok /\ Varint(y, q).value = n /\ Varint(y, q).next = r
  <2>1. Extends(y, q, VarintOf(n), 1)
    BY <1>9 DEF v
  <2> HIDE DEF n
  <2>2. Varint(y, q).ok /\ Varint(y, q).value = n /\ Varint(y, q).next = q + Len(VarintOf(n))
    <3>1. n < Huge
      BY DEF n
    <3> QED
      BY <1>1, <1>6, <1>8, <2>1, <3>1, VarintAt
  <2> QED
    BY <2>2 DEF r, v
<1>11. Value(y, q, 2) = Bytes(y, r, n)
  <2>1. Value(y, q, 2) = Prefixed(y, Varint(y, q))
    BY DEF Value
  <2> HIDE DEF n
  <2> QED
    BY <1>10, <2>1, Zenon DEF Prefixed
<1>12. Bytes(y, r, n).ok /\ Bytes(y, r, n).value = text /\ Bytes(y, r, n).next = Len(y) + 1
  BY <1>6, <1>8, <1>9, BytesAt, ZenonT(40)
<1>13. ReadAs(y, <<[ok |-> TRUE, no |-> no, wire |-> 2, value |-> Value(y, q, 2).value]>>)
  <2>1. Value(y, q, 2).ok /\ Value(y, q, 2).next = Len(y) + 1
    BY <1>11, <1>12
  <2> QED
    BY <1>5, <1>6, <2>1, FieldWith, ZenonT(40)
<1>14. [ok |-> TRUE, no |-> no, wire |-> 2, value |-> Value(y, q, 2).value] = TextIs(no, text)
  BY <1>11, <1>12 DEF TextIs
<1> QED
  BY <1>7, <1>13, <1>14, Zenon

LEMMA FixedFieldReads ==
    ASSUME NEW no \in 1 .. 1000, NEW type \in {1, 5}, NEW text \in Data,
           Len(text) = IF type = 1 THEN 8 ELSE 4
    PROVE  ReadAs(Key(no, type) \o text, <<[ok |-> TRUE, no |-> no, wire |-> type, value |-> text]>>)
<1> DEFINE k == Key(no, type)
           y == k \o text
           q == Len(k) + 1
<1>1. type \in 0 .. 7
  OBVIOUS
<1>2. /\ k \in Data /\ Len(k) \in Nat \ {0} /\ y \in Data /\ Len(y) = Len(k) + Len(text)
      /\ Varint(y, 1).ok /\ Varint(y, 1).value = KeyNumber(no, type) /\ Varint(y, 1).next = q
      /\ Extends(y, q, text, 1)
  BY <1>1, KeyFirst, ZenonT(40)
<1> HIDE DEF k, y
<1>3. q \in Nat \ {0} /\ q + Len(text) = Len(y) + 1
  BY <1>2
<1> HIDE DEF q
<1>4. /\ Bytes(y, q, Len(text)).ok /\ Bytes(y, q, Len(text)).value = text
      /\ Bytes(y, q, Len(text)).next = Len(y) + 1
  <2>1. y \in Data /\ q \in Nat \ {0} /\ Extends(y, q, text, 1) /\ q + Len(text) = Len(y) + 1
    BY <1>2, <1>3
  <2> QED
    BY <2>1, BytesAt, Zenon
<1>5. Value(y, q, type) = Bytes(y, q, Len(text))
  <2>1. CASE type = 1
    BY <2>1 DEF Value
  <2>2. CASE type = 5
    BY <2>2 DEF Value
  <2> QED
    BY <2>1, <2>2
<1>6. Value(y, q, type).ok /\ Value(y, q, type).next = Len(y) + 1 /\ Value(y, q, type).value = text
  BY <1>4, <1>5, Zenon
<1>7. ReadAs(y, <<[ok |-> TRUE, no |-> no, wire |-> type, value |-> Value(y, q, type).value]>>)
  BY <1>1, <1>2, <1>6, FieldWith, ZenonT(40)
<1> QED
  BY <1>6, <1>7, Zenon DEF y, k

\* What is found under a number in bytes that can be read; and that there is no field of it.
Shows(data, no, x) == data \in Data /\ Readable(Message(data)) /\ Found(Message(data), no) = x
Absent(data, no) == data \in Data /\ Readable(Message(data)) /\ Lacks(Message(data), no)

LEMMA ShowsInConcat ==
    ASSUME NEW a, NEW b, NEW no
    PROVE  /\ \A x : Shows(a, no, x) /\ Absent(b, no) => Shows(a \o b, no, x)
           /\ \A x : Absent(a, no) /\ Shows(b, no, x) => Shows(a \o b, no, x)
           /\ Absent(a, no) /\ Absent(b, no) => Absent(a \o b, no)
<1> SUFFICES ASSUME a \in Data, Readable(Message(a)), b \in Data, Readable(Message(b))
             PROVE  /\ \A x : Shows(a, no, x) /\ Absent(b, no) => Shows(a \o b, no, x)
                    /\ \A x : Absent(a, no) /\ Shows(b, no, x) => Shows(a \o b, no, x)
                    /\ Absent(a, no) /\ Absent(b, no) => Absent(a \o b, no)
  BY Zenon DEF Shows, Absent
<1> DEFINE m == Message(a)
           n == Message(b)
<1>1. m \in Seq(GoodFields) /\ n \in Seq(GoodFields)
  BY MessageShape
<1>2. a \o b \in Data /\ Message(a \o b) = m \o n
  BY ConcatExtends, MessageOfConcat
<1> HIDE DEF m, n
<1>3. Readable(m \o n)
  <2>1. m \o n \in Seq(GoodFields)
    BY <1>1, ConcatProperties
  <2> QED
    BY <2>1, ReadableMeans
<1>4. /\ Lacks(n, no) => Found(m \o n, no) = Found(m, no)
      /\ Lacks(m, no) => Found(m \o n, no) = Found(n, no)
      /\ Lacks(m \o n, no) <=> Lacks(m, no) /\ Lacks(n, no)
  BY <1>1, FoundInConcat
<1>5. /\ \A x : Shows(a, no, x) => Found(m, no) = x
      /\ \A x : Shows(b, no, x) => Found(n, no) = x
      /\ Absent(a, no) => Lacks(m, no)
      /\ Absent(b, no) => Lacks(n, no)
  BY Zenon DEF Shows, Absent, m, n
<1>6. \A x : Found(m \o n, no) = x => Shows(a \o b, no, x)
  BY <1>2, <1>3, Zenon DEF Shows
<1>7. Lacks(m \o n, no) => Absent(a \o b, no)
  BY <1>2, <1>3, Zenon DEF Absent
<1> QED
  BY <1>4, <1>5, <1>6, <1>7, Zenon

\* One field.
LEMMA OneShows ==
    ASSUME NEW data, NEW f, ReadAs(data, <<f>>)
    PROVE  /\ data \in Data
           /\ Shows(data, f.no, Found(<<f>>, f.no))
           /\ Latest(<<f>>, f.no) = f
           /\ f.wire = 2 => Found(<<f>>, f.no) = <<f, <<Message(f.value)>> >>
           /\ \A no : no # f.no => Absent(data, no)
<1> DEFINE s == <<f>>
<1>1. data \in Data /\ s \in Seq(GoodFields) /\ Message(data) = s /\ Readable(Message(data))
  BY ReadsAsMessage
<1>2. f \in GoodFields
  <2>1. f = s[1] /\ 1 \in 1 .. Len(s)
    OBVIOUS
  <2> HIDE DEF s
  <2> QED
    BY <1>1, <2>1, ElementOfSeq
<1>3. /\ \A no : f.no # no => Lacks(<<f>>, no)
      /\ f.wire = 2 => Found(<<f>>, f.no) = <<f, <<Message(f.value)>> >>
      /\ Latest(<<f>>, f.no) = f
  BY <1>2, FoundInOne
<1> QED
  BY <1>1, <1>3, Zenon DEF Shows, Absent

Known == {1, 2, 3, 4, 5, 6, 301, 303, 313, 314}

\* A field nobody knows is absent under every number the program asks for.
LEMMA UnknownIsAbsent ==
    ASSUME NEW more \in Unknown \cup {<<>>}
    PROVE  more \in Data /\ \A no \in Known : Absent(more, no)
<1>1. ASSUME NEW f, ReadAs(more, <<f>>), f.no \notin Known
      PROVE  more \in Data /\ \A no \in Known : Absent(more, no)
  BY <1>1, OneShows, ZenonT(40)
<1>2. CASE more = <<>>
  <2>1. ReadAs(<<>>, <<>>)
    BY ReadsAsNothing
  <2>2. <<>> \in Data /\ Readable(Message(<<>>)) /\ Message(<<>>) = <<>>
    BY <2>1, ReadsAsMessage
  <2>3. \A no : Lacks(<<>>, no)
    BY DEF Lacks
  <2> QED
    BY <1>2, <2>2, <2>3, Zenon DEF Absent
<1>3. CASE more = NumberField(42, 300)
  <2>1. 42 \in 1 .. 1000 /\ 300 \in Nat /\ 300 < Huge
    BY HugeIsNat
  <2>2. ReadAs(more, <<NumberIs(42, 300)>>)
    BY <1>3, <2>1, NumberFieldReads, ZenonT(40)
  <2>3. NumberIs(42, 300).no \notin Known
    BY DEF NumberIs, Known
  <2> QED
    BY <1>1, <2>2, <2>3
<1>4. CASE more = Key(43, 1) \o <<10, 1, 57, 18, 1, 57, 24, 1>>
  <2> DEFINE text == <<10, 1, 57, 18, 1, 57, 24, 1>>
             f == [ok |-> TRUE, no |-> 43, wire |-> 1, value |-> text]
  <2>1. 43 \in 1 .. 1000 /\ 1 \in {1, 5} /\ text \in Data /\ Len(text) = IF 1 = 1 THEN 8 ELSE 4
    BY DEF Data
  <2>2. f.no \notin Known
    BY DEF Known
  <2>3. ReadAs(Key(43, 1) \o text, <<f>>)
    <3> HIDE DEF text
    <3> QED
      BY <2>1, FixedFieldReads, ZenonT(40)
  <2> QED
    BY <1>1, <1>4, <2>2, <2>3
<1>5. CASE more = TextField(44, TextField(1, Digit(9)))
  <2> DEFINE text == TextField(1, Digit(9))
             f == TextIs(44, text)
  <2>1. 44 \in 1 .. 1000 /\ text \in Data /\ Len(text) < Huge
    <3>1. VarintOf(8 * 1 + 2) = <<10>> /\ VarintOf(1) = <<1>>
      BY DEF VarintOf
    <3>2. Digit(9) = <<57>> /\ Len(Digit(9)) = 1
      BY DEF Digit
    <3>3. text = (<<10>> \o <<1>>) \o <<57>>
      BY <3>1, <3>2, Zenon DEF TextField, Key
    <3>4. <<10>> \in Data /\ <<1>> \in Data /\ <<57>> \in Data
      BY DEF Data
    <3>5. <<10>> \o <<1>> \in Data /\ Len(<<10>> \o <<1>>) = 2
      BY <3>4, ConcatExtends
    <3> DEFINE s == <<10>> \o <<1>>
    <3> HIDE DEF s
    <3> DEFINE t == <<57>>
    <3>6. s \in Data /\ Len(s) = 2 /\ t \in Data /\ Len(t) = 1 /\ text = s \o t
      BY <3>3, <3>4, <3>5 DEF s
    <3> HIDE DEF text, t
    <3>7. text \in Data /\ Len(text) = Len(s) + Len(t)
      BY <3>6, ConcatExtends, Zenon
    <3> QED
      BY <3>6, <3>7, HugeIsNat
  <2> HIDE DEF text
  <2>3. f.no \notin Known
    BY DEF Known, TextIs
  <2>4. ReadAs(TextField(44, text), <<f>>)
    BY <2>1, TextFieldReads, ZenonT(40)
  <2> QED
    BY <1>1, <1>5, <2>3, <2>4 DEF text
<1>6. CASE more = Key(45, 5) \o <<10, 1, 57, 16>>
  <2> DEFINE text == <<10, 1, 57, 16>>
             f == [ok |-> TRUE, no |-> 45, wire |-> 5, value |-> text]
  <2>1. 45 \in 1 .. 1000 /\ 5 \in {1, 5} /\ text \in Data /\ Len(text) = IF 5 = 1 THEN 8 ELSE 4
    BY DEF Data
  <2>2. f.no \notin Known
    BY DEF Known
  <2>3. ReadAs(Key(45, 5) \o text, <<f>>)
    <3> HIDE DEF text
    <3> QED
      BY <2>1, FixedFieldReads, ZenonT(40)
  <2> QED
    BY <1>1, <1>6, <2>2, <2>3
<1> QED
  BY <1>2, <1>3, <1>4, <1>5, <1>6, Zenon DEF Unknown

LEMMA SpotIsAbsent ==
    ASSUME NEW more \in Unknown \cup {<<>>}, NEW place, NEW here
    PROVE  Spot(place, here, more) \in Data /\ \A no \in Known : Absent(Spot(place, here, more), no)
<1>1. Spot(place, here, more) \in Unknown \cup {<<>>}
  BY DEF Spot
<1> QED
  BY <1>1, UnknownIsAbsent

TextFound(no, text) == <<TextIs(no, text), <<Message(text)>> >>

LEMMA TextShows ==
    ASSUME NEW no \in 1 .. 1000, NEW text \in Data, Len(text) < Huge
    PROVE  /\ TextField(no, text) \in Data
           /\ Shows(TextField(no, text), no, TextFound(no, text))
           /\ \A m : m # no => Absent(TextField(no, text), m)
<1> DEFINE f == TextIs(no, text)
<1>1. ReadAs(TextField(no, text), <<f>>)
  BY TextFieldReads, ZenonT(40)
<1>2. f.no = no /\ f.wire = 2 /\ f.value = text
  BY DEF TextIs
<1> HIDE DEF f
<1>3. /\ TextField(no, text) \in Data
      /\ Shows(TextField(no, text), f.no, Found(<<f>>, f.no))
      /\ f.wire = 2 => Found(<<f>>, f.no) = <<f, <<Message(f.value)>> >>
      /\ \A m : m # f.no => Absent(TextField(no, text), m)
  BY <1>1, OneShows, ZenonT(40)
<1> QED
  BY <1>2, <1>3, Zenon DEF f, TextFound

NumberFound(no, n) == Found(<<NumberIs(no, n)>>, no)

LEMMA NumberShows ==
    ASSUME NEW no \in 1 .. 1000, NEW n \in Nat, n < Huge
    PROVE  /\ NumberField(no, n) \in Data
           /\ Shows(NumberField(no, n), no, NumberFound(no, n))
           /\ NumberFound(no, n)[1] = NumberIs(no, n)
           /\ \A m : m # no => Absent(NumberField(no, n), m)
<1> DEFINE f == NumberIs(no, n)
<1>1. ReadAs(NumberField(no, n), <<f>>)
  BY NumberFieldReads, ZenonT(40)
<1>2. f.no = no
  BY DEF NumberIs
<1> HIDE DEF f
<1>3. /\ NumberField(no, n) \in Data
      /\ Shows(NumberField(no, n), f.no, Found(<<f>>, f.no))
      /\ Latest(<<f>>, f.no) = f
      /\ \A m : m # f.no => Absent(NumberField(no, n), m)
  BY <1>1, OneShows, Zenon
<1>4. Found(<<f>>, f.no)[1] = Latest(<<f>>, f.no)
  BY DEF Found
<1> QED
  BY <1>2, <1>3, <1>4, Zenon DEF f, NumberFound

\* What the accessors give for what is found.
LEMMA AccessText ==
    ASSUME NEW data, NEW no, NEW text, Shows(data, no, TextFound(no, text))
    PROVE  /\ Readable(Message(data)) /\ data \in Data
           /\ Text(Message(data), no) = text
           /\ Submessages(Message(data), no) = <<Message(text)>>
<1>1. /\ Readable(Message(data)) /\ data \in Data
      /\ <<Latest(Message(data), no), Submessages(Message(data), no)>> = <<TextIs(no, text), <<Message(text)>> >>
  BY Zenon DEF Shows, TextFound, Found
<1>2. Latest(Message(data), no) = TextIs(no, text) /\ Submessages(Message(data), no) = <<Message(text)>>
  BY <1>1
<1>3. TextIs(no, text).ok /\ TextIs(no, text).wire = 2 /\ TextIs(no, text).value = text
  BY DEF TextIs
<1> QED
  BY <1>1, <1>2, <1>3, Zenon DEF Text

LEMMA AccessNumber ==
    ASSUME NEW data, NEW no, NEW n, Shows(data, no, NumberFound(no, n)),
           NumberFound(no, n)[1] = NumberIs(no, n)
    PROVE  Number(Message(data), no) = n
<1>1. Latest(Message(data), no) = NumberIs(no, n)
  <2>1. <<Latest(Message(data), no), Submessages(Message(data), no)>> = NumberFound(no, n)
    BY Zenon DEF Shows, Found
  <2>2. NumberFound(no, n)[1] = Latest(Message(data), no)
    BY <2>1
  <2> QED
    BY <2>2, Zenon
<1>2. NumberIs(no, n).ok /\ ~(NumberIs(no, n).wire = 2) /\ NumberIs(no, n).value = n
  BY DEF NumberIs
<1> QED
  BY <1>1, <1>2, Zenon DEF Number

LEMMA AccessAbsent ==
    ASSUME NEW data, NEW no, Absent(data, no)
    PROVE  Text(Message(data), no) = None /\ Submessages(Message(data), no) = <<>>
<1>1. data \in Data /\ Readable(Message(data)) /\ Lacks(Message(data), no)
  BY DEF Absent
<1>2. Message(data) \in Seq(GoodFields)
  BY <1>1, MessageShape
<1>3. Latest(Message(data), no) = Broken /\ Submessages(Message(data), no) = <<>>
  BY <1>1, <1>2, LatestAt, SubmessagesLacking
<1> QED
  BY <1>3 DEF Text, Broken

LEMMA DigitIsData ==
    ASSUME NEW n \in Nat
    PROVE  /\ Digit(n) \in Data /\ Len(Digit(n)) = 1 /\ Len(Digit(n)) < Huge
           /\ DigitOf(Digit(n)) = n /\ Digit(n) # None
BY HugeIsNat DEF Digit, DigitOf, None, Data

\* The bytes of a level and of a deal, inside the item.
LevelBytes(p, q, more, place) ==
    (TextField(1, Digit(p)) \o TextField(2, Digit(q))) \o Spot(place, "item", more)

LEMMA LevelReads ==
    ASSUME NEW p \in Nat, NEW q \in Nat, NEW more \in Unknown \cup {<<>>}, NEW place
    PROVE  /\ LevelBytes(p, q, more, place) \in Data
           /\ Readable(Message(LevelBytes(p, q, more, place)))
           /\ Text(Message(LevelBytes(p, q, more, place)), 1) = Digit(p)
           /\ Text(Message(LevelBytes(p, q, more, place)), 2) = Digit(q)
<1> DEFINE a == TextField(1, Digit(p))
           b == TextField(2, Digit(q))
           u == Spot(place, "item", more)
           ab == a \o b
           all == ab \o u
<1>1. /\ Shows(a, 1, TextFound(1, Digit(p))) /\ Absent(a, 2)
      /\ Shows(b, 2, TextFound(2, Digit(q))) /\ Absent(b, 1)
  <2>1. /\ 1 \in 1 .. 1000 /\ 2 \in 1 .. 1000 /\ 1 # 2
        /\ Digit(p) \in Data /\ Len(Digit(p)) < Huge
        /\ Digit(q) \in Data /\ Len(Digit(q)) < Huge
    BY DigitIsData
  <2> QED
    BY <2>1, TextShows, ZenonT(40)
<1>2. Absent(u, 1) /\ Absent(u, 2)
  BY SpotIsAbsent DEF Known
<1> HIDE DEF a, b, u
<1>3. Shows(ab, 1, TextFound(1, Digit(p))) /\ Shows(ab, 2, TextFound(2, Digit(q)))
  BY <1>1, ShowsInConcat, Zenon
<1> HIDE DEF ab
<1>4. Shows(all, 1, TextFound(1, Digit(p))) /\ Shows(all, 2, TextFound(2, Digit(q)))
  BY <1>2, <1>3, ShowsInConcat, Zenon
<1>5. all = LevelBytes(p, q, more, place)
  BY DEF LevelBytes, ab, a, b, u
<1> HIDE DEF all
<1> QED
  BY <1>4, <1>5, AccessText, Zenon

LEMMA DigitShows ==
    ASSUME NEW no \in 1 .. 1000, NEW n \in Nat
    PROVE  /\ TextField(no, Digit(n)) \in Data
           /\ Shows(TextField(no, Digit(n)), no, TextFound(no, Digit(n)))
           /\ \A m : m # no => Absent(TextField(no, Digit(n)), m)
<1>1. Digit(n) \in Data /\ Len(Digit(n)) < Huge
  BY DigitIsData
<1> QED
  BY <1>1, TextShows, ZenonT(40)

DealBytes(e, more, place) ==
    ((((TextField(1, Digit(1)) \o TextField(2, Digit(1))) \o NumberField(3, e.trade_type))
        \o NumberField(4, 300)) \o TextField(5, Digit(e.id))) \o Spot(place, "item", more)

LEMMA DealReads ==
    ASSUME NEW e, e.trade_type \in {1, 2}, e.id \in Nat, NEW more \in Unknown \cup {<<>>}, NEW place
    PROVE  /\ DealBytes(e, more, place) \in Data
           /\ Readable(Message(DealBytes(e, more, place)))
           /\ Text(Message(DealBytes(e, more, place)), 1) = Digit(1)
           /\ Text(Message(DealBytes(e, more, place)), 2) = Digit(1)
           /\ Number(Message(DealBytes(e, more, place)), 3) = e.trade_type
           /\ Text(Message(DealBytes(e, more, place)), 5) = Digit(e.id)
<1> DEFINE a == TextField(1, Digit(1))
           b == TextField(2, Digit(1))
           c == NumberField(3, e.trade_type)
           d == NumberField(4, 300)
           t == TextField(5, Digit(e.id))
           u == Spot(place, "item", more)
           x1 == TextFound(1, Digit(1))
           x2 == TextFound(2, Digit(1))
           x3 == NumberFound(3, e.trade_type)
           x5 == TextFound(5, Digit(e.id))
<1>1. /\ Shows(a, 1, x1) /\ Absent(a, 2) /\ Absent(a, 3) /\ Absent(a, 5)
      /\ Shows(b, 2, x2) /\ Absent(b, 1) /\ Absent(b, 3) /\ Absent(b, 5)
      /\ Shows(t, 5, x5) /\ Absent(t, 1) /\ Absent(t, 2) /\ Absent(t, 3)
  <2>1. Shows(a, 1, x1) /\ \A m : m # 1 => Absent(a, m)
    <3>1. 1 \in 1 .. 1000 /\ 1 \in Nat
      OBVIOUS
    <3> QED
      BY <3>1, DigitShows, ZenonT(40)
  <2>2. Shows(b, 2, x2) /\ \A m : m # 2 => Absent(b, m)
    <3>1. 2 \in 1 .. 1000 /\ 1 \in Nat
      OBVIOUS
    <3> QED
      BY <3>1, DigitShows, ZenonT(40)
  <2>3. Shows(t, 5, x5) /\ \A m : m # 5 => Absent(t, m)
    <3>1. 5 \in 1 .. 1000 /\ e.id \in Nat
      OBVIOUS
    <3> QED
      BY <3>1, DigitShows, ZenonT(40)
  <2> HIDE DEF a, b, t, x1, x2, x5
  <2> QED
    BY <2>1, <2>2, <2>3
<1>2. /\ Shows(c, 3, x3) /\ Absent(c, 1) /\ Absent(c, 2) /\ Absent(c, 5)
      /\ Absent(d, 1) /\ Absent(d, 2) /\ Absent(d, 3) /\ Absent(d, 5)
      /\ x3[1] = NumberIs(3, e.trade_type)
  <2>1. Shows(c, 3, x3) /\ x3[1] = NumberIs(3, e.trade_type) /\ \A m : m # 3 => Absent(c, m)
    <3>1. 3 \in 1 .. 1000 /\ e.trade_type \in Nat /\ e.trade_type < Huge
      BY HugeIsNat
    <3> QED
      BY <3>1, NumberShows, ZenonT(40)
  <2>2. \A m : m # 4 => Absent(d, m)
    <3>1. 4 \in 1 .. 1000 /\ 300 \in Nat /\ 300 < Huge
      BY HugeIsNat
    <3> QED
      BY <3>1, NumberShows, ZenonT(40)
  <2> HIDE DEF c, d, x3
  <2> QED
    BY <2>1, <2>2
<1>3. Absent(u, 1) /\ Absent(u, 2) /\ Absent(u, 3) /\ Absent(u, 5)
  BY SpotIsAbsent DEF Known
<1> DEFINE y == a \o b
           z == y \o c
           v == z \o d
           w == v \o t
           all == w \o u
<1> HIDE DEF a, b, c, d, t, u, x1, x2, x3, x5
<1>4. Shows(y, 1, x1) /\ Shows(y, 2, x2) /\ Absent(y, 3) /\ Absent(y, 5)
  BY <1>1, ShowsInConcat, Zenon
<1> HIDE DEF y
<1>5. Shows(z, 1, x1) /\ Shows(z, 2, x2) /\ Shows(z, 3, x3) /\ Absent(z, 5)
  BY <1>2, <1>4, ShowsInConcat, Zenon
<1> HIDE DEF z
<1>6. Shows(v, 1, x1) /\ Shows(v, 2, x2) /\ Shows(v, 3, x3) /\ Absent(v, 5)
  BY <1>2, <1>5, ShowsInConcat, Zenon
<1> HIDE DEF v
<1>7. Shows(w, 1, x1) /\ Shows(w, 2, x2) /\ Shows(w, 3, x3) /\ Shows(w, 5, x5)
  BY <1>1, <1>6, ShowsInConcat, Zenon
<1> HIDE DEF w
<1>8. Shows(all, 1, x1) /\ Shows(all, 2, x2) /\ Shows(all, 3, x3) /\ Shows(all, 5, x5)
  BY <1>3, <1>7, ShowsInConcat, Zenon
<1>9. all = DealBytes(e, more, place)
  BY DEF DealBytes, w, v, z, y, a, b, c, d, t, u
<1> HIDE DEF all
<1>10. /\ all \in Data /\ Readable(Message(all))
       /\ Text(Message(all), 1) = Digit(1) /\ Text(Message(all), 2) = Digit(1)
       /\ Text(Message(all), 5) = Digit(e.id)
  BY <1>8, AccessText, Zenon DEF x1, x2, x5
<1>11. Number(Message(all), 3) = e.trade_type
  BY <1>2, <1>8, AccessNumber, Zenon DEF x3
<1> QED
  BY <1>9, <1>10, <1>11, Zenon

LEMMA SeqOfFunction ==
    ASSUME NEW n \in Nat, NEW S, NEW s \in [1 .. n -> S]
    PROVE  s \in Seq(S) /\ Len(s) = n
<1>1. s \in Seq(S)
  BY SeqDef
<1> QED
  BY <1>1, LenProperties

\* Items one after the other.
LEMMA ItemsRead ==
    ASSUME NEW n \in Nat, NEW inner \in [1 .. n -> Data], \A i \in 1 .. n : Len(inner[i]) < Huge,
           NEW parts, parts = [i \in 1 .. n |-> TextField(1, inner[i])]
    PROVE  /\ FlattenSeq(parts) \in Data /\ Readable(Message(FlattenSeq(parts)))
           /\ \A no : no # 1 => Absent(FlattenSeq(parts), no)
           /\ Submessages(Message(FlattenSeq(parts)), 1) = [i \in 1 .. n |-> Message(inner[i])]
<1> DEFINE s == [i \in 1 .. n |-> TextIs(1, inner[i])]
           msgs == [i \in 1 .. n |-> <<TextIs(1, inner[i])>>]
           subs == [i \in 1 .. n |-> Message(inner[i])]
           flat == FlattenSeq(parts)
<1>1. ASSUME NEW i \in 1 .. n
      PROVE  ReadAs(TextField(1, inner[i]), <<TextIs(1, inner[i])>>)
  <2>1. 1 \in 1 .. 1000 /\ inner[i] \in Data /\ Len(inner[i]) < Huge
    OBVIOUS
  <2> QED
    BY <2>1, TextFieldReads, ZenonT(40)
<1>2. ASSUME NEW i \in 1 .. n
      PROVE  /\ parts[i] \in Data /\ Readable(Message(parts[i])) /\ Message(parts[i]) = msgs[i]
             /\ msgs[i] \in Seq(GoodFields) /\ msgs[i] = <<s[i]>> /\ s[i] \in GoodFields
             /\ subs[i] \in Seq(AllFields) /\ subs[i] = Message(s[i].value)
             /\ s[i].no = 1 /\ s[i].wire = 2
  <2> DEFINE d == TextField(1, inner[i])
             f == TextIs(1, inner[i])
  <2>1. parts[i] = d /\ msgs[i] = <<f>> /\ s[i] = f /\ subs[i] = Message(inner[i])
    OBVIOUS
  <2>2. ReadAs(d, <<f>>)
    BY <1>1
  <2>3. f.no = 1 /\ f.wire = 2 /\ f.value = inner[i]
    BY DEF TextIs
  <2>4. Message(inner[i]) \in Seq(AllFields)
    <3>1. inner[i] \in Data
      OBVIOUS
    <3> QED
      BY <3>1, MessageShape
  <2> HIDE DEF d, f
  <2>5. d \in Data /\ Readable(Message(d)) /\ Message(d) = <<f>> /\ <<f>> \in Seq(GoodFields)
    BY <2>2, ReadsAsMessage, Zenon
  <2>6. f \in GoodFields
    <3> DEFINE fs == <<f>>
    <3>1. fs \in Seq(GoodFields) /\ f = fs[1] /\ 1 \in 1 .. Len(fs)
      BY <2>5
    <3> HIDE DEF fs
    <3> QED
      BY <3>1, ElementOfSeq
  <2> HIDE DEF msgs, s, subs
  <2> QED
    BY <2>1, <2>3, <2>4, <2>5, <2>6, Zenon
<1>3. DOMAIN parts = 1 .. n /\ DOMAIN msgs = 1 .. n /\ DOMAIN s = 1 .. n /\ DOMAIN subs = 1 .. n
  OBVIOUS
<1>4. /\ parts \in [1 .. n -> Data] /\ msgs \in [1 .. n -> Seq(GoodFields)]
      /\ s \in [1 .. n -> GoodFields] /\ subs \in [1 .. n -> Seq(AllFields)]
  BY <1>2
<1>5. /\ parts \in Seq(Data) /\ msgs \in Seq(Seq(GoodFields))
      /\ s \in Seq(GoodFields) /\ subs \in Seq(Seq(AllFields))
      /\ Len(parts) = n /\ Len(msgs) = n /\ Len(s) = n /\ Len(subs) = n
  BY <1>4, SeqOfFunction
<1> HIDE DEF s, msgs, subs
<1>6. flat \in Data /\ Message(flat) = FlattenSeq(msgs)
  <2>1. /\ \A i \in 1 .. Len(parts) : Readable(Message(parts[i])) /\ msgs[i] = Message(parts[i])
        /\ Len(msgs) = Len(parts)
    BY <1>2, <1>5, Zenon
  <2> QED
    BY <1>5, <2>1, MessageOfParts, Zenon
<1>7. FlattenSeq(msgs) = s
  <2>1. Len(msgs) = Len(s) /\ \A i \in 1 .. Len(s) : msgs[i] = <<s[i]>>
    BY <1>2, <1>5, Zenon
  <2> QED
    BY <1>5, <2>1, FlattenSingles
<1>8. Readable(s) /\ \A no : no # 1 => Lacks(s, no)
  <2>1. DOMAIN s = 1 .. n
    BY <1>5, LenProperties
  <2> QED
    BY <1>2, <1>5, <2>1, ReadableMeans DEF Lacks
<1>9. Submessages(s, 1) = subs
  <2>1. /\ \A i \in 1 .. Len(s) : s[i].no = 1 /\ s[i].wire = 2 /\ subs[i] = Message(s[i].value)
        /\ Len(subs) = Len(s)
    BY <1>2, <1>5, Zenon
  <2> QED
    BY <1>5, <2>1, SubmessagesOfAll, Zenon
<1> QED
  BY <1>6, <1>7, <1>8, <1>9, Zenon DEF Absent, subs

LEMMA VarintOfIsData ==
    ASSUME NEW n \in Nat
    PROVE  VarintOf(n) \in Data
<1> DEFINE a == n % 128
           r == n \div 128
           b == r % 128
           s == r \div 128
           c == s % 128
           d == s \div 128
<1>1. a \in Nat /\ r \in Nat
  BY Remainders
<1>2. b \in Nat /\ s \in Nat
  BY <1>1, Remainders
<1>3. c \in Nat /\ d \in Nat
  BY <1>2, Remainders
<1>4. VarintOf(n) \in {<<n>>, <<128 + a, r>>, <<128 + a, 128 + b, s>>, <<128 + a, 128 + b, 128 + c, d>>}
  <2>1. VarintOf(n) = CASE n < 128 -> <<n>>
                        [] n >= 128 /\ r < 128 -> <<128 + a, r>>
                        [] r >= 128 /\ s < 128 -> <<128 + a, 128 + b, s>>
                        [] OTHER -> <<128 + a, 128 + b, 128 + c, d>>
    BY DEF VarintOf
  <2> HIDE DEF a, r, b, s, c, d
  <2> QED
    BY <2>1
<1> HIDE DEF a, r, b, s, c, d
<1>5. /\ <<n>> \in Data /\ <<128 + a, r>> \in Data
      /\ <<128 + a, 128 + b, s>> \in Data /\ <<128 + a, 128 + b, 128 + c, d>> \in Data
  BY <1>1, <1>2, <1>3 DEF Data
<1> QED
  BY <1>4, <1>5, Zenon

\* A field is longer than its value.
LEMMA FieldLonger ==
    ASSUME NEW no \in 1 .. 1000, NEW text \in Data
    PROVE  /\ TextField(no, text) \in Data
           /\ Len(text) \in Nat /\ Len(TextField(no, text)) \in Nat
           /\ Len(text) <= Len(TextField(no, text))
<1> DEFINE k == Key(no, 2)
           v == VarintOf(Len(text))
           kv == k \o v
<1>1. Len(text) \in Nat /\ 2 \in 0 .. 7
  BY ByteOf
<1>2. v \in Data
  BY <1>1, VarintOfIsData
<1>3. k \in Data
  <2>1. k = VarintOf(KeyNumber(no, 2)) /\ KeyNumber(no, 2) \in Nat
    BY <1>1, KeyParts, ZenonT(40)
  <2> QED
    BY <2>1, VarintOfIsData
<1>4. TextField(no, text) = kv \o text
  BY DEF TextField
<1> HIDE DEF k, v
<1>5. kv \in Data
  BY <1>2, <1>3, ConcatExtends
<1> HIDE DEF kv
<1>6. kv \o text \in Data /\ Len(kv \o text) = Len(kv) + Len(text)
  BY <1>5, ConcatExtends
<1>7. Len(kv) \in Nat /\ Len(kv \o text) \in Nat
  BY <1>5, <1>6, ByteOf
<1> QED
  BY <1>1, <1>4, <1>6, <1>7

LEMMA ConcatLonger ==
    ASSUME NEW a \in Data, NEW b \in Data
    PROVE  /\ a \o b \in Data /\ Len(a \o b) \in Nat /\ Len(a) \in Nat /\ Len(b) \in Nat
           /\ Len(a) <= Len(a \o b) /\ Len(b) <= Len(a \o b)
<1>1. a \o b \in Data /\ Len(a \o b) = Len(a) + Len(b)
  BY ConcatExtends
<1>2. Len(a) \in Nat /\ Len(b) \in Nat
  BY ByteOf
<1> QED
  BY <1>1, <1>2

LEMMA PartFits ==
    ASSUME NEW parts \in Seq(Data), NEW i \in 1 .. Len(parts)
    PROVE  /\ FlattenSeq(parts) \in Data /\ Len(FlattenSeq(parts)) \in Nat
           /\ parts[i] \in Data /\ Len(parts[i]) \in Nat
           /\ Len(parts[i]) <= Len(FlattenSeq(parts))
<1> DEFINE n == Len(parts)
<1>1. n \in Nat /\ (\A j \in 1 .. n : parts[j] \in Data) /\ parts \in Seq(Seq(Nat))
  BY LenProperties, ElementOfSeq DEF Data
<1>2. PICK f : Joins(f, parts)
  BY <1>1, JoinsExists
<1>3. FlattenSeq(parts) = f[n] /\ FlattenSeq(parts) \in Data /\ \A j \in 0 .. n : f[j] \in Data
  BY <1>1, <1>2, JoinsType, FlattenJoins DEF Data
<1> DEFINE C == {k \in Nat : i <= k /\ k <= n /\ ~(Len(parts[i]) <= Len(f[k]))}
<1>4. ASSUME C # {} PROVE FALSE
  <2>1. PICK m \in C : \A k \in C : m <= k
    <3>1. C \in SUBSET Nat
      OBVIOUS
    <3> HIDE DEF C
    <3> QED
      BY <1>4, <3>1, LeastNat
  <2>2. m \in 1 .. n /\ m - 1 \in 0 .. n /\ m - 1 \in Nat /\ i <= m /\ ~(m <= m - 1) /\ m - 1 <= n
        /\ ~(Len(parts[i]) <= Len(f[m]))
    BY <1>1, <2>1
  <2>3. f[m] = f[m - 1] \o parts[m]
    BY <1>2, <2>2 DEF Joins
  <2>4. f[m - 1] \in Data /\ parts[m] \in Data
    BY <1>1, <1>3, <2>2
  <2>5. /\ Len(f[m - 1]) <= Len(f[m]) /\ Len(parts[m]) <= Len(f[m])
        /\ Len(f[m - 1]) \in Nat /\ Len(f[m]) \in Nat
    BY <2>3, <2>4, ConcatLonger
  <2>6. CASE i = m
    BY <2>2, <2>5, <2>6
  <2>7. CASE i # m
    <3>1. i <= m - 1 /\ m - 1 \notin C
      BY <2>1, <2>2, <2>7
    <3>2. Len(parts[i]) <= Len(f[m - 1])
      BY <2>2, <3>1
    <3>3. Len(parts[i]) \in Nat
      BY <1>1, ByteOf
    <3> QED
      BY <2>2, <2>5, <3>2, <3>3
  <2> QED
    BY <2>6, <2>7
<1>5. Len(parts[i]) <= Len(f[n])
  <2>1. i <= n /\ n <= n
    BY <1>1
  <2> QED
    BY <1>1, <1>4, <2>1
<1> HIDE DEF C
<1>6. parts[i] \in Data
  BY <1>1
<1> QED
  BY <1>3, <1>5, <1>6, ByteOf

\* The numbers of the bodies.
Bodies == {301, 303, 313, 314}

LEMMA BodyNumbers ==
    ASSUME NEW m \in Bodies
    PROVE  m \in Known /\ m \in 1 .. 1000 /\ m # 1 /\ m # 3 /\ m # 6
BY DEF Bodies, Known

\* Nothing under the other numbers of a body.
Lone(data, no) == \A m \in Bodies : m # no => Absent(data, m)

LEMMA LoneConcat ==
    ASSUME NEW a, NEW b, NEW no, Lone(a, no), Lone(b, no)
    PROVE  Lone(a \o b, no)
<1> SUFFICES ASSUME NEW m \in Bodies, m # no PROVE Absent(a \o b, m)
  BY DEF Lone
<1>1. Absent(a, m) /\ Absent(b, m)
  BY DEF Lone
<1> QED
  BY <1>1, ShowsInConcat, Zenon

\* A wrapper of the pair with one body.
Carries(data, no, inner) ==
    /\ Shows(data, no, TextFound(no, inner))
    /\ Shows(data, 3, TextFound(3, Pair))
    /\ Lone(data, no)

\* A part of it that is neither the body nor the symbol.
Beside(data, no) == Absent(data, no) /\ Absent(data, 3) /\ Lone(data, no)

LEMMA WrapperParts ==
    ASSUME NEW no, NEW inner, NEW u, NEW a, NEW b, NEW c, NEW d, NEW z,
           Beside(u, no), Beside(a, no), Beside(d, no), Beside(z, no),
           Shows(b, no, TextFound(no, inner)), Absent(b, 3), Lone(b, no),
           Shows(c, 3, TextFound(3, Pair)), Absent(c, no), Lone(c, no)
    PROVE  Carries(((((u \o a) \o b) \o c) \o d) \o z, no, inner)
<1> DEFINE x == TextFound(no, inner)
           x3 == TextFound(3, Pair)
           ua == u \o a
           uab == ua \o b
           uabc == uab \o c
           uabcd == uabc \o d
           all == uabcd \o z
<1>0. Shows(b, no, x) /\ Shows(c, 3, x3)
  OBVIOUS
<1> HIDE DEF x, x3
<1>1. Absent(ua, 3) /\ Absent(ua, no) /\ Lone(ua, no)
  BY ShowsInConcat, LoneConcat, Zenon DEF Beside
<1> HIDE DEF ua
<1>2. Shows(uab, no, x) /\ Absent(uab, 3) /\ Lone(uab, no)
  BY <1>0, <1>1, ShowsInConcat, LoneConcat, Zenon
<1> HIDE DEF uab
<1>3. Shows(uabc, no, x) /\ Shows(uabc, 3, x3) /\ Lone(uabc, no)
  BY <1>0, <1>2, ShowsInConcat, LoneConcat, Zenon
<1> HIDE DEF uabc
<1>4. Shows(uabcd, no, x) /\ Shows(uabcd, 3, x3) /\ Lone(uabcd, no)
  BY <1>3, ShowsInConcat, LoneConcat, Zenon DEF Beside
<1> HIDE DEF uabcd
<1>5. Shows(all, no, x) /\ Shows(all, 3, x3) /\ Lone(all, no)
  BY <1>4, ShowsInConcat, LoneConcat, Zenon DEF Beside
<1> QED
  BY <1>5, Zenon DEF Carries, x, x3, all, uabcd, uabc, uab, ua

LEMMA ElsewhereIsBeside ==
    ASSUME NEW data, NEW k, k \notin Bodies, k # 3, \A m : m # k => Absent(data, m), NEW no \in Bodies
    PROVE  Beside(data, no)
<1>1. no # k /\ 3 # k /\ \A m \in Bodies : m # k
  OBVIOUS
<1>2. Absent(data, no) /\ Absent(data, 3)
  BY <1>1, Zenon
<1>3. Lone(data, no)
  BY <1>1, Zenon DEF Lone
<1> QED
  BY <1>2, <1>3, Zenon DEF Beside

LEMMA SpotIsBeside ==
    ASSUME NEW more \in Unknown \cup {<<>>}, NEW place, NEW here, NEW no \in Bodies
    PROVE  Beside(Spot(place, here, more), no)
<1> DEFINE u == Spot(place, here, more)
<1>1. \A m \in Known : Absent(u, m)
  BY SpotIsAbsent
<1> HIDE DEF u
<1>2. 3 \in Known /\ Bodies \subseteq Known
  BY DEF Known, Bodies
<1>3. Absent(u, 3) /\ \A m \in Bodies : Absent(u, m)
  BY <1>1, <1>2
<1> QED
  BY <1>3, Zenon DEF Beside, Lone, u

\* The fields of a wrapper.
LEMMA TopicField ==
    ASSUME NEW topic \in Data, Len(topic) < Huge, NEW no \in Bodies
    PROVE  Beside(TextField(1, topic), no)
<1> DEFINE k == 1
           data == TextField(k, topic)
<1>1. k \in 1 .. 1000 /\ k \notin Bodies /\ k # 3
  BY DEF Bodies
<1> HIDE DEF k
<1>2. \A m : m # k => Absent(data, m)
  BY <1>1, TextShows, ZenonT(40)
<1> HIDE DEF data
<1>3. Beside(data, no)
  BY <1>1, <1>2, ElsewhereIsBeside, Zenon
<1> QED
  BY <1>3, Zenon DEF data, k

LEMMA TimeField ==
    ASSUME NEW no \in Bodies
    PROVE  Beside(NumberField(6, 300), no)
<1> DEFINE k == 6
           t == 300
           data == NumberField(k, t)
<1>1. k \in 1 .. 1000 /\ k \notin Bodies /\ k # 3 /\ t \in Nat /\ t < Huge
  BY HugeIsNat DEF Bodies
<1> HIDE DEF k, t
<1>2. \A m : m # k => Absent(data, m)
  BY <1>1, NumberShows, ZenonT(40)
<1> HIDE DEF data
<1>3. Beside(data, no)
  BY <1>1, <1>2, ElsewhereIsBeside, Zenon
<1> QED
  BY <1>3 DEF data, k, t

LEMMA BodyField ==
    ASSUME NEW no \in Bodies, NEW inner \in Data, Len(inner) < Huge
    PROVE  /\ Shows(TextField(no, inner), no, TextFound(no, inner))
           /\ Absent(TextField(no, inner), 3) /\ Lone(TextField(no, inner), no)
<1>1. no \in 1 .. 1000 /\ 3 # no
  BY BodyNumbers
<1>2. /\ Shows(TextField(no, inner), no, TextFound(no, inner))
      /\ \A m : m # no => Absent(TextField(no, inner), m)
  BY <1>1, TextShows, ZenonT(40)
<1> QED
  BY <1>1, <1>2, Zenon DEF Lone

LEMMA SymbolField ==
    ASSUME NEW no \in Bodies
    PROVE  /\ Shows(TextField(3, Pair), 3, TextFound(3, Pair))
           /\ Absent(TextField(3, Pair), no) /\ Lone(TextField(3, Pair), no)
<1> DEFINE k == 3
           data == TextField(k, Pair)
<1>1. k \in 1 .. 1000 /\ Pair \in Data /\ Len(Pair) < Huge /\ k \notin Bodies
  BY HugeIsNat DEF Pair, Data, Bodies
<1> HIDE DEF k
<1>2. Shows(data, k, TextFound(k, Pair)) /\ \A m : m # k => Absent(data, m)
  BY <1>1, TextShows, ZenonT(40)
<1> HIDE DEF data
<1>3. no # k /\ \A m \in Bodies : m # k
  BY <1>1
<1>4. Absent(data, no) /\ Lone(data, no)
  BY <1>1, <1>2, <1>3, Zenon DEF Lone
<1> QED
  BY <1>2, <1>4, Zenon DEF data, k

\* A wrapper is read whatever was added to it.
LEMMA WrapperReads ==
    ASSUME NEW no \in Bodies, NEW topic \in Data, Len(topic) < Huge,
           NEW more \in Unknown \cup {<<>>}, NEW place, NEW body,
           Spot(place, "body", more) \o body \in Data, Len(Spot(place, "body", more) \o body) < Huge
    PROVE  Carries(Wrapped(topic, no, body, more, place), no, Spot(place, "body", more) \o body)
<1> DEFINE u == Spot(place, "first", more)
           inner == Spot(place, "body", more) \o body
           a == TextField(1, topic)
           b == TextField(no, inner)
           c == TextField(3, Pair)
           d == NumberField(6, 300)
           z == Spot(place, "last", more)
<1>1. Beside(u, no) /\ Beside(z, no)
  BY SpotIsBeside
<1>2. Beside(a, no)
  BY TopicField
<1>3. Beside(d, no)
  BY TimeField
<1>4. Shows(b, no, TextFound(no, inner)) /\ Absent(b, 3) /\ Lone(b, no)
  <2> HIDE DEF inner
  <2>1. inner \in Data /\ Len(inner) < Huge
    BY DEF inner
  <2> QED
    BY <2>1, BodyField, Zenon
<1>5. Shows(c, 3, TextFound(3, Pair)) /\ Absent(c, no) /\ Lone(c, no)
  BY SymbolField
<1>7. Wrapped(topic, no, body, more, place) = ((((u \o a) \o b) \o c) \o d) \o z
  BY Zenon DEF Wrapped
<1> HIDE DEF u, a, b, c, d, z, inner
<1>8. Carries(((((u \o a) \o b) \o c) \o d) \o z, no, inner)
  BY <1>1, <1>2, <1>3, <1>4, <1>5, WrapperParts, Zenon
<1> QED
  BY <1>7, <1>8, Zenon DEF inner

-----------------------------------------------------------------------------
(* What the adapter makes of a wrapper.                                    *)

LEMMA OneBody ==
    ASSUME NEW w, NEW first, NEW second, NEW b,
           Readable(w), Submessages(w, first) = <<b>>, Readable(b)
    PROVE  Body(w, first, second) = <<b>>
<1> DEFINE s == Submessages(w, first)
<1>1. s = <<b>> /\ s # <<>> /\ Range(s) = {b} /\ Last(s) = b
  BY DEF Range, Last
<1> HIDE DEF s
<1>2. s # <<>> /\ (\A c \in Range(s) : Readable(c)) /\ <<Last(s)>> = <<b>>
  BY <1>1
<1> QED
  BY <1>2, Zenon DEF Body, s

LEMMA NoBody ==
    ASSUME NEW w, NEW first, NEW second
    PROVE  /\ ~Readable(w) => Body(w, first, second) = <<>>
           /\ Submessages(w, first) = <<>> /\ Submessages(w, second) = <<>> => Body(w, first, second) = <<>>
BY Zenon DEF Body

LEMMA SymbolIsRead ==
    ASSUME NEW w, NEW k, Text(w, 3) = Pair
    PROVE  SymbolOf(w, k) = Pair
<1>1. Pair \notin {None, <<>>}
  BY DEF Pair, None
<1> QED
  BY <1>1, Zenon DEF SymbolOf

LEMMA NothingUnderstood ==
    ASSUME NEW data
    PROVE  /\ \/ Body(Message(data), 303, 313) = <<>>
              \/ SymbolOf(Message(data), 2) # Pair
              => ReadBook(data) = <<>>
           /\ \/ Body(Message(data), 314, 301) = <<>>
              \/ SymbolOf(Message(data), 1) # Pair
              => ReadTrades(data) = <<>>
<1>1. \/ Body(Message(data), 303, 313) = <<>>
      \/ SymbolOf(Message(data), 2) # Pair
      => ReadBook(data) = <<>>
  BY Zenon DEF ReadBook, Understood
<1>2. \/ Body(Message(data), 314, 301) = <<>>
      \/ SymbolOf(Message(data), 1) # Pair
      => ReadTrades(data) = <<>>
  BY Zenon DEF ReadTrades, Understood
<1> QED
  BY <1>1, <1>2

\* What is made of a body that is understood.
LEMMA BookUnderstood ==
    ASSUME NEW data, NEW b, Body(Message(data), 303, 313) = <<b>>,
           Understood(Message(data), <<b>>, 2), Submessages(Message(data), 303) # <<>>
    PROVE  ReadBook(data) = <<Update(Cut(LevelsIn(Items(b))), VersionIn(b), NoSeq, TRUE)>>
<1> DEFINE body == <<b>>
<1>0. body[1] = b
  OBVIOUS
<1>1. Body(Message(data), 303, 313) = body /\ Understood(Message(data), body, 2)
  OBVIOUS
<1> HIDE DEF body
<1>2. ReadBook(data) =
        <<Update(Cut(LevelsIn(Items(body[1]))), VersionIn(body[1]), NoSeq, Submessages(Message(data), 303) # <<>>)>>
  <2> DEFINE B == Body(Message(data), 303, 313)
             U == <<Update(Cut(LevelsIn(Items(B[1]))), VersionIn(B[1]), NoSeq, Submessages(Message(data), 303) # <<>>)>>
  <2>1. ReadBook(data) = IF ~Understood(Message(data), B, 2) THEN <<>> ELSE U
    BY DEF ReadBook
  <2>2. B = body
    BY <1>1
  <2>3. Understood(Message(data), B, 2)
    BY <1>1, <2>2, Zenon
  <2> HIDE DEF B
  <2>4. ReadBook(data) = U
    BY <2>1, <2>3, Zenon
  <2> QED
    BY <2>2, <2>4, Zenon
<1>3. (Submessages(Message(data), 303) # <<>>) = TRUE
  OBVIOUS
<1> QED
  BY <1>0, <1>2, <1>3, Zenon

LEMMA TradesUnderstood ==
    ASSUME NEW data, NEW b, Body(Message(data), 314, 301) = <<b>>,
           Understood(Message(data), <<b>>, 1)
    PROVE  ReadTrades(data) = DealsIn(Items(b))
<1> DEFINE body == <<b>>
<1>0. body[1] = b
  OBVIOUS
<1>1. Body(Message(data), 314, 301) = body /\ Understood(Message(data), body, 1)
  OBVIOUS
<1> HIDE DEF body
<1>2. ReadTrades(data) = DealsIn(Items(body[1]))
  BY <1>1, ZenonT(40) DEF ReadTrades
<1> QED
  BY <1>0, <1>2, Zenon

LEMMA IsUnderstood ==
    ASSUME NEW w, NEW b, NEW k, Readable(w), SymbolOf(w, k) = Pair,
           \A item \in Range(Submessages(b, 1)) : Readable(item)
    PROVE  Understood(w, <<b>>, k)
<1> DEFINE body == <<b>>
<1>1. body[1] = b /\ body # <<>>
  OBVIOUS
<1> HIDE DEF body
<1>2. Understood(w, body, k)
  BY <1>1, Zenon DEF Understood
<1> QED
  BY <1>2, Zenon DEF body

\* The items of a body when each names both.
LEMMA AllItems ==
    ASSUME NEW b, NEW n \in Nat, NEW items \in [1 .. n -> Seq(AllFields)], Submessages(b, 1) = items,
           \A i \in 1 .. n : Text(items[i], 1) # None /\ Text(items[i], 2) # None
    PROVE  Items(b) = items
<1> DEFINE parts == [i \in DOMAIN items |->
                       IF Text(items[i], 1) # None /\ Text(items[i], 2) # None THEN <<items[i]>> ELSE <<>>]
<1>1. Items(b) = FlattenSeq(parts)
  BY Zenon DEF Items, Named
<1>2. DOMAIN items = 1 .. n /\ items \in Seq(Seq(AllFields)) /\ Len(items) = n
  BY SeqOfFunction
<1>3. \A i \in 1 .. n : parts[i] = <<items[i]>> /\ <<items[i]>> \in Seq(Seq(AllFields))
  BY <1>2
<1>4. parts \in [1 .. n -> Seq(Seq(AllFields))]
  BY <1>2, <1>3
<1> HIDE DEF parts
<1>5. parts \in Seq(Seq(Seq(AllFields))) /\ Len(parts) = n
  BY <1>4, SeqOfFunction
<1>6. FlattenSeq(parts) = items
  <2> DEFINE S == Seq(AllFields)
  <2>1. items \in Seq(S) /\ parts \in Seq(Seq(S)) /\ Len(parts) = Len(items)
        /\ \A i \in 1 .. Len(items) : parts[i] = <<items[i]>>
    BY <1>2, <1>3, <1>5
  <2> HIDE DEF S
  <2> QED
    BY <2>1, FlattenSingles
<1> QED
  BY <1>1, <1>6

\* The items of a body, shown under 1 by their bytes.
LEMMA ItemsShow ==
    ASSUME NEW n \in Nat, NEW inner \in [1 .. n -> Data], \A i \in 1 .. n : Len(inner[i]) < Huge
    PROVE  LET flat == FlattenSeq([i \in 1 .. n |-> TextField(1, inner[i])])
           IN  /\ flat \in Data /\ \A no : no # 1 => Absent(flat, no)
               /\ \E x : Shows(flat, 1, x) /\ x[2] = [i \in 1 .. n |-> Message(inner[i])]
<1> DEFINE parts == [i \in 1 .. n |-> TextField(1, inner[i])]
           subs == [i \in 1 .. n |-> Message(inner[i])]
           flat == FlattenSeq(parts)
           x == Found(Message(flat), 1)
<1>1. /\ flat \in Data /\ Readable(Message(flat)) /\ \A no : no # 1 => Absent(flat, no)
      /\ Submessages(Message(flat), 1) = subs
  <2> DEFINE p == parts
  <2>1. p = [i \in 1 .. n |-> TextField(1, inner[i])]
    OBVIOUS
  <2> HIDE DEF p
  <2>2. /\ FlattenSeq(p) \in Data /\ Readable(Message(FlattenSeq(p)))
        /\ \A no : no # 1 => Absent(FlattenSeq(p), no)
        /\ Submessages(Message(FlattenSeq(p)), 1) = subs
    BY <2>1, ItemsRead
  <2> QED
    BY <2>2, Zenon DEF p
<1> HIDE DEF parts, subs, flat
<1>2. x[2] = subs
  BY <1>1 DEF Found
<1>3. Shows(flat, 1, x)
  BY <1>1, Zenon DEF Shows
<1> QED
  BY <1>1, <1>2, <1>3, Zenon DEF parts, subs, flat

\* The items of a body are no longer than the body.
LEMMA ItemsFit ==
    ASSUME NEW n \in Nat, NEW inner \in [1 .. n -> Data]
    PROVE  LET flat == FlattenSeq([i \in 1 .. n |-> TextField(1, inner[i])])
           IN  /\ flat \in Data /\ Len(flat) \in Nat
               /\ \A i \in 1 .. n : Len(inner[i]) \in Nat /\ Len(inner[i]) <= Len(flat)
<1> DEFINE parts == [i \in 1 .. n |-> TextField(1, inner[i])]
           flat == FlattenSeq(parts)
<1>1. ASSUME NEW i \in 1 .. n
      PROVE  /\ parts[i] \in Data /\ Len(inner[i]) \in Nat /\ Len(parts[i]) \in Nat
             /\ Len(inner[i]) <= Len(parts[i])
  <2>1. 1 \in 1 .. 1000 /\ inner[i] \in Data
    OBVIOUS
  <2>2. parts[i] = TextField(1, inner[i])
    OBVIOUS
  <2> DEFINE d == inner[i]
  <2>3. d \in Data /\ parts[i] = TextField(1, d)
    BY <2>1, <2>2
  <2> HIDE DEF parts, d
  <2>4. TextField(1, d) \in Data /\ Len(d) \in Nat /\ Len(TextField(1, d)) \in Nat /\ Len(d) <= Len(TextField(1, d))
    BY <2>1, <2>3, FieldLonger
  <2> QED
    BY <2>3, <2>4 DEF d
<1>2. parts \in [1 .. n -> Data]
  BY <1>1
<1> HIDE DEF parts
<1>3. parts \in Seq(Data) /\ Len(parts) = n
  BY <1>2, SeqOfFunction
<1>4. flat \in Data /\ Len(flat) \in Nat
  <2>1. parts \in Seq(Seq(Nat))
    BY <1>3 DEF Data
  <2>2. PICK f : Joins(f, parts)
    BY <2>1, JoinsExists
  <2>3. flat \in Seq(Nat)
    BY <2>1, <2>2, FlattenJoins
  <2> QED
    BY <2>3, ByteOf DEF Data
<1>5. ASSUME NEW i \in 1 .. n
      PROVE  Len(inner[i]) <= Len(flat)
  <2>1. i \in 1 .. Len(parts)
    BY <1>3
  <2>2. Len(parts[i]) <= Len(flat)
    BY <1>3, <2>1, PartFits
  <2> HIDE DEF flat
  <2> QED
    BY <1>1, <1>4, <2>2
<1> QED
  BY <1>1, <1>4, <1>5, Zenon DEF parts

\* A wrapper is no shorter than its body.
LEMMA WrapperFits ==
    ASSUME NEW no \in Bodies, NEW topic \in Data,
           NEW more \in Unknown \cup {<<>>}, NEW place, NEW body \in Data
    PROVE  LET data == Wrapped(topic, no, body, more, place)
               inner == Spot(place, "body", more) \o body
           IN  /\ inner \in Data /\ Len(inner) \in Nat /\ Len(body) \in Nat /\ Len(data) \in Nat
               /\ Len(body) <= Len(inner) /\ Len(inner) <= Len(data)
<1> DEFINE u == Spot(place, "first", more)
           s == Spot(place, "body", more)
           inner == s \o body
           a == TextField(1, topic)
           b == TextField(no, inner)
           c == TextField(3, Pair)
           d == NumberField(6, 300)
           z == Spot(place, "last", more)
           ua == u \o a
           uab == ua \o b
           uabc == uab \o c
           uabcd == uabc \o d
           all == uabcd \o z
<1>1. u \in Data /\ s \in Data /\ z \in Data
  BY SpotIsAbsent
<1>2. all = Wrapped(topic, no, body, more, place)
  BY Zenon DEF Wrapped
<1>3. a \in Data
  <2>1. 1 \in 1 .. 1000
    OBVIOUS
  <2> QED
    BY <2>1, FieldLonger
<1>4. c \in Data
  <2>1. 3 \in 1 .. 1000 /\ Pair \in Data
    BY DEF Pair, Data
  <2> QED
    BY <2>1, FieldLonger
<1>5. d \in Data
  <2>1. no \in Bodies
    OBVIOUS
  <2>2. Beside(d, no)
    BY TimeField
  <2> QED
    BY <2>2, Zenon DEF Beside, Absent
<1> HIDE DEF s, u, z
<1>6. inner \in Data /\ Len(inner) \in Nat /\ Len(body) \in Nat /\ Len(body) <= Len(inner)
  BY <1>1, ConcatLonger
<1> HIDE DEF inner
<1>7. b \in Data /\ Len(b) \in Nat /\ Len(inner) <= Len(b)
  <2> HIDE DEF a, b, c, d, all
  <2>1. no \in 1 .. 1000
    BY BodyNumbers, SMTT(30)
  <2>2. /\ TextField(no, inner) \in Data /\ Len(TextField(no, inner)) \in Nat
        /\ Len(inner) <= Len(TextField(no, inner))
    BY <1>6, <2>1, FieldLonger, SMTT(30)
  <2> QED
    BY <2>2, Zenon DEF b
<1> HIDE DEF a, b, c, d
<1>8. ua \in Data
  BY <1>1, <1>3, ConcatLonger
<1> HIDE DEF ua
<1>9. uab \in Data /\ Len(uab) \in Nat /\ Len(b) <= Len(uab)
  BY <1>7, <1>8, ConcatLonger
<1> HIDE DEF uab
<1>10. uabc \in Data /\ Len(uabc) \in Nat /\ Len(uab) <= Len(uabc)
  BY <1>4, <1>9, ConcatLonger
<1> HIDE DEF uabc
<1>11. uabcd \in Data /\ Len(uabcd) \in Nat /\ Len(uabc) <= Len(uabcd)
  BY <1>5, <1>10, ConcatLonger
<1> HIDE DEF uabcd
<1>12. Len(all) \in Nat /\ Len(uabcd) <= Len(all)
  BY <1>1, <1>11, ConcatLonger
<1> HIDE DEF all
<1>13. Len(inner) <= Len(all)
  BY <1>6, <1>7, <1>9, <1>10, <1>11, <1>12
<1> QED
  BY <1>2, <1>6, <1>12, <1>13, Zenon DEF inner, s

\* The bytes of a listing, level by level.
LevelParts(levels, more, place) ==
    [i \in DOMAIN levels |-> LevelBytes(levels[i][1], levels[i][2], more, place)]

\* Levels of two numbers each.
IsLevels(levels) == levels \in Seq(Nat \X Nat)

LEMMA LevelsFacts ==
    ASSUME NEW levels, IsLevels(levels), NEW more \in Unknown \cup {<<>>}, NEW place
    PROVE  /\ Len(levels) \in Nat /\ DOMAIN levels = 1 .. Len(levels)
           /\ \A i \in 1 .. Len(levels) :
                levels[i][1] \in Nat /\ levels[i][2] \in Nat /\ levels[i] = <<levels[i][1], levels[i][2]>>
           /\ LevelParts(levels, more, place) \in [1 .. Len(levels) -> Data]
<1>1. Len(levels) \in Nat /\ DOMAIN levels = 1 .. Len(levels) /\ \A i \in 1 .. Len(levels) : levels[i] \in Nat \X Nat
  BY LenProperties, ElementOfSeq DEF IsLevels
<1>2. \A i \in 1 .. Len(levels) :
         levels[i][1] \in Nat /\ levels[i][2] \in Nat /\ levels[i] = <<levels[i][1], levels[i][2]>>
  BY <1>1
<1>3. \A i \in 1 .. Len(levels) : LevelBytes(levels[i][1], levels[i][2], more, place) \in Data
  BY <1>2, LevelReads
<1> QED
  BY <1>1, <1>2, <1>3 DEF LevelParts

\* What Depths flattens.
LevelFields(levels, more, place) ==
    FlattenSeq([i \in 1 .. Len(levels) |-> TextField(1, LevelParts(levels, more, place)[i])])

LEMMA DepthsAre ==
    ASSUME NEW f, IsLevels(f.levels), NEW more \in Unknown \cup {<<>>}, NEW place
    PROVE  Depths(f, more, place) =
             (LevelFields(f.levels, more, place) \o TextField(3, <<83>>)) \o TextField(4, Digit(f.seq))
<1> DEFINE lv == f.levels
           one == [i \in DOMAIN lv |-> Level(lv[i], more, place)]
           two == [i \in 1 .. Len(lv) |-> TextField(1, LevelParts(lv, more, place)[i])]
<1>1. DOMAIN lv = 1 .. Len(lv)
  BY LevelsFacts
<1> HIDE DEF lv
<1>2. \A i \in DOMAIN lv : Level(lv[i], more, place) = TextField(1, LevelBytes(lv[i][1], lv[i][2], more, place))
  BY Zenon DEF Level, Item, LevelBytes
<1>3. \A i \in DOMAIN lv : LevelParts(lv, more, place)[i] = LevelBytes(lv[i][1], lv[i][2], more, place)
  BY DEF LevelParts
<1>4. one = two
  BY <1>1, <1>2, <1>3, Zenon
<1>5. Depths(f, more, place) = (FlattenSeq(one) \o TextField(3, <<83>>)) \o TextField(4, Digit(f.seq))
  BY Zenon DEF Depths, lv
<1>6. LevelFields(lv, more, place) = FlattenSeq(two)
  BY DEF LevelFields
<1> QED
  BY <1>4, <1>5, <1>6, Zenon DEF lv

\* The body of a book is longer than each level in it.
LEMMA DepthsFit ==
    ASSUME NEW f, IsLevels(f.levels), f.seq \in Nat, NEW more \in Unknown \cup {<<>>}, NEW place
    PROVE  /\ Depths(f, more, place) \in Data /\ Len(Depths(f, more, place)) \in Nat
           /\ \A i \in 1 .. Len(f.levels) :
                /\ Len(LevelParts(f.levels, more, place)[i]) \in Nat
                /\ Len(LevelParts(f.levels, more, place)[i]) <= Len(Depths(f, more, place))
<1> DEFINE lv == f.levels
           n == Len(lv)
           inner == LevelParts(lv, more, place)
           flat == LevelFields(lv, more, place)
           s == TextField(3, <<83>>)
           v == TextField(4, Digit(f.seq))
           fs == flat \o s
           all == fs \o v
<1>1. n \in Nat /\ inner \in [1 .. n -> Data]
  BY LevelsFacts
<1>2. all = Depths(f, more, place)
  BY DepthsAre
<1>3. s \in Data /\ v \in Data
  <2>1. <<83>> \in Data /\ Digit(f.seq) \in Data /\ 3 \in 1 .. 1000 /\ 4 \in 1 .. 1000
    BY DigitIsData DEF Data
  <2> QED
    BY <2>1, FieldLonger
<1> HIDE DEF s, v
<1>4. /\ flat \in Data /\ Len(flat) \in Nat
      /\ \A i \in 1 .. n : Len(inner[i]) \in Nat /\ Len(inner[i]) <= Len(flat)
  <2> HIDE DEF n, inner
  <2> QED
    BY <1>1, ItemsFit DEF LevelFields, n, inner
<1> HIDE DEF flat, inner, n
<1>5. fs \in Data /\ Len(fs) \in Nat /\ Len(flat) <= Len(fs)
  BY <1>3, <1>4, ConcatLonger
<1> HIDE DEF fs
<1>6. all \in Data /\ Len(all) \in Nat /\ Len(fs) <= Len(all)
  BY <1>3, <1>5, ConcatLonger
<1> HIDE DEF all
<1>7. \A i \in 1 .. n : Len(inner[i]) \in Nat /\ Len(inner[i]) <= Len(all)
  BY <1>4, <1>5, <1>6
<1> QED
  BY <1>2, <1>6, <1>7, Zenon DEF n, inner

\* The body of a book, with or without a new field, shows its levels and its version.
LEMMA DepthsRead ==
    ASSUME NEW f, IsLevels(f.levels), f.seq \in Nat, NEW more \in Unknown \cup {<<>>}, NEW place,
           \A i \in 1 .. Len(f.levels) : Len(LevelParts(f.levels, more, place)[i]) < Huge
    PROVE  /\ Readable(Message(Spot(place, "body", more) \o Depths(f, more, place)))
           /\ Text(Message(Spot(place, "body", more) \o Depths(f, more, place)), 4) = Digit(f.seq)
           /\ Submessages(Message(Spot(place, "body", more) \o Depths(f, more, place)), 1) =
                    [i \in 1 .. Len(f.levels) |-> Message(LevelParts(f.levels, more, place)[i])]
<1> DEFINE lv == f.levels
           n == Len(lv)
           inner == LevelParts(lv, more, place)
           subs == [i \in 1 .. n |-> Message(inner[i])]
           flat == LevelFields(lv, more, place)
           u == Spot(place, "body", more)
           s == TextField(3, <<83>>)
           v == TextField(4, Digit(f.seq))
           fs == flat \o s
           fsv == fs \o v
           all == u \o fsv
           x4 == TextFound(4, Digit(f.seq))
<1>1. n \in Nat /\ inner \in [1 .. n -> Data]
  BY LevelsFacts
<1>2. fsv = Depths(f, more, place)
  BY DepthsAre
<1>3. Absent(s, 1) /\ Absent(s, 4)
  <2>1. <<83>> \in Data /\ 3 \in 1 .. 1000 /\ Len(<<83>>) < Huge
    BY HugeIsNat DEF Data
  <2> DEFINE t == <<83>>
             k == 3
  <2>2. 1 # k /\ 4 # k /\ t \in Data /\ k \in 1 .. 1000 /\ Len(t) < Huge /\ s = TextField(k, t)
    BY <2>1
  <2> HIDE DEF t, k, s
  <2>3. \A m : m # k => Absent(TextField(k, t), m)
    BY <2>2, TextShows, ZenonT(40)
  <2> QED
    BY <2>2, <2>3, Zenon
<1>4. Absent(v, 1) /\ Shows(v, 4, x4)
  <2>1. 4 \in 1 .. 1000 /\ f.seq \in Nat /\ 1 # 4
    OBVIOUS
  <2> QED
    BY <2>1, DigitShows, ZenonT(40)
<1>5. Absent(u, 1) /\ Absent(u, 4)
  BY SpotIsAbsent DEF Known
<1> HIDE DEF u, s, v, x4
<1>6. PICK x : /\ \A no : no # 1 => Absent(flat, no)
               /\ Shows(flat, 1, x) /\ x[2] = subs
  <2>1. \A i \in 1 .. n : Len(inner[i]) < Huge
    OBVIOUS
  <2>2. flat = FlattenSeq([i \in 1 .. n |-> TextField(1, inner[i])])
    BY Zenon DEF LevelFields
  <2> HIDE DEF n, inner, flat, subs
  <2> DEFINE flat2 == FlattenSeq([i \in 1 .. n |-> TextField(1, inner[i])])
             subs2 == [i \in 1 .. n |-> Message(inner[i])]
  <2>3. /\ \A no : no # 1 => Absent(flat2, no)
        /\ \E x : Shows(flat2, 1, x) /\ x[2] = subs2
    BY <1>1, <2>1, ItemsShow
  <2>4. flat2 = flat /\ subs2 = subs
    BY <2>2, Zenon DEF subs
  <2> HIDE DEF flat2, subs2
  <2> QED
    BY <2>3, <2>4, Zenon
<1>7. Absent(flat, 4)
  BY <1>6
<1> HIDE DEF flat, subs
<1>8. Shows(fs, 1, x) /\ Absent(fs, 4)
  BY <1>3, <1>6, <1>7, ShowsInConcat, ZenonT(40)
<1> HIDE DEF fs
<1>9. Shows(fsv, 1, x) /\ Shows(fsv, 4, x4)
  BY <1>4, <1>8, ShowsInConcat, Zenon
<1> HIDE DEF fsv
<1>10. Shows(all, 1, x) /\ Shows(all, 4, x4)
  BY <1>5, <1>9, ShowsInConcat, Zenon
<1>11. all = Spot(place, "body", more) \o Depths(f, more, place)
  BY <1>2, Zenon DEF u
<1> HIDE DEF all
<1>12. Readable(Message(all)) /\ Text(Message(all), 4) = Digit(f.seq)
  BY <1>10, AccessText, Zenon DEF x4
<1>13. Submessages(Message(all), 1) = subs
  <2>1. x = <<Latest(Message(all), 1), Submessages(Message(all), 1)>>
    BY <1>10, Zenon DEF Shows, Found
  <2> QED
    BY <1>6, <2>1
<1> QED
  BY <1>11, <1>12, <1>13, Zenon DEF subs, n, inner

\* The bytes of the deals, and trades an adapter can read.
DealParts(fills, more, place) == [i \in DOMAIN fills |-> DealBytes(fills[i], more, place)]
DealFields(fills, more, place) ==
    FlattenSeq([i \in 1 .. Len(fills) |-> TextField(1, DealParts(fills, more, place)[i])])

IsFills(fills) ==
    /\ Len(fills) \in Nat /\ DOMAIN fills = 1 .. Len(fills)
    /\ \A i \in 1 .. Len(fills) : fills[i].trade_type \in {1, 2} /\ fills[i].id \in Nat

LEMMA DealPartsType ==
    ASSUME NEW fills, IsFills(fills), NEW more \in Unknown \cup {<<>>}, NEW place
    PROVE  DealParts(fills, more, place) \in [1 .. Len(fills) -> Data]
<1>1. \A i \in 1 .. Len(fills) : DealBytes(fills[i], more, place) \in Data
  BY DealReads DEF IsFills
<1> QED
  BY <1>1 DEF DealParts, IsFills

LEMMA DealsAre ==
    ASSUME NEW f, IsFills(f.fills), NEW more \in Unknown \cup {<<>>}, NEW place
    PROVE  Deals(f, more, place) = DealFields(f.fills, more, place)
<1> DEFINE fl == f.fills
           one == [i \in DOMAIN fl |-> Deal(fl[i], more, place)]
           two == [i \in 1 .. Len(fl) |-> TextField(1, DealParts(fl, more, place)[i])]
<1>1. DOMAIN fl = 1 .. Len(fl)
  BY DEF IsFills
<1> HIDE DEF fl
<1>2. \A i \in DOMAIN fl : Deal(fl[i], more, place) = TextField(1, DealBytes(fl[i], more, place))
  BY Zenon DEF Deal, Item, DealBytes
<1>3. \A i \in DOMAIN fl : DealParts(fl, more, place)[i] = DealBytes(fl[i], more, place)
  BY DEF DealParts
<1>4. one = two
  BY <1>1, <1>2, <1>3, Zenon
<1>5. Deals(f, more, place) = FlattenSeq(one)
  BY Zenon DEF Deals, fl
<1>6. DealFields(fl, more, place) = FlattenSeq(two)
  BY DEF DealFields
<1> QED
  BY <1>4, <1>5, <1>6, Zenon DEF fl

LEMMA DealsFit ==
    ASSUME NEW f, IsFills(f.fills), NEW more \in Unknown \cup {<<>>}, NEW place
    PROVE  /\ Deals(f, more, place) \in Data /\ Len(Deals(f, more, place)) \in Nat
           /\ \A i \in 1 .. Len(f.fills) :
                /\ Len(DealParts(f.fills, more, place)[i]) \in Nat
                /\ Len(DealParts(f.fills, more, place)[i]) <= Len(Deals(f, more, place))
<1> DEFINE fl == f.fills
           n == Len(fl)
           inner == DealParts(fl, more, place)
<1>1. n \in Nat /\ inner \in [1 .. n -> Data]
  BY DealPartsType DEF IsFills
<1>2. Deals(f, more, place) = FlattenSeq([i \in 1 .. n |-> TextField(1, inner[i])])
  BY DealsAre DEF DealFields
<1> HIDE DEF n, inner
<1> DEFINE flat == FlattenSeq([i \in 1 .. n |-> TextField(1, inner[i])])
<1>3. flat \in Data /\ Len(flat) \in Nat /\ \A i \in 1 .. n : Len(inner[i]) \in Nat /\ Len(inner[i]) <= Len(flat)
  BY <1>1, ItemsFit
<1>4. flat = Deals(f, more, place)
  BY <1>2
<1> HIDE DEF flat
<1> QED
  BY <1>3, <1>4, Zenon DEF n, inner

\* The body of the trades, with or without a new field, shows each of them.
LEMMA DealsRead ==
    ASSUME NEW f, IsFills(f.fills), NEW more \in Unknown \cup {<<>>}, NEW place,
           \A i \in 1 .. Len(f.fills) : Len(DealParts(f.fills, more, place)[i]) < Huge
    PROVE  /\ Readable(Message(Spot(place, "body", more) \o Deals(f, more, place)))
           /\ Submessages(Message(Spot(place, "body", more) \o Deals(f, more, place)), 1) =
                    [i \in 1 .. Len(f.fills) |-> Message(DealParts(f.fills, more, place)[i])]
<1> DEFINE fl == f.fills
           n == Len(fl)
           inner == DealParts(fl, more, place)
           subs == [i \in 1 .. n |-> Message(inner[i])]
           flat == DealFields(fl, more, place)
           u == Spot(place, "body", more)
           all == u \o flat
<1>1. n \in Nat /\ inner \in [1 .. n -> Data]
  BY DealPartsType DEF IsFills
<1>2. flat = Deals(f, more, place)
  BY DealsAre
<1>3. Absent(u, 1)
  BY SpotIsAbsent DEF Known
<1> HIDE DEF u
<1>4. PICK x : Shows(flat, 1, x) /\ x[2] = subs
  <2>1. \A i \in 1 .. n : Len(inner[i]) < Huge
    OBVIOUS
  <2>2. flat = FlattenSeq([i \in 1 .. n |-> TextField(1, inner[i])])
    BY Zenon DEF DealFields
  <2> HIDE DEF n, inner, flat, subs
  <2> DEFINE flat2 == FlattenSeq([i \in 1 .. n |-> TextField(1, inner[i])])
             subs2 == [i \in 1 .. n |-> Message(inner[i])]
  <2>3. \E x : Shows(flat2, 1, x) /\ x[2] = subs2
    BY <1>1, <2>1, ItemsShow
  <2>4. flat2 = flat /\ subs2 = subs
    BY <2>2, Zenon DEF subs
  <2> HIDE DEF flat2, subs2
  <2> QED
    BY <2>3, <2>4, Zenon
<1> HIDE DEF flat, subs
<1>5. Shows(all, 1, x)
  BY <1>3, <1>4, ShowsInConcat, Zenon
<1>6. all = Spot(place, "body", more) \o Deals(f, more, place)
  BY <1>2, Zenon DEF u
<1> HIDE DEF all
<1>7. Readable(Message(all))
  BY <1>5, Zenon DEF Shows
<1>8. Submessages(Message(all), 1) = subs
  <2>1. x = <<Latest(Message(all), 1), Submessages(Message(all), 1)>>
    BY <1>5, Zenon DEF Shows, Found
  <2> QED
    BY <1>4, <2>1
<1> QED
  BY <1>6, <1>7, <1>8, Zenon DEF subs, n, inner

\* One body in a wrapper that can be read.
Holds(w, no, b) ==
    Readable(w) /\ Submessages(w, no) = <<b>> /\ \A m \in Bodies : m # no => Submessages(w, m) = <<>>

LEMMA CarriesHolds ==
    ASSUME NEW data, NEW no, NEW inner, Carries(data, no, inner)
    PROVE  Holds(Message(data), no, Message(inner)) /\ Text(Message(data), 3) = Pair
<1>1. /\ Shows(data, no, TextFound(no, inner)) /\ Shows(data, 3, TextFound(3, Pair))
      /\ \A m \in Bodies : m # no => Absent(data, m)
  BY Zenon DEF Carries, Lone
<1>2. /\ Readable(Message(data)) /\ Submessages(Message(data), no) = <<Message(inner)>>
      /\ Text(Message(data), 3) = Pair
  BY <1>1, AccessText, Zenon
<1>3. \A m \in Bodies : m # no => Submessages(Message(data), m) = <<>>
  BY <1>1, AccessAbsent, Zenon
<1> QED
  BY <1>2, <1>3, Zenon DEF Holds

LEMMA OnlyBook ==
    ASSUME NEW w, NEW b, Readable(b), Holds(w, 303, b)
    PROVE  /\ Readable(w) /\ Submessages(w, 303) # <<>>
           /\ Body(w, 303, 313) = <<b>> /\ Body(w, 314, 301) = <<>>
<1>1. Readable(w) /\ Submessages(w, 303) = <<b>> /\ Submessages(w, 314) = <<>> /\ Submessages(w, 301) = <<>>
  BY DEF Holds, Bodies
<1>2. Submessages(w, 303) # <<>>
  BY <1>1
<1>3. Body(w, 303, 313) = <<b>>
  BY <1>1, OneBody
<1>4. Body(w, 314, 301) = <<>>
  BY <1>1, NoBody
<1> QED
  BY <1>1, <1>2, <1>3, <1>4

LEMMA OnlyTrades ==
    ASSUME NEW w, NEW b, Readable(b), Holds(w, 314, b)
    PROVE  Readable(w) /\ Body(w, 314, 301) = <<b>> /\ Body(w, 303, 313) = <<>>
<1>1. Readable(w) /\ Submessages(w, 314) = <<b>> /\ Submessages(w, 303) = <<>> /\ Submessages(w, 313) = <<>>
  BY DEF Holds, Bodies
<1>2. Body(w, 314, 301) = <<b>>
  BY <1>1, OneBody
<1>3. Body(w, 303, 313) = <<>>
  BY <1>1, NoBody
<1> QED
  BY <1>1, <1>2, <1>3

LEMMA LevelIsRead ==
    ASSUME NEW l, l[1] \in Nat, l[2] \in Nat, NEW more \in Unknown \cup {<<>>}, NEW place
    PROVE  LET msg == Message(LevelBytes(l[1], l[2], more, place))
           IN  /\ msg \in Seq(AllFields) /\ Readable(msg)
               /\ Text(msg, 1) # None /\ Text(msg, 2) # None
               /\ DigitOf(Text(msg, 1)) = l[1] /\ DigitOf(Text(msg, 2)) = l[2]
<1>1. ASSUME NEW p \in Nat, NEW q \in Nat
      PROVE  LET msg == Message(LevelBytes(p, q, more, place))
             IN  /\ msg \in Seq(AllFields) /\ Readable(msg)
                 /\ Text(msg, 1) # None /\ Text(msg, 2) # None
                 /\ DigitOf(Text(msg, 1)) = p /\ DigitOf(Text(msg, 2)) = q
  <2> DEFINE d == LevelBytes(p, q, more, place)
  <2>1. d \in Data /\ Readable(Message(d)) /\ Text(Message(d), 1) = Digit(p) /\ Text(Message(d), 2) = Digit(q)
    BY LevelReads
  <2>2. Digit(p) # None /\ Digit(q) # None /\ DigitOf(Digit(p)) = p /\ DigitOf(Digit(q)) = q
    BY DigitIsData
  <2> HIDE DEF d
  <2>3. Message(d) \in Seq(AllFields)
    BY <2>1, MessageShape
  <2> QED
    BY <2>1, <2>2, <2>3, Zenon DEF d
<1> QED
  BY <1>1, Zenon

LEMMA BookOf303 ==
    ASSUME NEW data, NEW b, Readable(b), Holds(Message(data), 303, b),
           \A item \in Range(Submessages(b, 1)) : Readable(item)
    PROVE  /\ SymbolOf(Message(data), 2) = Pair =>
                ReadBook(data) = <<Update(Cut(LevelsIn(Items(b))), VersionIn(b), NoSeq, TRUE)>>
           /\ SymbolOf(Message(data), 2) # Pair => ReadBook(data) = <<>>
           /\ ReadTrades(data) = <<>>
<1>1. /\ Readable(Message(data)) /\ Submessages(Message(data), 303) # <<>>
      /\ Body(Message(data), 303, 313) = <<b>> /\ Body(Message(data), 314, 301) = <<>>
  BY OnlyBook
<1>2. ASSUME SymbolOf(Message(data), 2) = Pair
      PROVE  ReadBook(data) = <<Update(Cut(LevelsIn(Items(b))), VersionIn(b), NoSeq, TRUE)>>
  <2>1. Understood(Message(data), <<b>>, 2)
    BY <1>1, <1>2, IsUnderstood
  <2> QED
    BY <1>1, <2>1, BookUnderstood, ZenonT(40)
<1>3. SymbolOf(Message(data), 2) # Pair => ReadBook(data) = <<>>
  BY NothingUnderstood
<1>4. ReadTrades(data) = <<>>
  BY <1>1, NothingUnderstood
<1> QED
  BY <1>2, <1>3, <1>4

LEMMA TradesOf314 ==
    ASSUME NEW data, NEW b, Readable(b), Holds(Message(data), 314, b),
           \A item \in Range(Submessages(b, 1)) : Readable(item)
    PROVE  /\ SymbolOf(Message(data), 1) = Pair => ReadTrades(data) = DealsIn(Items(b))
           /\ SymbolOf(Message(data), 1) # Pair => ReadTrades(data) = <<>>
           /\ ReadBook(data) = <<>>
<1>1. /\ Readable(Message(data))
      /\ Body(Message(data), 314, 301) = <<b>> /\ Body(Message(data), 303, 313) = <<>>
  BY OnlyTrades
<1>2. ASSUME SymbolOf(Message(data), 1) = Pair
      PROVE  ReadTrades(data) = DealsIn(Items(b))
  <2>1. Understood(Message(data), <<b>>, 1)
    BY <1>1, <1>2, IsUnderstood
  <2> QED
    BY <1>1, <2>1, TradesUnderstood
<1>3. SymbolOf(Message(data), 1) # Pair => ReadTrades(data) = <<>>
  BY NothingUnderstood
<1>4. ReadBook(data) = <<>>
  BY <1>1, NothingUnderstood
<1> QED
  BY <1>2, <1>3, <1>4

\* What is read from a wrapper with the body of a book.
LEMMA BookIsRead ==
    ASSUME NEW f, IsLevels(f.levels), f.seq \in Nat, NEW more \in Unknown \cup {<<>>}, NEW place,
           \A i \in 1 .. Len(f.levels) : Len(LevelParts(f.levels, more, place)[i]) < Huge,
           NEW data, Holds(Message(data), 303, Message(Spot(place, "body", more) \o Depths(f, more, place)))
    PROVE  /\ SymbolOf(Message(data), 2) = Pair =>
                ReadBook(data) = <<Update(Cut(f.levels), f.seq, NoSeq, TRUE)>>
           /\ SymbolOf(Message(data), 2) # Pair => ReadBook(data) = <<>>
           /\ ReadTrades(data) = <<>>
<1> DEFINE w == Message(data)
           b == Message(Spot(place, "body", more) \o Depths(f, more, place))
           lv == f.levels
           n == Len(lv)
           parts == LevelParts(lv, more, place)
           subs == [i \in 1 .. n |-> Message(parts[i])]
<1>1. Holds(w, 303, b)
  BY Zenon
<1>2. Readable(b) /\ Text(b, 4) = Digit(f.seq) /\ Submessages(b, 1) = subs
  <2> HIDE DEF w, b, parts, subs, n
  <2>1. /\ Readable(Message(Spot(place, "body", more) \o Depths(f, more, place)))
        /\ Text(Message(Spot(place, "body", more) \o Depths(f, more, place)), 4) = Digit(f.seq)
    BY DepthsRead, ZenonT(40)
  <2>2. Submessages(Message(Spot(place, "body", more) \o Depths(f, more, place)), 1) =
           [i \in 1 .. Len(f.levels) |-> Message(LevelParts(f.levels, more, place)[i])]
    BY DepthsRead, SMTT(30)
  <2> QED
    BY <2>1, <2>2, Zenon DEF b, subs, n, parts
<1> HIDE DEF w, b
<1>3. /\ n \in Nat /\ DOMAIN lv = 1 .. n /\ parts \in [1 .. n -> Data]
      /\ \A i \in 1 .. n : lv[i][1] \in Nat /\ lv[i][2] \in Nat /\ lv[i] = <<lv[i][1], lv[i][2]>>
  BY LevelsFacts
<1>4. ASSUME NEW i \in 1 .. n
      PROVE  /\ subs[i] \in Seq(AllFields) /\ Readable(subs[i])
             /\ Text(subs[i], 1) # None /\ Text(subs[i], 2) # None
             /\ DigitOf(Text(subs[i], 1)) = lv[i][1] /\ DigitOf(Text(subs[i], 2)) = lv[i][2]
  <2>1. subs[i] = Message(parts[i]) /\ parts[i] = LevelBytes(lv[i][1], lv[i][2], more, place)
    BY <1>3 DEF LevelParts
  <2> DEFINE l == lv[i]
  <2>2. l[1] \in Nat /\ l[2] \in Nat /\ subs[i] = Message(LevelBytes(l[1], l[2], more, place))
    BY <1>3, <2>1
  <2> HIDE DEF l, subs, lv
  <2> QED
    BY <2>2, LevelIsRead, ZenonT(40) DEF l
<1>5. Items(b) = subs
  <2>1. subs \in [1 .. n -> Seq(AllFields)]
    BY <1>4
  <2> HIDE DEF subs, n
  <2> QED
    BY <1>2, <1>3, <1>4, <2>1, AllItems
<1>6. LevelsIn(subs) = lv
  <2>1. DOMAIN subs = 1 .. n
    OBVIOUS
  <2> HIDE DEF subs
  <2>2. LevelsIn(subs) = [i \in 1 .. n |-> <<DigitOf(Text(subs[i], 1)), DigitOf(Text(subs[i], 2))>>]
    BY <2>1, Zenon DEF LevelsIn
  <2>3. \A i \in 1 .. n : <<DigitOf(Text(subs[i], 1)), DigitOf(Text(subs[i], 2))>> = lv[i]
    BY <1>3, <1>4
  <2>4. lv = [i \in 1 .. n |-> lv[i]]
    <3>1. lv \in Seq(Nat \X Nat)
      BY DEF IsLevels
    <3> HIDE DEF lv
    <3>2. lv \in [1 .. Len(lv) -> Nat \X Nat]
      BY <3>1, LenProperties
    <3> QED
      BY <3>2
  <2> HIDE DEF lv, n
  <2> QED
    BY <2>2, <2>3, <2>4, Zenon
<1>7. VersionIn(b) = f.seq
  <2>1. Digit(f.seq) # None /\ DigitOf(Digit(f.seq)) = f.seq
    BY DigitIsData
  <2> QED
    BY <1>2, <2>1, Zenon DEF VersionIn
<1>8. \A item \in Range(Submessages(b, 1)) : Readable(item)
  <2>1. DOMAIN subs = 1 .. n
    OBVIOUS
  <2> HIDE DEF subs
  <2>2. \A item \in Range(subs) : Readable(item)
    BY <1>4, <2>1, Zenon DEF Range
  <2> QED
    BY <1>2, <2>2, Zenon
<1>9. /\ SymbolOf(Message(data), 2) = Pair =>
           ReadBook(data) = <<Update(Cut(LevelsIn(Items(b))), VersionIn(b), NoSeq, TRUE)>>
      /\ SymbolOf(Message(data), 2) # Pair => ReadBook(data) = <<>>
      /\ ReadTrades(data) = <<>>
  BY <1>1, <1>2, <1>8, BookOf303 DEF w
<1> HIDE DEF lv, subs
<1> QED
  BY <1>5, <1>6, <1>7, <1>9, Zenon DEF lv

\* An item that holds this trade.
IsDeal(msg, e) ==
    /\ msg \in Seq(AllFields) /\ Readable(msg)
    /\ Text(msg, 1) # None /\ Text(msg, 2) # None
    /\ DealIn(msg) = MexcTrade(e)

LEMMA DealIsRead ==
    ASSUME NEW e, e.trade_type \in {1, 2}, e.id \in Nat, NEW more \in Unknown \cup {<<>>}, NEW place
    PROVE  IsDeal(Message(DealBytes(e, more, place)), e)
<1> DEFINE d == DealBytes(e, more, place)
           k == e.id
           t == e.trade_type
<1>1. /\ d \in Data /\ Readable(Message(d))
      /\ Text(Message(d), 1) = Digit(1) /\ Text(Message(d), 2) = Digit(1)
      /\ Number(Message(d), 3) = t /\ Text(Message(d), 5) = Digit(k)
  BY DealReads
<1>2. k \in Nat
  OBVIOUS
<1> HIDE DEF d, k, t
<1>3. Message(d) \in Seq(AllFields)
  BY <1>1, MessageShape
<1>4. Digit(k) # None /\ DigitOf(Digit(k)) = k /\ Digit(1) # None
  BY <1>2, DigitIsData
<1>5. DealIn(Message(d)) = [trade_id |-> <<"id", k>>, side |-> SideFromTradeType(t)]
  BY <1>1, <1>4, Zenon DEF DealIn
<1>6. MexcTrade(e) = [trade_id |-> <<"id", k>>, side |-> SideFromTradeType(t)]
  BY Zenon DEF MexcTrade, k, t
<1>7. Text(Message(d), 1) # None /\ Text(Message(d), 2) # None
  BY <1>1, <1>4
<1> QED
  BY <1>1, <1>3, <1>5, <1>6, <1>7, Zenon DEF IsDeal, d

\* What is read from a wrapper with the body of the trades.
LEMMA TradesAreRead ==
    ASSUME NEW f, IsFills(f.fills), NEW more \in Unknown \cup {<<>>}, NEW place,
           \A i \in 1 .. Len(f.fills) : Len(DealParts(f.fills, more, place)[i]) < Huge,
           NEW data, Holds(Message(data), 314, Message(Spot(place, "body", more) \o Deals(f, more, place)))
    PROVE  /\ SymbolOf(Message(data), 1) = Pair =>
                ReadTrades(data) = [i \in DOMAIN f.fills |-> MexcTrade(f.fills[i])]
           /\ SymbolOf(Message(data), 1) # Pair => ReadTrades(data) = <<>>
           /\ ReadBook(data) = <<>>
<1> DEFINE w == Message(data)
           b == Message(Spot(place, "body", more) \o Deals(f, more, place))
           fl == f.fills
           n == Len(fl)
           parts == DealParts(fl, more, place)
           subs == [i \in 1 .. n |-> Message(parts[i])]
<1>1. Holds(w, 314, b)
  BY Zenon
<1>2. Readable(b) /\ Submessages(b, 1) = subs
  <2> HIDE DEF w, b, parts, subs, n
  <2>1. Readable(Message(Spot(place, "body", more) \o Deals(f, more, place)))
    BY DealsRead, SMTT(30)
  <2>2. Submessages(Message(Spot(place, "body", more) \o Deals(f, more, place)), 1) =
           [i \in 1 .. Len(f.fills) |-> Message(DealParts(f.fills, more, place)[i])]
    BY DealsRead, SMTT(30)
  <2> QED
    BY <2>1, <2>2, Zenon DEF b, subs, n, parts
<1> HIDE DEF w, b
<1>3. /\ n \in Nat /\ DOMAIN fl = 1 .. n /\ parts \in [1 .. n -> Data]
      /\ \A i \in 1 .. n : fl[i].trade_type \in {1, 2} /\ fl[i].id \in Nat
  BY DealPartsType DEF IsFills
<1>4. ASSUME NEW i \in 1 .. n
      PROVE  /\ subs[i] \in Seq(AllFields) /\ Readable(subs[i])
             /\ Text(subs[i], 1) # None /\ Text(subs[i], 2) # None
             /\ DealIn(subs[i]) = MexcTrade(fl[i])
  <2>1. subs[i] = Message(parts[i]) /\ parts[i] = DealBytes(fl[i], more, place)
    BY <1>3 DEF DealParts
  <2> DEFINE e == fl[i]
  <2>2. e.trade_type \in {1, 2} /\ e.id \in Nat /\ subs[i] = Message(DealBytes(e, more, place))
    BY <1>3, <2>1
  <2> HIDE DEF e, subs, fl
  <2>3. IsDeal(Message(DealBytes(e, more, place)), e)
    BY <2>2, DealIsRead
  <2> QED
    BY <2>2, <2>3, Zenon DEF IsDeal, e
<1>5. Items(b) = subs
  <2>1. subs \in [1 .. n -> Seq(AllFields)]
    BY <1>4
  <2> HIDE DEF subs, n
  <2> QED
    BY <1>2, <1>3, <1>4, <2>1, AllItems
<1>6. DealsIn(subs) = [i \in DOMAIN fl |-> MexcTrade(fl[i])]
  <2>1. DOMAIN subs = 1 .. n
    OBVIOUS
  <2> HIDE DEF subs
  <2>2. DealsIn(subs) = [i \in 1 .. n |-> DealIn(subs[i])]
    BY <2>1, Zenon DEF DealsIn
  <2> HIDE DEF fl, n
  <2> QED
    BY <1>3, <1>4, <2>2, Zenon
<1>8. \A item \in Range(Submessages(b, 1)) : Readable(item)
  <2>1. DOMAIN subs = 1 .. n
    OBVIOUS
  <2> HIDE DEF subs
  <2>2. \A item \in Range(subs) : Readable(item)
    BY <1>4, <2>1, Zenon DEF Range
  <2> QED
    BY <1>2, <2>2, Zenon
<1>9. /\ SymbolOf(Message(data), 1) = Pair => ReadTrades(data) = DealsIn(Items(b))
      /\ SymbolOf(Message(data), 1) # Pair => ReadTrades(data) = <<>>
      /\ ReadBook(data) = <<>>
  BY <1>1, <1>2, <1>8, TradesOf314 DEF w
<1> HIDE DEF fl, subs
<1> QED
  BY <1>5, <1>6, <1>9, Zenon DEF fl

-----------------------------------------------------------------------------
(* What MEXC sends.                                                        *)

BookTopic == <<83, At, 69, At, 50>>
TradesTopic == <<83, At, 49, At, 69>>

IsTop(c) == c.kind = "top" /\ c.kind # "trades" /\ IsLevels(c.levels) /\ c.seq \in Nat
IsTrades(c) == c.kind = "trades" /\ IsFills(c.fills)

LEMMA TopicsAreData ==
    /\ BookTopic \in Data /\ Len(BookTopic) < Huge
    /\ TradesTopic \in Data /\ Len(TradesTopic) < Huge
BY HugeIsNat DEF BookTopic, TradesTopic, Data, At

LEMMA ContentFacts ==
    ASSUME NEW c \in Contents
    PROVE  IsTop(c) \/ IsTrades(c)
<1>1. ASSUME NEW b \in Books, NEW v \in 1 .. MaxEvents + 1,
             c = [kind |-> "top", levels |-> Listing(b), fills |-> <<>>, seq |-> v, prev |-> NoSeq]
      PROVE  IsTop(c)
  <2> DEFINE L == Listing(b)
  <2>1. IsSequence(L) /\ \A i \in 1 .. Len(L) : L[i] \in Nat \X Nat
    <3>1. IsBook(b) /\ \A p \in DOMAIN b : b[p] \in Nat
      BY BookFacts, FeedAssumption, ZenonT(40) DEF Books
    <3>2. Strict(L) /\ Describes(L, b)
      BY <3>1, ListingOfBook
    <3> HIDE DEF L
    <3>3. DOMAIN L = 1 .. Len(L)
      BY <3>2, SequenceDomain DEF Strict
    <3>4. \A i \in 1 .. Len(L) : L[i] = <<L[i][1], L[i][2]>> /\ L[i][1] \in Nat /\ L[i][2] \in Nat
      BY <3>1, <3>2, <3>3 DEF Strict, Describes
    <3>5. ASSUME NEW i \in 1 .. Len(L) PROVE L[i] \in Nat \X Nat
      <4> DEFINE p == L[i][1]
                 q == L[i][2]
      <4>1. L[i] = <<p, q>> /\ p \in Nat /\ q \in Nat
        BY <3>4
      <4> HIDE DEF p, q
      <4> QED
        BY <4>1
    <3> QED
      BY <3>2, <3>5 DEF Strict
  <2> HIDE DEF L
  <2>2. L \in Seq(Nat \X Nat)
    <3>1. Len(L) \in Nat /\ L = [i \in 1 .. Len(L) |-> L[i]]
      BY <2>1, SequenceDomain
    <3>2. L \in [1 .. Len(L) -> Nat \X Nat]
      BY <2>1, <3>1
    <3> QED
      BY <3>1, <3>2, SeqDef
  <2>3. c.kind = "top" /\ c.levels = L /\ c.seq = v /\ c.kind # "trades"
    BY <1>1 DEF L
  <2>4. v \in Nat
    BY FeedAssumption
  <2> QED
    BY <2>2, <2>3, <2>4 DEF IsTop, IsLevels
<1>2. ASSUME NEW n \in 0 .. MaxEvents - 1, NEW m \in 1 .. MaxEvents,
             NEW ts \in [1 .. MaxEvents -> [stamp : Stamps, taker : {"buy", "sell"}]],
             c = [kind |-> "trades", levels |-> <<>>, seq |-> NoSeq, prev |-> NoSeq,
                  fills |-> Told(n, m, ts)]
      PROVE  IsTrades(c)
  <2> DEFINE F == [i \in 1 .. m - n |-> FillOf(n + i, ts[n + i])]
             k == IF m - n >= 0 THEN m - n ELSE 0
  <2>1. k \in Nat /\ 1 .. k = 1 .. m - n /\ n \in Nat
    BY FeedAssumption
  <2>2. \A i \in 1 .. k : F[i] = FillOf(n + i, ts[n + i])
    BY <2>1
  <2>3. F = [i \in 1 .. k |-> F[i]]
    BY <2>1
  <2> HIDE DEF F, k
  <2>4. Len(F) = k /\ DOMAIN F = 1 .. k
    BY <2>1, <2>3, FunctionIsSequence
  <2>5. \A i \in 1 .. k : F[i].trade_type \in {1, 2} /\ F[i].id \in Nat
    <3>1. ASSUME NEW j \in Nat, NEW t PROVE FillOf(j, t).trade_type \in {1, 2} /\ FillOf(j, t).id \in Nat
      BY DEF FillOf
    <3>2. \A i \in 1 .. k : n + i \in Nat
      BY <2>1
    <3> QED
      BY <2>2, <3>1, <3>2, Zenon
  <2>6. c.kind = "trades" /\ c.fills = F
    BY <1>2 DEF F, Told
  <2> QED
    BY <2>1, <2>4, <2>5, <2>6 DEF IsTrades, IsFills
<1>3. \/ \E b \in Books, v \in 1 .. MaxEvents + 1 :
           c = [kind |-> "top", levels |-> Listing(b), fills |-> <<>>, seq |-> v, prev |-> NoSeq]
      \/ \E n \in 0 .. MaxEvents - 1, m \in 1 .. MaxEvents,
            ts \in [1 .. MaxEvents -> [stamp : Stamps, taker : {"buy", "sell"}]] :
           c = [kind |-> "trades", levels |-> <<>>, seq |-> NoSeq, prev |-> NoSeq,
                fills |-> Told(n, m, ts)]
  BY DEF Contents
<1> QED
  BY <1>1, <1>2, <1>3, Zenon

LEMMA EncodedTop ==
    ASSUME NEW c \in Contents, IsTop(c), NEW more \in Unknown \cup {<<>>}, NEW place \in Places
    PROVE  /\ Encoded(c, more, place) = Wrapped(BookTopic, 303, Depths(c, more, place), more, place)
           /\ Spot(place, "body", more) \o Depths(c, more, place) \in Data
           /\ Len(Spot(place, "body", more) \o Depths(c, more, place)) < Huge
           /\ \A i \in 1 .. Len(c.levels) : Len(LevelParts(c.levels, more, place)[i]) < Huge
           /\ Meant(c) = << <<Update(Cut(c.levels), c.seq, NoSeq, TRUE)>>, <<>> >>
<1> DEFINE body == Depths(c, more, place)
           inner == Spot(place, "body", more) \o body
           parts == LevelParts(c.levels, more, place)
           all == Wrapped(BookTopic, 303, body, more, place)
<1>1. Encoded(c, more, place) = all
  BY Zenon DEF Encoded, IsTop, BookTopic
<1>2. Len(all) < Huge
  BY <1>1, FrameSizeAssumption, Zenon
<1>3. /\ body \in Data /\ Len(body) \in Nat
      /\ \A i \in 1 .. Len(c.levels) : Len(parts[i]) \in Nat /\ Len(parts[i]) <= Len(body)
  BY DepthsFit DEF IsTop
<1> HIDE DEF body, parts
<1>4. /\ inner \in Data /\ Len(inner) \in Nat /\ Len(body) \in Nat /\ Len(all) \in Nat
      /\ Len(body) <= Len(inner) /\ Len(inner) <= Len(all)
  <2>1. 303 \in Bodies /\ BookTopic \in Data
    BY TopicsAreData DEF Bodies
  <2> QED
    BY <1>3, <2>1, WrapperFits
<1>5. Meant(c) = << <<Update(Cut(c.levels), c.seq, NoSeq, TRUE)>>, <<>> >>
  BY Zenon DEF Meant, MexcParse, OnlyIf, OfBook, IsTop
<1> HIDE DEF inner, all
<1>6. Len(inner) < Huge /\ \A i \in 1 .. Len(c.levels) : Len(parts[i]) < Huge
  BY <1>2, <1>3, <1>4, HugeIsNat
<1> QED
  BY <1>1, <1>4, <1>5, <1>6, Zenon DEF body, inner, all, parts

LEMMA EncodedTrades ==
    ASSUME NEW c \in Contents, IsTrades(c), NEW more \in Unknown \cup {<<>>}, NEW place \in Places
    PROVE  /\ Encoded(c, more, place) = Wrapped(TradesTopic, 314, Deals(c, more, place), more, place)
           /\ Spot(place, "body", more) \o Deals(c, more, place) \in Data
           /\ Len(Spot(place, "body", more) \o Deals(c, more, place)) < Huge
           /\ \A i \in 1 .. Len(c.fills) : Len(DealParts(c.fills, more, place)[i]) < Huge
           /\ Meant(c) = << <<>>, [i \in DOMAIN c.fills |-> MexcTrade(c.fills[i])] >>
<1> DEFINE body == Deals(c, more, place)
           inner == Spot(place, "body", more) \o body
           parts == DealParts(c.fills, more, place)
           all == Wrapped(TradesTopic, 314, body, more, place)
<1>1. Encoded(c, more, place) = all
  BY Zenon DEF Encoded, IsTrades, TradesTopic
<1>2. Len(all) < Huge
  BY <1>1, FrameSizeAssumption, ZenonT(40)
<1>3. /\ body \in Data /\ Len(body) \in Nat
      /\ \A i \in 1 .. Len(c.fills) : Len(parts[i]) \in Nat /\ Len(parts[i]) <= Len(body)
  BY DealsFit DEF IsTrades
<1> HIDE DEF body, parts
<1>4. /\ inner \in Data /\ Len(inner) \in Nat /\ Len(body) \in Nat /\ Len(all) \in Nat
      /\ Len(body) <= Len(inner) /\ Len(inner) <= Len(all)
  <2>1. 314 \in Bodies /\ TradesTopic \in Data
    BY TopicsAreData DEF Bodies
  <2> QED
    BY <1>3, <2>1, WrapperFits
<1>5. Meant(c) = << <<>>, [i \in DOMAIN c.fills |-> MexcTrade(c.fills[i])] >>
  BY Zenon DEF Meant, MexcParse, OnlyIf, OfBook, IsTrades
<1> HIDE DEF inner, all
<1>6. Len(inner) < Huge /\ \A i \in 1 .. Len(c.fills) : Len(parts[i]) < Huge
  BY <1>2, <1>3, <1>4, HugeIsNat
<1> QED
  BY <1>1, <1>4, <1>5, <1>6, Zenon DEF body, inner, all, parts

LEMMA TopGives ==
    ASSUME NEW c, IsTop(c), NEW more \in Unknown \cup {<<>>}, NEW place,
           \A i \in 1 .. Len(c.levels) : Len(LevelParts(c.levels, more, place)[i]) < Huge,
           NEW data, Holds(Message(data), 303, Message(Spot(place, "body", more) \o Depths(c, more, place)))
    PROVE  /\ SymbolOf(Message(data), 2) = Pair =>
                Read(data) = << <<Update(Cut(c.levels), c.seq, NoSeq, TRUE)>>, <<>> >>
           /\ SymbolOf(Message(data), 2) # Pair => Read(data) = Nothing
<1>1. IsLevels(c.levels) /\ c.seq \in Nat
  BY DEF IsTop
<1>2. /\ SymbolOf(Message(data), 2) = Pair =>
           ReadBook(data) = <<Update(Cut(c.levels), c.seq, NoSeq, TRUE)>>
      /\ SymbolOf(Message(data), 2) # Pair => ReadBook(data) = <<>>
      /\ ReadTrades(data) = <<>>
  BY <1>1, BookIsRead
<1> QED
  BY <1>2, Zenon DEF Read, Nothing

LEMMA TradesGive ==
    ASSUME NEW c, IsTrades(c), NEW more \in Unknown \cup {<<>>}, NEW place,
           \A i \in 1 .. Len(c.fills) : Len(DealParts(c.fills, more, place)[i]) < Huge,
           NEW data, Holds(Message(data), 314, Message(Spot(place, "body", more) \o Deals(c, more, place)))
    PROVE  /\ SymbolOf(Message(data), 1) = Pair =>
                Read(data) = << <<>>, [i \in DOMAIN c.fills |-> MexcTrade(c.fills[i])] >>
           /\ SymbolOf(Message(data), 1) # Pair => Read(data) = Nothing
<1>1. IsFills(c.fills)
  BY DEF IsTrades
<1>2. /\ SymbolOf(Message(data), 1) = Pair =>
           ReadTrades(data) = [i \in DOMAIN c.fills |-> MexcTrade(c.fills[i])]
      /\ SymbolOf(Message(data), 1) # Pair => ReadTrades(data) = <<>>
      /\ ReadBook(data) = <<>>
  BY <1>1, TradesAreRead
<1> QED
  BY <1>2, Zenon DEF Read, Nothing

\* Whatever holds the body of a frame and names the pair is read as the frame is meant,
\* and without the pair as nothing.
LEMMA TopIsMeant ==
    ASSUME NEW c \in Contents, IsTop(c), NEW more \in Unknown \cup {<<>>}, NEW place \in Places,
           NEW data, Holds(Message(data), 303, Message(Spot(place, "body", more) \o Depths(c, more, place)))
    PROVE  /\ SymbolOf(Message(data), 2) = Pair => Read(data) = Meant(c)
           /\ SymbolOf(Message(data), 2) # Pair => Read(data) = Nothing
<1>1. /\ \A i \in 1 .. Len(c.levels) : Len(LevelParts(c.levels, more, place)[i]) < Huge
      /\ Meant(c) = << <<Update(Cut(c.levels), c.seq, NoSeq, TRUE)>>, <<>> >>
  BY EncodedTop
<1>2. /\ SymbolOf(Message(data), 2) = Pair =>
           Read(data) = << <<Update(Cut(c.levels), c.seq, NoSeq, TRUE)>>, <<>> >>
      /\ SymbolOf(Message(data), 2) # Pair => Read(data) = Nothing
  BY <1>1, TopGives, ZenonT(40)
<1> QED
  BY <1>1, <1>2, Zenon

LEMMA TradesAreMeant ==
    ASSUME NEW c \in Contents, IsTrades(c), NEW more \in Unknown \cup {<<>>}, NEW place \in Places,
           NEW data, Holds(Message(data), 314, Message(Spot(place, "body", more) \o Deals(c, more, place)))
    PROVE  /\ SymbolOf(Message(data), 1) = Pair => Read(data) = Meant(c)
           /\ SymbolOf(Message(data), 1) # Pair => Read(data) = Nothing
<1>1. /\ \A i \in 1 .. Len(c.fills) : Len(DealParts(c.fills, more, place)[i]) < Huge
      /\ Meant(c) = << <<>>, [i \in DOMAIN c.fills |-> MexcTrade(c.fills[i])] >>
  BY EncodedTrades
<1>2. /\ SymbolOf(Message(data), 1) = Pair =>
           Read(data) = << <<>>, [i \in DOMAIN c.fills |-> MexcTrade(c.fills[i])] >>
      /\ SymbolOf(Message(data), 1) # Pair => Read(data) = Nothing
  BY <1>1, TradesGive
<1> QED
  BY <1>1, <1>2, Zenon

\* Every frame, as it is or grown, holds its body and names the pair.
LEMMA EncodedCarries ==
    ASSUME NEW c \in Contents, NEW more \in Unknown \cup {<<>>}, NEW place \in Places
    PROVE  /\ IsTop(c) =>
                Carries(Encoded(c, more, place), 303, Spot(place, "body", more) \o Depths(c, more, place))
           /\ IsTrades(c) =>
                Carries(Encoded(c, more, place), 314, Spot(place, "body", more) \o Deals(c, more, place))
<1>1. ASSUME IsTop(c)
      PROVE  Carries(Encoded(c, more, place), 303, Spot(place, "body", more) \o Depths(c, more, place))
  <2> DEFINE body == Depths(c, more, place)
             k == 303
  <2>0. Encoded(c, more, place) = Wrapped(BookTopic, 303, Depths(c, more, place), more, place)
    BY <1>1, Zenon DEF Encoded, IsTop, BookTopic
  <2>1. Encoded(c, more, place) = Wrapped(BookTopic, k, body, more, place)
    BY <2>0
  <2>4. Spot(place, "body", more) \o body \in Data
    BY <1>1, EncodedTop
  <2>5. Len(Spot(place, "body", more) \o body) < Huge
    BY <1>1, EncodedTop
  <2>2. k \in Bodies
    BY DEF Bodies
  <2> HIDE DEF k, body
  <2>3. Carries(Wrapped(BookTopic, k, body, more, place), k, Spot(place, "body", more) \o body)
    BY <2>4, <2>5, <2>2, TopicsAreData, WrapperReads
  <2> QED
    BY <2>1, <2>3, Zenon DEF k, body
<1>2. ASSUME IsTrades(c)
      PROVE  Carries(Encoded(c, more, place), 314, Spot(place, "body", more) \o Deals(c, more, place))
  <2> DEFINE body == Deals(c, more, place)
             k == 314
  <2>1. /\ Encoded(c, more, place) = Wrapped(TradesTopic, k, body, more, place)
        /\ Spot(place, "body", more) \o body \in Data
        /\ Len(Spot(place, "body", more) \o body) < Huge
    BY <1>2, EncodedTrades
  <2>2. k \in Bodies
    BY DEF Bodies
  <2> HIDE DEF k, body
  <2>3. Carries(Wrapped(TradesTopic, k, body, more, place), k, Spot(place, "body", more) \o body)
    BY <2>1, <2>2, TopicsAreData, WrapperReads
  <2> QED
    BY <2>1, <2>3, Zenon DEF k, body
<1> QED
  BY <1>1, <1>2

\* And is read as it is meant.
LEMMA EncodedIsRead ==
    ASSUME NEW c \in Contents, NEW more \in Unknown \cup {<<>>}, NEW place \in Places
    PROVE  Read(Encoded(c, more, place)) = Meant(c)
<1> DEFINE data == Encoded(c, more, place)
<1>1. CASE IsTop(c)
  <2> DEFINE inner == Spot(place, "body", more) \o Depths(c, more, place)
  <2>1. Carries(data, 303, inner)
    BY <1>1, EncodedCarries
  <2> HIDE DEF data
  <2>2. Holds(Message(data), 303, Message(inner)) /\ SymbolOf(Message(data), 2) = Pair
    BY <2>1, CarriesHolds, SymbolIsRead
  <2>3. Read(data) = Meant(c)
    BY <1>1, <2>2, TopIsMeant
  <2> QED
    BY <2>3 DEF data
<1>2. CASE IsTrades(c)
  <2> DEFINE inner == Spot(place, "body", more) \o Deals(c, more, place)
  <2>1. Carries(data, 314, inner)
    BY <1>2, EncodedCarries
  <2> HIDE DEF data
  <2>2. Holds(Message(data), 314, Message(inner)) /\ SymbolOf(Message(data), 1) = Pair
    BY <2>1, CarriesHolds, SymbolIsRead
  <2>3. Read(data) = Meant(c)
    BY <1>2, <2>2, TradesAreMeant
  <2> QED
    BY <2>3 DEF data
<1> QED
  BY <1>1, <1>2, ContentFacts

-----------------------------------------------------------------------------
(* Frames that were cut.                                                   *)

\* A sequence of one, in two parts.
LEMMA OneInTwoParts ==
    ASSUME NEW S, NEW s \in Seq(S), NEW t \in Seq(S), NEW x, s \o t = <<x>>
    PROVE  s = <<>> \/ s = <<x>>
<1>1. Len(s) \in Nat /\ Len(t) \in Nat /\ Len(s \o t) = Len(s) + Len(t)
      /\ \A i \in 1 .. Len(s) + Len(t) : (s \o t)[i] = IF i <= Len(s) THEN s[i] ELSE t[i - Len(s)]
  BY ConcatProperties, LenProperties
<1> DEFINE c == s \o t
<1>2. Len(c) = 1 /\ c[1] = x
  <2> DEFINE o == <<x>>
  <2>1. c = o
    OBVIOUS
  <2>2. Len(o) = 1 /\ o[1] = x
    OBVIOUS
  <2> HIDE DEF c, o
  <2> QED
    BY <2>1, <2>2
<1> HIDE DEF c
<1>3. CASE Len(s) = 0
  BY <1>3, EmptySeq
<1>4. CASE Len(s) = 1
  <2>1. s[1] = x
    <3>1. 1 \in 1 .. Len(s) + Len(t) /\ 1 <= Len(s)
      BY <1>1, <1>4
    <3>2. c[1] = s[1]
      BY <1>1, <3>1 DEF c
    <3> QED
      BY <1>2, <3>2
  <2>2. s = [i \in 1 .. 1 |-> s[i]]
    BY <1>4, LenProperties
  <2>3. s = [i \in 1 .. 1 |-> x]
    BY <2>1, <2>2
  <2>4. <<x>> = [i \in 1 .. 1 |-> x]
    OBVIOUS
  <2> QED
    BY <2>3, <2>4, Zenon
<1>5. Len(s) = 0 \/ Len(s) = 1
  BY <1>1, <1>2 DEF c
<1> QED
  BY <1>3, <1>4, <1>5

LEMMA NothingInTwoParts ==
    ASSUME NEW S, NEW s \in Seq(S), NEW t \in Seq(S), s \o t = <<>>
    PROVE  s = <<>>
<1>1. Len(s) \in Nat /\ Len(t) \in Nat /\ Len(s \o t) = Len(s) + Len(t)
  BY ConcatProperties, LenProperties
<1>2. Len(s \o t) = 0
  BY EmptySeq
<1> DEFINE c == s \o t
<1>3. Len(c) = 0 /\ Len(c) = Len(s) + Len(t)
  BY <1>1, <1>2, Zenon
<1> HIDE DEF c
<1>4. Len(s) = 0
  BY <1>1, <1>3
<1> QED
  BY <1>4, EmptySeq

\* The first part of a wrapper holds its body, or none.
LEMMA HoldsOrNothing ==
    ASSUME NEW a \in Data, NEW b \in Data, NEW no \in Bodies, NEW x,
           Readable(Message(a)), Holds(Message(a \o b), no, x)
    PROVE  \/ Holds(Message(a), no, x)
           \/ \A m \in Bodies : Submessages(Message(a), m) = <<>>
<1> DEFINE s == Message(a)
           t == Message(b)
           T == Seq(AllFields)
<1>1. Message(a \o b) = s \o t
  BY MessageOfConcat
<1>2. s \in Seq(GoodFields) /\ t \in Seq(AllFields)
  BY MessageShape
<1>3. Readable(s \o t) /\ Submessages(s \o t, no) = <<x>>
      /\ \A m \in Bodies : m # no => Submessages(s \o t, m) = <<>>
  BY <1>1, Zenon DEF Holds
<1>4. Readable(s)
  OBVIOUS
<1> HIDE DEF s, t
<1>5. t \in Seq(GoodFields)
  <2>1. s \in Seq(AllFields)
    BY <1>2, GoodAreAll
  <2>2. Readable(t)
    BY <1>2, <1>3, <2>1, ReadableConcat
  <2> QED
    BY <2>2, MessageShape DEF t
<1>6. /\ Submessages(s, no) \in Seq(T) /\ Submessages(t, no) \in Seq(T)
      /\ Submessages(s, no) \o Submessages(t, no) = <<x>>
  BY <1>2, <1>3, <1>5, SubmessagesType, SubmessagesOfConcat
<1>7. \A m \in Bodies : m # no => Submessages(s, m) = <<>>
  <2> SUFFICES ASSUME NEW m \in Bodies, m # no PROVE Submessages(s, m) = <<>>
    OBVIOUS
  <2>1. /\ Submessages(s, m) \in Seq(T) /\ Submessages(t, m) \in Seq(T)
        /\ Submessages(s, m) \o Submessages(t, m) = <<>>
    BY <1>2, <1>3, <1>5, SubmessagesType, SubmessagesOfConcat
  <2> QED
    BY <2>1, NothingInTwoParts
<1>8. Submessages(s, no) = <<>> \/ Submessages(s, no) = <<x>>
  BY <1>6, OneInTwoParts
<1>9. CASE Submessages(s, no) = <<x>>
  BY <1>4, <1>7, <1>9, Zenon DEF Holds, s
<1>10. CASE Submessages(s, no) = <<>>
  BY <1>7, <1>10, Zenon DEF s
<1> QED
  BY <1>8, <1>9, <1>10

\* Without a body nothing is read.
LEMMA NothingToRead ==
    ASSUME NEW data,
           \/ ~Readable(Message(data))
           \/ \A m \in Bodies : Submessages(Message(data), m) = <<>>
    PROVE  Read(data) = Nothing
<1> DEFINE w == Message(data)
<1>1. Body(w, 303, 313) = <<>> /\ Body(w, 314, 301) = <<>>
  <2>1. CASE ~Readable(w)
    BY <2>1, NoBody
  <2>2. CASE \A m \in Bodies : Submessages(w, m) = <<>>
    <3>1. Submessages(w, 303) = <<>> /\ Submessages(w, 313) = <<>>
          /\ Submessages(w, 314) = <<>> /\ Submessages(w, 301) = <<>>
      BY <2>2 DEF Bodies
    <3> QED
      BY <3>1, NoBody
  <2> QED
    BY <2>1, <2>2
<1>2. ReadBook(data) = <<>> /\ ReadTrades(data) = <<>>
  BY <1>1, NothingUnderstood
<1> QED
  BY <1>2, Zenon DEF Read, Nothing

\* The beginning of a frame is read as the frame or as nothing.
LEMMA BeginningIsRead ==
    ASSUME NEW c \in Contents, NEW more \in Unknown \cup {<<>>}, NEW place \in Places,
           NEW a \in Data, NEW b \in Data, a \o b = Encoded(c, more, place)
    PROVE  Read(a) = Meant(c) \/ Read(a) = Nothing
<1>1. CASE ~Readable(Message(a))
  BY <1>1, NothingToRead
<1>2. CASE Readable(Message(a)) /\ IsTop(c)
  <2> DEFINE inner == Spot(place, "body", more) \o Depths(c, more, place)
             data == a \o b
  <2>1. Carries(data, 303, inner)
    BY <1>2, EncodedCarries
  <2> HIDE DEF data
  <2>2. Holds(Message(data), 303, Message(inner)) /\ 303 \in Bodies
    BY <2>1, CarriesHolds DEF Bodies
  <2>3. \/ Holds(Message(a), 303, Message(inner))
        \/ \A m \in Bodies : Submessages(Message(a), m) = <<>>
    <3> HIDE DEF inner
    <3> QED
      BY <1>2, <2>2, HoldsOrNothing DEF data
  <2>4. CASE Holds(Message(a), 303, Message(inner))
    BY <1>2, <2>4, TopIsMeant
  <2> QED
    BY <2>3, <2>4, NothingToRead
<1>3. CASE Readable(Message(a)) /\ IsTrades(c)
  <2> DEFINE inner == Spot(place, "body", more) \o Deals(c, more, place)
             data == a \o b
  <2>1. Carries(data, 314, inner)
    BY <1>3, EncodedCarries
  <2> HIDE DEF data
  <2>2. Holds(Message(data), 314, Message(inner)) /\ 314 \in Bodies
    BY <2>1, CarriesHolds DEF Bodies
  <2>3. \/ Holds(Message(a), 314, Message(inner))
        \/ \A m \in Bodies : Submessages(Message(a), m) = <<>>
    <3> HIDE DEF inner
    <3> QED
      BY <1>3, <2>2, HoldsOrNothing DEF data
  <2>4. CASE Holds(Message(a), 314, Message(inner))
    BY <1>3, <2>4, TradesAreMeant, ZenonT(40)
  <2> QED
    BY <2>3, <2>4, NothingToRead
<1> QED
  BY <1>1, <1>2, <1>3, ContentFacts

-----------------------------------------------------------------------------
(* What is on the wire.                                                    *)

\* Every frame of MEXC is one of those whose bytes are looked at.
MexcOnWire == feed = "mexc" => \A i \in 1 .. Len(wire) : Content(wire[i]) \in Contents

LEMMA TopContent ==
    ASSUME TypeOK, feed = "mexc"
    PROVE  Content(Frame("top", Listing(truth[Version]), NoSeq)) \in Contents
<1> DEFINE b == truth[Version]
           v == Version
           frame == Frame("top", Listing(b), NoSeq)
           content == [kind |-> "top", levels |-> Listing(b), fills |-> <<>>, seq |-> v, prev |-> NoSeq]
<1>1. v \in 1 .. MaxEvents + 1 /\ b \in Books
  <2>1. Version \in 1 .. MaxEvents + 1 /\ Version \in 1 .. Len(truth) /\ truth \in Seq(Books)
    BY FeedAssumption DEF TypeOK, Version
  <2> QED
    BY <2>1, ElementOfSeq
<1>2. /\ frame.kind = "top" /\ frame.levels = Listing(b) /\ frame.fills = <<>> /\ frame.seq = v
  BY DEF Frame, Fixed
<1> HIDE DEF frame
<1>3. Content(frame) = content
  BY <1>2 DEF Content
<1> HIDE DEF b, v
<1>4. content \in Contents
  BY <1>1 DEF Contents
<1> QED
  BY <1>3, <1>4, Zenon DEF frame, b

LEMMA TradesContent ==
    ASSUME TypeOK, told < Len(tape), IsSequence(tape)
    PROVE  Content([Frame("trades", <<>>, NoSeq) EXCEPT !.fills = Fills(told)]) \in Contents
<1> DEFINE frame == [Frame("trades", <<>>, NoSeq) EXCEPT !.fills = Fills(told)]
           n == told
           m == Len(tape)
           ts == [k \in 1 .. MaxEvents |-> IF k <= m THEN tape[k] ELSE tape[1]]
           F == [i \in 1 .. m - n |-> FillOf(n + i, ts[n + i])]
           content == [kind |-> "trades", levels |-> <<>>, seq |-> NoSeq, prev |-> NoSeq, fills |-> F]
<1>1. n \in 0 .. MaxEvents - 1 /\ m \in 1 .. MaxEvents /\ DOMAIN tape = 1 .. m
  <2>1. Len(tape) \in Nat /\ DOMAIN tape = 1 .. Len(tape)
    BY SequenceDomain
  <2>2. told \in 0 .. Len(tape) /\ Len(tape) <= MaxEvents /\ MaxEvents \in Nat
    BY FeedAssumption DEF TypeOK
  <2> QED
    BY <2>1, <2>2
<1>2. \A k \in 1 .. m : tape[k] \in [stamp : Stamps, taker : {"buy", "sell"}]
  BY <1>1 DEF TypeOK
<1>3. ts \in [1 .. MaxEvents -> [stamp : Stamps, taker : {"buy", "sell"}]]
  <2>1. 1 \in 1 .. m /\ \A k \in 1 .. MaxEvents : k <= m => k \in 1 .. m
    BY <1>1
  <2> HIDE DEF m
  <2> QED
    BY <1>2, <2>1
<1>4. Fills(told) = F
  <2>1. Fills(told) = [i \in 1 .. m - n |-> FillOf(n + i, tape[n + i])]
    BY Zenon DEF Fills, Fill
  <2>2. ASSUME NEW i \in 1 .. m - n PROVE ts[n + i] = tape[n + i]
    <3>0. n \in Nat /\ m \in Nat /\ MaxEvents \in Nat /\ m <= MaxEvents
      <4>1. MaxEvents \in Nat
        BY FeedAssumption
      <4> HIDE DEF m, n
      <4> QED
        BY <1>1, <4>1
    <3> HIDE DEF m, n, ts, F, frame, content
    <3>1. n + i \in 1 .. MaxEvents /\ n + i <= m
      BY <3>0
    <3> USE DEF ts
    <3> QED
      BY <3>1
  <2> HIDE DEF ts, m, n
  <2> QED
    BY <2>1, <2>2, Zenon
<1>5. frame.kind = "trades" /\ frame.levels = <<>> /\ frame.fills = Fills(told)
  BY DEF Frame, Reversed
<1> HIDE DEF frame, F
<1>6. Content(frame) = content
  BY <1>4, <1>5 DEF Content
<1>7. content \in Contents
  <2> HIDE DEF ts, m, n
  <2>1. content = [kind |-> "trades", levels |-> <<>>, seq |-> NoSeq, prev |-> NoSeq,
                   fills |-> Told(n, m, ts)]
    BY Zenon DEF F, Told
  <2> HIDE DEF content
  <2> QED
    BY <1>1, <1>3, <2>1 DEF Contents
<1> QED
  BY <1>6, <1>7, Zenon DEF frame

LEMMA StepKeepsMexc ==
    ASSUME TypeOK, BookInv, TapeInv, MexcOnWire, [Next]_vars
    PROVE  MexcOnWire'
<1> SUFFICES ASSUME feed' = "mexc" PROVE \A i \in 1 .. Len(wire') : Content(wire'[i]) \in Contents
  BY DEF MexcOnWire
<1>0. feed = "mexc"
  BY DEF Next, vars, Quote, Match, PushSnapshot, PushDelta, PushTop, PushTrades, Send, Connect, Drop, Down,
         HandleUpdate, HandleGap, HandleNothing, HandleTrades, StartRest, Answer, PollBook, PollBlank,
         PollTrades, PollFails, StopRest
<1>1. IsSequence(wire) /\ IsSequence(tape) /\ Len(wire) \in Nat
      /\ \A i \in 1 .. Len(wire) : Content(wire[i]) \in Contents
  BY <1>0, AppendOne DEF BookInv, BookShape, ViewInv, WireInOrder, MexcOnWire
<1>2. ASSUME wire' = wire PROVE \A i \in 1 .. Len(wire') : Content(wire'[i]) \in Contents
  BY <1>1, <1>2
<1>3. ASSUME wire' = <<>> PROVE \A i \in 1 .. Len(wire') : Content(wire'[i]) \in Contents
  BY <1>3, EmptyIsSequence
<1>4. ASSUME wire # <<>>, wire' = Tail(wire) PROVE \A i \in 1 .. Len(wire') : Content(wire'[i]) \in Contents
  <2>1. /\ Len(wire') = Len(wire) - 1
        /\ \A i \in 1 .. Len(wire') : wire'[i] = wire[i + 1]
    BY <1>1, <1>4, TakeOne
  <2> QED
    BY <1>1, <2>1
<1>5. ASSUME NEW frame, Content(frame) \in Contents, wire' = Append(wire, frame)
      PROVE  \A i \in 1 .. Len(wire') : Content(wire'[i]) \in Contents
  <2>1. /\ Len(wire') = Len(wire) + 1
        /\ \A i \in 1 .. Len(wire) : wire'[i] = wire[i]
        /\ wire'[Len(wire) + 1] = frame
    BY <1>1, <1>5, AppendOne
  <2>2. ASSUME NEW i \in 1 .. Len(wire')
        PROVE  Content(wire'[i]) \in Contents
    <3>1. CASE i = Len(wire) + 1
      BY <1>5, <2>1, <3>1
    <3>2. CASE i \in 1 .. Len(wire)
      BY <1>1, <2>1, <3>2
    <3> QED
      BY <1>1, <2>1, <3>1, <3>2
  <2> QED
    BY <2>2
<1>6. CASE \/ \E b \in Books : Quote(b)
           \/ \E stamp \in Stamps, taker \in {"buy", "sell"} : Match(stamp, taker)
           \/ StartRest \/ Answer \/ PollBook \/ PollBlank \/ PollTrades \/ PollFails \/ StopRest
           \/ UNCHANGED vars
  BY <1>2, <1>6 DEF Quote, Match, StartRest, Answer, PollBook, PollBlank, PollTrades, PollFails, StopRest,
                    channel, vars
<1>7. CASE PushSnapshot \/ PushDelta
  BY <1>0, <1>7 DEF PushSnapshot, PushDelta, Chained, Unchained
<1>8. CASE PushTop
  <2> DEFINE frame == Frame("top", Listing(truth[Version]), NoSeq)
  <2>1. Content(frame) \in Contents
    BY <1>0, TopContent
  <2>2. wire' = wire \/ wire' = Append(wire, frame)
    BY <1>8 DEF PushTop, Send
  <2> HIDE DEF frame
  <2> QED
    BY <1>2, <1>5, <2>1, <2>2
<1>9. CASE PushTrades
  <2> DEFINE frame == [Frame("trades", <<>>, NoSeq) EXCEPT !.fills = Fills(told)]
  <2>1. told < Len(tape) /\ wire' = Append(wire, frame)
    BY <1>9 DEF PushTrades
  <2>2. Content(frame) \in Contents
    BY <1>1, <2>1, TradesContent
  <2> HIDE DEF frame
  <2> QED
    BY <1>5, <2>1, <2>2
<1>10. CASE Connect \/ Drop \/ HandleGap
  BY <1>3, <1>10 DEF Connect, Drop, HandleGap, Down
<1>11. CASE HandleUpdate \/ HandleNothing \/ HandleTrades
  BY <1>4, <1>11 DEF HandleUpdate, HandleNothing, HandleTrades, TakeFrame
<1> QED
  BY <1>6, <1>7, <1>8, <1>9, <1>10, <1>11 DEF Next

\* What the bytes theorems speak of covers what MEXC sends at all times.
THEOREM MexcOnWireHolds == Spec => []MexcOnWire
<1>1. Init => MexcOnWire
  BY EmptyIsSequence DEF Init, MexcOnWire
<1>2. TypeOK /\ BookInv /\ TapeInv /\ MexcOnWire /\ [Next]_vars => MexcOnWire'
  BY StepKeepsMexc
<1> QED
  BY <1>1, <1>2, BookInvHolds, TapeInvHolds, FeedTypeCorrect, PTL DEF Spec

LEMMA WireContents ==
    ASSUME BookInv, MexcOnWire, feed = "mexc", NEW i \in DOMAIN wire
    PROVE  Content(wire[i]) \in Contents
<1>1. DOMAIN wire = 1 .. Len(wire)
  BY SequenceDomain DEF BookInv, ViewInv, WireInOrder
<1> QED
  BY <1>1 DEF MexcOnWire

\* README.md:167, "New fields in the schema do not disturb it": the frames on the wire of MEXC are
\* read as the book and the trades they hold, and so they are when the exchange adds a
\* field of any wire type anywhere in them: for every depth, book and number of trades
\* whose frame is within the connection's size.
THEOREM GrownFramesReadSame == Spec => []GrownFrameReadsSame
<1>1. BookInv /\ MexcOnWire => GrownFrameReadsSame
  <2> SUFFICES ASSUME BookInv, MexcOnWire, feed = "mexc", NEW i \in DOMAIN wire
               PROVE  ReadsSameGrown[Content(wire[i])]
    BY DEF GrownFrameReadsSame
  <2> DEFINE c == Content(wire[i])
  <2>1. c \in Contents
    BY WireContents
  <2> HIDE DEF c
  <2>2. "last" \in Places /\ <<>> \in Unknown \cup {<<>>} /\ \A more \in Unknown : more \in Unknown \cup {<<>>}
    BY DEF Places
  <2>3. /\ Read(Encoded(c, <<>>, "last")) = Meant(c)
        /\ \A more \in Unknown, place \in Places : Read(Encoded(c, more, place)) = Meant(c)
    BY <2>1, <2>2, EncodedIsRead, Zenon
  <2> QED
    BY <2>1, <2>3, Zenon DEF ReadsSameGrown, c
<1> QED
  BY <1>1, BookInvHolds, MexcOnWireHolds, PTL

\* test_protobuf.py: a truncated frame is not readable.  Wherever a frame of MEXC ends
\* early, the adapter gets the whole book and all trades from it or nothing: never fewer
\* levels than the exchange sent, which would pass for a thin book.
THEOREM CutFramesAreLost == Spec => []CutFrameIsLost
<1>1. BookInv /\ MexcOnWire => CutFrameIsLost
  <2> SUFFICES ASSUME BookInv, MexcOnWire, feed = "mexc", NEW i \in DOMAIN wire
               PROVE  ReadsWholeOrNothing[Content(wire[i])]
    BY DEF CutFrameIsLost
  <2> DEFINE c == Content(wire[i])
             data == Encoded(c, <<>>, "last")
             m == Len(data)
  <2>1. c \in Contents
    BY WireContents
  <2> HIDE DEF c
  <2>2. "last" \in Places /\ <<>> \in Unknown \cup {<<>>}
    BY DEF Places
  <2>3. data \in Data
    <3>1. \A no, inner : Carries(data, no, inner) => data \in Data
      BY Zenon DEF Carries, Shows
    <3> QED
      BY <2>1, <2>2, <3>1, ContentFacts, EncodedCarries, ZenonT(40)
  <2>4. ASSUME NEW n \in 0 .. m - 1
        PROVE  Read(SubSeq(data, 1, n)) \in {Meant(c), Nothing}
    <3> DEFINE a == SubSeq(data, 1, n)
               b == SubSeq(data, n + 1, m)
    <3> HIDE DEF data
    <3>1. m \in Nat
      BY <2>3, ByteOf
    <3>2. a \in Data /\ b \in Data
      BY <2>3, <3>1, SubSeqProperties DEF Data
    <3>3. a \o b = data
      <4>1. 1 \in 1 .. m + 1 /\ n \in 1 - 1 .. m /\ m \in n .. m
        BY <3>1
      <4>2. a \o b = SubSeq(data, 1, m)
        BY <2>3, <4>1, ConcatAdjacentSubSeq DEF Data
      <4>3. SubSeq(data, 1, m) = data
        BY <2>3, SubSeqFull DEF Data
      <4> QED
        BY <4>2, <4>3, Zenon
    <3> HIDE DEF a, b
    <3>4. a \o b = Encoded(c, <<>>, "last")
      BY <3>3 DEF data
    <3>5. Read(a) = Meant(c) \/ Read(a) = Nothing
      BY <2>1, <2>2, <3>2, <3>4, BeginningIsRead, Zenon
    <3> QED
      BY <3>5 DEF a
  <2> QED
    BY <2>1, <2>4, Zenon DEF ReadsWholeOrNothing, c
<1> QED
  BY <1>1, BookInvHolds, MexcOnWireHolds, PTL

==============================================================================
