--------------------------- MODULE PipelineProofs ---------------------------
(***************************************************************************)
(* Proofs about Wire and Pipeline, for every transaction that the          *)
(* interfaces have room for: any number of signers' keys, post conditions  *)
(* and arguments, names and bodies of any length, any base of digits.      *)
(*                                                                         *)
(* The reader keeps a list of the reads still to be made.  Each of them    *)
(* fits a run of fields of what was sent (Fits), the runs together are     *)
(* what is left of the bytes (Reads), and each read takes the first field  *)
(* of its run and leaves the reads that the rest of the run fits           *)
(* (ReadIs).  From that invariant follow the values that are stored, the   *)
(* slices, what the slices give when they are read again, and with the     *)
(* rows that Convert makes of them, the answers.                           *)
(***************************************************************************)
EXTENDS Pipeline, LibraryLemmas

(***************************************************************************)
(* Numbers: what is written of a number in w cells is read as that number. *)
(***************************************************************************)
LEMMA NumeralsAre ==
  /\ Numerals(0) = 1 /\ \A k \in 0..3 : Numerals(k + 1) = Numerals(k) * Digit
  /\ \A k \in 0..4 : Numerals(k) \in Nat \ {0}
<1>1. Digit \in Nat \ {0, 1}
  BY WireAssumption
<1>2. /\ Numerals(0) = 1 /\ Numerals(1) = Digit /\ Numerals(2) = Digit * Digit
      /\ Numerals(3) = Digit * Digit * Digit /\ Numerals(4) = Digit * Digit * Digit * Digit
  BY DEF Numerals
<1>3. \A k \in 0..3 : Numerals(k + 1) = Numerals(k) * Digit
  <2>1. /\ Numerals(1) = Numerals(0) * Digit /\ Numerals(2) = Numerals(1) * Digit
        /\ Numerals(3) = Numerals(2) * Digit /\ Numerals(4) = Numerals(3) * Digit
    BY <1>1, <1>2
  <2>2. \A k \in 0..3 : k = 0 \/ k = 1 \/ k = 2 \/ k = 3
    OBVIOUS
  <2>3. 0 + 1 = 1 /\ 1 + 1 = 2 /\ 2 + 1 = 3 /\ 3 + 1 = 4
    OBVIOUS
  <2> QED
    BY <2>1, <2>2, <2>3
<1>4. \A k \in 0..4 : Numerals(k) \in Nat \ {0}
  <2>1. Numerals(0) \in Nat \ {0} /\ Numerals(1) \in Nat \ {0}
    BY <1>1, <1>2
  <2>t. \A x \in Nat \ {0} : x * Digit \in Nat \ {0}
    BY <1>1
  <2>2. Numerals(2) \in Nat \ {0}
    BY <1>1, <1>2, <2>t
  <2>3. Numerals(3) \in Nat \ {0}
    BY <1>2, <2>2, <2>t
  <2>4. Numerals(4) \in Nat \ {0}
    BY <1>2, <2>3, <2>t
  <2>5. \A k \in 0..4 : k = 0 \/ k = 1 \/ k = 2 \/ k = 3 \/ k = 4
    OBVIOUS
  <2> QED
    BY <2>1, <2>2, <2>3, <2>4, <2>5
<1> QED
  BY <1>2, <1>3, <1>4

(* w cells are written for w digits. *)
LEMMA BigEndianType ==
  ASSUME NEW n \in Nat, NEW w \in 1..4
  PROVE  BigEndian(n, w) \in Seq(Nat) /\ Len(BigEndian(n, w)) = w
<1>1. Digit \in Nat \ {0}
  BY WireAssumption
<1>2. ASSUME NEW k \in 1..w PROVE (n \div Numerals(w - k)) % Digit \in Nat
  <2>1. w - k \in 0..4
    OBVIOUS
  <2>2. Numerals(w - k) \in Nat \ {0}
    BY <2>1, NumeralsAre
  <2> DEFINE m == Numerals(w - k)
             q == n \div m
  <2>3. q \in Nat
    BY <2>2, DivMod
  <2> HIDE DEF q
  <2>4. q % Digit \in 0..Digit - 1
    BY <1>1, <2>3, DivMod
  <2> QED
    BY <1>1, <2>4 DEF q
<1> QED
  BY <1>2 DEF BigEndian

(* The number that a reader has after each cell. *)
Sums(n, cells) == n = [k \in 0..Len(cells) |-> IF k = 0 THEN 0 ELSE n[k - 1] * Digit + cells[k]]

SumsOf(cells) == CHOOSE n : Sums(n, cells)

LEMMA NumberIsSum == \A cells : Number(cells) = SumsOf(cells)[Len(cells)]
  BY DEF Number, SumsOf, Sums

LEMMA NumberSums ==
  ASSUME NEW cells \in Seq(Nat), Len(cells) \in 1..4
  PROVE  \E n : /\ n[0] = 0 /\ \A k \in 1..Len(cells) : n[k] = n[k - 1] * Digit + cells[k]
                /\ Number(cells) = n[Len(cells)]
<1> DEFINE N == Len(cells)
           c1 == cells[1]
           c2 == c1 * Digit + cells[2]
           c3 == c2 * Digit + cells[3]
           c4 == c3 * Digit + cells[4]
           g == [k \in 0..N |-> IF k = 0 THEN 0 ELSE IF k = 1 THEN c1 ELSE IF k = 2 THEN c2
                                ELSE IF k = 3 THEN c3 ELSE c4]
<1>1. N \in 1..4 /\ Digit \in Nat /\ \A k \in 1..N : cells[k] \in Nat
  BY WireAssumption
<1>2. ASSUME NEW k \in 0..N
      PROVE  g[k] = IF k = 0 THEN 0 ELSE g[k - 1] * Digit + cells[k]
  <2>1. CASE k = 0
    BY <2>1
  <2>2. CASE k = 1
    <3>1. g[k] = cells[1] /\ g[k - 1] = 0 /\ cells[1] \in Nat
      BY <1>1, <2>2
    <3>2. 0 * Digit + cells[1] = cells[1]
      BY <1>1, <3>1
    <3> HIDE DEF g
    <3> QED
      BY <2>2, <3>1, <3>2
  <2>3. CASE k = 2
    <3>1. g[k] = c2 /\ g[k - 1] = c1
      BY <1>1, <2>3
    <3> HIDE DEF g, c1
    <3> QED
      BY <2>3, <3>1
  <2>4. CASE k = 3
    <3>1. g[k] = c3 /\ g[k - 1] = c2
      BY <1>1, <2>4
    <3> HIDE DEF g, c2
    <3> QED
      BY <2>4, <3>1
  <2>5. CASE k = 4
    <3>1. g[k] = c4 /\ g[k - 1] = c3
      BY <1>1, <2>5
    <3> HIDE DEF g, c3
    <3> QED
      BY <2>5, <3>1
  <2>6. k = 0 \/ k = 1 \/ k = 2 \/ k = 3 \/ k = 4
    BY <1>1
  <2> HIDE DEF g
  <2> QED
    BY <2>1, <2>2, <2>3, <2>4, <2>5, <2>6
<1>3. Sums(g, cells)
  <2>1. g = [k \in 0..N |-> g[k]]
    OBVIOUS
  <2> HIDE DEF g
  <2> QED
    BY <1>2, <2>1 DEF Sums
<1> HIDE DEF g, N
<1> DEFINE s == SumsOf(cells)
<1>4. Sums(s, cells)
  BY <1>3 DEF SumsOf
<1> HIDE DEF s
<1>5. s[0] = 0 /\ \A k \in 1..N : s[k] = s[k - 1] * Digit + cells[k]
  <2>1. \A k \in 0..N : s[k] = IF k = 0 THEN 0 ELSE s[k - 1] * Digit + cells[k]
    BY <1>4 DEF Sums, N
  <2>2. 0 \in 0..N /\ \A k \in 1..N : k \in 0..N /\ k # 0
    BY <1>1
  <2> QED
    BY <2>1, <2>2
<1> QED
  BY <1>5, NumberIsSum DEF s, N

(* A number that has w digits is read as it was written. *)
LEMMA NumberIsWritten ==
  ASSUME NEW w \in 1..4, NEW n \in 0..Numerals(w) - 1
  PROVE  Number(BigEndian(n, w)) = n
<1> DEFINE a == [k \in 0..4 |-> n \div Numerals(k)]
           cells == BigEndian(n, w)
<1>1. /\ Numerals(0) = 1 /\ \A k \in 0..3 : Numerals(k + 1) = Numerals(k) * Digit
      /\ \A k \in 0..4 : Numerals(k) \in Nat \ {0}
  BY NumeralsAre
<1>2. n \in Nat /\ Digit \in Nat \ {0} /\ n < Numerals(w)
  BY <1>1, WireAssumption
<1>3. \A k \in 0..4 : a[k] \in Nat
  BY <1>1, <1>2, DivMod
<1>4. ASSUME NEW k \in 0..3 PROVE a[k] = a[k + 1] * Digit + (a[k] % Digit)
  <2>1. k \in 0..4 /\ k + 1 \in 0..4
    OBVIOUS
  <2>2. a[k] = n \div Numerals(k) /\ a[k + 1] = n \div (Numerals(k) * Digit)
    BY <1>1, <2>1
  <2> DEFINE m == Numerals(k)
  <2>3. m \in Nat \ {0}
    BY <1>1, <2>1
  <2> HIDE DEF m
  <2>4. (n \div m) \div Digit = n \div (m * Digit)
    BY <1>2, <2>3, DivTwice
  <2>5. a[k + 1] = a[k] \div Digit
    <3> HIDE DEF a
    <3>1. a[k] = n \div m /\ a[k + 1] = n \div (m * Digit)
      BY <2>2 DEF m
    <3> QED
      BY <2>4, <3>1
  <2>6. a[k] \in Nat
    BY <1>3, <2>1
  <2> DEFINE x == a[k]
  <2> HIDE DEF x
  <2>7. x = (x \div Digit) * Digit + (x % Digit)
    BY <1>2, <2>6, DivMod DEF x
  <2> QED
    BY <2>5, <2>7 DEF x
<1>5. a[0] = n /\ a[w] = 0
  <2>1. a[0] = n
    BY <1>1, <1>2
  <2>2. w \in 0..4
    OBVIOUS
  <2> DEFINE m == Numerals(w)
             q == n \div m
             r == n % m
  <2>3. m \in Nat \ {0} /\ n < m
    BY <1>1, <1>2, <2>2
  <2>4. q \in Nat /\ r \in 0..m - 1 /\ n = q * m + r
    BY <1>2, <2>3, DivMod
  <2>5. a[w] = q
    BY <2>2
  <2> HIDE DEF m, q, r
  <2>6. 0 * m + n = n /\ n \in 0..m - 1
    BY <1>2, <2>3
  <2>7. q = 0
    BY <2>3, <2>4, <2>6, DivUnique
  <2> HIDE DEF a
  <2> QED
    BY <2>1, <2>5, <2>7
<1>6. \A j \in 1..w : cells[j] = a[w - j] % Digit
  <2>1. \A j \in 1..w : w - j \in 0..4
    OBVIOUS
  <2> QED
    BY <2>1 DEF BigEndian
<1>7. cells \in Seq(Nat) /\ Len(cells) = w
  BY <1>2, BigEndianType
<1> HIDE DEF a, cells
<1>8. PICK s : /\ s[0] = 0 /\ \A k \in 1..Len(cells) : s[k] = s[k - 1] * Digit + cells[k]
               /\ Number(cells) = s[Len(cells)]
  BY <1>7, NumberSums
<1>9. ASSUME NEW j \in 1..w, s[j - 1] = a[w - (j - 1)] PROVE s[j] = a[w - j]
  <2>1. s[j] = a[w - (j - 1)] * Digit + (a[w - j] % Digit)
    BY <1>6, <1>7, <1>8, <1>9
  <2>2. w - j \in 0..3 /\ (w - j) + 1 = w - (j - 1)
    OBVIOUS
  <2>3. a[w - j] = a[(w - j) + 1] * Digit + (a[w - j] % Digit)
    BY <1>4, <2>2
  <2> QED
    BY <2>1, <2>2, <2>3
<1> DEFINE Good(j) == s[j] = a[w - j]
<1>10. Good(0)
  BY <1>5, <1>8
<1>11. \A j \in 1..w : Good(j - 1) => Good(j)
  BY <1>9
<1>12. Good(w)
  <2> HIDE DEF Good
  <2>1. w = 1 \/ w = 2 \/ w = 3 \/ w = 4
    OBVIOUS
  <2>2. Good(1)
    BY <1>10, <1>11
  <2>3. w >= 2 => Good(2)
    BY <1>11, <2>2
  <2>4. w >= 3 => Good(3)
    BY <1>11, <2>3
  <2>5. w >= 4 => Good(4)
    BY <1>11, <2>4
  <2> QED
    BY <2>1, <2>2, <2>3, <2>4, <2>5
<1> QED
  BY <1>5, <1>7, <1>8, <1>12 DEF cells

(* The widths of the numbers. *)
LEMMA Widths ==
  /\ Width("u8") = 1 /\ Width("u16") = 2 /\ Width("u32") = 3 /\ Width("u64") = 4 /\ Width("i64") = 4
  /\ U64 = Numerals(4)
  BY DEF Width, U64

-----------------------------------------------------------------------------
(***************************************************************************)
(* The fields of a layout, and the cells they are written in.              *)
(***************************************************************************)
TypeNames ==
  {"u8", "u16", "u32", "u64", "i64", "hash", "name", "code", "clarity", "publicKey", "signature", "memo", "header", "coinbase"}

Fields == {f \in [type : TypeNames, value : Seq(Nat)] :
             f.type \in {"u16", "u32", "u64", "i64"} => Len(f.value) = 1}

Bytes(fs) == FlattenSeq([k \in DOMAIN fs |-> Cells(fs[k])])

(* Buffers and strings are fields. *)
LEMMA FieldType ==
  ASSUME NEW type \in TypeNames \ {"u16", "u32", "u64", "i64"}, NEW v \in Seq(Nat)
  PROVE  Field(type, v) \in Fields
  BY DEF Field, Fields

(* Numbers are fields. *)
LEMMA NumType == \A type \in TypeNames : \A n \in Nat : Num(type, n) \in Fields
  BY DEF Num, Field, Fields

(* A field is written in cells. *)
LEMMA CellsType ==
  ASSUME NEW f \in Fields
  PROVE  Cells(f) \in Seq(Nat)
<1>1. f.value \in Seq(Nat) /\ Len(f.value) \in Nat
  BY DEF Fields
<1>2. CASE f.type \in {"u16", "u32", "u64", "i64"}
  <2>1. f.value[1] \in Nat /\ Width(f.type) \in 1..4
    BY <1>1, <1>2, Widths DEF Fields
  <2>2. Cells(f) = BigEndian(f.value[1], Width(f.type))
    BY <1>2 DEF Cells
  <2> QED
    BY <2>1, <2>2, BigEndianType
<1>3. CASE f.type = "name"
  <2>1. Cells(f) = <<Len(f.value)>> \o f.value
    BY <1>3 DEF Cells
  <2>2. <<Len(f.value)>> \in Seq(Nat)
    BY <1>1
  <2> QED
    BY <1>1, <2>1, <2>2, ConcatProperties
<1>4. CASE f.type = "code"
  <2>1. Cells(f) = BigEndian(Len(f.value), 3) \o f.value
    BY <1>4, Widths DEF Cells
  <2>2. BigEndian(Len(f.value), 3) \in Seq(Nat)
    BY <1>1, BigEndianType
  <2> QED
    BY <1>1, <2>1, <2>2, ConcatProperties
<1>5. CASE f.type \notin {"u16", "u32", "u64", "i64", "name", "code"}
  <2>1. Cells(f) = f.value
    BY <1>5 DEF Cells
  <2> QED
    BY <1>1, <2>1
<1> QED
  BY <1>2, <1>3, <1>4, <1>5

(* A sequence mapped cell by cell, by a function. *)
Mapped(m, fs) == [k \in DOMAIN fs |-> m[fs[k]]]

Maps(S, T) ==
  \A m \in [S -> T] : \A fs, gs \in Seq(S) :
    /\ Mapped(m, fs) \in Seq(T) /\ Mapped(m, gs) \in Seq(T)
    /\ Mapped(m, fs \o gs) = Mapped(m, fs) \o Mapped(m, gs)

(* A function is applied to the items of two sequences, or of both in one. *)
LEMMA MapConcat == \A S, T : Maps(S, T)
<1> SUFFICES ASSUME NEW S, NEW T, NEW m \in [S -> T], NEW fs \in Seq(S), NEW gs \in Seq(S)
             PROVE  /\ Mapped(m, fs) \in Seq(T) /\ Mapped(m, gs) \in Seq(T)
                    /\ Mapped(m, fs \o gs) = Mapped(m, fs) \o Mapped(m, gs)
  BY DEF Maps
<1> DEFINE u == fs \o gs
           a == [k \in DOMAIN fs |-> m[fs[k]]]
           b == [k \in DOMAIN gs |-> m[gs[k]]]
           c == [k \in DOMAIN u |-> m[u[k]]]
<1>1. /\ u \in Seq(S) /\ Len(u) = Len(fs) + Len(gs) /\ Len(fs) \in Nat /\ Len(gs) \in Nat
      /\ DOMAIN u = 1..Len(u) /\ DOMAIN fs = 1..Len(fs) /\ DOMAIN gs = 1..Len(gs)
      /\ \A k \in 1..Len(u) : u[k] = IF k <= Len(fs) THEN fs[k] ELSE gs[k - Len(fs)]
  BY ConcatProperties
<1>2. \A k \in 1..Len(fs) : fs[k] \in S
  OBVIOUS
<1>3. \A k \in 1..Len(gs) : gs[k] \in S
  OBVIOUS
<1>4. \A k \in 1..Len(u) : u[k] \in S
  BY <1>1
<1> HIDE DEF u
<1>5. a \in Seq(T) /\ Len(a) = Len(fs)
  BY <1>1, <1>2
<1>6. b \in Seq(T) /\ Len(b) = Len(gs)
  BY <1>1, <1>3
<1>7. c \in Seq(T) /\ Len(c) = Len(u)
  BY <1>1, <1>4
<1>8. /\ \A k \in 1..Len(fs) : a[k] = m[fs[k]]
      /\ \A k \in 1..Len(gs) : b[k] = m[gs[k]]
      /\ \A k \in 1..Len(u) : c[k] = m[u[k]]
  BY <1>1
<1> HIDE DEF a, b, c
<1>9. /\ a \o b \in Seq(T) /\ Len(a \o b) = Len(u)
      /\ \A k \in 1..Len(u) : (a \o b)[k] = IF k <= Len(a) THEN a[k] ELSE b[k - Len(a)]
  <2>1. Len(a) \in Nat /\ Len(b) \in Nat /\ Len(u) = Len(a) + Len(b)
    BY <1>1, <1>5, <1>6
  <2> HIDE DEF Mapped
  <2>2. /\ a \o b \in Seq(T) /\ Len(a \o b) = Len(a) + Len(b)
        /\ \A k \in 1..(Len(a) + Len(b)) : (a \o b)[k] = IF k <= Len(a) THEN a[k] ELSE b[k - Len(a)]
    BY <1>5, <1>6, ConcatProperties
  <2> QED
    BY <2>1, <2>2
<1>10. ASSUME NEW k \in 1..Len(u) PROVE c[k] = (a \o b)[k]
  <2>1. CASE k <= Len(fs)
    <3>1. k \in 1..Len(fs)
      BY <1>1, <2>1
    <3> QED
      BY <1>1, <1>5, <1>8, <1>9, <2>1, <3>1
  <2>2. CASE ~(k <= Len(fs))
    <3>1. k - Len(fs) \in 1..Len(gs)
      BY <1>1, <2>2
    <3> QED
      BY <1>1, <1>5, <1>8, <1>9, <2>2, <3>1
  <2> QED
    BY <2>1, <2>2
<1>11. c = a \o b
  BY <1>7, <1>9, <1>10, SeqEqual
<1> QED
  BY <1>5, <1>6, <1>11 DEF a, b, c, u, Mapped

CellsOf == [f \in Fields |-> Cells(f)]

LEMMA CellsMap ==
  ASSUME NEW fs \in Seq(Fields)
  PROVE  /\ [k \in DOMAIN fs |-> Cells(fs[k])] = Mapped(CellsOf, fs)
         /\ [k \in DOMAIN fs |-> Cells(fs[k])] \in Seq(Seq(Nat))
<1>1. DOMAIN fs = 1..Len(fs) /\ Len(fs) \in Nat /\ \A k \in 1..Len(fs) : fs[k] \in Fields
  OBVIOUS
<1>2. \A k \in 1..Len(fs) : Cells(fs[k]) \in Seq(Nat)
  BY <1>1, CellsType
<1> QED
  BY <1>1, <1>2 DEF CellsOf, Mapped

LEMMA BytesType ==
  ASSUME NEW fs \in Seq(Fields)
  PROVE  Bytes(fs) \in Seq(Nat)
  BY CellsMap, FlattenType DEF Bytes

(* The bytes of two runs of fields, one after the other, are those of both. *)
LEMMA BytesConcat ==
  ASSUME NEW fs \in Seq(Fields), NEW gs \in Seq(Fields)
  PROVE  Bytes(fs \o gs) = Bytes(fs) \o Bytes(gs)
<1> DEFINE a == Mapped(CellsOf, fs)
           b == Mapped(CellsOf, gs)
           c == Mapped(CellsOf, fs \o gs)
<1>1. CellsOf \in [Fields -> Seq(Nat)]
  BY CellsType DEF CellsOf
<1>m. Maps(Fields, Seq(Nat))
  BY MapConcat
<1>2. c = a \o b /\ a \in Seq(Seq(Nat)) /\ b \in Seq(Seq(Nat))
  BY <1>1, <1>m DEF Maps
<1>3. fs \o gs \in Seq(Fields)
  BY ConcatProperties
<1>4. Bytes(fs) = FlattenSeq(a) /\ Bytes(gs) = FlattenSeq(b) /\ Bytes(fs \o gs) = FlattenSeq(c)
  BY <1>3, CellsMap DEF Bytes
<1> HIDE DEF a, b, c
<1>5. FlattenSeq(a \o b) = FlattenSeq(a) \o FlattenSeq(b)
  BY <1>2, FlattenConcat
<1> QED
  BY <1>2, <1>4, <1>5

LEMMA BytesOne ==
  ASSUME NEW f \in Fields
  PROVE  Bytes(<<f>>) = Cells(f)
<1>1. [k \in DOMAIN <<f>> |-> Cells(<<f>>[k])] = <<Cells(f)>>
  OBVIOUS
<1>2. FlattenSeq(<<Cells(f)>>) = Cells(f)
  BY CellsType, FlattenOne
<1> QED
  BY <1>1, <1>2 DEF Bytes

LEMMA BytesEmpty == Bytes(<<>>) = <<>>
<1>1. [k \in DOMAIN <<>> |-> Cells(<<>>[k])] = <<>>
  OBVIOUS
<1> QED
  BY <1>1, FlattenEmpty DEF Bytes

(* The value of a field is read as it was sent, but for an i64, whose sign may change. *)
LEMMA ValueType ==
  ASSUME NEW f \in Fields
  PROVE  /\ Value(f) \in Seq(Int)
         /\ f.type # "i64" => Value(f) = f.value
<1>1. CASE f.type = "i64"
  <2>1. f.value[1] \in Nat
    BY <1>1 DEF Fields
  <2>2. U64 \in Nat
    BY NumeralsAre, Widths
  <2>3. Signed(f.value[1]) \in Int
    BY <2>1, <2>2 DEF Signed
  <2> QED
    BY <1>1, <2>3 DEF Value
<1>2. CASE f.type # "i64"
  <2>1. f.value \in Seq(Nat)
    BY DEF Fields
  <2>2. f.value \in Seq(Int)
    BY <2>1
  <2> QED
    BY <1>2, <2>2 DEF Value
<1> QED
  BY <1>1, <1>2

(* The values of the fields of a sequence are put together as their cells are. *)
LEMMA ValuesConcat ==
  ASSUME NEW fs \in Seq(Fields), NEW gs \in Seq(Fields)
  PROVE  /\ Values(fs) \in Seq(Seq(Int)) /\ Len(Values(fs)) = Len(fs)
         /\ Values(fs \o gs) = Values(fs) \o Values(gs)
<1> DEFINE m == [f \in Fields |-> Value(f)]
<1>1. m \in [Fields -> Seq(Int)]
  BY ValueType
<1>2. \A hs \in Seq(Fields) : Values(hs) = Mapped(m, hs)
  <2>1. \A hs \in Seq(Fields) : \A k \in DOMAIN hs : hs[k] \in Fields
    OBVIOUS
  <2> QED
    BY <2>1 DEF Values, Mapped
<1> HIDE DEF m
<1>3. fs \o gs \in Seq(Fields)
  BY ConcatProperties
<1>4. Mapped(m, fs) \in Seq(Seq(Int)) /\ Mapped(m, fs \o gs) = Mapped(m, fs) \o Mapped(m, gs)
  <2>1. Maps(Fields, Seq(Int))
    BY MapConcat
  <2> QED
    BY <1>1, <2>1 DEF Maps
<1>5. Len(Values(fs)) = Len(fs)
  BY DEF Values
<1> QED
  BY <1>2, <1>3, <1>4, <1>5

LEMMA ValuesOne == \A f : Values(<<f>>) = <<Value(f)>>
  BY DEF Values

LEMMA ValuesEmpty == Values(<<>>) = <<>>
  BY DEF Values

-----------------------------------------------------------------------------
(***************************************************************************)
(* What is left to be read: the cells of the fields that the reads still   *)
(* to be made fit, read by read.                                           *)
(***************************************************************************)
(* s is what is left of b after the first p cells. *)
Remains(b, p, s) ==
  /\ b \in Seq(Nat) /\ p \in Nat /\ s \in Seq(Nat) /\ Len(b) = p + Len(s)
  /\ \A k \in 1..Len(s) : b[p + k] = s[k]

(* What is ahead of the cursor is the first part of what is left, and after it the second part is. *)
LEMMA RemainsSplit ==
  ASSUME NEW b, NEW p, NEW x \in Seq(Nat), NEW y \in Seq(Nat), Remains(b, p, x \o y)
  PROVE  /\ Remains(b, p + Len(x), y)
         /\ Len(b) - p >= Len(x) /\ Len(b) - p \in Nat
         /\ SubSeq(b, p + 1, p + Len(x)) = x
         /\ \A k \in 1..Len(x) : b[p + k] = x[k]
<1> DEFINE u == x \o y
           m == Len(x)
           n == Len(y)
<1>1. /\ u \in Seq(Nat) /\ Len(u) = m + n /\ m \in Nat /\ n \in Nat
      /\ \A k \in 1..(m + n) : u[k] = IF k <= m THEN x[k] ELSE y[k - m]
  BY ConcatProperties
<1> HIDE DEF u
<1>2. /\ b \in Seq(Nat) /\ p \in Nat /\ Len(b) = p + Len(u)
      /\ \A k \in 1..Len(u) : b[p + k] = u[k]
  BY DEF Remains, u
<1>3. \A k \in 1..m : x[k] \in Nat
  OBVIOUS
<1> HIDE DEF m, n
<1>4. Len(b) = (p + m) + n /\ p + m \in Nat /\ Len(b) - p >= m /\ Len(b) - p \in Nat
  BY <1>1, <1>2
<1>5. \A k \in 1..m : b[p + k] = x[k]
  <2>1. \A k \in 1..m : k \in 1..(m + n) /\ k <= m
    BY <1>1
  <2> QED
    BY <1>1, <1>2, <2>1
<1>6. ASSUME NEW k \in 1..n PROVE b[(p + m) + k] = y[k]
  <2> DEFINE j == m + k
  <2>1. j \in 1..(m + n) /\ ~(j <= m) /\ j - m = k /\ p + j = (p + m) + k
    BY <1>1, <1>2
  <2> HIDE DEF j
  <2>2. b[p + j] = y[j - m]
    BY <1>1, <1>2, <2>1
  <2> QED
    BY <2>1, <2>2
<1>7. SubSeq(b, p + 1, p + m) = x
  <2> DEFINE s == SubSeq(b, p + 1, p + m)
  <2>1. \A i \in (p + 1)..(p + m) : b[i] \in Nat
    <3>1. \A i \in (p + 1)..(p + m) : i \in 1..Len(b)
      BY <1>1, <1>2
    <3> QED
      BY <1>2, <3>1
  <2>2. p + 1 \in Int /\ p + m \in Int
    BY <1>1, <1>2
  <2>3. /\ s \in Seq(Nat) /\ Len(s) = IF p + 1 <= p + m THEN (p + m) - (p + 1) + 1 ELSE 0
        /\ \A i \in 1..((p + m) - (p + 1) + 1) : s[i] = b[(p + 1) + i - 1]
    BY <2>1, <2>2, SubSeqProperties
  <2> HIDE DEF s
  <2>4. Len(s) = m /\ (p + m) - (p + 1) + 1 = m
    BY <1>1, <1>2, <2>3
  <2>5. \A i \in 1..m : (p + 1) + i - 1 = p + i
    BY <1>1, <1>2
  <2>6. \A i \in 1..m : s[i] = x[i]
    BY <1>5, <2>3, <2>4, <2>5
  <2>7. s = x
    BY <2>3, <2>4, <2>6, SeqEqual DEF m
  <2> QED
    BY <2>7 DEF s
<1> QED
  <2>1. Remains(b, p + m, y)
    BY <1>2, <1>4, <1>6 DEF Remains, n
  <2> QED
    BY <1>4, <1>5, <1>7, <2>1 DEF m

EnumFits(t, read, fs) ==
  /\ read = "version" => \E b \in {0, 128} : fs = <<Byte(b)>>
  /\ read = "authType" =>
       fs = <<Byte(IF Len(t.auth) = 2 THEN 5 ELSE 4)>>
            \o FlattenSeq([k \in DOMAIN t.auth |-> SpendingLayout(t.auth[k])])
  /\ read = "hashMode" => \E k \in DOMAIN t.auth : fs = SpendingLayout(t.auth[k])
  /\ read = "authField" => \E f \in 0..3 : fs = KeyField(f)
  /\ read = "anchorMode" => fs = <<Byte(3)>>
  /\ read = "mode" => fs = <<Byte(t.mode)>>
  /\ read = "condition" => \E c : IsCondition(c) /\ fs = ConditionLayout(c)
  /\ read = "principal" => \E p : IsPrincipal(p, 1..3) /\ fs = PrincipalLayout(p)
  /\ read = "fungibleCode" => \E b \in 1..5 : fs = <<Byte(b)>>
  /\ read = "nonfungibleCode" => \E b \in {16, 17} : fs = <<Byte(b)>>
  /\ read = "payload" => fs = PayloadLayout(t.payload)
  /\ read = "recipient" => \E p : IsPrincipal(p, {5, 6}) /\ fs = PrincipalLayout(p)

CountFits(t, read, fs) ==
  /\ read = "authFields" =>
       \E keys \in Seq(0..3) :
         /\ Len(keys) < Numerals(3)
         /\ fs = <<Num("u32", Len(keys))>> \o FlattenSeq([k \in DOMAIN keys |-> KeyField(keys[k])])
  /\ read = "conditions" => fs = ConditionsLayout(t.conditions)

FieldFits(t, read, fs) ==
  /\ read = "u8" => \E n \in Nat : fs = <<Byte(n)>>
  /\ read \in {"u16", "u32", "u64", "i64"} => \E n \in 0..Numerals(Width(read)) - 1 : fs = <<Num(read, n)>>
  /\ read \in DOMAIN BufferWidth =>
       \E v \in Seq(Nat) : Len(v) = BufferWidth[read] /\ fs = <<Field(read, v)>>
  /\ read = "name" => \E s \in Seq(Nat) : fs = <<Name(s)>>
  /\ read = "code" => \E s \in Seq(Nat) : Len(s) < Numerals(3) /\ fs = <<Field("code", s)>>
  /\ read = "clarity" => \E v : IsClarity(v) /\ fs = <<Field("clarity", v)>>
  /\ read = "args" => t.payload.typeId = 2 /\ fs = ArgsLayout(t.payload.args)

ReadNames ==
  {"version", "authType", "hashMode", "authField", "anchorMode", "mode", "condition", "principal",
   "fungibleCode", "nonfungibleCode", "payload", "recipient",
   "u8", "u16", "u32", "u64", "i64", "hash", "publicKey", "signature", "memo", "header", "coinbase",
   "name", "code", "clarity", "args", "authFields", "conditions"}

(* fs are the fields that the read and the reads that follow from it take. *)
Fits(t, read, fs) == EnumFits(t, read, fs) /\ CountFits(t, read, fs) /\ FieldFits(t, read, fs)

AllFit(t, reads, cs) ==
  /\ reads \in Seq(ReadNames) /\ cs \in Seq(Seq(Fields)) /\ Len(cs) = Len(reads)
  /\ \A i \in 1..Len(reads) : Fits(t, reads[i], cs[i])

Outs == [read : ReadNames, value : Seq(Int)]

(* A reader over b that has read o and has yet to read td: the fields cs are
   left, and with them it will have read the values of target. *)
Reads(t, b, p, o, td, cs, target) ==
  /\ AllFit(t, td, cs)
  /\ Remains(b, p, Bytes(FlattenSeq(cs)))
  /\ o \in Seq(Outs) /\ ReadValues(o) \o Values(FlattenSeq(cs)) = target

(* Reads that fit, put before reads that fit. *)
LEMMA AllFitConcat ==
  ASSUME NEW t, NEW r, NEW cs, AllFit(t, r, cs), NEW q, NEW gs, AllFit(t, q, gs)
  PROVE  AllFit(t, q \o r, gs \o cs)
<1>1. /\ r \in Seq(ReadNames) /\ cs \in Seq(Seq(Fields)) /\ Len(cs) = Len(r) /\ Len(r) \in Nat
      /\ q \in Seq(ReadNames) /\ gs \in Seq(Seq(Fields)) /\ Len(gs) = Len(q) /\ Len(q) \in Nat
  BY DEF AllFit
<1>2. /\ \A i \in 1..Len(r) : Fits(t, r[i], cs[i])
      /\ \A i \in 1..Len(q) : Fits(t, q[i], gs[i])
  BY DEF AllFit
<1> DEFINE m == Len(q)
           n == Len(r)
           u == q \o r
           v == gs \o cs
<1>3. /\ u \in Seq(ReadNames) /\ Len(u) = m + n
      /\ \A i \in 1..(m + n) : u[i] = IF i <= m THEN q[i] ELSE r[i - m]
  BY <1>1, ConcatProperties
<1>4. /\ v \in Seq(Seq(Fields)) /\ Len(v) = m + n
      /\ \A i \in 1..(m + n) : v[i] = IF i <= m THEN gs[i] ELSE cs[i - m]
  <2>1. v \in Seq(Seq(Fields)) /\ Len(v) = Len(gs) + Len(cs)
    BY <1>1, ConcatProperties
  <2>2. \A i \in 1..(Len(gs) + Len(cs)) : v[i] = IF i <= Len(gs) THEN gs[i] ELSE cs[i - Len(gs)]
    BY <1>1, ConcatProperties
  <2> QED
    BY <1>1, <2>1, <2>2
<1> HIDE DEF u, v, m, n
<1>5. ASSUME NEW i \in 1..(m + n) PROVE Fits(t, u[i], v[i])
  <2>1. CASE i <= m
    <3>1. i \in 1..m
      BY <1>1, <2>1 DEF m
    <3> QED
      BY <1>2, <1>3, <1>4, <2>1, <3>1 DEF m
  <2>2. CASE ~(i <= m)
    <3>1. i - m \in 1..n
      BY <1>1, <2>2 DEF m, n
    <3> QED
      BY <1>2, <1>3, <1>4, <2>2, <3>1 DEF n
  <2> QED
    BY <2>1, <2>2
<1> QED
  BY <1>3, <1>4, <1>5 DEF AllFit, u, v

(* The first read fits the first fields, and the others fit the rest. *)
LEMMA AllFitTail ==
  ASSUME NEW t, NEW r, NEW cs, AllFit(t, r, cs), r # <<>>
  PROVE  /\ AllFit(t, Tail(r), Tail(cs)) /\ cs # <<>> /\ cs[1] \in Seq(Fields) /\ Fits(t, Head(r), cs[1])
         /\ cs = <<cs[1]>> \o Tail(cs) /\ Tail(cs) \in Seq(Seq(Fields))
<1>1. /\ r \in Seq(ReadNames) /\ cs \in Seq(Seq(Fields)) /\ Len(cs) = Len(r)
      /\ \A i \in 1..Len(r) : Fits(t, r[i], cs[i])
  BY DEF AllFit
<1>2. Len(r) \in Nat \ {0}
  BY <1>1, EmptySeq
<1>3. cs # <<>>
  BY <1>1, <1>2
<1>4. /\ Tail(r) \in Seq(ReadNames) /\ Len(Tail(r)) = Len(r) - 1
      /\ \A i \in 1..Len(Tail(r)) : Tail(r)[i] = r[i + 1]
  BY <1>1, HeadTailProperties
<1>5. /\ Tail(cs) \in Seq(Seq(Fields)) /\ Len(Tail(cs)) = Len(cs) - 1
      /\ \A i \in 1..Len(Tail(cs)) : Tail(cs)[i] = cs[i + 1]
  BY <1>1, <1>3, HeadTailProperties
<1>6. \A i \in 1..(Len(r) - 1) : i + 1 \in 1..Len(r)
  BY <1>2
<1>7. AllFit(t, Tail(r), Tail(cs))
  BY <1>1, <1>4, <1>5, <1>6 DEF AllFit
<1>8. 1 \in 1..Len(r) /\ Head(r) = r[1]
  BY <1>1, <1>2
<1>9. cs = <<cs[1]>> \o Tail(cs)
  <2>1. cs[1] \in Seq(Fields)
    BY <1>1, <1>8
  <2> QED
    BY <1>1, <1>2, <1>8, SubSeqRecursiveFirst, SubSeqFull, TailIsSubSeq, <1>3
<1> QED
  BY <1>1, <1>3, <1>5, <1>7, <1>8, <1>9

(* The fields left, when the first read takes hd of its own. *)
LEMMA HeadRead ==
  ASSUME NEW t, NEW b, NEW p, NEW o, NEW td, NEW cs, NEW target, Reads(t, b, p, o, td, cs, target),
         td # <<>>, NEW hd \in Seq(Fields), NEW rest \in Seq(Fields), cs[1] = hd \o rest
  PROVE  LET more == rest \o FlattenSeq(Tail(cs)) IN
         /\ FlattenSeq(cs) = hd \o more /\ more \in Seq(Fields)
         /\ Bytes(hd) \in Seq(Nat) /\ Bytes(more) \in Seq(Nat)
         /\ Remains(b, p, Bytes(hd) \o Bytes(more))
         /\ FlattenSeq(Tail(cs)) \in Seq(Fields)
<1> DEFINE tl == Tail(cs)
           ft == FlattenSeq(tl)
           more == rest \o ft
<1>1. AllFit(t, td, cs) /\ Remains(b, p, Bytes(FlattenSeq(cs)))
  BY DEF Reads
<1>2. cs = <<cs[1]>> \o tl /\ tl \in Seq(Seq(Fields)) /\ cs[1] \in Seq(Fields)
  BY <1>1, AllFitTail
<1>3. FlattenSeq(<<cs[1]>> \o tl) = cs[1] \o ft
  <2> HIDE DEF tl
  <2> QED
    BY <1>2, FlattenCons
<1>4. ft \in Seq(Fields)
  BY <1>2, FlattenType
<1>5. more \in Seq(Fields)
  BY <1>4, ConcatProperties
<1> HIDE DEF tl, ft
<1>6. Associates(Fields)
  BY ConcatAssociates
<1>7. (hd \o rest) \o ft = hd \o (rest \o ft)
  BY <1>4, <1>6 DEF Associates, Joins
<1>8. FlattenSeq(cs) = hd \o more
  BY <1>2, <1>3, <1>7
<1> HIDE DEF more
<1>9. Bytes(hd \o more) = Bytes(hd) \o Bytes(more)
  BY <1>5, BytesConcat
<1>10. Bytes(hd) \in Seq(Nat) /\ Bytes(more) \in Seq(Nat)
  BY <1>5, BytesType
<1>11. Remains(b, p, Bytes(hd) \o Bytes(more))
  BY <1>1, <1>8, <1>9
<1> QED
  BY <1>4, <1>5, <1>8, <1>10, <1>11 DEF more, ft, tl

(* Values that are read are put behind those read before. *)
LEMMA ReadValuesConcat ==
  ASSUME NEW o \in Seq(Outs), NEW read \in ReadNames, NEW vs \in Seq(Seq(Int))
  PROVE  LET o2 == o \o [k \in DOMAIN vs |-> [read |-> read, value |-> vs[k]]] IN
         o2 \in Seq(Outs) /\ ReadValues(o) \in Seq(Seq(Int)) /\ ReadValues(o2) = ReadValues(o) \o vs
<1> DEFINE m == [r \in Outs |-> r.value]
           n == [k \in DOMAIN vs |-> [read |-> read, value |-> vs[k]]]
           o2 == o \o n
<1>1. n \in Seq(Outs) /\ Len(n) = Len(vs)
  <2>1. DOMAIN vs = 1..Len(vs) /\ Len(vs) \in Nat /\ \A k \in 1..Len(vs) : vs[k] \in Seq(Int)
    OBVIOUS
  <2> QED
    BY <2>1 DEF Outs
<1>2. m \in [Outs -> Seq(Int)]
  BY DEF Outs
<1>3. Maps(Outs, Seq(Int))
  BY MapConcat
<1>4. \A r \in Seq(Outs) : ReadValues(r) = Mapped(m, r)
  <2>1. \A r \in Seq(Outs) : \A k \in DOMAIN r : r[k] \in Outs
    OBVIOUS
  <2> QED
    BY <2>1 DEF ReadValues, Mapped
<1>5. ReadValues(n) = vs
  BY DEF ReadValues
<1> HIDE DEF m, n
<1>6. o2 \in Seq(Outs)
  BY <1>1, ConcatProperties
<1>7. Mapped(m, o \o n) = Mapped(m, o) \o Mapped(m, n) /\ Mapped(m, o) \in Seq(Seq(Int))
  BY <1>1, <1>2, <1>3 DEF Maps
<1> HIDE DEF o2
<1>8. ReadValues(o2) = ReadValues(o) \o vs
  BY <1>1, <1>4, <1>5, <1>6, <1>7 DEF o2
<1> QED
  BY <1>4, <1>6, <1>7, <1>8 DEF o2, n

(* One read: it takes the fields hd, and the reads that then come next take
   the rest of its own. *)
LEMMA TakeKeeps ==
  ASSUME NEW t, NEW b, NEW p, NEW o, NEW td, NEW cs, NEW target, Reads(t, b, p, o, td, cs, target),
         td # <<>>, NEW hd \in Seq(Fields), NEW then, NEW gs, AllFit(t, then, gs),
         cs[1] = hd \o FlattenSeq(gs)
  PROVE  Reads(t, b, p + Len(Bytes(hd)),
               o \o [k \in DOMAIN Values(hd) |-> [read |-> Head(td), value |-> Values(hd)[k]]],
               then \o Tail(td), gs \o Tail(cs), target)
<1> DEFINE tl == Tail(cs)
           rest == FlattenSeq(gs)
           ft == FlattenSeq(tl)
           more == rest \o ft
           vs == Values(hd)
           o2 == o \o [k \in DOMAIN vs |-> [read |-> Head(td), value |-> vs[k]]]
<1>1. AllFit(t, td, cs) /\ o \in Seq(Outs) /\ ReadValues(o) \o Values(FlattenSeq(cs)) = target
  BY DEF Reads
<1>2. gs \in Seq(Seq(Fields)) /\ td \in Seq(ReadNames)
  BY <1>1 DEF AllFit
<1>3. rest \in Seq(Fields)
  BY <1>2, FlattenType
<1>4. /\ FlattenSeq(cs) = hd \o more /\ more \in Seq(Fields)
      /\ Bytes(hd) \in Seq(Nat) /\ Bytes(more) \in Seq(Nat)
      /\ Remains(b, p, Bytes(hd) \o Bytes(more))
  BY <1>3, HeadRead
<1>5. AllFit(t, Tail(td), tl) /\ tl \in Seq(Seq(Fields))
  BY <1>1, AllFitTail
<1>6. FlattenSeq(gs \o tl) = more
  BY <1>2, <1>5, FlattenConcat
<1>7. AllFit(t, then \o Tail(td), gs \o tl)
  BY <1>5, AllFitConcat
<1>8. Remains(b, p + Len(Bytes(hd)), Bytes(more))
  BY <1>4, RemainsSplit
<1>9. Values(hd \o more) = vs \o Values(more) /\ vs \in Seq(Seq(Int)) /\ Values(more) \in Seq(Seq(Int))
  <2> HIDE DEF more
  <2> QED
    BY <1>4, ValuesConcat
<1>10. Head(td) \in ReadNames
  BY <1>2, HeadTailProperties
<1>11. o2 \in Seq(Outs) /\ ReadValues(o) \in Seq(Seq(Int)) /\ ReadValues(o2) = ReadValues(o) \o vs
  <2> HIDE DEF vs
  <2> QED
    BY <1>1, <1>9, <1>10, ReadValuesConcat
<1> HIDE DEF o2, vs, more, tl, rest
<1>12. ReadValues(o2) \o Values(more) = target
  <2> DEFINE x == ReadValues(o)
             y == Values(more)
  <2>1. Associates(Seq(Int))
    BY ConcatAssociates
  <2>2. x \in Seq(Seq(Int)) /\ y \in Seq(Seq(Int)) /\ vs \in Seq(Seq(Int))
    BY <1>9, <1>11
  <2>3. target = x \o (vs \o y)
    BY <1>1, <1>4, <1>9
  <2>4. ReadValues(o2) = x \o vs
    BY <1>11
  <2> HIDE DEF x, y
  <2>5. (x \o vs) \o y = x \o (vs \o y)
    BY <2>1, <2>2 DEF Associates, Joins
  <2> QED
    BY <2>3, <2>4, <2>5 DEF y
<1>13. Reads(t, b, p + Len(Bytes(hd)), o2, then \o Tail(td), gs \o tl, target)
  BY <1>6, <1>7, <1>8, <1>11, <1>12 DEF Reads
<1> QED
  BY <1>13 DEF o2, vs, tl

(* The reads of r from the i-th on take fs. *)
Takes(t, r, i, fs) ==
  /\ r \in Seq(ReadNames)
  /\ \E gs \in Seq(Seq(Fields)) :
       /\ Len(gs) = Len(r) + 1 - i
       /\ \A k \in 1..Len(gs) : Fits(t, r[i + k - 1], gs[k])
       /\ fs = FlattenSeq(gs)

(* The reads of a case fit its fields, one by one from the last: no read takes nothing, *)
LEMMA TakesNone ==
  ASSUME NEW t, NEW r \in Seq(ReadNames)
  PROVE  Takes(t, r, Len(r) + 1, <<>>)
<1> DEFINE gs == <<>>
<1>1. gs \in Seq(Seq(Fields)) /\ Len(gs) = 0 /\ FlattenSeq(gs) = <<>>
  BY FlattenEmpty
<1>2. Len(r) \in Nat
  OBVIOUS
<1> HIDE DEF gs
<1>3. Len(gs) = Len(r) + 1 - (Len(r) + 1) /\ 1..Len(gs) = {}
  BY <1>1, <1>2
<1> QED
  BY <1>1, <1>3 DEF Takes

(* one read more takes its field and leaves the rest, *)
LEMMA TakesMore ==
  ASSUME NEW t, NEW r \in Seq(ReadNames), NEW i \in 1..Len(r), NEW fs, NEW c \in Seq(Fields),
         Fits(t, r[i], c), Takes(t, r, i + 1, fs)
  PROVE  fs \in Seq(Fields) /\ Takes(t, r, i, c \o fs)
<1>1. PICK gs \in Seq(Seq(Fields)) :
        /\ Len(gs) = Len(r) + 1 - (i + 1)
        /\ \A k \in 1..Len(gs) : Fits(t, r[i + 1 + k - 1], gs[k])
        /\ fs = FlattenSeq(gs)
  BY DEF Takes
<1> DEFINE hs == <<c>> \o gs
           n == Len(gs)
<1>2. n \in Nat /\ Len(r) \in Nat /\ i \in Nat /\ n = Len(r) - i
  BY <1>1
<1>3. <<c>> \in Seq(Seq(Fields)) /\ Len(<<c>>) = 1 /\ <<c>>[1] = c
  OBVIOUS
<1>4. /\ hs \in Seq(Seq(Fields)) /\ Len(hs) = 1 + n
      /\ \A k \in 1..(1 + n) : hs[k] = IF k <= 1 THEN <<c>>[k] ELSE gs[k - 1]
  BY <1>3, ConcatProperties
<1>5. FlattenSeq(hs) = c \o fs
  BY <1>1, FlattenCons
<1>6. fs \in Seq(Fields)
  BY <1>1, FlattenType
<1> HIDE DEF hs, n
<1>7. ASSUME NEW k \in 1..(1 + n) PROVE Fits(t, r[i + k - 1], hs[k])
  <2>1. CASE k = 1
    <3>1. i + 1 - 1 = i
      BY <1>2
    <3>2. hs[1] = c
      <4>1. 1 \in 1..(1 + n)
        BY <1>2
      <4>2. hs[1] = <<c>>[1]
        BY <1>4, <4>1
      <4> QED
        BY <1>3, <4>2
    <3>3. Fits(t, r[i + 1 - 1], hs[1])
      BY <3>1, <3>2
    <3> QED
      BY <2>1, <3>3
  <2>2. CASE k # 1
    <3>1. k - 1 \in 1..n /\ i + 1 + (k - 1) - 1 = i + k - 1 /\ ~(k <= 1)
      BY <1>2, <2>2
    <3>2. Fits(t, r[i + 1 + (k - 1) - 1], gs[k - 1])
      BY <1>1, <3>1 DEF n
    <3> QED
      BY <1>4, <3>1, <3>2
  <2> QED
    BY <2>1, <2>2
<1>8. Len(hs) = Len(r) + 1 - i
  BY <1>2, <1>4
<1> QED
  BY <1>4, <1>5, <1>6, <1>7, <1>8 DEF Takes

(* and in the end all of them fit. *)
LEMMA TakesFit ==
  ASSUME NEW t, NEW r, NEW fs, Takes(t, r, 1, fs)
  PROVE  \E gs : AllFit(t, r, gs) /\ FlattenSeq(gs) = fs
<1>1. r \in Seq(ReadNames) /\ Len(r) \in Nat
  BY DEF Takes
<1>2. PICK gs \in Seq(Seq(Fields)) :
        /\ Len(gs) = Len(r) + 1 - 1
        /\ \A k \in 1..Len(gs) : Fits(t, r[1 + k - 1], gs[k])
        /\ fs = FlattenSeq(gs)
  BY DEF Takes
<1>3. Len(gs) = Len(r) /\ \A k \in 1..Len(r) : 1 + k - 1 = k
  BY <1>1, <1>2
<1>4. \A k \in 1..Len(r) : Fits(t, r[k], gs[k])
  BY <1>2, <1>3
<1> QED
  BY <1>1, <1>2, <1>3, <1>4 DEF AllFit

(* All that a layout is put together of are fields. *)
LEMMA FieldTypes ==
  /\ \A n \in Nat : <<Byte(n)>> \in Seq(Fields) /\ Byte(n) \in Fields
  /\ \A type \in {"u16", "u32", "u64", "i64"} : \A n \in Nat : <<Num(type, n)>> \in Seq(Fields) /\ Num(type, n) \in Fields
  /\ \A type \in TypeNames \ {"u16", "u32", "u64", "i64"} : \A v \in Seq(Nat) :
       <<Field(type, v)>> \in Seq(Fields) /\ Field(type, v) \in Fields
  /\ \A s \in Seq(Nat) : <<Name(s)>> \in Seq(Fields) /\ Name(s) \in Fields
<1>1. \A f \in Fields : <<f>> \in Seq(Fields)
  BY Tuples
<1>2. \A n \in Nat : Byte(n) \in Fields
  <2> SUFFICES ASSUME NEW n \in Nat PROVE Byte(n) \in Fields
    OBVIOUS
  <2>1. "u8" \in TypeNames
    BY DEF TypeNames
  <2>2. Num("u8", n) \in Fields
    BY <2>1, NumType
  <2> QED
    BY <2>2 DEF Byte
<1>3. \A type \in {"u16", "u32", "u64", "i64"} : \A n \in Nat : Num(type, n) \in Fields
  <2> SUFFICES ASSUME NEW type \in {"u16", "u32", "u64", "i64"}, NEW n \in Nat PROVE Num(type, n) \in Fields
    OBVIOUS
  <2>1. type \in TypeNames
    BY DEF TypeNames
  <2> QED
    BY <2>1, NumType
<1>4. \A type \in TypeNames \ {"u16", "u32", "u64", "i64"} : \A v \in Seq(Nat) : Field(type, v) \in Fields
  BY FieldType
<1>5. \A s \in Seq(Nat) : Name(s) \in Fields
  <2> SUFFICES ASSUME NEW s \in Seq(Nat) PROVE Name(s) \in Fields
    OBVIOUS
  <2>1. "name" \in TypeNames \ {"u16", "u32", "u64", "i64"}
    BY DEF TypeNames
  <2>2. Field("name", s) \in Fields
    BY <2>1, FieldType
  <2> QED
    BY <2>2 DEF Name
<1> QED
  BY <1>1, <1>2, <1>3, <1>4, <1>5

(* Each read but the enums and the lists fits the fields that have its type and width. *)
LEMMA FieldsFit ==
  /\ \A t : \A read \in DOMAIN BufferWidth : \A v \in Seq(Nat) :
       Len(v) = BufferWidth[read] => Fits(t, read, <<Field(read, v)>>)
  /\ \A t : \A n \in Nat : Fits(t, "u8", <<Byte(n)>>)
  /\ \A t : \A n \in 0..U64 - 1 : Fits(t, "u64", <<Num("u64", n)>>)
  /\ \A t : \A n \in 0..U64 - 1 : Fits(t, "i64", <<Num("i64", n)>>)
  /\ \A t : \A n \in 0..Numerals(2) - 1 : Fits(t, "u16", <<Num("u16", n)>>)
  /\ \A t : \A s \in Seq(Nat) : Fits(t, "name", <<Name(s)>>)
  /\ \A t : \A s \in Seq(Nat) : Len(s) < Numerals(3) => Fits(t, "code", <<Field("code", s)>>)
  /\ \A t : \A v : IsClarity(v) => Fits(t, "clarity", <<Field("clarity", v)>>)
<1>1. \A t : \A read \in DOMAIN BufferWidth : \A v \in Seq(Nat) :
       Len(v) = BufferWidth[read] => Fits(t, read, <<Field(read, v)>>)
  <2>1. DOMAIN BufferWidth = {"hash", "publicKey", "signature", "memo", "header", "coinbase"}
    BY DEF BufferWidth
  <2> QED
    BY <2>1 DEF Fits, EnumFits, CountFits, FieldFits
<1>2. \A t : \A n \in Nat : Fits(t, "u8", <<Byte(n)>>)
  BY DEF Fits, EnumFits, CountFits, FieldFits, BufferWidth
<1>3. \A t : \A n \in 0..U64 - 1 : Fits(t, "u64", <<Num("u64", n)>>)
  BY Widths DEF Fits, EnumFits, CountFits, FieldFits, BufferWidth
<1>4. \A t : \A n \in 0..U64 - 1 : Fits(t, "i64", <<Num("i64", n)>>)
  BY Widths DEF Fits, EnumFits, CountFits, FieldFits, BufferWidth
<1>5. \A t : \A n \in 0..Numerals(2) - 1 : Fits(t, "u16", <<Num("u16", n)>>)
  BY Widths DEF Fits, EnumFits, CountFits, FieldFits, BufferWidth
<1>6. \A t : \A s \in Seq(Nat) : Fits(t, "name", <<Name(s)>>)
  BY DEF Fits, EnumFits, CountFits, FieldFits, BufferWidth
<1>7. \A t : \A s \in Seq(Nat) : Len(s) < Numerals(3) => Fits(t, "code", <<Field("code", s)>>)
  BY DEF Fits, EnumFits, CountFits, FieldFits, BufferWidth
<1>8. \A t : \A v : IsClarity(v) => Fits(t, "clarity", <<Field("clarity", v)>>)
  BY DEF Fits, EnumFits, CountFits, FieldFits, BufferWidth
<1> QED
  BY <1>1, <1>2, <1>3, <1>4, <1>5, <1>6, <1>7, <1>8

(* the last read takes what is left, *)
LEMMA TakesLast ==
  ASSUME NEW t, NEW r \in Seq(ReadNames), NEW i \in 1..Len(r), i = Len(r), NEW c \in Seq(Fields), Fits(t, r[i], c)
  PROVE  Takes(t, r, i, c)
<1>1. Takes(t, r, i + 1, <<>>)
  BY TakesNone
<1>2. Takes(t, r, i, c \o <<>>)
  BY <1>1, TakesMore
<1>3. c \o <<>> = c
  BY ConcatEmptySeq
<1> QED
  BY <1>2, <1>3

-----------------------------------------------------------------------------
(* The byte that an enum read finds, and what its case takes of the rest. *)
Splits(t, read, fs, b, rest) ==
  /\ b \in Nat /\ rest \in Seq(Fields) /\ fs = <<Byte(b)>> \o rest
  /\ b \in DOMAIN Enum(read) => \E gs : AllFit(t, Enum(read)[b], gs) /\ FlattenSeq(gs) = rest

(* The key of a signer. *)
LEMMA KeySplits ==
  ASSUME NEW t, NEW f \in 0..3
  PROVE  /\ KeyField(f) \in Seq(Fields)
         /\ \E rest : Splits(t, "authField", KeyField(f), f, rest)
<1> DEFINE name == IF f < 2 THEN "publicKey" ELSE "signature"
           v == IF f < 2 THEN <<f, 1, 1>> ELSE <<f, 2, 2, 2, 2>>
           x == Field(name, v)
           r == <<name>>
<1>1. name \in TypeNames \ {"u16", "u32", "u64", "i64"} /\ name \in DOMAIN BufferWidth /\ name \in ReadNames
  BY DEF TypeNames, BufferWidth, ReadNames
<1>2. v \in Seq(Nat) /\ Len(v) = BufferWidth[name]
  BY DEF BufferWidth
<1>3. <<f>> \in Seq(Nat) /\ f \in Nat
  OBVIOUS
<1>4. KeyField(f) = <<Byte(f), x>>
  BY DEF KeyField
<1>5. Enum("authField") = [b \in 0 .. 3 |-> IF b < 2 THEN <<"publicKey">> ELSE <<"signature">>]
  BY DEF Enum
<1>6. Enum("authField")[f] = r
  BY <1>5
<1> HIDE DEF name, v
<1>7. <<x>> \in Seq(Fields) /\ x \in Fields /\ Byte(f) \in Fields
  BY <1>1, <1>2, <1>3, FieldTypes
<1>8. Fits(t, name, <<x>>)
  BY <1>1, <1>2, FieldsFit
<1> HIDE DEF x
<1>9. KeyField(f) = <<Byte(f)>> \o <<x>> /\ KeyField(f) \in Seq(Fields)
  BY <1>4, <1>7, Listed, ConcatProperties
<1>10. r \in Seq(ReadNames) /\ Len(r) = 1 /\ r[1] = name
  BY <1>1, Tuples
<1> HIDE DEF r
<1>11. Takes(t, r, 1, <<x>>)
  <2>1. Takes(t, r, 1 + 1, <<>>)
    BY <1>10, TakesNone
  <2>2. 1 \in 1..Len(r)
    BY <1>10
  <2>3. Takes(t, r, 1, <<x>> \o <<>>)
    BY <1>7, <1>8, <1>10, <2>1, <2>2, TakesMore
  <2>4. <<x>> \o <<>> = <<x>>
    BY <1>7, ConcatEmptySeq
  <2> QED
    BY <2>3, <2>4
<1>12. \E gs : AllFit(t, r, gs) /\ FlattenSeq(gs) = <<x>>
  BY <1>11, TakesFit
<1> QED
  BY <1>3, <1>6, <1>7, <1>9, <1>12 DEF Splits

LEMMA KeysType ==
  ASSUME NEW keys \in Seq(0..3)
  PROVE  /\ [k \in DOMAIN keys |-> KeyField(keys[k])] \in Seq(Seq(Fields))
         /\ FlattenSeq([k \in DOMAIN keys |-> KeyField(keys[k])]) \in Seq(Fields)
<1> DEFINE m == [k \in DOMAIN keys |-> KeyField(keys[k])]
<1>1. DOMAIN keys = 1..Len(keys) /\ Len(keys) \in Nat /\ \A k \in 1..Len(keys) : keys[k] \in 0..3
  OBVIOUS
<1>2. \A k \in 1..Len(keys) : KeyField(keys[k]) \in Seq(Fields)
  BY <1>1, KeySplits
<1>3. m \in Seq(Seq(Fields))
  BY <1>1, <1>2
<1> QED
  BY <1>3, FlattenType

(* A spending condition: single or multi signature, as its hash mode says. *)
LEMMA SpendingSplits ==
  ASSUME NEW t, NEW s, IsSpending(s)
  PROVE  /\ SpendingLayout(s) \in Seq(Fields)
         /\ \E rest : Splits(t, "hashMode", SpendingLayout(s), s.hashMode, rest)
<1> DEFINE b == s.hashMode
           one == b \in {0, 2}
           h == Field("hash", <<s.signer, s.signer>>)
           n == Num("u64", s.nonce)
           e == Num("u64", s.fee)
           ks == <<Num("u32", Len(s.keys))>> \o FlattenSeq([k \in DOMAIN s.keys |-> KeyField(s.keys[k])])
           c4 == IF one THEN <<Byte(0)>> ELSE ks
           c5 == IF one THEN <<Field("signature", <<9, 9, 9, 9, 9>>)>> ELSE <<Num("u16", Len(s.keys))>>
           r4 == IF one THEN <<"u8", "signature">> ELSE <<"authFields", "u16">>
           r == <<"hash", "u64", "u64">> \o r4
           rest == <<h>> \o (<<n>> \o (<<e>> \o (c4 \o c5)))
<1>1. /\ b \in Nat /\ s.signer \in Nat /\ s.nonce \in 0..U64 - 1 /\ s.fee \in 0..U64 - 1
      /\ s.keys \in Seq(0..3) /\ Len(s.keys) < Numerals(2)
  BY Widths DEF IsSpending
<1>2. /\ U64 \in Nat \ {0} /\ Numerals(2) \in Nat \ {0} /\ Numerals(3) \in Nat \ {0} /\ Numerals(2) < Numerals(3)
      /\ Len(s.keys) \in 0..Numerals(2) - 1
  <2>1. Numerals(2 + 1) = Numerals(2) * Digit /\ Numerals(2) \in Nat \ {0} /\ Digit \in Nat /\ Digit >= 2
    BY NumeralsAre, WireAssumption
  <2>2. Numerals(2) * Digit >= Numerals(2) * 2
    BY <2>1
  <2>3. 2 + 1 = 3
    OBVIOUS
  <2>4. Numerals(3) > Numerals(2)
    BY <2>1, <2>2, <2>3
  <2>5. U64 \in Nat \ {0} /\ Numerals(3) \in Nat \ {0}
    BY NumeralsAre, Widths
  <2>6. Len(s.keys) \in Nat
    BY <1>1
  <2> QED
    BY <1>1, <2>1, <2>4, <2>5, <2>6
<1>3. /\ Byte(b) \in Fields /\ h \in Fields /\ n \in Fields /\ e \in Fields
      /\ <<h>> \in Seq(Fields) /\ <<n>> \in Seq(Fields) /\ <<e>> \in Seq(Fields) /\ <<Byte(b)>> \in Seq(Fields)
  <2>1. <<s.signer, s.signer>> \in Seq(Nat) /\ "hash" \in TypeNames \ {"u16", "u32", "u64", "i64"}
    BY <1>1 DEF TypeNames
  <2>2. s.nonce \in Nat /\ s.fee \in Nat
    BY <1>1, <1>2
  <2> QED
    BY <1>1, <2>1, <2>2, FieldTypes
<1>4. ks \in Seq(Fields)
  <2>1. <<Num("u32", Len(s.keys))>> \in Seq(Fields)
    BY <1>1, FieldTypes
  <2>2. FlattenSeq([k \in DOMAIN s.keys |-> KeyField(s.keys[k])]) \in Seq(Fields)
    BY <1>1, KeysType
  <2> QED
    BY <2>1, <2>2, ConcatProperties
<1>5. c4 \in Seq(Fields) /\ c5 \in Seq(Fields)
  <2>1. "signature" \in TypeNames \ {"u16", "u32", "u64", "i64"} /\ <<9, 9, 9, 9, 9>> \in Seq(Nat)
    BY DEF TypeNames
  <2>2. <<Byte(0)>> \in Seq(Fields) /\ <<Field("signature", <<9, 9, 9, 9, 9>>)>> \in Seq(Fields)
    BY <2>1, FieldTypes
  <2>3. <<Num("u16", Len(s.keys))>> \in Seq(Fields)
    BY <1>1, FieldTypes
  <2> HIDE DEF ks
  <2> QED
    BY <1>4, <2>2, <2>3
<1>6. SpendingLayout(s) = <<Byte(b)>> \o rest /\ rest \in Seq(Fields)
  <2> DEFINE q == <<Byte(b), h, n, e>>
             u == IF one THEN <<Byte(0), Field("signature", <<9, 9, 9, 9, 9>>)>> ELSE ks \o <<Num("u16", Len(s.keys))>>
  <2>1. SpendingLayout(s) = q \o u
    BY DEF SpendingLayout
  <2>2. u = c4 \o c5
    <3>1. CASE one
      <4>1. <<Byte(0), Field("signature", <<9, 9, 9, 9, 9>>)>> = <<Byte(0)>> \o <<Field("signature", <<9, 9, 9, 9, 9>>)>>
        BY Listed
      <4> QED
        BY <3>1, <4>1
    <3>2. CASE ~one
      BY <3>2
    <3> QED
      BY <3>1, <3>2
  <2>3. q = <<Byte(b)>> \o (<<h>> \o (<<n>> \o <<e>>))
    <3> DEFINE a == Byte(b)
    <3> HIDE DEF h, n, e, a
    <3>2. <<a, h, n, e>> = <<a>> \o (<<h>> \o (<<n>> \o <<e>>))
      BY Listed
    <3> QED
      BY <3>2 DEF a
  <2> HIDE DEF q, u, h, n, e, b, c4, c5
  <2>4. c4 \o c5 \in Seq(Fields)
    BY <1>5, ConcatProperties
  <2>5. q \o (c4 \o c5) = <<Byte(b)>> \o (<<h>> \o (<<n>> \o (<<e>> \o (c4 \o c5))))
    <3> DEFINE z == c4 \o c5
    <3>1. z \in Seq(Fields)
      BY <2>4
    <3> HIDE DEF z
    <3>2. (<<Byte(b)>> \o (<<h>> \o (<<n>> \o <<e>>))) \o z = <<Byte(b)>> \o (<<h>> \o (<<n>> \o (<<e>> \o z)))
      <4>1. NestsFour(Fields)
        BY Nested
      <4>2. /\ <<Byte(b)>> \in Seq(Fields) /\ <<h>> \in Seq(Fields) /\ <<n>> \in Seq(Fields)
            /\ <<e>> \in Seq(Fields)
        BY <1>3
      <4> QED
        BY <3>1, <4>1, <4>2 DEF NestsFour
    <3> QED
      BY <2>3, <3>2 DEF z
  <2>6. rest \in Seq(Fields)
    BY <1>3, <2>4, ConcatProperties
  <2> QED
    BY <2>1, <2>2, <2>5, <2>6
<1>7. ASSUME b \in 0..3 PROVE \E gs : AllFit(t, Enum("hashMode")[b], gs) /\ FlattenSeq(gs) = rest
  <2>1. Enum("hashMode")[b] = r
    <3>1. Enum("hashMode") = [i \in 0..3 |-> SpendingCondition(i)]
      BY DEF Enum
    <3> QED
      BY <1>7, <3>1 DEF SpendingCondition
  <2>2. /\ r \in Seq(ReadNames) /\ Len(r) = 5 /\ r[1] = "hash" /\ r[2] = "u64" /\ r[3] = "u64"
        /\ r[4] = (IF one THEN "u8" ELSE "authFields") /\ r[5] = IF one THEN "signature" ELSE "u16"
    <3> DEFINE x == <<"hash", "u64", "u64">>
    <3>1. x \in Seq(ReadNames) /\ Len(x) = 3 /\ x[1] = "hash" /\ x[2] = "u64" /\ x[3] = "u64"
      <4>1. "hash" \in ReadNames /\ "u64" \in ReadNames
        BY DEF ReadNames
      <4> QED
        BY <4>1, Tuples
    <3>2. /\ r4 \in Seq(ReadNames) /\ Len(r4) = 2 /\ r4[1] = (IF one THEN "u8" ELSE "authFields")
          /\ r4[2] = IF one THEN "signature" ELSE "u16"
      <4>1. "u8" \in ReadNames /\ "authFields" \in ReadNames /\ "signature" \in ReadNames /\ "u16" \in ReadNames
        BY DEF ReadNames
      <4> QED
        BY <4>1, Tuples
    <3> HIDE DEF x, r4
    <3>3. /\ x \o r4 \in Seq(ReadNames) /\ Len(x \o r4) = Len(x) + Len(r4)
          /\ \A k \in 1..(Len(x) + Len(r4)) : (x \o r4)[k] = IF k <= Len(x) THEN x[k] ELSE r4[k - Len(x)]
      BY <3>1, <3>2, ConcatProperties
    <3>4. r = x \o r4
      BY DEF x
    <3> HIDE DEF r
    <3>5. 1..(Len(x) + Len(r4)) = 1..5 /\ 4 - 3 = 1 /\ 5 - 3 = 2
      BY <3>1, <3>2
    <3>6. /\ r[1] = x[1] /\ r[2] = x[2] /\ r[3] = x[3] /\ r[4] = r4[4 - 3] /\ r[5] = r4[5 - 3]
      BY <3>1, <3>3, <3>4, <3>5
    <3> QED
      BY <3>1, <3>2, <3>3, <3>4, <3>5, <3>6
  <2>3. Fits(t, r[1], <<h>>) /\ Fits(t, r[2], <<n>>) /\ Fits(t, r[3], <<e>>)
    <3>1. <<s.signer, s.signer>> \in Seq(Nat) /\ Len(<<s.signer, s.signer>>) = BufferWidth["hash"]
          /\ "hash" \in DOMAIN BufferWidth
      BY <1>1 DEF BufferWidth
    <3>2. Fits(t, "hash", <<h>>)
      BY <3>1, FieldsFit
    <3>3. Fits(t, "u64", <<n>>) /\ Fits(t, "u64", <<e>>)
      BY <1>1, FieldsFit
    <3> HIDE DEF r, h, n, e
    <3> QED
      BY <2>2, <3>2, <3>3
  <2>4. Fits(t, r[4], c4)
    <3>1. Fits(t, "u8", <<Byte(0)>>)
      BY FieldsFit
    <3>2. Fits(t, "authFields", ks)
      <4>1. CountFits(t, "authFields", ks)
        <5>1. Len(s.keys) < Numerals(3) /\ s.keys \in Seq(0..3)
          <6>1. Len(s.keys) \in Nat /\ Len(s.keys) < Numerals(2) /\ s.keys \in Seq(0..3)
            BY <1>1
          <6> QED
            BY <1>2, <6>1
        <5>2. \E keys \in Seq(0..3) :
                /\ Len(keys) < Numerals(3)
                /\ ks = <<Num("u32", Len(keys))>> \o FlattenSeq([k \in DOMAIN keys |-> KeyField(keys[k])])
          BY <5>1
        <5> HIDE DEF ks
        <5> QED
          BY <5>2 DEF CountFits
      <4> HIDE DEF ks
      <4>2. EnumFits(t, "authFields", ks) /\ FieldFits(t, "authFields", ks)
        BY DEF EnumFits, FieldFits, BufferWidth
      <4> QED
        BY <4>1, <4>2 DEF Fits
    <3> HIDE DEF r, ks
    <3> QED
      BY <2>2, <3>1, <3>2
  <2>5. Fits(t, r[5], c5)
    <3>1. Fits(t, "u16", <<Num("u16", Len(s.keys))>>)
      BY <1>2, FieldsFit
    <3>2. Fits(t, "signature", <<Field("signature", <<9, 9, 9, 9, 9>>)>>)
      <4>1. <<9, 9, 9, 9, 9>> \in Seq(Nat) /\ Len(<<9, 9, 9, 9, 9>>) = BufferWidth["signature"]
            /\ "signature" \in DOMAIN BufferWidth
        BY DEF BufferWidth
      <4> QED
        BY <4>1, FieldsFit
    <3> HIDE DEF r
    <3> QED
      BY <2>2, <3>1, <3>2
  <2> HIDE DEF r, h, n, e, c4, c5
  <2>6. Takes(t, r, 5, c5)
    <3>1. 5 \in 1..Len(r) /\ 5 = Len(r)
      BY <2>2
    <3> QED
      BY <1>5, <2>2, <2>5, <3>1, TakesLast
  <2>7. Takes(t, r, 4, c4 \o c5)
    <3>1. 4 + 1 = 5 /\ 4 \in 1..Len(r)
      BY <2>2
    <3> QED
      BY <1>5, <2>2, <2>4, <2>6, <3>1, TakesMore
  <2>8. Takes(t, r, 3, <<e>> \o (c4 \o c5))
    <3>1. 3 + 1 = 4 /\ 3 \in 1..Len(r)
      BY <2>2
    <3> QED
      BY <1>3, <2>2, <2>3, <2>7, <3>1, TakesMore
  <2>9. Takes(t, r, 2, <<n>> \o (<<e>> \o (c4 \o c5)))
    <3>1. 2 + 1 = 3 /\ 2 \in 1..Len(r)
      BY <2>2
    <3> QED
      BY <1>3, <2>2, <2>3, <2>8, <3>1, TakesMore
  <2>10. Takes(t, r, 1, rest)
    <3>1. 1 + 1 = 2 /\ 1 \in 1..Len(r)
      BY <2>2
    <3> QED
      BY <1>3, <2>2, <2>3, <2>9, <3>1, TakesMore
  <2> QED
    BY <2>1, <2>10, TakesFit
<1>8. DOMAIN Enum("hashMode") = 0..3
  BY DEF Enum
<1>9. SpendingLayout(s) \in Seq(Fields)
  BY <1>3, <1>6, ConcatProperties
<1> QED
  BY <1>1, <1>6, <1>7, <1>8, <1>9 DEF Splits

LEMMA AddressFields ==
  ASSUME NEW a, IsAddress(a)
  PROVE  LET n == <<Byte(a[1])>>
             h == <<Field("hash", <<a[2], a[2]>>)>>
         IN  /\ Address(a) = n \o h /\ n \in Seq(Fields) /\ h \in Seq(Fields)
             /\ \A t : Fits(t, "u8", n) /\ Fits(t, "hash", h)
<1>1. a[1] \in Nat /\ a[2] \in Nat
  BY DEF IsAddress
<1>2. <<a[2], a[2]>> \in Seq(Nat) /\ Len(<<a[2], a[2]>>) = BufferWidth["hash"] /\ "hash" \in DOMAIN BufferWidth
  BY <1>1 DEF BufferWidth
<1>3. "hash" \in TypeNames \ {"u16", "u32", "u64", "i64"}
  BY DEF TypeNames
<1>4. <<Byte(a[1])>> \in Seq(Fields) /\ <<Field("hash", <<a[2], a[2]>>)>> \in Seq(Fields)
  BY <1>1, <1>2, <1>3, FieldTypes
<1>5. \A t : Fits(t, "u8", <<Byte(a[1])>>)
  BY <1>1, FieldsFit
<1>6. \A t : Fits(t, "hash", <<Field("hash", <<a[2], a[2]>>)>>)
  BY <1>2, FieldsFit
<1>7. Address(a) = <<Byte(a[1])>> \o <<Field("hash", <<a[2], a[2]>>)>>
  BY Listed DEF Address
<1> QED
  BY <1>4, <1>5, <1>6, <1>7

(* A principal: origin, standard or contract. *)
LEMMA PrincipalTakes ==
  ASSUME NEW t, NEW ids \in SUBSET Nat, NEW p, IsPrincipal(p, ids), NEW n,
         n = IF p.typeId = 1 THEN 0 ELSE IF p.typeId \in {3, 6} THEN 3 ELSE 2
  PROVE  \E rest \in Seq(Fields) :
           /\ PrincipalLayout(p) = <<Byte(p.typeId)>> \o rest
           /\ Takes(t, SubSeq(<<"u8", "hash", "name">>, 1, n), 1, rest)
<1> DEFINE x == <<"u8", "hash", "name">>
           r == SubSeq(x, 1, n)
           b == <<Byte(p.typeId)>>
           u == <<Byte(p.address[1])>>
           h == <<Field("hash", <<p.address[2], p.address[2]>>)>>
           m == <<Name(p.contractName)>>
<1>1. x \in Seq(ReadNames) /\ Len(x) = 3 /\ x[1] = "u8" /\ x[2] = "hash" /\ x[3] = "name"
  <2>1. "u8" \in ReadNames /\ "hash" \in ReadNames /\ "name" \in ReadNames
    BY DEF ReadNames
  <2> QED
    BY <2>1, Tuples
<1>2. n \in {0, 2, 3}
  OBVIOUS
<1> HIDE DEF x
<1>3. r \in Seq(ReadNames) /\ Len(r) = n /\ \A i \in 1..n : r[i] = x[i]
  <2>1. \A i \in 1..n : x[i] \in ReadNames
    BY <1>1, <1>2
  <2>2. 1 \in Int /\ n \in Int
    BY <1>2
  <2>3. /\ r \in Seq(ReadNames) /\ Len(r) = IF 1 <= n THEN n - 1 + 1 ELSE 0
        /\ \A i \in 1..(n - 1 + 1) : r[i] = x[1 + i - 1]
    BY <2>1, <2>2, SubSeqProperties
  <2>4. n - 1 + 1 = n /\ \A i \in 1..n : 1 + i - 1 = i
    BY <1>2
  <2> QED
    BY <1>2, <2>3, <2>4
<1> HIDE DEF r
<1>4. b \in Seq(Fields)
  BY FieldTypes DEF IsPrincipal
<1>5. CASE p.typeId = 1
  <2>1. PrincipalLayout(p) = (b \o <<>>) \o <<>>
    BY <1>5 DEF PrincipalLayout
  <2>2. PrincipalLayout(p) = b \o <<>> /\ <<>> \in Seq(Fields)
    BY <1>4, <2>1, ConcatEmptySeq
  <2>3. Len(r) + 1 = 1
    BY <1>3, <1>5
  <2>4. Takes(t, r, 1, <<>>)
    BY <1>3, <2>3, TakesNone
  <2> QED
    BY <2>2, <2>4 DEF r, x
<1>6. ASSUME p.typeId # 1
      PROVE  /\ u \in Seq(Fields) /\ h \in Seq(Fields) /\ Address(p.address) = u \o h
             /\ Fits(t, "u8", u) /\ Fits(t, "hash", h)
  <2>1. IsAddress(p.address)
    BY <1>6 DEF IsPrincipal
  <2> QED
    BY <2>1, AddressFields
<1>7. CASE p.typeId # 1 /\ p.typeId \notin {3, 6}
  <2>1. PrincipalLayout(p) = (b \o (u \o h)) \o <<>>
    BY <1>6, <1>7 DEF PrincipalLayout
  <2> HIDE DEF u, h, b
  <2>2. u \o h \in Seq(Fields) /\ b \o (u \o h) \in Seq(Fields)
    BY <1>4, <1>6, <1>7, ConcatProperties
  <2>3. PrincipalLayout(p) = b \o (u \o h)
    BY <2>1, <2>2, ConcatEmptySeq
  <2>4. n = 2 /\ r[1] = "u8" /\ r[2] = "hash" /\ 1 \in 1..Len(r) /\ 2 \in 1..Len(r) /\ 2 = Len(r) /\ 1 + 1 = 2
    <3>1. n = 2
      BY <1>7
    <3> QED
      BY <1>1, <1>3, <3>1
  <2>5. Takes(t, r, 2, h)
    BY <1>3, <1>6, <1>7, <2>4, TakesLast
  <2>6. Takes(t, r, 1, u \o h)
    BY <1>3, <1>6, <1>7, <2>4, <2>5, TakesMore
  <2> QED
    BY <2>2, <2>3, <2>6 DEF r, x, b
<1>8. CASE p.typeId # 1 /\ p.typeId \in {3, 6}
  <2>1. PrincipalLayout(p) = (b \o (u \o h)) \o m
    BY <1>6, <1>8 DEF PrincipalLayout
  <2>2. m \in Seq(Fields) /\ Fits(t, "name", m)
    <3>1. p.contractName \in Seq(Nat)
      BY <1>8 DEF IsPrincipal
    <3> QED
      BY <3>1, FieldTypes, FieldsFit
  <2> HIDE DEF u, h, b, m
  <2>3. u \o (h \o m) \in Seq(Fields)
    <3>1. h \o m \in Seq(Fields)
      BY <1>6, <1>8, <2>2, ConcatProperties
    <3> QED
      BY <1>6, <1>8, <3>1, ConcatProperties
  <2>4. PrincipalLayout(p) = b \o (u \o (h \o m))
    <3> DEFINE y == u \o h
    <3>1. y \in Seq(Fields)
      BY <1>6, <1>8, ConcatProperties
    <3> HIDE DEF y
    <3>2. (b \o y) \o m = b \o (y \o m)
      BY <1>4, <2>2, <3>1, Rejoined
    <3>3. (u \o h) \o m = u \o (h \o m)
      BY <1>6, <1>8, <2>2, Rejoined
    <3> QED
      BY <2>1, <3>2, <3>3 DEF y
  <2>5. /\ n = 3 /\ r[1] = "u8" /\ r[2] = "hash" /\ r[3] = "name"
        /\ 1 \in 1..Len(r) /\ 2 \in 1..Len(r) /\ 3 \in 1..Len(r) /\ 3 = Len(r) /\ 1 + 1 = 2 /\ 2 + 1 = 3
    <3>1. n = 3
      BY <1>8
    <3> QED
      BY <1>1, <1>3, <3>1
  <2>6. Takes(t, r, 3, m)
    BY <1>3, <2>2, <2>5, TakesLast
  <2>7. Takes(t, r, 2, h \o m)
    BY <1>3, <1>6, <1>8, <2>5, <2>6, TakesMore
  <2>8. Takes(t, r, 1, u \o (h \o m))
    BY <1>3, <1>6, <1>8, <2>5, <2>7, TakesMore
  <2> QED
    BY <2>3, <2>4, <2>8 DEF r, x, b
<1> QED
  BY <1>5, <1>7, <1>8

(* That of a post condition, and that of a recipient. *)
LEMMA PrincipalSplits ==
  ASSUME NEW t, NEW p
  PROVE  /\ IsPrincipal(p, 1..3) =>
              /\ PrincipalLayout(p) \in Seq(Fields)
              /\ \E rest : Splits(t, "principal", PrincipalLayout(p), p.typeId, rest)
         /\ IsPrincipal(p, {5, 6}) =>
              /\ PrincipalLayout(p) \in Seq(Fields)
              /\ \E rest : Splits(t, "recipient", PrincipalLayout(p), p.typeId, rest)
<1> DEFINE b == p.typeId
           x == <<"u8", "hash", "name">>
<1>1. ASSUME IsPrincipal(p, 1..3)
      PROVE  /\ PrincipalLayout(p) \in Seq(Fields)
             /\ \E rest : Splits(t, "principal", PrincipalLayout(p), b, rest)
  <2> DEFINE n == IF b = 1 THEN 0 ELSE b
  <2>1. b \in 1..3 /\ b \in Nat
    BY <1>1 DEF IsPrincipal
  <2>2. n = IF p.typeId = 1 THEN 0 ELSE IF p.typeId \in {3, 6} THEN 3 ELSE 2
    BY <2>1
  <2>3. DOMAIN Enum("principal") = 1..3 /\ Enum("principal")[b] = SubSeq(x, 1, n)
    <3>1. Enum("principal") = [i \in 1 .. 3 |-> SubSeq(<<"u8", "hash", "name">>, 1, IF i = 1 THEN 0 ELSE i)]
      BY DEF Enum
    <3> QED
      BY <2>1, <3>1
  <2> HIDE DEF n, x
  <2>4. 1..3 \in SUBSET Nat
    OBVIOUS
  <2>5. PICK rest \in Seq(Fields) :
          PrincipalLayout(p) = <<Byte(b)>> \o rest /\ Takes(t, SubSeq(x, 1, n), 1, rest)
    BY <1>1, <2>2, <2>4, PrincipalTakes DEF x
  <2>6. \E gs : AllFit(t, SubSeq(x, 1, n), gs) /\ FlattenSeq(gs) = rest
    BY <2>5, TakesFit
  <2>7. <<Byte(b)>> \in Seq(Fields)
    BY <2>1, FieldTypes
  <2>8. PrincipalLayout(p) \in Seq(Fields)
    BY <2>5, <2>7, ConcatProperties
  <2>9. Splits(t, "principal", PrincipalLayout(p), b, rest)
    BY <2>1, <2>3, <2>5, <2>6 DEF Splits
  <2> QED
    BY <2>8, <2>9
<1>2. ASSUME IsPrincipal(p, {5, 6})
      PROVE  /\ PrincipalLayout(p) \in Seq(Fields)
             /\ \E rest : Splits(t, "recipient", PrincipalLayout(p), b, rest)
  <2> DEFINE n == b - 3
  <2>1. b \in {5, 6} /\ b \in Nat
    BY <1>2 DEF IsPrincipal
  <2>2. n = IF p.typeId = 1 THEN 0 ELSE IF p.typeId \in {3, 6} THEN 3 ELSE 2
    BY <2>1
  <2>3. DOMAIN Enum("recipient") = {5, 6} /\ Enum("recipient")[b] = SubSeq(x, 1, n)
    <3>1. Enum("recipient") = [i \in {5, 6} |-> SubSeq(<<"u8", "hash", "name">>, 1, i - 3)]
      BY DEF Enum
    <3> QED
      BY <2>1, <3>1
  <2> HIDE DEF n, x
  <2>4. {5, 6} \in SUBSET Nat
    OBVIOUS
  <2>5. PICK rest \in Seq(Fields) :
          PrincipalLayout(p) = <<Byte(b)>> \o rest /\ Takes(t, SubSeq(x, 1, n), 1, rest)
    BY <1>2, <2>2, <2>4, PrincipalTakes DEF x
  <2>6. \E gs : AllFit(t, SubSeq(x, 1, n), gs) /\ FlattenSeq(gs) = rest
    BY <2>5, TakesFit
  <2>7. <<Byte(b)>> \in Seq(Fields)
    BY <2>1, FieldTypes
  <2>8. PrincipalLayout(p) \in Seq(Fields)
    BY <2>5, <2>7, ConcatProperties
  <2>9. Splits(t, "recipient", PrincipalLayout(p), b, rest)
    BY <2>1, <2>3, <2>5, <2>6 DEF Splits
  <2> QED
    BY <2>8, <2>9
<1> QED
  BY <1>1, <1>2

(* An asset: an address and two names. *)
LEMMA AssetFields ==
  ASSUME NEW a, IsAsset(a)
  PROVE  /\ AssetLayout(a) \in Seq(Fields)
         /\ \E u, h, m, n \in Seq(Fields) :
              /\ \A z \in Seq(Fields) : AssetLayout(a) \o z = u \o (h \o (m \o (n \o z)))
              /\ \A t : Fits(t, "u8", u) /\ Fits(t, "hash", h) /\ Fits(t, "name", m) /\ Fits(t, "name", n)
<1> DEFINE u == <<Byte(a.address[1])>>
           h == <<Field("hash", <<a.address[2], a.address[2]>>)>>
           m == <<Name(a.contractName)>>
           n == <<Name(a.assetName)>>
<1>1. IsAddress(a.address) /\ a.contractName \in Seq(Nat) /\ a.assetName \in Seq(Nat)
  BY DEF IsAsset
<1>2. /\ Address(a.address) = u \o h /\ u \in Seq(Fields) /\ h \in Seq(Fields)
      /\ \A t : Fits(t, "u8", u) /\ Fits(t, "hash", h)
  BY <1>1, AddressFields
<1>3. m \in Seq(Fields) /\ n \in Seq(Fields) /\ \A t : Fits(t, "name", m) /\ Fits(t, "name", n)
  BY <1>1, FieldTypes, FieldsFit
<1>4. <<Name(a.contractName), Name(a.assetName)>> = m \o n
  BY Listed
<1>5. AssetLayout(a) = (u \o h) \o (m \o n)
  BY <1>2, <1>4 DEF AssetLayout
<1> HIDE DEF u, h, m, n
<1> DEFINE z == m \o n
<1>6. z \in Seq(Fields)
  BY <1>3, ConcatProperties
<1> HIDE DEF z
<1>7. (u \o h) \o z = u \o (h \o z)
  BY <1>2, <1>6, Rejoined
<1>8. AssetLayout(a) = u \o (h \o (m \o n))
  BY <1>5, <1>7 DEF z
<1>9. h \o z \in Seq(Fields)
  BY <1>2, <1>6, ConcatProperties
<1>10. u \o (h \o z) \in Seq(Fields)
  BY <1>2, <1>9, ConcatProperties
<1>11. ASSUME NEW y \in Seq(Fields) PROVE AssetLayout(a) \o y = u \o (h \o (m \o (n \o y)))
  <2>1. u \in Seq(Fields)
    BY <1>2
  <2>6. h \in Seq(Fields)
    BY <1>2
  <2>7. m \in Seq(Fields) /\ n \in Seq(Fields)
    BY <1>3
  <2> DEFINE w == h \o z
  <2>2. w \in Seq(Fields)
    BY <1>9
  <2> HIDE DEF w
  <2>3. (u \o w) \o y = u \o (w \o y)
    BY <2>1, <2>2, Rejoined
  <2>4. (h \o z) \o y = h \o (z \o y)
    BY <1>6, <2>6, Rejoined
  <2>5. (m \o n) \o y = m \o (n \o y)
    BY <2>7, Rejoined
  <2> QED
    BY <1>8, <2>3, <2>4, <2>5 DEF w, z
<1> QED
  BY <1>2, <1>3, <1>8, <1>10, <1>11 DEF z

(* The reads of an asset in a post condition fit it. *)
LEMMA AssetTakes ==
  ASSUME NEW t, NEW a, IsAsset(a), NEW r \in Seq(ReadNames), Len(r) = 7,
         r[2] = "u8", r[3] = "hash", r[4] = "name", r[5] = "name",
         NEW z \in Seq(Fields), Takes(t, r, 6, z)
  PROVE  Takes(t, r, 2, AssetLayout(a) \o z)
<1>1. PICK u, h, m, n \in Seq(Fields) :
        /\ \A y \in Seq(Fields) : AssetLayout(a) \o y = u \o (h \o (m \o (n \o y)))
        /\ \A x : Fits(x, "u8", u) /\ Fits(x, "hash", h) /\ Fits(x, "name", m) /\ Fits(x, "name", n)
  BY AssetFields
<1>2. /\ 2 \in 1..Len(r) /\ 3 \in 1..Len(r) /\ 4 \in 1..Len(r) /\ 5 \in 1..Len(r)
      /\ 2 + 1 = 3 /\ 3 + 1 = 4 /\ 4 + 1 = 5 /\ 5 + 1 = 6
  OBVIOUS
<1>3. n \o z \in Seq(Fields) /\ Takes(t, r, 5, n \o z)
  BY <1>1, <1>2, TakesMore, ConcatProperties
<1>4. m \o (n \o z) \in Seq(Fields) /\ Takes(t, r, 4, m \o (n \o z))
  BY <1>1, <1>2, <1>3, TakesMore, ConcatProperties
<1>5. h \o (m \o (n \o z)) \in Seq(Fields) /\ Takes(t, r, 3, h \o (m \o (n \o z)))
  BY <1>1, <1>2, <1>4, TakesMore, ConcatProperties
<1>6. Takes(t, r, 2, u \o (h \o (m \o (n \o z))))
  BY <1>1, <1>2, <1>5, TakesMore
<1> QED
  BY <1>1, <1>6

(* A post condition about stx, about a fungible or about a nonfungible token. *)
LEMMA ConditionSplits ==
  ASSUME NEW t, NEW c, IsCondition(c)
  PROVE  /\ ConditionLayout(c) \in Seq(Fields)
         /\ \E b \in 0..2 : \E rest : Splits(t, "condition", ConditionLayout(c), b, rest)
<1> DEFINE b == c.assetInfoId
           k == <<Byte(c.code)>>
           m == <<Num("u64", c.amount)>>
           d == <<Num("i64", c.amount)>>
           v == <<Field("clarity", c.value)>>
           p == PrincipalLayout(c.principal)
           x == <<Byte(b)>>
           z == AssetLayout(c.asset)
           r == Condition(b)
<1>1. IsPrincipal(c.principal, 1..3) /\ b \in 0..2 /\ b \in Nat
  BY DEF IsCondition
<1>2. p \in Seq(Fields) /\ x \in Seq(Fields)
  BY <1>1, PrincipalSplits, FieldTypes
<1>3. Fits(t, "principal", p)
  BY <1>1 DEF Fits, EnumFits, CountFits, FieldFits, BufferWidth
<1>4. c.code \in Nat /\ k \in Seq(Fields)
  <2>1. c.code \in Nat
    BY DEF IsCondition
  <2> QED
    BY <2>1, FieldTypes
<1>5. ASSUME NEW tail \in Seq(Fields), ConditionLayout(c) = (x \o p) \o tail, Takes(t, r, 1, p \o tail)
      PROVE  ConditionLayout(c) \in Seq(Fields) /\ Splits(t, "condition", ConditionLayout(c), b, p \o tail)
  <2>1. Enum("condition")[b] = r /\ DOMAIN Enum("condition") = 0..2
    <3>1. Enum("condition") = [i \in 0 .. 2 |-> Condition(i)]
      BY DEF Enum
    <3> QED
      BY <1>1, <3>1
  <2> HIDE DEF x, p, r, b
  <2>2. (x \o p) \o tail = x \o (p \o tail)
    BY <1>2, <1>5, Rejoined
  <2>3. p \o tail \in Seq(Fields)
    BY <1>2, <1>5, ConcatProperties
  <2> DEFINE w == p \o tail
  <2> HIDE DEF w
  <2>4. w \in Seq(Fields)
    BY <2>3 DEF w
  <2>5. x \o w \in Seq(Fields)
    BY <1>2, <2>4, ConcatProperties
  <2>6. ConditionLayout(c) = x \o w
    BY <1>5, <2>2 DEF w
  <2>7. \E gs : AllFit(t, r, gs) /\ FlattenSeq(gs) = w
    BY <1>5, TakesFit DEF w
  <2>8. Splits(t, "condition", ConditionLayout(c), b, w)
    BY <1>1, <2>1, <2>4, <2>6, <2>7 DEF Splits, x
  <2> QED
    BY <2>5, <2>6, <2>8 DEF w
<1>6. CASE b = 0
  <2>1. c.code \in 1..5 /\ c.amount \in 0..U64 - 1
    BY <1>6 DEF IsCondition
  <2>2. c.amount \in Nat
    BY <2>1
  <2>3. k \o d \in Seq(Fields) /\ d \in Seq(Fields)
    <3>1. d \in Seq(Fields)
      BY <2>2, FieldTypes
    <3> QED
      BY <1>4, <3>1, ConcatProperties
  <2>4. ConditionLayout(c) = (x \o p) \o (k \o d)
    <3>1. <<Byte(c.code), Num("i64", c.amount)>> = k \o d
      BY Listed
    <3> QED
      BY <1>6, <3>1 DEF ConditionLayout
  <2>5. r = <<"principal", "fungibleCode", "i64">>
    BY <1>6 DEF Condition
  <2> HIDE DEF r, p, x
  <2>6. /\ r \in Seq(ReadNames) /\ Len(r) = 3 /\ r[1] = "principal" /\ r[2] = "fungibleCode" /\ r[3] = "i64"
        /\ 1 \in 1..Len(r) /\ 2 \in 1..Len(r) /\ 3 \in 1..Len(r) /\ 3 = Len(r) /\ 1 + 1 = 2 /\ 2 + 1 = 3
    <3>1. "principal" \in ReadNames /\ "fungibleCode" \in ReadNames /\ "i64" \in ReadNames
      BY DEF ReadNames
    <3>2. r \in Seq(ReadNames)
      BY <2>5, <3>1, Tuples
    <3>3. Len(r) = 3 /\ r[1] = "principal" /\ r[2] = "fungibleCode" /\ r[3] = "i64"
      BY <2>5, Tuples
    <3> QED
      BY <3>2, <3>3
  <2>7. Fits(t, r[2], k) /\ Fits(t, r[3], d)
    <3>1. Fits(t, "fungibleCode", k)
      BY <2>1 DEF Fits, EnumFits, CountFits, FieldFits, BufferWidth
    <3>2. Fits(t, "i64", d)
      BY <2>1, FieldsFit
    <3> HIDE DEF k, d
    <3> QED
      BY <2>6, <3>1, <3>2
  <2> HIDE DEF k, d
  <2>8. Takes(t, r, 3, d)
    BY <2>3, <2>6, <2>7, TakesLast
  <2>9. Takes(t, r, 2, k \o d)
    BY <1>4, <2>6, <2>7, <2>8, TakesMore
  <2>10. Takes(t, r, 1, p \o (k \o d))
    BY <1>2, <1>3, <2>6, <2>9, TakesMore
  <2>11. \E rest : ConditionLayout(c) \in Seq(Fields) /\ Splits(t, "condition", ConditionLayout(c), b, rest)
    BY <1>5, <2>3, <2>4, <2>10
  <2> QED
    BY <1>1, <2>11
<1>7. CASE b = 1
  <2>1. c.code \in 1..5 /\ IsAsset(c.asset) /\ c.amount \in 0..U64 - 1
    BY <1>7 DEF IsCondition
  <2>2. m \in Seq(Fields) /\ Fits(t, "u64", m)
    <3>1. c.amount \in Nat
      BY <2>1
    <3> QED
      BY <2>1, <3>1, FieldTypes, FieldsFit
  <2>3. z \in Seq(Fields)
    BY <2>1, AssetFields
  <2>4. k \o m \in Seq(Fields)
    BY <1>4, <2>2, ConcatProperties
  <2>5. ConditionLayout(c) = (x \o p) \o (z \o (k \o m))
    <3>1. <<Byte(c.code), Num("u64", c.amount)>> = k \o m
      BY Listed
    <3> QED
      BY <1>7, <3>1 DEF ConditionLayout
  <2>6. r = <<"principal", "u8", "hash", "name", "name", "fungibleCode", "u64">>
    BY <1>7 DEF Condition
  <2> HIDE DEF r, p, x
  <2>7. /\ r \in Seq(ReadNames) /\ Len(r) = 7 /\ r[1] = "principal" /\ r[2] = "u8" /\ r[3] = "hash"
        /\ r[4] = "name" /\ r[5] = "name" /\ r[6] = "fungibleCode" /\ r[7] = "u64"
        /\ 1 \in 1..Len(r) /\ 6 \in 1..Len(r) /\ 7 \in 1..Len(r) /\ 7 = Len(r) /\ 1 + 1 = 2 /\ 6 + 1 = 7
    <3>1. /\ "principal" \in ReadNames /\ "u8" \in ReadNames /\ "hash" \in ReadNames /\ "name" \in ReadNames
          /\ "fungibleCode" \in ReadNames /\ "u64" \in ReadNames
      BY DEF ReadNames
    <3>2. r \in Seq(ReadNames)
      BY <2>6, <3>1, LongTuples
    <3>3. /\ Len(r) = 7 /\ r[1] = "principal" /\ r[2] = "u8" /\ r[3] = "hash"
          /\ r[4] = "name" /\ r[5] = "name" /\ r[6] = "fungibleCode" /\ r[7] = "u64"
      BY <2>6, LongTuples
    <3> QED
      BY <3>2, <3>3
  <2>8. Fits(t, r[6], k) /\ Fits(t, r[7], m)
    <3>1. Fits(t, "fungibleCode", k)
      BY <2>1 DEF Fits, EnumFits, CountFits, FieldFits, BufferWidth
    <3> HIDE DEF k, m, v
    <3> QED
      BY <2>2, <2>7, <3>1
  <2> HIDE DEF k, m, v
  <2>9. Takes(t, r, 7, m)
    BY <1>4, <2>2, <2>7, <2>8, TakesLast
  <2>10. Takes(t, r, 6, k \o m)
    BY <1>4, <2>2, <2>7, <2>8, <2>9, TakesMore
  <2> DEFINE y == k \o m
             w == z \o y
  <2>11. y \in Seq(Fields) /\ Takes(t, r, 6, y)
    BY <2>4, <2>10
  <2> HIDE DEF y
  <2>12. Takes(t, r, 2, w)
    BY <2>1, <2>7, <2>11, AssetTakes
  <2>13. w \in Seq(Fields)
    <3> HIDE DEF z
    <3> QED
      BY <2>3, <2>11, ConcatProperties
  <2> HIDE DEF w, z
  <2>14. Takes(t, r, 1, p \o w)
    BY <1>2, <1>3, <2>7, <2>12, TakesMore
  <2>15. ConditionLayout(c) = (x \o p) \o w
    BY <2>5 DEF w, y
  <2>16. \E rest : ConditionLayout(c) \in Seq(Fields) /\ Splits(t, "condition", ConditionLayout(c), b, rest)
    BY <1>5, <2>13, <2>14, <2>15
  <2> QED
    BY <1>1, <2>16
<1>8. CASE b = 2
  <2>1. c.code \in {16, 17} /\ IsAsset(c.asset) /\ IsClarity(c.value)
    BY <1>8 DEF IsCondition
  <2>2. v \in Seq(Fields) /\ Fits(t, "clarity", v)
    <3>1. c.value \in Seq(Nat) /\ "clarity" \in TypeNames \ {"u16", "u32", "u64", "i64"}
      BY <2>1 DEF IsClarity, TypeNames
    <3> QED
      BY <2>1, <3>1, FieldTypes, FieldsFit
  <2>3. z \in Seq(Fields)
    BY <2>1, AssetFields
  <2>4. v \o k \in Seq(Fields)
    BY <1>4, <2>2, ConcatProperties
  <2>5. ConditionLayout(c) = (x \o p) \o (z \o (v \o k))
    <3>1. <<Field("clarity", c.value), Byte(c.code)>> = v \o k
      BY Listed
    <3> QED
      BY <1>8, <3>1 DEF ConditionLayout
  <2>6. r = <<"principal", "u8", "hash", "name", "name", "clarity", "nonfungibleCode">>
    BY <1>8 DEF Condition
  <2> HIDE DEF r, p, x
  <2>7. /\ r \in Seq(ReadNames) /\ Len(r) = 7 /\ r[1] = "principal" /\ r[2] = "u8" /\ r[3] = "hash"
        /\ r[4] = "name" /\ r[5] = "name" /\ r[6] = "clarity" /\ r[7] = "nonfungibleCode"
        /\ 1 \in 1..Len(r) /\ 6 \in 1..Len(r) /\ 7 \in 1..Len(r) /\ 7 = Len(r) /\ 1 + 1 = 2 /\ 6 + 1 = 7
    <3>1. /\ "principal" \in ReadNames /\ "u8" \in ReadNames /\ "hash" \in ReadNames /\ "name" \in ReadNames
          /\ "clarity" \in ReadNames /\ "nonfungibleCode" \in ReadNames
      BY DEF ReadNames
    <3>2. r \in Seq(ReadNames)
      BY <2>6, <3>1, LongTuples
    <3>3. /\ Len(r) = 7 /\ r[1] = "principal" /\ r[2] = "u8" /\ r[3] = "hash"
          /\ r[4] = "name" /\ r[5] = "name" /\ r[6] = "clarity" /\ r[7] = "nonfungibleCode"
      BY <2>6, LongTuples
    <3> QED
      BY <3>2, <3>3
  <2>8. Fits(t, r[6], v) /\ Fits(t, r[7], k)
    <3>1. Fits(t, "nonfungibleCode", k)
      BY <2>1 DEF Fits, EnumFits, CountFits, FieldFits, BufferWidth
    <3> HIDE DEF k, m, v
    <3> QED
      BY <2>2, <2>7, <3>1
  <2> HIDE DEF k, m, v
  <2>9. Takes(t, r, 7, k)
    BY <1>4, <2>2, <2>7, <2>8, TakesLast
  <2>10. Takes(t, r, 6, v \o k)
    BY <1>4, <2>2, <2>7, <2>8, <2>9, TakesMore
  <2> DEFINE y == v \o k
             w == z \o y
  <2>11. y \in Seq(Fields) /\ Takes(t, r, 6, y)
    BY <2>4, <2>10
  <2> HIDE DEF y
  <2>12. Takes(t, r, 2, w)
    BY <2>1, <2>7, <2>11, AssetTakes
  <2>13. w \in Seq(Fields)
    <3> HIDE DEF z
    <3> QED
      BY <2>3, <2>11, ConcatProperties
  <2> HIDE DEF w, z
  <2>14. Takes(t, r, 1, p \o w)
    BY <1>2, <1>3, <2>7, <2>12, TakesMore
  <2>15. ConditionLayout(c) = (x \o p) \o w
    BY <2>5 DEF w, y
  <2>16. \E rest : ConditionLayout(c) \in Seq(Fields) /\ Splits(t, "condition", ConditionLayout(c), b, rest)
    BY <1>5, <2>13, <2>14, <2>15
  <2> QED
    BY <1>1, <2>16
<1> QED
  BY <1>1, <1>6, <1>7, <1>8

ArgFields(args) == [k \in DOMAIN args |-> Field("clarity", args[k])]

(* The arguments of a call are a count and a value each. *)
LEMMA ArgsType ==
  ASSUME NEW args \in Seq(Seq(Nat))
  PROVE  /\ ArgFields(args) \in Seq(Fields) /\ Len(ArgFields(args)) = Len(args)
         /\ ArgsLayout(args) = <<Num("u32", Len(args))>> \o ArgFields(args)
         /\ <<Num("u32", Len(args))>> \in Seq(Fields)
         /\ ArgsLayout(args) \in Seq(Fields)
<1>1. DOMAIN args = 1..Len(args) /\ Len(args) \in Nat /\ \A k \in 1..Len(args) : args[k] \in Seq(Nat)
  OBVIOUS
<1>2. "clarity" \in TypeNames \ {"u16", "u32", "u64", "i64"}
  BY DEF TypeNames
<1>3. \A k \in 1..Len(args) : Field("clarity", args[k]) \in Fields
  BY <1>1, <1>2, FieldTypes
<1>4. ArgFields(args) \in Seq(Fields) /\ Len(ArgFields(args)) = Len(args)
  BY <1>1, <1>3 DEF ArgFields
<1>5. <<Num("u32", Len(args))>> \in Seq(Fields)
  BY <1>1, FieldTypes
<1>6. ArgsLayout(args) = <<Num("u32", Len(args))>> \o ArgFields(args)
  BY DEF ArgsLayout, ArgFields
<1> QED
  BY <1>4, <1>5, <1>6, ConcatProperties

(* A payload of each type. *)
LEMMA PayloadSplits ==
  ASSUME NEW t, IsPayload(t.payload)
  PROVE  /\ PayloadLayout(t.payload) \in Seq(Fields)
         /\ \E rest : Splits(t, "payload", PayloadLayout(t.payload), t.payload.typeId, rest)
<1> DEFINE p == t.payload
           b == p.typeId
           x == <<Byte(b)>>
           r == Payload(b)
<1>1. b \in Nat
  BY DEF IsPayload
<1>2. x \in Seq(Fields)
  BY <1>1, FieldTypes
<1>3. DOMAIN Enum("payload") = 0..4 /\ (b \in 0..4 => Enum("payload")[b] = r)
  <2>1. Enum("payload") = [i \in 0 .. 4 |-> Payload(i)]
    BY DEF Enum
  <2> QED
    BY <2>1
<1>4. ASSUME NEW rest \in Seq(Fields), PayloadLayout(p) = x \o rest, b \in 0..4 => Takes(t, r, 1, rest)
      PROVE  PayloadLayout(p) \in Seq(Fields) /\ Splits(t, "payload", PayloadLayout(p), b, rest)
  <2>1. b \in 0..4 => \E gs : AllFit(t, r, gs) /\ FlattenSeq(gs) = rest
    BY <1>4, TakesFit
  <2> HIDE DEF x, r, b
  <2>2. x \o rest \in Seq(Fields)
    BY <1>2, <1>4, ConcatProperties
  <2>3. Splits(t, "payload", PayloadLayout(p), b, rest)
    BY <1>1, <1>3, <1>4, <2>1 DEF Splits, x
  <2> QED
    BY <1>4, <2>2, <2>3
<1>5. CASE b = 0
  <2> DEFINE c == PrincipalLayout(p.recipient)
             n == <<Num("i64", p.amount)>>
             m == <<Field("memo", p.memo)>>
             y == n \o m
             w == c \o y
  <2>1. /\ IsPrincipal(p.recipient, {5, 6}) /\ p.amount \in 0..U64 - 1
        /\ p.memo \in Seq(Nat) /\ Len(p.memo) = 2
    BY <1>5 DEF IsPayload
  <2>2. c \in Seq(Fields) /\ Fits(t, "recipient", c)
    <3>1. c \in Seq(Fields)
      BY <2>1, PrincipalSplits
    <3>2. Fits(t, "recipient", c)
      BY <2>1 DEF Fits, EnumFits, CountFits, FieldFits, BufferWidth
    <3> QED
      BY <3>1, <3>2
  <2>3. n \in Seq(Fields) /\ Fits(t, "i64", n)
    <3>1. p.amount \in Nat
      BY <2>1
    <3> QED
      BY <2>1, <3>1, FieldTypes, FieldsFit
  <2>4. m \in Seq(Fields) /\ Fits(t, "memo", m)
    <3>1. "memo" \in DOMAIN BufferWidth /\ BufferWidth["memo"] = 2 /\ "memo" \in TypeNames \ {"u16", "u32", "u64", "i64"}
      BY DEF BufferWidth, TypeNames
    <3> QED
      BY <2>1, <3>1, FieldTypes, FieldsFit
  <2>5. PayloadLayout(p) = x \o w
    <3>1. <<Num("i64", p.amount), Field("memo", p.memo)>> = n \o m
      BY Listed
    <3> QED
      BY <1>5, <3>1 DEF PayloadLayout
  <2>6. r = <<"recipient", "i64", "memo">>
    BY <1>5 DEF Payload
  <2> HIDE DEF r, c, n, m, x
  <2>7. /\ r \in Seq(ReadNames) /\ Len(r) = 3 /\ r[1] = "recipient" /\ r[2] = "i64" /\ r[3] = "memo"
        /\ 1 \in 1..Len(r) /\ 2 \in 1..Len(r) /\ 3 \in 1..Len(r) /\ 3 = Len(r) /\ 1 + 1 = 2 /\ 2 + 1 = 3
    <3>1. "recipient" \in ReadNames /\ "i64" \in ReadNames /\ "memo" \in ReadNames
      BY DEF ReadNames
    <3>2. r \in Seq(ReadNames)
      BY <2>6, <3>1, Tuples
    <3>3. Len(r) = 3 /\ r[1] = "recipient" /\ r[2] = "i64" /\ r[3] = "memo"
      BY <2>6, Tuples
    <3> QED
      BY <3>2, <3>3
  <2>8. Takes(t, r, 3, m)
    BY <2>4, <2>7, TakesLast
  <2>9. Takes(t, r, 2, y) /\ y \in Seq(Fields)
    BY <2>3, <2>4, <2>7, <2>8, TakesMore, ConcatProperties
  <2> HIDE DEF y
  <2>10. Takes(t, r, 1, w) /\ w \in Seq(Fields)
    BY <2>2, <2>7, <2>9, TakesMore, ConcatProperties
  <2> HIDE DEF w
  <2>11. \E rest : PayloadLayout(p) \in Seq(Fields) /\ Splits(t, "payload", PayloadLayout(p), b, rest)
    BY <1>4, <2>5, <2>10
  <2> QED
    BY <2>11
<1>6. CASE b = 1
  <2> DEFINE n == <<Name(p.name)>>
             m == <<Field("code", p.codeBody)>>
             w == n \o m
  <2>1. p.name \in Seq(Nat) /\ p.codeBody \in Seq(Nat) /\ Len(p.codeBody) < Numerals(3)
    BY <1>6, Widths DEF IsPayload
  <2>2. n \in Seq(Fields) /\ Fits(t, "name", n)
    BY <2>1, FieldTypes, FieldsFit
  <2>3. m \in Seq(Fields) /\ Fits(t, "code", m)
    <3>1. "code" \in TypeNames \ {"u16", "u32", "u64", "i64"}
      BY DEF TypeNames
    <3> QED
      BY <2>1, <3>1, FieldTypes, FieldsFit
  <2>4. PayloadLayout(p) = x \o w
    <3>1. <<Name(p.name), Field("code", p.codeBody)>> = n \o m
      BY Listed
    <3> QED
      BY <1>6, <3>1 DEF PayloadLayout
  <2>5. r = <<"name", "code">>
    BY <1>6 DEF Payload
  <2> HIDE DEF r, n, m, x
  <2>6. /\ r \in Seq(ReadNames) /\ Len(r) = 2 /\ r[1] = "name" /\ r[2] = "code"
        /\ 1 \in 1..Len(r) /\ 2 \in 1..Len(r) /\ 2 = Len(r) /\ 1 + 1 = 2
    <3>1. "name" \in ReadNames /\ "code" \in ReadNames
      BY DEF ReadNames
    <3> QED
      BY <2>5, <3>1, Tuples
  <2>7. Takes(t, r, 2, m)
    BY <2>3, <2>6, TakesLast
  <2>8. Takes(t, r, 1, w) /\ w \in Seq(Fields)
    BY <2>2, <2>3, <2>6, <2>7, TakesMore, ConcatProperties
  <2> HIDE DEF w
  <2>9. \E rest : PayloadLayout(p) \in Seq(Fields) /\ Splits(t, "payload", PayloadLayout(p), b, rest)
    BY <1>4, <2>4, <2>8
  <2> QED
    BY <2>9
<1>7. CASE b = 2
  <2> DEFINE u == <<Byte(p.address[1])>>
             h == <<Field("hash", <<p.address[2], p.address[2]>>)>>
             n == <<Name(p.contractName)>>
             m == <<Name(p.functionName)>>
             a == ArgsLayout(p.args)
             w4 == m \o a
             w3 == n \o w4
             w2 == h \o w3
             w == u \o w2
  <2>1. /\ IsAddress(p.address) /\ p.contractName \in Seq(Nat) /\ p.functionName \in Seq(Nat)
        /\ p.args \in Seq(Seq(Nat))
    BY <1>7 DEF IsPayload
  <2>2. /\ u \in Seq(Fields) /\ h \in Seq(Fields) /\ Address(p.address) = u \o h
        /\ Fits(t, "u8", u) /\ Fits(t, "hash", h)
    BY <2>1, AddressFields
  <2>3. n \in Seq(Fields) /\ m \in Seq(Fields) /\ Fits(t, "name", n) /\ Fits(t, "name", m)
    BY <2>1, FieldTypes, FieldsFit
  <2>4. a \in Seq(Fields) /\ Fits(t, "args", a)
    <3>1. a \in Seq(Fields)
      BY <2>1, ArgsType
    <3>2. Fits(t, "args", a)
      BY <1>7 DEF Fits, EnumFits, CountFits, FieldFits, BufferWidth
    <3> QED
      BY <3>1, <3>2
  <2>5. PayloadLayout(p) = x \o (((u \o h) \o (n \o m)) \o a)
    <3>1. <<Name(p.contractName), Name(p.functionName)>> = n \o m
      BY Listed
    <3> QED
      BY <1>7, <2>2, <3>1 DEF PayloadLayout
  <2>6. r = <<"u8", "hash", "name", "name", "args">>
    BY <1>7 DEF Payload
  <2> HIDE DEF r, u, h, n, m, a, x
  <2>7. /\ r \in Seq(ReadNames) /\ Len(r) = 5 /\ r[1] = "u8" /\ r[2] = "hash" /\ r[3] = "name"
        /\ r[4] = "name" /\ r[5] = "args"
        /\ 1 \in 1..Len(r) /\ 2 \in 1..Len(r) /\ 3 \in 1..Len(r) /\ 4 \in 1..Len(r) /\ 5 \in 1..Len(r)
        /\ 5 = Len(r) /\ 1 + 1 = 2 /\ 2 + 1 = 3 /\ 3 + 1 = 4 /\ 4 + 1 = 5
    <3>1. "u8" \in ReadNames /\ "hash" \in ReadNames /\ "name" \in ReadNames /\ "args" \in ReadNames
      BY DEF ReadNames
    <3>2. r \in Seq(ReadNames)
      BY <2>6, <3>1, LongTuples
    <3>3. /\ Len(r) = 5 /\ r[1] = "u8" /\ r[2] = "hash" /\ r[3] = "name" /\ r[4] = "name" /\ r[5] = "args"
      BY <2>6, LongTuples
    <3> QED
      BY <3>2, <3>3
  <2>8. Takes(t, r, 5, a)
    BY <2>4, <2>7, TakesLast
  <2>9. Takes(t, r, 4, w4) /\ w4 \in Seq(Fields)
    BY <2>3, <2>4, <2>7, <2>8, TakesMore, ConcatProperties
  <2> HIDE DEF w4
  <2>10. Takes(t, r, 3, w3) /\ w3 \in Seq(Fields)
    BY <2>3, <2>7, <2>9, TakesMore, ConcatProperties
  <2> HIDE DEF w3
  <2>11. Takes(t, r, 2, w2) /\ w2 \in Seq(Fields)
    BY <2>2, <2>7, <2>10, TakesMore, ConcatProperties
  <2> HIDE DEF w2
  <2>12. Takes(t, r, 1, w) /\ w \in Seq(Fields)
    BY <2>2, <2>7, <2>11, TakesMore, ConcatProperties
  <2> HIDE DEF w
  <2>13. ((u \o h) \o (n \o m)) \o a = w
    <3> DEFINE k == u \o h
               l == n \o m
    <3>1. k \in Seq(Fields)
      BY <2>2, ConcatProperties
    <3>2. l \in Seq(Fields)
      BY <2>3, ConcatProperties
    <3>3. u \in Seq(Fields) /\ h \in Seq(Fields)
      BY <2>2
    <3>4. n \in Seq(Fields) /\ m \in Seq(Fields)
      BY <2>3
    <3>5. a \in Seq(Fields)
      BY <2>4
    <3>6. (n \o m) \o a = n \o (m \o a)
      BY <3>4, <3>5, Rejoined
    <3>9. w3 \in Seq(Fields)
      BY <2>10
    <3>7. (u \o h) \o w3 = u \o (h \o w3)
      BY <3>3, <3>9, Rejoined
    <3> HIDE DEF k, l
    <3>8. (k \o l) \o a = k \o (l \o a)
      BY <3>1, <3>2, <3>5, Rejoined
    <3> QED
      BY <3>6, <3>7, <3>8 DEF w, w2, w3, w4, k, l
  <2>14. \E rest : PayloadLayout(p) \in Seq(Fields) /\ Splits(t, "payload", PayloadLayout(p), b, rest)
    BY <1>4, <2>5, <2>12, <2>13
  <2> QED
    BY <2>14
<1>8. CASE b = 3
  <2> DEFINE n == <<Field("header", p.header1)>>
             m == <<Field("header", p.header2)>>
             w == n \o m
  <2>1. /\ p.header1 \in Seq(Nat) /\ Len(p.header1) = 4 /\ p.header2 \in Seq(Nat) /\ Len(p.header2) = 4
        /\ "header" \in DOMAIN BufferWidth /\ BufferWidth["header"] = 4
        /\ "header" \in TypeNames \ {"u16", "u32", "u64", "i64"}
    BY <1>8 DEF IsPayload, BufferWidth, TypeNames
  <2>2. n \in Seq(Fields) /\ Fits(t, "header", n)
    BY <2>1, FieldTypes, FieldsFit
  <2>3. m \in Seq(Fields) /\ Fits(t, "header", m)
    BY <2>1, FieldTypes, FieldsFit
  <2>4. PayloadLayout(p) = x \o w
    <3>1. <<Field("header", p.header1), Field("header", p.header2)>> = n \o m
      BY Listed
    <3> QED
      BY <1>8, <3>1 DEF PayloadLayout
  <2>5. r = <<"header", "header">>
    BY <1>8 DEF Payload
  <2> HIDE DEF r, n, m, x
  <2>6. /\ r \in Seq(ReadNames) /\ Len(r) = 2 /\ r[1] = "header" /\ r[2] = "header"
        /\ 1 \in 1..Len(r) /\ 2 \in 1..Len(r) /\ 2 = Len(r) /\ 1 + 1 = 2
    <3>1. "header" \in ReadNames
      BY DEF ReadNames
    <3> QED
      BY <2>5, <3>1, Tuples
  <2>7. Takes(t, r, 2, m)
    BY <2>3, <2>6, TakesLast
  <2>8. Takes(t, r, 1, w) /\ w \in Seq(Fields)
    BY <2>2, <2>3, <2>6, <2>7, TakesMore, ConcatProperties
  <2> HIDE DEF w
  <2>9. \E rest : PayloadLayout(p) \in Seq(Fields) /\ Splits(t, "payload", PayloadLayout(p), b, rest)
    BY <1>4, <2>4, <2>8
  <2> QED
    BY <2>9
<1>9. CASE b = 4
  <2> DEFINE w == <<Field("coinbase", p.payload)>>
  <2>1. /\ p.payload \in Seq(Nat) /\ Len(p.payload) = 2
        /\ "coinbase" \in DOMAIN BufferWidth /\ BufferWidth["coinbase"] = 2
        /\ "coinbase" \in TypeNames \ {"u16", "u32", "u64", "i64"}
    BY <1>9 DEF IsPayload, BufferWidth, TypeNames
  <2>2. w \in Seq(Fields) /\ Fits(t, "coinbase", w)
    BY <2>1, FieldTypes, FieldsFit
  <2>3. PayloadLayout(p) = x \o w
    BY <1>9 DEF PayloadLayout
  <2>4. r = <<"coinbase">>
    BY <1>9 DEF Payload
  <2> HIDE DEF r, w, x
  <2>5. r \in Seq(ReadNames) /\ Len(r) = 1 /\ r[1] = "coinbase" /\ 1 \in 1..Len(r) /\ 1 = Len(r)
    <3>1. "coinbase" \in ReadNames
      BY DEF ReadNames
    <3> QED
      BY <2>4, <3>1, Tuples
  <2>6. Takes(t, r, 1, w)
    BY <2>2, <2>5, TakesLast
  <2>7. \E rest : PayloadLayout(p) \in Seq(Fields) /\ Splits(t, "payload", PayloadLayout(p), b, rest)
    BY <1>4, <2>2, <2>3, <2>6
  <2> QED
    BY <2>7
<1>10. CASE b \notin 0..4
  <2> DEFINE w == <<>>
  <2>1. PayloadLayout(p) = x \o w
    <3>1. b # 0 /\ b # 1 /\ b # 2 /\ b # 3 /\ b # 4
      BY <1>10
    <3> HIDE DEF b
    <3> QED
      BY <3>1 DEF PayloadLayout, b
  <2>2. w \in Seq(Fields)
    OBVIOUS
  <2> HIDE DEF w
  <2>3. \E rest : PayloadLayout(p) \in Seq(Fields) /\ Splits(t, "payload", PayloadLayout(p), b, rest)
    BY <1>4, <1>10, <2>1, <2>2
  <2> QED
    BY <2>3
<1> QED
  BY <1>1, <1>5, <1>6, <1>7, <1>8, <1>9, <1>10

(* A byte that nothing follows. *)
LEMMA EmptySplits ==
  ASSUME NEW t, NEW read, NEW b \in Nat, b \in DOMAIN Enum(read), Enum(read)[b] = <<>>
  PROVE  Splits(t, read, <<Byte(b)>>, b, <<>>)
<1>1. <<Byte(b)>> \in Seq(Fields)
  BY FieldTypes
<1>2. <<Byte(b)>> = <<Byte(b)>> \o <<>>
  BY <1>1, ConcatEmptySeq
<1>3. <<>> \in Seq(Fields) /\ <<>> \in Seq(Seq(Fields)) /\ <<>> \in Seq(ReadNames) /\ Len(<<>>) = 0
  OBVIOUS
<1>4. AllFit(t, <<>>, <<>>) /\ FlattenSeq(<<>>) = <<>>
  BY <1>3, FlattenEmpty DEF AllFit
<1> QED
  BY <1>2, <1>3, <1>4 DEF Splits

AuthFields(t) == [k \in DOMAIN t.auth |-> SpendingLayout(t.auth[k])]

(* The spending conditions: one, or that of a sponsor too. *)
LEMMA AuthSplits ==
  ASSUME NEW t, IsTx(t)
  PROVE  LET b == IF Len(t.auth) = 2 THEN 5 ELSE 4 IN
         /\ b \in DOMAIN Enum("authType") /\ AuthFields(t) \in Seq(Seq(Fields))
         /\ AllFit(t, Enum("authType")[b], AuthFields(t))
         /\ \A fs : Fits(t, "authType", fs) => Splits(t, "authType", fs, b, FlattenSeq(AuthFields(t)))
<1> DEFINE b == IF Len(t.auth) = 2 THEN 5 ELSE 4
           gs == AuthFields(t)
           n == Len(t.auth)
           r == IF b = 4 THEN <<"hashMode">> ELSE <<"hashMode", "hashMode">>
<1>1. n \in {1, 2} /\ DOMAIN t.auth = 1..n /\ \A k \in 1..n : IsSpending(t.auth[k])
  BY DEF IsTx
<1>2. \A k \in 1..n : SpendingLayout(t.auth[k]) \in Seq(Fields)
  BY <1>1, SpendingSplits
<1>3. gs \in Seq(Seq(Fields)) /\ Len(gs) = n /\ \A k \in 1..n : gs[k] = SpendingLayout(t.auth[k])
  BY <1>1, <1>2 DEF AuthFields
<1>4. b \in DOMAIN Enum("authType") /\ Enum("authType")[b] = r
  <2>1. Enum("authType") = [i \in {4, 5} |-> IF i = 4 THEN <<"hashMode">> ELSE <<"hashMode", "hashMode">>]
    BY DEF Enum
  <2> QED
    BY <2>1
<1>5. r \in Seq(ReadNames) /\ Len(r) = n /\ \A i \in 1..n : r[i] = "hashMode"
  <2>1. "hashMode" \in ReadNames
    BY DEF ReadNames
  <2>2. <<"hashMode">> \in Seq(ReadNames) /\ <<"hashMode", "hashMode">> \in Seq(ReadNames)
    BY <2>1, Tuples
  <2>3. CASE n = 1
    <3>1. r = <<"hashMode">>
      BY <2>3
    <3>2. Len(<<"hashMode">>) = 1 /\ <<"hashMode">>[1] = "hashMode" /\ \A i \in 1..1 : i = 1
      OBVIOUS
    <3> HIDE DEF r, n
    <3> QED
      BY <2>2, <2>3, <3>1, <3>2
  <2>4. CASE n = 2
    <3>1. r = <<"hashMode", "hashMode">>
      BY <2>4
    <3>2. /\ Len(<<"hashMode", "hashMode">>) = 2 /\ <<"hashMode", "hashMode">>[1] = "hashMode"
          /\ <<"hashMode", "hashMode">>[2] = "hashMode" /\ \A i \in 1..2 : i = 1 \/ i = 2
      OBVIOUS
    <3> HIDE DEF r, n
    <3> QED
      BY <2>2, <2>4, <3>1, <3>2
  <2> QED
    BY <1>1, <2>3, <2>4
<1> HIDE DEF r, gs, b
<1>6. ASSUME NEW i \in 1..Len(r) PROVE Fits(t, r[i], gs[i])
  <2>1. i \in DOMAIN t.auth /\ r[i] = "hashMode" /\ gs[i] = SpendingLayout(t.auth[i])
    BY <1>1, <1>3, <1>5
  <2>2. Fits(t, "hashMode", gs[i])
    BY <2>1 DEF Fits, EnumFits, CountFits, FieldFits, BufferWidth
  <2> QED
    BY <2>1, <2>2
<1>7. AllFit(t, r, gs)
  BY <1>3, <1>5, <1>6 DEF AllFit
<1>8. FlattenSeq(gs) \in Seq(Fields) /\ b \in Nat
  BY <1>3, FlattenType DEF b
<1>9. ASSUME NEW fs, Fits(t, "authType", fs) PROVE Splits(t, "authType", fs, b, FlattenSeq(gs))
  <2>1. EnumFits(t, "authType", fs)
    BY <1>9 DEF Fits
  <2>2. fs = <<Byte(b)>> \o FlattenSeq(gs)
    BY <2>1 DEF EnumFits, b, gs, AuthFields
  <2> QED
    BY <1>4, <1>7, <1>8, <2>2 DEF Splits
<1> QED
  BY <1>3, <1>4, <1>7, <1>9 DEF b, gs

(* A byte that no case takes is one of a transaction that is not known. *)
LEMMA EnumSplits ==
  ASSUME NEW t, IsTx(t), NEW read \in Enums, NEW c, Fits(t, read, c)
  PROVE  \E b, rest :
           /\ Splits(t, read, c, b, rest)
           /\ b \notin DOMAIN Enum(read) => ~Known(t)
           /\ read = "authType" => rest = FlattenSeq(AuthFields(t)) /\ AllFit(t, Enum(read)[b], AuthFields(t))
           /\ read = "hashMode" => \E k \in DOMAIN t.auth : c = SpendingLayout(t.auth[k]) /\ b = t.auth[k].hashMode
           /\ read = "payload" => b = t.payload.typeId
           /\ read = "mode" => c = <<Byte(t.mode)>>
<1>1. EnumFits(t, read, c)
  BY DEF Fits
<1>2. CASE read = "version"
  <2>1. PICK b \in {0, 128} : c = <<Byte(b)>>
    BY <1>1, <1>2 DEF EnumFits
  <2>2. b \in Nat /\ b \in DOMAIN Enum("version") /\ Enum("version")[b] = <<>>
    BY DEF Enum
  <2>3. Splits(t, "version", c, b, <<>>)
    BY <2>1, <2>2, EmptySplits
  <2> QED
    BY <1>2, <2>2, <2>3
<1>3. CASE read = "authType"
  <2> DEFINE b == IF Len(t.auth) = 2 THEN 5 ELSE 4
  <2>1. Splits(t, read, c, b, FlattenSeq(AuthFields(t))) /\ b \in DOMAIN Enum(read) /\ AllFit(t, Enum(read)[b], AuthFields(t))
    BY <1>3, AuthSplits
  <2> HIDE DEF b
  <2> QED
    BY <1>3, <2>1
<1>4. CASE read = "hashMode"
  <2>1. PICK k \in DOMAIN t.auth : c = SpendingLayout(t.auth[k])
    BY <1>1, <1>4 DEF EnumFits
  <2>2. IsSpending(t.auth[k])
    BY DEF IsTx
  <2> DEFINE b == t.auth[k].hashMode
  <2>3. PICK rest : Splits(t, "hashMode", c, b, rest)
    BY <2>1, <2>2, SpendingSplits
  <2>4. b \notin DOMAIN Enum("hashMode") => ~Known(t)
    <3>1. DOMAIN Enum("hashMode") = 0..3
      BY DEF Enum
    <3> QED
      BY <3>1 DEF Known
  <2> HIDE DEF b
  <2> QED
    BY <1>4, <2>1, <2>3, <2>4 DEF b
<1>5. CASE read = "authField"
  <2>1. PICK f \in 0..3 : c = KeyField(f)
    BY <1>1, <1>5 DEF EnumFits
  <2>2. PICK rest : Splits(t, "authField", c, f, rest)
    BY <2>1, KeySplits
  <2>3. f \in DOMAIN Enum("authField")
    BY DEF Enum
  <2> QED
    BY <1>5, <2>2, <2>3
<1>6. CASE read = "anchorMode"
  <2>1. c = <<Byte(3)>>
    BY <1>1, <1>6 DEF EnumFits
  <2>2. 3 \in Nat /\ 3 \in DOMAIN Enum("anchorMode") /\ Enum("anchorMode")[3] = <<>>
    BY DEF Enum
  <2>3. Splits(t, "anchorMode", c, 3, <<>>)
    BY <2>1, <2>2, EmptySplits
  <2> QED
    BY <1>6, <2>2, <2>3
<1>7. CASE read = "mode"
  <2>1. c = <<Byte(t.mode)>> /\ t.mode \in {1, 2}
    BY <1>1, <1>7 DEF EnumFits, IsTx
  <2>2. t.mode \in Nat /\ t.mode \in DOMAIN Enum("mode") /\ Enum("mode")[t.mode] = <<>>
    BY <2>1 DEF Enum
  <2>3. Splits(t, "mode", c, t.mode, <<>>)
    BY <2>1, <2>2, EmptySplits
  <2> QED
    BY <1>7, <2>1, <2>2, <2>3
<1>8. CASE read = "condition"
  <2>1. PICK x : IsCondition(x) /\ c = ConditionLayout(x)
    BY <1>1, <1>8 DEF EnumFits
  <2>2. PICK b, rest : b \in 0..2 /\ Splits(t, "condition", c, b, rest)
    BY <2>1, ConditionSplits
  <2>3. b \in DOMAIN Enum("condition")
    BY <2>2 DEF Enum
  <2> QED
    BY <1>8, <2>2, <2>3
<1>9. CASE read = "principal"
  <2>1. PICK p : IsPrincipal(p, 1..3) /\ c = PrincipalLayout(p)
    BY <1>1, <1>9 DEF EnumFits
  <2>2. PICK rest : Splits(t, "principal", c, p.typeId, rest)
    BY <2>1, PrincipalSplits
  <2>3. p.typeId \in DOMAIN Enum("principal")
    <3>1. p.typeId \in 1..3
      BY <2>1 DEF IsPrincipal
    <3>2. DOMAIN Enum("principal") = 1..3
      BY DEF Enum
    <3> QED
      BY <3>1, <3>2
  <2> QED
    BY <1>9, <2>2, <2>3
<1>10. CASE read = "fungibleCode"
  <2>1. PICK b \in 1..5 : c = <<Byte(b)>>
    BY <1>1, <1>10 DEF EnumFits
  <2>2. b \in Nat /\ b \in DOMAIN Enum("fungibleCode") /\ Enum("fungibleCode")[b] = <<>>
    BY DEF Enum
  <2>3. Splits(t, "fungibleCode", c, b, <<>>)
    BY <2>1, <2>2, EmptySplits
  <2> QED
    BY <1>10, <2>2, <2>3
<1>11. CASE read = "nonfungibleCode"
  <2>1. PICK b \in {16, 17} : c = <<Byte(b)>>
    BY <1>1, <1>11 DEF EnumFits
  <2>2. b \in Nat /\ b \in DOMAIN Enum("nonfungibleCode") /\ Enum("nonfungibleCode")[b] = <<>>
    BY DEF Enum
  <2>3. Splits(t, "nonfungibleCode", c, b, <<>>)
    BY <2>1, <2>2, EmptySplits
  <2> QED
    BY <1>11, <2>2, <2>3
<1>12. CASE read = "payload"
  <2>1. c = PayloadLayout(t.payload)
    BY <1>1, <1>12 DEF EnumFits
  <2>2. IsPayload(t.payload)
    BY DEF IsTx
  <2> DEFINE b == t.payload.typeId
  <2>3. PICK rest : Splits(t, "payload", c, b, rest)
    BY <2>1, <2>2, PayloadSplits
  <2>4. b \notin DOMAIN Enum("payload") => ~Known(t)
    <3>1. DOMAIN Enum("payload") = 0..4
      BY DEF Enum
    <3> QED
      BY <3>1 DEF Known
  <2> HIDE DEF b
  <2> QED
    BY <1>12, <2>3, <2>4 DEF b
<1>13. CASE read = "recipient"
  <2>1. PICK p : IsPrincipal(p, {5, 6}) /\ c = PrincipalLayout(p)
    BY <1>1, <1>13 DEF EnumFits
  <2>2. PICK rest : Splits(t, "recipient", c, p.typeId, rest)
    BY <2>1, PrincipalSplits
  <2>3. p.typeId \in DOMAIN Enum("recipient")
    <3>1. p.typeId \in {5, 6}
      BY <2>1 DEF IsPrincipal
    <3>2. DOMAIN Enum("recipient") = {5, 6}
      BY DEF Enum
    <3> QED
      BY <3>1, <3>2
  <2> QED
    BY <1>13, <2>2, <2>3
<1> QED
  BY <1>2, <1>3, <1>4, <1>5, <1>6, <1>7, <1>8, <1>9, <1>10, <1>11, <1>12, <1>13 DEF Enums

-----------------------------------------------------------------------------
(* The reads whose place in what is left to be read matters. *)
Placed == {"authType", "hashMode", "mode", "payload", "args"}

NonePlaced(r) == \A i \in 1..Len(r) : r[i] \notin Placed

(* Which reads the cases of an enum bring. *)
LEMMA EnumReads ==
  ASSUME NEW read \in Enums, NEW b, b \in DOMAIN Enum(read)
  PROVE  LET r == Enum(read)[b] IN
         /\ read \notin {"authType", "payload"} => NonePlaced(r)
         /\ read = "authType" => \A i \in 1..Len(r) : r[i] = "hashMode"
         /\ read = "payload" /\ b # 2 => NonePlaced(r)
         /\ read = "payload" /\ b = 2 =>
              r = <<"u8", "hash", "name", "name", "args">>
<1> DEFINE r == Enum(read)[b]
<1>1. NonePlaced(<<>>)
  BY DEF NonePlaced
<1>2. CASE read \in {"version", "anchorMode", "mode", "fungibleCode", "nonfungibleCode"}
  <2>1. r = <<>>
    BY <1>2 DEF Enum
  <2> HIDE DEF r
  <2>2. NonePlaced(r)
    BY <1>1, <2>1
  <2> QED
    BY <1>2, <2>2 DEF r
<1>3. CASE read = "authType"
  <2>1. r = IF b = 4 THEN <<"hashMode">> ELSE <<"hashMode", "hashMode">>
    BY <1>3 DEF Enum
  <2> HIDE DEF r
  <2>2. /\ Len(<<"hashMode", "hashMode">>) = 2 /\ <<"hashMode", "hashMode">>[1] = "hashMode"
        /\ <<"hashMode", "hashMode">>[2] = "hashMode" /\ \A i \in 1..2 : i = 1 \/ i = 2
    OBVIOUS
  <2>3. Len(<<"hashMode">>) = 1 /\ <<"hashMode">>[1] = "hashMode" /\ \A i \in 1..1 : i = 1
    OBVIOUS
  <2>4. CASE b = 4
    <3>1. r = <<"hashMode">>
      BY <2>1, <2>4
    <3>2. \A i \in 1..Len(r) : r[i] = "hashMode"
      BY <2>3, <3>1
    <3> QED
      BY <1>3, <3>2 DEF r
  <2>5. CASE b # 4
    <3>1. r = <<"hashMode", "hashMode">>
      BY <2>1, <2>5
    <3>2. \A i \in 1..Len(r) : r[i] = "hashMode"
      BY <2>2, <3>1
    <3> QED
      BY <1>3, <3>2 DEF r
  <2> QED
    BY <2>4, <2>5
<1>4. CASE read = "hashMode"
  <2> DEFINE x == <<"hash", "u64", "u64">>
             y == IF b \in {0, 2} THEN <<"u8", "signature">> ELSE <<"authFields", "u16">>
             S == {"hash", "u64", "u8", "signature", "authFields", "u16"}
  <2>1. r = x \o y
    BY <1>4 DEF Enum, SpendingCondition
  <2>2. x \in Seq(S) /\ y \in Seq(S)
    <3>1. "hash" \in S /\ "u64" \in S /\ "u8" \in S /\ "signature" \in S /\ "authFields" \in S /\ "u16" \in S
      OBVIOUS
    <3> HIDE DEF S
    <3>2. x \in Seq(S)
      BY <3>1, Tuples
    <3>3. <<"u8", "signature">> \in Seq(S) /\ <<"authFields", "u16">> \in Seq(S)
      BY <3>1, Tuples
    <3> QED
      BY <3>2, <3>3
  <2> HIDE DEF x, y, r
  <2>3. r \in Seq(S)
    <3> HIDE DEF S
    <3> QED
      BY <2>1, <2>2, ConcatProperties
  <2>4. \A i \in 1..Len(r) : r[i] \in S
    <3> HIDE DEF S
    <3> QED
      BY <2>3
  <2>5. NonePlaced(r)
    BY <2>4 DEF NonePlaced, Placed
  <2> QED
    BY <1>4, <2>5 DEF r
<1>5. CASE read = "authField"
  <2>1. r = IF b < 2 THEN <<"publicKey">> ELSE <<"signature">>
    BY <1>5 DEF Enum
  <2> HIDE DEF r
  <2>2. NonePlaced(<<"publicKey">>) /\ NonePlaced(<<"signature">>)
    BY DEF NonePlaced, Placed
  <2>3. NonePlaced(r)
    BY <2>1, <2>2
  <2> QED
    BY <1>5, <2>3 DEF r
<1>6. CASE read = "condition"
  <2>1. r = Condition(b) /\ b \in 0..2
    BY <1>6 DEF Enum
  <2> HIDE DEF r
  <2>2. NonePlaced(<<"principal", "fungibleCode", "i64">>)
    BY DEF NonePlaced, Placed
  <2>3. NonePlaced(<<"principal", "u8", "hash", "name", "name", "fungibleCode", "u64">>)
    BY DEF NonePlaced, Placed
  <2>4. NonePlaced(<<"principal", "u8", "hash", "name", "name", "clarity", "nonfungibleCode">>)
    BY DEF NonePlaced, Placed
  <2>5. \/ r = <<"principal", "fungibleCode", "i64">>
        \/ r = <<"principal", "u8", "hash", "name", "name", "fungibleCode", "u64">>
        \/ r = <<"principal", "u8", "hash", "name", "name", "clarity", "nonfungibleCode">>
    BY <2>1 DEF Condition
  <2>6. NonePlaced(r)
    BY <2>2, <2>3, <2>4, <2>5
  <2> QED
    BY <1>6, <2>6 DEF r
<1>7. CASE read \in {"principal", "recipient"}
  <2> DEFINE x == <<"u8", "hash", "name">>
             n == IF read = "principal" THEN IF b = 1 THEN 0 ELSE b ELSE b - 3
             S == {"u8", "hash", "name"}
  <2>1. r = SubSeq(x, 1, n) /\ n \in 0..3
    <3>1. Enum("principal") = [i \in 1 .. 3 |-> SubSeq(x, 1, IF i = 1 THEN 0 ELSE i)]
      BY DEF Enum
    <3>2. Enum("recipient") = [i \in {5, 6} |-> SubSeq(x, 1, i - 3)]
      BY DEF Enum
    <3> HIDE DEF x
    <3>3. CASE read = "principal"
      <4>1. b \in DOMAIN Enum("principal") /\ r = Enum("principal")[b]
        BY <3>3
      <4>2. b \in 1..3
        BY <3>1, <4>1
      <4>3. r = SubSeq(x, 1, IF b = 1 THEN 0 ELSE b)
        BY <3>1, <4>1, <4>2
      <4>4. n = (IF b = 1 THEN 0 ELSE b) /\ n \in 0..3
        BY <3>3, <4>2
      <4> HIDE DEF r, n
      <4> QED
        BY <4>3, <4>4
    <3>4. CASE read = "recipient"
      <4>1. b \in DOMAIN Enum("recipient") /\ r = Enum("recipient")[b]
        BY <3>4
      <4>2. b \in {5, 6}
        BY <3>2, <4>1
      <4>3. r = SubSeq(x, 1, b - 3)
        BY <3>2, <4>1, <4>2
      <4>4. n = b - 3 /\ n \in 0..3
        BY <3>4, <4>2
      <4> HIDE DEF r, n
      <4> QED
        BY <4>3, <4>4
    <3> QED
      BY <1>7, <3>3, <3>4
  <2>2. x \in Seq(S) /\ Len(x) = 3
    <3>1. "u8" \in S /\ "hash" \in S /\ "name" \in S
      OBVIOUS
    <3> HIDE DEF S
    <3> QED
      BY <3>1, Tuples
  <2> HIDE DEF x, r, n, S
  <2>3. \A i \in 1..n : x[i] \in S
    BY <2>1, <2>2
  <2>4. r \in Seq(S)
    BY <2>1, <2>3, SubSeqProperties
  <2>5. \A i \in 1..Len(r) : r[i] \in S
    BY <2>4
  <2>6. NonePlaced(r)
    BY <2>5 DEF NonePlaced, Placed, S
  <2> QED
    BY <1>7, <2>6 DEF r
<1>8. CASE read = "payload"
  <2>1. r = Payload(b) /\ b \in 0..4
    BY <1>8 DEF Enum
  <2> HIDE DEF r
  <2>2. NonePlaced(<<"recipient", "i64", "memo">>)
    BY DEF NonePlaced, Placed
  <2>3. NonePlaced(<<"name", "code">>) /\ NonePlaced(<<"header", "header">>) /\ NonePlaced(<<"coinbase">>)
    BY DEF NonePlaced, Placed
  <2>4. b # 2 => \/ r = <<"recipient", "i64", "memo">>
                 \/ r = <<"name", "code">> \/ r = <<"header", "header">> \/ r = <<"coinbase">>
    BY <2>1 DEF Payload
  <2>5. b # 2 => NonePlaced(r)
    BY <2>2, <2>3, <2>4
  <2>6. b = 2 => r = <<"u8", "hash", "name", "name", "args">>
    BY <2>1 DEF Payload
  <2> QED
    BY <1>8, <2>5, <2>6 DEF r
<1> QED
  BY <1>2, <1>3, <1>4, <1>5, <1>6, <1>7, <1>8 DEF Enums

-----------------------------------------------------------------------------
(***************************************************************************)
(* Each read finds what was written for it.                                *)
(***************************************************************************)
(* Of the fields cs that are left, the first are read and gs are what the
   reads that come next take. *)
ReadStep(t, cs, then, gs, target) ==
  /\ AllFit(t, then, gs)
  /\ buf' = buf /\ todo' = then \o Tail(todo)
  /\ Reads(t, buf', pos', out', todo', gs \o Tail(cs), target)

(* The cells at the cursor are those of the first of the fields that are left. *)
LEMMA Found ==
  ASSUME NEW t, NEW cs, NEW target, Reads(t, buf, pos, out, todo, cs, target), todo # <<>>,
         NEW hd \in Seq(Fields), NEW rest \in Seq(Fields), cs[1] = hd \o rest, Bytes(hd) \in Seq(Nat)
  PROVE  /\ Left >= Len(Bytes(hd)) /\ Left \in Nat /\ pos \in Nat /\ buf \in Seq(Nat)
         /\ Ahead(Len(Bytes(hd))) = Bytes(hd)
         /\ \A k \in 1..Len(Bytes(hd)) : buf[pos + k] = Bytes(hd)[k]
<1> DEFINE more == rest \o FlattenSeq(Tail(cs))
           x == Bytes(hd)
           y == Bytes(more)
<1>1. Remains(buf, pos, x \o y) /\ y \in Seq(Nat) /\ x \in Seq(Nat)
  BY HeadRead
<1> HIDE DEF x, y
<1>2. /\ Len(buf) - pos >= Len(x) /\ Len(buf) - pos \in Nat
      /\ SubSeq(buf, pos + 1, pos + Len(x)) = x
      /\ \A k \in 1..Len(x) : buf[pos + k] = x[k]
  BY <1>1, RemainsSplit
<1>3. pos \in Nat /\ buf \in Seq(Nat)
  BY <1>1 DEF Remains
<1> QED
  BY <1>2, <1>3 DEF Left, Ahead, x

(* A step that takes the values of those cells and brings reads that fit the rest of the run. *)
LEMMA TakeSteps ==
  ASSUME NEW t, NEW cs, NEW target, Reads(t, buf, pos, out, todo, cs, target), todo # <<>>,
         NEW hd \in Seq(Fields), NEW then, NEW gs, AllFit(t, then, gs), cs[1] = hd \o FlattenSeq(gs),
         NEW n, n = Len(Bytes(hd)), NEW values, values = Values(hd), Take(n, values, then)
  PROVE  ReadStep(t, cs, then, gs, target)
<1>1. /\ pos' = pos + Len(Bytes(hd)) /\ todo' = then \o Tail(todo) /\ buf' = buf
      /\ out' = out \o [k \in DOMAIN Values(hd) |-> [read |-> Head(todo), value |-> Values(hd)[k]]]
  BY DEF Take, Next1
<1>2. Reads(t, buf, pos + Len(Bytes(hd)),
               out \o [k \in DOMAIN Values(hd) |-> [read |-> Head(todo), value |-> Values(hd)[k]]],
               then \o Tail(todo), gs \o Tail(cs), target)
  BY TakeKeeps
<1> QED
  BY <1>1, <1>2 DEF ReadStep

(* The next read fits the first run. *)
LEMMA HeadFits ==
  ASSUME NEW t, NEW cs, NEW target, Reads(t, buf, pos, out, todo, cs, target), todo # <<>>
  PROVE  Fits(t, Next1, cs[1]) /\ cs[1] \in Seq(Fields) /\ Next1 = todo[1] /\ Next1 \in ReadNames
<1>1. AllFit(t, todo, cs)
  BY DEF Reads
<1>2. todo \in Seq(ReadNames)
  BY <1>1 DEF AllFit
<1>3. Fits(t, Head(todo), cs[1]) /\ cs[1] \in Seq(Fields)
  BY <1>1, AllFitTail
<1>4. Head(todo) \in ReadNames /\ Head(todo) = todo[1]
  BY <1>2, HeadTailProperties
<1> QED
  BY <1>3, <1>4 DEF Next1

LEMMA ByteRead ==
  ASSUME NEW b \in Nat
  PROVE  LET hd == <<Byte(b)>> IN
         hd \in Seq(Fields) /\ Bytes(hd) = <<b>> /\ Values(hd) = << <<b>> >> /\ <<b>> \in Seq(Nat) /\ Len(<<b>>) = 1 /\ <<b>>[1] = b
<1>1. Byte(b) \in Fields /\ <<Byte(b)>> \in Seq(Fields)
  BY FieldTypes
<1>2. Cells(Byte(b)) = <<b>>
  BY DEF Cells, Byte, Num, Field
<1>3. Bytes(<<Byte(b)>>) = <<b>>
  BY <1>1, <1>2, BytesOne
<1>4. Value(Byte(b)) = <<b>>
  BY DEF Value, Byte, Num, Field
<1>5. Values(<<Byte(b)>>) = << <<b>> >>
  BY <1>4, ValuesOne
<1>6. <<b>> \in Seq(Nat) /\ Len(<<b>>) = 1 /\ <<b>>[1] = b
  OBVIOUS
<1> QED
  BY <1>1, <1>3, <1>5, <1>6

(* An enum is read as it was written: only the type of a payload may be unknown. *)
LEMMA EnumStep ==
  ASSUME IsTx(tx), NEW cs, NEW target, Reads(tx, buf, pos, out, todo, cs, target), ReadUInt8Enum
  PROVE  \/ stage' = "thrown" /\ ~Known(tx) /\ UNCHANGED <<reader, row, answer>>
         \/ \E b, gs :
              /\ b \in DOMAIN Enum(Next1) /\ ReadStep(tx, cs, Enum(Next1)[b], gs, target)
              /\ Next1 = "authType" => gs = AuthFields(tx)
              /\ Next1 = "hashMode" =>
                   \E k \in DOMAIN tx.auth : cs[1] = SpendingLayout(tx.auth[k]) /\ b = tx.auth[k].hashMode
              /\ Next1 = "payload" => b = tx.payload.typeId
              /\ Next1 = "mode" => cs[1] = <<Byte(tx.mode)>>
              /\ from' = IF Next1 = "mode" THEN pos ELSE from
              /\ row' = IF Next1 = "payload"
                        THEN [typeId |-> b, conditions |-> RawPostConditions, args |-> <<>>] ELSE row
              /\ UNCHANGED <<stage, answer>>
<1>1. todo # <<>> /\ Next1 \in Enums
  BY DEF ReadUInt8Enum, Reading
<1>2. Fits(tx, Next1, cs[1])
  BY <1>1, HeadFits
<1>3. PICK b, rest :
        /\ Splits(tx, Next1, cs[1], b, rest)
        /\ b \notin DOMAIN Enum(Next1) => ~Known(tx)
        /\ Next1 = "authType" => rest = FlattenSeq(AuthFields(tx)) /\ AllFit(tx, Enum(Next1)[b], AuthFields(tx))
        /\ Next1 = "hashMode" => \E k \in DOMAIN tx.auth : cs[1] = SpendingLayout(tx.auth[k]) /\ b = tx.auth[k].hashMode
        /\ Next1 = "payload" => b = tx.payload.typeId
        /\ Next1 = "mode" => cs[1] = <<Byte(tx.mode)>>
  BY <1>1, <1>2, EnumSplits
<1> DEFINE hd == <<Byte(b)>>
<1>4. b \in Nat /\ rest \in Seq(Fields) /\ cs[1] = hd \o rest
  BY <1>3 DEF Splits
<1>5. /\ hd \in Seq(Fields) /\ Bytes(hd) = <<b>> /\ Values(hd) = << <<b>> >>
      /\ <<b>> \in Seq(Nat) /\ Len(<<b>>) = 1 /\ <<b>>[1] = b
  BY <1>4, ByteRead
<1>6. Left > 0 /\ buf[pos + 1] = b
  <2> HIDE DEF hd
  <2>1. Bytes(hd) \in Seq(Nat)
    BY <1>5
  <2>2. Left >= Len(Bytes(hd)) /\ Left \in Nat /\ \A k \in 1..Len(Bytes(hd)) : buf[pos + k] = Bytes(hd)[k]
    BY <1>1, <1>4, <1>5, <2>1, Found
  <2>3. 1 \in 1..Len(Bytes(hd)) /\ Len(Bytes(hd)) = 1
    BY <1>5
  <2> QED
    BY <1>5, <2>2, <2>3
<1>7. CASE b \notin DOMAIN Enum(Next1)
  BY <1>3, <1>6, <1>7 DEF ReadUInt8Enum, Throw
<1>8. CASE b \in DOMAIN Enum(Next1)
  <2>1. /\ Take(1, << <<b>> >>, Enum(Next1)[b])
        /\ from' = IF Next1 = "mode" THEN pos ELSE from
        /\ row' = IF Next1 = "payload"
                  THEN [typeId |-> b, conditions |-> RawPostConditions, args |-> <<>>] ELSE row
        /\ UNCHANGED <<stage, answer>>
    BY <1>6, <1>8 DEF ReadUInt8Enum
  <2>2. PICK gs : /\ AllFit(tx, Enum(Next1)[b], gs) /\ FlattenSeq(gs) = rest
                  /\ Next1 = "authType" => gs = AuthFields(tx)
    <3>1. CASE Next1 = "authType"
      BY <1>3, <3>1
    <3>2. CASE Next1 # "authType"
      BY <1>3, <1>8, <3>2 DEF Splits
    <3> QED
      BY <3>1, <3>2
  <2>3. ReadStep(tx, cs, Enum(Next1)[b], gs, target)
    <3> HIDE DEF hd
    <3>1. 1 = Len(Bytes(hd)) /\ << <<b>> >> = Values(hd) /\ cs[1] = hd \o FlattenSeq(gs)
      BY <1>4, <1>5, <2>2
    <3> QED
      BY <1>1, <1>5, <2>1, <2>2, <3>1, TakeSteps
  <2> QED
    BY <1>3, <1>8, <2>1, <2>2, <2>3
<1> QED
  BY <1>7, <1>8

LEMMA EmptyFit ==
  ASSUME NEW t
  PROVE  AllFit(t, <<>>, <<>>) /\ FlattenSeq(<<>>) = <<>>
<1>1. <<>> \in Seq(ReadNames) /\ <<>> \in Seq(Seq(Fields)) /\ Len(<<>>) = 0 /\ 1..0 = {}
  OBVIOUS
<1> QED
  BY <1>1, FlattenEmpty DEF AllFit

(* A read that takes one field. *)
LEMMA FieldStep ==
  ASSUME NEW t, NEW cs, NEW target, Reads(t, buf, pos, out, todo, cs, target), todo # <<>>,
         NEW f \in Fields, cs[1] = <<f>>
  PROVE  /\ Cells(f) \in Seq(Nat) /\ Left >= Len(Cells(f)) /\ Left \in Nat /\ pos \in Nat /\ buf \in Seq(Nat)
         /\ Ahead(Len(Cells(f))) = Cells(f)
         /\ \A k \in 1..Len(Cells(f)) : buf[pos + k] = Cells(f)[k]
         /\ \A n, values : n = Len(Cells(f)) /\ values = <<Value(f)>> /\ Take(n, values, <<>>)
                             => ReadStep(t, cs, <<>>, <<>>, target)
         /\ f.type # "i64" => Value(f) = f.value
<1> DEFINE hd == <<f>>
<1>1. hd \in Seq(Fields) /\ Bytes(hd) = Cells(f) /\ Values(hd) = <<Value(f)>> /\ Cells(f) \in Seq(Nat)
  BY Tuples, BytesOne, ValuesOne, CellsType
<1> HIDE DEF hd
<1>2. <<>> \in Seq(Fields) /\ cs[1] = hd \o <<>>
  BY <1>1, ConcatEmptySeq DEF hd
<1>3. /\ Left >= Len(Cells(f)) /\ Left \in Nat /\ pos \in Nat /\ buf \in Seq(Nat)
      /\ Ahead(Len(Cells(f))) = Cells(f)
      /\ \A k \in 1..Len(Cells(f)) : buf[pos + k] = Cells(f)[k]
  <2>1. Bytes(hd) \in Seq(Nat)
    BY <1>1
  <2>2. /\ Left >= Len(Bytes(hd)) /\ Left \in Nat /\ pos \in Nat /\ buf \in Seq(Nat)
        /\ Ahead(Len(Bytes(hd))) = Bytes(hd)
        /\ \A k \in 1..Len(Bytes(hd)) : buf[pos + k] = Bytes(hd)[k]
    BY <1>1, <1>2, <2>1, Found
  <2> QED
    BY <1>1, <2>2
<1>4. ASSUME NEW n, NEW values, n = Len(Cells(f)), values = <<Value(f)>>, Take(n, values, <<>>)
      PROVE  ReadStep(t, cs, <<>>, <<>>, target)
  <2>1. AllFit(t, <<>>, <<>>) /\ cs[1] = hd \o FlattenSeq(<<>>)
    BY <1>2, EmptyFit
  <2>2. n = Len(Bytes(hd)) /\ values = Values(hd)
    BY <1>1, <1>4
  <2> QED
    BY <1>1, <1>4, <2>1, <2>2, TakeSteps
<1>5. f.type # "i64" => Value(f) = f.value
  BY ValueType
<1> QED
  BY <1>1, <1>3, <1>4, <1>5

(* A number is read as it was written: it is all there, and only an i64 may change its sign. *)
LEMMA NumberStep ==
  ASSUME IsTx(tx), NEW cs, NEW target, Reads(tx, buf, pos, out, todo, cs, target), ReadNumber
  PROVE  ReadStep(tx, cs, <<>>, <<>>, target) /\ UNCHANGED <<from, stage, row, answer>>
<1>1. todo # <<>> /\ Next1 \in Numbers
  BY DEF ReadNumber, Reading
<1>2. FieldFits(tx, Next1, cs[1])
  BY <1>1, HeadFits DEF Fits
<1> DEFINE w == Width(Next1)
           m == IF w = 1 THEN buf[pos + 1] ELSE Number(Ahead(w))
<1>3. w <= Left => Take(w, << <<IF Next1 = "i64" THEN Signed(m) ELSE m>> >>, <<>>) /\ UNCHANGED <<from, stage, row, answer>>
  <2>1. w > Left \/ ~(w > Left)
    OBVIOUS
  <2>2. \/ w > Left
        \/ Take(w, << <<IF Next1 = "i64" THEN Signed(m) ELSE m>> >>, <<>>) /\ UNCHANGED <<from, stage, row, answer>>
    BY DEF ReadNumber
  <2>3. ASSUME w <= Left, w > Left PROVE FALSE
    <3>1. w \in Nat
      BY <1>1, Widths DEF Numbers
    <3>2. Left \in Int
      <4>1. AllFit(tx, todo, cs) /\ Remains(buf, pos, Bytes(FlattenSeq(cs)))
        BY DEF Reads
      <4> QED
        BY <4>1 DEF Remains, Left
    <3> QED
      BY <2>3, <3>1, <3>2
  <2> HIDE DEF w, m
  <2> QED
    BY <2>2, <2>3
<1>4. CASE Next1 = "u8"
  <2>1. PICK n \in Nat : cs[1] = <<Byte(n)>>
    BY <1>2, <1>4 DEF FieldFits
  <2>2. Byte(n) \in Fields /\ Cells(Byte(n)) = <<n>> /\ Value(Byte(n)) = <<n>>
    <3>1. Byte(n) \in Fields
      BY FieldTypes
    <3> QED
      BY <3>1 DEF Cells, Value, Byte, Num, Field
  <2> DEFINE f == Byte(n)
  <2> HIDE DEF f
  <2>3. /\ Left >= Len(Cells(f)) /\ \A k \in 1..Len(Cells(f)) : buf[pos + k] = Cells(f)[k]
        /\ \A i, values : i = Len(Cells(f)) /\ values = <<Value(f)>> /\ Take(i, values, <<>>)
                            => ReadStep(tx, cs, <<>>, <<>>, target)
    BY <1>1, <2>1, <2>2, FieldStep DEF f
  <2>4. Len(Cells(f)) = 1 /\ Cells(f)[1] = n /\ w = 1
    BY <1>4, <2>2, Widths DEF f
  <2>5. Left >= 1 /\ buf[pos + 1] = n
    BY <2>3, <2>4
  <2>6. m = n /\ Next1 # "i64"
    BY <1>4, <2>4, <2>5
  <2> HIDE DEF w, m
  <2>7. w <= Left
    BY <2>4, <2>5
  <2>8. Take(w, << <<m>> >>, <<>>) /\ UNCHANGED <<from, stage, row, answer>>
    BY <1>3, <2>6, <2>7
  <2> QED
    BY <2>2, <2>3, <2>4, <2>6, <2>8 DEF f
<1>5. CASE Next1 \in {"u16", "u32", "u64", "i64"}
  <2>1. w \in 2..4
    BY <1>5, Widths
  <2>2. PICK n \in 0..Numerals(w) - 1 : cs[1] = <<Num(Next1, n)>>
    BY <1>2, <1>5 DEF FieldFits
  <2> DEFINE f == Num(Next1, n)
             v == IF Next1 = "i64" THEN Signed(n) ELSE n
  <2>3. n \in Nat /\ f \in Fields
    <3>1. n \in Nat
      OBVIOUS
    <3> QED
      BY <1>5, <3>1, FieldTypes
  <2>4. Cells(f) = BigEndian(n, w) /\ Value(f) = <<v>>
    <3>1. f.type = Next1 /\ f.value = <<n>> /\ f.value[1] = n
      BY DEF Num, Field
    <3> HIDE DEF f
    <3>2. Cells(f) = BigEndian(n, w)
      BY <1>5, <3>1 DEF Cells
    <3>3. Value(f) = <<v>>
      BY <3>1 DEF Value
    <3> QED
      BY <3>2, <3>3
  <2> HIDE DEF f
  <2>5. /\ Left >= Len(Cells(f)) /\ Ahead(Len(Cells(f))) = Cells(f)
        /\ \A i, values : i = Len(Cells(f)) /\ values = <<Value(f)>> /\ Take(i, values, <<>>)
                            => ReadStep(tx, cs, <<>>, <<>>, target)
    BY <1>1, <2>2, <2>3, FieldStep DEF f
  <2> HIDE DEF w
  <2>6. Len(Cells(f)) = w /\ w \in 1..4
    <3>1. w \in 1..4
      BY <2>1
    <3> QED
      BY <2>3, <2>4, <3>1, BigEndianType
  <2>7. Number(Ahead(w)) = n
    BY <2>4, <2>5, <2>6, NumberIsWritten
  <2>8. m = n
    BY <2>1, <2>7
  <2> HIDE DEF m
  <2>9. w <= Left
    BY <2>5, <2>6
  <2>10. Take(w, << <<v>> >>, <<>>) /\ UNCHANGED <<from, stage, row, answer>>
    BY <1>3, <2>8, <2>9
  <2> HIDE DEF v
  <2> QED
    BY <2>4, <2>5, <2>6, <2>10
<1> QED
  BY <1>1, <1>4, <1>5 DEF Numbers

(* A buffer is read as it was written. *)
LEMMA BufferStep ==
  ASSUME IsTx(tx), NEW cs, NEW target, Reads(tx, buf, pos, out, todo, cs, target), ReadBuffer
  PROVE  ReadStep(tx, cs, <<>>, <<>>, target) /\ UNCHANGED <<from, stage, row, answer>>
<1>1. todo # <<>> /\ Next1 \in DOMAIN BufferWidth
  BY DEF ReadBuffer, Reading
<1>2. FieldFits(tx, Next1, cs[1])
  BY <1>1, HeadFits DEF Fits
<1>3. PICK v \in Seq(Nat) : Len(v) = BufferWidth[Next1] /\ cs[1] = <<Field(Next1, v)>>
  BY <1>1, <1>2 DEF FieldFits
<1> DEFINE f == Field(Next1, v)
           n == IF BufferWidth[Next1] > Left THEN Left ELSE BufferWidth[Next1]
<1>4. Next1 \in {"hash", "publicKey", "signature", "memo", "header", "coinbase"}
  BY <1>1 DEF BufferWidth
<1>5. f \in Fields
  BY <1>4, FieldTypes DEF TypeNames
<1>6. f.type = Next1 /\ f.value = v /\ f.type # "i64"
  BY <1>4 DEF Field
<1> HIDE DEF f
<1>7. Cells(f) = v
  BY <1>4, <1>6 DEF Cells
<1>8. /\ Left >= Len(Cells(f)) /\ Left \in Nat /\ Ahead(Len(Cells(f))) = Cells(f)
      /\ \A i, values : i = Len(Cells(f)) /\ values = <<Value(f)>> /\ Take(i, values, <<>>)
                          => ReadStep(tx, cs, <<>>, <<>>, target)
      /\ Value(f) = v
  BY <1>1, <1>3, <1>5, <1>6, FieldStep DEF f
<1>9. n = Len(v) /\ Ahead(n) = v
  BY <1>3, <1>7, <1>8
<1>10. Take(n, <<Ahead(n)>>, <<>>) /\ UNCHANGED <<from, stage, row, answer>>
  BY DEF ReadBuffer
<1> HIDE DEF n
<1> QED
  BY <1>6, <1>7, <1>8, <1>9, <1>10

(* A name is read as it was written, and so is the body of a contract. *)
LEMMA StringStep ==
  ASSUME IsTx(tx), NEW cs, NEW target, Reads(tx, buf, pos, out, todo, cs, target), ReadString
  PROVE  ReadStep(tx, cs, <<>>, <<>>, target) /\ UNCHANGED <<from, stage, row, answer>>
<1>1. todo # <<>> /\ Next1 \in {"name", "code"}
  BY DEF ReadString, Reading
<1>2. FieldFits(tx, Next1, cs[1])
  BY <1>1, HeadFits DEF Fits
<1>3. PICK s \in Seq(Nat) : cs[1] = <<Field(Next1, s)>> /\ (Next1 = "code" => Len(s) < Numerals(3))
  <2>1. CASE Next1 = "name"
    BY <1>2, <2>1 DEF FieldFits, Name
  <2>2. CASE Next1 = "code"
    BY <1>2, <2>2 DEF FieldFits
  <2> QED
    BY <1>1, <2>1, <2>2
<1> DEFINE f == Field(Next1, s)
           w == IF Next1 = "name" THEN 1 ELSE Width("u32")
           n == IF w = 1 THEN buf[pos + 1] ELSE Number(Ahead(w))
           m == IF n > Left - w THEN Left - w ELSE n
           size == IF Next1 = "name" THEN <<Len(s)>> ELSE BigEndian(Len(s), 3)
<1>4. f \in Fields
  BY <1>1, FieldTypes DEF TypeNames
<1>5. f.type = Next1 /\ f.value = s /\ f.type # "i64" /\ Len(s) \in Nat
  BY <1>1 DEF Field
<1> HIDE DEF f
<1>6. Cells(f) = size \o s
  BY <1>1, <1>5, Widths DEF Cells
<1>7. size \in Seq(Nat) /\ Len(size) = w /\ w \in {1, 3}
  <2>1. Len(s) \in Nat /\ 3 \in 1..4
    BY <1>5
  <2>2. BigEndian(Len(s), 3) \in Seq(Nat) /\ Len(BigEndian(Len(s), 3)) = 3
    BY <2>1, BigEndianType
  <2>3. <<Len(s)>> \in Seq(Nat) /\ Len(<<Len(s)>>) = 1
    BY <2>1
  <2> QED
    BY <2>2, <2>3, Widths
<1>8. Len(Cells(f)) = w + Len(s)
  <2> HIDE DEF size, w
  <2> QED
    BY <1>6, <1>7, ConcatProperties
<1>9. /\ Cells(f) \in Seq(Nat) /\ Left >= Len(Cells(f)) /\ Left \in Nat /\ pos \in Nat /\ buf \in Seq(Nat)
      /\ Ahead(Len(Cells(f))) = Cells(f)
      /\ \A k \in 1..Len(Cells(f)) : buf[pos + k] = Cells(f)[k]
      /\ \A i, values : i = Len(Cells(f)) /\ values = <<Value(f)>> /\ Take(i, values, <<>>)
                          => ReadStep(tx, cs, <<>>, <<>>, target)
      /\ Value(f) = s
  BY <1>1, <1>3, <1>4, <1>5, FieldStep DEF f
<1>10. ~(w > Left) /\ Left - w >= Len(s) /\ Left - w \in Nat
  <2>1. w \in {1, 3} /\ Len(s) \in Nat /\ Left \in Nat /\ Left >= w + Len(s)
    BY <1>5, <1>7, <1>8, <1>9
  <2> HIDE DEF w
  <2> QED
    BY <2>1
<1> HIDE DEF size, w, n, m
<1>13. Ahead(w) = size /\ (w = 1 => buf[pos + 1] = size[1])
  <2>1. \A k \in 1..w : k \in 1..Len(Cells(f)) /\ Cells(f)[k] = size[k]
    <3>1. \A k \in 1..(Len(size) + Len(s)) : (size \o s)[k] = IF k <= Len(size) THEN size[k] ELSE s[k - Len(size)]
      BY <1>7, ConcatProperties
    <3>2. \A k \in 1..w : k \in 1..(w + Len(s)) /\ k <= w
      BY <1>5, <1>7
    <3> QED
      BY <1>6, <1>7, <1>8, <3>1, <3>2
  <2>2. \A k \in 1..w : buf[pos + k] = size[k]
    BY <1>9, <2>1
  <2>3. Ahead(w) \in Seq(Nat) /\ Len(Ahead(w)) = w /\ \A k \in 1..w : Ahead(w)[k] = buf[pos + k]
    <3> DEFINE u == SubSeq(buf, pos + 1, pos + w)
    <3>1. \A i \in (pos + 1)..(pos + w) : i \in 1..Len(buf)
      BY <1>5, <1>7, <1>8, <1>9 DEF Left
    <3>2. \A i \in (pos + 1)..(pos + w) : buf[i] \in Nat
      BY <1>9, <3>1
    <3>3. pos + 1 \in Int /\ pos + w \in Int
      BY <1>7, <1>9
    <3>4. /\ u \in Seq(Nat) /\ Len(u) = IF pos + 1 <= pos + w THEN (pos + w) - (pos + 1) + 1 ELSE 0
          /\ \A i \in 1..((pos + w) - (pos + 1) + 1) : u[i] = buf[(pos + 1) + i - 1]
      BY <3>2, <3>3, SubSeqProperties
    <3>5. (pos + w) - (pos + 1) + 1 = w /\ pos + 1 <= pos + w /\ \A i \in 1..w : (pos + 1) + i - 1 = pos + i
      BY <1>7, <1>9
    <3> HIDE DEF u
    <3>6. u \in Seq(Nat) /\ Len(u) = w /\ \A i \in 1..w : u[i] = buf[pos + i]
      BY <3>4, <3>5
    <3> QED
      BY <3>6 DEF u, Ahead
  <2>4. Ahead(w) = size
    BY <1>7, <2>2, <2>3, SeqEqual
  <2>5. w = 1 => 1 \in 1..w
    OBVIOUS
  <2> QED
    BY <2>2, <2>4, <2>5
<1>14. n = Len(s)
  <2>1. CASE Next1 = "name"
    <3>1. w = 1 /\ size = <<Len(s)>> /\ size[1] = Len(s)
      BY <2>1 DEF w, size
    <3> QED
      BY <1>13, <3>1 DEF n
  <2>2. CASE Next1 = "code"
    <3>1. w = 3 /\ size = BigEndian(Len(s), 3)
      BY <2>2, Widths DEF w, size
    <3>2. Number(Ahead(w)) = Number(BigEndian(Len(s), 3))
      BY <1>13, <3>1
    <3>3. Len(s) \in 0..Numerals(3) - 1 /\ 3 \in 1..4
      <4>1. Numerals(3) \in Nat
        BY NumeralsAre
      <4> QED
        BY <1>3, <1>5, <2>2, <4>1
    <3>4. Number(BigEndian(Len(s), 3)) = Len(s)
      BY <3>3, NumberIsWritten
    <3> QED
      BY <3>1, <3>2, <3>4 DEF n
  <2> QED
    BY <1>1, <2>1, <2>2
<1>15. m = Len(s)
  BY <1>5, <1>10, <1>14 DEF m
<1>16. SubSeq(buf, pos + w + 1, pos + w + m) = s
  <2> DEFINE u == SubSeq(buf, 1, pos + Len(Cells(f)))
             p == pos + w
             a == SubSeq(buf, p + 1, p + m)
  <2>1. \A k \in 1..Len(s) : p + k \in 1..Len(buf) /\ pos + (w + k) = p + k /\ w + k \in 1..Len(Cells(f))
    BY <1>5, <1>7, <1>8, <1>9 DEF Left
  <2>2. \A k \in 1..Len(s) : Cells(f)[w + k] = s[k]
    <3>1. \A k \in 1..(Len(size) + Len(s)) : (size \o s)[k] = IF k <= Len(size) THEN size[k] ELSE s[k - Len(size)]
      BY <1>7, ConcatProperties
    <3>2. \A k \in 1..Len(s) : w + k \in 1..(w + Len(s)) /\ ~(w + k <= w) /\ w + k - w = k
      BY <1>5, <1>7
    <3>3. Len(size) = w
      BY <1>7
    <3>4. \A k \in 1..Len(s) : (size \o s)[w + k] = s[k]
      BY <3>1, <3>2, <3>3
    <3> QED
      BY <1>6, <3>4
  <2>3. \A k \in 1..Len(s) : buf[p + k] = s[k]
    BY <1>9, <2>1, <2>2
  <2>4. p \in Nat
    BY <1>7, <1>9
  <2> HIDE DEF p
  <2>5. a \in Seq(Nat) /\ Len(a) = Len(s) /\ \A k \in 1..Len(s) : a[k] = buf[p + k]
    <3>1. \A i \in (p + 1)..(p + Len(s)) : i - p \in 1..Len(s) /\ p + (i - p) = i
      BY <1>5, <2>4
    <3>2. \A i \in (p + 1)..(p + Len(s)) : buf[i] \in Nat
      <4>1. ASSUME NEW i \in (p + 1)..(p + Len(s)) PROVE buf[i] \in Nat
        <5>1. i - p \in 1..Len(s) /\ p + (i - p) = i
          BY <3>1
        <5>2. i \in 1..Len(buf)
          BY <2>1, <5>1
        <5> QED
          BY <1>9, <5>2
      <4> QED
        BY <4>1
    <3>3. p + 1 \in Int /\ p + Len(s) \in Int
      BY <1>5, <2>4
    <3> DEFINE e == SubSeq(buf, p + 1, p + Len(s))
    <3>4. /\ e \in Seq(Nat) /\ Len(e) = IF p + 1 <= p + Len(s) THEN (p + Len(s)) - (p + 1) + 1 ELSE 0
          /\ \A i \in 1..((p + Len(s)) - (p + 1) + 1) : e[i] = buf[(p + 1) + i - 1]
      BY <3>2, <3>3, SubSeqProperties
    <3> HIDE DEF e
    <3>5. (p + Len(s)) - (p + 1) + 1 = Len(s) /\ \A i \in 1..Len(s) : (p + 1) + i - 1 = p + i
      BY <1>5, <2>4
    <3>6. Len(e) = Len(s)
      BY <1>5, <2>4, <3>4, <3>5
    <3>7. e \in Seq(Nat) /\ \A i \in 1..Len(s) : e[i] = buf[p + i]
      BY <3>4, <3>5
    <3> QED
      BY <1>15, <3>6, <3>7 DEF e
  <2> HIDE DEF a
  <2>6. a = s
    BY <2>3, <2>5, SeqEqual
  <2> QED
    BY <2>6 DEF a, p
<1>17. Take(w + m, <<SubSeq(buf, pos + w + 1, pos + w + m)>>, <<>>) /\ UNCHANGED <<from, stage, row, answer>>
  BY <1>10 DEF ReadString, w, n, m
<1>18. Take(Len(Cells(f)), <<s>>, <<>>) /\ UNCHANGED <<from, stage, row, answer>>
  BY <1>8, <1>15, <1>16, <1>17
<1> QED
  BY <1>5, <1>9, <1>18

(* The count before a list. *)
LEMMA CountRead ==
  ASSUME NEW n \in 0..Numerals(3) - 1
  PROVE  LET hd == <<Num("u32", n)>> IN
         /\ hd \in Seq(Fields) /\ Bytes(hd) = BigEndian(n, 3) /\ Values(hd) = << <<n>> >>
         /\ BigEndian(n, 3) \in Seq(Nat) /\ Len(BigEndian(n, 3)) = 3 /\ Number(BigEndian(n, 3)) = n /\ n \in Nat
<1> DEFINE f == Num("u32", n)
           hd == <<f>>
<1>1. n \in Nat /\ 3 \in 1..4
  <2>1. Numerals(3) \in Nat
    BY NumeralsAre
  <2> QED
    BY <2>1
<1>2. f \in Fields /\ hd \in Seq(Fields)
  BY <1>1, FieldTypes
<1>3. f.type = "u32" /\ f.value = <<n>> /\ f.value[1] = n
  BY DEF Num, Field
<1> HIDE DEF f
<1>4. Cells(f) = BigEndian(n, 3)
  BY <1>3, Widths DEF Cells
<1>5. Bytes(hd) = BigEndian(n, 3) /\ Values(hd) = << <<n>> >>
  BY <1>2, <1>3, <1>4, BytesOne, ValuesOne DEF Value
<1>6. BigEndian(n, 3) \in Seq(Nat) /\ Len(BigEndian(n, 3)) = 3
  BY <1>1, BigEndianType
<1>7. Number(BigEndian(n, 3)) = n
  BY <1>1, NumberIsWritten
<1> QED
  BY <1>1, <1>2, <1>5, <1>6, <1>7 DEF f

(* The count of a list is ahead. *)
LEMMA CountFound ==
  ASSUME NEW t, NEW cs, NEW target, Reads(t, buf, pos, out, todo, cs, target), todo # <<>>,
         NEW n \in 0..Numerals(3) - 1, NEW rest \in Seq(Fields), cs[1] = <<Num("u32", n)>> \o rest
  PROVE  Left >= 3 /\ Left \in Nat /\ pos \in Nat /\ buf \in Seq(Nat) /\ Number(Ahead(3)) = n
<1> DEFINE hd == <<Num("u32", n)>>
<1>1. /\ hd \in Seq(Fields) /\ Bytes(hd) = BigEndian(n, 3)
      /\ BigEndian(n, 3) \in Seq(Nat) /\ Len(BigEndian(n, 3)) = 3 /\ Number(BigEndian(n, 3)) = n
  BY CountRead
<1>2. cs[1] = hd \o rest
  OBVIOUS
<1> HIDE DEF hd
<1>3. Bytes(hd) \in Seq(Nat) /\ Len(Bytes(hd)) = 3
  BY <1>1
<1>4. /\ Left >= Len(Bytes(hd)) /\ Left \in Nat /\ pos \in Nat /\ buf \in Seq(Nat)
      /\ Ahead(Len(Bytes(hd))) = Bytes(hd)
  BY <1>1, <1>2, <1>3, Found
<1> QED
  BY <1>1, <1>3, <1>4

(* What a list is written as. *)
LEMMA CountSplits ==
  ASSUME NEW t, IsTx(t), NEW read \in DOMAIN Repeated, NEW c, Fits(t, read, c)
  PROVE  \E n \in 0..Numerals(3) - 1 : \E gs :
           /\ gs \in Seq(Seq(Fields)) /\ c = <<Num("u32", n)>> \o FlattenSeq(gs) /\ Len(gs) = n
           /\ \A k \in 1..n : Fits(t, Repeated[read], gs[k])
<1>1. CountFits(t, read, c)
  BY DEF Fits
<1>2. DOMAIN Repeated = {"authFields", "conditions"} /\ Repeated["authFields"] = "authField" /\ Repeated["conditions"] = "condition"
  BY DEF Repeated
<1>n. Numerals(3) \in Nat
  BY NumeralsAre
<1>3. CASE read = "authFields"
  <2>1. PICK keys \in Seq(0..3) :
         /\ Len(keys) < Numerals(3)
         /\ c = <<Num("u32", Len(keys))>> \o FlattenSeq([k \in DOMAIN keys |-> KeyField(keys[k])])
    BY <1>1, <1>3 DEF CountFits
  <2> DEFINE gs == [k \in DOMAIN keys |-> KeyField(keys[k])]
  <2>2. gs \in Seq(Seq(Fields))
    BY KeysType
  <2>3. DOMAIN keys = 1..Len(keys) /\ Len(keys) \in Nat /\ \A k \in 1..Len(keys) : keys[k] \in 0..3
    OBVIOUS
  <2>4. Len(gs) = Len(keys) /\ \A k \in 1..Len(keys) : gs[k] = KeyField(keys[k])
    BY <2>3
  <2>5. Len(keys) \in 0..Numerals(3) - 1
    BY <1>n, <2>1, <2>3
  <2>6. \A k \in 1..Len(keys) : Fits(t, "authField", gs[k])
    <3>1. \A f \in 0..3 : Fits(t, "authField", KeyField(f))
      BY DEF Fits, EnumFits, CountFits, FieldFits, BufferWidth
    <3> QED
      BY <2>3, <2>4, <3>1
  <2>7. c = <<Num("u32", Len(keys))>> \o FlattenSeq(gs)
    BY <2>1
  <2> HIDE DEF gs
  <2> QED
    BY <1>2, <1>3, <2>2, <2>4, <2>5, <2>6, <2>7
<1>4. CASE read = "conditions"
  <2> DEFINE ps == t.conditions
             gs == [k \in DOMAIN ps |-> ConditionLayout(ps[k])]
             n == Len(ps)
  <2>1. c = ConditionsLayout(ps)
    BY <1>1, <1>4 DEF CountFits
  <2>2. n \in 0..Numerals(3) - 1 /\ DOMAIN ps = 1..n /\ \A k \in 1..n : IsCondition(ps[k])
    BY Widths DEF IsTx
  <2>3. c = <<Num("u32", n)>> \o FlattenSeq(gs)
    BY <2>1 DEF ConditionsLayout
  <2>4. \A k \in 1..n : ConditionLayout(ps[k]) \in Seq(Fields)
    BY <2>2, ConditionSplits
  <2>5. gs \in Seq(Seq(Fields)) /\ Len(gs) = n /\ \A k \in 1..n : gs[k] = ConditionLayout(ps[k])
    BY <1>n, <2>2, <2>4
  <2>6. \A k \in 1..n : Fits(t, "condition", gs[k])
    <3>1. \A p : IsCondition(p) => Fits(t, "condition", ConditionLayout(p))
      BY DEF Fits, EnumFits, CountFits, FieldFits, BufferWidth
    <3> QED
      BY <2>2, <2>5, <3>1
  <2>7. Repeated[read] = "condition"
    BY <1>2, <1>4
  <2> HIDE DEF gs, n
  <2> QED
    BY <2>2, <2>3, <2>5, <2>6, <2>7
<1> QED
  BY <1>2, <1>3, <1>4

(* The count of a list brings as many reads as the list has items. *)
LEMMA CountStep ==
  ASSUME IsTx(tx), NEW cs, NEW target, Reads(tx, buf, pos, out, todo, cs, target), ReadCount
  PROVE  /\ \E then, gs : NonePlaced(then) /\ ReadStep(tx, cs, then, gs, target)
         /\ UNCHANGED <<from, stage, row, answer>>
<1>1. todo # <<>> /\ Next1 \in DOMAIN Repeated
  BY DEF ReadCount, Reading
<1>2. Fits(tx, Next1, cs[1])
  BY <1>1, HeadFits
<1>3. PICK n, gs :
           /\ n \in 0..Numerals(3) - 1
           /\ gs \in Seq(Seq(Fields)) /\ cs[1] = <<Num("u32", n)>> \o FlattenSeq(gs) /\ Len(gs) = n
           /\ \A k \in 1..n : Fits(tx, Repeated[Next1], gs[k])
  BY <1>1, <1>2, CountSplits
<1> DEFINE hd == <<Num("u32", n)>>
           then == [k \in 1..n |-> Repeated[Next1]]
<1>4. FlattenSeq(gs) \in Seq(Fields)
  BY <1>3, FlattenType
<1>5. Left >= 3 /\ Number(Ahead(3)) = n /\ Left \in Nat
  BY <1>1, <1>3, <1>4, CountFound
<1>6. Take(3, << <<n>> >>, then) /\ UNCHANGED <<from, stage, row, answer>>
  <2>1. ~(3 > Left)
    BY <1>5
  <2> QED
    BY <1>5, <2>1, Widths DEF ReadCount
<1>7. /\ hd \in Seq(Fields) /\ Bytes(hd) = BigEndian(n, 3) /\ Values(hd) = << <<n>> >>
      /\ Len(BigEndian(n, 3)) = 3 /\ n \in Nat
  BY <1>3, CountRead
<1>8. Repeated[Next1] \in ReadNames \ Placed
  BY <1>1 DEF Repeated, ReadNames, Placed
<1>9. then \in Seq(ReadNames) /\ Len(then) = n /\ \A k \in 1..n : then[k] = Repeated[Next1]
  BY <1>7, <1>8
<1>10. NonePlaced(then)
  <2> HIDE DEF then
  <2> QED
    BY <1>8, <1>9 DEF NonePlaced
<1> HIDE DEF hd, then
<1>11. AllFit(tx, then, gs)
  BY <1>3, <1>9 DEF AllFit
<1>12. cs[1] = hd \o FlattenSeq(gs) /\ 3 = Len(Bytes(hd)) /\ << <<n>> >> = Values(hd)
  BY <1>3, <1>7 DEF hd
<1>13. ReadStep(tx, cs, then, gs, target)
  BY <1>1, <1>6, <1>7, <1>11, <1>12, TakeSteps
<1> QED
  BY <1>6, <1>10, <1>13

(* Where the k-th value ends. *)
ClarityEnds(at, cells, n) ==
  at = [k \in 0..n |-> IF k = 0 THEN 0
                       ELSE LET i == at[k - 1] IN i + ClaritySize(SubSeq(cells, i + 1, Len(cells)))]

EndsOf(cells, n) == CHOOSE at : ClarityEnds(at, cells, n)

(* deserializeCV goes from the end of one value to the end of the next, *)
LEMMA ClarityValuesAre ==
  \A cells, n : ClarityValues(cells, n) =
    [at |-> EndsOf(cells, n)[n],
     values |-> [k \in 1..n |-> SubSeq(cells, EndsOf(cells, n)[k - 1] + 1, EndsOf(cells, n)[k])]]
  BY DEF ClarityValues, EndsOf, ClarityEnds

(* and there is one way to go, *)
LEMMA EndsAre ==
  ASSUME NEW cells, NEW n \in Nat, NEW g, ClarityEnds(g, cells, n)
  PROVE  \A k \in 0..n : EndsOf(cells, n)[k] = g[k]
<1> DEFINE h == EndsOf(cells, n)
           next(i) == i + ClaritySize(SubSeq(cells, i + 1, Len(cells)))
<1>1. ClarityEnds(h, cells, n)
  BY DEF EndsOf
<1>2. h = [k \in 0..n |-> IF k = 0 THEN 0 ELSE next(h[k - 1])]
  BY <1>1 DEF ClarityEnds
<1>3. g = [k \in 0..n |-> IF k = 0 THEN 0 ELSE next(g[k - 1])]
  BY DEF ClarityEnds
<1> HIDE DEF h, next
<1>4. \A k \in 0..n : h[k] = (IF k = 0 THEN 0 ELSE next(h[k - 1]))
  BY <1>2
<1>5. \A k \in 0..n : g[k] = (IF k = 0 THEN 0 ELSE next(g[k - 1]))
  BY <1>3
<1> DEFINE F == {k \in Nat : k \in 0..n /\ h[k] # g[k]}
<1>6. F = {}
  <2> SUFFICES ASSUME F # {} PROVE FALSE
    OBVIOUS
  <2>1. PICK k \in F : \A i \in F : k <= i
    BY SmallestNumber
  <2>2. k \in Nat /\ k \in 0..n /\ h[k] # g[k]
    BY <2>1
  <2>3. k # 0
    BY <1>4, <1>5, <2>2
  <2>4. k - 1 \in Nat /\ k - 1 \in 0..n /\ ~(k <= k - 1)
    BY <2>2, <2>3
  <2>5. h[k - 1] = g[k - 1]
    BY <2>1, <2>4
  <2> QED
    BY <1>4, <1>5, <2>2, <2>3, <2>5
<1>7. \A k \in 0..n : k \in Nat
  OBVIOUS
<1> QED
  BY <1>6, <1>7 DEF h

(* How many cells a value takes shows in its first cells. *)
LEMMA SizeOfPrefix ==
  ASSUME NEW v, IsClarity(v), NEW u, \A j \in 1..Len(v) : u[j] = v[j]
  PROVE  ClaritySize(u) = Len(v)
<1>1. v \in Seq(Nat) /\ v # <<>> /\ Len(v) = ClaritySize(v) /\ (v[1] = 2 => Len(v) > 1)
  BY DEF IsClarity
<1>2. Len(v) \in Nat \ {0}
  BY <1>1, EmptySeq
<1>3. 1 \in 1..Len(v) /\ (v[1] = 2 => 2 \in 1..Len(v))
  BY <1>1, <1>2
<1>4. u[1] = v[1] /\ (v[1] = 2 => u[2] = v[2])
  BY <1>3
<1>5. v[1] \in 0..4
  BY DEF IsClarity
<1>6. ClaritySize(u) = ClaritySize(v)
  BY <1>4, <1>5 DEF ClaritySize
<1> QED
  BY <1>1, <1>6

(* a value is the slice between two ends, *)
LEMMA SliceIs ==
  ASSUME NEW cells \in Seq(Nat), NEW i \in Nat, NEW v \in Seq(Nat), i + Len(v) <= Len(cells),
         \A j \in 1..Len(v) : cells[i + j] = v[j]
  PROVE  SubSeq(cells, i + 1, i + Len(v)) = v
<1> DEFINE n == Len(v)
           e == SubSeq(cells, i + 1, i + n)
<1>1. n \in Nat /\ Len(cells) \in Nat
  OBVIOUS
<1> HIDE DEF n
<1>2. \A k \in (i + 1)..(i + n) : k \in 1..Len(cells)
  BY <1>1 DEF n
<1>3. \A k \in (i + 1)..(i + n) : cells[k] \in Nat
  BY <1>2
<1>4. i + 1 \in Int /\ i + n \in Int
  BY <1>1
<1>5. /\ e \in Seq(Nat) /\ Len(e) = IF i + 1 <= i + n THEN (i + n) - (i + 1) + 1 ELSE 0
      /\ \A k \in 1..((i + n) - (i + 1) + 1) : e[k] = cells[(i + 1) + k - 1]
  BY <1>3, <1>4, SubSeqProperties
<1> HIDE DEF e
<1>6. (i + n) - (i + 1) + 1 = n /\ (\A k \in 1..n : (i + 1) + k - 1 = i + k) /\ (~(i + 1 <= i + n) => n = 0)
  BY <1>1
<1>7. Len(e) = n /\ \A k \in 1..n : e[k] = cells[i + k]
  <2>1. Len(e) = n
    BY <1>5, <1>6
  <2> QED
    BY <1>5, <1>6, <2>1
<1>8. e = v
  BY <1>5, <1>7, SeqEqual DEF n
<1> QED
  BY <1>8 DEF e, n

(* so of values that are written one after the other it gives those values, and leaves what follows. *)
LEMMA ClarityRead ==
  ASSUME NEW args \in Seq(Seq(Nat)), \A k \in 1..Len(args) : IsClarity(args[k]), NEW rest \in Seq(Nat)
  PROVE  LET r == ClarityValues(FlattenSeq(args) \o rest, Len(args)) IN
         r.at = Len(FlattenSeq(args)) /\ r.values = args
<1> DEFINE n == Len(args)
<1>1. n \in Nat /\ n \in 0..n /\ \A k \in 1..n : args[k] \in Seq(Nat)
  OBVIOUS
<1>2. PICK f : FlatSteps(f, args, Nat)
  BY FlatStepsExist
<1>3. f[n] = FlattenSeq(args) /\ f[0] = <<>>
  <2>1. f[Len(args)] = FlattenSeq(args)
    BY <1>2, FlatStepsAre
  <2>2. f[0] = <<>>
    BY <1>2 DEF FlatSteps
  <2> QED
    BY <2>1, <2>2
<1> DEFINE cells == f[n] \o rest
           g == [k \in 0..n |-> Len(f[k])]
<1>4. ASSUME NEW k \in 1..n
      PROVE  /\ g[k] = g[k - 1] + Len(args[k]) /\ g[k - 1] \in Nat /\ Len(args[k]) \in Nat
             /\ cells \in Seq(Nat) /\ g[k] <= Len(cells) /\ Len(cells) \in Nat
             /\ \A j \in 1..Len(args[k]) : cells[g[k - 1] + j] = args[k][j]
  <2>1. k - 1 \in 0..n /\ k \in 0..n
    BY <1>1
  <2>2. g[k] = Len(f[k]) /\ g[k - 1] = Len(f[k - 1])
    BY <2>1
  <2>3. /\ Len(f[k]) = Len(f[k - 1]) + Len(args[k]) /\ Len(f[k - 1]) \in Nat /\ Len(args[k]) \in Nat
        /\ cells \in Seq(Nat) /\ Len(f[k]) <= Len(cells) /\ Len(cells) \in Nat
        /\ \A j \in 1..Len(args[k]) : cells[Len(f[k - 1]) + j] = args[k][j]
    <3>1. PlaceOf(f, args, Nat, f[Len(args)] \o rest, k)
      BY <1>2, FlatPlaces
    <3> QED
      BY <3>1 DEF PlaceOf
  <2> HIDE DEF g, cells
  <2> QED
    BY <2>2, <2>3
<1>5. g[0] = 0 /\ g = [k \in 0..n |-> g[k]]
  <2>1. g[0] = Len(f[0]) /\ g = [k \in 0..n |-> g[k]]
    BY <1>1
  <2> QED
    BY <1>3, <2>1
<1>9. g[n] = Len(f[n])
  BY <1>1
<1> HIDE DEF g, cells
<1>6. ASSUME NEW k \in 1..n
      PROVE  g[k] = g[k - 1] + ClaritySize(SubSeq(cells, g[k - 1] + 1, Len(cells)))
  <2> DEFINE i == g[k - 1]
             v == args[k]
             u == SubSeq(cells, i + 1, Len(cells))
  <2>1. /\ g[k] = i + Len(v) /\ i \in Nat /\ Len(v) \in Nat /\ cells \in Seq(Nat) /\ g[k] <= Len(cells)
        /\ Len(cells) \in Nat /\ \A j \in 1..Len(v) : cells[i + j] = v[j]
    BY <1>4
  <2>2. IsClarity(v)
    OBVIOUS
  <2> HIDE DEF i, v
  <2>3. \A j \in (i + 1)..Len(cells) : cells[j] \in Nat
    <3>1. \A j \in (i + 1)..Len(cells) : j \in 1..Len(cells)
      BY <2>1
    <3> QED
      BY <2>1, <3>1
  <2>4. i + 1 \in Int /\ Len(cells) \in Int
    BY <2>1
  <2>5. \A j \in 1..(Len(cells) - (i + 1) + 1) : u[j] = cells[(i + 1) + j - 1]
    BY <2>3, <2>4, SubSeqProperties
  <2> HIDE DEF u
  <2>6. \A j \in 1..Len(v) : j \in 1..(Len(cells) - (i + 1) + 1) /\ (i + 1) + j - 1 = i + j
    BY <2>1
  <2>7. \A j \in 1..Len(v) : u[j] = v[j]
    BY <2>1, <2>5, <2>6
  <2>8. ClaritySize(u) = Len(v)
    BY <2>2, <2>7, SizeOfPrefix
  <2> QED
    BY <2>1, <2>8 DEF u, i
<1>7. ClarityEnds(g, cells, n)
  <2>1. ASSUME NEW k \in 0..n
        PROVE  g[k] = IF k = 0 THEN 0 ELSE LET i == g[k - 1] IN i + ClaritySize(SubSeq(cells, i + 1, Len(cells)))
    <3>1. k # 0 => k \in 1..n
      BY <1>1
    <3> QED
      BY <1>5, <1>6, <3>1
  <2> QED
    BY <1>5, <2>1 DEF ClarityEnds
<1>8. \A k \in 0..n : EndsOf(cells, n)[k] = g[k]
  BY <1>1, <1>7, EndsAre
<1> DEFINE r == ClarityValues(cells, n)
<1>10. r.at = EndsOf(cells, n)[n] /\ r.values = [k \in 1..n |-> SubSeq(cells, EndsOf(cells, n)[k - 1] + 1, EndsOf(cells, n)[k])]
  BY ClarityValuesAre
<1> HIDE DEF r
<1>11. r.at = Len(f[n])
  BY <1>1, <1>8, <1>9, <1>10
<1>12. ASSUME NEW k \in 1..n PROVE SubSeq(cells, EndsOf(cells, n)[k - 1] + 1, EndsOf(cells, n)[k]) = args[k]
  <2>1. k - 1 \in 0..n /\ k \in 0..n
    BY <1>1
  <2> DEFINE i == g[k - 1]
             v == args[k]
  <2>2. EndsOf(cells, n)[k - 1] = i /\ EndsOf(cells, n)[k] = i + Len(v)
    BY <1>4, <1>8, <2>1
  <2>3. /\ i \in Nat /\ cells \in Seq(Nat) /\ i + Len(v) <= Len(cells)
        /\ \A j \in 1..Len(v) : cells[i + j] = v[j]
    BY <1>4
  <2>4. v \in Seq(Nat)
    BY <1>1
  <2> HIDE DEF i, v
  <2>5. SubSeq(cells, i + 1, i + Len(v)) = v
    BY <2>3, <2>4, SliceIs
  <2> QED
    BY <2>2, <2>5 DEF v
<1>13. r.values = args
  <2>1. args = [k \in 1..n |-> args[k]]
    OBVIOUS
  <2> HIDE DEF n
  <2> QED
    BY <1>10, <1>12, <2>1
<1> QED
  BY <1>3, <1>11, <1>13 DEF r, cells

(* The reader of its own begins with what is left. *)
LEMMA RestIs ==
  ASSUME NEW p, NEW s \in Seq(Nat), Remains(buf, p, s)
  PROVE  Rest(p) = s
<1>1. s \o <<>> = s /\ <<>> \in Seq(Nat)
  BY ConcatEmptySeq
<1>2. Remains(buf, p, s \o <<>>)
  BY <1>1
<1>3. SubSeq(buf, p + 1, p + Len(s)) = s
  BY <1>1, <1>2, RemainsSplit
<1>4. Len(buf) = p + Len(s)
  BY DEF Remains
<1> QED
  BY <1>3, <1>4 DEF Rest

(* The value of a nonfungible token is read as it was written. *)
LEMMA ClarityStep ==
  ASSUME IsTx(tx), NEW cs, NEW target, Reads(tx, buf, pos, out, todo, cs, target), ReadClarityValue
  PROVE  ReadStep(tx, cs, <<>>, <<>>, target) /\ UNCHANGED <<from, stage, row, answer>>
<1>1. todo # <<>> /\ Next1 = "clarity"
  BY DEF ReadClarityValue, Reading
<1>2. Fits(tx, Next1, cs[1])
  BY <1>1, HeadFits
<1>3. PICK v : IsClarity(v) /\ cs[1] = <<Field("clarity", v)>>
  BY <1>1, <1>2 DEF Fits, FieldFits
<1> DEFINE f == Field("clarity", v)
           hd == <<f>>
           more == <<>> \o FlattenSeq(Tail(cs))
<1>4. v \in Seq(Nat)
  BY <1>3 DEF IsClarity
<1>5. f \in Fields
  <2>1. "clarity" \in TypeNames \ {"u16", "u32", "u64", "i64"}
    BY DEF TypeNames
  <2> QED
    BY <1>4, <2>1, FieldTypes
<1>6. f.type = "clarity" /\ f.value = v
  BY DEF Field
<1> HIDE DEF f
<1>7. Cells(f) = v
  BY <1>6 DEF Cells
<1>8. /\ \A n, values : n = Len(Cells(f)) /\ values = <<Value(f)>> /\ Take(n, values, <<>>)
                          => ReadStep(tx, cs, <<>>, <<>>, target)
      /\ Value(f) = v
  BY <1>1, <1>3, <1>5, <1>6, FieldStep DEF f
<1>9. hd \in Seq(Fields) /\ Bytes(hd) = v /\ <<>> \in Seq(Fields) /\ hd \o <<>> = hd
  BY <1>5, <1>7, BytesOne, Tuples, ConcatEmptySeq
<1>10. Bytes(more) \in Seq(Nat) /\ Remains(buf, pos, v \o Bytes(more))
  <2>1. cs[1] = hd \o <<>>
    BY <1>3, <1>9 DEF f
  <2> HIDE DEF hd
  <2>2. Bytes(more) \in Seq(Nat) /\ Remains(buf, pos, Bytes(hd) \o Bytes(more))
    BY <1>1, <1>9, <2>1, HeadRead
  <2> QED
    BY <1>9, <2>2
<1> HIDE DEF more, hd
<1>11. Rest(pos) = v \o Bytes(more)
  <2>1. v \o Bytes(more) \in Seq(Nat)
    BY <1>4, <1>10, ConcatProperties
  <2> QED
    BY <1>10, <2>1, RestIs
<1> DEFINE r == ClarityValues(Rest(pos), 1)
<1>12. r.at = Len(v) /\ r.values = <<v>>
  <2> DEFINE a == <<v>>
  <2>1. a \in Seq(Seq(Nat)) /\ Len(a) = 1 /\ \A k \in 1..Len(a) : IsClarity(a[k])
    BY <1>3, <1>4
  <2>2. FlattenSeq(a) = v
    BY <1>4, FlattenOne
  <2> DEFINE q == ClarityValues(FlattenSeq(a) \o Bytes(more), Len(a))
  <2> HIDE DEF a
  <2>3. q.at = Len(FlattenSeq(a)) /\ q.values = a
    BY <1>10, <2>1, ClarityRead
  <2>4. r = q
    BY <1>11, <2>1, <2>2
  <2> HIDE DEF r, q
  <2> QED
    BY <2>2, <2>3, <2>4 DEF a
<1>13. Take(r.at, r.values, <<>>) /\ UNCHANGED <<from, stage, row, answer>>
  BY DEF ReadClarityValue
<1> HIDE DEF r
<1> QED
  BY <1>6, <1>7, <1>8, <1>12, <1>13

(* The arguments take their count and their values, and nothing else. *)
LEMMA ArgsBytes ==
  ASSUME NEW args \in Seq(Seq(Nat)), Len(args) \in 0..Numerals(3) - 1
  PROVE  /\ FlattenSeq(args) \in Seq(Nat)
         /\ Bytes(ArgsLayout(args)) = BigEndian(Len(args), 3) \o FlattenSeq(args)
         /\ Values(ArgsLayout(args)) = << <<Len(args)>> >> \o args
<1> DEFINE n == Len(args)
           hd == <<Num("u32", n)>>
           fs == ArgFields(args)
<1>1. DOMAIN args = 1..n /\ n \in Nat /\ \A k \in 1..n : args[k] \in Seq(Nat)
  OBVIOUS
<1>2. fs \in Seq(Fields) /\ Len(fs) = n /\ ArgsLayout(args) = hd \o fs
  BY ArgsType
<1>3. hd \in Seq(Fields) /\ Bytes(hd) = BigEndian(n, 3) /\ Values(hd) = << <<n>> >>
  BY CountRead
<1>4. DOMAIN fs = 1..n /\ \A k \in 1..n : fs[k] = Field("clarity", args[k])
  BY <1>1 DEF ArgFields
<1>5. \A k \in 1..n : Cells(fs[k]) = args[k] /\ Value(fs[k]) = args[k]
  <2>1. \A v : Field("clarity", v).type = "clarity" /\ Field("clarity", v).value = v
    BY DEF Field
  <2>2. \A v : Cells(Field("clarity", v)) = v /\ Value(Field("clarity", v)) = v
    BY <2>1 DEF Cells, Value
  <2> QED
    BY <1>4, <2>1, <2>2
<1>6. args = [k \in 1..n |-> args[k]]
  OBVIOUS
<1> HIDE DEF hd, fs, n
<1>7. [k \in DOMAIN fs |-> Cells(fs[k])] = args /\ [k \in DOMAIN fs |-> Value(fs[k])] = args
  BY <1>4, <1>5, <1>6
<1>8. Bytes(fs) = FlattenSeq(args) /\ Values(fs) = args
  BY <1>7 DEF Bytes, Values
<1>9. Bytes(ArgsLayout(args)) = BigEndian(n, 3) \o FlattenSeq(args)
  BY <1>2, <1>3, <1>8, BytesConcat
<1>10. Values(ArgsLayout(args)) = << <<n>> >> \o args
  BY <1>2, <1>3, <1>8, ValuesConcat
<1> QED
  BY <1>9, <1>10, FlattenType DEF n

RawArgs(args) == IF args = <<>> THEN <<>> ELSE Bytes(ArgsLayout(args))

(* The arguments of a call are read as they were written, and their slice is kept. *)
LEMMA ArgsStep ==
  ASSUME IsTx(tx), NEW cs, NEW target, Reads(tx, buf, pos, out, todo, cs, target), ReadClarityValueArray
  PROVE  /\ ReadStep(tx, cs, <<>>, <<>>, target) /\ UNCHANGED <<from, stage, answer>>
         /\ tx.payload.typeId = 2
         /\ row' = IF stage = "decode" THEN [row EXCEPT !.args = RawArgs(tx.payload.args)] ELSE row
<1> DEFINE args == tx.payload.args
           n == Len(args)
           hd == ArgsLayout(args)
           be == BigEndian(n, 3)
           more == <<>> \o FlattenSeq(Tail(cs))
<1>1. todo # <<>> /\ Next1 = "args"
  BY DEF ReadClarityValueArray, Reading
<1>2. tx.payload.typeId = 2 /\ cs[1] = hd
  <2>1. Fits(tx, Next1, cs[1])
    BY <1>1, HeadFits
  <2> QED
    BY <1>1, <2>1 DEF Fits, FieldFits
<1>3. args \in Seq(Seq(Nat)) /\ n \in 0..Numerals(3) - 1 /\ n \in Nat /\ \A k \in 1..n : IsClarity(args[k])
  <2>1. IsPayload(tx.payload)
    BY DEF IsTx
  <2>2. args \in Seq(Seq(Nat)) /\ n < Numerals(3) /\ \A k \in DOMAIN args : IsClarity(args[k])
    BY <1>2, <2>1, Widths DEF IsPayload
  <2>3. n \in Nat /\ DOMAIN args = 1..n
    BY <2>2
  <2>4. Numerals(3) \in Nat
    BY NumeralsAre
  <2> QED
    BY <2>2, <2>3, <2>4
<1>4. /\ FlattenSeq(args) \in Seq(Nat) /\ Bytes(hd) = be \o FlattenSeq(args)
      /\ Values(hd) = << <<n>> >> \o args
  BY <1>3, ArgsBytes
<1>5. be \in Seq(Nat) /\ Len(be) = 3 /\ Number(be) = n
  BY <1>3, CountRead
<1>6. hd \in Seq(Fields) /\ <<>> \in Seq(Fields) /\ hd \o <<>> = hd
  <2>1. hd \in Seq(Fields)
    BY <1>3, ArgsType
  <2> HIDE DEF hd
  <2> QED
    BY <2>1, ConcatEmptySeq
<1> HIDE DEF hd, be, n, args
<1>7. /\ Bytes(hd) \in Seq(Nat) /\ Bytes(more) \in Seq(Nat) /\ Remains(buf, pos, Bytes(hd) \o Bytes(more))
  <2> DEFINE e == <<>>
             m == e \o FlattenSeq(Tail(cs))
  <2>1. cs[1] = hd \o e
    BY <1>2, <1>6
  <2>2. hd \in Seq(Fields) /\ e \in Seq(Fields) /\ todo # <<>>
    BY <1>1, <1>6
  <2> HIDE DEF e
  <2>3. Bytes(hd) \in Seq(Nat) /\ Bytes(m) \in Seq(Nat) /\ Remains(buf, pos, Bytes(hd) \o Bytes(m))
    BY <2>1, <2>2, HeadRead
  <2> QED
    BY <2>3 DEF e
<1> HIDE DEF more
<1> DEFINE fa == FlattenSeq(args)
           bm == Bytes(more)
<1>8. (be \o fa) \o bm = be \o (fa \o bm) /\ fa \o bm \in Seq(Nat)
  <2>1. Associates(Nat)
    BY ConcatAssociates
  <2>2. be \in Seq(Nat) /\ fa \in Seq(Nat) /\ bm \in Seq(Nat)
    BY <1>4, <1>5, <1>7
  <2> HIDE DEF fa, bm
  <2>3. (be \o fa) \o bm = be \o (fa \o bm)
    BY <2>1, <2>2 DEF Associates, Joins
  <2>4. fa \o bm \in Seq(Nat)
    BY <2>2, ConcatProperties
  <2> QED
    BY <2>3, <2>4
<1>9. Remains(buf, pos, be \o (fa \o bm))
  BY <1>4, <1>7, <1>8
<1> HIDE DEF fa, bm
<1>10. /\ Remains(buf, pos + 3, fa \o bm) /\ Ahead(3) = be
  <2> DEFINE x == fa \o bm
  <2>1. be \in Seq(Nat) /\ x \in Seq(Nat)
    BY <1>5, <1>8
  <2>2. Remains(buf, pos, be \o x)
    BY <1>9
  <2> HIDE DEF x
  <2>3. Remains(buf, pos + Len(be), x) /\ SubSeq(buf, pos + 1, pos + Len(be)) = be
    BY <2>1, <2>2, RemainsSplit
  <2> QED
    BY <1>5, <2>3 DEF Ahead, x
<1>11. Rest(pos + 3) = fa \o bm
  BY <1>8, <1>10, RestIs
<1> DEFINE r == ClarityValues(Rest(pos + 3), Number(Ahead(3)))
<1>12. r.at = Len(fa) /\ r.values = args
  <2>1. r = ClarityValues(fa \o bm, n)
    BY <1>5, <1>10, <1>11
  <2> HIDE DEF r
  <2>2. LET q == ClarityValues(FlattenSeq(args) \o Bytes(more), Len(args)) IN
        q.at = Len(FlattenSeq(args)) /\ q.values = args
    <3>1. \A k \in 1..Len(args) : IsClarity(args[k])
      BY <1>3 DEF n
    <3> QED
      BY <1>3, <1>7, <3>1, ClarityRead
  <2> QED
    BY <2>1, <2>2 DEF fa, bm, n
<1>13. /\ Take(3 + r.at, << <<Number(Ahead(3))>> >> \o r.values, <<>>)
       /\ row' = IF stage = "decode" THEN [row EXCEPT !.args = RawFunctionArgs(3, r)] ELSE row
       /\ UNCHANGED <<from, stage, answer>>
  BY Widths DEF ReadClarityValueArray
<1> HIDE DEF r
<1>14. Len(Bytes(hd)) = 3 + Len(fa)
  <2>1. be \in Seq(Nat) /\ fa \in Seq(Nat) /\ Bytes(hd) = be \o fa
    BY <1>4, <1>5 DEF fa
  <2>2. Len(be \o fa) = Len(be) + Len(fa)
    BY <2>1, ConcatProperties
  <2> QED
    BY <1>5, <2>1, <2>2
<1>15. Take(Len(Bytes(hd)), Values(hd), <<>>)
  BY <1>4, <1>5, <1>10, <1>12, <1>13, <1>14
<1>16. ReadStep(tx, cs, <<>>, <<>>, target)
  <2>1. AllFit(tx, <<>>, <<>>) /\ cs[1] = hd \o FlattenSeq(<<>>)
    BY <1>2, <1>6, EmptyFit
  <2> QED
    BY <1>1, <1>6, <1>15, <2>1, TakeSteps
<1>17. RawFunctionArgs(3, r) = RawArgs(args)
  <2>1. RawFunctionArgs(3, r) = IF args = <<>> THEN <<>> ELSE SubSeq(buf, pos + 1, pos + 3 + r.at)
    BY <1>12 DEF RawFunctionArgs
  <2>2. SubSeq(buf, pos + 1, pos + Len(Bytes(hd))) = Bytes(hd)
    <3> DEFINE a == Bytes(hd)
    <3> HIDE DEF a
    <3>1. a \in Seq(Nat) /\ bm \in Seq(Nat) /\ Remains(buf, pos, a \o bm)
      BY <1>7 DEF bm, a
    <3>2. SubSeq(buf, pos + 1, pos + Len(a)) = a
      BY <3>1, RemainsSplit
    <3> QED
      BY <3>2 DEF a
  <2>3. pos + 3 + r.at = pos + Len(Bytes(hd))
    <3>1. Len(fa) \in Nat /\ pos \in Nat
      BY <1>4, <1>7 DEF fa, Remains
    <3> QED
      BY <1>12, <1>14, <3>1
  <2> QED
    BY <2>1, <2>2, <2>3 DEF RawArgs, hd
<1> QED
  BY <1>2, <1>13, <1>16, <1>17 DEF args

-----------------------------------------------------------------------------
(***************************************************************************)
(* What every read does, and what it leaves in its place.                  *)
(***************************************************************************)
ReadOf(cs, target, then, gs) ==
  /\ ReadStep(tx, cs, then, gs, target) /\ UNCHANGED <<tx, stage, answer>>
  /\ Next1 \notin {"authType", "payload"} => NonePlaced(then)
  /\ Next1 = "authType" => gs = AuthFields(tx) /\ \A i \in 1..Len(then) : then[i] = "hashMode"
  /\ Next1 = "hashMode" =>
       \E k \in DOMAIN tx.auth : cs[1] = SpendingLayout(tx.auth[k]) /\ tx.auth[k].hashMode \in 0..3
  /\ Next1 = "payload" =>
       /\ tx.payload.typeId \in 0..4
       /\ tx.payload.typeId # 2 => NonePlaced(then)
       /\ tx.payload.typeId = 2 => then = <<"u8", "hash", "name", "name", "args">>
  /\ Next1 = "mode" => cs[1] = <<Byte(tx.mode)>>
  /\ Next1 = "args" => tx.payload.typeId = 2
  /\ from' = IF Next1 = "mode" THEN pos ELSE from
  /\ row' = IF Next1 = "payload"
            THEN [typeId |-> tx.payload.typeId, conditions |-> RawPostConditions, args |-> <<>>]
            ELSE IF Next1 = "args" /\ stage = "decode"
            THEN [row EXCEPT !.args = RawArgs(tx.payload.args)] ELSE row

(* Every read is one of these. *)
LEMMA ReadIs ==
  ASSUME IsTx(tx), NEW cs, NEW target, Reads(tx, buf, pos, out, todo, cs, target),
         \/ ReadUInt8Enum \/ ReadNumber \/ ReadBuffer \/ ReadString \/ ReadCount
         \/ ReadClarityValue \/ ReadClarityValueArray
  PROVE  \/ stage' = "thrown" /\ ~Known(tx) /\ UNCHANGED <<tx, row, answer>>
         \/ \E then, gs : ReadOf(cs, target, then, gs)
<1>0. NonePlaced(<<>>)
  BY DEF NonePlaced
<1>1. CASE ReadUInt8Enum
  <2>1. Next1 \in Enums /\ UNCHANGED tx
    BY <1>1 DEF ReadUInt8Enum
  <2>2. CASE stage' = "thrown" /\ ~Known(tx) /\ UNCHANGED <<reader, row, answer>>
    BY <2>1, <2>2
  <2>3. CASE \E b, gs :
              /\ b \in DOMAIN Enum(Next1) /\ ReadStep(tx, cs, Enum(Next1)[b], gs, target)
              /\ Next1 = "authType" => gs = AuthFields(tx)
              /\ Next1 = "hashMode" =>
                   \E k \in DOMAIN tx.auth : cs[1] = SpendingLayout(tx.auth[k]) /\ b = tx.auth[k].hashMode
              /\ Next1 = "payload" => b = tx.payload.typeId
              /\ Next1 = "mode" => cs[1] = <<Byte(tx.mode)>>
              /\ from' = IF Next1 = "mode" THEN pos ELSE from
              /\ row' = IF Next1 = "payload"
                        THEN [typeId |-> b, conditions |-> RawPostConditions, args |-> <<>>] ELSE row
              /\ UNCHANGED <<stage, answer>>
    <3>1. PICK b, gs :
              /\ b \in DOMAIN Enum(Next1) /\ ReadStep(tx, cs, Enum(Next1)[b], gs, target)
              /\ Next1 = "authType" => gs = AuthFields(tx)
              /\ Next1 = "hashMode" =>
                   \E k \in DOMAIN tx.auth : cs[1] = SpendingLayout(tx.auth[k]) /\ b = tx.auth[k].hashMode
              /\ Next1 = "payload" => b = tx.payload.typeId
              /\ Next1 = "mode" => cs[1] = <<Byte(tx.mode)>>
              /\ from' = IF Next1 = "mode" THEN pos ELSE from
              /\ row' = IF Next1 = "payload"
                        THEN [typeId |-> b, conditions |-> RawPostConditions, args |-> <<>>] ELSE row
              /\ UNCHANGED <<stage, answer>>
      BY <2>3
    <3> DEFINE then == Enum(Next1)[b]
    <3>2. /\ Next1 \notin {"authType", "payload"} => NonePlaced(then)
          /\ Next1 = "authType" => \A i \in 1..Len(then) : then[i] = "hashMode"
          /\ Next1 = "payload" /\ b # 2 => NonePlaced(then)
          /\ Next1 = "payload" /\ b = 2 => then = <<"u8", "hash", "name", "name", "args">>
      BY <2>1, <3>1, EnumReads
    <3>3. Next1 = "hashMode" => b \in 0..3
      <4>1. DOMAIN Enum("hashMode") = 0..3
        BY DEF Enum
      <4> QED
        BY <3>1, <4>1
    <3>4. Next1 = "payload" => b \in 0..4
      <4>1. DOMAIN Enum("payload") = 0..4
        BY DEF Enum
      <4> QED
        BY <3>1, <4>1
    <3>5. Next1 # "args"
      BY <2>1 DEF Enums
    <3> HIDE DEF then
    <3>6. ReadStep(tx, cs, then, gs, target)
      BY <3>1 DEF then
    <3>7. ReadOf(cs, target, then, gs)
      BY <2>1, <3>1, <3>2, <3>3, <3>4, <3>5, <3>6 DEF ReadOf
    <3> QED
      BY <3>7
  <2> QED
    BY <1>1, <2>2, <2>3, EnumStep
<1>2. ASSUME NEW then, NEW gs, NonePlaced(then), ReadStep(tx, cs, then, gs, target),
             UNCHANGED <<tx, from, stage, row, answer>>,
             Next1 \notin {"authType", "hashMode", "payload", "mode", "args"}
      PROVE  ReadOf(cs, target, then, gs)
  BY <1>2 DEF ReadOf
<1>3. CASE ReadNumber
  <2>1. ReadStep(tx, cs, <<>>, <<>>, target) /\ UNCHANGED <<tx, from, stage, row, answer>>
    BY <1>3, NumberStep DEF ReadNumber
  <2>2. Next1 \notin {"authType", "hashMode", "payload", "mode", "args"}
    BY <1>3 DEF ReadNumber, Numbers
  <2> QED
    BY <1>0, <1>2, <2>1, <2>2
<1>4. CASE ReadBuffer
  <2>1. ReadStep(tx, cs, <<>>, <<>>, target) /\ UNCHANGED <<tx, from, stage, row, answer>>
    BY <1>4, BufferStep DEF ReadBuffer
  <2>2. Next1 \notin {"authType", "hashMode", "payload", "mode", "args"}
    BY <1>4 DEF ReadBuffer, BufferWidth
  <2> QED
    BY <1>0, <1>2, <2>1, <2>2
<1>5. CASE ReadString
  <2>1. ReadStep(tx, cs, <<>>, <<>>, target) /\ UNCHANGED <<tx, from, stage, row, answer>>
    BY <1>5, StringStep DEF ReadString
  <2>2. Next1 \notin {"authType", "hashMode", "payload", "mode", "args"}
    BY <1>5 DEF ReadString
  <2> QED
    BY <1>0, <1>2, <2>1, <2>2
<1>6. CASE ReadCount
  <2>1. UNCHANGED <<tx, from, stage, row, answer>> /\ \E then, gs : NonePlaced(then) /\ ReadStep(tx, cs, then, gs, target)
    BY <1>6, CountStep DEF ReadCount
  <2>2. Next1 \notin {"authType", "hashMode", "payload", "mode", "args"}
    BY <1>6 DEF ReadCount, Repeated
  <2> QED
    BY <1>2, <2>1, <2>2
<1>7. CASE ReadClarityValue
  <2>1. ReadStep(tx, cs, <<>>, <<>>, target) /\ UNCHANGED <<tx, from, stage, row, answer>>
    BY <1>7, ClarityStep DEF ReadClarityValue
  <2>2. Next1 \notin {"authType", "hashMode", "payload", "mode", "args"}
    BY <1>7 DEF ReadClarityValue
  <2> QED
    BY <1>0, <1>2, <2>1, <2>2
<1>8. CASE ReadClarityValueArray
  <2>1. /\ ReadStep(tx, cs, <<>>, <<>>, target) /\ UNCHANGED <<tx, from, stage, answer>>
        /\ tx.payload.typeId = 2
        /\ row' = IF stage = "decode" THEN [row EXCEPT !.args = RawArgs(tx.payload.args)] ELSE row
    BY <1>8, ArgsStep DEF ReadClarityValueArray
  <2>2. Next1 = "args"
    BY <1>8 DEF ReadClarityValueArray
  <2>3. ReadOf(cs, target, <<>>, <<>>)
    BY <1>0, <2>1, <2>2 DEF ReadOf
  <2> QED
    BY <2>3
<1> QED
  BY <1>1, <1>3, <1>4, <1>5, <1>6, <1>7, <1>8

Has(td, read) == \E i \in 1..Len(td) : td[i] = read

(* The payload is the last to be read, and so are the arguments in it. *)
PayloadLast(td) == \A i \in 1..Len(td) : td[i] \in {"payload", "args"} => i = Len(td)

ModeThen(td) ==
  \A i \in 1..Len(td) : td[i] = "mode" => Len(td) = i + 2 /\ td[i + 1] = "conditions" /\ td[i + 2] = "payload"

(* A spending condition that no case takes has yet to be read. *)
Pending(t, td, cs) ==
  \A k \in DOMAIN t.auth :
    \/ t.auth[k].hashMode \in 0..3
    \/ \E i \in 1..Len(td) : \/ td[i] = "authType"
                             \/ td[i] = "hashMode" /\ cs[i] = SpendingLayout(t.auth[k])

(* The mode, the conditions and the payload stay in their order while what comes before is read. *)
LEMMA PlacesKept ==
  ASSUME NEW td \in Seq(ReadNames), td # <<>>, NEW then \in Seq(ReadNames), PayloadLast(td), ModeThen(td),
         \A i \in 1..Len(then) : then[i] \notin {"mode", "payload", "args"}
  PROVE  LET u == then \o Tail(td) IN
         /\ PayloadLast(u) /\ ModeThen(u)
         /\ \A read \in {"mode", "payload", "args"} :
              Has(u, read) <=> \E j \in 2..Len(td) : td[j] = read
         /\ \A read \in {"mode", "payload", "args"} : td[1] # read => (Has(u, read) <=> Has(td, read))
<1> DEFINE u == then \o Tail(td)
           m == Len(then)
           n == Len(td)
<1>1. /\ Len(u) = m + n - 1 /\ m \in Nat /\ n \in Nat \ {0}
      /\ \A i \in 1..m : i \in 1..Len(u) /\ u[i] = then[i]
      /\ \A j \in 2..n : m + j - 1 \in 1..Len(u) /\ u[m + j - 1] = td[j]
      /\ \A i \in 1..Len(u) : i \in 1..m \/ \E j \in 2..n : i = m + j - 1
  BY Spliced
<1> HIDE DEF u, m
<1>m. \A i \in 1..m : then[i] \notin {"mode", "payload", "args"}
  BY DEF m
<1>n. \A j \in 2..n : j \in 1..n
  BY <1>1
<1>2. ASSUME NEW i \in 1..Len(u), u[i] \in {"mode", "payload", "args"}
      PROVE  \E j \in 2..n : i = m + j - 1 /\ u[i] = td[j]
  <2>1. i \notin 1..m
    BY <1>1, <1>m, <1>2
  <2>2. PICK j \in 2..n : i = m + j - 1
    BY <1>1, <2>1
  <2>3. u[m + j - 1] = td[j]
    BY <1>1
  <2> QED
    BY <2>2, <2>3
<1>3. PayloadLast(u)
  <2> SUFFICES ASSUME NEW i \in 1..Len(u), u[i] \in {"payload", "args"} PROVE i = Len(u)
    BY DEF PayloadLast
  <2>1. PICK j \in 2..n : i = m + j - 1 /\ u[i] = td[j]
    BY <1>2
  <2>2. j = n
    BY <1>n, <2>1 DEF PayloadLast
  <2> HIDE DEF n
  <2> QED
    BY <1>1, <2>1, <2>2
<1>4. ModeThen(u)
  <2> SUFFICES ASSUME NEW i \in 1..Len(u), u[i] = "mode"
               PROVE  Len(u) = i + 2 /\ u[i + 1] = "conditions" /\ u[i + 2] = "payload"
    BY DEF ModeThen
  <2>1. PICK j \in 2..n : i = m + j - 1 /\ u[i] = td[j]
    BY <1>2
  <2>2. n = j + 2 /\ td[j + 1] = "conditions" /\ td[j + 2] = "payload"
    BY <1>n, <2>1 DEF ModeThen
  <2>3. /\ j + 1 \in 2..n /\ j + 2 \in 2..n /\ m + (j + 1) - 1 = i + 1 /\ m + (j + 2) - 1 = i + 2
        /\ m + n - 1 = i + 2
    BY <1>1, <2>1, <2>2
  <2> HIDE DEF n
  <2>4. u[m + (j + 1) - 1] = td[j + 1] /\ u[m + (j + 2) - 1] = td[j + 2]
    BY <1>1, <2>3
  <2>5. Len(u) = i + 2
    BY <1>1, <2>3
  <2> QED
    BY <2>2, <2>3, <2>4, <2>5
<1>5. ASSUME NEW read \in {"mode", "payload", "args"}
      PROVE  Has(u, read) <=> \E j \in 2..n : td[j] = read
  <2>1. ASSUME Has(u, read) PROVE \E j \in 2..n : td[j] = read
    <3>1. PICK i \in 1..Len(u) : u[i] = read
      BY <2>1 DEF Has
    <3>2. \E j \in 2..n : i = m + j - 1 /\ u[i] = td[j]
      BY <1>2, <3>1
    <3> QED
      BY <3>1, <3>2
  <2>2. ASSUME NEW j \in 2..n, td[j] = read PROVE Has(u, read)
    BY <1>1, <2>2 DEF Has
  <2> QED
    BY <2>1, <2>2
<1>6. ASSUME NEW read \in {"mode", "payload", "args"}, td[1] # read
      PROVE  Has(td, read) <=> \E j \in 2..n : td[j] = read
  <2>1. \A j \in 1..n : j = 1 \/ j \in 2..n
    BY <1>1
  <2> QED
    BY <1>n, <1>6, <2>1 DEF Has
<1> QED
  BY <1>3, <1>4, <1>5, <1>6 DEF u

(* Spending conditions written alike have one hash mode. *)
LEMMA SameSpending ==
  ASSUME NEW s, NEW z, IsSpending(s), IsSpending(z), SpendingLayout(s) = SpendingLayout(z)
  PROVE  s.hashMode = z.hashMode
<1>1. PICK x : Splits(0, "hashMode", SpendingLayout(s), s.hashMode, x)
  BY SpendingSplits
<1>2. PICK y : Splits(0, "hashMode", SpendingLayout(z), z.hashMode, y)
  BY SpendingSplits
<1>3. s.hashMode \in Nat /\ z.hashMode \in Nat /\ x \in Seq(Fields) /\ y \in Seq(Fields)
  BY <1>1, <1>2 DEF Splits
<1>4. SpendingLayout(s) = <<Byte(s.hashMode)>> \o x /\ SpendingLayout(z) = <<Byte(z.hashMode)>> \o y
  BY <1>1, <1>2 DEF Splits
<1>5. ASSUME NEW b \in Nat, NEW w \in Seq(Fields) PROVE (<<Byte(b)>> \o w)[1] = Byte(b)
  <2>1. <<Byte(b)>> \in Seq(Fields) /\ Len(<<Byte(b)>>) = 1 /\ <<Byte(b)>>[1] = Byte(b)
    BY FieldTypes
  <2>2. Len(w) \in Nat
    OBVIOUS
  <2>3. 1 \in 1..(1 + Len(w)) /\ 1 <= 1
    BY <2>2
  <2> DEFINE x1 == <<Byte(b)>>
  <2> HIDE DEF x1
  <2>4. \A i \in 1..(Len(x1) + Len(w)) : (x1 \o w)[i] = IF i <= Len(x1) THEN x1[i] ELSE w[i - Len(x1)]
    BY <2>1, ConcatProperties DEF x1
  <2> QED
    BY <2>1, <2>3, <2>4 DEF x1
<1>6. Byte(s.hashMode) = Byte(z.hashMode)
  <2>1. (<<Byte(s.hashMode)>> \o x)[1] = Byte(s.hashMode)
    BY <1>3, <1>5
  <2>2. (<<Byte(z.hashMode)>> \o y)[1] = Byte(z.hashMode)
    BY <1>3, <1>5
  <2>3. <<Byte(s.hashMode)>> \o x = <<Byte(z.hashMode)>> \o y
    BY <1>4
  <2> QED
    BY <2>1, <2>2, <2>3
<1>7. \A b : Byte(b).value[1] = b
  BY DEF Byte, Num, Field
<1> QED
  BY <1>6, <1>7

(* What is still to be read of the mode, the payload and the arguments is what was sent of them. *)
LEMMA PendingKept ==
  ASSUME IsTx(tx), NEW cs, NEW target, Reads(tx, buf, pos, out, todo, cs, target), todo # <<>>,
         NEW then, NEW gs, ReadOf(cs, target, then, gs), Pending(tx, todo, cs)
  PROVE  Pending(tx, then \o Tail(todo), gs \o Tail(cs))
<1> DEFINE u == then \o Tail(todo)
           v == gs \o Tail(cs)
           m == Len(then)
           n == Len(todo)
<1>1. todo \in Seq(ReadNames) /\ cs \in Seq(Seq(Fields)) /\ Len(cs) = Len(todo)
  <2>1. AllFit(tx, todo, cs)
    BY DEF Reads
  <2> QED
    BY <2>1 DEF AllFit
<1>2. then \in Seq(ReadNames) /\ gs \in Seq(Seq(Fields)) /\ Len(gs) = m
  <2>1. AllFit(tx, then, gs)
    BY DEF ReadOf, ReadStep
  <2> QED
    BY <2>1 DEF AllFit
<1>3. /\ \A i \in 1..m : i \in 1..Len(u) /\ u[i] = then[i]
      /\ \A j \in 2..n : m + j - 1 \in 1..Len(u) /\ u[m + j - 1] = todo[j]
      /\ m \in Nat /\ n \in Nat \ {0}
  BY <1>1, <1>2, Spliced
<1>4. cs # <<>>
  BY <1>1, <1>3
<1>5. /\ \A i \in 1..Len(gs) : v[i] = gs[i]
      /\ \A j \in 2..Len(cs) : v[Len(gs) + j - 1] = cs[j]
  <2>1. cs \in Seq(Seq(Fields)) /\ gs \in Seq(Seq(Fields)) /\ cs # <<>>
    BY <1>1, <1>2, <1>4
  <2>2. /\ \A i \in 1..Len(gs) : i \in 1..Len(v) /\ v[i] = gs[i]
        /\ \A j \in 2..Len(cs) : Len(gs) + j - 1 \in 1..Len(v) /\ v[Len(gs) + j - 1] = cs[j]
    BY <2>1, Spliced
  <2> QED
    BY <2>2
<1>6. /\ \A i \in 1..m : v[i] = gs[i]
      /\ \A j \in 2..n : v[m + j - 1] = cs[j]
  BY <1>1, <1>2, <1>5
<1>7. Next1 = todo[1] /\ 1 \in 1..n
  BY <1>3, HeadFits
<1> HIDE DEF u, v, m, n
<1> SUFFICES ASSUME NEW k \in DOMAIN tx.auth, tx.auth[k].hashMode \notin 0..3
             PROVE  \E i \in 1..Len(u) : \/ u[i] = "authType"
                                         \/ u[i] = "hashMode" /\ v[i] = SpendingLayout(tx.auth[k])
  BY DEF Pending, u, v
<1>8. PICK i \in 1..n : \/ todo[i] = "authType"
                        \/ todo[i] = "hashMode" /\ cs[i] = SpendingLayout(tx.auth[k])
  BY DEF Pending, n
<1>9. CASE i # 1
  <2>1. i \in 2..n
    BY <1>3, <1>9
  <2>2. m + i - 1 \in 1..Len(u) /\ u[m + i - 1] = todo[i] /\ v[m + i - 1] = cs[i]
    BY <1>3, <1>6, <2>1
  <2> QED
    BY <1>8, <2>2
<1>10. CASE i = 1 /\ todo[1] = "authType"
  <2>1. gs = AuthFields(tx) /\ \A j \in 1..m : then[j] = "hashMode"
    BY <1>7, <1>10 DEF ReadOf, m
  <2>2. DOMAIN tx.auth = 1..Len(tx.auth) /\ Len(tx.auth) \in Nat
    BY DEF IsTx
  <2>3. DOMAIN gs = DOMAIN tx.auth /\ gs[k] = SpendingLayout(tx.auth[k])
    BY <2>1 DEF AuthFields
  <2>4. k \in 1..m
    <3>1. DOMAIN gs = 1..Len(gs)
      BY <1>2
    <3> QED
      BY <1>2, <2>3, <3>1
  <2>5. k \in 1..Len(u) /\ u[k] = "hashMode" /\ v[k] = SpendingLayout(tx.auth[k])
    BY <1>3, <1>6, <2>1, <2>3, <2>4
  <2> QED
    BY <2>5
<1>11. CASE i = 1 /\ todo[1] = "hashMode" /\ cs[1] = SpendingLayout(tx.auth[k])
  <2>1. PICK j \in DOMAIN tx.auth : cs[1] = SpendingLayout(tx.auth[j]) /\ tx.auth[j].hashMode \in 0..3
    BY <1>7, <1>11 DEF ReadOf
  <2>2. IsSpending(tx.auth[j]) /\ IsSpending(tx.auth[k])
    BY DEF IsTx
  <2>3. tx.auth[j].hashMode = tx.auth[k].hashMode
    BY <1>11, <2>1, <2>2, SameSpending
  <2> QED
    BY <2>1, <2>3
<1> QED
  BY <1>8, <1>9, <1>10, <1>11

-----------------------------------------------------------------------------
(***************************************************************************)
(* A transaction, read from its start.                                     *)
(***************************************************************************)
Sent(t) == <<t.mode>> \o Bytes(ConditionsLayout(t.conditions))

LEMMA ConditionsType ==
  ASSUME NEW t, IsTx(t)
  PROVE  ConditionsLayout(t.conditions) \in Seq(Fields)
<1>1. "conditions" \in DOMAIN Repeated
  BY DEF Repeated
<1>2. Fits(t, "conditions", ConditionsLayout(t.conditions))
  BY DEF Fits, EnumFits, CountFits, FieldFits, BufferWidth
<1>3. PICK n, gs :
        /\ n \in 0..Numerals(3) - 1
        /\ gs \in Seq(Seq(Fields)) /\ ConditionsLayout(t.conditions) = <<Num("u32", n)>> \o FlattenSeq(gs)
  BY <1>1, <1>2, CountSplits
<1>4. <<Num("u32", n)>> \in Seq(Fields) /\ FlattenSeq(gs) \in Seq(Fields)
  BY <1>3, CountRead, FlattenType
<1> HIDE DEF Num
<1> QED
  BY <1>3, <1>4, ConcatProperties

(* A transaction is put together of the fields of its first reads, *)
LEMMA LayoutParts ==
  ASSUME NEW t, IsTx(t)
  PROVE  LET a == Byte(IF Len(t.auth) = 2 THEN 5 ELSE 4)
             fa == FlattenSeq(AuthFields(t))
         IN
         /\ <<Byte(t.version)>> \in Seq(Fields) /\ <<Num("u32", 1)>> \in Seq(Fields) /\ <<a>> \o fa \in Seq(Fields)
         /\ <<Byte(3)>> \in Seq(Fields) /\ <<Byte(t.mode)>> \in Seq(Fields)
         /\ ConditionsLayout(t.conditions) \in Seq(Fields) /\ PayloadLayout(t.payload) \in Seq(Fields)
         /\ Layout(t) =
              <<Byte(t.version)>> \o (<<Num("u32", 1)>> \o ((<<a>> \o fa) \o (<<Byte(3)>> \o (<<Byte(t.mode)>> \o
                (ConditionsLayout(t.conditions) \o PayloadLayout(t.payload))))))
<1> DEFINE v == <<Byte(t.version)>>
           o == <<Num("u32", 1)>>
           b == IF Len(t.auth) = 2 THEN 5 ELSE 4
           a == <<Byte(b)>>
           fa == FlattenSeq(AuthFields(t))
           h == <<Byte(3)>>
           m == <<Byte(t.mode)>>
           cl == ConditionsLayout(t.conditions)
           pl == PayloadLayout(t.payload)
           x == <<Byte(t.version), Num("u32", 1), Byte(b)>>
           z == <<Byte(3), Byte(t.mode)>>
<1>1. t.version \in Nat /\ t.mode \in Nat /\ b \in Nat /\ IsPayload(t.payload)
  BY DEF IsTx
<1>2. v \in Seq(Fields) /\ o \in Seq(Fields) /\ a \in Seq(Fields) /\ h \in Seq(Fields) /\ m \in Seq(Fields)
  <2> HIDE DEF b
  <2> QED
    BY <1>1, FieldTypes
<1>3. fa \in Seq(Fields)
  BY AuthSplits, FlattenType
<1>4. cl \in Seq(Fields) /\ pl \in Seq(Fields)
  BY <1>1, ConditionsType, PayloadSplits
<1>5. Layout(t) = (((x \o fa) \o z) \o cl) \o pl
  BY DEF Layout, AuthFields
<1>6. x = v \o (o \o a) /\ z = h \o m
  BY Listed
<1> HIDE DEF v, o, b, a, fa, h, m, cl, pl, x, z
<1>7. Associates(Fields)
  BY ConcatAssociates
<1>8. o \o a \in Seq(Fields) /\ a \o fa \in Seq(Fields)
  BY <1>2, <1>3, ConcatProperties
<1>9. x \in Seq(Fields) /\ z \in Seq(Fields)
  <2>1. v \o (o \o a) \in Seq(Fields)
    BY <1>2, <1>8, ConcatProperties
  <2>2. h \o m \in Seq(Fields)
    BY <1>2, ConcatProperties
  <2> QED
    BY <1>6, <2>1, <2>2
<1> DEFINE s == cl \o pl
           xf == x \o fa
           ms == m \o s
           r == h \o ms
           w == fa \o r
<1>10. s \in Seq(Fields) /\ xf \in Seq(Fields)
  BY <1>3, <1>4, <1>9, ConcatProperties
<1>11. ms \in Seq(Fields)
  <2> HIDE DEF s
  <2> QED
    BY <1>2, <1>10, ConcatProperties
<1>12. r \in Seq(Fields)
  <2> HIDE DEF ms
  <2> QED
    BY <1>2, <1>11, ConcatProperties
<1>13. w \in Seq(Fields)
  <2> HIDE DEF r
  <2> QED
    BY <1>3, <1>12, ConcatProperties
<1>14. ((xf \o z) \o cl) \o pl = (xf \o z) \o s
  <2> DEFINE y == xf \o z
  <2>1. y \in Seq(Fields)
    <3> HIDE DEF xf
    <3> QED
      BY <1>9, <1>10, ConcatProperties
  <2> HIDE DEF y
  <2>2. Joins(y, cl, pl)
    BY <1>4, <1>7, <2>1 DEF Associates
  <2> QED
    BY <2>2 DEF Joins, s
<1> HIDE DEF s
<1>15. (xf \o z) \o s = xf \o (z \o s)
  <2> HIDE DEF xf
  <2>1. Joins(xf, z, s)
    BY <1>7, <1>9, <1>10 DEF Associates
  <2> QED
    BY <2>1 DEF Joins
<1>16. z \o s = r
  <2>1. Joins(h, m, s)
    BY <1>2, <1>7, <1>10 DEF Associates
  <2> QED
    BY <1>6, <2>1 DEF Joins
<1> HIDE DEF ms, r
<1>17. (x \o fa) \o r = x \o w
  <2>1. Joins(x, fa, r)
    BY <1>3, <1>7, <1>9, <1>12 DEF Associates
  <2> QED
    BY <2>1 DEF Joins
<1> HIDE DEF xf, w
<1>18. (v \o (o \o a)) \o w = v \o (o \o (a \o w))
  <2>1. Joins(o, a, w)
    BY <1>2, <1>7, <1>13 DEF Associates
  <2> DEFINE oa == o \o a
  <2>2. oa \in Seq(Fields)
    BY <1>8
  <2> HIDE DEF oa
  <2>3. Joins(v, oa, w)
    BY <1>2, <1>7, <1>13, <2>2 DEF Associates
  <2> QED
    BY <2>1, <2>3 DEF Joins, oa
<1>19. a \o (fa \o r) = (a \o fa) \o r
  <2>1. Joins(a, fa, r)
    BY <1>2, <1>3, <1>7, <1>12 DEF Associates
  <2> QED
    BY <2>1 DEF Joins
<1>20. Layout(t) = v \o (o \o ((a \o fa) \o r))
  BY <1>5, <1>6, <1>14, <1>15, <1>16, <1>17, <1>18, <1>19 DEF xf, w
<1> QED
  BY <1>2, <1>4, <1>8, <1>20 DEF r, ms, s, v, o, b, a, fa, h, m, cl, pl

(* which those reads fit, *)
LEMMA LayoutFits ==
  ASSUME NEW t, IsTx(t)
  PROVE  \E cs : AllFit(t, ReadTransaction, cs) /\ FlattenSeq(cs) = Layout(t)
<1> DEFINE v == <<Byte(t.version)>>
           o == <<Num("u32", 1)>>
           a == <<Byte(IF Len(t.auth) = 2 THEN 5 ELSE 4)>> \o FlattenSeq(AuthFields(t))
           h == <<Byte(3)>>
           m == <<Byte(t.mode)>>
           cl == ConditionsLayout(t.conditions)
           pl == PayloadLayout(t.payload)
           r == ReadTransaction
<1>1. /\ v \in Seq(Fields) /\ o \in Seq(Fields) /\ a \in Seq(Fields) /\ h \in Seq(Fields) /\ m \in Seq(Fields)
      /\ cl \in Seq(Fields) /\ pl \in Seq(Fields)
      /\ Layout(t) = v \o (o \o (a \o (h \o (m \o (cl \o pl)))))
  BY LayoutParts
<1>2. /\ r \in Seq(ReadNames) /\ Len(r) = 7
      /\ r[1] = "version" /\ r[2] = "u32" /\ r[3] = "authType" /\ r[4] = "anchorMode" /\ r[5] = "mode"
      /\ r[6] = "conditions" /\ r[7] = "payload"
  <2>1. /\ "version" \in ReadNames /\ "u32" \in ReadNames /\ "authType" \in ReadNames /\ "anchorMode" \in ReadNames
        /\ "mode" \in ReadNames /\ "conditions" \in ReadNames /\ "payload" \in ReadNames
    BY DEF ReadNames
  <2>2. <<"version", "u32", "authType", "anchorMode", "mode", "conditions", "payload">> \in Seq(ReadNames)
    BY <2>1
  <2>3. /\ Len(r) = 7 /\ r[1] = "version" /\ r[2] = "u32" /\ r[3] = "authType" /\ r[4] = "anchorMode" /\ r[5] = "mode"
        /\ r[6] = "conditions" /\ r[7] = "payload"
    BY DEF ReadTransaction
  <2>4. r \in Seq(ReadNames)
    BY <2>2 DEF ReadTransaction
  <2> HIDE DEF r
  <2> QED
    BY <2>3, <2>4
<1>3. Fits(t, "version", v)
  BY DEF Fits, EnumFits, CountFits, FieldFits, BufferWidth, IsTx
<1>4. Fits(t, "u32", o)
  <2>1. 1 \in 0..Numerals(3) - 1
    <3>1. /\ Numerals(1) \in Nat \ {0} /\ Numerals(2) \in Nat \ {0} /\ Digit \in Nat /\ Digit >= 2
          /\ Numerals(2 + 1) = Numerals(2) * Digit
      BY NumeralsAre, WireAssumption
    <3>2. Numerals(2) * Digit >= 2
      BY <3>1
    <3>3. 2 + 1 = 3
      OBVIOUS
    <3> QED
      BY <3>1, <3>2, <3>3
  <2>2. 1 \in 0..Numerals(Width("u32")) - 1
    BY <2>1, Widths
  <2> QED
    BY <2>2 DEF Fits, EnumFits, CountFits, FieldFits, BufferWidth
<1>5. Fits(t, "authType", a)
  BY DEF Fits, EnumFits, CountFits, FieldFits, BufferWidth, AuthFields
<1>6. Fits(t, "anchorMode", h)
  BY DEF Fits, EnumFits, CountFits, FieldFits, BufferWidth
<1>7. Fits(t, "mode", m)
  BY DEF Fits, EnumFits, CountFits, FieldFits, BufferWidth
<1>8. Fits(t, "conditions", cl)
  BY DEF Fits, EnumFits, CountFits, FieldFits, BufferWidth
<1>9. Fits(t, "payload", pl)
  BY DEF Fits, EnumFits, CountFits, FieldFits, BufferWidth
<1> HIDE DEF v, o, a, h, m, cl, pl, r
<1>10. Takes(t, r, 7, pl)
  <2>1. 7 \in 1..Len(r) /\ 7 = Len(r) /\ Fits(t, r[7], pl)
    BY <1>2, <1>9
  <2> QED
    BY <1>1, <1>2, <2>1, TakesLast
<1>11. cl \o pl \in Seq(Fields) /\ Takes(t, r, 6, cl \o pl)
  <2>1. 6 \in 1..Len(r) /\ Takes(t, r, 6 + 1, pl) /\ Fits(t, r[6], cl)
    BY <1>2, <1>8, <1>10
  <2>2. r \in Seq(ReadNames) /\ cl \in Seq(Fields)
    BY <1>1, <1>2
  <2>3. Takes(t, r, 6, cl \o pl)
    BY <2>1, <2>2, TakesMore
  <2> QED
    BY <1>1, <2>3, ConcatProperties
<1> DEFINE s6 == cl \o pl
           s5 == m \o s6
           s4 == h \o s5
           s3 == a \o s4
           s2 == o \o s3
<1> HIDE DEF s6
<1>12. Takes(t, r, 5, s5)
  <2>1. 5 \in 1..Len(r) /\ Takes(t, r, 5 + 1, s6) /\ Fits(t, r[5], m) /\ r \in Seq(ReadNames) /\ m \in Seq(Fields)
    BY <1>1, <1>2, <1>7, <1>11 DEF s6
  <2> QED
    BY <2>1, TakesMore
<1> HIDE DEF s5
<1>13. Takes(t, r, 4, s4)
  <2>1. 4 \in 1..Len(r) /\ Takes(t, r, 4 + 1, s5) /\ Fits(t, r[4], h) /\ r \in Seq(ReadNames) /\ h \in Seq(Fields)
    BY <1>1, <1>2, <1>6, <1>12
  <2> QED
    BY <2>1, TakesMore
<1> HIDE DEF s4
<1>14. Takes(t, r, 3, s3)
  <2>1. 3 \in 1..Len(r) /\ Takes(t, r, 3 + 1, s4) /\ Fits(t, r[3], a) /\ r \in Seq(ReadNames) /\ a \in Seq(Fields)
    BY <1>1, <1>2, <1>5, <1>13
  <2> QED
    BY <2>1, TakesMore
<1> HIDE DEF s3
<1>15. Takes(t, r, 2, s2)
  <2>1. 2 \in 1..Len(r) /\ Takes(t, r, 2 + 1, s3) /\ Fits(t, r[2], o) /\ r \in Seq(ReadNames) /\ o \in Seq(Fields)
    BY <1>1, <1>2, <1>4, <1>14
  <2> QED
    BY <2>1, TakesMore
<1> HIDE DEF s2
<1>16. Takes(t, r, 1, v \o s2)
  <2>1. 1 \in 1..Len(r) /\ Takes(t, r, 1 + 1, s2) /\ Fits(t, r[1], v) /\ r \in Seq(ReadNames) /\ v \in Seq(Fields)
    BY <1>1, <1>2, <1>3, <1>15
  <2> QED
    BY <2>1, TakesMore
<1>17. Layout(t) = v \o s2
  BY <1>1 DEF s2, s3, s4, s5, s6
<1> QED
  BY <1>16, <1>17, TakesFit DEF r

(* The row that the read of the payload makes, the arguments once they are read. *)
RowSoFar(t, td) ==
  [typeId |-> t.payload.typeId, conditions |-> Sent(t),
   args |-> IF t.payload.typeId # 2 \/ Has(td, "args") THEN <<>> ELSE RawArgs(t.payload.args)]

RowOf(t) ==
  [typeId |-> t.payload.typeId, conditions |-> Sent(t),
   args |-> IF t.payload.typeId # 2 THEN <<>> ELSE RawArgs(t.payload.args)]

(* The reader is in the transaction t, and what is left to be read fits cs. *)
Decoding(t, b, p, f, o, td, w, cs) ==
  /\ Reads(t, b, p, o, td, cs, Values(Layout(t)))
  /\ PayloadLast(td) /\ ModeThen(td) /\ Pending(t, td, cs)
  /\ Has(td, "payload") /\ ~Has(td, "mode") => Remains(b, f, Sent(t) \o Bytes(PayloadLayout(t.payload)))
  /\ ~Has(td, "payload") => t.payload.typeId \in 0..4 /\ w = RowSoFar(t, td)

(* so the invariant of the reader holds when it starts, *)
LEMMA ReadsStart ==
  ASSUME NEW t, NEW r, NEW cs, AllFit(t, r, cs)
  PROVE  /\ Bytes(FlattenSeq(cs)) \in Seq(Nat)
         /\ Reads(t, Bytes(FlattenSeq(cs)), 0, <<>>, r, cs, Values(FlattenSeq(cs)))
<1> DEFINE fs == FlattenSeq(cs)
           b == Bytes(fs)
<1>1. cs \in Seq(Seq(Fields))
  BY DEF AllFit
<1>2. fs \in Seq(Fields)
  BY <1>1, FlattenType
<1> HIDE DEF fs
<1>3. b \in Seq(Nat) /\ Len(b) \in Nat
  BY <1>2, BytesType
<1> HIDE DEF b
<1>4. Remains(b, 0, b)
  <2>1. \A k \in 1..Len(b) : 0 + k = k
    BY <1>3
  <2>2. Len(b) = 0 + Len(b)
    BY <1>3
  <2> QED
    BY <1>3, <2>1, <2>2 DEF Remains
<1>5. Values(fs) \in Seq(Seq(Int))
  BY <1>2, ValuesConcat
<1>6. <<>> \in Seq(Outs) /\ ReadValues(<<>>) = <<>>
  BY DEF ReadValues
<1>7. ReadValues(<<>>) \o Values(fs) = Values(fs)
  <2> DEFINE v == Values(fs)
  <2> HIDE DEF v
  <2>1. <<>> \o v = v
    BY <1>5, ConcatEmptySeq DEF v
  <2> QED
    BY <1>6, <2>1 DEF v
<1>8. Reads(t, b, 0, <<>>, r, cs, Values(fs))
  BY <1>4, <1>6, <1>7 DEF Reads, fs, b
<1> QED
  BY <1>3, <1>8 DEF b, fs

(* and so does that of a transaction when it is announced. *)
LEMMA DecodeStart ==
  ASSUME WireInit, IsTx(tx)
  PROVE  \E cs : Decoding(tx, buf, pos, from, out, todo, row, cs)
<1>1. /\ buf = Serialized(tx) /\ pos = 0 /\ todo = ReadTransaction /\ out = <<>>
  BY DEF WireInit
<1>2. PICK cs : AllFit(tx, ReadTransaction, cs) /\ FlattenSeq(cs) = Layout(tx)
  BY LayoutFits
<1>3. Serialized(tx) = Bytes(Layout(tx))
  BY DEF Serialized, Bytes
<1>4. Reads(tx, Serialized(tx), 0, <<>>, ReadTransaction, cs, Values(Layout(tx)))
  BY <1>2, <1>3, ReadsStart
<1> DEFINE r == ReadTransaction
<1>5. /\ Len(r) = 7 /\ r[1] = "version" /\ r[2] = "u32" /\ r[3] = "authType" /\ r[4] = "anchorMode" /\ r[5] = "mode"
      /\ r[6] = "conditions" /\ r[7] = "payload"
  BY DEF ReadTransaction
<1> HIDE DEF r
<1>6. \A i \in 1..7 : i = 1 \/ i = 2 \/ i = 3 \/ i = 4 \/ i = 5 \/ i = 6 \/ i = 7
  OBVIOUS
<1>7. PayloadLast(r)
  BY <1>5, <1>6 DEF PayloadLast
<1>8. ModeThen(r)
  BY <1>5, <1>6 DEF ModeThen
<1>9. Has(r, "mode") /\ Has(r, "payload")
  BY <1>5 DEF Has
<1>10. Pending(tx, r, cs)
  <2>1. 3 \in 1..Len(r) /\ r[3] = "authType"
    BY <1>5
  <2> QED
    BY <2>1 DEF Pending
<1>11. Decoding(tx, Serialized(tx), 0, from, <<>>, r, row, cs)
  BY <1>4, <1>7, <1>8, <1>9, <1>10 DEF Decoding, r
<1> QED
  BY <1>1, <1>11 DEF r

(* The copy that starts with the mode and ends before the payload. *)
LEMMA SliceOfConditions ==
  ASSUME NEW b, NEW f, NEW p, NEW s \in Seq(Nat), NEW y \in Seq(Nat), Remains(b, f, s \o y), Remains(b, p, y)
  PROVE  SubSeq(b, f + 1, p) = s
<1>1. Remains(b, f + Len(s), y) /\ SubSeq(b, f + 1, f + Len(s)) = s
  BY RemainsSplit
<1>2. Len(b) = f + Len(s) + Len(y) /\ Len(b) = p + Len(y) /\ f \in Nat /\ p \in Nat
  <2>1. \A q, z : Remains(b, q, z) => q \in Nat /\ Len(b) = q + Len(z)
    BY DEF Remains
  <2>2. f \in Nat
    BY <2>1
  <2>3. p \in Nat /\ Len(b) = p + Len(y)
    BY <2>1
  <2>4. Len(b) = f + Len(s) + Len(y)
    BY <1>1, <2>1
  <2> QED
    BY <2>2, <2>3, <2>4
<1>3. Len(s) \in Nat /\ Len(y) \in Nat
  OBVIOUS
<1>4. p = f + Len(s)
  BY <1>2, <1>3
<1> QED
  BY <1>1, <1>4

(* The last read fits all that is left. *)
LEMMA LastFits ==
  ASSUME NEW t, NEW td, NEW cs, AllFit(t, td, cs), Len(td) = 1
  PROVE  cs[1] \in Seq(Fields) /\ FlattenSeq(cs) = cs[1] /\ Tail(td) = <<>> /\ Tail(cs) = <<>>
<1>1. td \in Seq(ReadNames) /\ cs \in Seq(Seq(Fields)) /\ Len(cs) = 1 /\ td # <<>>
  <2>1. td \in Seq(ReadNames) /\ cs \in Seq(Seq(Fields)) /\ Len(cs) = Len(td)
    BY DEF AllFit
  <2>2. td # <<>>
    OBVIOUS
  <2> QED
    BY <2>1, <2>2
<1>2. cs[1] \in Seq(Fields) /\ 1 \in 1..Len(cs)
  BY <1>1
<1>3. cs = <<cs[1]>>
  <2> DEFINE y == <<cs[1]>>
  <2>1. y \in Seq(Seq(Fields)) /\ Len(y) = 1 /\ y[1] = cs[1]
    BY <1>2, Tuples
  <2> HIDE DEF y
  <2>2. \A i \in 1..1 : cs[i] = y[i]
    BY <2>1
  <2>3. cs = y
    BY <1>1, <2>1, <2>2, SeqEqual
  <2> QED
    BY <2>3 DEF y
<1>4. FlattenSeq(<<cs[1]>>) = cs[1]
  BY <1>2, FlattenOne
<1>5. Tail(td) = <<>> /\ Tail(cs) = <<>>
  <2>1. Len(Tail(td)) = 0 /\ Tail(td) \in Seq(ReadNames)
    BY <1>1, HeadTailProperties
  <2>2. Len(Tail(cs)) = 0 /\ Tail(cs) \in Seq(Seq(Fields))
    <3>1. cs # <<>>
      BY <1>1
    <3> QED
      BY <1>1, <3>1, HeadTailProperties
  <2> QED
    BY <2>1, <2>2, EmptySeq
<1> QED
  BY <1>2, <1>3, <1>4, <1>5

(* When the type of the payload is read, the copy of the post conditions ends where they end. *)
LEMMA PayloadRead ==
  ASSUME IsTx(tx), NEW cs, Decoding(tx, buf, pos, from, out, todo, row, cs), todo # <<>>, Next1 = "payload",
         NEW then, NEW gs, ReadOf(cs, Values(Layout(tx)), then, gs)
  PROVE  LET u == then \o Tail(todo) IN
         /\ PayloadLast(u) /\ ModeThen(u) /\ ~Has(u, "payload")
         /\ tx.payload.typeId \in 0..4 /\ row' = RowSoFar(tx, u)
<1> DEFINE u == then \o Tail(todo)
           pl == PayloadLayout(tx.payload)
<1>1. AllFit(tx, todo, cs) /\ Remains(buf, pos, Bytes(FlattenSeq(cs))) /\ PayloadLast(todo)
  BY DEF Decoding, Reads
<1>2. Next1 = todo[1] /\ Fits(tx, Next1, cs[1])
  BY HeadFits DEF Decoding
<1>3. todo \in Seq(ReadNames) /\ Len(todo) = 1
  <2>1. todo \in Seq(ReadNames)
    BY <1>1 DEF AllFit
  <2>2. 1 \in 1..Len(todo)
    BY <2>1, EmptySeq
  <2> QED
    BY <1>1, <1>2, <2>1, <2>2 DEF PayloadLast
<1>4. cs[1] = pl
  BY <1>2 DEF Fits, EnumFits
<1>5. FlattenSeq(cs) = pl /\ Tail(todo) = <<>> /\ pl \in Seq(Fields)
  BY <1>1, <1>3, <1>4, LastFits
<1>6. then \in Seq(ReadNames)
  BY DEF ReadOf, ReadStep, AllFit
<1>7. u = then
  BY <1>5, <1>6, ConcatEmptySeq
<1>8. Has(todo, "payload") /\ ~Has(todo, "mode")
  <2>1. \A i \in 1..1 : i = 1
    OBVIOUS
  <2>2. \A i \in 1..Len(todo) : todo[i] = "payload"
    BY <1>2, <1>3, <2>1
  <2>3. 1 \in 1..Len(todo)
    BY <1>3
  <2> QED
    BY <2>2, <2>3 DEF Has
<1>9. RawPostConditions = Sent(tx)
  <2> DEFINE s == Sent(tx)
             y == Bytes(pl)
  <2>1. Remains(buf, from, s \o y) /\ Remains(buf, pos, y)
    BY <1>1, <1>5, <1>8 DEF Decoding
  <2>2. y \in Seq(Nat)
    BY <1>5, BytesType
  <2>3. s \in Seq(Nat)
    <3> DEFINE c == Bytes(ConditionsLayout(tx.conditions))
    <3>1. tx.mode \in Nat
      BY DEF IsTx
    <3>2. c \in Seq(Nat)
      BY ConditionsType, BytesType
    <3> HIDE DEF c
    <3>3. <<tx.mode>> \in Seq(Nat)
      BY <3>1
    <3>4. <<tx.mode>> \o c \in Seq(Nat)
      BY <3>2, <3>3, ConcatProperties
    <3> QED
      BY <3>4 DEF Sent, c
  <2> HIDE DEF s, y
  <2>4. SubSeq(buf, from + 1, pos) = s
    BY <2>1, <2>2, <2>3, SliceOfConditions
  <2> QED
    BY <2>4 DEF s, RawPostConditions
<1>10. row' = [typeId |-> tx.payload.typeId, conditions |-> Sent(tx), args |-> <<>>] /\ tx.payload.typeId \in 0..4
  BY <1>9 DEF ReadOf
<1>11. CASE tx.payload.typeId # 2
  <2>1. NonePlaced(then)
    BY <1>11 DEF ReadOf
  <2>2. PayloadLast(then) /\ ModeThen(then) /\ ~Has(then, "payload")
    BY <2>1 DEF NonePlaced, Placed, PayloadLast, ModeThen, Has
  <2>3. row' = RowSoFar(tx, then)
    BY <1>10, <1>11 DEF RowSoFar
  <2> HIDE DEF u
  <2> QED
    BY <1>7, <1>10, <2>2, <2>3 DEF u
<1>12. CASE tx.payload.typeId = 2
  <2>1. then = <<"u8", "hash", "name", "name", "args">>
    BY <1>12 DEF ReadOf
  <2>2. /\ Len(then) = 5 /\ then[1] = "u8" /\ then[2] = "hash" /\ then[3] = "name" /\ then[4] = "name"
        /\ then[5] = "args"
    BY <2>1
  <2>3. \A i \in 1..5 : i = 1 \/ i = 2 \/ i = 3 \/ i = 4 \/ i = 5
    OBVIOUS
  <2>4. PayloadLast(then)
    BY <2>2, <2>3 DEF PayloadLast
  <2>5. ModeThen(then)
    BY <2>2, <2>3 DEF ModeThen
  <2>6. ~Has(then, "payload") /\ Has(then, "args")
    BY <2>2, <2>3 DEF Has
  <2>7. row' = RowSoFar(tx, then)
    BY <1>10, <2>6 DEF RowSoFar
  <2> HIDE DEF u
  <2> QED
    BY <1>7, <1>10, <2>4, <2>5, <2>6, <2>7 DEF u
<1> QED
  BY <1>11, <1>12

(* Where the post conditions start. *)
LEMMA ModeRead ==
  ASSUME IsTx(tx), NEW cs, Decoding(tx, buf, pos, from, out, todo, row, cs), todo # <<>>, Next1 = "mode"
  PROVE  /\ Remains(buf, pos, Sent(tx) \o Bytes(PayloadLayout(tx.payload)))
         /\ \E j \in 2..Len(todo) : todo[j] = "payload"
<1> DEFINE c1 == <<Byte(tx.mode)>>
           c2 == ConditionsLayout(tx.conditions)
           c3 == PayloadLayout(tx.payload)
<1>1. AllFit(tx, todo, cs) /\ Remains(buf, pos, Bytes(FlattenSeq(cs))) /\ ModeThen(todo)
  BY DEF Decoding, Reads
<1>2. /\ todo \in Seq(ReadNames) /\ cs \in Seq(Seq(Fields)) /\ Len(cs) = Len(todo)
      /\ \A i \in 1..Len(todo) : Fits(tx, todo[i], cs[i])
  BY <1>1 DEF AllFit
<1>3. Next1 = todo[1]
  BY HeadFits DEF Decoding
<1>4. Len(todo) = 3 /\ todo[2] = "conditions" /\ todo[3] = "payload"
  <2>1. 1 \in 1..Len(todo)
    BY <1>2, EmptySeq
  <2>2. 1 + 2 = 3 /\ 1 + 1 = 2
    OBVIOUS
  <2> QED
    BY <1>1, <1>3, <2>1, <2>2 DEF ModeThen
<1>5. Fits(tx, "mode", cs[1]) /\ Fits(tx, "conditions", cs[2]) /\ Fits(tx, "payload", cs[3])
  <2>1. 1 \in 1..Len(todo) /\ 2 \in 1..Len(todo) /\ 3 \in 1..Len(todo)
    BY <1>4
  <2> QED
    BY <1>2, <1>3, <1>4, <2>1
<1>6. cs[1] = c1 /\ cs[2] = c2 /\ cs[3] = c3
  BY <1>5 DEF Fits, EnumFits, CountFits
<1>7. tx.mode \in Nat /\ c1 \in Seq(Fields) /\ Bytes(c1) = <<tx.mode>>
  <2>1. tx.mode \in Nat
    BY DEF IsTx
  <2> QED
    BY <2>1, ByteRead
<1>8. c2 \in Seq(Fields) /\ c3 \in Seq(Fields)
  <2>1. IsPayload(tx.payload)
    BY DEF IsTx
  <2> QED
    BY <2>1, ConditionsType, PayloadSplits
<1> HIDE DEF c1, c2, c3
<1>9. cs = <<c1>> \o <<c2, c3>> /\ <<c2, c3>> \in Seq(Seq(Fields)) /\ <<c2, c3>> = <<c2>> \o <<c3>>
  <2> DEFINE y == <<c1, c2, c3>>
  <2>1. y \in Seq(Seq(Fields)) /\ Len(y) = 3 /\ y[1] = c1 /\ y[2] = c2 /\ y[3] = c3
    <3>1. c1 \in Seq(Fields) /\ c2 \in Seq(Fields) /\ c3 \in Seq(Fields)
      BY <1>7, <1>8
    <3>2. y \in Seq(Seq(Fields))
      BY <3>1
    <3> QED
      BY <3>2
  <2>2. y = <<c1>> \o <<c2, c3>> /\ <<c2, c3>> = <<c2>> \o <<c3>>
    <3>1. <<c2, c3>> = <<c2>> \o <<c3>>
      BY Listed
    <3>2. \A a, b, c : <<a, b, c>> = <<a>> \o (<<b>> \o <<c>>)
      BY Listed
    <3>3. <<c1, c2, c3>> = <<c1>> \o (<<c2>> \o <<c3>>)
      BY <3>2, Zenon
    <3> QED
      BY <3>1, <3>3
  <2>3. <<c2, c3>> \in Seq(Seq(Fields))
    BY <1>8
  <2> HIDE DEF y
  <2>4. \A i \in 1..3 : i = 1 \/ i = 2 \/ i = 3
    OBVIOUS
  <2>5. \A i \in 1..3 : cs[i] = y[i]
    BY <1>6, <2>1, <2>4
  <2>6. cs = y
    <3>1. cs \in Seq(Seq(Fields)) /\ Len(cs) = 3
      BY <1>2, <1>4
    <3>2. Len(cs) = Len(y) /\ \A i \in 1..Len(cs) : cs[i] = y[i]
      BY <2>1, <2>5, <3>1
    <3> QED
      BY <2>1, <3>1, <3>2, SeqEqual
  <2> QED
    BY <2>2, <2>3, <2>6
<1>10. FlattenSeq(cs) = c1 \o (c2 \o c3)
  <2> DEFINE y == <<c2, c3>>
  <2>1. FlattenSeq(<<c1>> \o y) = c1 \o FlattenSeq(y)
    <3>1. y \in Seq(Seq(Fields))
      BY <1>9
    <3> HIDE DEF y
    <3> QED
      BY <1>7, <3>1, FlattenCons
  <2>2. FlattenSeq(<<c2>> \o <<c3>>) = c2 \o FlattenSeq(<<c3>>)
    <3>1. <<c3>> \in Seq(Seq(Fields))
      BY <1>8, Tuples
    <3> QED
      BY <1>8, <3>1, FlattenCons
  <2>3. FlattenSeq(<<c3>>) = c3
    BY <1>8, FlattenOne
  <2> QED
    BY <1>9, <2>1, <2>2, <2>3
<1> DEFINE d == c2 \o c3
           b2 == Bytes(c2)
           b3 == Bytes(c3)
<1>11. d \in Seq(Fields)
  BY <1>8, ConcatProperties
<1>12. Bytes(d) = b2 \o b3 /\ b2 \in Seq(Nat) /\ b3 \in Seq(Nat)
  BY <1>8, BytesConcat, BytesType
<1> HIDE DEF d
<1>13. Bytes(FlattenSeq(cs)) = <<tx.mode>> \o Bytes(d)
  BY <1>7, <1>10, <1>11, BytesConcat DEF d
<1>14. <<tx.mode>> \o (b2 \o b3) = (<<tx.mode>> \o b2) \o b3
  <2> HIDE DEF b2, b3
  <2>1. <<tx.mode>> \in Seq(Nat) /\ b2 \in Seq(Nat) /\ b3 \in Seq(Nat)
    BY <1>7, <1>12
  <2> QED
    BY <2>1, Rejoined
<1>15. Remains(buf, pos, Sent(tx) \o Bytes(c3))
  BY <1>1, <1>12, <1>13, <1>14 DEF Sent, c2
<1>16. 3 \in 2..Len(todo)
  BY <1>4
<1> QED
  BY <1>4, <1>15, <1>16 DEF c3

(* One read of a transaction. *)
LEMMA DecodeStep ==
  ASSUME IsTx(tx), stage = "decode", NEW cs, Decoding(tx, buf, pos, from, out, todo, row, cs), todo # <<>>,
         NEW then, NEW gs, ReadOf(cs, Values(Layout(tx)), then, gs)
  PROVE  Decoding(tx, buf', pos', from', out', todo', row', gs \o Tail(cs))
<1> DEFINE u == then \o Tail(todo)
           target == Values(Layout(tx))
<1>1. todo' = u /\ buf' = buf /\ AllFit(tx, then, gs) /\ Reads(tx, buf', pos', out', todo', gs \o Tail(cs), target)
  BY DEF ReadOf, ReadStep
<1>2. Reads(tx, buf, pos, out, todo, cs, target) /\ PayloadLast(todo) /\ ModeThen(todo) /\ Pending(tx, todo, cs)
  BY DEF Decoding
<1>3. Pending(tx, u, gs \o Tail(cs))
  BY <1>2, PendingKept
<1>4. todo \in Seq(ReadNames) /\ then \in Seq(ReadNames)
  BY <1>1, <1>2 DEF Reads, AllFit
<1>5. Next1 = todo[1]
  BY <1>2, HeadFits
<1> HIDE DEF u, target
<1>6. CASE Next1 = "payload"
  <2>1. /\ PayloadLast(u) /\ ModeThen(u) /\ ~Has(u, "payload")
        /\ tx.payload.typeId \in 0..4 /\ row' = RowSoFar(tx, u)
    BY <1>6, PayloadRead DEF u
  <2> QED
    BY <1>1, <1>3, <2>1 DEF Decoding, target
<1>7. CASE Next1 # "payload"
  <2>1. \A i \in 1..Len(then) : then[i] \notin {"mode", "payload", "args"}
    <3>1. CASE Next1 = "authType"
      BY <3>1 DEF ReadOf
    <3>2. CASE Next1 # "authType"
      <4>1. NonePlaced(then)
        BY <1>7, <3>2 DEF ReadOf
      <4> QED
        BY <4>1 DEF NonePlaced, Placed
    <3> QED
      BY <3>1, <3>2
  <2>2. /\ PayloadLast(u) /\ ModeThen(u)
        /\ \A read \in {"mode", "payload", "args"} : Has(u, read) <=> \E j \in 2..Len(todo) : todo[j] = read
        /\ \A read \in {"mode", "payload", "args"} : todo[1] # read => (Has(u, read) <=> Has(todo, read))
    BY <1>2, <1>4, <2>1, PlacesKept DEF u
  <2>3. Has(u, "payload") <=> Has(todo, "payload")
    BY <1>5, <1>7, <2>2
  <2>4. Has(u, "payload") /\ ~Has(u, "mode") =>
          Remains(buf', from', Sent(tx) \o Bytes(PayloadLayout(tx.payload)))
    <3>1. CASE Next1 = "mode"
      <4>1. from' = pos
        BY <3>1 DEF ReadOf
      <4>2. Remains(buf, pos, Sent(tx) \o Bytes(PayloadLayout(tx.payload)))
        BY <3>1, ModeRead
      <4> QED
        BY <1>1, <4>1, <4>2
    <3>2. CASE Next1 # "mode"
      <4>1. from' = from
        BY <3>2 DEF ReadOf
      <4>2. Has(u, "mode") <=> Has(todo, "mode")
        BY <1>5, <2>2, <3>2
      <4> QED
        BY <1>1, <2>3, <4>1, <4>2 DEF Decoding
    <3> QED
      BY <3>1, <3>2
  <2>5. ~Has(u, "payload") => tx.payload.typeId \in 0..4 /\ row' = RowSoFar(tx, u)
    <3>1. SUFFICES ASSUME ~Has(u, "payload") PROVE tx.payload.typeId \in 0..4 /\ row' = RowSoFar(tx, u)
      OBVIOUS
    <3>2. tx.payload.typeId \in 0..4 /\ row = RowSoFar(tx, todo)
      BY <2>3, <3>1 DEF Decoding
    <3>3. CASE Next1 = "args"
      <4>1. Len(todo) = 1
        <5>1. 1 \in 1..Len(todo)
          BY <1>4, EmptySeq
        <5> QED
          BY <1>2, <1>5, <3>3, <5>1 DEF PayloadLast
      <4>2. ~Has(u, "args")
        <5>1. 2..Len(todo) = {}
          BY <4>1
        <5> QED
          BY <2>2, <5>1
      <4>3. row' = [row EXCEPT !.args = RawArgs(tx.payload.args)] /\ tx.payload.typeId = 2
        BY <3>3 DEF ReadOf
      <4>4. row' = RowSoFar(tx, u)
        BY <3>2, <4>2, <4>3 DEF RowSoFar
      <4> QED
        BY <3>2, <4>4
    <3>4. CASE Next1 # "args"
      <4>1. row' = row
        BY <1>7, <3>4 DEF ReadOf
      <4>2. Has(u, "args") <=> Has(todo, "args")
        BY <1>5, <2>2, <3>4
      <4>3. row' = RowSoFar(tx, u)
        BY <3>2, <4>1, <4>2 DEF RowSoFar
      <4> QED
        BY <3>2, <4>3
    <3> QED
      BY <3>3, <3>4
  <2> QED
    BY <1>1, <1>3, <2>2, <2>4, <2>5 DEF Decoding, target
<1> QED
  BY <1>6, <1>7

(***************************************************************************)
(* The inductive invariant of Wire: one state for each stage.              *)
(***************************************************************************)
(* A slice that is read again.  Nothing of it is a payload or says how the
   transaction is signed. *)
Again(t, b, p, o, td, cs, target) ==
  /\ Reads(t, b, p, o, td, cs, target)
  /\ \A i \in 1..Len(td) : td[i] \notin {"authType", "payload"}

InDecode ==
  /\ stage = "decode" /\ answer = NoAnswer
  /\ \E cs : Decoding(tx, buf, pos, from, out, todo, row, cs)

InStored ==
  /\ stage = "stored" /\ answer = NoAnswer
  /\ Known(tx) /\ row = RowOf(tx)
  /\ ReadValues(out) = Values(Layout(tx)) /\ pos = Len(buf)

InConditions ==
  /\ stage = "conditions" /\ tx.payload.typeId \in {1, 2}
  /\ Known(tx) /\ row = RowOf(tx)
  /\ answer = [mode |-> tx.mode, conditions |-> <<>>, codes |-> <<>>, args |-> <<>>]
  /\ \E cs : Again(tx, buf, pos, out, todo, cs, Values(ConditionsLayout(tx.conditions)))

InArgs ==
  /\ stage = "args" /\ tx.payload.typeId = 2 /\ tx.payload.args # <<>>
  /\ Known(tx) /\ row = RowOf(tx)
  /\ answer = [mode |-> tx.mode, conditions |-> Values(ConditionsLayout(tx.conditions)),
               codes |-> answer.codes, args |-> <<>>]
  /\ \E cs : Again(tx, buf, pos, out, todo, cs, Values(ArgsLayout(tx.payload.args)))

InAnswered == stage = "answered" /\ Known(tx) /\ AnsweredAsSent

InThrown == stage = "thrown" /\ ~Known(tx)

WireInv == tx \in Txs /\ (InDecode \/ InStored \/ InConditions \/ InArgs \/ InAnswered \/ InThrown)

SomeRead ==
  \/ ReadUInt8Enum \/ ReadNumber \/ ReadBuffer \/ ReadString \/ ReadCount
  \/ ReadClarityValue \/ ReadClarityValueArray

(* When nothing is left to be read, everything has been. *)
LEMMA AllRead ==
  ASSUME NEW t, NEW b, NEW p, NEW o, NEW cs, NEW target, Reads(t, b, p, o, <<>>, cs, target)
  PROVE  ReadValues(o) = target /\ p = Len(b)
<1>1. cs \in Seq(Seq(Fields)) /\ Len(cs) = 0
  BY DEF Reads, AllFit
<1>2. cs = <<>>
  BY <1>1, EmptySeq
<1>3. Remains(b, p, <<>>) /\ o \in Seq(Outs) /\ ReadValues(o) \o <<>> = target
  BY <1>2, FlattenEmpty, BytesEmpty, ValuesEmpty DEF Reads
<1>r. \A r \in Seq(Outs) : ReadValues(r) \in Seq(Seq(Int))
  <2> SUFFICES ASSUME NEW r \in Seq(Outs) PROVE ReadValues(r) \in Seq(Seq(Int))
    OBVIOUS
  <2>1. DOMAIN r = 1..Len(r) /\ Len(r) \in Nat /\ \A k \in 1..Len(r) : r[k] \in Outs
    OBVIOUS
  <2>2. [k \in 1..Len(r) |-> r[k].value] \in Seq(Seq(Int))
    BY <2>1 DEF Outs
  <2> QED
    BY <2>1, <2>2 DEF ReadValues
<1>4. ReadValues(o) \o <<>> = ReadValues(o)
  <2>3. ReadValues(o) \in Seq(Seq(Int))
    BY <1>3, <1>r
  <2> QED
    BY <2>3, ConcatEmptySeq
<1>5. p = Len(b)
  BY <1>3 DEF Remains
<1> QED
  BY <1>3, <1>4, <1>5

(* A reader over what one read takes. *)
LEMMA OneRead ==
  ASSUME NEW t, NEW read \in ReadNames, NEW fs \in Seq(Fields), Fits(t, read, fs)
  PROVE  Bytes(fs) \in Seq(Nat) /\ Reads(t, Bytes(fs), 0, <<>>, <<read>>, <<fs>>, Values(fs))
<1>1. <<read>> \in Seq(ReadNames) /\ <<fs>> \in Seq(Seq(Fields)) /\ Len(<<read>>) = 1 /\ Len(<<fs>>) = 1
  OBVIOUS
<1>2. AllFit(t, <<read>>, <<fs>>)
  <2>1. \A i \in 1..1 : i = 1
    OBVIOUS
  <2>2. <<read>>[1] = read /\ <<fs>>[1] = fs
    OBVIOUS
  <2>3. \A i \in 1..Len(<<read>>) : Fits(t, <<read>>[i], <<fs>>[i])
    BY <1>1, <2>1, <2>2
  <2> QED
    BY <1>1, <2>3 DEF AllFit
<1>3. FlattenSeq(<<fs>>) = fs
  BY FlattenOne
<1> QED
  BY <1>2, <1>3, ReadsStart

(* A read of a slice leaves the row and the answer as they are. *)
LEMMA AgainStep ==
  ASSUME IsTx(tx), stage # "decode", todo # <<>>, NEW cs, NEW target,
         Again(tx, buf, pos, out, todo, cs, target), Known(tx), SomeRead
  PROVE  /\ UNCHANGED <<tx, stage, row, answer>>
         /\ \E ds : Again(tx, buf', pos', out', todo', ds, target)
<1>1. Reads(tx, buf, pos, out, todo, cs, target)
  BY DEF Again
<1>2. PICK then, gs : ReadOf(cs, target, then, gs)
  BY <1>1, ReadIs DEF SomeRead
<1>3. todo \in Seq(ReadNames) /\ Next1 = todo[1] /\ Next1 \in ReadNames
  BY <1>1, HeadFits DEF Reads, AllFit
<1>4. Next1 \notin {"authType", "payload"}
  <2>1. 1 \in 1..Len(todo)
    BY <1>3, EmptySeq
  <2> QED
    BY <1>3, <2>1 DEF Again
<1>5. row' = row /\ UNCHANGED <<tx, stage, answer>> /\ NonePlaced(then)
  BY <1>2, <1>4 DEF ReadOf
<1>6. then \in Seq(ReadNames) /\ todo' = then \o Tail(todo) /\ Reads(tx, buf', pos', out', todo', gs \o Tail(cs), target)
  BY <1>2 DEF ReadOf, ReadStep, AllFit
<1>7. \A i \in 1..Len(todo') : todo'[i] \notin {"authType", "payload"}
  <2> DEFINE u == then \o Tail(todo)
  <2>1. /\ \A i \in 1..Len(then) : u[i] = then[i]
        /\ \A j \in 2..Len(todo) : u[Len(then) + j - 1] = todo[j]
        /\ \A i \in 1..Len(u) : i \in 1..Len(then) \/ \E j \in 2..Len(todo) : i = Len(then) + j - 1
    BY <1>3, <1>6, Spliced
  <2> HIDE DEF u
  <2>2. \A i \in 1..Len(then) : then[i] \notin {"authType", "payload"}
    BY <1>5 DEF NonePlaced, Placed
  <2>3. \A j \in 2..Len(todo) : todo[j] \notin {"authType", "payload"}
    BY <1>3 DEF Again
  <2>4. \A i \in 1..Len(u) : u[i] \notin {"authType", "payload"}
    BY <2>1, <2>2, <2>3
  <2> QED
    BY <1>6, <2>4 DEF u
<1> QED
  BY <1>5, <1>6, <1>7 DEF Again

(* The copy is the mode and then the post conditions. *)
LEMMA SentType ==
  ASSUME NEW t, IsTx(t)
  PROVE  /\ Bytes(ConditionsLayout(t.conditions)) \in Seq(Nat)
         /\ Head(Sent(t)) = t.mode /\ Tail(Sent(t)) = Bytes(ConditionsLayout(t.conditions))
<1> DEFINE b == Bytes(ConditionsLayout(t.conditions))
<1>1. b \in Seq(Nat)
  BY ConditionsType, BytesType
<1>2. t.mode \in Nat
  BY DEF IsTx
<1> HIDE DEF b
<1>3. Head(<<t.mode>> \o b) = t.mode /\ Tail(<<t.mode>> \o b) = b
  BY <1>1, <1>2
<1> QED
  BY <1>1, <1>3 DEF b, Sent

(* No argument is stored when there is none, and then only. *)
LEMMA NoArgs ==
  ASSUME NEW t, IsTx(t), t.payload.typeId = 2
  PROVE  /\ t.payload.args \in Seq(Seq(Nat)) /\ ArgsLayout(t.payload.args) \in Seq(Fields)
         /\ RawArgs(t.payload.args) = <<>> <=> t.payload.args = <<>>
<1> DEFINE args == t.payload.args
           b == FlattenSeq(args)
           n == BigEndian(Len(args), 3)
<1>1. args \in Seq(Seq(Nat)) /\ Len(args) < Numerals(3)
  BY DEF IsTx, IsPayload, Width
<1>2. Len(args) \in 0..Numerals(3) - 1
  <2>1. Numerals(3) \in Nat /\ Len(args) \in Nat
    BY <1>1, NumeralsAre
  <2> QED
    BY <1>1, <2>1
<1>3. b \in Seq(Nat) /\ Bytes(ArgsLayout(args)) = n \o b
  BY <1>1, <1>2, ArgsBytes
<1>4. n \in Seq(Nat) /\ Len(n) = 3
  BY <1>1, BigEndianType
<1> HIDE DEF args, b, n
<1>5. n \o b # <<>>
  BY <1>3, <1>4
<1>6. RawArgs(args) = <<>> <=> args = <<>>
  BY <1>3, <1>5 DEF RawArgs
<1> QED
  BY <1>1, <1>6, ArgsType DEF args

(* A slice is fitted by the read that made it. *)
LEMMA ReadFitsItself ==
  ASSUME NEW t
  PROVE  /\ Fits(t, "conditions", ConditionsLayout(t.conditions))
         /\ t.payload.typeId = 2 => Fits(t, "args", ArgsLayout(t.payload.args))
  BY DEF Fits, EnumFits, CountFits, FieldFits, BufferWidth

(* A transaction whose reads have all been made is one that is known. *)
LEMMA AllDecoded ==
  ASSUME NEW t, NEW b, NEW p, NEW f, NEW o, NEW w, NEW cs, Decoding(t, b, p, f, o, <<>>, w, cs)
  PROVE  Known(t) /\ w = RowOf(t) /\ ReadValues(o) = Values(Layout(t)) /\ p = Len(b)
<1>1. ReadValues(o) = Values(Layout(t)) /\ p = Len(b)
  BY AllRead DEF Decoding
<1>2. 1..Len(<<>>) = {}
  OBVIOUS
<1>3. t.payload.typeId \in 0..4 /\ w = RowSoFar(t, <<>>)
  BY <1>2 DEF Decoding, Has
<1>4. w = RowOf(t)
  BY <1>2, <1>3 DEF RowSoFar, RowOf, Has
<1>5. \A k \in DOMAIN t.auth : t.auth[k].hashMode \in 0..3
  BY <1>2 DEF Decoding, Pending
<1> QED
  BY <1>1, <1>3, <1>4, <1>5 DEF Known

(* From each stage the next: the transaction is read, *)
LEMMA FromDecode ==
  ASSUME IsTx(tx), InDecode, WireNext
  PROVE  tx' = tx /\ (InDecode' \/ InStored' \/ InThrown')
<1>1. PICK cs : Decoding(tx, buf, pos, from, out, todo, row, cs)
  BY DEF InDecode
<1>2. stage = "decode" /\ answer = NoAnswer
  BY DEF InDecode
<1>3. CASE SomeRead
  <2>1. todo # <<>>
    BY <1>3 DEF SomeRead, ReadUInt8Enum, ReadNumber, ReadBuffer, ReadString, ReadCount, ReadClarityValue,
                ReadClarityValueArray, Reading
  <2>2. Reads(tx, buf, pos, out, todo, cs, Values(Layout(tx)))
    BY <1>1 DEF Decoding
  <2>3. \/ stage' = "thrown" /\ ~Known(tx) /\ UNCHANGED <<tx, row, answer>>
        \/ \E then, gs : ReadOf(cs, Values(Layout(tx)), then, gs)
    BY <1>3, <2>2, ReadIs DEF SomeRead
  <2>4. CASE stage' = "thrown" /\ ~Known(tx) /\ UNCHANGED <<tx, row, answer>>
    <3>1. ~Known(tx')
      BY <2>4
    <3> QED
      BY <2>4, <3>1 DEF InThrown
  <2>5. ASSUME NEW then, NEW gs, ReadOf(cs, Values(Layout(tx)), then, gs)
        PROVE  tx' = tx /\ InDecode'
    <3>1. Decoding(tx, buf', pos', from', out', todo', row', gs \o Tail(cs))
      BY <1>1, <1>2, <2>1, <2>5, DecodeStep
    <3>2. UNCHANGED <<tx, stage, answer>>
      BY <2>5 DEF ReadOf
    <3> QED
      BY <1>2, <3>1, <3>2 DEF InDecode, NoAnswer
  <2> QED
    BY <2>3, <2>4, <2>5
<1>4. CASE Store
  <2>1. todo = <<>> /\ stage' = "stored" /\ UNCHANGED <<tx, reader, row, answer>>
    BY <1>4 DEF Store
  <2>2. Known(tx) /\ row = RowOf(tx) /\ ReadValues(out) = Values(Layout(tx)) /\ pos = Len(buf)
    BY <1>1, <2>1, AllDecoded
  <2>3. tx' = tx /\ pos' = pos /\ buf' = buf /\ out' = out /\ row' = row /\ answer' = answer
    BY <2>1 DEF reader
  <2> QED
    BY <1>2, <2>1, <2>2, <2>3 DEF InStored, NoAnswer
<1> QED
  BY <1>2, <1>3, <1>4 DEF WireNext, SomeRead, GetTx, SerializePostConditions, SerializeArgs

(* asked for, *)
LEMMA FromStored ==
  ASSUME IsTx(tx), InStored, WireNext
  PROVE  tx' = tx /\ (InConditions' \/ InAnswered')
<1>1. GetTx
  BY DEF InStored, WireNext, ReadUInt8Enum, ReadNumber, ReadBuffer, ReadString, ReadCount, ReadClarityValue,
         ReadClarityValueArray, Reading, Store, SerializePostConditions, SerializeArgs
<1>2. Known(tx) /\ row = RowOf(tx) /\ answer = NoAnswer
  BY DEF InStored
<1>3. row.typeId = tx.payload.typeId /\ row.conditions = Sent(tx)
  BY <1>2 DEF RowOf
<1>4. /\ tx' = tx /\ row' = row
      /\ answer' = [mode |-> tx.mode, conditions |-> <<>>, codes |-> <<>>, args |-> <<>>]
  BY <1>1, <1>2, <1>3, SentType DEF GetTx, NoAnswer
<1>5. CASE tx.payload.typeId \in {1, 2}
  <2> DEFINE fs == ConditionsLayout(tx.conditions)
  <2>1. stage' = "conditions" /\ buf' = Bytes(fs) /\ pos' = 0 /\ out' = <<>> /\ todo' = <<"conditions">>
    BY <1>1, <1>3, <1>5, SentType DEF GetTx, Over
  <2>2. "conditions" \in ReadNames /\ fs \in Seq(Fields) /\ Fits(tx, "conditions", fs)
    BY ConditionsType, ReadFitsItself DEF ReadNames
  <2>3. Reads(tx, Bytes(fs), 0, <<>>, <<"conditions">>, <<fs>>, Values(fs))
    BY <2>2, OneRead
  <2>4. \A i \in 1..Len(<<"conditions">>) : <<"conditions">>[i] \notin {"authType", "payload"}
    OBVIOUS
  <2>5. Again(tx, buf', pos', out', todo', <<fs>>, Values(fs))
    BY <2>1, <2>3, <2>4 DEF Again
  <2>6. InConditions'
    BY <1>2, <1>4, <1>5, <2>1, <2>5 DEF InConditions
  <2> QED
    BY <1>4, <2>6
<1>6. CASE tx.payload.typeId \notin {1, 2}
  <2>1. stage' = "answered"
    BY <1>1, <1>3, <1>6 DEF GetTx
  <2> QED
    BY <1>2, <1>4, <1>6, <2>1 DEF InAnswered, AnsweredAsSent
<1> QED
  BY <1>5, <1>6

(* its post conditions are read again, *)
LEMMA FromConditions ==
  ASSUME IsTx(tx), InConditions, WireNext
  PROVE  tx' = tx /\ (InConditions' \/ InArgs' \/ InAnswered')
<1> DEFINE target == Values(ConditionsLayout(tx.conditions))
<1>1. PICK cs : Again(tx, buf, pos, out, todo, cs, target)
  BY DEF InConditions
<1>2. /\ stage = "conditions" /\ tx.payload.typeId \in {1, 2} /\ Known(tx) /\ row = RowOf(tx)
      /\ answer = [mode |-> tx.mode, conditions |-> <<>>, codes |-> <<>>, args |-> <<>>]
  BY DEF InConditions
<1>3. SomeRead \/ SerializePostConditions
  BY <1>2 DEF WireNext, SomeRead, Store, GetTx, SerializeArgs
<1>4. CASE SomeRead
  <2>1. todo # <<>>
    BY <1>4 DEF SomeRead, ReadUInt8Enum, ReadNumber, ReadBuffer, ReadString, ReadCount, ReadClarityValue,
                ReadClarityValueArray, Reading
  <2>2. UNCHANGED <<tx, stage, row, answer>> /\ \E ds : Again(tx, buf', pos', out', todo', ds, target)
    BY <1>1, <1>2, <1>4, <2>1, AgainStep
  <2> QED
    BY <1>2, <2>2 DEF InConditions
<1>5. CASE SerializePostConditions
  <2> DEFINE codes == [k \in DOMAIN SelectSeq(out, LAMBDA r : r.read = "fungibleCode") |->
                         FungibleConditionCodeMap[SelectSeq(out, LAMBDA r : r.read = "fungibleCode")[k].value[1]]]
  <2>1. todo = <<>> /\ tx' = tx /\ row' = row /\ answer' = [answer EXCEPT !.conditions = ReadValues(out), !.codes = codes]
    BY <1>5 DEF SerializePostConditions
  <2> HIDE DEF codes
  <2>2. ReadValues(out) = target
    BY <1>1, <2>1, AllRead DEF Again
  <2>3. answer' = [mode |-> tx.mode, conditions |-> target, codes |-> codes, args |-> <<>>]
    BY <1>2, <2>1, <2>2
  <2>4. CASE row.args # <<>>
    <3> DEFINE args == tx.payload.args
               fs == ArgsLayout(args)
    <3>1. tx.payload.typeId = 2 /\ row.args = RawArgs(args)
      BY <1>2, <2>4 DEF RowOf
    <3>2. args # <<>> /\ row.args = Bytes(fs) /\ fs \in Seq(Fields)
      BY <2>4, <3>1, NoArgs DEF RawArgs
    <3>3. stage' = "args" /\ buf' = Bytes(fs) /\ pos' = 0 /\ out' = <<>> /\ todo' = <<"args">>
      BY <1>5, <2>4, <3>2 DEF SerializePostConditions, Over
    <3>4. "args" \in ReadNames /\ Fits(tx, "args", fs)
      BY <3>1, ReadFitsItself DEF ReadNames
    <3>5. Reads(tx, Bytes(fs), 0, <<>>, <<"args">>, <<fs>>, Values(fs))
      BY <3>2, <3>4, OneRead
    <3>6. \A i \in 1..Len(<<"args">>) : <<"args">>[i] \notin {"authType", "payload"}
      OBVIOUS
    <3>7. Again(tx, buf', pos', out', todo', <<fs>>, Values(fs))
      BY <3>3, <3>5, <3>6 DEF Again
    <3>8. answer' = [mode |-> tx.mode, conditions |-> target, codes |-> answer'.codes, args |-> <<>>]
      BY <2>3
    <3>9. InArgs'
      BY <1>2, <2>1, <3>1, <3>2, <3>3, <3>7, <3>8 DEF InArgs
    <3> QED
      BY <2>1, <3>9
  <2>5. CASE row.args = <<>>
    <3>1. stage' = "answered"
      BY <1>5, <2>5 DEF SerializePostConditions
    <3>2. tx.payload.typeId = 2 => tx.payload.args = <<>>
      <4>1. tx.payload.typeId = 2 => RawArgs(tx.payload.args) = <<>>
        BY <1>2, <2>5 DEF RowOf
      <4> QED
        BY <4>1, NoArgs
    <3>3. answer'.mode = tx.mode /\ answer'.conditions = target
      BY <2>3
    <3>4. AnsweredAsSent'
      BY <2>1, <3>2, <3>3 DEF AnsweredAsSent
    <3> QED
      BY <1>2, <2>1, <3>1, <3>4 DEF InAnswered
  <2> QED
    BY <2>4, <2>5
<1> QED
  BY <1>3, <1>4, <1>5

(* and its arguments. *)
LEMMA FromArgs ==
  ASSUME IsTx(tx), InArgs, WireNext
  PROVE  tx' = tx /\ (InArgs' \/ InAnswered')
<1> DEFINE target == Values(ArgsLayout(tx.payload.args))
<1>1. PICK cs : Again(tx, buf, pos, out, todo, cs, target)
  BY DEF InArgs
<1>2. /\ stage = "args" /\ tx.payload.typeId = 2 /\ tx.payload.args # <<>> /\ Known(tx) /\ row = RowOf(tx)
      /\ answer = [mode |-> tx.mode, conditions |-> Values(ConditionsLayout(tx.conditions)),
                   codes |-> answer.codes, args |-> <<>>]
  BY DEF InArgs
<1>3. SomeRead \/ SerializeArgs
  BY <1>2 DEF WireNext, SomeRead, Store, GetTx, SerializePostConditions
<1>4. CASE SomeRead
  <2>1. todo # <<>>
    BY <1>4 DEF SomeRead, ReadUInt8Enum, ReadNumber, ReadBuffer, ReadString, ReadCount, ReadClarityValue,
                ReadClarityValueArray, Reading
  <2>2. UNCHANGED <<tx, stage, row, answer>> /\ \E ds : Again(tx, buf', pos', out', todo', ds, target)
    BY <1>1, <1>2, <1>4, <2>1, AgainStep
  <2>3. answer' = [mode |-> tx.mode, conditions |-> Values(ConditionsLayout(tx.conditions)),
                   codes |-> answer'.codes, args |-> <<>>]
    BY <1>2, <2>2
  <2> QED
    BY <1>2, <2>2, <2>3 DEF InArgs
<1>5. CASE SerializeArgs
  <2>1. todo = <<>> /\ tx' = tx /\ stage' = "answered" /\ answer' = [answer EXCEPT !.args = ReadValues(out)]
    BY <1>5 DEF SerializeArgs
  <2>2. ReadValues(out) = target
    BY <1>1, <2>1, AllRead DEF Again
  <2>3. /\ answer'.mode = tx.mode /\ answer'.conditions = Values(ConditionsLayout(tx.conditions))
        /\ answer'.args = target
    BY <1>2, <2>1, <2>2
  <2> QED
    BY <1>2, <2>1, <2>3 DEF InAnswered, AnsweredAsSent
<1> QED
  BY <1>3, <1>4, <1>5

(* Nothing more is read of a transaction that is answered or refused. *)
LEMMA NothingMore ==
  ASSUME InAnswered \/ InThrown
  PROVE  ~WireNext
  BY DEF InAnswered, InThrown, WireNext, ReadUInt8Enum, ReadNumber, ReadBuffer, ReadString, ReadCount,
         ReadClarityValue, ReadClarityValueArray, Reading, Store, GetTx, SerializePostConditions, SerializeArgs

(* The three facts of the inductive invariant of Wire. *)
LEMMA WireInvInit ==
  ASSUME WireInit
  PROVE  WireInv
<1>1. tx \in Txs /\ stage = "decode" /\ answer = NoAnswer /\ IsTx(tx)
  BY TxsAssumption DEF WireInit
<1> QED
  BY <1>1, DecodeStart DEF WireInv, InDecode

LEMMA WireInvNext ==
  ASSUME WireInv, [WireNext]_wireVars
  PROVE  WireInv'
<1>1. tx \in Txs /\ IsTx(tx)
  BY TxsAssumption DEF WireInv
<1>2. CASE UNCHANGED wireVars
  <2>1. /\ tx' = tx /\ buf' = buf /\ pos' = pos /\ from' = from /\ todo' = todo /\ out' = out
        /\ stage' = stage /\ row' = row /\ answer' = answer
    BY <1>2 DEF wireVars, reader
  <2> QED
    BY <2>1 DEF WireInv, InDecode, InStored, InConditions, InArgs, InAnswered, InThrown, AnsweredAsSent, NoAnswer
<1>3. CASE WireNext
  BY <1>1, <1>3, FromDecode, FromStored, FromConditions, FromArgs, NothingMore DEF WireInv
<1> QED
  BY <1>2, <1>3

LEMMA WireInvSuffices ==
  ASSUME WireInv
  PROVE  DecodedAsSent /\ AnsweredAsSent
  BY DEF WireInv, InDecode, InStored, InConditions, InArgs, InAnswered, InThrown, DecodedAsSent, AnsweredAsSent

(***************************************************************************)
(* What is stored of a transaction that was read, and answered of it.      *)
(***************************************************************************)
(* The values a column may hold: a number by itself may be below zero. *)
Held == Seq(Nat) \cup {<<i>> : i \in Int}

(* None of them is the null of the tables. *)
LEMMA NotNull == (\A s \in Held : s # Rows!Null) /\ (\A s \in Seq(Nat) : s # Rows!Null /\ s \in Held)
<1>1. Rows!Null = <<-1, -1>>
  BY DEF Rows!Null
<1> DEFINE n == <<-1, -1>>
<1>2. Len(n) = 2 /\ 1 \in DOMAIN n /\ n[1] = -1
  OBVIOUS
<1> HIDE DEF n
<1>3. ASSUME NEW s \in Seq(Nat), s = n PROVE FALSE
  <2>1. 1 \in 1..Len(s) /\ s[1] = -1
    BY <1>2, <1>3
  <2>2. s[1] \in Nat
    BY <2>1
  <2> QED
    BY <2>1, <2>2
<1>4. ASSUME NEW i \in Int PROVE <<i>> # n
  BY <1>2
<1> QED
  BY <1>1, <1>3, <1>4 DEF n, Held

LEMMA AddressIs == \A a : IsAddress(a) => a \in Seq(Nat)
<1> SUFFICES ASSUME NEW a, IsAddress(a) PROVE a \in Seq(Nat)
  OBVIOUS
<1>1. PICK x \in Nat, y \in Nat : a = <<x, y>>
  BY DEF IsAddress
<1> QED
  BY <1>1

(* The sender is the first signer. *)
LEMMA SenderIs ==
  ASSUME NEW t, IsTx(t)
  PROVE  Rows!Sender(Decoded(t)) \in Seq(Nat) /\ Len(Decoded(t).auth) = Len(t.auth)
<1>1. DOMAIN t.auth = 1..Len(t.auth) /\ Len(t.auth) \in {1, 2}
  BY DEF IsTx
<1>2. 1 \in DOMAIN t.auth
  <2>1. \A n \in {1, 2} : 1 \in 1..n
    OBVIOUS
  <2> QED
    BY <1>1, <2>1
<1>3. t.auth[1].signer \in Nat
  BY <1>2 DEF IsTx, IsSpending
<1> DEFINE r == [k \in DOMAIN t.auth |-> [address |-> <<t.auth[k].signer>>, fee |-> <<t.auth[k].fee>>]]
<1>4. Decoded(t).auth = r
  BY DEF Decoded
<1>5. r[1].address = <<t.auth[1].signer>>
  BY <1>2
<1>6. Len(r) = Len(t.auth)
  <2>1. Len(t.auth) \in Nat /\ r = [k \in 1..Len(t.auth) |-> [address |-> <<t.auth[k].signer>>, fee |-> <<t.auth[k].fee>>]]
    BY <1>1
  <2> QED
    BY <2>1
<1> HIDE DEF r
<1>7. r[1].address \in Seq(Nat)
  BY <1>3, <1>5
<1> QED
  BY <1>4, <1>6, <1>7 DEF Rows!Sender

LEMMA RecipientIs ==
  ASSUME NEW p, NEW ids, IsPrincipal(p, ids), 1 \notin ids
  PROVE  Rows!Principal(p) \in Seq(Nat)
<1>1. p.address \in Seq(Nat)
  BY AddressIs DEF IsPrincipal
<1>2. CASE "contractName" \in DOMAIN p
  <2>1. p.contractName \in Seq(Nat)
    BY <1>2 DEF IsPrincipal
  <2>2. p.address \o p.contractName \in Seq(Nat)
    BY <1>1, <2>1, ConcatProperties
  <2> QED
    BY <1>2, <2>2 DEF Rows!Principal
<1>3. CASE "contractName" \notin DOMAIN p
  BY <1>1, <1>3 DEF Rows!Principal
<1> QED
  BY <1>2, <1>3

(* The columns of its type, and no others, have a value, but for the arguments
   of a call that has none. *)
LEMMA ExtractIs ==
  ASSUME NEW t, IsTx(t), t.payload.typeId \in 0..4
  PROVE  LET id == t.payload.typeId
             d == Rows!Extract(Decoded(t))
             p == Decoded(t).payload
         IN
         /\ Decoded(t).typeId = id /\ DOMAIN d = Rows!ColumnsOf(id)
         /\ d = [c \in Rows!ColumnsOf(id) |-> d[c]]
         /\ \A c \in Rows!ColumnsOf(id) \ {"function_args"} : d[c] \in Held
         /\ id = 2 => /\ d.function_name = p.functionName /\ p.args \in Seq(Nat)
                      /\ d.function_args = IF p.args = <<>> THEN Rows!Null ELSE p.args
         /\ Rows!ColumnsOf(id) \subseteq Rows!Columns
<1> DEFINE id == t.payload.typeId
           e == Decoded(t)
           p == e.payload
           d == Rows!Extract(e)
           q == t.payload
<1>1. e.typeId = id /\ p = DecodedPayload(q)
  BY DEF Decoded
<1>2. Rows!ColumnsOf(id) \subseteq Rows!Columns
  BY DEF Rows!Columns
<1>3. Rows!Sender(e) \in Seq(Nat)
  BY SenderIs
<1>4. IsPayload(q)
  BY DEF IsTx
<1> HIDE DEF e, d, p
<1>5. CASE id = 0
  <2>1. p = [recipient |-> q.recipient, amount |-> <<Signed(q.amount)>>, memo |-> q.memo]
    BY <1>1, <1>5 DEF DecodedPayload
  <2>2. d = [recipient |-> Rows!Principal(p.recipient), amount |-> p.amount, memo |-> p.memo]
    BY <1>1, <1>5 DEF d, p, Rows!Extract
  <2>3. IsPrincipal(q.recipient, {5, 6}) /\ q.amount \in Nat /\ q.memo \in Seq(Nat)
    BY <1>4, <1>5 DEF IsPayload
  <2>4. Rows!Principal(p.recipient) \in Seq(Nat)
    BY <2>1, <2>3, RecipientIs
  <2>5. p.amount \in Held /\ p.memo \in Held /\ d.recipient \in Held
    <3>1. U64 \in Nat
      BY NumeralsAre, Widths
    <3>2. Signed(q.amount) \in Int
      BY <2>3, <3>1 DEF Signed
    <3> QED
      BY <2>1, <2>2, <2>3, <2>4, <3>2, NotNull DEF Held
  <2>6. Rows!ColumnsOf(id) = {"recipient", "amount", "memo"}
    BY <1>5 DEF Rows!ColumnsOf
  <2> QED
    BY <1>1, <1>2, <1>5, <2>2, <2>5, <2>6 DEF d, e, p
<1>6. CASE id = 1
  <2>1. p = q
    BY <1>1, <1>6 DEF DecodedPayload
  <2>2. d = [contract_id |-> Rows!Sender(e) \o p.name, source_code |-> p.codeBody]
    BY <1>1, <1>6 DEF d, p, Rows!Extract
  <2>3. p.name \in Seq(Nat) /\ p.codeBody \in Seq(Nat)
    BY <1>4, <1>6, <2>1 DEF IsPayload
  <2>4. Rows!Sender(e) \o p.name \in Seq(Nat)
    BY <1>3, <2>3, ConcatProperties
  <2>5. Rows!ColumnsOf(id) = {"contract_id", "source_code"}
    BY <1>6 DEF Rows!ColumnsOf
  <2> DEFINE x == Rows!Sender(e) \o p.name
             y == p.codeBody
  <2> HIDE DEF x, y
  <2>6. d = [contract_id |-> x, source_code |-> y] /\ x \in Held /\ y \in Held
    BY <2>2, <2>3, <2>4, NotNull DEF x, y
  <2> QED
    BY <1>1, <1>2, <1>6, <2>5, <2>6 DEF d, e, p
<1>7. CASE id = 2
  <2>1. p = [address |-> q.address, contractName |-> q.contractName,
             functionName |-> q.functionName, args |-> IF q.args = <<>> THEN <<>> ELSE <<Len(q.args)>> \o FlattenSeq(q.args)]
    BY <1>1, <1>7 DEF DecodedPayload
  <2>2. d = [call_contract_id |-> p.address \o p.contractName, function_name |-> p.functionName,
             function_args |-> IF p.args = <<>> THEN Rows!Null ELSE p.args]
    BY <1>1, <1>7 DEF d, p, Rows!Extract
  <2>3. IsAddress(q.address) /\ q.contractName \in Seq(Nat) /\ q.functionName \in Seq(Nat) /\ q.args \in Seq(Seq(Nat))
    BY <1>4, <1>7 DEF IsPayload
  <2>4. p.address \in Seq(Nat) /\ p.contractName \in Seq(Nat) /\ p.functionName \in Seq(Nat)
    BY <2>1, <2>3, AddressIs
  <2>5. p.address \o p.contractName \in Seq(Nat)
    BY <2>4, ConcatProperties
  <2>6. p.args \in Seq(Nat)
    <3>1. FlattenSeq(q.args) \in Seq(Nat) /\ <<Len(q.args)>> \in Seq(Nat)
      BY <2>3, FlattenType
    <3>2. <<Len(q.args)>> \o FlattenSeq(q.args) \in Seq(Nat)
      BY <3>1, ConcatProperties
    <3> QED
      BY <2>1, <3>2
  <2>7. Rows!ColumnsOf(id) = {"call_contract_id", "function_name", "function_args"}
    BY <1>7 DEF Rows!ColumnsOf
  <2> DEFINE x == p.address \o p.contractName
             y == p.functionName
             z == IF p.args = <<>> THEN Rows!Null ELSE p.args
  <2> HIDE DEF x, y, z
  <2>8. d = [call_contract_id |-> x, function_name |-> y, function_args |-> z] /\ x \in Held /\ y \in Held
    BY <2>2, <2>4, <2>5, NotNull DEF x, y, z
  <2>9. z = IF p.args = <<>> THEN Rows!Null ELSE p.args
    BY DEF z
  <2>10. DOMAIN d = Rows!ColumnsOf(id) /\ d = [c \in Rows!ColumnsOf(id) |-> d[c]] /\ d.function_args = z /\ d.function_name = p.functionName
    BY <2>7, <2>8 DEF y
  <2>11. \A c \in Rows!ColumnsOf(id) \ {"function_args"} : d[c] \in Held
    BY <2>7, <2>8
  <2> QED
    BY <1>1, <1>2, <1>7, <2>6, <2>9, <2>10, <2>11 DEF d, e, p
<1>8. CASE id = 3
  <2>1. p = q
    BY <1>1, <1>8 DEF DecodedPayload
  <2>2. d = [header_1 |-> p.header1, header_2 |-> p.header2]
    BY <1>1, <1>8 DEF d, p, Rows!Extract
  <2>3. p.header1 \in Seq(Nat) /\ p.header2 \in Seq(Nat)
    BY <1>4, <1>8, <2>1 DEF IsPayload
  <2>4. Rows!ColumnsOf(id) = {"header_1", "header_2"}
    BY <1>8 DEF Rows!ColumnsOf
  <2> QED
    BY <1>1, <1>2, <1>8, <2>2, <2>3, <2>4, NotNull DEF d, e, p
<1>9. CASE id = 4
  <2>1. p = q
    BY <1>1, <1>9 DEF DecodedPayload
  <2>2. d = [coinbase_payload |-> p.payload]
    BY <1>1, <1>9 DEF d, p, Rows!Extract
  <2>3. p.payload \in Seq(Nat)
    BY <1>4, <1>9, <2>1 DEF IsPayload
  <2>4. Rows!ColumnsOf(id) = {"coinbase_payload"}
    BY <1>9 DEF Rows!ColumnsOf
  <2> QED
    BY <1>1, <1>2, <1>9, <2>2, <2>3, <2>4, NotNull DEF d, e, p
<1> QED
  BY <1>5, <1>6, <1>7, <1>8, <1>9

(* A row of txs or of mempool_txs that was made of t. *)
MadeOf(row0, t) ==
  LET e == Decoded(t) IN
  /\ row0.type_id = t.payload.typeId /\ row0.fee_rate = e.auth[1].fee /\ row0.sender = Rows!Sender(e)
  /\ row0.sponsored = (Len(e.auth) = 2) /\ row0.sponsor = Rows!Sponsor(e) /\ row0.mode = e.mode
  /\ row0.data = Rows!Inserted(Rows!Extract(e))

(* What is answered of t but its status. *)
Shown(t, fields) == Rows!Present(Rows!Extract(Decoded(t)), fields)

(* A row that is parsed gives what was extracted from the transaction, column by column. *)
LEMMA RowParsed ==
  ASSUME NEW t, IsTx(t), t.payload.typeId \in 0..4, NEW r, MadeOf(r, t)
  PROVE  Rows!Parsed(r) = Rows!Extract(Decoded(t))
<1> DEFINE d == Rows!Extract(Decoded(t))
           cols == Rows!ColumnsOf(t.payload.typeId)
<1>1. DOMAIN d = cols /\ d = [c \in cols |-> d[c]] /\ cols \subseteq Rows!Columns
  BY ExtractIs
<1>2. r.type_id = t.payload.typeId /\ r.data = Rows!Inserted(d)
  BY DEF MadeOf
<1> HIDE DEF d, cols
<1>3. \A c \in cols : r.data[c] = d[c]
  BY <1>1, <1>2 DEF Rows!Inserted
<1>4. Rows!Parsed(r) = [c \in cols |-> r.data[c]]
  BY <1>2 DEF Rows!Parsed, cols
<1> QED
  BY <1>1, <1>3, <1>4 DEF d

(* What is shown of a payload says what the transaction said. *)
LEMMA ShownSays ==
  ASSUME NEW t, IsTx(t), t.payload.typeId \in 0..4, NEW fields \in SUBSET Rows!ColumnsOf(t.payload.typeId),
         Rows!Unwrapped(t.payload.typeId) \subseteq fields
  PROVE  LET e == Decoded(t) IN
         /\ Rows!SaidOfPayload(e, Shown(t, fields))
         /\ t.payload.typeId = 2 /\ e.payload.args # <<>> /\ fields = Rows!ColumnsOf(2) =>
              "function_args" \in DOMAIN Shown(t, fields)
<1> DEFINE id == t.payload.typeId
           e == Decoded(t)
           p == e.payload
           d == Rows!Extract(e)
           s == Shown(t, fields)
<1>1. /\ e.typeId = id /\ DOMAIN d = Rows!ColumnsOf(id)
      /\ \A c \in Rows!ColumnsOf(id) \ {"function_args"} : d[c] \in Held
      /\ id = 2 => p.args \in Seq(Nat) /\ d.function_args = IF p.args = <<>> THEN Rows!Null ELSE p.args
  BY ExtractIs
<1>2. \A c \in Rows!Unwrapped(id) : d[c] # Rows!Null /\ c \in fields
  BY <1>1, NotNull DEF Rows!Unwrapped
<1>3. s = [c \in {f \in fields : d[f] # Rows!Null} |-> d[c]]
  BY DEF Shown, Rows!Present
<1> HIDE DEF e, p, d, s
<1>4. \A c \in Rows!Unwrapped(id) : s[c] = d[c]
  BY <1>2, <1>3
<1>5. id = 2 /\ "function_args" \in DOMAIN s => s.function_args = p.args
  BY <1>1, <1>3
<1>6. id = 2 /\ p.args # <<>> /\ fields = Rows!ColumnsOf(2) => "function_args" \in DOMAIN s
  BY <1>1, <1>3, NotNull DEF Rows!ColumnsOf
<1>7. Rows!SaidOfPayload(e, s)
  <2>1. CASE id = 0
    <3>1. s.recipient = d.recipient /\ s.amount = d.amount /\ s.memo = d.memo
      BY <1>4, <2>1 DEF Rows!Unwrapped, Rows!ColumnsOf
    <3>2. d.recipient = Rows!Principal(p.recipient) /\ d.amount = p.amount /\ d.memo = p.memo
      BY <1>1, <2>1 DEF d, p, Rows!Extract
    <3> QED
      BY <1>1, <2>1, <3>1, <3>2 DEF p, Rows!SaidOfPayload
  <2>2. CASE id = 1
    <3>1. s.contract_id = d.contract_id /\ s.source_code = d.source_code
      BY <1>4, <2>2 DEF Rows!Unwrapped, Rows!ColumnsOf
    <3>2. d.contract_id = Rows!Sender(e) \o p.name /\ d.source_code = p.codeBody
      BY <1>1, <2>2 DEF d, p, Rows!Extract
    <3> QED
      BY <1>1, <2>2, <3>1, <3>2 DEF p, Rows!SaidOfPayload
  <2>3. CASE id = 2
    <3>1. s.call_contract_id = d.call_contract_id /\ s.function_name = d.function_name
      BY <1>4, <2>3 DEF Rows!Unwrapped, Rows!ColumnsOf
    <3>2. d.call_contract_id = p.address \o p.contractName /\ d.function_name = p.functionName
      <4>1. e.typeId = 2
        BY <1>1, <2>3
      <4> DEFINE x == p.address \o p.contractName
                 z == IF p.args = <<>> THEN Rows!Null ELSE p.args
      <4>2. d = [call_contract_id |-> x, function_name |-> p.functionName, function_args |-> z]
        BY <4>1 DEF d, p, Rows!Extract
      <4> HIDE DEF x, z
      <4>3. d.call_contract_id = x /\ d.function_name = p.functionName
        BY <4>2
      <4> QED
        BY <4>3 DEF x
    <3> QED
      BY <1>1, <1>5, <2>3, <3>1, <3>2 DEF p, Rows!SaidOfPayload
  <2>4. CASE id = 3
    <3>1. s.header_1 = d.header_1 /\ s.header_2 = d.header_2
      BY <1>4, <2>4 DEF Rows!Unwrapped, Rows!ColumnsOf
    <3>2. d.header_1 = p.header1 /\ d.header_2 = p.header2
      BY <1>1, <2>4 DEF d, p, Rows!Extract
    <3> QED
      BY <1>1, <2>4, <3>1, <3>2 DEF p, Rows!SaidOfPayload
  <2>5. CASE id = 4
    <3>1. s.coinbase_payload = d.coinbase_payload
      BY <1>4, <2>5 DEF Rows!Unwrapped, Rows!ColumnsOf
    <3>2. d.coinbase_payload = p.payload
      BY <1>1, <2>5 DEF d, p, Rows!Extract
    <3> QED
      BY <1>1, <2>5, <3>1, <3>2 DEF p, Rows!SaidOfPayload
  <2> QED
    BY <2>1, <2>2, <2>3, <2>4, <2>5
<1> QED
  BY <1>6, <1>7 DEF e, p, s

(* No row that was made of a transaction is refused when it is read. *)
LEMMA NoneMissing ==
  ASSUME NEW t, IsTx(t), t.payload.typeId \in 0..4, NEW r, MadeOf(r, t)
  PROVE  ~\E c \in Rows!Unwrapped(r.type_id) : Rows!Nullish(Rows!Parsed(r)[c])
<1>1. Rows!Parsed(r) = Rows!Extract(Decoded(t)) /\ r.type_id = t.payload.typeId
  BY RowParsed DEF MadeOf
<1>2. \A c \in Rows!ColumnsOf(t.payload.typeId) \ {"function_args"} : Rows!Extract(Decoded(t))[c] \in Held
  BY ExtractIs
<1> QED
  BY <1>1, <1>2, NotNull DEF Rows!Unwrapped, Rows!Nullish

(* The answer to a request for one transaction, if it is not a call that the
   contract found has not; *)
LEMMA ServedIs ==
  ASSUME NEW t, IsTx(t), t.payload.typeId \in 0..4, NEW r, MadeOf(r, t), NEW es,
         Rows!CanHaveEvents(t.payload.typeId) \/ es = <<>>
  PROVE  Rows!Served(r, es) =
           IF Rows!Unanswerable(Decoded(t)) THEN Rows!Failed("tx")
           ELSE [path |-> "tx", common |-> Rows!Common(r), data |-> Shown(t, Rows!ColumnsOf(t.payload.typeId)),
                 block |-> IF r.status = 0 THEN Rows!NotMined
                           ELSE [canonical |-> r.canonical, tx_result |-> r.raw_result],
                 events |-> IF Rows!CanHaveEvents(t.payload.typeId)
                            THEN [k \in DOMAIN es |-> Rows!ServedEvent(es[k])] ELSE <<>>]
<1> DEFINE e == Decoded(t)
           d == Rows!Extract(e)
           fails == \E c \in Rows!Unwrapped(r.type_id) : Rows!Nullish(Rows!Parsed(r)[c])
           odd == ~Rows!CanHaveEvents(r.type_id) /\ es # <<>>
           missed == r.type_id = 2 /\ ~Rows!Answerable(d.function_name, d.function_args)
<1>1. Rows!Parsed(r) = d /\ r.type_id = t.payload.typeId
  BY RowParsed DEF MadeOf
<1>2. ~fails /\ ~odd
  BY <1>1, NoneMissing
<1>3. missed <=> Rows!Unanswerable(e)
  <2>1. /\ e.typeId = t.payload.typeId
        /\ r.type_id = 2 => /\ d.function_name = e.payload.functionName
                            /\ d.function_args = IF e.payload.args = <<>> THEN Rows!Null ELSE e.payload.args
    BY <1>1, ExtractIs
  <2> HIDE DEF e, d
  <2> QED
    BY <1>1, <2>1 DEF Rows!Unanswerable, missed
<1>4. Rows!Served(r, es) =
        IF fails \/ missed \/ odd THEN Rows!Failed("tx")
        ELSE [path |-> "tx", common |-> Rows!Common(r), data |-> Rows!Present(d, Rows!ColumnsOf(r.type_id)),
              block |-> IF r.status = 0 THEN Rows!NotMined
                        ELSE [canonical |-> r.canonical, tx_result |-> r.raw_result],
              events |-> IF Rows!CanHaveEvents(r.type_id)
                         THEN [k \in DOMAIN es |-> Rows!ServedEvent(es[k])] ELSE <<>>]
  BY <1>1 DEF Rows!Served
<1> HIDE DEF fails, odd, missed
<1> QED
  BY <1>1, <1>2, <1>3, <1>4 DEF Shown

(* and to one for the mempool: nothing in it is missing, so it never fails. *)
LEMMA ListedIs ==
  ASSUME NEW t, IsTx(t), t.payload.typeId \in 0..4, NEW r, MadeOf(r, t)
  PROVE  Rows!Listed(r) =
           [path |-> "list", common |-> Rows!Common(r), data |-> Shown(t, Rows!Unwrapped(t.payload.typeId))]
<1>1. Rows!Parsed(r) = Rows!Extract(Decoded(t)) /\ r.type_id = t.payload.typeId
  BY RowParsed DEF MadeOf
<1>2. ~\E c \in Rows!ListUnwrapped(r.type_id) : Rows!Nullish(Rows!Parsed(r)[c])
  BY NoneMissing DEF Rows!ListUnwrapped
<1> QED
  BY <1>1, <1>2 DEF Rows!Listed, Shown

(* The ends of an event are found in its row again. *)
LEMMA EventServed ==
  ASSUME NEW v, Rows!IsEvent(v)
  PROVE  Rows!SaidOfEvent(v, Rows!ServedEvent(Rows!EventRow(v)))
<1> DEFINE r == Rows!EventRow(v)
           a == Rows!ServedEvent(r)
<1>1. /\ r.value = v.value /\ r.event_type = Rows!EventType(v)
      /\ r.sender = IF "sender" \in Rows!Ends(v) THEN v.sender ELSE Rows!Null
      /\ r.recipient = IF "recipient" \in Rows!Ends(v) THEN v.recipient ELSE Rows!Null
  BY DEF Rows!EventRow
<1>2. v.type \in Rows!EventTypes
  BY DEF Rows!IsEvent
<1>3. v.type = "contract_event" => r.event_type = 1
  BY <1>1 DEF Rows!EventType
<1>4. v.type # "contract_event" => r.event_type \in {2, 3, 4}
  BY <1>1, <1>2 DEF Rows!EventType, Rows!EventTypes
<1> HIDE DEF r
<1>5. /\ a.value = r.value
      /\ v.type # "contract_event" => a.sender = Rows!OrEmpty(r.sender) /\ a.recipient = Rows!OrEmpty(r.recipient)
  BY <1>2, <1>3, <1>4 DEF Rows!ServedEvent
<1> HIDE DEF a
<1>6. /\ "sender" \in DOMAIN v <=> "sender" \in Rows!Ends(v)
      /\ "recipient" \in DOMAIN v <=> "recipient" \in Rows!Ends(v)
      /\ "sender" \in Rows!Ends(v) => v.sender # Rows!Null
      /\ "recipient" \in Rows!Ends(v) => v.recipient # Rows!Null
  BY NotNull DEF Rows!IsEvent
<1>7. Rows!OrEmpty(r.sender) = IF "sender" \in DOMAIN v THEN v.sender ELSE <<>>
  BY <1>1, <1>6 DEF Rows!OrEmpty
<1>8. Rows!OrEmpty(r.recipient) = IF "recipient" \in DOMAIN v THEN v.recipient ELSE <<>>
  BY <1>1, <1>6 DEF Rows!OrEmpty
<1>9. Rows!SaidOfEvent(v, a)
  BY <1>1, <1>5, <1>7, <1>8 DEF Rows!SaidOfEvent
<1> QED
  BY <1>9 DEF a, r

(***************************************************************************)
(* The inductive invariant of Pipeline, and the theorems.                  *)
(***************************************************************************)
(* The row of t, mined with the result s, in a canonical block or in another. *)
Turned(r, c) == [r EXCEPT !.canonical = c]

TxRowOf(t, s, c) == Turned(Rows!TxRow(Decoded(t), s), c)

(* The row of txs and the event rows are those of what the node said. *)
Mined ==
  /\ said.result \in Results /\ said.events \in EventLists
  /\ Rows!CanHaveEvents(tx.payload.typeId) \/ said.events = <<>>
  /\ mined = TxRowOf(tx, said.result, mined.canonical)
  /\ events = [k \in DOMAIN said.events |-> Rows!EventRow(said.events[k])]

RowsInv ==
  /\ pool # Rows!NoRow \/ mined # Rows!NoRow => Known(tx)
  /\ pool \in {Rows!NoRow, Rows!MempoolRow(Decoded(tx))}
  /\ mined = Rows!NoRow \/ Mined
  /\ AnsweredAsAnnounced

PipeInv == WireInv /\ RowsInv

(* The rows that are stored are made of the transaction: in the mempool, *)
LEMMA MempoolRowIsMade ==
  ASSUME NEW t, IsTx(t), t.payload.typeId \in 0..4
  PROVE  /\ MadeOf(Rows!MempoolRow(Decoded(t)), t) /\ Rows!MempoolRow(Decoded(t)).status = 0
         /\ Rows!MempoolRow(Decoded(t)) # Rows!NoRow
<1>1. Decoded(t).typeId = t.payload.typeId /\ -1 \notin 0..4
  BY DEF Decoded
<1>2. /\ MadeOf(Rows!MempoolRow(Decoded(t)), t) /\ Rows!MempoolRow(Decoded(t)).status = 0
      /\ Rows!MempoolRow(Decoded(t)).type_id = t.payload.typeId
  BY <1>1 DEF MadeOf, Rows!MempoolRow
<1>3. Rows!NoRow.type_id = -1
  BY DEF Rows!NoRow
<1> QED
  BY <1>1, <1>2, <1>3

(* and in a block, whatever its flag. *)
LEMMA TxRowIsMade ==
  ASSUME NEW t, IsTx(t), t.payload.typeId \in 0..4, NEW s, NEW c, NEW r,
         r = TxRowOf(t, s, c)
  PROVE  /\ MadeOf(r, t) /\ r # Rows!NoRow /\ r.canonical = c
         /\ r.status = Rows!StatusCode(s.status) /\ r.raw_result = s.raw_result
<1>1. Decoded(t).typeId = t.payload.typeId /\ -1 \notin 0..4
  BY DEF Decoded
<1>2. /\ MadeOf(r, t) /\ r.type_id = t.payload.typeId /\ r.canonical = c
      /\ r.status = Rows!StatusCode(s.status) /\ r.raw_result = s.raw_result
  BY <1>1 DEF TxRowOf, Turned, MadeOf, Rows!TxRow, Rows!TxFee
<1>3. Rows!NoRow.type_id = -1
  BY DEF Rows!NoRow
<1> QED
  BY <1>1, <1>2, <1>3

(* What is answered of a row that was made of t, whichever path answers it. *)
LEMMA CommonIs ==
  ASSUME NEW t, IsTx(t), t.payload.typeId \in 0..4, NEW r, MadeOf(r, t)
  PROVE  /\ Rows!Common(r).tx_type = Rows!TypeString(t.payload.typeId)
         /\ Rows!Common(r).tx_status = Rows!StatusString(r.status)
         /\ Rows!Common(r).sender_address = Rows!Sender(Decoded(t))
         /\ Rows!Common(r).sponsor_address = Rows!Sponsor(Decoded(t))
         /\ \A q : MadeOf(q, t) =>
              [Rows!Common(q) EXCEPT !.tx_status = Rows!StatusString(r.status)] = Rows!Common(r)
  BY DEF MadeOf, Rows!Common

(* The status is shown as the node said it. *)
LEMMA StatusIs ==
  ASSUME NEW s \in Results
  PROVE  Rows!StatusCode(s.status) # 0 /\ Rows!StatusString(Rows!StatusCode(s.status)) = s.status
<1>1. s.status \in {"success", "abort_by_response", "abort_by_post_condition"}
  BY ResultsAssumption DEF Rows!IsResult
<1>2. CASE s.status = "success"
  <2>1. Rows!StatusCode(s.status) = 1
    BY <1>2 DEF Rows!StatusCode
  <2> QED
    BY <1>2, <2>1 DEF Rows!StatusString
<1>3. CASE s.status = "abort_by_response"
  <2>1. Rows!StatusCode(s.status) = -1
    BY <1>3 DEF Rows!StatusCode
  <2> QED
    BY <1>3, <2>1 DEF Rows!StatusString
<1>4. CASE s.status = "abort_by_post_condition"
  <2>1. Rows!StatusCode(s.status) = -2
    BY <1>4 DEF Rows!StatusCode
  <2> QED
    BY <1>4, <2>1 DEF Rows!StatusString
<1> QED
  BY <1>1, <1>2, <1>3, <1>4

(* The mempool shows the transaction as it was announced, *)
LEMMA ListAnswered ==
  ASSUME IsTx(tx), Known(tx), RowsInv, tx' = tx, Rows!GetMempool
  PROVE  AnsweredAsAnnounced'
<1> DEFINE id == tx.payload.typeId
           e == Decoded(tx)
           r == Rows!MempoolRow(e)
           fields == Rows!Unwrapped(id)
           a == [path |-> "list", common |-> Rows!Common(r), data |-> Shown(tx, fields)]
<1>1. id \in 0..4 /\ e.typeId = id
  BY DEF Known, Decoded
<1>2. pool = r /\ pool # Rows!NoRow /\ reply' = Rows!Listed(r) /\ pool' = pool /\ said' = said
  BY DEF Rows!GetMempool, RowsInv
<1>3. MadeOf(r, tx) /\ r.status = 0
  BY <1>1, MempoolRowIsMade
<1> HIDE DEF r
<1>4. reply' = a
  BY <1>1, <1>2, <1>3, ListedIs
<1>5. /\ a.common.tx_type = Rows!TypeString(id) /\ a.common.tx_status = "pending"
      /\ a.common.sender_address = Rows!Sender(e) /\ a.common.sponsor_address = Rows!Sponsor(e)
  BY <1>1, <1>3, CommonIs DEF Rows!StatusString
<1>6. Rows!SaidOfPayload(e, a.data)
  <2>1. fields \in SUBSET Rows!ColumnsOf(id)
    BY DEF Rows!Unwrapped
  <2> QED
    BY <1>1, <2>1, ShownSays
<1>7. a.path = "list"
  OBVIOUS
<1> HIDE DEF a, e
<1>8. Decoded(tx') = e
  BY DEF e
<1> QED
  BY <1>1, <1>2, <1>4, <1>5, <1>6, <1>7, <1>8 DEF AnsweredAsAnnounced, Rows!AnsweredAsAnnounced

(* and so does a request for it, with its result and its events if it was mined. *)
LEMMA TxAnswered ==
  ASSUME IsTx(tx), Known(tx), RowsInv, tx' = tx, Rows!GetTx
  PROVE  AnsweredAsAnnounced'
<1> DEFINE id == tx.payload.typeId
           e == Decoded(tx)
           r == IF pool # Rows!NoRow THEN pool ELSE mined
           es == IF pool # Rows!NoRow THEN <<>> ELSE events
           fields == Rows!ColumnsOf(id)
           block == IF r.status = 0 THEN Rows!NotMined ELSE [canonical |-> r.canonical, tx_result |-> r.raw_result]
           served == IF Rows!CanHaveEvents(id) THEN [k \in DOMAIN es |-> Rows!ServedEvent(es[k])] ELSE <<>>
           a == [path |-> "tx", common |-> Rows!Common(r), data |-> Shown(tx, fields),
                 block |-> block, events |-> served]
<1>1. id \in 0..4 /\ e.typeId = id
  BY DEF Known, Decoded
<1>2. reply' = Rows!Served(r, es) /\ pool' = pool /\ said' = said /\ contract' = contract
  BY DEF Rows!GetTx, Rows!Answer
<1>f. ASSUME reply' = Rows!Failed("tx"), Rows!Unanswerable(e) PROVE AnsweredAsAnnounced'
  <2>1. Decoded(tx') = e
    OBVIOUS
  <2> HIDE DEF e
  <2> QED
    BY <1>2, <1>f, <2>1 DEF AnsweredAsAnnounced, Rows!AnsweredAsAnnounced, Rows!Unanswerable, Rows!Answerable
<1>3. CASE pool # Rows!NoRow
  <2>1. MadeOf(r, tx) /\ r.status = 0 /\ es = <<>>
    BY <1>1, <1>3, MempoolRowIsMade DEF RowsInv
  <2>2. reply' = IF Rows!Unanswerable(e) THEN Rows!Failed("tx") ELSE a
    BY <1>1, <1>2, <2>1, ServedIs
  <2>3. /\ a.common.tx_type = Rows!TypeString(id) /\ a.common.tx_status = "pending"
        /\ a.common.sender_address = Rows!Sender(e) /\ a.common.sponsor_address = Rows!Sponsor(e)
    BY <1>1, <2>1, CommonIs DEF Rows!StatusString
  <2>4. /\ Rows!SaidOfPayload(e, a.data)
        /\ id = 2 /\ e.payload.args # <<>> => "function_args" \in DOMAIN a.data
    BY <1>1, ShownSays DEF Rows!Unwrapped
  <2>5. DOMAIN a.events = {}
    BY <2>1
  <2>6. a.path = "tx"
    OBVIOUS
  <2> HIDE DEF a, e
  <2>7. Decoded(tx') = e
    BY DEF e
  <2> QED
    BY <1>1, <1>2, <1>f, <1>3, <2>2, <2>3, <2>4, <2>5, <2>6, <2>7 DEF AnsweredAsAnnounced, Rows!AnsweredAsAnnounced
<1>4. CASE pool = Rows!NoRow
  <2>1. Mined /\ r = mined /\ es = events
    BY <1>4 DEF Rows!GetTx, RowsInv
  <2> DEFINE s == said.result
             list == said.events
  <2>2. s \in Results /\ list \in EventLists
    BY <2>1 DEF Mined
  <2>3. MadeOf(r, tx) /\ r.status = Rows!StatusCode(s.status) /\ r.raw_result = s.raw_result
    <3>1. r = TxRowOf(tx, s, mined.canonical)
      BY <2>1 DEF Mined
    <3> HIDE DEF r, s
    <3> QED
      BY <1>1, <3>1, TxRowIsMade
  <2>4. Rows!CanHaveEvents(id) \/ list = <<>>
    BY <2>1 DEF Mined
  <2>5. /\ Len(list) \in Nat /\ DOMAIN list = 1..Len(list)
        /\ \A k \in DOMAIN list : Rows!IsEvent(list[k])
    BY <2>2, EventsAssumption
  <2>6. es = [k \in DOMAIN list |-> Rows!EventRow(list[k])]
    BY <2>1 DEF Mined
  <2>7. Rows!CanHaveEvents(id) \/ es = <<>>
    BY <2>4, <2>6
  <2>8. reply' = IF Rows!Unanswerable(e) THEN Rows!Failed("tx") ELSE a
    BY <1>1, <1>2, <2>3, <2>7, ServedIs
  <2>9. a.common.tx_status = s.status /\ r.status # 0
    <3>1. a.common.tx_status = Rows!StatusString(r.status)
      BY <1>1, <2>3, CommonIs
    <3> QED
      BY <2>2, <2>3, <3>1, StatusIs
  <2>10. /\ a.common.tx_type = Rows!TypeString(id)
         /\ a.common.sender_address = Rows!Sender(e) /\ a.common.sponsor_address = Rows!Sponsor(e)
    BY <1>1, <2>3, CommonIs
  <2>11. /\ Rows!SaidOfPayload(e, a.data)
         /\ id = 2 /\ e.payload.args # <<>> => "function_args" \in DOMAIN a.data
    BY <1>1, ShownSays DEF Rows!Unwrapped
  <2>12. a.block.tx_result = s.raw_result
    BY <2>3, <2>9
  <2>13. Len(served) = Len(list) /\ DOMAIN served = DOMAIN list
    <3>1. CASE Rows!CanHaveEvents(id)
      <4>1. served = [k \in 1..Len(list) |-> Rows!ServedEvent(es[k])]
        BY <2>5, <2>6, <3>1
      <4> HIDE DEF served
      <4> QED
        BY <2>5, <4>1
    <3>2. CASE ~Rows!CanHaveEvents(id)
      BY <2>4, <3>2
    <3> QED
      BY <3>1, <3>2
  <2>14. \A k \in DOMAIN served : Rows!SaidOfEvent(list[k], served[k])
    <3> SUFFICES ASSUME NEW k \in DOMAIN served PROVE Rows!SaidOfEvent(list[k], served[k])
      OBVIOUS
    <3>1. k \in DOMAIN list /\ Rows!IsEvent(list[k])
      BY <2>5, <2>13
    <3>2. Rows!CanHaveEvents(id)
      BY <2>4, <3>1
    <3>3. served[k] = Rows!ServedEvent(es[k]) /\ es[k] = Rows!EventRow(list[k])
      BY <2>6, <3>1, <3>2
    <3> QED
      BY <3>1, <3>3, EventServed
  <2>15. a.path = "tx"
    OBVIOUS
  <2>16. a.events = served
    OBVIOUS
  <2> HIDE DEF a, e, served
  <2>17. Decoded(tx') = e
    BY DEF e
  <2> QED
    BY <1>1, <1>2, <1>f, <1>4, <2>8, <2>9, <2>10, <2>11, <2>12, <2>13, <2>14, <2>15, <2>16, <2>17
    DEF AnsweredAsAnnounced, Rows!AnsweredAsAnnounced
<1> QED
  BY <1>3, <1>4

(* A reorganisation changes the flag of a row and nothing else. *)
LEMMA Flagged ==
  ASSUME NEW t, NEW s, NEW c
  PROVE  /\ TxRowOf(t, s, c).canonical = c
         /\ \A b : Turned(TxRowOf(t, s, c), b) = TxRowOf(t, s, b)
         /\ Rows!TxRow(Decoded(t), s) = TxRowOf(t, s, TRUE)
<1> DEFINE r == Rows!TxRow(Decoded(t), s)
           cols == {"type_id", "status", "fee_rate", "sender", "sponsored", "sponsor", "mode", "data",
                    "canonical", "raw_result"}
<1>1. r = [x \in cols |-> r[x]] /\ r.canonical = TRUE /\ "canonical" \in cols
  BY DEF Rows!TxRow
<1>2. r \in [cols -> {r[x] : x \in cols}]
  BY <1>1
<1> HIDE DEF r, cols
<1>3. [r EXCEPT !.canonical = c].canonical = c
  BY <1>1, <1>2
<1>4. \A b : [[r EXCEPT !.canonical = c] EXCEPT !.canonical = b] = [r EXCEPT !.canonical = b]
  BY <1>1, <1>2
<1>5. r = [r EXCEPT !.canonical = TRUE]
  BY <1>1, <1>2
<1> QED
  BY <1>3, <1>4, <1>5 DEF TxRowOf, Turned, r

(* Nothing is claimed of no answer. *)
LEMMA NoReply ==
  ASSUME reply' = Rows!NoAnswer
  PROVE  AnsweredAsAnnounced'
  BY DEF AnsweredAsAnnounced, Rows!AnsweredAsAnnounced, Rows!NoAnswer

(* Steps of the reader do not touch the rows. *)
LEMMA RowsStay ==
  ASSUME RowsInv, tx' = tx, UNCHANGED <<said, pool, mined, events, contract, reply>>
  PROVE  RowsInv'
<1>1. /\ said' = said /\ pool' = pool /\ mined' = mined /\ events' = events /\ contract' = contract /\ reply' = reply
  OBVIOUS
<1>2. Decoded(tx') = Decoded(tx) /\ Known(tx') = Known(tx)
  OBVIOUS
<1>3. AnsweredAsAnnounced'
  BY <1>1, <1>2 DEF RowsInv, AnsweredAsAnnounced, Rows!AnsweredAsAnnounced, Rows!Unanswerable, Rows!Answerable
<1>4. mined' = Rows!NoRow \/ Mined'
  BY <1>1, <1>2 DEF RowsInv, Mined
<1> QED
  BY <1>1, <1>2, <1>3, <1>4 DEF RowsInv

(* A row stays what it is while it is in its table. *)
LEMMA MinedStays ==
  ASSUME RowsInv, tx' = tx, UNCHANGED <<said, mined, events>>
  PROVE  mined' = Rows!NoRow \/ Mined'
  BY DEF RowsInv, Mined

(* What the node announces and what a reorganisation does leave the rows with
   the values that were sent. *)
LEMMA RowsStep ==
  ASSUME tx \in Txs, Known(tx), RowsInv, tx' = tx, Rows!Next
  PROVE  RowsInv'
<1>1. IsTx(tx) /\ Decoded(tx') = Decoded(tx) /\ Known(tx') /\ tx'.payload.typeId = tx.payload.typeId
  BY TxsAssumption
<1>2. CASE Rows!AnnounceTx
  <2>1. reply' = Rows!NoAnswer /\ UNCHANGED <<said, mined, events>>
    BY <1>2 DEF Rows!AnnounceTx
  <2>2. pool' \in {pool, Rows!MempoolRow(Decoded(tx))}
    BY <1>2 DEF Rows!AnnounceTx
  <2>3. pool' \in {Rows!NoRow, Rows!MempoolRow(Decoded(tx'))}
    BY <1>1, <2>2 DEF RowsInv
  <2> QED
    BY <1>1, <2>1, <2>3, MinedStays, NoReply DEF RowsInv
<1>3. CASE Rows!AnnounceBlock
  <2>1. reply' = Rows!NoAnswer
    BY <1>3 DEF Rows!AnnounceBlock
  <2>2. CASE ~Rows!Understood(Decoded(tx))
    <3>1. UNCHANGED <<said, pool, mined, events>>
      BY <1>3, <2>2 DEF Rows!AnnounceBlock
    <3> QED
      BY <1>1, <2>1, <3>1, MinedStays, NoReply DEF RowsInv
  <2>3. CASE Rows!Understood(Decoded(tx))
    <3>1. PICK result \in Results, list \in EventLists :
            /\ Rows!CanHaveEvents(Decoded(tx).typeId) \/ list = <<>>
            /\ said' = [result |-> result, events |-> list]
            /\ mined' = Rows!TxRow(Decoded(tx), result)
            /\ events' = [k \in DOMAIN list |-> Rows!EventRow(list[k])]
            /\ pool' = Rows!NoRow
      BY <1>3, <2>3 DEF Rows!AnnounceBlock
    <3>2. said'.result = result /\ said'.events = list
      BY <3>1
    <3>3. mined' = TxRowOf(tx', result, mined'.canonical)
      <4>1. mined' = TxRowOf(tx, result, TRUE)
        BY <3>1, Flagged
      <4>2. TxRowOf(tx, result, TRUE).canonical = TRUE
        BY Flagged
      <4> QED
        BY <4>1, <4>2
    <3>4. Decoded(tx).typeId = tx.payload.typeId
      BY DEF Decoded
    <3>5. Mined'
      BY <1>1, <3>1, <3>2, <3>3, <3>4 DEF Mined
    <3> QED
      BY <1>1, <2>1, <3>1, <3>5, NoReply DEF RowsInv
  <2> QED
    BY <2>2, <2>3
<1>4. CASE Rows!Reorganise
  <2>1. /\ mined # Rows!NoRow /\ mined' = Turned(mined, ~mined.canonical)
        /\ pool' \in {Rows!NoRow, pool} /\ reply' = Rows!NoAnswer /\ said' = said /\ events' = events
    BY <1>4 DEF Rows!Reorganise, Turned
  <2>2. Mined
    BY <2>1 DEF RowsInv
  <2>3. mined = TxRowOf(tx, said.result, mined.canonical)
    BY <2>2 DEF Mined
  <2> DEFINE x == said.result
             c == mined.canonical
             b == ~mined.canonical
  <2>4. mined' = TxRowOf(tx, x, b) /\ mined'.canonical = b
    <3>1. mined = TxRowOf(tx, x, c) /\ mined' = Turned(mined, b)
      BY <2>1, <2>3
    <3> HIDE DEF x, c, b
    <3>2. Turned(TxRowOf(tx, x, c), b) = TxRowOf(tx, x, b) /\ TxRowOf(tx, x, b).canonical = b
      BY Flagged
    <3> QED
      BY <3>1, <3>2
  <2>5. mined' = TxRowOf(tx', said'.result, mined'.canonical)
    <3> HIDE DEF b
    <3> QED
      BY <2>1, <2>4
  <2>6. Mined'
    BY <1>1, <2>1, <2>2, <2>5 DEF Mined
  <2> QED
    BY <1>1, <2>1, <2>6, NoReply DEF RowsInv
<1>5. CASE Rows!GetTx
  <2>1. UNCHANGED <<said, pool, mined, events>>
    BY <1>5 DEF Rows!GetTx
  <2>2. AnsweredAsAnnounced'
    BY <1>1, <1>5, TxAnswered
  <2> QED
    BY <1>1, <2>1, <2>2, MinedStays DEF RowsInv
<1>6. CASE Rows!GetMempool
  <2>1. UNCHANGED <<said, pool, mined, events>>
    BY <1>6 DEF Rows!GetMempool
  <2>2. AnsweredAsAnnounced'
    BY <1>1, <1>6, ListAnswered
  <2> QED
    BY <1>1, <2>1, <2>2, MinedStays DEF RowsInv
<1>7. CASE Rows!StoreContract
  <2>1. UNCHANGED <<said, pool, mined, events>> /\ reply' = Rows!NoAnswer
    BY <1>7 DEF Rows!StoreContract
  <2> QED
    BY <1>1, <2>1, MinedStays, NoReply DEF RowsInv
<1> QED
  BY <1>2, <1>3, <1>4, <1>5, <1>6, <1>7 DEF Rows!Next

(* Every step is a step of the reader or of the rows, which are of a transaction
   that was read to its end. *)
LEMMA PipeStep ==
  ASSUME PipeInv, PipeNext
  PROVE  /\ [WireNext]_wireVars /\ tx' = tx
         /\ UNCHANGED rows \/ (Known(tx) /\ Rows!Next)
<1>1. tx \in Txs /\ IsTx(tx) /\ WireInv
  BY TxsAssumption DEF PipeInv, WireInv
<1>2. WireNext => tx' = tx
  BY <1>1, FromDecode, FromStored, FromConditions, FromArgs, NothingMore DEF WireInv
<1>3. CASE ReadOn
  <2>1. WireNext /\ UNCHANGED rows
    BY <1>3 DEF ReadOn, WireNext
  <2> QED
    BY <1>2, <2>1
<1>4. CASE StoreRows
  <2>1. WireNext /\ Rows!Next
    BY <1>4 DEF StoreRows, WireNext, Rows!Next
  <2>2. stage = "decode" /\ stage' = "stored"
    BY <1>4 DEF StoreRows, Store
  <2>3. InDecode
    BY <1>1, <2>2 DEF WireInv, InStored, InConditions, InArgs, InAnswered, InThrown
  <2>4. tx' = tx /\ (InDecode' \/ InStored' \/ InThrown')
    BY <1>1, <2>1, <2>3, FromDecode
  <2>5. Known(tx)
    <3>1. InStored'
      BY <2>2, <2>4 DEF InDecode, InThrown
    <3>2. Known(tx')
      BY <3>1 DEF InStored
    <3> QED
      BY <2>4, <3>2
  <2> QED
    BY <1>2, <2>1, <2>5
<1>5. CASE UseRows
  <2>1. stage = "answered" /\ UNCHANGED wireVars /\ Rows!Next
    BY <1>5 DEF UseRows, Rows!Next
  <2>2. Known(tx)
    BY <1>1, <2>1 DEF WireInv, InDecode, InStored, InConditions, InArgs, InAnswered, InThrown
  <2>3. tx' = tx
    BY <2>1 DEF wireVars
  <2> QED
    BY <2>1, <2>2, <2>3
<1> QED
  BY <1>3, <1>4, <1>5 DEF PipeNext

(* The invariant of Pipeline: at the start, and in every step. *)
LEMMA PipeInvInit ==
  ASSUME PipeInit
  PROVE  PipeInv
<1>1. WireInv
  BY WireInvInit DEF PipeInit
<1>2. pool = Rows!NoRow /\ mined = Rows!NoRow /\ reply = Rows!NoAnswer
  BY DEF PipeInit, Rows!NoRows
<1>3. AnsweredAsAnnounced
  BY <1>2 DEF AnsweredAsAnnounced, Rows!AnsweredAsAnnounced, Rows!NoAnswer
<1> QED
  BY <1>1, <1>2, <1>3 DEF PipeInv, RowsInv

LEMMA PipeInvNext ==
  ASSUME PipeInv, [PipeNext]_<<wireVars, rows>>
  PROVE  PipeInv'
<1>1. CASE PipeNext
  <2>1. [WireNext]_wireVars /\ tx' = tx /\ (UNCHANGED rows \/ (Known(tx) /\ Rows!Next))
    BY <1>1, PipeStep
  <2>2. WireInv'
    BY <2>1, WireInvNext DEF PipeInv
  <2>3. CASE UNCHANGED rows
    <3>1. RowsInv'
      BY <2>1, <2>3, RowsStay DEF PipeInv, rows
    <3> QED
      BY <2>2, <3>1 DEF PipeInv
  <2>4. CASE Known(tx) /\ Rows!Next
    <3>1. RowsInv'
      BY <2>1, <2>4, RowsStep DEF PipeInv, WireInv
    <3> QED
      BY <2>2, <3>1 DEF PipeInv
  <2> QED
    BY <2>1, <2>3, <2>4
<1>2. CASE UNCHANGED <<wireVars, rows>>
  <2>1. WireInv'
    BY <1>2, WireInvNext DEF PipeInv
  <2>2. tx' = tx
    BY <1>2 DEF wireVars
  <2>3. RowsInv'
    BY <1>2, <2>2, RowsStay DEF PipeInv, rows
  <2> QED
    BY <2>1, <2>3 DEF PipeInv
<1> QED
  BY <1>1, <1>2

(* The inductive invariant: at each stage of the reader, what is left of the
   bytes is what the reads still to be made take; and the rows of a transaction
   are those of the values it was sent with. *)
THEOREM Invariance == PipeSpec => []PipeInv
<1>1. PipeInit => PipeInv
  BY PipeInvInit
<1>2. PipeInv /\ [PipeNext]_<<wireVars, rows>> => PipeInv'
  BY PipeInvNext
<1> QED
  BY <1>1, <1>2, PTL DEF PipeSpec

(* A transaction is stored with the values it was sent with, but for an amount of
   STX of 2^63 or more, stored as the negative number of the same bytes, and refused
   only when it has a type byte that no enum has, whatever its fields hold and
   however many there are of them (Wire). *)
THEOREM BytesAreDecodedAsSent == PipeSpec => []DecodedAsSent
<1>1. PipeInv => DecodedAsSent
  BY WireInvSuffices DEF PipeInv
<1> QED
  BY <1>1, Invariance, PTL

(* The slices that are stored as they are, read again on their own, give the
   mode, the post conditions and the arguments that were sent, but for the sign of
   such an amount (Wire). *)
THEOREM SlicesAreAnsweredAsSent == PipeSpec => []AnsweredAsSent
<1>1. PipeInv => AnsweredAsSent
  BY WireInvSuffices DEF PipeInv
<1> QED
  BY <1>1, Invariance, PTL

(* Only the lookup of a call that the contract found has not throws, and what is
   answered is what the node said, whatever blocks and reorganisations made of the
   rows and of the contract (Convert). *)
THEOREM AnswersAreAsAnnounced == PipeSpec => []AnsweredAsAnnounced
<1>1. PipeInv => AnsweredAsAnnounced
  BY DEF PipeInv, RowsInv
<1> QED
  BY <1>1, Invariance, PTL

(* Being mined changes nothing that was answered of a pending transaction but
   its status (Convert). *)
LEMMA MiningStep ==
  ASSUME PipeInv, PipeInv', [PipeNext]_<<wireVars, rows>>, pool # Rows!NoRow, pool' = Rows!NoRow
  PROVE  LET before == Rows!Served(pool, <<>>)
             after == Rows!Served(mined', events')
         IN
         \/ before = Rows!Failed("tx") /\ after = Rows!Failed("tx")
         \/ /\ before.path = "tx" /\ after.path = "tx"
            /\ before.data = after.data
            /\ [before.common EXCEPT !.tx_status = after.common.tx_status] = after.common
<1> DEFINE fields == Rows!ColumnsOf(tx.payload.typeId)
           m == mined'
           es == events'
           fails == Rows!Unanswerable(Decoded(tx))
<1>1. PipeNext
  BY DEF rows
<1>2. tx' = tx /\ Known(tx) /\ Rows!Next
  BY <1>1, PipeStep DEF rows
<1>3. IsTx(tx) /\ tx.payload.typeId \in 0..4
  BY <1>2, TxsAssumption DEF PipeInv, WireInv, Known
<1>4. pool = Rows!MempoolRow(Decoded(tx))
  BY DEF PipeInv, RowsInv
<1>5. MadeOf(pool, tx)
  BY <1>3, <1>4, MempoolRowIsMade
<1>6. mined' # Rows!NoRow
  <2>1. CASE Rows!AnnounceBlock
    <3>1. PICK result : mined' = Rows!TxRow(Decoded(tx), result)
      BY <2>1 DEF Rows!AnnounceBlock
    <3>2. mined' = TxRowOf(tx, result, TRUE)
      BY <3>1, Flagged
    <3> QED
      BY <1>3, <3>2, TxRowIsMade
  <2>2. CASE Rows!Reorganise
    <3>1. mined # Rows!NoRow /\ mined' = Turned(mined, ~mined.canonical)
      BY <2>2 DEF Rows!Reorganise, Turned
    <3>2. mined = TxRowOf(tx, said.result, mined.canonical)
      BY <3>1 DEF PipeInv, RowsInv, Mined
    <3> DEFINE x == said.result
               c == mined.canonical
               b == ~mined.canonical
    <3>3. mined = TxRowOf(tx, x, c) /\ mined' = Turned(mined, b)
      BY <3>1, <3>2
    <3> HIDE DEF x, c, b
    <3>4. mined' = TxRowOf(tx, x, b)
      BY <3>3, Flagged
    <3> QED
      BY <1>3, <3>4, TxRowIsMade
  <2>3. CASE Rows!AnnounceTx
    BY <2>3 DEF Rows!AnnounceTx
  <2>4. CASE Rows!GetTx \/ Rows!GetMempool \/ Rows!StoreContract
    BY <2>4 DEF Rows!GetTx, Rows!GetMempool, Rows!StoreContract
  <2> QED
    BY <1>2, <2>1, <2>2, <2>3, <2>4 DEF Rows!Next
<1>7. Mined'
  BY <1>6 DEF PipeInv, RowsInv
<1>8. m = TxRowOf(tx, said'.result, m.canonical)
  BY <1>2, <1>7 DEF Mined
<1>9. Rows!CanHaveEvents(tx.payload.typeId) \/ es = <<>>
  BY <1>2, <1>7 DEF Mined
<1> HIDE DEF m, es
<1>10. MadeOf(m, tx)
  BY <1>3, <1>8, TxRowIsMade
<1> DEFINE before == Rows!Served(pool, <<>>)
           after == Rows!Served(m, es)
<1>11. IF fails THEN before = Rows!Failed("tx")
       ELSE before.path = "tx" /\ before.data = Shown(tx, fields) /\ before.common = Rows!Common(pool)
  BY <1>3, <1>5, ServedIs
<1>12. IF fails THEN after = Rows!Failed("tx")
       ELSE after.path = "tx" /\ after.data = Shown(tx, fields) /\ after.common = Rows!Common(m)
  BY <1>3, <1>9, <1>10, ServedIs
<1> HIDE DEF before, after, fails
<1>13. [Rows!Common(pool) EXCEPT !.tx_status = Rows!Common(m).tx_status] = Rows!Common(m)
  <2>1. Rows!Common(m).tx_status = Rows!StatusString(m.status)
    BY <1>3, <1>10, CommonIs
  <2>2. [Rows!Common(pool) EXCEPT !.tx_status = Rows!StatusString(m.status)] = Rows!Common(m)
    BY <1>3, <1>5, <1>10, CommonIs
  <2> QED
    BY <2>1, <2>2
<1> QED
  BY <1>11, <1>12, <1>13 DEF before, after, m, es

(* Being mined changes nothing that was answered of a pending transaction but
   its status (Convert). *)
THEOREM MiningTakesNothing == PipeSpec => MiningOnlyAdds
<1>1. PipeInv /\ PipeInv' /\ [PipeNext]_<<wireVars, rows>> =>
        [pool # Rows!NoRow /\ pool' = Rows!NoRow =>
           LET before == Rows!Served(pool, <<>>)  after == Rows!Served(mined', events') IN
           \/ before = Rows!Failed("tx") /\ after = Rows!Failed("tx")
           \/ /\ before.path = "tx" /\ after.path = "tx"
              /\ before.data = after.data
              /\ [before.common EXCEPT !.tx_status = after.common.tx_status] = after.common]_Rows!vars
  BY MiningStep
<1> QED
  BY <1>1, Invariance, PTL DEF PipeSpec, MiningOnlyAdds, Rows!MiningOnlyAdds

=============================================================================
