---- MODULE PacketCodec ----
(***************************************************************************)
(* PacketWriter and PacketReader (src/pkg/network): little-endian integers *)
(* and null-terminated UTF-16 strings.                                     *)
(*                                                                         *)
(* The widths are parameters, so that every value can be tried: a byte     *)
(* has Base values, a surrogate half carries SurrogateSize of them.  A     *)
(* string is a sequence of code points.                                    *)
(***************************************************************************)
EXTENDS Integers, Sequences, SequencesExt

CONSTANTS
    Base,           \* 2^8
    HighSurrogate,  \* 0xD800
    LowSurrogate,   \* 0xDC00
    SurrogateSize   \* 2^10

\* Values[n]: how many values n bytes have, and how many a code unit has.
Values[n \in 0 .. 8] == IF n = 0 THEN 1 ELSE Base * Values[n - 1]
Units == Base * Base

ASSUME BaseAssumption == Base \in Nat /\ Base > 1
ASSUME SurrogateAssumption ==
    /\ HighSurrogate \in Nat \ {0} /\ SurrogateSize \in Nat \ {0}
    /\ HighSurrogate + SurrogateSize = LowSurrogate
    /\ LowSurrogate + SurrogateSize <= Units

\* The conversions between signed and unsigned integers of n bytes.
ToUnsigned(v, n) == v % Values[n]
ToSigned(u, n) == IF 2 * u >= Values[n] THEN u - Values[n] ELSE u
----
(***************************************************************************)
(* PacketWriter: a buffer is a sequence of bytes.                          *)
(***************************************************************************)

\* The broken form: the bytes are in network order.
PutUintBigEndian(u, n) == [i \in 1 .. n |-> (u \div Values[n - i]) % Base]

\* binary.LittleEndian.PutUint of n bytes.
PutUint(u, n) == [i \in 1 .. n |-> (u \div Values[i - 1]) % Base]

\* WriteInt16, WriteInt32 and WriteInt64, and WriteByte for n = 1.
WriteInt(buf, v, n) == buf \o PutUint(ToUnsigned(v, n), n)

\* utf16.EncodeRune for a code point beyond the 2-byte ones.
EncodeRune(r) ==
    <<HighSurrogate + ((r - Units) \div SurrogateSize),
      LowSurrogate + ((r - Units) % SurrogateSize)>>

\* The code units of the first i code points, for every i.
UnitsOf(s) ==
    LET units[i \in 0 .. Len(s)] ==
          IF i = 0 THEN <<>>
          ELSE units[i - 1] \o IF s[i] < Units THEN <<s[i]>> ELSE EncodeRune(s[i])
    IN  units

CodeUnits(s) == UnitsOf(s)[Len(s)]

\* PutUint16 of one code unit after the other.
UnitBytes(units) ==
    [j \in 1 .. 2 * Len(units) |->
       PutUint(units[(j + 1) \div 2], 2)[IF j % 2 = 1 THEN 1 ELSE 2]]

\* WriteString: the code units and a zero.
WriteString(buf, s) == buf \o UnitBytes(CodeUnits(s)) \o <<0, 0>>
----
(***************************************************************************)
(* PacketReader: a buffer and a position; a read yields a value and the    *)
(* next position, or an error.                                             *)
(***************************************************************************)
OutOfBounds == [ok |-> FALSE]

\* binary.LittleEndian.Uint of the bytes; the sum of the first i, for every i.
SumOf(bytes) ==
    LET sum[i \in 0 .. Len(bytes)] ==
          IF i = 0 THEN 0 ELSE sum[i - 1] + bytes[i] * Values[i - 1]
    IN  sum

GetUint(bytes) == SumOf(bytes)[Len(bytes)]

\* ReadByte, ReadInt16, ReadInt32 and ReadInt64.
ReadInt(buf, pos, n) ==
    IF pos + n > Len(buf) THEN OutOfBounds
    ELSE [ok |-> TRUE, pos |-> pos + n,
          val |-> LET u == GetUint(SubSeq(buf, pos + 1, pos + n))
                  IN  IF n = 1 THEN u ELSE ToSigned(u, n)]

IsHigh(u) == u \in HighSurrogate .. LowSurrogate - 1
IsLow(u) == u \in LowSurrogate .. LowSurrogate + SurrogateSize - 1

\* A pair of surrogates starts at code unit i.
PairAt(units, i) ==
    /\ i \in 1 .. Len(units) - 1
    /\ IsHigh(units[i]) /\ IsLow(units[i + 1])

\* utf16.Decode of a well-formed sequence of code units; the code points of the
\* first i units, for every i.
DecodeOf(units) ==
    LET runes[i \in 0 .. Len(units)] ==
          IF i = 0 THEN <<>>
          ELSE IF PairAt(units, i) THEN runes[i - 1]
          ELSE Append(runes[i - 1],
                      IF PairAt(units, i - 1)
                      THEN Units + (units[i - 1] - HighSurrogate) * SurrogateSize
                                 + (units[i] - LowSurrogate)
                      ELSE units[i])
    IN  runes

Decode(units) == DecodeOf(units)[Len(units)]

\* The broken form: a zero code unit is looked for at odd offsets too.
TerminatorsAnywhere(buf, pos) ==
    {i \in 0 .. Len(buf) - pos - 2 : buf[pos + i + 1] = 0 /\ buf[pos + i + 2] = 0}

\* The offsets from pos at which the loops of ReadString and SkipString find a
\* zero code unit.
Terminators(buf, pos) ==
    {i \in 0 .. Len(buf) - pos - 2 :
       i % 2 = 0 /\ buf[pos + i + 1] = 0 /\ buf[pos + i + 2] = 0}

ReadString(buf, pos) ==
    IF Terminators(buf, pos) = {} THEN OutOfBounds
    ELSE LET end == Min(Terminators(buf, pos))
         IN  [ok |-> TRUE, pos |-> pos + end + 2,
              val |-> Decode([i \in 1 .. end \div 2 |->
                                GetUint(SubSeq(buf, pos + 2*i - 1, pos + 2*i))])]

\* SkipString moves as ReadString does.
SkipString(buf, pos) ==
    IF Terminators(buf, pos) = {} THEN OutOfBounds
    ELSE [ok |-> TRUE, pos |-> pos + Min(Terminators(buf, pos)) + 2]
----
(***************************************************************************)
(* Packets of fields, as the handlers write and read them.                 *)
(***************************************************************************)
CONSTANTS
    IntSizes,   \* the sizes in bytes of the integers tried
    Alphabet,   \* the code points of the strings tried; 0 ends a string
    MaxString   \* their length

\* The code points but 0; a surrogate is none.
CodePoints ==
    ((1 .. Units - 1) \ (HighSurrogate .. LowSurrogate + SurrogateSize - 1))
      \cup (Units .. Units + SurrogateSize * SurrogateSize - 1)

ASSUME IntSizesAssumption == IntSizes \subseteq 1 .. 8
ASSUME AlphabetAssumption == Alphabet \subseteq CodePoints /\ MaxString \in Nat

Integral(n) == [n : {n}, v : IF n = 1 THEN 0 .. Base - 1
                             ELSE -(Values[n] \div 2) .. Values[n] \div 2 - 1]
Strings == [n : {0}, v : BoundedSeq(Alphabet, MaxString)]
Fields == Strings \cup UNION {Integral(n) : n \in IntSizes}

WriteField(buf, f) == IF f.n = 0 THEN WriteString(buf, f.v) ELSE WriteInt(buf, f.v, f.n)

ReadField(buf, pos, f) == IF f.n = 0 THEN ReadString(buf, pos) ELSE ReadInt(buf, pos, f.n)

\* Reading f and then g: what a handler gets.
ReadTwo(buf, f, g) ==
    LET first == ReadField(buf, 0, f)
    IN  IF ~first.ok THEN OutOfBounds
        ELSE LET second == ReadField(buf, first.pos, g)
             IN  IF ~second.ok THEN OutOfBounds
                 ELSE [ok |-> TRUE, pos |-> second.pos, val |-> <<first.val, second.val>>]
----
(***************************************************************************)
(* The user name in the decrypted blocks of a login packet, as bytes of    *)
(* ASCII: one field, or two when the packet has two blocks.                *)
(***************************************************************************)
Blanks == {0, 32}

\* The broken form: the name ends at the first blank, as a C string does.
CleanBytesToFirst(b) ==
    LET blank == {i \in DOMAIN b : b[i] \in Blanks}
    IN  IF blank = {} THEN b ELSE SubSeq(b, 1, Min(blank) - 1)

\* cleanBytesToString.
CleanBytes(b) ==
    LET kept == {i \in DOMAIN b : b[i] \notin Blanks}
    IN  IF kept = {} THEN <<>> ELSE SubSeq(b, Min(kept), Max(kept))

\* strings.ToLower.
ToLower(s) == [i \in DOMAIN s |-> IF s[i] \in 65 .. 90 THEN s[i] + 32 ELSE s[i]]

\* decodeCredentials.
DecodeName(field1, field2) == ToLower(CleanBytes(field1) \o CleanBytes(field2))

\* What the client puts into a field of the given size.
FieldOf(s, size) == [i \in 1 .. size |-> IF i <= Len(s) THEN s[i] ELSE 0]
====
