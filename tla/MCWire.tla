---- MODULE MCWire ----
(***************************************************************************)
(* Wire on a small instance, and the formats and algorithms on all small   *)
(* inputs.                                                                 *)
(***************************************************************************)
EXTENDS WirePackets, Bitwise

CONSTANTS busy   \* the connection that sends packets

PacketBound == [c \in Conns |-> IF c = busy THEN 3 ELSE 0]

WriterSymmetry == Permutations(Writers)

BitXor(a, b) == a ^^ b

\* Keys of up to three digits.
ShortKeys == {<<>>, <<1>>, <<0, 1>>, <<1, 1, 0>>}

\* Packets of four and of six words, each word one of three.
ShortPackets == UNION {[1 .. n -> {0, 1, Word - 1}] : n \in {4, 6}}

\* p < q and q < p, with d prime to (p - 1)(q - 1).
SmallKeys == {<<3, 11, 7>>, <<11, 3, 3>>, <<5, 7, 5>>, <<7, 5, 11>>, <<13, 3, 5>>}

\* A blank, two letters and one in upper case.
FewChars == {32, 65, 97, 98}

TwoFields == <<3, 2>>
====
