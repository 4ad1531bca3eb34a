---- MODULE PacketCipher ----
(***************************************************************************)
(* The algorithms that packets and credentials go through: the Blowfish    *)
(* cipher (src/pkg/crypto/blowfish_cipher.go), the padding and the XOR     *)
(* pass of a first packet (src/internal/crypto/crypt.go), and the RSA key  *)
(* with its scrambled modulus (src/pkg/crypto/scrambled_key.go).           *)
(*                                                                         *)
(* A word is 4 digits of Digit values instead of 4 bytes; the tables that  *)
(* Blowfish starts from are any of that size.  Of the XOR of two words     *)
(* only what the assumption says is used.                                  *)
(***************************************************************************)
EXTENDS Integers, Sequences, SequencesExt

CONSTANTS
    Digit,         \* 2^8
    WordXor(_, _)  \* the operator ^ on uint32

Word == Digit * Digit * Digit * Digit
Words == 0 .. Word - 1

ASSUME DigitAssumption == Digit \in Nat \ {0}
ASSUME XorAssumption ==
    \A a, b \in Words : WordXor(a, b) \in Words /\ WordXor(WordXor(a, b), b) = a
----
(***************************************************************************)
(* Blowfish.  A cipher is [p |-> pArray, s |-> sBoxes], indexed from 0.    *)
(***************************************************************************)
Boxes == 0 .. 3
Ciphers == [p : [0 .. 17 -> Words], s : [Boxes -> [0 .. Digit - 1 -> Words]]]

\* parrayInit and sboxInit0 .. sboxInit3 stand for fixed arbitrary tables.
InitialTables ==
    [p |-> [i \in 0 .. 17 |-> (7 * i + 3) % Word],
     s |-> [box \in Boxes |-> [i \in 0 .. Digit - 1 |-> (5 * box + 11 * i + 2) % Word]]]

\* byte(x >> 24), byte(x >> 16), byte(x >> 8) and byte(x).
BigEndianDigits(x) ==
    LET y == x \div Digit  z == y \div Digit  w == z \div Digit
    IN  [i \in Boxes |-> <<w, z, y, x>>[i + 1] % Digit]

F(c, x) ==
    LET s == [i \in Boxes |-> c.s[i][BigEndianDigits(x)[i]]]
    IN  (WordXor((s[0] + s[1]) % Word, s[2]) + s[3]) % Word

\* The halves after i of the 16 rounds, with the subkeys in the given order;
\* they trade places after each.
Rounds(c, lr, order) ==
    LET after[i \in 0 .. 16] ==
          IF i = 0 THEN lr
          ELSE LET h == after[i - 1]
               IN  <<WordXor(h[2], WordXor(F(c, h[1]), c.p[order[i]])), h[1]>>
    IN  after

\* The subkeys of the rounds.
Ascending == [i \in 1 .. 16 |-> i]
Descending == [i \in 1 .. 16 |-> 17 - i]

EncryptBlock(c, xl, xr) ==
    LET lr == Rounds(c, <<WordXor(xl, c.p[0]), xr>>, Ascending)[16]
    IN  <<WordXor(lr[2], c.p[17]), lr[1]>>

\* The broken form: the subkeys are used in the order of encryption.
DecryptBlockForward(c, xl, xr) ==
    LET lr == Rounds(c, <<WordXor(xl, c.p[17]), xr>>, Ascending)[16]
    IN  <<WordXor(lr[2], c.p[0]), lr[1]>>

DecryptBlock(c, xl, xr) ==
    LET lr == Rounds(c, <<WordXor(xl, c.p[17]), xr>>, Descending)[16]
    IN  <<WordXor(lr[2], c.p[0]), lr[1]>>

\* The word that setKey makes of the key for subkey i: its digits in turn,
\* starting over at the end of the key.
KeyWord(key, i) ==
    LET k(j) == key[((4 * i + j) % Len(key)) + 1]
    IN  ((k(0) * Digit + k(1)) * Digit + k(2)) * Digit + k(3)

\* One pair of table entries: the running block is encrypted with the tables
\* as they are by then.
FillPair(st, slot) ==
    LET lr == EncryptBlock(st.c, st.lr[1], st.lr[2])
        box == slot[1]
        i == slot[2]
    IN  [lr |-> lr,
         c |-> IF box = -1
               THEN [st.c EXCEPT !.p = [@ EXCEPT ![i] = lr[1], ![i + 1] = lr[2]]]
               ELSE [st.c EXCEPT !.s[box] = [@ EXCEPT ![i] = lr[1], ![i + 1] = lr[2]]]]

\* setKey before it fills the tables, and the slots it fills; box -1 is the
\* P-array.  An empty key leaves the initial tables.
KeyedTables(key) ==
    IF key = <<>> THEN InitialTables
    ELSE [InitialTables EXCEPT !.p = [i \in 0 .. 17 |-> WordXor(@[i], KeyWord(key, i))]]

Slots(key) ==
    LET pairs(box, size) == [i \in 1 .. size \div 2 |-> <<box, 2 * (i - 1)>>]
    IN  IF key = <<>> THEN <<>>
        ELSE pairs(-1, 18) \o pairs(0, Digit) \o pairs(1, Digit)
               \o pairs(2, Digit) \o pairs(3, Digit)

\* The first word of the block of word i, and the place of word i in it.
BlockAt(i) == IF i % 2 = 1 THEN i ELSE i - 1
Place(i) == IF i % 2 = 1 THEN 1 ELSE 2

\* CipherRange and DecipherRange over whole blocks of a sequence of words.
CipherRange(c, data) ==
    [i \in 1 .. Len(data) |->
       EncryptBlock(c, data[BlockAt(i)], data[BlockAt(i) + 1])[Place(i)]]

DecipherRange(c, data) ==
    [i \in 1 .. Len(data) |->
       DecryptBlock(c, data[BlockAt(i)], data[BlockAt(i) + 1])[Place(i)]]
----
(***************************************************************************)
(* The first packet.                                                       *)
(***************************************************************************)

\* The broken form: the padding is that of the payload without the reserve.
PaddedSizeOfPayload(len, reserve) ==
    LET pad == 8 - (len % 8)
    IN  IF pad # 8 THEN len + reserve + pad ELSE len + reserve

\* Encrypt and EncryptStatic: the size in bytes of a payload of len bytes with
\* the reserve and the padding to whole blocks.
PaddedSize(len, reserve) ==
    LET size == len + reserve
        pad == 8 - (size % 8)
    IN  IF pad # 8 THEN size + pad ELSE size

\* The key after each word: ecx in the loop of encXorPass.
RunningKey(raw, key) ==
    LET ecx[i \in 1 .. Len(raw)] == IF i = 1 THEN key ELSE (ecx[i - 1] + raw[i]) % Word
    IN  ecx

\* The broken form: a word is XORed with the key before the word is added.
EncXorPassLate(raw, key) ==
    LET n == Len(raw)
        ecx == RunningKey(raw, key)
    IN  [i \in 1 .. n |-> IF i \in 2 .. n - 2 THEN WordXor(raw[i], ecx[i - 1])
                          ELSE IF i = n - 1 THEN ecx[n - 2]
                          ELSE raw[i]]

\* encXorPass on at least three words: the first word is left alone, the one
\* before the last holds the key.
EncXorPass(raw, key) ==
    LET n == Len(raw)
        ecx == RunningKey(raw, key)
    IN  [i \in 1 .. n |-> IF i \in 2 .. n - 2 THEN WordXor(raw[i], ecx[i])
                          ELSE IF i = n - 1 THEN ecx[n - 2]
                          ELSE raw[i]]

\* The key after word i, as the client finds it from the last word back.
KeyBack(raw) ==
    LET n == Len(raw)
        ecx[i \in 1 .. n - 2] ==
          IF i = n - 2 THEN raw[n - 1]
          ELSE (ecx[i + 1] - WordXor(raw[i + 1], ecx[i + 1])) % Word
    IN  ecx

\* What the client does.
DecXorPass(raw) ==
    [i \in 1 .. Len(raw) |->
       IF i \in 2 .. Len(raw) - 2 THEN WordXor(raw[i], KeyBack(raw)[i]) ELSE raw[i]]
----
(***************************************************************************)
(* RSA.                                                                    *)
(***************************************************************************)

\* Int.Exp; the powers of b up to e, modulo m.
Powers(b, e, m) ==
    LET power[i \in 0 .. e] == IF i = 0 THEN 1 % m ELSE (power[i - 1] * b) % m
    IN  power

PowMod(b, e, m) == Powers(b, e, m)[e]

\* ModInverse, as Precompute has it for Qinv.
ModInverse(a, m) == CHOOSE x \in 0 .. m - 1 : (a * x) % m = 1

\* What rsa.GenerateKey makes: p and q are prime, so that q has an inverse modulo
\* p and the exponent counts modulo p - 1 and q - 1 only (Fermat's theorem; it
\* is prime to both).
IsRSAKey(p, q, d) ==
    /\ p \in Nat /\ q \in Nat /\ d \in Nat /\ p > 2 /\ q > 2
    /\ \E x \in 0 .. p - 1 : (q * x) % p = 1
    /\ \A b \in 0 .. p - 1 : PowMod(b, d % (p - 1), p) = PowMod(b, d, p)
    /\ \A b \in 0 .. q - 1 : PowMod(b, d % (q - 1), q) = PowMod(b, d, q)

\* The broken form: the two residues are subtracted the other way round.
RSADecryptSwapped(c, p, q, d) ==
    LET m1 == PowMod(c % p, d % (p - 1), p)
        m2 == PowMod(c % q, d % (q - 1), q)
    IN  (((m2 - m1) * ModInverse(q, p)) % p) * q + m2

\* RSADecrypt: the two residues and their recombination.  The code adds p once
\* to a negative difference; Mod is Euclidean, so it need not suffice.
RSADecrypt(c, p, q, d) ==
    LET m1 == PowMod(c % p, d % (p - 1), p)
        m2 == PowMod(c % q, d % (q - 1), q)
        diff == IF m1 - m2 < 0 THEN m1 - m2 + p ELSE m1 - m2
        h == (diff * ModInverse(q, p)) % p
    IN  h * q + m2
----
(***************************************************************************)
(* The scrambled modulus.  A byte is the set of the positions of the       *)
(* modulus it is the XOR of.                                               *)
(***************************************************************************)
Plain == [i \in 0 .. 127 |-> {i}]

\* dst[to .. to+n-1] ^= dst[from .. from+n-1], for ranges that do not overlap.
XorInto(dst, to, from, n) ==
    [i \in 0 .. 127 |-> IF i \in to .. to + n - 1
                        THEN SymDiff(dst[i], dst[from + i - to]) ELSE dst[i]]

\* Four bytes at 0 trade places with four at 77.
SwapFour(dst) ==
    [i \in 0 .. 127 |-> IF i \in 0 .. 3 THEN dst[77 + i]
                        ELSE IF i \in 77 .. 80 THEN dst[i - 77] ELSE dst[i]]

\* The broken form: the first half is XORed after the second.
ScrambleReordered(dst) ==
    XorInto(XorInto(XorInto(SwapFour(dst), 64, 0, 64), 13, 52, 4), 0, 64, 64)

\* fillAndScrambleModulus.
Scramble(dst) ==
    XorInto(XorInto(XorInto(SwapFour(dst), 0, 64, 64), 13, 52, 4), 64, 0, 64)

\* The client's way back.
Unscramble(dst) ==
    SwapFour(XorInto(XorInto(XorInto(dst, 64, 0, 64), 13, 52, 4), 0, 64, 64))
====
