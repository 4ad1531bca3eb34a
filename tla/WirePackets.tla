---- MODULE WirePackets ----
(***************************************************************************)
(* The connections of Wire with the formats and the algorithms that their  *)
(* packets go through.  Wire takes the content of a packet as given; here  *)
(* each algorithm is held to what its other end expects.                   *)
(*                                                                         *)
(* The algorithms use their arguments alone, so that a call of one is      *)
(* tried by itself, before any connection opens: trial is its arguments    *)
(* and its result.                                                         *)
(***************************************************************************)
EXTENDS Wire, PacketCodec, PacketCipher

CONSTANTS
    KeyDigits,     \* the Blowfish keys tried
    FirstPackets,  \* the word sequences the XOR pass is tried on
    MaxPayload,    \* the longest payload whose padding is tried, in bytes
    RSAKeys,       \* the <<p, q, d>> of the RSA keys tried
    NameChars,     \* the ASCII characters of the user names tried
    NameSize,      \* the sizes of the two fields of a name: 50 and 14
    NoTrial        \* no call of an algorithm

ASSUME KeysAssumption == KeyDigits \subseteq Seq(0 .. Digit - 1)
ASSUME FirstPacketsAssumption ==
    \A raw \in FirstPackets : raw \in Seq(Words) /\ Len(raw) >= 3
ASSUME PayloadAssumption == MaxPayload \in Nat
ASSUME RSAKeysAssumption == \A k \in RSAKeys : IsRSAKey(k[1], k[2], k[3])
ASSUME NameAssumption == NameChars \subseteq Nat /\ NameSize \in Nat \X Nat

VARIABLES trial

packetVars == <<trial, vars>>

PacketsInit == Init /\ trial = NoTrial

\* The call op(in), with its result.
Call(op, in, result) == trial' = [op |-> op, in |-> in, out |-> result]

\* A packet of two fields is written.
WritePacket == \E f, g \in Fields :
    Call("write", <<f, g>>, WriteField(WriteField(<<>>, f), g))

\* NewBlowfishCipher: the tables are keyed, and filled slot by slot.
NewBlowfishCipher == \E key \in KeyDigits :
    Call("setKey", Slots(key), [lr |-> <<0, 0>>, c |-> KeyedTables(key)])

\* A packet is padded.
PadPacket == \E len \in 1 .. MaxPayload, reserve \in {12, 16} :
    Call("pad", <<len, reserve>>, PaddedSize(len, reserve))

\* A first packet is XORed.
XorFirstPacket == \E raw \in FirstPackets, key \in Words :
    Call("xor", raw, EncXorPass(raw, key))

\* A login's credentials, any number of the size of the modulus, are decrypted.
DecryptCredentials == \E k \in RSAKeys : \E cipher \in 0 .. 2 * k[1] * k[2] :
    Call("decrypt", <<k, cipher>>, RSADecrypt(cipher, k[1], k[2], k[3]))

\* A user name, which may run over from the first field into the second, is
\* decoded.
DecodeUsername == \E name \in BoundedSeq(NameChars, NameSize[1] + NameSize[2]) :
    LET rest == SubSeq(name, NameSize[1] + 1, Len(name))
    IN  Call("name", name,
             DecodeName(FieldOf(name, NameSize[1]), FieldOf(rest, NameSize[2])))

\* The modulus of the Init packet is scrambled.
ScrambleModulus == Call("scramble", Plain, Scramble(Plain))

Trial ==
    /\ trial = NoTrial /\ \A c \in Conns : conn[c] = "new"
    /\ \/ WritePacket
       \/ NewBlowfishCipher
       \/ PadPacket
       \/ XorFirstPacket
       \/ DecryptCredentials
       \/ DecodeUsername
       \/ ScrambleModulus
    /\ UNCHANGED vars

Tried(op) == trial # NoTrial /\ trial.op = op

FillTables ==
    /\ Tried("setKey") /\ trial.in # <<>>
    /\ Call("setKey", Tail(trial.in), FillPair(trial.out, Head(trial.in)))
    /\ UNCHANGED vars

\* A payload of two blocks is encrypted.
EncryptPayload ==
    /\ Tried("setKey") /\ trial.in = <<>>
    /\ \E x, y \in Words :
          LET c == trial.out.c
          IN  Call("cipher", <<c, x, y>>, CipherRange(c, <<x, y, y, x>>))
    /\ UNCHANGED vars

WireStep == trial = NoTrial /\ Next /\ UNCHANGED trial

PacketsNext == WireStep \/ Trial \/ FillTables \/ EncryptPayload

PacketsSpec == PacketsInit /\ [][PacketsNext]_packetVars
----
(***************************************************************************)
(* Properties.                                                             *)
(***************************************************************************)

\* What PacketWriter writes PacketReader reads back, to the last byte, at
\* whatever offset a field starts; SkipString ends where ReadString does; and
\* a packet with its end cut off is refused, never read as something else.
PacketsReadBack ==
    Tried("write") =>
       LET f == trial.in[1]  g == trial.in[2]  bytes == trial.out IN
       /\ ReadTwo(bytes, f, g) = [ok |-> TRUE, pos |-> Len(bytes), val |-> <<f.v, g.v>>]
       /\ f.n = 0 => SkipString(bytes, 0).pos = ReadString(bytes, 0).pos
       /\ \A cut \in 0 .. Len(bytes) - 1 : ~ReadTwo(SubSeq(bytes, 1, cut), f, g).ok

\* DecipherRange restores what CipherRange encrypted with the tables that
\* setKey has made of the key.
CipherUndone ==
    Tried("cipher") =>
       LET x == trial.in[2]  y == trial.in[3] IN
       DecipherRange(trial.in[1], trial.out) = <<x, y, y, x>>

\* A padded packet is whole blocks of 8 bytes; with the reserve of a first
\* packet the last two words, which the XOR pass and its key take, are never
\* words of the payload.
PaddingSpares ==
    Tried("pad") =>
       LET len == trial.in[1]  reserve == trial.in[2] IN
       /\ trial.out % 8 = 0 /\ trial.out >= len + reserve
       /\ reserve = 16 => trial.out - 8 >= len

\* The client can undo the XOR pass of a first packet, from the key it stores:
\* every word before the last two comes back.
FirstPacketUndone ==
    Tried("xor") =>
       \A i \in 1 .. Len(trial.in) - 2 : DecXorPass(trial.out)[i] = trial.in[i]

\* RSADecrypt computes c^d mod N, whichever prime is the larger and also for a
\* ciphertext beyond N, although it adds p only once to a negative difference.
CredentialsDecrypt ==
    Tried("decrypt") =>
       LET k == trial.in[1]  N == k[1] * k[2] IN
       trial.out = PowMod(trial.in[2] % N, k[3], N)

\* A user name without blanks is decoded as it was typed, but for its case,
\* also when it runs over two fields; no name has a blank at an end, and only
\* a name of blanks becomes the empty one.
NameDecoded ==
    Tried("name") =>
       LET name == trial.in  decoded == trial.out
           blanks == {i \in DOMAIN name : name[i] \in Blanks} IN
       /\ blanks = {} => decoded = ToLower(name)
       /\ decoded = <<>> <=> blanks = DOMAIN name
       /\ decoded # <<>> => Head(decoded) \notin Blanks /\ Last(decoded) \notin Blanks

\* The client gets the modulus back from what the Init packet carries.
ModulusRecovered == Tried("scramble") => Unscramble(trial.out) = trial.in
----
(***************************************************************************)
(* What makes CipherUndone inductive.                                      *)
(***************************************************************************)

\* While setKey fills the tables they and the running block are words.
TablesTyped ==
    Tried("setKey") => /\ trial.in \in Seq((-1 .. 3) \X Nat)
                       /\ trial.out \in [lr : Words \X Words, c : Ciphers]
====
