CONSTANTS
    Conns = {c1,c2}
    busy = c1
    Workers = {g1,g2}
    Writers = {w1,w2}
    MaxPackets <- PacketBound
    NoWriter = NoWriter
    NoSend = NoSend
    NoConn = NoConn
    Base = 4
    HighSurrogate = 8
    LowSurrogate = 10
    SurrogateSize = 2
    IntSizes = {1,2}
    Alphabet = {1,4,5,12,16,19}
    MaxString = 2
    Digit = 2
    WordXor <- BitXor
    KeyDigits <- ShortKeys
    FirstPackets <- ShortPackets
    MaxPayload = 40
    RSAKeys <- SmallKeys
    NameChars <- FewChars
    NameSize <- TwoFields
    NoTrial = NoTrial
SPECIFICATION PacketsSpec
SYMMETRY WriterSymmetry
INVARIANTS
    TypeOK
    XorOnce
    SentIsOwn
    HandledInOrder
    PacketsReadBack
    PaddingSpares
    CipherUndone
    FirstPacketUndone
    CredentialsDecrypt
    NameDecoded
    ModulusRecovered
CHECK_DEADLOCK FALSE
