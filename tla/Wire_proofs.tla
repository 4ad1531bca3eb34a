---- MODULE Wire_proofs ----
(***************************************************************************)
(* Theorems about Wire, for any number of connections, login goroutines,   *)
(* writers and packets; and, in the second half, about the algorithms that *)
(* WirePackets calls, for any width of a byte, a word or a surrogate.      *)
(***************************************************************************)
EXTENDS WirePackets, SequenceTheorems, WellFoundedInduction, TLAPS

----
(***************************************************************************)
(* Type correctness, in three parts.                                       *)
(***************************************************************************)
LinkTyped ==
    /\ conn \in [Conns -> {"new", "opened", "open", "closed"}]
    /\ state \in [Conns -> {"Connected", "AuthedGG", "AuthedLogin"}]
    /\ job \in [Workers -> Conns \cup {NoConn}]

InTyped ==
    /\ stream \in [Conns -> Seq(Requests)]
    /\ got \in [Conns -> Nat]
    /\ inbuf \in [Conns -> Seq(Requests)]
    /\ handled \in [Conns -> Seq(Requests)]
    /\ torn \subseteq Conns

OutTyped ==
    /\ initWriter \in [Conns -> Writers \cup {NoWriter}]
    /\ updatedKey \in [Conns -> BOOLEAN]
    /\ pool \subseteq Writers
    /\ buf \in [Writers -> Contents]
    /\ send \in [Senders -> Sends \cup {NoSend}]
    /\ out \in [Conns -> Seq(Packets)]
    /\ reused \subseteq Conns

LEMMA TypedParts == TypeOK <=> LinkTyped /\ InTyped /\ OutTyped
  BY DEF TypeOK, LinkTyped, InTyped, OutTyped

LEMMA BuildTyping ==
    ASSUME OutTyped, NEW w \in Writers, NEW c \in Conns, NEW k \in Replies, Build(w, c, k)
    PROVE  buf' \in [Writers -> Contents] /\ reused' \subseteq Conns
  BY DEF Build, OutTyped, Contents

\* A call of SendAsync has its writer out of the pool, and nothing sent yet.
LEMMA SendFacts ==
    ASSUME OutTyped, NEW a \in Senders, NEW c \in Conns, NEW k \in Replies, Send(a, c, k)
    PROVE  \E w \in pool :
              /\ w \in Writers
              /\ pool' = pool \ {w}
              /\ Build(w, c, k)
              /\ send[a] = NoSend
              /\ send'[a] = [conn |-> c, kind |-> k, writer |-> w,
                             step |-> "reserve", reserve |-> 12, xored |-> FALSE]
              /\ send'[a] \in Sends
              /\ \A b \in Senders \ {a} : send'[b] = send[b]
              /\ send' \in [Senders -> Sends \cup {NoSend}]
              /\ UNCHANGED <<initWriter, updatedKey, out>>
  <1>1. PICK w \in pool :
           /\ pool' = pool \ {w}
           /\ Build(w, c, k)
           /\ send' = [send EXCEPT ![a] =
                         [conn |-> c, kind |-> k, writer |-> w,
                          step |-> "reserve", reserve |-> 12, xored |-> FALSE]]
    BY DEF Send
  <1>2. w \in Writers
    BY DEF OutTyped
  <1>3. [conn |-> c, kind |-> k, writer |-> w,
         step |-> "reserve", reserve |-> 12, xored |-> FALSE] \in Sends
    BY <1>2 DEF Sends
  <1> QED BY <1>1, <1>2, <1>3 DEF Send, OutTyped

\* What holds of the send, whichever writer it has got.
LEMMA SendStarts ==
    ASSUME OutTyped, NEW a \in Senders, NEW c \in Conns, NEW k \in Replies, Send(a, c, k)
    PROVE  /\ send[a] = NoSend /\ send'[a] # NoSend
           /\ send'[a].conn = c /\ send'[a].step = "reserve" /\ send'[a].xored = FALSE
           /\ \A b \in Senders \ {a} : send'[b] = send[b]
           /\ UNCHANGED <<updatedKey, out>>
  <1>1. PICK w \in pool :
           send' = [send EXCEPT ![a] =
                      [conn |-> c, kind |-> k, writer |-> w,
                       step |-> "reserve", reserve |-> 12, xored |-> FALSE]]
    BY DEF Send
  <1> DEFINE n == [conn |-> c, kind |-> k, writer |-> w,
                   step |-> "reserve", reserve |-> 12, xored |-> FALSE]
  <1>2. n \in Sends /\ n.conn = c /\ n.step = "reserve" /\ n.xored = FALSE
    BY DEF Sends, OutTyped
  <1>3. send'[a] = n /\ \A b \in Senders \ {a} : send'[b] = send[b]
    BY <1>1 DEF OutTyped
  <1> HIDE DEF n
  <1>4. n # NoSend
    BY <1>2, NoSendAssumption
  <1> QED BY <1>2, <1>3, <1>4 DEF Send

LEMMA SendTyping ==
    ASSUME OutTyped, NEW a \in Senders, NEW c \in Conns, NEW k \in Replies, Send(a, c, k)
    PROVE  OutTyped'
  BY SendFacts, BuildTyping DEF OutTyped

\* The fields of a send under way.
LEMMA SendIsRecord ==
    ASSUME OutTyped, NEW a \in Senders, send[a] # NoSend
    PROVE  /\ send[a] \in Sends
           /\ send[a].conn \in Conns /\ send[a].kind \in Replies /\ send[a].writer \in Writers
           /\ send[a].step \in {"reserve", "xor", "set", "write"}
           /\ send[a].reserve \in {12, 16} /\ send[a].xored \in BOOLEAN
  BY DEF OutTyped, Sends

\* A step of Encrypt leaves the send's connection, kind and writer alone.
Encrypting(a) ==
    /\ send[a] # NoSend /\ send'[a] # NoSend
    /\ send'[a].conn = send[a].conn /\ send'[a].kind = send[a].kind
    /\ send'[a].writer = send[a].writer
    /\ \A b \in Senders \ {a} : send'[b] = send[b]
    /\ send' \in [Senders -> Sends \cup {NoSend}]

LEMMA EncryptingSend ==
    ASSUME OutTyped, NEW a \in Senders, send[a] # NoSend, NEW n \in Sends,
           n.conn = send[a].conn, n.kind = send[a].kind, n.writer = send[a].writer,
           send' = [send EXCEPT ![a] = n]
    PROVE  send'[a] = n /\ Encrypting(a)
  <1>1. n # NoSend
    BY NoSendAssumption
  <1>2. send'[a] = n /\ \A b \in Senders \ {a} : send'[b] = send[b]
    BY DEF OutTyped
  <1>3. send' \in [Senders -> Sends \cup {NoSend}]
    BY DEF OutTyped
  <1> QED BY <1>1, <1>2, <1>3 DEF Encrypting

\* What each step of Encrypt makes of the send.
LEMMA EncryptReserveFacts ==
    ASSUME OutTyped, NEW a \in Senders, EncryptReserve(a)
    PROVE  /\ Encrypting(a) /\ send[a].step = "reserve" /\ send'[a].step = "xor"
           /\ send'[a].reserve = IF updatedKey[send[a].conn] THEN 12 ELSE 16
           /\ send'[a].xored = send[a].xored
  <1> DEFINE n == [send[a] EXCEPT !.step = "xor",
                                  !.reserve = IF updatedKey[send[a].conn] THEN 12 ELSE 16]
  <1>1. send[a] # NoSend /\ send[a] \in Sends /\ send[a].conn \in Conns
    BY SendIsRecord DEF EncryptReserve
  <1>2. n \in Sends /\ send' = [send EXCEPT ![a] = n]
    BY <1>1 DEF EncryptReserve, Sends
  <1>3. /\ n.conn = send[a].conn /\ n.kind = send[a].kind /\ n.writer = send[a].writer
        /\ n.step = "xor" /\ n.reserve = (IF updatedKey[send[a].conn] THEN 12 ELSE 16)
        /\ n.xored = send[a].xored
    BY <1>1 DEF Sends
  <1> HIDE DEF n
  <1>4. send'[a] = n /\ Encrypting(a)
    BY <1>1, <1>2, <1>3, EncryptingSend
  <1> QED BY <1>3, <1>4 DEF EncryptReserve

LEMMA EncryptXorFacts ==
    ASSUME OutTyped, NEW a \in Senders, EncryptXor(a)
    PROVE  /\ Encrypting(a) /\ send[a].step = "xor"
           /\ send'[a].step = IF updatedKey[send[a].conn] THEN "write" ELSE "set"
           /\ send'[a].reserve = send[a].reserve
           /\ send'[a].xored = ~updatedKey[send[a].conn]
  <1> DEFINE first == ~updatedKey[send[a].conn]
             n == [send[a] EXCEPT !.step = IF first THEN "set" ELSE "write", !.xored = first]
  <1>1. send[a] # NoSend /\ send[a] \in Sends /\ send[a].conn \in Conns
    BY SendIsRecord DEF EncryptXor
  <1>2. updatedKey[send[a].conn] \in BOOLEAN
    BY <1>1 DEF OutTyped
  <1>3. n \in Sends /\ send' = [send EXCEPT ![a] = n]
    BY <1>1, <1>2 DEF EncryptXor, Sends
  <1>4. /\ n.conn = send[a].conn /\ n.kind = send[a].kind /\ n.writer = send[a].writer
        /\ n.step = (IF first THEN "set" ELSE "write") /\ n.reserve = send[a].reserve
        /\ n.xored = first
    BY <1>1 DEF Sends
  <1> HIDE DEF n
  <1>5. send'[a] = n /\ Encrypting(a)
    BY <1>1, <1>3, <1>4, EncryptingSend
  <1> QED BY <1>2, <1>4, <1>5 DEF EncryptXor

LEMMA EncryptSetFacts ==
    ASSUME OutTyped, NEW a \in Senders, EncryptSet(a)
    PROVE  /\ Encrypting(a) /\ send[a].step = "set" /\ send'[a].step = "write"
           /\ send'[a].reserve = send[a].reserve /\ send'[a].xored = send[a].xored
  <1> DEFINE n == [send[a] EXCEPT !.step = "write"]
  <1>1. send[a] # NoSend /\ send[a] \in Sends /\ send[a].conn \in Conns
    BY SendIsRecord DEF EncryptSet
  <1>2. n \in Sends /\ send' = [send EXCEPT ![a] = n]
    BY <1>1 DEF EncryptSet, Sends
  <1>3. /\ n.conn = send[a].conn /\ n.kind = send[a].kind /\ n.writer = send[a].writer
        /\ n.step = "write" /\ n.reserve = send[a].reserve /\ n.xored = send[a].xored
    BY <1>1 DEF Sends
  <1> HIDE DEF n
  <1>4. send'[a] = n /\ Encrypting(a)
    BY <1>1, <1>2, <1>3, EncryptingSend
  <1> QED BY <1>3, <1>4 DEF EncryptSet

\* The packet that AsyncWrite hands to gnet.
Sent(a) == [bytes |-> buf[send[a].writer], kind |-> send[a].kind,
            reserve |-> send[a].reserve, xored |-> send[a].xored]

LEMMA AsyncWriteFacts ==
    ASSUME OutTyped, NEW a \in Senders, AsyncWrite(a)
    PROVE  LET s == send[a] IN
           /\ s # NoSend /\ s.step = "write"
           /\ Sent(a) \in Packets
           /\ pool' = pool \cup {s.writer}
           /\ send' = [send EXCEPT ![a] = NoSend]
           /\ \A c \in Conns \ {s.conn} : out'[c] = out[c]
           /\ conn[s.conn] = "open" =>
                 /\ Len(out'[s.conn]) = Len(out[s.conn]) + 1
                 /\ \A i \in 1 .. Len(out[s.conn]) : out'[s.conn][i] = out[s.conn][i]
                 /\ out'[s.conn][Len(out[s.conn]) + 1] = Sent(a)
           /\ conn[s.conn] # "open" => out'[s.conn] = out[s.conn]
           /\ out' \in [Conns -> Seq(Packets)]
  <1> DEFINE s == send[a]
  <1>1. s # NoSend /\ s.conn \in Conns /\ s.writer \in Writers /\ s.kind \in Replies
          /\ s.reserve \in {12, 16} /\ s.xored \in BOOLEAN
    BY SendIsRecord DEF AsyncWrite
  <1>2. Sent(a) \in Packets
    BY <1>1 DEF Sent, Packets, OutTyped
  <1>3. out' = [out EXCEPT ![s.conn] =
                  IF conn[s.conn] = "open" THEN Append(@, Sent(a)) ELSE @]
    BY DEF AsyncWrite, Sent
  <1>4. out[s.conn] \in Seq(Packets)
    BY <1>1 DEF OutTyped
  <1>5. /\ Append(out[s.conn], Sent(a)) \in Seq(Packets)
        /\ Len(Append(out[s.conn], Sent(a))) = Len(out[s.conn]) + 1
        /\ \A i \in 1 .. Len(out[s.conn]) : Append(out[s.conn], Sent(a))[i] = out[s.conn][i]
        /\ Append(out[s.conn], Sent(a))[Len(out[s.conn]) + 1] = Sent(a)
    BY <1>2, <1>4, AppendProperties
  <1>6. \A c \in Conns \ {s.conn} : out'[c] = out[c]
    BY <1>3 DEF OutTyped
  <1>7. out'[s.conn] = IF conn[s.conn] = "open" THEN Append(out[s.conn], Sent(a))
                       ELSE out[s.conn]
    BY <1>1, <1>3 DEF OutTyped
  <1>8. out' \in [Conns -> Seq(Packets)]
    BY <1>1, <1>3, <1>4, <1>5 DEF OutTyped
  <1>9. /\ s.step = "write" /\ pool' = pool \cup {s.writer}
        /\ send' = [send EXCEPT ![a] = NoSend]
    BY DEF AsyncWrite
  <1> QED BY <1>1, <1>2, <1>5, <1>6, <1>7, <1>8, <1>9

\* A connection whose Init bytes gnet is to write has a writer that holds them.
HasInit == \A c \in Conns : conn[c] = "opened" => initWriter[c] \in Writers

\* The steps that send, and those that do not.
OutStep ==
    \/ \E c \in Conns : OnOpen(c) \/ WriteInit(c)
    \/ \E a \in Senders, c \in Conns, k \in Replies : Send(a, c, k)
    \/ \E a \in Senders :
          EncryptReserve(a) \/ EncryptXor(a) \/ EncryptSet(a) \/ AsyncWrite(a)
    \/ UNCHANGED outVars

LEMMA OutSteps ==
    ASSUME TypeOK, [Next]_vars
    PROVE  OutStep
  <1>1. ASSUME NEW c \in Conns, AuthGG(c) \/ HandleLoginRefused(c) PROVE OutStep
    BY <1>1 DEF AuthGG, HandleLoginRefused, OutStep, Replies, Senders
  <1>2. ASSUME NEW g \in Workers, ProcessLogin(g) PROVE OutStep
    <2>1. job[g] \in Conns
      BY <1>2 DEF ProcessLogin, TypeOK
    <2> QED BY <1>2, <2>1 DEF ProcessLogin, OutStep, Replies, Senders
  <1> QED
    BY <1>1, <1>2
    DEF Next, OutStep, vars, ClientSends, OnTraffic, OnTrafficAstray, HandleLogin, OnClose

LEMMA OutTyping ==
    ASSUME TypeOK, HasInit, [Next]_vars
    PROVE  OutTyped'
  <1>0. OutTyped
    BY TypedParts
  <1>1. ASSUME NEW c \in Conns, OnOpen(c) PROVE OutTyped'
    <2>1. PICK w \in pool : Build(w, c, "Init") /\ initWriter' = [initWriter EXCEPT ![c] = w]
      BY <1>1 DEF OnOpen
    <2>2. w \in Writers /\ "Init" \in Replies
      BY <1>0 DEF OutTyped, Replies
    <2>3. buf' \in [Writers -> Contents] /\ reused' \subseteq Conns
      BY <1>0, <2>1, <2>2, BuildTyping
    <2> QED BY <1>0, <1>1, <2>1, <2>2, <2>3 DEF OnOpen, OutTyped
  <1>2. ASSUME NEW c \in Conns, WriteInit(c) PROVE OutTyped'
    <2> DEFINE p == [bytes |-> buf[initWriter[c]], kind |-> "Init",
                     reserve |-> 16, xored |-> TRUE]
    <2>1. p \in Packets
      BY <1>0, <1>2 DEF WriteInit, HasInit, OutTyped, Packets, Replies
    <2>2. <<p>> \in Seq(Packets)
      BY <2>1
    <2>3. out' = [out EXCEPT ![c] = <<p>>]
      BY <1>2 DEF WriteInit
    <2> QED BY <1>0, <1>2, <2>2, <2>3 DEF WriteInit, OutTyped
  <1>3. ASSUME NEW a \in Senders, NEW c \in Conns, NEW k \in Replies, Send(a, c, k)
        PROVE  OutTyped'
    BY <1>0, <1>3, SendTyping
  <1>4. ASSUME NEW a \in Senders, EncryptReserve(a) PROVE OutTyped'
    BY <1>0, <1>4, EncryptReserveFacts DEF EncryptReserve, Encrypting, OutTyped
  <1>5. ASSUME NEW a \in Senders, EncryptXor(a) PROVE OutTyped'
    BY <1>0, <1>5, EncryptXorFacts DEF EncryptXor, Encrypting, OutTyped
  <1>6. ASSUME NEW a \in Senders, EncryptSet(a) PROVE OutTyped'
    <2>1. send[a].conn \in Conns
      BY <1>0, <1>6, SendIsRecord DEF EncryptSet
    <2> QED BY <1>0, <1>6, <2>1, EncryptSetFacts DEF EncryptSet, Encrypting, OutTyped
  <1>7. ASSUME NEW a \in Senders, AsyncWrite(a) PROVE OutTyped'
    <2>1. send[a].writer \in Writers
      BY <1>0, <1>7, SendIsRecord DEF AsyncWrite
    <2> QED BY <1>0, <1>7, <2>1, AsyncWriteFacts DEF AsyncWrite, OutTyped
  <1>8. CASE UNCHANGED outVars
    BY <1>0, <1>8 DEF outVars, OutTyped
  <1> QED BY <1>1, <1>2, <1>3, <1>4, <1>5, <1>6, <1>7, <1>8, OutSteps DEF OutStep

\* The packets of a chunk are packets of the stream.
LEMMA ChunkTyping ==
    ASSUME NEW s \in Seq(Requests), NEW g \in Nat, NEW n \in 1 .. 2 * Len(s) - g
    PROVE  SubSeq(s, g \div 2 + 1, (g + n) \div 2) \in Seq(Requests)
  <1> DEFINE from == g \div 2 + 1
             to == (g + n) \div 2
  <1>1. from \in Int /\ to \in Int /\ from >= 1 /\ to <= Len(s)
    OBVIOUS
  <1> HIDE DEF from, to
  <1>2. \A i \in from .. to : s[i] \in Requests
    BY <1>1
  <1>3. SubSeq(s, from, to) \in Seq(Requests)
    BY <1>1, <1>2, SubSeqProperties
  <1> QED BY <1>3 DEF from, to

\* The steps that receive, and those that do not.
InStep ==
    \/ \E c \in Conns :
          \/ \E k \in Requests : ClientSends(c, k) \/ NextPacket(c, k)
          \/ \E n \in 1 .. 2 * Len(stream[c]) - got[c] : OnTraffic(c, n) \/ OnTrafficAstray(c, n)
    \/ UNCHANGED inVars

LEMMA InSteps ==
    ASSUME [Next]_vars
    PROVE  InStep
  <1>1. ASSUME NEW c \in Conns, AuthGG(c) \/ HandleLogin(c) \/ HandleLoginRefused(c)
        PROVE  InStep
    BY <1>1 DEF AuthGG, HandleLogin, HandleLoginRefused, InStep, Requests
  <1> QED
    BY <1>1
    DEF Next, InStep, vars, OnOpen, WriteInit, ProcessLogin, OnClose, EncryptReserve,
        EncryptXor, EncryptSet, AsyncWrite

LEMMA InTyping ==
    ASSUME TypeOK, [Next]_vars
    PROVE  InTyped'
  <1>0. InTyped
    BY TypedParts
  <1>1. ASSUME NEW c \in Conns, NEW k \in Requests, ClientSends(c, k) PROVE InTyped'
    BY <1>0, <1>1 DEF ClientSends, InTyped
  <1>2. ASSUME NEW c \in Conns, NEW k \in Requests, NextPacket(c, k) PROVE InTyped'
    <2>1. inbuf[c] \in Seq(Requests) /\ handled[c] \in Seq(Requests) /\ inbuf[c] # <<>>
      BY <1>0, <1>2 DEF InTyped, NextPacket
    <2>2. Tail(inbuf[c]) \in Seq(Requests) /\ Append(handled[c], k) \in Seq(Requests)
      BY <2>1, HeadTailProperties, AppendProperties
    <2> QED BY <1>0, <1>2, <2>2 DEF NextPacket, InTyped
  <1>3. ASSUME NEW c \in Conns, NEW n \in 1 .. 2 * Len(stream[c]) - got[c], OnTraffic(c, n)
        PROVE  InTyped'
    <2>1. SubSeq(stream[c], got[c] \div 2 + 1, (got[c] + n) \div 2) \in Seq(Requests)
      BY <1>0, ChunkTyping DEF InTyped
    <2>2. n \in Nat /\ got' \in [Conns -> Nat]
      BY <1>0, <1>3 DEF OnTraffic, InTyped
    <2>3. inbuf' \in [Conns -> Seq(Requests)]
      BY <1>0, <1>3, <2>1 DEF OnTraffic, InTyped
    <2> QED BY <1>0, <1>3, <2>2, <2>3 DEF OnTraffic, InTyped
  <1>4. ASSUME NEW c \in Conns, NEW n \in 1 .. 2 * Len(stream[c]) - got[c],
               OnTrafficAstray(c, n)
        PROVE  InTyped'
    <2>1. n \in Nat /\ got' \in [Conns -> Nat]
      BY <1>0, <1>4 DEF OnTrafficAstray, InTyped
    <2>2. inbuf' \in [Conns -> Seq(Requests)]
      <3>1. ASSUME NEW k \in Requests, inbuf' = [inbuf EXCEPT ![c] = <<k>>]
            PROVE  inbuf' \in [Conns -> Seq(Requests)]
        <4>1. <<k>> \in Seq(Requests)
          OBVIOUS
        <4> QED BY <1>0, <3>1, <4>1 DEF InTyped
      <3>2. UNCHANGED inbuf \/ \E k \in Requests : inbuf' = [inbuf EXCEPT ![c] = <<k>>]
        BY <1>4 DEF OnTrafficAstray
      <3> QED BY <1>0, <3>1, <3>2 DEF InTyped
    <2> QED BY <1>0, <1>4, <2>1, <2>2 DEF OnTrafficAstray, InTyped
  <1>5. CASE UNCHANGED inVars
    BY <1>0, <1>5 DEF inVars, InTyped
  <1> QED BY <1>1, <1>2, <1>3, <1>4, <1>5, InSteps DEF InStep

LEMMA LinkTyping ==
    ASSUME TypeOK, [Next]_vars
    PROVE  LinkTyped'
  <1>0. LinkTyped
    BY TypedParts
  <1> USE DEF LinkTyped
  <1>1. ASSUME NEW c \in Conns,
               \/ OnOpen(c) \/ WriteInit(c) \/ OnClose(c) \/ AuthGG(c) \/ HandleLogin(c)
               \/ HandleLoginRefused(c)
        PROVE  LinkTyped'
    BY <1>0, <1>1
    DEF OnOpen, WriteInit, OnClose, AuthGG, HandleLogin, HandleLoginRefused
  <1>2. ASSUME NEW c \in Conns, NEW n, OnTrafficAstray(c, n) PROVE LinkTyped'
    BY <1>0, <1>2 DEF OnTrafficAstray
  <1>3. ASSUME NEW g \in Workers, ProcessLogin(g) PROVE LinkTyped'
    BY <1>0, <1>3 DEF ProcessLogin
  <1>4. CASE UNCHANGED <<conn, state, job>>
    BY <1>0, <1>4
  <1> QED
    BY <1>1, <1>2, <1>3, <1>4
    DEF Next, vars, ClientSends, OnTraffic, EncryptReserve, EncryptXor, EncryptSet, AsyncWrite

LEMMA InitStep ==
    ASSUME TypeOK, HasInit, [Next]_vars
    PROVE  HasInit'
  <1> SUFFICES ASSUME NEW d \in Conns, conn'[d] = "opened" PROVE initWriter'[d] \in Writers
    BY DEF HasInit
  <1> USE DEF HasInit, TypeOK
  <1>1. ASSUME NEW c \in Conns, OnOpen(c) PROVE initWriter'[d] \in Writers
    BY <1>1 DEF OnOpen
  <1>2. ASSUME NEW c \in Conns, WriteInit(c) \/ OnClose(c) PROVE initWriter'[d] \in Writers
    BY <1>2 DEF WriteInit, OnClose, outVars
  <1>3. ASSUME NEW c \in Conns, NEW n, OnTrafficAstray(c, n)
        PROVE  initWriter'[d] \in Writers
    BY <1>3 DEF OnTrafficAstray, outVars
  <1>4. CASE UNCHANGED <<conn, initWriter>>
    BY <1>4
  <1> QED
    BY <1>1, <1>2, <1>3, <1>4
    DEF Next, vars, outVars, ClientSends, OnTraffic, AuthGG, HandleLogin, HandleLoginRefused,
        ProcessLogin, Send, EncryptReserve, EncryptXor, EncryptSet, AsyncWrite

\* Streams, writers, sends and packets keep their types; in particular what
\* gnet is handed is always the content of a writer.
THEOREM WireTypeCorrect == Spec => []TypeOK
  <1>1. Init => TypeOK /\ HasInit
    BY DEF Init, TypeOK, HasInit, Contents, Replies
  <1>2. TypeOK /\ HasInit /\ [Next]_vars => TypeOK' /\ HasInit'
    <2> SUFFICES ASSUME TypeOK, HasInit, [Next]_vars PROVE TypeOK' /\ HasInit'
      OBVIOUS
    <2>1. LinkTyped' /\ InTyped' /\ OutTyped'
      BY LinkTyping, InTyping, OutTyping
    <2>2. TypeOK'
      BY <2>1 DEF TypeOK, LinkTyped, InTyped, OutTyped
    <2> QED BY <2>2, InitStep
  <1> QED BY <1>1, <1>2, PTL DEF Spec

----
(***************************************************************************)
(* The packets of a client are handled in order.                           *)
(***************************************************************************)

LEMMA Halves ==
    ASSUME NEW m \in Nat, NEW n \in Nat
    PROVE  /\ (2 * m) % 2 = 0 /\ (2 * m) \div 2 = m
           /\ n % 2 # 1 => n = 2 * (n \div 2) /\ n \div 2 \in Nat
           /\ n % 2 # 1 => (2 * m + n) \div 2 = m + n \div 2
  OBVIOUS

\* A packet that the client sends comes after those it has sent.
LEMMA FirstOfSent ==
    ASSUME NEW h \in Seq(Requests), NEW b \in Seq(Requests), NEW s \in Seq(Requests),
           NEW g \in Nat, NEW k \in Requests, FirstOf(h, b, s, g)
    PROVE  FirstOf(h, b, Append(s, k), g)
  <1> DEFINE t == Append(s, k)
  <1>1. Len(t) = Len(s) + 1 /\ \A i \in 1 .. Len(s) : t[i] = s[i]
    BY AppendProperties
  <1> HIDE DEF t
  <1>2. \A i \in 1 .. Len(h) : h[i] = t[i]
    BY <1>1 DEF FirstOf
  <1>3. \A i \in 1 .. Len(b) : b[i] = t[Len(h) + i]
    <2> SUFFICES ASSUME NEW i \in 1 .. Len(b) PROVE b[i] = t[Len(h) + i]
      OBVIOUS
    <2>1. Len(h) + Len(b) <= Len(s) /\ b[i] = s[Len(h) + i]
      BY DEF FirstOf
    <2>2. Len(h) + i \in 1 .. Len(s)
      BY <2>1
    <2> QED BY <1>1, <2>1, <2>2
  <1>4. g = 2 * (Len(h) + Len(b)) /\ Len(h) + Len(b) <= Len(s)
    BY DEF FirstOf
  <1>5. Len(h) + Len(b) <= Len(t)
    <2>1. Len(h) \in Nat /\ Len(b) \in Nat /\ Len(s) \in Nat
      OBVIOUS
    <2> QED BY <1>1, <1>4, <2>1
  <1>6. FirstOf(h, b, t, g)
    BY <1>2, <1>3, <1>4, <1>5, Zenon DEF FirstOf
  <1> QED BY <1>6 DEF t

\* The next packet handled is the first of the chunk.
LEMMA FirstOfHandled ==
    ASSUME NEW h \in Seq(Requests), NEW b \in Seq(Requests), NEW s \in Seq(Requests),
           NEW g \in Nat, b # <<>>, FirstOf(h, b, s, g)
    PROVE  FirstOf(Append(h, Head(b)), Tail(b), s, g)
  <1> DEFINE h2 == Append(h, Head(b))
             b2 == Tail(b)
  <1>1. Head(b) = b[1] /\ Len(b) >= 1 /\ b[1] \in Requests
    OBVIOUS
  <1>2. /\ Len(h2) = Len(h) + 1 /\ h2[Len(h) + 1] = b[1]
        /\ \A i \in 1 .. Len(h) : h2[i] = h[i]
    BY <1>1, AppendProperties
  <1>3. Len(b2) = Len(b) - 1 /\ \A i \in 1 .. Len(b2) : b2[i] = b[i + 1]
    BY HeadTailProperties
  <1> HIDE DEF h2, b2
  <1>4. \A i \in 1 .. Len(h2) : h2[i] = s[i]
    <2>1. b[1] = s[Len(h) + 1] /\ \A i \in 1 .. Len(h) : h[i] = s[i]
      BY <1>1 DEF FirstOf
    <2>2. \A i \in 1 .. Len(h2) : i \in 1 .. Len(h) \/ i = Len(h) + 1
      BY <1>2
    <2> QED BY <1>2, <2>1, <2>2
  <1>5. \A i \in 1 .. Len(b2) : b2[i] = s[Len(h2) + i]
    <2> SUFFICES ASSUME NEW i \in 1 .. Len(b2) PROVE b2[i] = s[Len(h2) + i]
      OBVIOUS
    <2>1. i + 1 \in 1 .. Len(b) /\ Len(h) + (i + 1) = Len(h2) + i
      BY <1>2, <1>3
    <2>2. b[i + 1] = s[Len(h) + (i + 1)]
      BY <2>1 DEF FirstOf
    <2> QED BY <1>3, <2>1, <2>2
  <1>6. Len(h2) + Len(b2) = Len(h) + Len(b)
    BY <1>2, <1>3
  <1>7. FirstOf(h2, b2, s, g)
    BY <1>4, <1>5, <1>6 DEF FirstOf
  <1> QED BY <1>7 DEF h2, b2

\* A chunk that cuts no packet brings the packets that follow.
LEMMA FirstOfChunk ==
    ASSUME NEW h \in Seq(Requests), NEW s \in Seq(Requests), NEW g \in Nat, NEW n \in Nat,
           g + n <= 2 * Len(s), n % 2 # 1, FirstOf(h, <<>>, s, g)
    PROVE  FirstOf(h, SubSeq(s, g \div 2 + 1, (g + n) \div 2), s, g + n)
  <1> DEFINE m == n \div 2
             l == Len(h)
             b == SubSeq(s, g \div 2 + 1, (g + n) \div 2)
  <1>1. l \in Nat /\ g = 2 * l
    BY DEF FirstOf
  <1>2. n = 2 * m /\ m \in Nat /\ g \div 2 = l /\ (g + n) \div 2 = l + m
    BY <1>1, Halves
  <1>3. b = SubSeq(s, l + 1, l + m)
    BY <1>2
  <1> HIDE DEF m, l, b
  <1>4. l + m <= Len(s) /\ l + 1 \in Int /\ l + m \in Int
    BY <1>1, <1>2
  <1>5. \A i \in l + 1 .. l + m : s[i] \in Requests
    BY <1>1, <1>2, <1>4
  <1>6. /\ Len(b) = IF l + 1 <= l + m THEN (l + m) - (l + 1) + 1 ELSE 0
        /\ \A i \in 1 .. (l + m) - (l + 1) + 1 : b[i] = s[(l + 1) + i - 1]
    <2> DEFINE x == l + 1
               y == l + m
    <2>1. x \in Int /\ y \in Int /\ \A i \in x .. y : s[i] \in Requests
      BY <1>4, <1>5
    <2> HIDE DEF x, y
    <2>2. /\ Len(SubSeq(s, x, y)) = IF x <= y THEN y - x + 1 ELSE 0
          /\ \A i \in 1 .. y - x + 1 : SubSeq(s, x, y)[i] = s[x + i - 1]
      BY <2>1, SubSeqProperties
    <2> QED BY <1>3, <2>2 DEF x, y
  <1>7. Len(b) = m /\ \A i \in 1 .. m : b[i] = s[l + i]
    <2>1. /\ (l + m) - (l + 1) + 1 = m /\ (l + 1 <= l + m <=> m # 0)
          /\ \A i \in 1 .. m : (l + 1) + i - 1 = l + i
      BY <1>1, <1>2
    <2>2. Len(b) = m
      BY <1>6, <2>1
    <2>3. \A i \in 1 .. m : b[i] = s[(l + 1) + i - 1]
      BY <1>6, <2>1
    <2> QED BY <2>1, <2>2, <2>3
  <1>8. g + n = 2 * (l + Len(b)) /\ l + Len(b) <= Len(s)
    <2>1. Len(b) = m
      BY <1>7
    <2>2. g + n = 2 * (l + m)
      BY <1>1, <1>2
    <2> QED BY <1>4, <2>1, <2>2
  <1>9. FirstOf(h, b, s, g + n)
    BY <1>7, <1>8 DEF FirstOf, l
  <1> QED BY <1>9 DEF b

\* Element by element is as whole sequences.
LEMMA FirstOfIsPrefix ==
    ASSUME NEW h \in Seq(Requests), NEW b \in Seq(Requests), NEW s \in Seq(Requests),
           NEW g \in Nat, FirstOf(h, b, s, g)
    PROVE  IsPrefix(h, s) /\ h \o b = SubSeq(s, 1, g \div 2)
  <1> DEFINE n == Len(h) + Len(b)
  <1>1. n \in Nat /\ n <= Len(s) /\ Len(h) <= n /\ g \div 2 = n
    <2>1. n \in Nat /\ g = 2 * n /\ n <= Len(s) /\ Len(h) <= n
      BY DEF FirstOf
    <2> QED BY <2>1, Halves
  <1> HIDE DEF n
  <1>2. ASSUME NEW m \in Nat, m <= n
        PROVE  /\ SubSeq(s, 1, m) \in Seq(Requests) /\ Len(SubSeq(s, 1, m)) = m
               /\ \A i \in 1 .. m : SubSeq(s, 1, m)[i] = s[i]
    <2>1. m \in Int /\ 1 \in Int /\ \A i \in 1 .. m : s[i] \in Requests
      BY <1>1, <1>2
    <2>2. /\ SubSeq(s, 1, m) \in Seq(Requests)
          /\ Len(SubSeq(s, 1, m)) = IF 1 <= m THEN m - 1 + 1 ELSE 0
          /\ \A i \in 1 .. m - 1 + 1 : SubSeq(s, 1, m)[i] = s[1 + i - 1]
      BY <2>1, SubSeqProperties
    <2> QED BY <1>2, <2>2
  <1>3. IsPrefix(h, s)
    <2> DEFINE r == SubSeq(s, 1, Len(h))
    <2>1. r \in Seq(Requests) /\ Len(r) = Len(h) /\ \A i \in 1 .. Len(h) : r[i] = s[i]
      BY <1>1, <1>2
    <2> HIDE DEF r
    <2>2. \A i \in 1 .. Len(h) : h[i] = r[i]
      BY <2>1 DEF FirstOf
    <2>3. h = r
      BY <2>1, <2>2, SeqEqual
    <2>4. SubSeq(h, 1, Len(h)) = h
      OBVIOUS
    <2> QED BY <1>1, <2>3, <2>4 DEF IsPrefix, r
  <1>4. h \o b = SubSeq(s, 1, n)
    <2> DEFINE hb == h \o b
               r == SubSeq(s, 1, n)
    <2>1. /\ hb \in Seq(Requests) /\ Len(hb) = n
          /\ \A i \in 1 .. n : hb[i] = IF i <= Len(h) THEN h[i] ELSE b[i - Len(h)]
      BY ConcatProperties DEF n
    <2>2. r \in Seq(Requests) /\ Len(r) = n /\ \A i \in 1 .. n : r[i] = s[i]
      BY <1>1, <1>2
    <2> HIDE DEF hb, r
    <2>3. \A i \in 1 .. n : hb[i] = s[i]
      <3> SUFFICES ASSUME NEW i \in 1 .. n PROVE hb[i] = s[i]
        OBVIOUS
      <3>1. CASE i <= Len(h)
        BY <2>1, <3>1 DEF FirstOf
      <3>2. CASE ~(i <= Len(h))
        <4>1. i - Len(h) \in 1 .. Len(b) /\ Len(h) + (i - Len(h)) = i
          BY <1>1, <3>2 DEF n
        <4> QED BY <2>1, <3>2, <4>1 DEF FirstOf
      <3> QED BY <3>1, <3>2
    <2>4. hb = r
      BY <2>1, <2>2, <2>3, SeqEqual
    <2> QED BY <2>4 DEF hb, r
  <1> QED BY <1>1, <1>3, <1>4

LEMMA OrderStep ==
    ASSUME TypeOK, OrderInv, [Next]_vars
    PROVE  OrderInv'
  <1> DEFINE Ordered(c) == FirstOf(handled[c], inbuf[c], stream[c], got[c])
  <1> SUFFICES ASSUME NEW d \in Conns, d \notin torn' PROVE Ordered(d)'
    BY DEF OrderInv
  <1>0. /\ InTyped /\ got[d] \in Nat
        /\ stream[d] \in Seq(Requests) /\ handled[d] \in Seq(Requests)
        /\ inbuf[d] \in Seq(Requests)
    BY TypedParts DEF InTyped
  <1>1. ASSUME NEW c \in Conns, NEW k \in Requests, ClientSends(c, k) PROVE Ordered(d)'
    <2>1. Ordered(d) /\ UNCHANGED <<got, inbuf, handled>>
      BY <1>1 DEF ClientSends, OrderInv
    <2>2. CASE d # c
      <3>1. stream'[d] = stream[d]
        BY <1>0, <1>1, <2>2 DEF ClientSends, InTyped
      <3> QED BY <2>1, <3>1
    <2>3. CASE d = c
      <3>1. stream'[d] = Append(stream[d], k)
        BY <1>0, <1>1, <2>3 DEF ClientSends, InTyped
      <3> QED BY <1>0, <2>1, <3>1, FirstOfSent
    <2> QED BY <2>2, <2>3
  <1>2. ASSUME NEW c \in Conns, NEW k \in Requests, NextPacket(c, k) PROVE Ordered(d)'
    <2>1. Ordered(d) /\ UNCHANGED <<got, stream>>
      BY <1>2 DEF NextPacket, OrderInv
    <2>2. CASE d # c
      <3>1. inbuf'[d] = inbuf[d] /\ handled'[d] = handled[d]
        BY <1>0, <1>2, <2>2 DEF NextPacket, InTyped
      <3> QED BY <2>1, <3>1
    <2>3. CASE d = c
      <3>1. /\ inbuf[d] # <<>> /\ inbuf'[d] = Tail(inbuf[d])
            /\ handled'[d] = Append(handled[d], Head(inbuf[d]))
        BY <1>0, <1>2, <2>3 DEF NextPacket, InTyped
      <3> QED BY <1>0, <2>1, <3>1, FirstOfHandled
    <2> QED BY <2>2, <2>3
  <1>3. ASSUME NEW c \in Conns, NEW n \in 1 .. 2 * Len(stream[c]) - got[c], OnTraffic(c, n)
        PROVE  Ordered(d)'
    <2>1. Ordered(d) /\ UNCHANGED <<stream, handled>>
      BY <1>3 DEF OnTraffic, OrderInv
    <2>2. CASE d # c
      <3>1. got'[d] = got[d] /\ inbuf'[d] = inbuf[d]
        BY <1>0, <1>3, <2>2 DEF OnTraffic, InTyped
      <3> QED BY <2>1, <3>1
    <2>3. CASE d = c
      <3>1. /\ got'[d] = got[d] + n /\ inbuf[d] = <<>>
            /\ inbuf'[d] = SubSeq(stream[d], got[d] \div 2 + 1, (got[d] + n) \div 2)
        BY <1>0, <1>3, <2>3 DEF OnTraffic, InTyped, Idle
      <3>2. n % 2 # 1
        BY <1>3, <2>3 DEF OnTraffic
      <3>3. n \in Nat /\ got[d] + n <= 2 * Len(stream[d])
        <4>1. ASSUME NEW l \in Nat, NEW g \in Nat, n \in 1 .. 2 * l - g
              PROVE  n \in Nat /\ g + n <= 2 * l
          BY <4>1
        <4>2. Len(stream[d]) \in Nat
          BY <1>0
        <4> QED BY <1>0, <2>3, <4>1, <4>2
      <3> QED BY <1>0, <2>1, <3>1, <3>2, <3>3, FirstOfChunk
    <2> QED BY <2>2, <2>3
  <1>4. ASSUME NEW c \in Conns, NEW n \in 1 .. 2 * Len(stream[c]) - got[c],
               OnTrafficAstray(c, n)
        PROVE  Ordered(d)'
    <2>1. Ordered(d) /\ UNCHANGED <<stream, handled>> /\ got[c] % 2 = 1
      BY <1>4 DEF OnTrafficAstray, OrderInv
    <2>2. d # c
      <3>0. ASSUME NEW x \in Nat, NEW y \in Nat PROVE x + y \in Nat
        OBVIOUS
      <3>1. Len(handled[d]) + Len(inbuf[d]) \in Nat
        BY <1>0, <3>0, LenProperties
      <3>2. got[d] % 2 = 0
        BY <2>1, <3>1, Halves DEF FirstOf
      <3> QED BY <2>1, <3>2
    <2>3. got'[d] = got[d] /\ inbuf'[d] = inbuf[d]
      BY <1>0, <1>4, <2>2 DEF OnTrafficAstray, InTyped
    <2> QED BY <2>1, <2>3
  <1>5. CASE UNCHANGED inVars
    BY <1>5 DEF inVars, OrderInv
  <1> QED BY <1>1, <1>2, <1>3, <1>4, <1>5, InSteps DEF InStep

\* Packets are handled once each and in the order the client sent them, in
\* whatever chunks they arrive, until a chunk ends inside a packet.
THEOREM PacketsInOrder == Spec => []HandledInOrder
  <1>1. Init => OrderInv
    BY DEF Init, OrderInv, FirstOf
  <1>2. TypeOK /\ OrderInv /\ [Next]_vars => OrderInv'
    BY OrderStep
  <1>3. TypeOK /\ OrderInv => HandledInOrder
    <2> SUFFICES ASSUME TypeOK, OrderInv, NEW c \in Conns, c \notin torn
                 PROVE  /\ IsPrefix(handled[c], stream[c])
                        /\ handled[c] \o inbuf[c] = SubSeq(stream[c], 1, got[c] \div 2)
      BY DEF HandledInOrder
    <2>1. FirstOf(handled[c], inbuf[c], stream[c], got[c])
      BY DEF OrderInv
    <2>2. /\ got[c] \in Nat /\ stream[c] \in Seq(Requests)
          /\ handled[c] \in Seq(Requests) /\ inbuf[c] \in Seq(Requests)
      BY DEF TypeOK
    <2> QED BY <2>1, <2>2, FirstOfIsPrefix
  <1> QED BY <1>1, <1>2, <1>3, WireTypeCorrect, PTL DEF Spec

----
(***************************************************************************)
(* What is handed to gnet is what was built for the connection.            *)
(***************************************************************************)

\* A packet built in a pooled writer disturbs no send under way, and of the
\* Init packets only those it marks.
LEMMA BuildOwned ==
    ASSUME OutTyped, WritersOwned, NEW w \in pool, NEW c \in Conns, NEW k \in Replies,
           Build(w, c, k)
    PROVE  /\ w \in Writers /\ buf'[w] = [conn |-> c, kind |-> k]
           /\ \A a \in Senders : send[a] # NoSend =>
                 /\ send[a].writer # w
                 /\ buf'[send[a].writer] = [conn |-> send[a].conn, kind |-> send[a].kind]
           /\ \A d \in Conns : conn[d] = "opened" =>
                 \/ buf'[initWriter[d]] = [conn |-> d, kind |-> "Init"]
                 \/ d \in reused'
           /\ reused \subseteq reused'
  <1>1. /\ w \in Writers /\ buf'[w] = [conn |-> c, kind |-> k]
        /\ \A v \in Writers \ {w} : buf'[v] = buf[v]
        /\ reused' = reused \cup {d \in Conns : initWriter[d] = w}
    BY DEF Build, OutTyped
  <1>2. ASSUME NEW a \in Senders, send[a] # NoSend
        PROVE  /\ send[a].writer # w
               /\ buf'[send[a].writer] = [conn |-> send[a].conn, kind |-> send[a].kind]
    <2>1. send[a].writer \in Writers
      BY <1>2, SendIsRecord
    <2> QED BY <1>1, <1>2, <2>1 DEF WritersOwned, WriterOwned
  <1>3. ASSUME NEW d \in Conns, conn[d] = "opened"
        PROVE  buf'[initWriter[d]] = [conn |-> d, kind |-> "Init"] \/ d \in reused'
    BY <1>1, <1>3 DEF WritersOwned, InitOwned
  <1> QED BY <1>1, <1>2, <1>3

\* The senders' writers.
LEMMA WriterStep ==
    ASSUME TypeOK, WritersOwned, [Next]_vars, NEW a \in Senders
    PROVE  WriterOwned(a)'
  <1>0. OutTyped /\ WriterOwned(a)
    BY TypedParts DEF WritersOwned
  <1>1. ASSUME NEW c \in Conns, OnOpen(c) PROVE WriterOwned(a)'
    <2>1. PICK w \in pool : Build(w, c, "Init")
      BY <1>1 DEF OnOpen
    <2>2. \A b \in Senders : send[b] # NoSend =>
             buf'[send[b].writer] = [conn |-> send[b].conn, kind |-> send[b].kind]
      BY <1>0, <2>1, BuildOwned DEF Replies
    <2> QED BY <1>0, <1>1, <2>2 DEF OnOpen, WriterOwned
  <1>2. ASSUME NEW c \in Conns, WriteInit(c) PROVE WriterOwned(a)'
    BY <1>0, <1>2 DEF WriteInit, WriterOwned
  <1>3. ASSUME NEW b \in Senders, NEW c \in Conns, NEW k \in Replies, Send(b, c, k)
        PROVE  WriterOwned(a)'
    <2>1. PICK w \in pool :
             /\ pool' = pool \ {w}
             /\ Build(w, c, k)
             /\ send'[b] = [conn |-> c, kind |-> k, writer |-> w,
                            step |-> "reserve", reserve |-> 12, xored |-> FALSE]
             /\ \A d \in Senders \ {b} : send'[d] = send[d]
      BY <1>0, <1>3, SendFacts
    <2>2. /\ send'[b].conn = c /\ send'[b].kind = k /\ send'[b].writer = w
          /\ buf'[w] = [conn |-> c, kind |-> k]
          /\ \A d \in Senders : send[d] # NoSend =>
                /\ send[d].writer # w
                /\ buf'[send[d].writer] = [conn |-> send[d].conn, kind |-> send[d].kind]
      BY <1>0, <2>1, BuildOwned
    <2>3. CASE a = b
      BY <2>1, <2>2, <2>3 DEF WriterOwned
    <2>4. CASE a # b
      BY <1>0, <2>1, <2>2, <2>4 DEF WriterOwned
    <2> QED BY <2>3, <2>4
  <1>4. ASSUME NEW b \in Senders, Encrypting(b), UNCHANGED <<pool, buf>>
        PROVE  WriterOwned(a)'
    <2>1. WriterOwned(b)
      BY DEF WritersOwned
    <2>2. CASE a = b
      BY <1>4, <2>1, <2>2 DEF WriterOwned, Encrypting
    <2>3. CASE a # b
      BY <1>0, <1>4, <2>1, <2>3 DEF WriterOwned, Encrypting
    <2> QED BY <2>2, <2>3
  <1>5. ASSUME NEW b \in Senders, EncryptReserve(b) PROVE WriterOwned(a)'
    BY <1>0, <1>4, <1>5, EncryptReserveFacts DEF EncryptReserve
  <1>6. ASSUME NEW b \in Senders, EncryptXor(b) PROVE WriterOwned(a)'
    BY <1>0, <1>4, <1>6, EncryptXorFacts DEF EncryptXor
  <1>7. ASSUME NEW b \in Senders, EncryptSet(b) PROVE WriterOwned(a)'
    BY <1>0, <1>4, <1>7, EncryptSetFacts DEF EncryptSet
  <1>8. ASSUME NEW b \in Senders, AsyncWrite(b) PROVE WriterOwned(a)'
    <2>1. /\ send[b] # NoSend /\ pool' = pool \cup {send[b].writer} /\ buf' = buf
          /\ send'[b] = NoSend /\ \A d \in Senders \ {b} : send'[d] = send[d]
      BY <1>0, <1>8 DEF AsyncWrite, OutTyped
    <2> QED BY <1>0, <2>1 DEF WriterOwned
  <1>9. CASE UNCHANGED outVars
    BY <1>0, <1>9 DEF outVars, WriterOwned
  <1> QED
    BY <1>1, <1>2, <1>3, <1>5, <1>6, <1>7, <1>8, <1>9, OutSteps DEF OutStep

\* The Init packets that gnet has not written yet.
LEMMA InitOwnedStep ==
    ASSUME TypeOK, WritersOwned, [Next]_vars, NEW d \in Conns
    PROVE  InitOwned(d)'
  <1>0. OutTyped /\ InitOwned(d) /\ conn \in [Conns -> {"new", "opened", "open", "closed"}]
    BY TypedParts DEF WritersOwned, TypeOK
  <1>1. ASSUME NEW c \in Conns, OnOpen(c) PROVE InitOwned(d)'
    <2>1. PICK w \in pool : Build(w, c, "Init") /\ initWriter' = [initWriter EXCEPT ![c] = w]
      BY <1>1 DEF OnOpen
    <2>2. /\ w \in Writers /\ buf'[w] = [conn |-> c, kind |-> "Init"]
          /\ conn[d] = "opened" =>
                buf'[initWriter[d]] = [conn |-> d, kind |-> "Init"] \/ d \in reused'
      BY <1>0, <2>1, BuildOwned DEF Replies
    <2>3. CASE d = c
      BY <1>0, <1>1, <2>1, <2>2, <2>3 DEF OnOpen, InitOwned, OutTyped
    <2>4. CASE d # c
      BY <1>0, <1>1, <2>1, <2>2, <2>4 DEF OnOpen, InitOwned, OutTyped
    <2> QED BY <2>3, <2>4
  <1>2. ASSUME NEW c \in Conns, WriteInit(c) PROVE InitOwned(d)'
    BY <1>0, <1>2 DEF WriteInit, InitOwned, OutTyped
  <1>3. ASSUME NEW b \in Senders, NEW c \in Conns, NEW k \in Replies, Send(b, c, k),
               UNCHANGED conn
        PROVE  InitOwned(d)'
    <2>1. PICK w \in pool : Build(w, c, k)
      BY <1>3 DEF Send
    <2>2. conn[d] = "opened" =>
             buf'[initWriter[d]] = [conn |-> d, kind |-> "Init"] \/ d \in reused'
      BY <1>0, <2>1, BuildOwned
    <2> QED BY <1>0, <1>3, <2>2 DEF Send, InitOwned
  <1>4. ASSUME NEW c \in Conns, AuthGG(c) \/ HandleLoginRefused(c) PROVE InitOwned(d)'
    <2>1. \E k \in Replies : Send(c, c, k) /\ UNCHANGED conn
      BY <1>4 DEF AuthGG, HandleLoginRefused, Replies
    <2> QED BY <1>3, <2>1 DEF Senders
  <1>5. ASSUME NEW g \in Workers, ProcessLogin(g) PROVE InitOwned(d)'
    <2>1. job[g] \in Conns /\ \E k \in Replies : Send(g, job[g], k) /\ UNCHANGED conn
      BY <1>5 DEF ProcessLogin, Replies, TypeOK
    <2> QED BY <1>3, <2>1 DEF Senders
  <1>6. ASSUME NEW c \in Conns, conn[c] = "open",
               conn' = [conn EXCEPT ![c] = "closed"] \/ UNCHANGED conn,
               UNCHANGED <<initWriter, buf, reused>>
        PROVE  InitOwned(d)'
    BY <1>0, <1>6 DEF InitOwned
  <1>7. ASSUME NEW c \in Conns, NEW n, OnTrafficAstray(c, n) \/ OnClose(c) PROVE InitOwned(d)'
    BY <1>6, <1>7 DEF OnTrafficAstray, OnClose, Idle, outVars
  <1>8. CASE UNCHANGED <<conn, initWriter, buf, reused>>
    BY <1>0, <1>8 DEF InitOwned
  <1> QED
    BY <1>1, <1>2, <1>4, <1>5, <1>7, <1>8
    DEF Next, vars, outVars, ClientSends, OnTraffic, HandleLogin, EncryptReserve, EncryptXor,
        EncryptSet, AsyncWrite

LEMMA SentStep ==
    ASSUME TypeOK, WritersOwned, SentIsOwn, [Next]_vars
    PROVE  SentIsOwn'
  <1>0. OutTyped
    BY TypedParts
  <1> DEFINE Own(c, i) == \/ out[c][i].bytes = [conn |-> c, kind |-> out[c][i].kind]
                          \/ i = 1 /\ c \in reused
  <1> SUFFICES ASSUME NEW d \in Conns, NEW i \in 1 .. Len(out'[d]) PROVE Own(d, i)'
    BY DEF SentIsOwn
  <1>1. CASE out'[d] = out[d] /\ reused \subseteq reused'
    BY <1>1 DEF SentIsOwn
  <1>2. ASSUME NEW c \in Conns, OnOpen(c) PROVE Own(d, i)'
    <2>1. out' = out /\ reused \subseteq reused'
      BY <1>2 DEF OnOpen, Build
    <2> QED BY <1>1, <2>1
  <1>3. ASSUME NEW c \in Conns, WriteInit(c) PROVE Own(d, i)'
    <2>1. CASE d # c
      <3>1. out'[d] = out[d] /\ reused' = reused
        BY <1>0, <1>3, <2>1 DEF WriteInit, OutTyped
      <3> QED BY <1>1, <3>1
    <2>2. CASE d = c
      <3> DEFINE p == [bytes |-> buf[initWriter[c]], kind |-> "Init",
                       reserve |-> 16, xored |-> TRUE]
      <3>1. out'[d] = <<p>> /\ reused' = reused
        BY <1>0, <1>3, <2>2 DEF WriteInit, OutTyped
      <3>2. i = 1 /\ out'[d][i] = p
        <4> HIDE DEF p
        <4>1. Len(<<p>>) = 1 /\ <<p>>[1] = p
          OBVIOUS
        <4>2. i \in 1 .. 1
          BY <3>1, <4>1
        <4>3. i = 1
          BY <4>2
        <4> QED BY <3>1, <4>1, <4>3
      <3>3. buf[initWriter[c]] = [conn |-> c, kind |-> "Init"] \/ c \in reused
        BY <1>3 DEF WriteInit, WritersOwned, InitOwned
      <3> QED BY <2>2, <3>1, <3>2, <3>3
    <2> QED BY <2>1, <2>2
  <1>4. ASSUME NEW a \in Senders, NEW c \in Conns, NEW k \in Replies, Send(a, c, k)
        PROVE  Own(d, i)'
    <2>1. out' = out /\ reused \subseteq reused'
      BY <1>4 DEF Send, Build
    <2> QED BY <1>1, <2>1
  <1>5. ASSUME NEW a \in Senders, EncryptReserve(a) \/ EncryptXor(a) \/ EncryptSet(a)
        PROVE  Own(d, i)'
    <2>1. out' = out /\ reused' = reused
      BY <1>5 DEF EncryptReserve, EncryptXor, EncryptSet
    <2> QED BY <1>1, <2>1
  <1>6. ASSUME NEW a \in Senders, AsyncWrite(a) PROVE Own(d, i)'
    <2> DEFINE s == send[a]
    <2>1. /\ s # NoSend /\ s.conn \in Conns
          /\ \A c \in Conns \ {s.conn} : out'[c] = out[c]
          /\ conn[s.conn] = "open" =>
                /\ Len(out'[s.conn]) = Len(out[s.conn]) + 1
                /\ \A j \in 1 .. Len(out[s.conn]) : out'[s.conn][j] = out[s.conn][j]
                /\ out'[s.conn][Len(out[s.conn]) + 1] = Sent(a)
          /\ conn[s.conn] # "open" => out'[s.conn] = out[s.conn]
      BY <1>0, <1>6, AsyncWriteFacts, SendIsRecord
    <2>2. reused' = reused
      BY <1>6 DEF AsyncWrite
    <2>3. CASE d # s.conn \/ conn[s.conn] # "open"
      BY <1>1, <2>1, <2>2, <2>3
    <2>4. CASE d = s.conn /\ conn[s.conn] = "open"
      <3>1. Sent(a).bytes = [conn |-> d, kind |-> Sent(a).kind]
        BY <2>1, <2>4 DEF WritersOwned, WriterOwned, Sent
      <3>2. out[d] \in Seq(Packets)
        BY <1>0 DEF OutTyped
      <3>3. Len(out[d]) \in Nat
        BY <3>2, LenProperties
      <3>4. ASSUME NEW l \in Nat, NEW j \in 1 .. l + 1 PROVE j \in 1 .. l \/ j = l + 1
        OBVIOUS
      <3>5. i \in 1 .. Len(out[d]) \/ i = Len(out[d]) + 1
        BY <2>1, <2>4, <3>3, <3>4
      <3>6. CASE i \in 1 .. Len(out[d])
        BY <2>1, <2>2, <2>4, <3>6 DEF SentIsOwn
      <3>7. CASE i = Len(out[d]) + 1
        BY <2>1, <2>4, <3>1, <3>7
      <3> QED BY <3>5, <3>6, <3>7
    <2> QED BY <2>3, <2>4
  <1>7. CASE UNCHANGED outVars
    BY <1>1, <1>7 DEF outVars
  <1> QED BY <1>2, <1>3, <1>4, <1>5, <1>6, <1>7, OutSteps DEF OutStep

\* What gnet is handed for a connection was built for that connection, although
\* all of them share the pool of writers; only an Init packet, whose writer is
\* back in the pool before gnet has written it, may have been built over.
THEOREM PacketsAreOwn == Spec => []SentIsOwn
  <1>1. Init => WritersOwned /\ SentIsOwn
    BY DEF Init, WritersOwned, WriterOwned, InitOwned, SentIsOwn
  <1>2. TypeOK /\ WritersOwned /\ SentIsOwn /\ [Next]_vars => WritersOwned' /\ SentIsOwn'
    BY WriterStep, InitOwnedStep, SentStep DEF WritersOwned
  <1> QED BY <1>1, <1>2, WireTypeCorrect, PTL DEF Spec

----
(***************************************************************************)
(* Exactly the first packet is XORed.                                      *)
(***************************************************************************)

\* A packet handed to gnet is one more.
LEMMA HandedFacts ==
    ASSUME OutTyped, NEW a \in Senders, AsyncWrite(a)
    PROVE  /\ send[a] # NoSend /\ send[a].step = "write" /\ send[a].conn \in Conns
           /\ send'[a] = NoSend /\ \A b \in Senders \ {a} : send'[b] = send[b]
           /\ \A c \in Conns : Handed(c) \in Nat
           /\ \A c \in Conns : Handed(c)' = IF c = send[a].conn /\ conn[c] = "open"
                                            THEN Handed(c) + 1 ELSE Handed(c)
           /\ UNCHANGED <<conn, state, job, updatedKey>>
  <1>1. send[a] # NoSend /\ send[a].step = "write" /\ send[a].conn \in Conns
    BY SendIsRecord DEF AsyncWrite
  <1>2. send'[a] = NoSend /\ \A b \in Senders \ {a} : send'[b] = send[b]
    BY DEF AsyncWrite, OutTyped
  <1>3. \A c \in Conns : Handed(c) \in Nat
    BY LenProperties DEF Handed, OutTyped
  <1>4. ASSUME NEW c \in Conns
        PROVE  Handed(c)' = IF c = send[a].conn /\ conn[c] = "open"
                            THEN Handed(c) + 1 ELSE Handed(c)
    <2>1. CASE c = send[a].conn /\ conn[c] = "open"
      BY <2>1, AsyncWriteFacts DEF Handed
    <2>2. CASE ~(c = send[a].conn /\ conn[c] = "open")
      BY <2>2, AsyncWriteFacts DEF Handed
    <2> QED BY <2>1, <2>2
  <1> QED BY <1>1, <1>2, <1>3, <1>4 DEF AsyncWrite

\* A send that a login goroutine makes has a key that is set, once the first
\* packet is out of the way.
LEMMA WorkersComeLater ==
    ASSUME TypeOK, FirstPacketsInv, NEW a \in Senders, send[a] # NoSend
    PROVE  /\ send[a].conn \in Conns /\ updatedKey[send[a].conn] \in BOOLEAN
           /\ send[a].xored \in BOOLEAN
           /\ ReadingsAgree(a)
           /\ FirstPacketAlone(send[a].conn)
           /\ a \notin Conns => ~Fresh(send[a].conn)
           /\ a \in Conns => send[a].conn = a
  <1>1. /\ send[a].conn \in Conns /\ updatedKey[send[a].conn] \in BOOLEAN
        /\ send[a].xored \in BOOLEAN
    BY TypedParts, SendIsRecord DEF OutTyped
  <1>2. ReadingsAgree(a) /\ FirstPacketAlone(send[a].conn)
    BY <1>1 DEF FirstPacketsInv
  <1>3. a \notin Conns => ~Fresh(send[a].conn)
    BY <1>2 DEF FirstPacketAlone, Alone, Senders
  <1>4. a \in Conns => send[a].conn = a
    BY <1>2 DEF ReadingsAgree
  <1> QED BY <1>1, <1>2, <1>3, <1>4

\* A connection that a step leaves alone.
LEMMA FirstFrame ==
    ASSUME NEW d \in Conns, FirstPacketAlone(d), Fresh(d) => Alone(d)',
           UNCHANGED <<conn[d], state[d], updatedKey[d], send[d]>>, Handed(d)' = Handed(d)
    PROVE  FirstPacketAlone(d)'
  BY DEF FirstPacketAlone, Fresh

LEMMA FirstSend ==
    ASSUME TypeOK, FirstPacketsInv, NEW a \in Senders, NEW c \in Conns, NEW k \in Replies,
           Send(a, c, k), NEW d \in Conns, UNCHANGED conn,
           a \in Conns => a = c /\ conn[a] = "open" /\ UNCHANGED job,
           a \notin Conns => ~Fresh(c) /\ \A g \in Workers : job'[g] \in {job[g], NoConn},
           state'[d] = state[d] \/ (d = a /\ state'[d] = "AuthedGG")
                                \/ state'[d] = "AuthedLogin"
    PROVE  FirstPacketAlone(d)'
  <1>0. OutTyped /\ FirstPacketAlone(d)
    BY TypedParts DEF FirstPacketsInv
  <1>1. /\ send[a] = NoSend /\ send'[a] # NoSend
        /\ send'[a].conn = c /\ send'[a].xored = FALSE
        /\ \A b \in Senders \ {a} : send'[b] = send[b]
        /\ UNCHANGED <<updatedKey, out>>
    BY <1>0, SendStarts
  <1>2. Handed(d)' = Handed(d)
    BY <1>1 DEF Handed
  <1>3. Fresh(d)' = Fresh(d)
    BY <1>1 DEF Fresh, Senders
  <1>4. Fresh(d) => Alone(d)'
    <2>1. CASE a \in Conns
      <3>1. a \notin Workers
        BY <2>1, SendersAssumption
      <3> QED BY <1>0, <1>1, <2>1, <3>1 DEF FirstPacketAlone, Alone, Senders
    <2>2. CASE a \notin Conns
      BY <1>0, <1>1, <2>2, NoConnAssumption DEF FirstPacketAlone, Alone, Senders
    <2> QED BY <2>1, <2>2
  <1>5. Fresh(d) => (state'[d] = "AuthedGG" => send'[d] # NoSend)
    BY <1>0, <1>1 DEF FirstPacketAlone, Senders
  <1>6. conn[d] \in {"new", "opened"} => send'[d] = NoSend
    BY <1>0, <1>1 DEF FirstPacketAlone, Senders
  <1> QED BY <1>0, <1>1, <1>2, <1>3, <1>4, <1>5, <1>6 DEF FirstPacketAlone

LEMMA FirstStep ==
    ASSUME TypeOK, FirstPacketsInv, [Next]_vars, NEW d \in Conns
    PROVE  FirstPacketAlone(d)'
  <1>0. /\ OutTyped /\ FirstPacketAlone(d)
        /\ conn \in [Conns -> {"new", "opened", "open", "closed"}]
        /\ state \in [Conns -> {"Connected", "AuthedGG", "AuthedLogin"}]
        /\ job \in [Workers -> Conns \cup {NoConn}]
    BY TypedParts DEF FirstPacketsInv, TypeOK
  <1>1. ASSUME UNCHANGED <<job, send>> PROVE Alone(d)' = Alone(d)
    BY <1>1 DEF Alone
  <1>2. ASSUME NEW c \in Conns, OnOpen(c) PROVE FirstPacketAlone(d)'
    <2>1. Alone(d)' = Alone(d) /\ Fresh(d)' = Fresh(d) /\ Handed(d)' = Handed(d)
      BY <1>1, <1>2 DEF OnOpen, Fresh, Handed
    <2>2. UNCHANGED <<state, send, updatedKey>>
      BY <1>2 DEF OnOpen
    <2>3. conn[c] = "new" /\ conn' = [conn EXCEPT ![c] = "opened"]
      BY <1>2 DEF OnOpen
    <2> QED BY <1>0, <2>1, <2>2, <2>3 DEF FirstPacketAlone
  <1>3. ASSUME NEW c \in Conns, WriteInit(c) PROVE FirstPacketAlone(d)'
    <2>1. Alone(d)' = Alone(d) /\ Fresh(d)' = Fresh(d)
      BY <1>1, <1>3 DEF WriteInit, Fresh
    <2>2. UNCHANGED <<state, send, updatedKey>>
      BY <1>3 DEF WriteInit
    <2>3. conn[c] = "opened" /\ conn' = [conn EXCEPT ![c] = "open"]
      BY <1>3 DEF WriteInit
    <2>4. CASE d # c
      <3>1. Handed(d)' = Handed(d) /\ conn'[d] = conn[d]
        BY <1>0, <1>3, <2>4 DEF WriteInit, Handed, OutTyped
      <3> QED BY <1>0, <2>1, <2>2, <3>1 DEF FirstPacketAlone
    <2>5. CASE d = c
      <3> DEFINE p == [bytes |-> buf[initWriter[c]], kind |-> "Init",
                       reserve |-> 16, xored |-> TRUE]
      <3>1. out'[d] = <<p>>
        BY <1>0, <1>3, <2>5 DEF WriteInit, OutTyped
      <3> HIDE DEF p
      <3>2. Len(<<p>>) = 1
        OBVIOUS
      <3>3. Handed(d)' = 1 /\ conn'[d] = "open"
        BY <1>0, <2>3, <2>5, <3>1, <3>2 DEF Handed
      <3>4. Fresh(d)
        BY <1>0, <2>3, <2>5 DEF FirstPacketAlone, Fresh
      <3> QED BY <1>0, <2>1, <2>2, <3>3, <3>4 DEF FirstPacketAlone
    <2> QED BY <2>4, <2>5
  <1>4. ASSUME NEW c \in Conns, AuthGG(c) \/ HandleLoginRefused(c) PROVE FirstPacketAlone(d)'
    <2>1. /\ \E k \in Replies : Send(c, c, k)
          /\ UNCHANGED <<conn, job>> /\ conn[c] = "open"
      BY <1>4 DEF AuthGG, HandleLoginRefused, NextPacket, Replies
    <2>2. state'[d] = state[d] \/ (d = c /\ state'[d] = "AuthedGG")
      BY <1>0, <1>4 DEF AuthGG, HandleLoginRefused
    <2> QED BY <2>1, <2>2, FirstSend DEF Senders
  <1>5. ASSUME NEW g \in Workers, ProcessLogin(g) PROVE FirstPacketAlone(d)'
    <2>1. /\ job[g] \in Conns /\ \E k \in Replies : Send(g, job[g], k)
          /\ UNCHANGED conn
      BY <1>0, <1>5 DEF ProcessLogin, Replies
    <2>2. state'[d] = state[d] \/ state'[d] = "AuthedLogin"
      BY <1>0, <1>5 DEF ProcessLogin
    <2>3. ~Fresh(job[g])
      BY <2>1 DEF FirstPacketsInv, FirstPacketAlone, Alone
    <2>4. \A h \in Workers : job'[h] \in {job[h], NoConn}
      BY <1>0, <1>5 DEF ProcessLogin
    <2>5. g \in Senders /\ g \notin Conns
      BY SendersAssumption DEF Senders
    <2> QED BY <2>1, <2>2, <2>3, <2>4, <2>5, FirstSend
  <1>6. ASSUME NEW c \in Conns, HandleLogin(c) PROVE FirstPacketAlone(d)'
    <2>1. /\ UNCHANGED <<conn, state, outVars>>
          /\ state[c] = "AuthedGG" /\ send[c] = NoSend
          /\ \A g \in Workers : job'[g] \in {job[g], c}
      BY <1>0, <1>6 DEF HandleLogin, NextPacket
    <2>2. ~Fresh(c)
      BY <2>1 DEF FirstPacketsInv, FirstPacketAlone
    <2>3. Handed(d)' = Handed(d) /\ UNCHANGED <<send, updatedKey>>
      BY <2>1 DEF Handed, outVars
    <2>4. Fresh(d) => Alone(d)'
      BY <1>0, <2>1, <2>2, <2>3 DEF FirstPacketAlone, Alone
    <2> QED BY <1>0, <2>1, <2>3, <2>4, FirstFrame
  <1>7. ASSUME NEW c \in Conns, conn[c] = "open",
               conn' = [conn EXCEPT ![c] = "closed"] \/ UNCHANGED conn,
               UNCHANGED <<state, job, outVars>>
        PROVE  FirstPacketAlone(d)'
    <2>1. Alone(d)' = Alone(d) /\ Fresh(d)' = Fresh(d) /\ Handed(d)' = Handed(d)
      BY <1>1, <1>7 DEF Fresh, Handed, outVars
    <2>2. UNCHANGED <<send, updatedKey>>
      BY <1>7 DEF outVars
    <2> QED BY <1>0, <1>7, <2>1, <2>2 DEF FirstPacketAlone
  <1>8. ASSUME NEW c \in Conns, NEW n, OnTrafficAstray(c, n) \/ OnClose(c)
        PROVE  FirstPacketAlone(d)'
    BY <1>7, <1>8 DEF OnTrafficAstray, OnClose, Idle
  <1>9. ASSUME NEW a \in Senders, Encrypting(a), UNCHANGED <<conn, state, job, out>>,
               Fresh(d)' = Fresh(d), conn[d] \in {"new", "opened"} => updatedKey'[d] = updatedKey[d]
        PROVE  FirstPacketAlone(d)'
    <2>1. Alone(d)' = Alone(d) /\ Handed(d)' = Handed(d)
      BY <1>9 DEF Alone, Handed, Encrypting, Senders
    <2>2. send'[d] = NoSend <=> send[d] = NoSend
      BY <1>9 DEF Encrypting, Senders
    <2> QED BY <1>0, <1>9, <2>1, <2>2 DEF FirstPacketAlone
  <1>10. ASSUME NEW a \in Senders, EncryptReserve(a) PROVE FirstPacketAlone(d)'
    <2>1. Encrypting(a) /\ send'[a].xored = send[a].xored
      BY <1>0, <1>10, EncryptReserveFacts
    <2>2. Fresh(d)' = Fresh(d)
      BY <1>10, <2>1 DEF EncryptReserve, Encrypting, Fresh, Senders
    <2> QED BY <1>9, <1>10, <2>1, <2>2 DEF EncryptReserve
  <1>11. ASSUME NEW a \in Senders, EncryptXor(a) PROVE FirstPacketAlone(d)'
    <2>1. /\ Encrypting(a) /\ send[a].step = "xor"
          /\ send'[a].xored = ~updatedKey[send[a].conn] /\ updatedKey' = updatedKey
      BY <1>0, <1>11, EncryptXorFacts DEF EncryptXor
    <2>2. ~send[a].xored /\ (a \in Conns => send[a].conn = a)
      BY <2>1, WorkersComeLater DEF Encrypting, ReadingsAgree
    <2>3. Fresh(d)' = Fresh(d)
      BY <2>1, <2>2 DEF Encrypting, Fresh, Senders
    <2> QED BY <1>9, <1>11, <2>1, <2>3 DEF EncryptXor
  <1>12. ASSUME NEW a \in Senders, EncryptSet(a) PROVE FirstPacketAlone(d)'
    <2>1. /\ Encrypting(a) /\ send[a].step = "set" /\ send'[a].xored = send[a].xored
          /\ updatedKey' = [updatedKey EXCEPT ![send[a].conn] = TRUE]
      BY <1>0, <1>12, EncryptSetFacts DEF EncryptSet
    <2>2. /\ send[a].xored /\ a \in Conns /\ send[a].conn = a /\ conn[a] = "open"
          /\ ~updatedKey[a]
      BY <2>1, WorkersComeLater DEF Encrypting, ReadingsAgree
    <2>3. Fresh(d)' = Fresh(d)
      BY <1>0, <2>1, <2>2 DEF Encrypting, Fresh, Senders, OutTyped
    <2>4. conn[d] \in {"new", "opened"} => updatedKey'[d] = updatedKey[d]
      BY <1>0, <2>1, <2>2 DEF OutTyped
    <2> QED BY <1>9, <1>12, <2>1, <2>3, <2>4 DEF EncryptSet
  <1>13. ASSUME NEW a \in Senders, AsyncWrite(a) PROVE FirstPacketAlone(d)'
    <2>1. /\ send[a] # NoSend /\ send[a].step = "write" /\ send[a].conn \in Conns
          /\ send'[a] = NoSend /\ \A b \in Senders \ {a} : send'[b] = send[b]
          /\ \A c \in Conns : Handed(c) \in Nat
          /\ \A c \in Conns : Handed(c)' = IF c = send[a].conn /\ conn[c] = "open"
                                           THEN Handed(c) + 1 ELSE Handed(c)
          /\ UNCHANGED <<conn, state, job, updatedKey>>
      BY <1>0, <1>13, HandedFacts
    <2>2. /\ ReadingsAgree(a) /\ FirstPacketAlone(send[a].conn)
          /\ a \notin Conns => ~Fresh(send[a].conn)
          /\ a \in Conns => send[a].conn = a /\ conn[a] = "open"
          /\ updatedKey[send[a].conn]
      BY <2>1, WorkersComeLater DEF ReadingsAgree
    <2>3. Alone(d) => Alone(d)'
      BY <2>1 DEF Alone, Senders
    <2>4. CASE d # send[a].conn
      <3>1. Handed(d)' = Handed(d) /\ send'[d] = send[d]
        BY <2>1, <2>2, <2>4 DEF Senders
      <3>2. Fresh(d) => Alone(d)'
        BY <1>0, <2>3 DEF FirstPacketAlone
      <3> QED BY <1>0, <2>1, <3>1, <3>2, FirstFrame
    <2>5. CASE d = send[a].conn /\ a \in Conns
      <3>1. ~Fresh(d)'
        BY <2>1, <2>2, <2>5 DEF Fresh
      <3>2. Handed(d)' = Handed(d) + 1 /\ Handed(d) \in Nat /\ conn'[d] = "open"
        BY <2>1, <2>2, <2>5
      <3>3. Handed(d) >= 1
        BY <1>0, <2>2, <2>5 DEF FirstPacketAlone
      <3>4. Handed(d)' >= 2 /\ Handed(d)' >= 1
        BY <3>2, <3>3
      <3> QED BY <3>1, <3>2, <3>4 DEF FirstPacketAlone
    <2>6. CASE d = send[a].conn /\ a \notin Conns
      <3>1. send'[d] = send[d] /\ ~Fresh(d)
        BY <2>1, <2>2, <2>6 DEF Senders
      <3>2. ~Fresh(d)'
        BY <2>1, <3>1 DEF Fresh
      <3>3. Handed(d)' \in {Handed(d), Handed(d) + 1} /\ Handed(d) \in Nat
        BY <2>1
      <3>4. updatedKey[d]
        BY <2>2, <2>6
      <3>5. conn[d] \notin {"new", "opened"}
        BY <1>0, <3>4 DEF FirstPacketAlone
      <3>6. (conn[d] = "open" => Handed(d)' >= 2) /\ Handed(d)' >= 1
        <4>1. (conn[d] = "open" => Handed(d) >= 2) /\ Handed(d) >= 1
          BY <1>0, <3>1, <3>5 DEF FirstPacketAlone
        <4>2. ASSUME NEW x \in Nat, NEW y \in {x, x + 1}, x >= 1
              PROVE  y >= 1 /\ (x >= 2 => y >= 2)
          BY <4>2
        <4> QED BY <3>3, <4>1, <4>2
      <3> QED BY <2>1, <3>2, <3>5, <3>6 DEF FirstPacketAlone
    <2> QED BY <2>4, <2>5, <2>6
  <1>14. ASSUME UNCHANGED <<conn, state, job, updatedKey, send, out>> PROVE FirstPacketAlone(d)'
    <2>1. Alone(d)' = Alone(d) /\ Handed(d)' = Handed(d)
      BY <1>1, <1>14 DEF Handed
    <2>2. Fresh(d) => Alone(d)'
      BY <1>0, <2>1 DEF FirstPacketAlone
    <2> QED BY <1>0, <1>14, <2>1, <2>2, FirstFrame
  <1>15. ASSUME NEW c \in Conns, NEW k, NEW n, ClientSends(c, k) \/ OnTraffic(c, n)
         PROVE  FirstPacketAlone(d)'
    BY <1>14, <1>15 DEF ClientSends, OnTraffic, outVars
  <1>16. CASE UNCHANGED vars
    BY <1>14, <1>16 DEF vars, outVars
  <1> QED
    BY <1>2, <1>3, <1>4, <1>5, <1>6, <1>8, <1>10, <1>11, <1>12, <1>13, <1>15, <1>16 DEF Next

LEMMA ReadingsStep ==
    ASSUME TypeOK, FirstPacketsInv, [Next]_vars, NEW b \in Senders
    PROVE  ReadingsAgree(b)'
  <1>0. OutTyped /\ ReadingsAgree(b) /\ conn \in [Conns -> {"new", "opened", "open", "closed"}]
    BY TypedParts DEF FirstPacketsInv, TypeOK
  <1>1. ASSUME UNCHANGED <<send, updatedKey>>, b \in Conns /\ send[b] # NoSend => conn'[b] = conn[b]
        PROVE  ReadingsAgree(b)'
    BY <1>0, <1>1 DEF ReadingsAgree
  <1>2. ASSUME NEW c \in Conns, OnOpen(c) \/ WriteInit(c) PROVE ReadingsAgree(b)'
    <2>1. send[c] = NoSend
      BY <1>2 DEF OnOpen, WriteInit, FirstPacketsInv, FirstPacketAlone
    <2>2. b \in Conns /\ send[b] # NoSend => conn'[b] = conn[b]
      BY <1>0, <1>2, <2>1 DEF OnOpen, WriteInit
    <2> QED BY <1>1, <1>2, <2>2 DEF OnOpen, WriteInit
  <1>3. ASSUME NEW c \in Conns, NEW n, OnTrafficAstray(c, n) \/ OnClose(c)
        PROVE  ReadingsAgree(b)'
    <2>1. b \in Conns /\ send[b] # NoSend => conn'[b] = conn[b]
      BY <1>0, <1>3 DEF OnTrafficAstray, OnClose, Idle
    <2> QED BY <1>1, <1>3, <2>1 DEF OnTrafficAstray, OnClose, outVars
  <1>4. ASSUME NEW a \in Senders, NEW c \in Conns, NEW k \in Replies, Send(a, c, k),
               a \in Conns => a = c /\ conn[a] = "open", UNCHANGED conn
        PROVE  ReadingsAgree(b)'
    <2>1. /\ send'[a] # NoSend
          /\ send'[a].conn = c /\ send'[a].step = "reserve" /\ send'[a].xored = FALSE
          /\ \A d \in Senders \ {a} : send'[d] = send[d]
          /\ UNCHANGED updatedKey
      BY <1>0, <1>4, SendStarts
    <2>2. CASE b = a
      BY <1>4, <2>1, <2>2 DEF ReadingsAgree
    <2>3. CASE b # a
      BY <1>0, <1>4, <2>1, <2>3 DEF ReadingsAgree
    <2> QED BY <2>2, <2>3
  <1>5. ASSUME NEW c \in Conns, AuthGG(c) \/ HandleLoginRefused(c) PROVE ReadingsAgree(b)'
    <2>1. (\E k \in Replies : Send(c, c, k)) /\ UNCHANGED conn /\ conn[c] = "open"
      BY <1>5 DEF AuthGG, HandleLoginRefused, NextPacket, Replies
    <2> QED BY <1>4, <2>1 DEF Senders
  <1>6. ASSUME NEW g \in Workers, ProcessLogin(g) PROVE ReadingsAgree(b)'
    <2>1. job[g] \in Conns /\ (\E k \in Replies : Send(g, job[g], k)) /\ UNCHANGED conn
      BY <1>6 DEF ProcessLogin, Replies, TypeOK
    <2>2. g \in Senders /\ g \notin Conns
      BY SendersAssumption DEF Senders
    <2> QED BY <1>4, <2>1, <2>2
  <1>7. ASSUME NEW a \in Senders, EncryptReserve(a) PROVE ReadingsAgree(b)'
    <2>1. /\ Encrypting(a) /\ send[a].step = "reserve" /\ send'[a].step = "xor"
          /\ send'[a].reserve = IF updatedKey[send[a].conn] THEN 12 ELSE 16
          /\ send'[a].xored = send[a].xored
          /\ UNCHANGED <<conn, updatedKey>>
      BY <1>0, <1>7, EncryptReserveFacts DEF EncryptReserve
    <2>2. CASE b = a
      BY <1>0, <2>1, <2>2 DEF ReadingsAgree, Encrypting
    <2>3. CASE b # a
      BY <1>0, <2>1, <2>3 DEF ReadingsAgree, Encrypting
    <2> QED BY <2>2, <2>3
  <1>8. ASSUME NEW a \in Senders, EncryptXor(a) PROVE ReadingsAgree(b)'
    <2>1. /\ Encrypting(a) /\ send[a].step = "xor"
          /\ send'[a].step = IF updatedKey[send[a].conn] THEN "write" ELSE "set"
          /\ send'[a].reserve = send[a].reserve
          /\ send'[a].xored = ~updatedKey[send[a].conn]
          /\ UNCHANGED <<conn, updatedKey>>
      BY <1>0, <1>8, EncryptXorFacts DEF EncryptXor
    <2>2. ~updatedKey[send[a].conn] => a \in Conns
      BY <2>1, WorkersComeLater DEF Encrypting, Fresh
    <2>3. CASE b = a
      <3>1. updatedKey[send[a].conn] \in BOOLEAN
        BY <2>1, WorkersComeLater DEF Encrypting
      <3>2. send[a].reserve = IF updatedKey[send[a].conn] THEN 12 ELSE 16
        BY <1>0, <2>1, <2>3 DEF ReadingsAgree, Encrypting
      <3>3. a \in Conns => send[a].conn = a /\ conn[a] = "open"
        BY <1>0, <2>1, <2>3 DEF ReadingsAgree, Encrypting
      <3>4. CASE updatedKey[send[a].conn]
        BY <2>1, <2>3, <3>2, <3>3, <3>4 DEF ReadingsAgree, Encrypting
      <3>5. CASE ~updatedKey[send[a].conn]
        BY <2>1, <2>2, <2>3, <3>2, <3>3, <3>5 DEF ReadingsAgree, Encrypting
      <3> QED BY <3>4, <3>5
    <2>4. CASE b # a
      BY <1>0, <2>1, <2>4 DEF ReadingsAgree, Encrypting
    <2> QED BY <2>3, <2>4
  <1>9. ASSUME NEW a \in Senders, EncryptSet(a) PROVE ReadingsAgree(b)'
    <2>1. /\ Encrypting(a) /\ send[a].step = "set" /\ send'[a].step = "write"
          /\ send'[a].reserve = send[a].reserve /\ send'[a].xored = send[a].xored
          /\ updatedKey' = [updatedKey EXCEPT ![send[a].conn] = TRUE] /\ UNCHANGED conn
      BY <1>0, <1>9, EncryptSetFacts DEF EncryptSet
    <2>2. /\ send[a].conn = a /\ a \in Conns /\ ~updatedKey[a] /\ send[a].xored
          /\ send[a].reserve = 16 /\ conn[a] = "open"
      BY <2>1, WorkersComeLater DEF Encrypting, ReadingsAgree
    <2>3. /\ updatedKey'[a] = TRUE
          /\ \A c \in Conns \ {a} : updatedKey'[c] = updatedKey[c]
      BY <1>0, <2>1, <2>2 DEF OutTyped
    <2>4. CASE b = a
      BY <2>1, <2>2, <2>3, <2>4 DEF ReadingsAgree, Encrypting
    <2>5. CASE b # a
      <3>1. send'[b] = send[b]
        BY <2>1, <2>5 DEF Encrypting
      <3>2. CASE send[b] = NoSend
        BY <3>1, <3>2 DEF ReadingsAgree
      <3>3. CASE send[b] # NoSend
        <4>1. send[b].conn \in Conns /\ send[b].conn # a
          BY <2>2, <2>5, <3>3, WorkersComeLater DEF Fresh
        <4>2. updatedKey'[send[b].conn] = updatedKey[send[b].conn]
          BY <2>3, <4>1
        <4> QED BY <1>0, <2>1, <3>1, <4>2 DEF ReadingsAgree
      <3> QED BY <3>2, <3>3
    <2> QED BY <2>4, <2>5
  <1>10. ASSUME NEW a \in Senders, AsyncWrite(a) PROVE ReadingsAgree(b)'
    <2>1. /\ send'[a] = NoSend /\ \A c \in Senders \ {a} : send'[c] = send[c]
          /\ UNCHANGED <<conn, updatedKey>>
      BY <1>0, <1>10, HandedFacts
    <2> QED BY <1>0, <2>1 DEF ReadingsAgree
  <1>11. ASSUME NEW c \in Conns, NEW k, NEW n, ClientSends(c, k) \/ OnTraffic(c, n) \/ HandleLogin(c)
         PROVE  ReadingsAgree(b)'
    BY <1>1, <1>11 DEF ClientSends, OnTraffic, HandleLogin, outVars
  <1>12. CASE UNCHANGED vars
    BY <1>1, <1>12 DEF vars, outVars
  <1> QED
    BY <1>2, <1>3, <1>5, <1>6, <1>7, <1>8, <1>9, <1>10, <1>11, <1>12 DEF Next

LEMMA XorStep ==
    ASSUME TypeOK, FirstPacketsInv, XorOnce, [Next]_vars
    PROVE  XorOnce'
  <1>0. OutTyped
    BY TypedParts
  <1> DEFINE Right(p, i) == /\ p.xored <=> i = 2
                            /\ p.reserve = IF i = 2 THEN 16 ELSE 12
  <1> SUFFICES ASSUME NEW d \in Conns, NEW i \in 2 .. Len(out'[d]) PROVE Right(out'[d][i], i)
    BY DEF XorOnce
  <1>1. CASE out'[d] = out[d]
    BY <1>1 DEF XorOnce
  <1>2. ASSUME NEW c \in Conns, WriteInit(c) PROVE Right(out'[d][i], i)
    <2>1. CASE d # c
      <3>1. out'[d] = out[d]
        BY <1>0, <1>2, <2>1 DEF WriteInit, OutTyped
      <3> QED BY <1>1, <3>1
    <2>2. CASE d = c
      <3> DEFINE p == [bytes |-> buf[initWriter[c]], kind |-> "Init",
                       reserve |-> 16, xored |-> TRUE]
      <3>1. out'[d] = <<p>>
        BY <1>0, <1>2, <2>2 DEF WriteInit, OutTyped
      <3> HIDE DEF p
      <3>2. Len(<<p>>) = 1
        OBVIOUS
      <3>3. i \in 2 .. 1
        BY <3>1, <3>2
      <3> QED BY <3>3
    <2> QED BY <2>1, <2>2
  <1>3. ASSUME NEW a \in Senders, AsyncWrite(a) PROVE Right(out'[d][i], i)
    <2> DEFINE s == send[a]
               n == Len(out[d])
    <2>1. /\ s # NoSend /\ s.step = "write"
          /\ d # s.conn \/ conn[s.conn] # "open" => out'[d] = out[d]
          /\ d = s.conn /\ conn[s.conn] = "open" =>
                /\ Len(out'[d]) = n + 1
                /\ \A j \in 1 .. n : out'[d][j] = out[d][j]
                /\ out'[d][n + 1] = Sent(a)
      BY <1>0, <1>3, AsyncWriteFacts
    <2>2. CASE d # s.conn \/ conn[s.conn] # "open"
      BY <1>1, <2>1, <2>2
    <2>3. CASE d = s.conn /\ conn[s.conn] = "open"
      <3>1. out[d] \in Seq(Packets)
        BY <1>0 DEF OutTyped
      <3>2. n \in Nat
        BY <3>1, LenProperties
      <3>3. /\ updatedKey[d] /\ s.xored \in BOOLEAN /\ FirstPacketAlone(d)
            /\ s.reserve = IF s.xored THEN 16 ELSE 12
            /\ s.xored => a = d
            /\ ~s.xored => ~Fresh(d)
        BY <2>1, <2>3, WorkersComeLater DEF ReadingsAgree, Fresh
      <3>4. (s.xored => n = 1) /\ (~s.xored => n >= 2)
        <4>1. CASE s.xored
          <5>1. Fresh(d)
            BY <2>1, <3>3, <4>1 DEF Fresh
          <5>2. Handed(d) <= 1 /\ Handed(d) >= 1
            BY <2>3, <3>3, <5>1 DEF FirstPacketAlone
          <5>3. Handed(d) = n
            BY DEF Handed
          <5>4. ASSUME NEW x \in Nat, x <= 1, x >= 1 PROVE x = 1
            BY <5>4
          <5> QED BY <3>2, <4>1, <5>2, <5>3, <5>4
        <4>2. CASE ~s.xored
          BY <2>3, <3>3, <4>2 DEF FirstPacketAlone, Handed
        <4> QED BY <4>1, <4>2
      <3>5. ASSUME NEW l \in Nat, NEW j \in 2 .. l + 1
            PROVE  (j \in 2 .. l /\ j \in 1 .. l) \/ j = l + 1
        OBVIOUS
      <3>6. CASE i \in 2 .. n /\ i \in 1 .. n
        <4>1. out'[d][i] = out[d][i]
          BY <2>1, <2>3, <3>6
        <4> QED BY <3>6, <4>1 DEF XorOnce
      <3>7. CASE i = n + 1
        <4>1. out'[d][i] = Sent(a) /\ Sent(a).xored = s.xored /\ Sent(a).reserve = s.reserve
          BY <2>1, <2>3, <3>7 DEF Sent
        <4>2. s.xored <=> i = 2
          <5>0. ASSUME NEW l \in Nat PROVE (l = 1 => l + 1 = 2) /\ (l >= 2 => l + 1 # 2)
            OBVIOUS
          <5> HIDE DEF n, s
          <5>1. (n = 1 => i = 2) /\ (n >= 2 => i # 2)
            BY <3>2, <3>7, <5>0
          <5>2. CASE s.xored
            BY <3>4, <5>1, <5>2
          <5>3. CASE ~s.xored
            BY <3>4, <5>1, <5>3
          <5> QED BY <5>2, <5>3
        <4> QED BY <3>3, <4>1, <4>2
      <3>8. i \in 2 .. n + 1
        BY <2>1, <2>3
      <3> QED BY <3>2, <3>5, <3>6, <3>7, <3>8
    <2> QED BY <2>2, <2>3
  <1>4. CASE UNCHANGED out
    BY <1>1, <1>4
  <1> QED
    BY <1>2, <1>3, <1>4, OutSteps
    DEF OutStep, OnOpen, Send, EncryptReserve, EncryptXor, EncryptSet, outVars

\* Exactly the first packet with the connection's key is XORed and has the room
\* for it, for any number of login goroutines that encrypt at the same time:
\* none of them can start before that packet is out.
THEOREM FirstPacketIsXored == Spec => []XorOnce
  <1>1. Init => FirstPacketsInv /\ XorOnce
    <2> SUFFICES ASSUME Init PROVE FirstPacketsInv /\ XorOnce
      OBVIOUS
    <2>1. ASSUME NEW c \in Conns PROVE FirstPacketAlone(c)
      <3>1. out[c] = <<>> /\ Handed(c) = 0
        BY DEF Init, Handed
      <3>2. Alone(c)
        BY NoConnAssumption DEF Init, Alone, Senders
      <3> QED BY <3>1, <3>2 DEF Init, FirstPacketAlone, Fresh, Senders
    <2>2. \A a \in Senders : ReadingsAgree(a)
      BY DEF Init, ReadingsAgree
    <2>3. XorOnce
      BY DEF Init, XorOnce
    <2> QED BY <2>1, <2>2, <2>3 DEF FirstPacketsInv
  <1>2. TypeOK /\ FirstPacketsInv /\ XorOnce /\ [Next]_vars => FirstPacketsInv' /\ XorOnce'
    BY FirstStep, ReadingsStep, XorStep DEF FirstPacketsInv
  <1> QED BY <1>1, <1>2, WireTypeCorrect, PTL DEF Spec

----
(***************************************************************************)
(* Induction.                                                              *)
(***************************************************************************)
LessThan == {ss \in Nat \X Nat : ss[1] < ss[2]}

\* A set of natural numbers that is not empty has a least element.
LEMMA LeastElement ==
    ASSUME NEW T \in SUBSET Nat, T # {}
    PROVE  \E x \in T : \A y \in T : x <= y
  <1>1. IsWellFoundedOn(LessThan, Nat)
    BY NatLessThanWellFounded DEF OpToRel, LessThan
  <1>2. PICK x \in T : \A y \in T : ~(<<y, x>> \in LessThan)
    BY <1>1, WFMin
  <1>3. ASSUME NEW y \in T PROVE x <= y
    <2>1. x \in Nat /\ y \in Nat /\ ~(y < x)
      BY <1>2 DEF LessThan
    <2> QED BY <2>1
  <1> QED BY <1>3

\* Induction over the natural numbers, for a property given as a set.
LEMMA SetInduction ==
    ASSUME NEW P \in SUBSET Nat, 0 \in P, \A n \in P : n + 1 \in P
    PROVE  P = Nat
  <1> SUFFICES ASSUME Nat \ P # {} PROVE FALSE
    OBVIOUS
  <1>1. PICK x \in Nat \ P : \A y \in Nat \ P : x <= y
    BY LeastElement
  <1>2. x - 1 \in Nat /\ x - 1 \in P
    BY <1>1
  <1>3. x \in P
    BY <1>2
  <1> QED BY <1>3

\* The values of f are a and what the step function g makes of the last one.
Iterates(f, a, g, n) == f[0] = a /\ \A i \in 1 .. n : f[i] = g[<<i, f[i - 1]>>]

\* A function defined by recursion from a step function exists.
LEMMA RecursionExists ==
    ASSUME NEW S, NEW a \in S, NEW g \in [Nat \X S -> S], NEW n \in Nat
    PROVE  \E f \in [0 .. n -> S] : Iterates(f, a, g, n)
  <1> DEFINE Sol(f, m) == f \in [0 .. m -> S] /\ Iterates(f, a, g, m)
             P == {m \in Nat : \E f : Sol(f, m)}
  <1>1. 0 \in P
    <2>1. Sol([i \in 0 .. 0 |-> a], 0)
      BY DEF Iterates
    <2> QED BY <2>1
  <1>2. ASSUME NEW m \in P PROVE m + 1 \in P
    <2>1. PICK f : Sol(f, m)
      OBVIOUS
    <2> DEFINE h == [i \in 0 .. m + 1 |-> IF i = m + 1 THEN g[<<m + 1, f[m]>>] ELSE f[i]]
    <2>2. m \in Nat /\ f[m] \in S
      BY <2>1
    <2>3. g[<<m + 1, f[m]>>] \in S
      BY <2>2
    <2>4. h \in [0 .. m + 1 -> S]
      BY <2>1, <2>2, <2>3
    <2>5. ASSUME NEW i \in 1 .. m + 1 PROVE h[i] = g[<<i, h[i - 1]>>]
      <3>1. CASE i = m + 1
        <4>1. h[i] = g[<<i, f[m]>>] /\ i - 1 = m /\ h[i - 1] = f[m]
          BY <3>1, <2>2
        <4> QED BY <4>1
      <3>2. CASE i # m + 1
        <4>1. i \in 1 .. m /\ h[i] = f[i] /\ h[i - 1] = f[i - 1]
          BY <3>2, <2>2
        <4> QED BY <2>1, <4>1 DEF Iterates
      <3> QED BY <3>1, <3>2
    <2>6. h[0] = a
      BY <2>1, <2>2 DEF Iterates
    <2>7. Sol(h, m + 1)
      <3> HIDE DEF h
      <3> QED BY <2>4, <2>5, <2>6 DEF Iterates
    <2> HIDE DEF Sol, h
    <2> QED BY <2>2, <2>7
  <1>3. n \in P
    <2> HIDE DEF Sol
    <2>1. P = Nat
      <3> HIDE DEF P
      <3>1. P \in SUBSET Nat
        BY DEF P
      <3> QED BY <1>1, <1>2, <3>1, SetInduction
    <2> QED BY <2>1
  <1> QED BY <1>3
----
(***************************************************************************)
(* Words.                                                                  *)
(***************************************************************************)
\* There are words.
LEMMA WordIsPositive == Word \in Nat \ {0}
  <1>1. \A a, b \in Nat \ {0} : a * b \in Nat \ {0}
    OBVIOUS
  <1> QED BY <1>1, DigitAssumption DEF Word

\* Addition modulo w, of numbers below it, is undone by subtraction.
LEMMA AddSub ==
    ASSUME NEW w \in Nat \ {0}, NEW a \in 0 .. w - 1, NEW b \in 0 .. w - 1
    PROVE  (a + b) % w \in 0 .. w - 1 /\ (((a + b) % w) - b) % w = a
  <1>1. a % w = a
    OBVIOUS
  <1>2. CASE a + b < w
    BY <1>2, <1>1
  <1>3. CASE a + b >= w
    <2>1. (a + b) % w = a + b - w
      BY <1>3
    <2>2. (a - w) % w = a
      OBVIOUS
    <2> QED BY <2>1, <2>2
  <1> QED BY <1>2, <1>3

----
(***************************************************************************)
(* Blowfish.                                                               *)
(***************************************************************************)
HalfPairs == Words \X Words
Subkeys == [1 .. 16 -> 0 .. 17]

\* One round.
Round(c, h, k) == <<WordXor(h[2], WordXor(F(c, h[1]), c.p[k])), h[1]>>

\* The digits of a word index the S-boxes.
LEMMA DigitsInBoxes ==
    ASSUME NEW x \in Words, NEW i \in Boxes
    PROVE  BigEndianDigits(x)[i] \in 0 .. Digit - 1
  <1> DEFINE y == x \div Digit  z == y \div Digit  w == z \div Digit
  <1>1. x \in Int /\ y \in Int /\ z \in Int /\ w \in Int
    BY DigitAssumption DEF Words
  <1> HIDE DEF y, z, w
  <1>2. <<w, z, y, x>>[i + 1] \in Int
    BY <1>1 DEF Boxes
  <1>3. <<w, z, y, x>>[i + 1] % Digit \in 0 .. Digit - 1
    <2> DEFINE d == <<w, z, y, x>>[i + 1]
    <2> HIDE DEF d
    <2>1. d \in Int
      BY <1>2 DEF d
    <2>2. d % Digit \in 0 .. Digit - 1
      BY <2>1, DigitAssumption
    <2> QED BY <2>2 DEF d
  <1>4. BigEndianDigits(x)[i] = <<w, z, y, x>>[i + 1] % Digit
    BY DEF BigEndianDigits, y, z, w
  <1> QED BY <1>3, <1>4

\* The round function yields a word.
LEMMA FTyped == ASSUME NEW c \in Ciphers, NEW x \in Words PROVE F(c, x) \in Words
  <1> DEFINE s == [i \in Boxes |-> c.s[i][BigEndianDigits(x)[i]]]
  <1>1. \A i \in Boxes : s[i] \in Words
    BY DigitsInBoxes DEF Ciphers
  <1>2. s[0] \in Words /\ s[1] \in Words /\ s[2] \in Words /\ s[3] \in Words
    BY <1>1 DEF Boxes
  <1>3. F(c, x) = (WordXor((s[0] + s[1]) % Word, s[2]) + s[3]) % Word
    BY DEF F
  <1> HIDE DEF s
  <1>4. \A a, b \in Words : (a + b) % Word \in Words
    BY WordIsPositive DEF Words
  <1>5. WordXor((s[0] + s[1]) % Word, s[2]) \in Words
    BY <1>2, <1>4, XorAssumption
  <1> QED BY <1>2, <1>3, <1>4, <1>5

\* A round turns two words into two words.
LEMMA RoundTyped ==
    ASSUME NEW c \in Ciphers, NEW h \in HalfPairs, NEW k \in 0 .. 17
    PROVE  Round(c, h, k) \in HalfPairs
  <1>1. h[1] \in Words /\ h[2] \in Words /\ c.p[k] \in Words
    BY DEF HalfPairs, Ciphers
  <1>2. WordXor(F(c, h[1]), c.p[k]) \in Words
    BY <1>1, FTyped, XorAssumption
  <1> QED BY <1>1, <1>2, XorAssumption DEF Round, HalfPairs

\* The rounds as a function: what the definition of Rounds says.
LEMMA RoundsByRound ==
    ASSUME NEW c \in Ciphers, NEW lr \in HalfPairs, NEW order \in Subkeys
    PROVE  /\ Rounds(c, lr, order) \in [0 .. 16 -> HalfPairs]
           /\ Rounds(c, lr, order)[0] = lr
           /\ \A i \in 1 .. 16 :
                 Rounds(c, lr, order)[i] = Round(c, Rounds(c, lr, order)[i - 1], order[i])
  <1> DEFINE g == [ih \in Nat \X HalfPairs |->
                     IF ih[1] \in 1 .. 16 THEN Round(c, ih[2], order[ih[1]]) ELSE ih[2]]
             Step(f, i) == LET h == f[i - 1]
                           IN  <<WordXor(h[2], WordXor(F(c, h[1]), c.p[order[i]])), h[1]>>
  <1>1. g \in [Nat \X HalfPairs -> HalfPairs]
    BY RoundTyped DEF Subkeys
  <1>2. PICK f \in [0 .. 16 -> HalfPairs] : Iterates(f, lr, g, 16)
    <2> HIDE DEF g
    <2> QED BY <1>1, RecursionExists
  <1>3. \A i \in 1 .. 16 : g[<<i, f[i - 1]>>] = Step(f, i)
    BY DEF Round
  <1>4. f = [i \in 0 .. 16 |-> IF i = 0 THEN lr ELSE Step(f, i)]
    <2> HIDE DEF g, Step
    <2> QED BY <1>2, <1>3 DEF Iterates
  <1>5. Rounds(c, lr, order) = CHOOSE h : h = [i \in 0 .. 16 |-> IF i = 0 THEN lr ELSE Step(h, i)]
    BY DEF Rounds
  <1> DEFINE R == Rounds(c, lr, order)
  <1>6. R = [i \in 0 .. 16 |-> IF i = 0 THEN lr ELSE Step(R, i)]
    <2> HIDE DEF Step
    <2> QED BY <1>4, <1>5
  <1>7. R[0] = lr /\ \A i \in 1 .. 16 : R[i] = Round(c, R[i - 1], order[i])
    <2>1. \A i \in 1 .. 16 : Step(R, i) = Round(c, R[i - 1], order[i])
      BY DEF Round
    <2> HIDE DEF Step, R
    <2> QED BY <1>6, <2>1
  <1>8. R \in [0 .. 16 -> HalfPairs]
    <2> DEFINE P == {n \in Nat : n <= 16 => R[n] \in HalfPairs}
    <2> HIDE DEF R
    <2>1. 0 \in P
      BY <1>7
    <2>2. ASSUME NEW n \in P PROVE n + 1 \in P
      <3> SUFFICES ASSUME n + 1 <= 16 PROVE R[n + 1] \in HalfPairs
        OBVIOUS
      <3>1. n + 1 \in 1 .. 16 /\ R[n] \in HalfPairs /\ (n + 1) - 1 = n
        OBVIOUS
      <3>2. order[n + 1] \in 0 .. 17
        BY <3>1 DEF Subkeys
      <3> QED BY <1>7, <3>1, <3>2, RoundTyped
    <2>3. P = Nat
      <3>1. P \in SUBSET Nat
        OBVIOUS
      <3> HIDE DEF P
      <3> QED BY <2>1, <2>2, <3>1, SetInduction
    <2>4. \A n \in 0 .. 16 : R[n] \in HalfPairs
      BY <2>3
    <2> HIDE DEF Step
    <2>5. \E f1 : R = [i \in 0 .. 16 |-> f1[i]]
      <3> DEFINE f1 == [i \in 0 .. 16 |-> IF i = 0 THEN lr ELSE Step(R, i)]
      <3>1. R = [i \in 0 .. 16 |-> f1[i]]
        BY <1>6 DEF R
      <3> QED BY <3>1
    <2> QED BY <2>4, <2>5
  <1> QED BY <1>7, <1>8

\* Round i of the decryption takes back round 17 - i of the encryption.
Swap(h) == <<h[2], h[1]>>

\* A round is undone by itself, with the halves swapped.
LEMMA RoundUndone ==
    ASSUME NEW c \in Ciphers, NEW h \in HalfPairs, NEW k \in 0 .. 17
    PROVE  Round(c, Swap(Round(c, h, k)), k) = Swap(h)
  <1>1. h[1] \in Words /\ h[2] \in Words /\ c.p[k] \in Words
    BY DEF HalfPairs, Ciphers
  <1>2. WordXor(F(c, h[1]), c.p[k]) \in Words
    BY <1>1, FTyped, XorAssumption
  <1> QED BY <1>1, <1>2, XorAssumption DEF Round, Swap

\* The decryption of a block undoes its encryption.
LEMMA BlockUndone ==
    ASSUME NEW c \in Ciphers, NEW xl \in Words, NEW xr \in Words
    PROVE  LET y == EncryptBlock(c, xl, xr)
           IN  y \in HalfPairs /\ DecryptBlock(c, y[1], y[2]) = <<xl, xr>>
  <1> DEFINE start == <<WordXor(xl, c.p[0]), xr>>
             E == Rounds(c, start, Ascending)
             y == EncryptBlock(c, xl, xr)
             D == Rounds(c, <<WordXor(y[1], c.p[17]), y[2]>>, Descending)
  <1>1. Ascending \in Subkeys /\ Descending \in Subkeys
    BY DEF Ascending, Descending, Subkeys
  <1>2. c.p[0] \in Words /\ c.p[17] \in Words
    BY DEF Ciphers
  <1>3. start \in HalfPairs
    BY <1>2, XorAssumption DEF HalfPairs
  <1>4. /\ E \in [0 .. 16 -> HalfPairs]
        /\ E[0] = start
        /\ \A i \in 1 .. 16 : E[i] = Round(c, E[i - 1], i)
    <2> HIDE DEF start
    <2> QED BY <1>1, <1>3, RoundsByRound DEF Ascending
  <1>5. E[16][1] \in Words /\ E[16][2] \in Words
    <2> HIDE DEF E
    <2>1. E[16] \in HalfPairs
      BY <1>4
    <2> QED BY <2>1 DEF HalfPairs
  <1>6. y = <<WordXor(E[16][2], c.p[17]), E[16][1]>>
    BY DEF EncryptBlock
  <1>7. y \in HalfPairs
    <2> HIDE DEF E, y
    <2> QED BY <1>2, <1>5, <1>6, XorAssumption DEF HalfPairs
  <1>8. <<WordXor(y[1], c.p[17]), y[2]>> = Swap(E[16])
    <2> HIDE DEF E, y
    <2> QED BY <1>2, <1>5, <1>6, XorAssumption DEF Swap
  <1>9. Swap(E[16]) \in HalfPairs
    BY <1>5 DEF Swap, HalfPairs
  <1>10. /\ D[0] = Swap(E[16])
         /\ \A i \in 1 .. 16 : D[i] = Round(c, D[i - 1], 17 - i)
    <2>1. D = Rounds(c, Swap(E[16]), Descending)
      BY <1>8
    <2>2. \A i \in 1 .. 16 : Descending[i] = 17 - i
      BY DEF Descending
    <2> HIDE DEF E, y, D
    <2>3. \A i \in 1 .. 16 : D[i] = Round(c, D[i - 1], Descending[i])
      BY <1>1, <1>9, <2>1, RoundsByRound, ZenonT(20)
    <2> QED BY <1>1, <1>9, <2>1, <2>2, <2>3, RoundsByRound
  <1>11. D[16] = Swap(E[0])
    <2> HIDE DEF E, D, y
    <2> DEFINE P == {n \in Nat : n <= 16 => D[n] = Swap(E[16 - n])}
    <2>1. 0 \in P
      BY <1>10
    <2>2. ASSUME NEW n \in P PROVE n + 1 \in P
      <3> SUFFICES ASSUME n + 1 <= 16 PROVE D[n + 1] = Swap(E[16 - (n + 1)])
        OBVIOUS
      <3> DEFINE m == 15 - n
      <3>1. /\ m \in 0 .. 15 /\ 16 - (n + 1) = m /\ 16 - n = m + 1 /\ 17 - (n + 1) = m + 1
            /\ n + 1 \in 1 .. 16 /\ (n + 1) - 1 = n /\ (m + 1) - 1 = m /\ m + 1 \in 1 .. 16
        OBVIOUS
      <3> HIDE DEF m
      <3>2. D[n] = Swap(E[m + 1])
        BY <3>1
      <3>3. D[n + 1] = Round(c, D[n], m + 1)
        BY <3>1, <1>10
      <3>4. E[m + 1] = Round(c, E[m], m + 1) /\ E[m] \in HalfPairs
        BY <3>1, <1>4
      <3>5. D[n + 1] = Swap(E[m])
        BY <3>1, <3>2, <3>3, <3>4, RoundUndone
      <3> QED BY <3>1, <3>5
    <2>3. P = Nat
      <3>1. P \in SUBSET Nat
        OBVIOUS
      <3> HIDE DEF P
      <3> QED BY <2>1, <2>2, <3>1, SetInduction
    <2> QED BY <2>3
  <1>12. DecryptBlock(c, y[1], y[2]) = <<WordXor(D[16][2], c.p[0]), D[16][1]>>
    BY DEF DecryptBlock
  <1>13. DecryptBlock(c, y[1], y[2]) = <<xl, xr>>
    <2> HIDE DEF E, D, y
    <2> QED BY <1>2, <1>4, <1>11, <1>12, XorAssumption DEF Swap
  <1> QED BY <1>7, <1>13

\* DecipherRange undoes CipherRange on whole blocks.
LEMMA RangeUndone ==
    ASSUME NEW c \in Ciphers, NEW data \in Seq(Words), Len(data) % 2 = 0
    PROVE  DecipherRange(c, CipherRange(c, data)) = data
  <1> DEFINE n == Len(data)
             enc == CipherRange(c, data)
             y(i) == EncryptBlock(c, data[BlockAt(i)], data[BlockAt(i) + 1])
  <1>1. n \in Nat /\ n % 2 = 0 /\ data = [i \in 1 .. n |-> data[i]]
    OBVIOUS
  <1> HIDE DEF n
  <1>2. ASSUME NEW i \in 1 .. n
        PROVE  /\ BlockAt(i) \in 1 .. n /\ BlockAt(i) + 1 \in 1 .. n
               /\ BlockAt(BlockAt(i)) = BlockAt(i) /\ Place(BlockAt(i)) = 1
               /\ BlockAt(BlockAt(i) + 1) = BlockAt(i) /\ Place(BlockAt(i) + 1) = 2
               /\ i = IF Place(i) = 1 THEN BlockAt(i) ELSE BlockAt(i) + 1
               /\ Place(i) \in {1, 2}
    <2>1. CASE i % 2 = 1
      BY <1>1, <2>1 DEF BlockAt, Place
    <2>2. CASE i % 2 # 1
      <3>1. i % 2 = 0 /\ i - 1 \in 1 .. n /\ (i - 1) % 2 = 1 /\ (i - 1) + 1 = i
        BY <1>1, <2>2
      <3> QED BY <2>2, <3>1 DEF BlockAt, Place
    <2> QED BY <2>1, <2>2
  <1>3. ASSUME NEW i \in 1 .. n PROVE enc[i] = y(i)[Place(i)]
    BY DEF CipherRange, n
  <1>4. Len(enc) = n
    BY <1>1 DEF CipherRange, n
  <1> HIDE DEF enc
  <1>5. ASSUME NEW i \in 1 .. n
        PROVE  DecryptBlock(c, enc[BlockAt(i)], enc[BlockAt(i) + 1])[Place(i)] = data[i]
    <2> DEFINE b == BlockAt(i)
    <2>1. enc[b] = y(b)[1] /\ enc[b + 1] = y(b + 1)[2]
      <3> HIDE DEF y
      <3> QED BY <1>2, <1>3
    <2>2. y(b) = y(i) /\ y(b + 1) = y(i)
      BY <1>2
    <2>3. data[b] \in Words /\ data[b + 1] \in Words
      BY <1>1, <1>2 DEF n
    <2>4. DecryptBlock(c, y(i)[1], y(i)[2]) = <<data[b], data[b + 1]>>
      BY <2>3, BlockUndone
    <2> HIDE DEF y
    <2>5. <<data[b], data[b + 1]>>[Place(i)] = data[i]
      BY <1>2
    <2> QED BY <2>1, <2>2, <2>4, <2>5
  <1>6. DecipherRange(c, enc) = [i \in 1 .. n |-> data[i]]
    BY <1>4, <1>5 DEF DecipherRange
  <1> QED BY <1>1, <1>6 DEF enc

----
(***************************************************************************)
(* The first packet.                                                       *)
(***************************************************************************)

\* The key after each word is a word, and the sum of the one before and the word.
LEMMA RunningKeyIs ==
    ASSUME NEW raw \in Seq(Words), Len(raw) >= 1, NEW key \in Words
    PROVE  LET ecx == RunningKey(raw, key) IN
           /\ ecx \in [1 .. Len(raw) -> Words]
           /\ \A i \in 2 .. Len(raw) : ecx[i] = (ecx[i - 1] + raw[i]) % Word
  <1> DEFINE n == Len(raw)
             g == [ik \in Nat \X Words |->
                     IF ik[1] \in 1 .. n - 1 THEN (ik[2] + raw[ik[1] + 1]) % Word ELSE ik[2]]
             ecx == RunningKey(raw, key)
  <1>1. n \in Nat /\ n >= 1 /\ \A i \in 1 .. n : raw[i] \in Words
    OBVIOUS
  <1>2. \A a, b \in Words : (a + b) % Word \in Words
    BY WordIsPositive DEF Words
  <1> HIDE DEF n
  <1>3. g \in [Nat \X Words -> Words]
    <2>1. ASSUME NEW ik \in Nat \X Words
          PROVE  (IF ik[1] \in 1 .. n - 1 THEN (ik[2] + raw[ik[1] + 1]) % Word ELSE ik[2]) \in Words
      <3>1. ik[1] \in 1 .. n - 1 => ik[1] + 1 \in 1 .. n
        BY <1>1
      <3> QED BY <1>1, <1>2, <3>1
    <2> QED BY <2>1
  <1>4. PICK f \in [0 .. n - 1 -> Words] : Iterates(f, key, g, n - 1)
    <2>1. n - 1 \in Nat
      BY <1>1
    <2> HIDE DEF g
    <2> QED BY <1>3, <2>1, RecursionExists
  <1> DEFINE h == [i \in 1 .. n |-> f[i - 1]]
  <1>5. \A i \in 2 .. n : h[i] = (h[i - 1] + raw[i]) % Word
    <2> SUFFICES ASSUME NEW i \in 2 .. n PROVE h[i] = (h[i - 1] + raw[i]) % Word
      OBVIOUS
    <2>1. i - 1 \in 1 .. n - 1 /\ i - 2 \in 0 .. n - 1 /\ (i - 1) - 1 = i - 2 /\ (i - 1) + 1 = i
      BY <1>1
    <2>2. f[i - 1] = g[<<i - 1, f[i - 2]>>]
      <3> HIDE DEF g
      <3>1. \A j \in 1 .. n - 1 : f[j] = g[<<j, f[j - 1]>>]
        BY <1>4 DEF Iterates
      <3> QED BY <2>1, <3>1
    <2>3. g[<<i - 1, f[i - 2]>>] = (f[i - 2] + raw[i]) % Word
      BY <2>1
    <2>4. h[i] = f[i - 1] /\ h[i - 1] = f[i - 2]
      BY <2>1, <1>1
    <2> QED BY <2>2, <2>3, <2>4
  <1>6. h[1] = key /\ h \in [1 .. n -> Words]
    BY <1>1, <1>4 DEF Iterates
  <1>7. h = [i \in 1 .. n |-> IF i = 1 THEN key ELSE (h[i - 1] + raw[i]) % Word]
    <2> HIDE DEF h
    <2> QED BY <1>1, <1>5, <1>6
  <1>8. ecx = CHOOSE e : e = [i \in 1 .. n |-> IF i = 1 THEN key ELSE (e[i - 1] + raw[i]) % Word]
    BY DEF RunningKey, n
  <1>9. ecx = [i \in 1 .. n |-> IF i = 1 THEN key ELSE (ecx[i - 1] + raw[i]) % Word]
    <2> HIDE DEF h
    <2> QED BY <1>7, <1>8
  <1>10. ecx \in [1 .. n -> Words]
    <2> HIDE DEF ecx
    <2> DEFINE P == {k \in Nat : k + 1 <= n => ecx[k + 1] \in Words}
    <2>1. 0 \in P
      BY <1>1, <1>9
    <2>2. ASSUME NEW k \in P PROVE k + 1 \in P
      <3> SUFFICES ASSUME (k + 1) + 1 <= n PROVE ecx[(k + 1) + 1] \in Words
        OBVIOUS
      <3>1. k + 1 \in 1 .. n /\ ecx[k + 1] \in Words /\ k + 2 \in 1 .. n /\ (k + 2) - 1 = k + 1
        BY <1>1
      <3>2. ecx[k + 2] = (ecx[k + 1] + raw[k + 2]) % Word
        BY <1>9, <3>1
      <3> QED BY <1>1, <1>2, <3>1, <3>2
    <2>3. P = Nat
      <3>1. P \in SUBSET Nat
        OBVIOUS
      <3> HIDE DEF P
      <3> QED BY <2>1, <2>2, <3>1, SetInduction
    <2>4. \A i \in 1 .. n : ecx[i] \in Words
      <3> SUFFICES ASSUME NEW i \in 1 .. n PROVE ecx[i] \in Words
        OBVIOUS
      <3>1. i - 1 \in P /\ (i - 1) + 1 = i
        BY <2>3, <1>1
      <3> QED BY <3>1
    <2> QED BY <1>9, <2>4
  <1> HIDE DEF ecx
  <1>11. \A i \in 2 .. n : ecx[i] = (ecx[i - 1] + raw[i]) % Word
    BY <1>1, <1>9
  <1> QED BY <1>10, <1>11 DEF n, ecx

\* The client finds the same keys, from the last back to the first.
LEMMA KeyBackIs ==
    ASSUME NEW raw \in Seq(Words), Len(raw) >= 3, NEW key \in Words
    PROVE  \A i \in 1 .. Len(raw) - 2 :
              KeyBack(EncXorPass(raw, key))[i] = RunningKey(raw, key)[i]
  <1> DEFINE n == Len(raw)
             ecx == RunningKey(raw, key)
             enc == EncXorPass(raw, key)
             back == KeyBack(enc)
  <1>1. n \in Nat /\ n >= 3 /\ \A i \in 1 .. n : raw[i] \in Words
    OBVIOUS
  <1>2. ecx \in [1 .. n -> Words] /\ \A i \in 2 .. n : ecx[i] = (ecx[i - 1] + raw[i]) % Word
    BY RunningKeyIs
  <1>3. /\ enc = [i \in 1 .. n |-> IF i \in 2 .. n - 2 THEN WordXor(raw[i], ecx[i])
                                   ELSE IF i = n - 1 THEN ecx[n - 2] ELSE raw[i]]
        /\ Len(enc) = n
    BY <1>1 DEF EncXorPass
  <1> DEFINE Step(e, i) == (e[i + 1] - WordXor(enc[i + 1], e[i + 1])) % Word
  <1>4. back = CHOOSE e : e = [i \in 1 .. n - 2 |-> IF i = n - 2 THEN enc[n - 1] ELSE Step(e, i)]
    <2> HIDE DEF enc
    <2>1. back = CHOOSE e : e = [i \in 1 .. Len(enc) - 2 |->
                                   IF i = Len(enc) - 2 THEN enc[Len(enc) - 1] ELSE Step(e, i)]
      BY DEF KeyBack
    <2> HIDE DEF n, back, Step
    <2> QED BY <1>3, <2>1
  <1> HIDE DEF n, ecx, enc, back
  \* The running key takes the same steps.
  <1>5. ASSUME NEW i \in 1 .. n - 3
        PROVE  (ecx[i + 1] - WordXor(enc[i + 1], ecx[i + 1])) % Word = ecx[i]
    <2>1. i + 1 \in 2 .. n - 2 /\ i + 1 \in 1 .. n /\ i \in 1 .. n /\ (i + 1) - 1 = i
      BY <1>1
    <2>2. enc[i + 1] = WordXor(raw[i + 1], ecx[i + 1])
      BY <1>3, <2>1
    <2>3. raw[i + 1] \in Words /\ ecx[i + 1] \in Words /\ ecx[i] \in Words
      BY <1>1, <1>2, <2>1
    <2>4. WordXor(enc[i + 1], ecx[i + 1]) = raw[i + 1]
      BY <2>2, <2>3, XorAssumption
    <2>5. ecx[i + 1] = (ecx[i] + raw[i + 1]) % Word
      BY <1>2, <2>1
    <2>6. (((ecx[i] + raw[i + 1]) % Word) - raw[i + 1]) % Word = ecx[i]
      BY <2>3, WordIsPositive, AddSub DEF Words
    <2> QED BY <2>4, <2>5, <2>6
  <1>6. enc[n - 1] = ecx[n - 2]
    BY <1>1, <1>3
  <1> DEFINE w == [i \in 1 .. n - 2 |-> ecx[i]]
  <1>7. w = [i \in 1 .. n - 2 |-> IF i = n - 2 THEN enc[n - 1] ELSE Step(w, i)]
    <2>1. ASSUME NEW i \in 1 .. n - 2, i # n - 2 PROVE ecx[i] = Step(w, i)
      <3>1. i \in 1 .. n - 3 /\ i + 1 \in 1 .. n - 2
        BY <1>1, <2>1
      <3> QED BY <1>5, <3>1
    <2> HIDE DEF Step
    <2> QED BY <1>6, <2>1
  <1>8. back = [i \in 1 .. n - 2 |-> IF i = n - 2 THEN enc[n - 1] ELSE Step(back, i)]
    <2> HIDE DEF w
    <2> QED BY <1>4, <1>7
  <1> DEFINE P == {k \in Nat : k <= n - 3 => back[n - 2 - k] = ecx[n - 2 - k]}
  <1>9. 0 \in P
    BY <1>1, <1>6, <1>8
  <1>10. ASSUME NEW k \in P PROVE k + 1 \in P
    <2> SUFFICES ASSUME k + 1 <= n - 3 PROVE back[n - 2 - (k + 1)] = ecx[n - 2 - (k + 1)]
      OBVIOUS
    <2> DEFINE i == n - 2 - (k + 1)
    <2>1. i \in 1 .. n - 3 /\ i + 1 = n - 2 - k /\ i # n - 2 /\ i \in 1 .. n - 2
      BY <1>1
    <2>2. back[i + 1] = ecx[i + 1]
      BY <1>1, <2>1
    <2> HIDE DEF i
    <2>3. back[i] = Step(back, i)
      BY <1>8, <2>1
    <2>4. back[i] = ecx[i]
      BY <1>5, <2>1, <2>2, <2>3
    <2> QED BY <2>4 DEF i
  <1>11. P = Nat
    <2>1. P \in SUBSET Nat
      OBVIOUS
    <2> HIDE DEF P
    <2> QED BY <1>9, <1>10, <2>1, SetInduction
  <1>12. ASSUME NEW i \in 1 .. n - 2 PROVE back[i] = ecx[i]
    <2>1. n - 2 - i \in Nat /\ n - 2 - i <= n - 3 /\ n - 2 - (n - 2 - i) = i
      BY <1>1
    <2>2. n - 2 - i \in P
      BY <1>11, <2>1
    <2> QED BY <2>1, <2>2
  <1> QED BY <1>12 DEF n, ecx, enc, back

\* Every word of a first packet but the last two comes back.
LEMMA XorPassUndone ==
    ASSUME NEW raw \in Seq(Words), Len(raw) >= 3, NEW key \in Words, NEW i \in 1 .. Len(raw) - 2
    PROVE  DecXorPass(EncXorPass(raw, key))[i] = raw[i]
  <1> DEFINE n == Len(raw)
             ecx == RunningKey(raw, key)
             enc == EncXorPass(raw, key)
  <1>1. n \in Nat /\ n >= 3 /\ i \in 1 .. n - 2 /\ raw[i] \in Words
    OBVIOUS
  <1>2. KeyBack(enc)[i] = ecx[i]
    BY KeyBackIs
  <1>3. ecx[i] \in Words
    <2>1. i \in 1 .. n /\ n >= 1
      BY <1>1
    <2> QED BY <2>1, RunningKeyIs
  <1>4. /\ enc = [j \in 1 .. n |-> IF j \in 2 .. n - 2 THEN WordXor(raw[j], ecx[j])
                                   ELSE IF j = n - 1 THEN ecx[n - 2] ELSE raw[j]]
        /\ Len(enc) = n
    BY <1>1 DEF EncXorPass
  <1> HIDE DEF n, ecx, enc
  <1>5. i \in 1 .. n /\ i # n - 1
    BY <1>1
  <1>6. DecXorPass(enc)[i] = IF i \in 2 .. n - 2 THEN WordXor(enc[i], KeyBack(enc)[i]) ELSE enc[i]
    BY <1>4, <1>5 DEF DecXorPass
  <1>7. enc[i] = IF i \in 2 .. n - 2 THEN WordXor(raw[i], ecx[i]) ELSE raw[i]
    BY <1>4, <1>5
  <1>8. DecXorPass(enc)[i] = raw[i]
    BY <1>1, <1>2, <1>3, <1>6, <1>7, XorAssumption
  <1> QED BY <1>8 DEF enc
----
(***************************************************************************)
(* The scrambled modulus.                                                  *)
(***************************************************************************)
Positions == 0 .. 127
Moduli == [Positions -> SUBSET Positions]

\* XORing one range into another that it does not meet, twice, changes nothing.
LEMMA XorIntoTwice ==
    ASSUME NEW d \in Moduli, NEW to \in Positions, NEW from \in Positions, NEW n \in Nat,
           to + n <= 128, from + n <= 128, to + n <= from \/ from + n <= to
    PROVE  XorInto(d, to, from, n) \in Moduli /\ XorInto(XorInto(d, to, from, n), to, from, n) = d
  <1> DEFINE x == XorInto(d, to, from, n)
  <1>1. ASSUME NEW i \in Positions
        PROVE  x[i] = IF i \in to .. to + n - 1 THEN SymDiff(d[i], d[from + i - to]) ELSE d[i]
    BY DEF XorInto, Positions
  <1>2. ASSUME NEW i \in Positions, i \in to .. to + n - 1
        PROVE  from + i - to \in Positions /\ from + i - to \notin to .. to + n - 1
    BY <1>2 DEF Positions
  <1>3. x \in Moduli
    <2>1. ASSUME NEW i \in Positions PROVE x[i] \in SUBSET Positions
      BY <1>1, <1>2 DEF Moduli, SymDiff
    <2>2. x = [i \in Positions |-> x[i]]
      BY DEF XorInto, Positions
    <2> HIDE DEF x
    <2> QED BY <2>1, <2>2 DEF Moduli
  <1>4. XorInto(x, to, from, n)
          = [i \in Positions |-> IF i \in to .. to + n - 1
                                 THEN SymDiff(x[i], x[from + i - to]) ELSE x[i]]
    BY DEF XorInto, Positions
  <1>5. ASSUME NEW i \in Positions
        PROVE  (IF i \in to .. to + n - 1 THEN SymDiff(x[i], x[from + i - to]) ELSE x[i]) = d[i]
    <2>1. CASE i \notin to .. to + n - 1
      <3> HIDE DEF x
      <3> QED BY <1>1, <2>1
    <2>2. CASE i \in to .. to + n - 1
      <3> DEFINE j == from + i - to
      <3>1. j \in Positions /\ j \notin to .. to + n - 1
        BY <1>2, <2>2
      <3> HIDE DEF x, j
      <3>2. x[i] = SymDiff(d[i], d[j]) /\ x[j] = d[j]
        BY <1>1, <2>2, <3>1 DEF j
      <3>3. SymDiff(SymDiff(d[i], d[j]), d[j]) = d[i]
        BY DEF SymDiff
      <3> QED BY <2>2, <3>2, <3>3 DEF j
    <2> QED BY <2>1, <2>2
  <1>6. XorInto(x, to, from, n) = d
    <2> HIDE DEF x
    <2> QED BY <1>4, <1>5 DEF Moduli
  <1> QED BY <1>3, <1>6

\* Swapping the ends twice changes nothing.
LEMMA SwapFourTwice ==
    ASSUME NEW d \in Moduli
    PROVE  SwapFour(d) \in Moduli /\ SwapFour(SwapFour(d)) = d
  <1>1. SwapFour(d) \in Moduli
    BY DEF SwapFour, Moduli, Positions
  <1>2. SwapFour(SwapFour(d)) = d
    BY DEF SwapFour, Moduli, Positions
  <1> QED BY <1>1, <1>2

\* The four steps in reverse order undo the four steps.
LEMMA ScrambleUndone == ASSUME NEW d \in Moduli PROVE Unscramble(Scramble(d)) = d
  <1> DEFINE d1 == SwapFour(d)
             d2 == XorInto(d1, 0, 64, 64)
             d3 == XorInto(d2, 13, 52, 4)
             d4 == XorInto(d3, 64, 0, 64)
  <1>1. d1 \in Moduli /\ SwapFour(d1) = d
    BY SwapFourTwice
  <1>2. 0 \in Positions /\ 64 \in Positions /\ 13 \in Positions /\ 52 \in Positions
    BY DEF Positions
  <1>3. d2 \in Moduli /\ XorInto(d2, 0, 64, 64) = d1
    <2> HIDE DEF d1
    <2> QED BY <1>1, <1>2, XorIntoTwice, SMTT(30)
  <1>4. d3 \in Moduli /\ XorInto(d3, 13, 52, 4) = d2
    <2> HIDE DEF d2
    <2>1. d2 \in Moduli
      BY <1>3
    <2>2. ASSUME NEW to, NEW from, NEW n, to = 13, from = 52, n = 4
          PROVE  XorInto(d2, to, from, n) \in Moduli
                   /\ XorInto(XorInto(d2, to, from, n), to, from, n) = d2
      <3>1. /\ to \in Positions /\ from \in Positions /\ n \in Nat
            /\ to + n <= 128 /\ from + n <= 128 /\ to + n <= from
        BY <2>2 DEF Positions
      <3> HIDE <2>2
      <3> QED BY <2>1, <3>1, XorIntoTwice
    <2> QED BY <2>2
  <1>5. XorInto(d4, 64, 0, 64) = d3
    <2> HIDE DEF d3
    <2> QED BY <1>4, <1>2, XorIntoTwice
  <1> QED BY <1>1, <1>3, <1>4, <1>5 DEF Scramble, Unscramble

----
(***************************************************************************)
(* User names.                                                             *)
(***************************************************************************)
\* A finite set of positions has a first and a last.
LEMMA MinMaxIs ==
    ASSUME NEW n \in Nat, NEW T \in SUBSET (1 .. n), T # {}
    PROVE  /\ Min(T) \in T /\ \A y \in T : Min(T) <= y
           /\ Max(T) \in T /\ \A y \in T : y <= Max(T)
  <1>1. PICK x \in T : \A y \in T : x <= y
    BY LeastElement
  <1> DEFINE U == {n - y : y \in T}
  <1>2. PICK u \in U : \A v \in U : u <= v
    <2>1. U \in SUBSET Nat /\ U # {}
      OBVIOUS
    <2> HIDE DEF U
    <2> QED BY <2>1, LeastElement
  <1>3. PICK z \in T : \A y \in T : z >= y
    <2>1. PICK z \in T : u = n - z
      OBVIOUS
    <2>2. ASSUME NEW y \in T PROVE z >= y
      <3>1. n - y \in U /\ y \in Int /\ z \in Int
        OBVIOUS
      <3> HIDE DEF U
      <3>2. n - z <= n - y
        BY <1>2, <2>1, <3>1
      <3> QED BY <3>1, <3>2
    <2> QED BY <2>2
  <1>4. Min(T) \in T /\ \A y \in T : Min(T) <= y
    <2>1. Min(T) = CHOOSE a \in T : \A b \in T : a <= b
      BY DEF Min
    <2> QED BY <1>1, <2>1
  <1>5. Max(T) \in T /\ \A y \in T : Max(T) >= y
    <2>1. Max(T) = CHOOSE a \in T : \A b \in T : a >= b
      BY DEF Max
    <2> QED BY <1>3, <2>1
  <1> QED BY <1>4, <1>5

\* What cleanBytesToString keeps of a field: nothing of one of blanks; else a
\* run that neither starts nor ends with a blank; all but the blanks at the end
\* when the others come first.
LEMMA CleanBytesIs ==
    ASSUME NEW b \in Seq(Nat)
    PROVE  /\ CleanBytes(b) \in Seq(Nat)
           /\ CleanBytes(b) = <<>> <=> \A i \in 1 .. Len(b) : b[i] \in Blanks
           /\ CleanBytes(b) # <<>> => /\ CleanBytes(b)[1] \notin Blanks
                                      /\ CleanBytes(b)[Len(CleanBytes(b))] \notin Blanks
           /\ \A k \in 0 .. Len(b) :
                 /\ \A i \in 1 .. k : b[i] \notin Blanks
                 /\ \A i \in k + 1 .. Len(b) : b[i] \in Blanks
                 => CleanBytes(b) = [i \in 1 .. k |-> b[i]]
  <1> DEFINE n == Len(b)
             kept == {i \in DOMAIN b : b[i] \notin Blanks}
             lo == Min(kept)
             hi == Max(kept)
             r == CleanBytes(b)
  <1>1. n \in Nat /\ DOMAIN b = 1 .. n /\ \A i \in 1 .. n : b[i] \in Nat
    OBVIOUS
  <1>2. CASE kept = {}
    <2>1. r = <<>>
      BY <1>2 DEF CleanBytes
    <2>2. \A i \in 1 .. n : b[i] \in Blanks
      BY <1>1, <1>2
    <2> HIDE DEF n, kept, r
    <2>3. \A k \in 0 .. n : (\A i \in 1 .. k : b[i] \notin Blanks) => k = 0
      BY <1>1, <2>2
    <2>4. [i \in 1 .. 0 |-> b[i]] = <<>>
      OBVIOUS
    <2> QED BY <1>1, <2>1, <2>2, <2>3, <2>4 DEF n, r
  <1>3. CASE kept # {}
    <2>1. /\ lo \in kept /\ \A y \in kept : lo <= y
          /\ hi \in kept /\ \A y \in kept : y <= hi
      <3>1. kept \in SUBSET (1 .. n)
        BY <1>1
      <3> HIDE DEF kept, n
      <3> QED BY <1>1, <1>3, <3>1, MinMaxIs
    <2>2. r = SubSeq(b, lo, hi)
      BY <1>3 DEF CleanBytes
    <2>3. lo \in 1 .. n /\ hi \in 1 .. n /\ lo <= hi /\ b[lo] \notin Blanks /\ b[hi] \notin Blanks
      BY <1>1, <2>1
    <2> HIDE DEF lo, hi, r
    <2>4. r = [i \in 1 .. hi - lo + 1 |-> b[lo + i - 1]]
      BY <2>2, <2>3
    <2>5. Len(r) = hi - lo + 1 /\ r \in Seq(Nat)
      <3>1. \A i \in 1 .. hi - lo + 1 : b[lo + i - 1] \in Nat
        BY <1>1, <2>3
      <3>2. hi - lo + 1 \in Nat
        BY <2>3
      <3> QED BY <2>4, <3>1, <3>2
    <2>6. r # <<>> /\ r[1] \notin Blanks /\ r[Len(r)] \notin Blanks
      <3>1. 1 \in 1 .. hi - lo + 1 /\ hi - lo + 1 \in 1 .. hi - lo + 1
            /\ lo + 1 - 1 = lo /\ lo + (hi - lo + 1) - 1 = hi
        BY <2>3
      <3>2. r[1] = b[lo] /\ r[hi - lo + 1] = b[hi]
        BY <2>4, <3>1
      <3> QED BY <2>3, <2>5, <3>1, <3>2
    <2>7. ~ \A i \in 1 .. n : b[i] \in Blanks
      BY <2>3
    <2>8. ASSUME NEW k \in 0 .. n,
                 \A i \in 1 .. k : b[i] \notin Blanks,
                 \A i \in k + 1 .. n : b[i] \in Blanks
          PROVE  r = [i \in 1 .. k |-> b[i]]
      <3>1. hi <= k
        BY <1>1, <2>3, <2>8
      <3>2. 1 \in kept /\ k \in kept
        BY <1>1, <2>3, <2>8, <3>1
      <3>3. lo = 1 /\ hi = k
        BY <2>1, <2>3, <3>1, <3>2
      <3>4. hi - lo + 1 = k /\ \A i \in 1 .. k : lo + i - 1 = i
        BY <3>3
      <3> QED BY <2>4, <3>4
    <2> QED BY <1>1, <2>5, <2>6, <2>7, <2>8 DEF r
  <1> QED BY <1>2, <1>3

\* strings.ToLower keeps the length and the blanks.
LEMMA ToLowerIs ==
    ASSUME NEW s \in Seq(Nat)
    PROVE  /\ ToLower(s) \in Seq(Nat)
           /\ Len(ToLower(s)) = Len(s)
           /\ \A i \in 1 .. Len(s) : ToLower(s)[i] \in Blanks <=> s[i] \in Blanks
  <1>1. DOMAIN s = 1 .. Len(s) /\ Len(s) \in Nat /\ \A i \in 1 .. Len(s) : s[i] \in Nat
    OBVIOUS
  <1> DEFINE n == Len(s)
  <1>2. ToLower(s) = [i \in 1 .. n |-> IF s[i] \in 65 .. 90 THEN s[i] + 32 ELSE s[i]]
    BY <1>1 DEF ToLower
  <1>3. \A i \in 1 .. n : (IF s[i] \in 65 .. 90 THEN s[i] + 32 ELSE s[i]) \in Nat
    BY <1>1
  <1>4. \A x \in Nat : (IF x \in 65 .. 90 THEN x + 32 ELSE x) \in Blanks <=> x \in Blanks
    BY DEF Blanks
  <1>5. n \in Nat
    BY <1>1
  <1> HIDE DEF n
  <1>6. ToLower(s) \in Seq(Nat) /\ Len(ToLower(s)) = n
    BY <1>2, <1>3, <1>5
  <1>7. ASSUME NEW i \in 1 .. n PROVE ToLower(s)[i] \in Blanks <=> s[i] \in Blanks
    <2>1. s[i] \in Nat
      BY <1>1 DEF n
    <2>2. ToLower(s)[i] = IF s[i] \in 65 .. 90 THEN s[i] + 32 ELSE s[i]
      BY <1>2
    <2> QED BY <1>4, <2>1, <2>2
  <1> QED BY <1>6, <1>7 DEF n

\* What of a name the first field does not hold.
Rest(name, size) == SubSeq(name, size + 1, Len(name))

SecondField(name, s1, s2) == FieldOf(Rest(name, s1), s2)

\* The two fields of a name.
LEMMA FirstFieldIs ==
    ASSUME NEW name \in Seq(Nat), NEW s1 \in Nat
    PROVE  /\ FieldOf(name, s1) \in Seq(Nat) /\ Len(FieldOf(name, s1)) = s1
           /\ \A i \in 1 .. s1 : FieldOf(name, s1)[i] = IF i <= Len(name) THEN name[i] ELSE 0
  <1> DEFINE n == Len(name)
  <1>1. n \in Nat /\ \A i \in 1 .. n : name[i] \in Nat
    OBVIOUS
  <1>2. \A i \in 1 .. s1 : (IF i <= n THEN name[i] ELSE 0) \in Nat
    BY <1>1
  <1>3. FieldOf(name, s1) = [i \in 1 .. s1 |-> IF i <= n THEN name[i] ELSE 0]
    BY DEF FieldOf
  <1>4. FieldOf(name, s1) \in Seq(Nat) /\ Len(FieldOf(name, s1)) = s1
    <2> HIDE DEF n
    <2> QED BY <1>2, <1>3
  <1> QED BY <1>3, <1>4

\* What the first field has no room for is in the second.
LEMMA SecondFieldIs ==
    ASSUME NEW name \in Seq(Nat), NEW s1 \in Nat, NEW s2 \in Nat
    PROVE  /\ SecondField(name, s1, s2) \in Seq(Nat) /\ Len(SecondField(name, s1, s2)) = s2
           /\ \A i \in 1 .. s2 :
                 SecondField(name, s1, s2)[i] = IF s1 + i <= Len(name) THEN name[s1 + i] ELSE 0
  <1> DEFINE n == Len(name)
             rest == Rest(name, s1)
             m == IF s1 + 1 <= n THEN n - s1 ELSE 0
  <1>1. n \in Nat /\ m \in Nat /\ \A i \in 1 .. n : name[i] \in Nat
    OBVIOUS
  <1>2. Len(rest) = m /\ \A i \in 1 .. m : rest[i] = name[s1 + i]
    <2>1. rest = SubSeq(name, s1 + 1, n)
      BY DEF Rest
    <2> HIDE DEF n, rest
    <2>2. CASE s1 + 1 <= n
      <3>1. rest = [i \in 1 .. n - s1 |-> name[s1 + i]]
        BY <1>1, <2>1, <2>2
      <3> QED BY <1>1, <2>2, <3>1
    <2>3. CASE ~(s1 + 1 <= n)
      <3>1. rest = <<>>
        BY <1>1, <2>1, <2>3
      <3> QED BY <1>1, <2>3, <3>1
    <2> QED BY <2>2, <2>3
  <1> HIDE DEF rest
  <1>3. ASSUME NEW i \in 1 .. s2
        PROVE  /\ (IF i <= m THEN rest[i] ELSE 0) = IF s1 + i <= n THEN name[s1 + i] ELSE 0
               /\ (IF i <= m THEN rest[i] ELSE 0) \in Nat
    <2> HIDE DEF n
    <2>1. i <= m <=> s1 + i <= n
      BY <1>1
    <2>2. i <= m => i \in 1 .. m /\ s1 + i \in 1 .. n
      BY <1>1
    <2> HIDE DEF m
    <2> QED BY <1>1, <1>2, <2>1, <2>2
  <1>4. FieldOf(rest, s2) = [i \in 1 .. s2 |-> IF i <= m THEN rest[i] ELSE 0]
    <2> HIDE DEF m
    <2> QED BY <1>2 DEF FieldOf
  <1>5. FieldOf(rest, s2) \in Seq(Nat) /\ Len(FieldOf(rest, s2)) = s2
    <2> HIDE DEF m, n
    <2> QED BY <1>3, <1>4
  <1>6. \A i \in 1 .. s2 : FieldOf(rest, s2)[i] = IF s1 + i <= n THEN name[s1 + i] ELSE 0
    <2> HIDE DEF m, n
    <2> QED BY <1>3, <1>4
  <1> QED BY <1>5, <1>6 DEF rest, SecondField

\* Only the empty sequence has no elements.
LEMMA EmptyIs == ASSUME NEW q \in Seq(Nat) PROVE q = <<>> <=> Len(q) = 0
  OBVIOUS

\* A name in two fields, decoded.
LEMMA DecodeNameIs ==
    ASSUME NEW name \in Seq(Nat), NEW s1 \in Nat, NEW s2 \in Nat, Len(name) <= s1 + s2
    PROVE  LET decoded == DecodeName(FieldOf(name, s1), SecondField(name, s1, s2)) IN
           /\ (\A i \in 1 .. Len(name) : name[i] \notin Blanks) => decoded = ToLower(name)
           /\ decoded = <<>> <=> \A i \in 1 .. Len(name) : name[i] \in Blanks
           /\ decoded # <<>> => decoded[1] \notin Blanks /\ decoded[Len(decoded)] \notin Blanks
  <1> DEFINE n == Len(name)
             f1 == FieldOf(name, s1)
             f2 == SecondField(name, s1, s2)
             r1 == CleanBytes(f1)
             r2 == CleanBytes(f2)
             decoded == DecodeName(f1, f2)
             k1 == IF n <= s1 THEN n ELSE s1
             k2 == n - k1
  <1>1. /\ n \in Nat /\ n <= s1 + s2 /\ \A i \in 1 .. n : name[i] \in Nat
        /\ name = [i \in 1 .. n |-> name[i]]
    OBVIOUS
  <1>2. /\ f1 \in Seq(Nat) /\ Len(f1) = s1 /\ f2 \in Seq(Nat) /\ Len(f2) = s2
        /\ \A i \in 1 .. s1 : f1[i] = IF i <= n THEN name[i] ELSE 0
        /\ \A i \in 1 .. s2 : f2[i] = IF s1 + i <= n THEN name[s1 + i] ELSE 0
    <2>1. f1 \in Seq(Nat) /\ Len(f1) = s1
      BY FirstFieldIs
    <2>2. f2 \in Seq(Nat) /\ Len(f2) = s2
      BY SecondFieldIs
    <2>3. \A i \in 1 .. s1 : f1[i] = IF i <= n THEN name[i] ELSE 0
      BY FirstFieldIs
    <2>4. \A i \in 1 .. s2 : f2[i] = IF s1 + i <= n THEN name[s1 + i] ELSE 0
      BY SecondFieldIs
    <2> QED BY <2>1, <2>2, <2>3, <2>4
  <1>3. decoded = ToLower(r1 \o r2)
    BY DEF DecodeName
  <1> HIDE DEF n, f1, f2, decoded
  <1>4. /\ r1 \in Seq(Nat)
        /\ r1 = <<>> <=> \A i \in 1 .. s1 : f1[i] \in Blanks
        /\ r1 # <<>> => r1[1] \notin Blanks /\ r1[Len(r1)] \notin Blanks
        /\ \A k \in 0 .. s1 : /\ \A i \in 1 .. k : f1[i] \notin Blanks
                              /\ \A i \in k + 1 .. s1 : f1[i] \in Blanks
                              => r1 = [i \in 1 .. k |-> f1[i]]
    BY <1>2, CleanBytesIs
  <1>5. /\ r2 \in Seq(Nat)
        /\ r2 = <<>> <=> \A i \in 1 .. s2 : f2[i] \in Blanks
        /\ r2 # <<>> => r2[1] \notin Blanks /\ r2[Len(r2)] \notin Blanks
        /\ \A k \in 0 .. s2 : /\ \A i \in 1 .. k : f2[i] \notin Blanks
                              /\ \A i \in k + 1 .. s2 : f2[i] \in Blanks
                              => r2 = [i \in 1 .. k |-> f2[i]]
    BY <1>2, CleanBytesIs
  <1> HIDE DEF r1, r2
  <1> DEFINE r == r1 \o r2
  <1>6. /\ r \in Seq(Nat) /\ Len(r) = Len(r1) + Len(r2)
        /\ r1 # <<>> => r[1] = r1[1]
        /\ r2 # <<>> => r[Len(r)] = r2[Len(r2)]
        /\ r2 = <<>> => r = r1
        /\ r1 = <<>> => r = r2
        /\ r = <<>> <=> r1 = <<>> /\ r2 = <<>>
    <2>1. r1 \in Seq(Nat) /\ r2 \in Seq(Nat)
      BY <1>4, <1>5
    <2>2. r \in Seq(Nat) /\ Len(r) = Len(r1) + Len(r2) /\ Len(r1) \in Nat /\ Len(r2) \in Nat
      BY <2>1
    <2>3. (r1 = <<>> <=> Len(r1) = 0) /\ (r2 = <<>> <=> Len(r2) = 0) /\ (r = <<>> <=> Len(r) = 0)
      BY <2>1, <2>2, EmptyIs
    <2>4. r1 # <<>> => r[1] = r1[1]
      BY <2>1, <2>2, <2>3
    <2>5. ASSUME r2 # <<>> PROVE r[Len(r)] = r2[Len(r2)]
      <3>1. Len(r2) >= 1
        BY <2>2, <2>3, <2>5
      <3>2. r[Len(r1) + Len(r2)] = r2[Len(r2)]
        BY <2>1, <2>2, <3>1
      <3> QED BY <2>2, <3>2
    <2>6. (r2 = <<>> => r = r1) /\ (r1 = <<>> => r = r2)
      BY <2>1, ConcatEmptySeq
    <2> HIDE DEF r
    <2>7. r = <<>> <=> r1 = <<>> /\ r2 = <<>>
      BY <2>2, <2>3
    <2> QED BY <2>2, <2>4, <2>5, <2>6, <2>7
  <1>7. /\ decoded \in Seq(Nat) /\ Len(decoded) = Len(r)
        /\ \A i \in 1 .. Len(r) : decoded[i] \in Blanks <=> r[i] \in Blanks
    <2> HIDE DEF r
    <2> QED BY <1>3, <1>6, ToLowerIs DEF r
  <1>8. decoded = <<>> <=> r = <<>>
    <2> HIDE DEF r
    <2> QED BY <1>6, <1>7
  <1>9. ASSUME decoded # <<>> PROVE decoded[1] \notin Blanks /\ decoded[Len(decoded)] \notin Blanks
    <2> HIDE DEF r
    <2>1. r # <<>>
      BY <1>8, <1>9
    <2>2. 1 \in 1 .. Len(r) /\ Len(r) \in 1 .. Len(r)
      BY <1>6, <2>1
    <2>3. r[1] \notin Blanks
      BY <1>4, <1>5, <1>6, <2>1
    <2>4. r[Len(r)] \notin Blanks
      BY <1>4, <1>5, <1>6, <2>1
    <2> QED BY <1>7, <2>2, <2>3, <2>4
  <1>10. r = <<>> <=> \A i \in 1 .. n : name[i] \in Blanks
    <2>1. 0 \in Blanks
      BY DEF Blanks
    <2>2. ASSUME \A i \in 1 .. n : name[i] \in Blanks PROVE r1 = <<>> /\ r2 = <<>>
      <3>1. \A i \in 1 .. s1 : f1[i] \in Blanks
        BY <1>1, <1>2, <2>1, <2>2
      <3>2. ASSUME NEW i \in 1 .. s2 PROVE f2[i] \in Blanks
        <4>1. s1 + i <= n => s1 + i \in 1 .. n
          BY <1>1
        <4> QED BY <1>2, <2>1, <2>2, <4>1
      <3> QED BY <1>4, <1>5, <3>1, <3>2
    <2>3. ASSUME r1 = <<>>, r2 = <<>>, NEW i \in 1 .. n PROVE name[i] \in Blanks
      <3>1. CASE i <= s1
        BY <1>1, <1>2, <1>4, <2>3, <3>1
      <3>2. CASE i > s1
        <4> DEFINE j == i - s1
        <4>1. j \in 1 .. s2 /\ s1 + j = i
          BY <1>1, <3>2
        <4> HIDE DEF j
        <4>2. f2[j] = name[i]
          <5>1. f2[j] = IF s1 + j <= n THEN name[s1 + j] ELSE 0
            BY <1>2, <4>1
          <5> QED BY <4>1, <5>1
        <4> QED BY <1>5, <2>3, <4>1, <4>2
      <3> QED BY <1>1, <3>1, <3>2
    <2> HIDE DEF r
    <2> QED BY <1>6, <2>2, <2>3
  <1>11. ASSUME \A i \in 1 .. n : name[i] \notin Blanks PROVE decoded = ToLower(name)
    <2>1. /\ k1 \in 0 .. s1 /\ k2 \in 0 .. s2 /\ k1 + k2 = n /\ k1 <= n
          /\ (k2 = 0 \/ k1 = s1)
          /\ \A i \in 1 .. s1 : i <= k1 <=> i <= n
          /\ \A i \in 1 .. s2 : i <= k2 <=> s1 + i <= n
      <3>1. CASE n <= s1
        <4>1. k1 = n /\ k2 = 0
          BY <1>1, <3>1
        <4> HIDE DEF k1, k2
        <4> QED BY <1>1, <3>1, <4>1
      <3>2. CASE ~(n <= s1)
        <4>1. k1 = s1 /\ k2 = n - s1
          BY <1>1, <3>2
        <4> HIDE DEF k1, k2
        <4> QED BY <1>1, <3>2, <4>1
      <3> QED BY <3>1, <3>2
    <2> HIDE DEF k1, k2
    <2>2. 0 \in Blanks
      BY DEF Blanks
    <2>3. r1 = [i \in 1 .. k1 |-> name[i]]
      <3>1. \A i \in 1 .. k1 : f1[i] = name[i] /\ f1[i] \notin Blanks
        BY <1>1, <1>2, <1>11, <2>1, SMTT(30)
      <3>2. \A i \in k1 + 1 .. s1 : f1[i] \in Blanks
        BY <1>1, <1>2, <2>1, <2>2
      <3> QED BY <1>4, <2>1, <3>1, <3>2
    <2>4. r2 = [i \in 1 .. k2 |-> name[k1 + i]]
      <3>1. ASSUME NEW i \in 1 .. k2 PROVE f2[i] = name[k1 + i] /\ f2[i] \notin Blanks
        <4>1. i \in 1 .. s2 /\ k1 = s1 /\ s1 + i <= n /\ s1 + i \in 1 .. n
          BY <1>1, <2>1
        <4>2. f2[i] = name[s1 + i]
          BY <1>2, <4>1
        <4> QED BY <1>11, <4>1, <4>2
      <3>2. ASSUME NEW i \in k2 + 1 .. s2 PROVE f2[i] \in Blanks
        <4>1. i \in 1 .. s2 /\ ~(s1 + i <= n)
          BY <1>1, <2>1
        <4> QED BY <1>2, <2>2, <4>1
      <3> QED BY <1>5, <2>1, <3>1, <3>2
    <2>5. r = [i \in 1 .. n |-> name[i]]
      <3>1. k1 \in Nat /\ k2 \in Nat /\ k1 + k2 = n
        BY <1>1, <2>1
      <3>2. Len(r1) = k1 /\ Len(r2) = k2
        BY <2>3, <2>4, <3>1
      <3>3. \A i \in 1 .. n : r[i] = name[i]
        BY <1>4, <1>5, <2>3, <2>4, <3>1, <3>2
      <3>4. r \in Seq(Nat) /\ Len(r) = n
        BY <1>6, <3>1, <3>2
      <3> HIDE DEF r
      <3> QED BY <3>3, <3>4
    <2> QED BY <1>1, <1>3, <2>5
  <1> HIDE DEF r
  <1> QED BY <1>8, <1>9, <1>10, <1>11 DEF n, f1, f2, decoded

----
(***************************************************************************)
(* Calls.                                                                  *)
(***************************************************************************)
\* What a call leaves in trial.
LEMMA CallSets ==
    ASSUME NEW op, NEW in, NEW result, Call(op, in, result)
    PROVE  /\ trial'.op = op /\ trial'.in = in /\ trial'.out = result
           /\ \A other : other # op => ~Tried(other)'
  BY DEF Call, Tried

\* What a step does to trial.
LEMMA TrialSteps ==
    ASSUME PacketsNext
    PROVE  \/ UNCHANGED trial
           \/ WritePacket \/ NewBlowfishCipher \/ PadPacket \/ XorFirstPacket
           \/ DecryptCredentials \/ DecodeUsername \/ ScrambleModulus
           \/ FillTables \/ EncryptPayload
  BY DEF PacketsNext, WireStep, Trial

\* The key makes words, however short it is.
LEMMA KeyWordIs ==
    ASSUME NEW key \in Seq(0 .. Digit - 1), key # <<>>, NEW i \in 0 .. 17
    PROVE  KeyWord(key, i) \in Words
  <1> DEFINE n == Len(key)
             k(j) == key[((4 * i + j) % n) + 1]
  <1>1. n \in Nat /\ n >= 1 /\ \A m \in 1 .. n : key[m] \in 0 .. Digit - 1
    <2> DEFINE D == 0 .. Digit - 1
    <2>1. key \in Seq(D)
      OBVIOUS
    <2> HIDE DEF D
    <2>2. \A m \in 1 .. n : key[m] \in D
      BY <2>1
    <2> QED BY <2>2 DEF D
  <1>2. ASSUME NEW j \in 0 .. 3 PROVE k(j) \in 0 .. Digit - 1
    <2> HIDE DEF n
    <2>1. 4 * i + j \in Nat
      OBVIOUS
    <2>2. (4 * i + j) % n \in 0 .. n - 1
      <3> DEFINE x == 4 * i + j
      <3> HIDE DEF x
      <3>1. x \in Nat
        BY <2>1 DEF x
      <3>2. x % n \in 0 .. n - 1
        BY <1>1, <3>1
      <3> QED BY <3>2 DEF x
    <2>3. ((4 * i + j) % n) + 1 \in 1 .. n
      BY <1>1, <2>2
    <2> QED BY <1>1, <2>3
  <1>3. KeyWord(key, i) = ((k(0) * Digit + k(1)) * Digit + k(2)) * Digit + k(3)
    BY DEF KeyWord
  <1>4. k(0) \in 0 .. Digit - 1 /\ k(1) \in 0 .. Digit - 1
        /\ k(2) \in 0 .. Digit - 1 /\ k(3) \in 0 .. Digit - 1
    <2> HIDE DEF k
    <2> QED BY <1>2
  <1> HIDE DEF k
  <1>5. ASSUME NEW a \in Nat, NEW b \in Nat, a <= b - 1, NEW d \in 0 .. Digit - 1
        PROVE  a * Digit + d \in Nat /\ a * Digit + d <= b * Digit - 1
    <2>1. Digit \in Nat /\ a + 1 <= b
      BY <1>5, DigitAssumption
    <2>2. (a + 1) * Digit <= b * Digit
      BY <2>1
    <2>3. (a + 1) * Digit = a * Digit + Digit /\ a * Digit \in Nat /\ b * Digit \in Nat
      BY <2>1
    <2> QED BY <2>1, <2>2, <2>3
  <1>6. Digit \in Nat /\ Digit * Digit \in Nat /\ Digit * Digit * Digit \in Nat
    BY DigitAssumption
  <1>7. k(0) * Digit + k(1) \in Nat /\ k(0) * Digit + k(1) <= Digit * Digit - 1
    <2>1. k(0) \in Nat /\ k(0) <= Digit - 1
      BY <1>4, <1>6
    <2> QED BY <1>4, <1>5, <1>6, <2>1
  <1> DEFINE k2 == k(0) * Digit + k(1)
  <1> HIDE DEF k2
  <1>8. k2 * Digit + k(2) \in Nat /\ k2 * Digit + k(2) <= Digit * Digit * Digit - 1
    BY <1>4, <1>5, <1>6, <1>7 DEF k2
  <1> DEFINE k3 == k2 * Digit + k(2)
  <1> HIDE DEF k3
  <1>9. k3 * Digit + k(3) \in Nat /\ k3 * Digit + k(3) <= Digit * Digit * Digit * Digit - 1
    BY <1>4, <1>5, <1>6, <1>8 DEF k3
  <1>10. k3 * Digit + k(3) \in Words
    BY <1>9, WordIsPositive DEF Word, Words
  <1> QED BY <1>3, <1>10 DEF k2, k3

\* The tables that setKey starts from are tables of words.
LEMMA KeyedTablesTyped ==
    ASSUME NEW key \in Seq(0 .. Digit - 1)
    PROVE  KeyedTables(key) \in Ciphers
  <1> DEFINE p0 == [i \in 0 .. 17 |-> (7 * i + 3) % Word]
             s0 == [box \in Boxes |-> [i \in 0 .. Digit - 1 |-> (5 * box + 11 * i + 2) % Word]]
  <1>1. \A x \in Nat : x % Word \in Words
    BY WordIsPositive DEF Words
  <1>2. p0 \in [0 .. 17 -> Words]
    BY <1>1
  <1>3. s0 \in [Boxes -> [0 .. Digit - 1 -> Words]]
    <2>1. \A box \in Boxes, i \in 0 .. Digit - 1 : (5 * box + 11 * i + 2) \in Nat
      BY DigitAssumption DEF Boxes
    <2> QED BY <1>1, <2>1
  <1>4. InitialTables = [p |-> p0, s |-> s0]
    BY DEF InitialTables
  <1> HIDE DEF p0, s0
  <1>5. CASE key = <<>>
    BY <1>2, <1>3, <1>4, <1>5 DEF KeyedTables, Ciphers
  <1>6. CASE key # <<>>
    <2>1. KeyedTables(key) = [p |-> [i \in 0 .. 17 |-> WordXor(p0[i], KeyWord(key, i))], s |-> s0]
      BY <1>4, <1>6 DEF KeyedTables
    <2>2. \A i \in 0 .. 17 : WordXor(p0[i], KeyWord(key, i)) \in Words
      BY <1>2, <1>6, KeyWordIs, XorAssumption
    <2> QED BY <1>3, <2>1, <2>2 DEF Ciphers
  <1> QED BY <1>5, <1>6

SlotSet == (-1 .. 3) \X Nat

\* The pairs of entries that setKey fills.
LEMMA SlotsTyped == ASSUME NEW key PROVE Slots(key) \in Seq(SlotSet)
  <1> DEFINE pairs(box, size) == [i \in 1 .. size \div 2 |-> <<box, 2 * (i - 1)>>]
  <1>1. ASSUME NEW box \in -1 .. 3, NEW size \in Nat PROVE pairs(box, size) \in Seq(SlotSet)
    <2>1. size \div 2 \in Nat
      OBVIOUS
    <2>2. \A i \in 1 .. size \div 2 : <<box, 2 * (i - 1)>> \in SlotSet
      BY <2>1 DEF SlotSet
    <2> QED BY <2>1, <2>2
  <1>2. Slots(key) = IF key = <<>> THEN <<>>
                     ELSE pairs(-1, 18) \o pairs(0, Digit) \o pairs(1, Digit)
                            \o pairs(2, Digit) \o pairs(3, Digit)
    BY DEF Slots
  <1>3. pairs(-1, 18) \in Seq(SlotSet) /\ \A box \in 0 .. 3 : pairs(box, Digit) \in Seq(SlotSet)
    <2> HIDE DEF pairs
    <2>1. -1 \in -1 .. 3 /\ 18 \in Nat /\ Digit \in Nat /\ \A box \in 0 .. 3 : box \in -1 .. 3
      BY DigitAssumption
    <2> QED BY <1>1, <2>1
  <1> HIDE DEF pairs
  <1>4. /\ pairs(0, Digit) \in Seq(SlotSet) /\ pairs(1, Digit) \in Seq(SlotSet)
        /\ pairs(2, Digit) \in Seq(SlotSet) /\ pairs(3, Digit) \in Seq(SlotSet)
    BY <1>3
  <1> QED BY <1>2, <1>3, <1>4

\* Filling a pair of entries leaves tables of words.
LEMMA FillPairTyped ==
    ASSUME NEW st \in [lr : HalfPairs, c : Ciphers], NEW slot \in SlotSet
    PROVE  FillPair(st, slot) \in [lr : HalfPairs, c : Ciphers]
  <1> DEFINE lr == EncryptBlock(st.c, st.lr[1], st.lr[2])
             box == slot[1]
             i == slot[2]
  <1>1. st.c \in Ciphers /\ st.lr[1] \in Words /\ st.lr[2] \in Words
    BY DEF HalfPairs
  <1>2. lr \in HalfPairs
    BY <1>1, BlockUndone
  <1>3. FillPair(st, slot) =
          [lr |-> lr,
           c |-> IF box = -1
                 THEN [st.c EXCEPT !.p = [@ EXCEPT ![i] = lr[1], ![i + 1] = lr[2]]]
                 ELSE [st.c EXCEPT !.s[box] = [@ EXCEPT ![i] = lr[1], ![i + 1] = lr[2]]]]
    BY DEF FillPair
  <1> HIDE DEF lr
  <1>4. lr[1] \in Words /\ lr[2] \in Words
    BY <1>2 DEF HalfPairs
  <1>5. CASE box = -1
    <2>1. [st.c.p EXCEPT ![i] = lr[1], ![i + 1] = lr[2]] \in [0 .. 17 -> Words]
      BY <1>1, <1>4 DEF Ciphers
    <2>2. [st.c EXCEPT !.p = [@ EXCEPT ![i] = lr[1], ![i + 1] = lr[2]]] \in Ciphers
      BY <1>1, <2>1 DEF Ciphers
    <2> QED BY <1>2, <1>3, <1>5, <2>2
  <1>6. CASE box # -1
    <2>1. box \in Boxes
      BY <1>6 DEF SlotSet, Boxes
    <2>2. [st.c.s[box] EXCEPT ![i] = lr[1], ![i + 1] = lr[2]] \in [0 .. Digit - 1 -> Words]
      BY <1>1, <1>4, <2>1 DEF Ciphers
    <2>3. [st.c EXCEPT !.s[box] = [@ EXCEPT ![i] = lr[1], ![i + 1] = lr[2]]] \in Ciphers
      BY <1>1, <2>1, <2>2 DEF Ciphers
    <2> QED BY <1>2, <1>3, <1>6, <2>3
  <1> QED BY <1>5, <1>6

----
(***************************************************************************)
(* Integers in packets.                                                    *)
(***************************************************************************)

\* Quotient and remainder are unique.
LEMMA DivModUnique ==
    ASSUME NEW w \in Nat \ {0}, NEW q \in Int, NEW r \in 0 .. w - 1, NEW u \in Int, u = w * q + r
    PROVE  u \div w = q /\ u % w = r
  <1> DEFINE q1 == u \div w  r1 == u % w
  <1>1. q1 \in Int /\ r1 \in 0 .. w - 1 /\ u = w * q1 + r1
    OBVIOUS
  <1> HIDE DEF q1, r1
  <1>2. w * q + r = w * q1 + r1 /\ w * (q1 - q) = w * q1 - w * q
    BY <1>1
  <1>3. w * (q1 - q) = r - r1 /\ r - r1 < w /\ r - r1 > -w
    BY <1>1, <1>2
  <1>4. ~(q1 - q >= 1)
    <2> SUFFICES ASSUME q1 - q >= 1 PROVE FALSE
      OBVIOUS
    <2>1. w * (q1 - q) >= w
      BY <1>1
    <2> QED BY <2>1, <1>1, <1>3
  <1>5. ~(q1 - q <= -1)
    <2> SUFFICES ASSUME q1 - q <= -1 PROVE FALSE
      OBVIOUS
    <2>1. w * (q1 - q) <= -w
      BY <1>1
    <2> QED BY <2>1, <1>1, <1>3
  <1>6. q1 = q /\ r1 = r
    BY <1>1, <1>2, <1>4, <1>5
  <1> QED BY <1>6 DEF q1, r1

\* Quotient and remainder, by name.
LEMMA DivMod ==
    ASSUME NEW w \in Nat \ {0}, NEW u \in Int, NEW q, q = u \div w, NEW r, r = u % w
    PROVE  q \in Int /\ r \in 0 .. w - 1 /\ u = w * q + r
  OBVIOUS

\* One more digit.
LEMMA NextDigit ==
    ASSUME NEW b \in Nat \ {0}, NEW v \in Nat \ {0}, NEW u \in Nat
    PROVE  u % (b * v) = (u % v) + ((u \div v) % b) * v
  <1> DEFINE q == u \div v  r == u % v  q2 == q \div b  r2 == q % b
  <1>1. q \in Int /\ r \in 0 .. v - 1 /\ u = v * q + r
    BY DivMod
  <1>2. q2 \in Int /\ r2 \in 0 .. b - 1 /\ q = b * q2 + r2
    <2> HIDE DEF q
    <2> QED BY <1>1, DivMod
  <1> HIDE DEF q, r, q2, r2
  <1>3. b * v \in Nat \ {0}
    OBVIOUS
  <1>4. u = (b * v) * q2 + (r + r2 * v)
    <2>1. v * q = v * (b * q2) + v * r2
      BY <1>1, <1>2
    <2>2. v * (b * q2) = (b * v) * q2 /\ v * r2 = r2 * v
      BY <1>1, <1>2
    <2> QED BY <1>1, <1>2, <2>1, <2>2
  <1>5. r + r2 * v \in 0 .. b * v - 1
    <2>1. r2 * v \in Nat /\ (r2 + 1) * v = r2 * v + v
      BY <1>2
    <2>2. (r2 + 1) * v <= b * v
      BY <1>2
    <2> QED BY <1>1, <1>2, <1>3, <2>1, <2>2
  <1>6. u % (b * v) = r + r2 * v
    <2> DEFINE w == b * v  x == r + r2 * v
    <2> HIDE DEF w, x
    <2>1. w \in Nat \ {0} /\ x \in 0 .. w - 1 /\ u = w * q2 + x
      BY <1>3, <1>4, <1>5 DEF w, x
    <2>2. u % w = x
      BY <1>2, <2>1, DivModUnique
    <2> QED BY <2>2 DEF w, x
  <1> QED BY <1>6 DEF q, r, r2

\* The numbers of values of 0 to 8 bytes.
LEMMA ValuesIs ==
    /\ Values[0] = 1
    /\ \A n \in 1 .. 8 : Values[n] = Base * Values[n - 1]
    /\ \A n \in 0 .. 8 : Values[n] \in Nat \ {0}
    /\ Values[1] = Base /\ Values[2] = Units
  <1> DEFINE S == Nat \ {0}
             g == [ik \in Nat \X S |-> Base * ik[2]]
  <1>1. \A a, b \in S : a * b \in S
    OBVIOUS
  <1>2. Base \in S /\ 1 \in S
    BY BaseAssumption
  <1>3. g \in [Nat \X S -> S]
    <2> HIDE DEF S
    <2> QED BY <1>1, <1>2
  <1>4. PICK f \in [0 .. 8 -> S] : Iterates(f, 1, g, 8)
    <2> HIDE DEF S, g
    <2>1. 8 \in Nat
      OBVIOUS
    <2> QED BY <1>2, <1>3, <2>1, RecursionExists
  <1> HIDE DEF S
  <1>5. \A n \in 1 .. 8 : f[n] = Base * f[n - 1]
    BY <1>4 DEF Iterates
  <1>6. f = [n \in 0 .. 8 |-> IF n = 0 THEN 1 ELSE Base * f[n - 1]]
    BY <1>4, <1>5 DEF Iterates
  <1>7. Values = [n \in 0 .. 8 |-> IF n = 0 THEN 1 ELSE Base * Values[n - 1]]
    BY <1>6 DEF Values
  <1>8. Values[0] = 1 /\ \A n \in 1 .. 8 : Values[n] = Base * Values[n - 1]
    BY <1>7
  <1>9. \A n \in 0 .. 8 : Values[n] \in S
    <2> DEFINE P == {n \in Nat : n <= 8 => Values[n] \in S}
    <2>1. 0 \in P
      BY <1>2, <1>8
    <2>2. ASSUME NEW n \in P PROVE n + 1 \in P
      <3> SUFFICES ASSUME n + 1 <= 8 PROVE Values[n + 1] \in S
        OBVIOUS
      <3>1. n + 1 \in 1 .. 8 /\ (n + 1) - 1 = n /\ Values[n] \in S
        OBVIOUS
      <3> QED BY <1>1, <1>2, <1>8, <3>1
    <2>3. P = Nat
      <3>1. P \in SUBSET Nat
        OBVIOUS
      <3> HIDE DEF P
      <3> QED BY <2>1, <2>2, <3>1, SetInduction
    <2> QED BY <2>3
  <1>10. Values[1] = Base /\ Values[2] = Units
    <2>1. Values[1] = Base * Values[0] /\ Values[2] = Base * Values[1]
      BY <1>8
    <2> QED BY <1>8, <2>1, BaseAssumption DEF Units
  <1> QED BY <1>8, <1>9, <1>10 DEF S

\* LittleEndian.PutUint makes bytes.
LEMMA PutUintTyped ==
    ASSUME NEW u \in Nat, NEW n \in 0 .. 8
    PROVE  /\ PutUint(u, n) \in Seq(0 .. Base - 1) /\ Len(PutUint(u, n)) = n
           /\ \A i \in 1 .. n : PutUint(u, n)[i] = (u \div Values[i - 1]) % Base
  <1>1. ASSUME NEW i \in 1 .. n PROVE (u \div Values[i - 1]) % Base \in 0 .. Base - 1
    <2>1. Values[i - 1] \in Nat \ {0}
      <3>1. i - 1 \in 0 .. 8
        OBVIOUS
      <3> QED BY <3>1, ValuesIs
    <2> DEFINE x == u \div Values[i - 1]
    <2>2. x \in Int
      BY <2>1
    <2> HIDE DEF x
    <2>3. x % Base \in 0 .. Base - 1
      BY <2>2, BaseAssumption
    <2> QED BY <2>3 DEF x
  <1> DEFINE B == 0 .. Base - 1
             p == [i \in 1 .. n |-> (u \div Values[i - 1]) % Base]
  <1>2. p \in [1 .. n -> B]
    BY <1>1
  <1>3. PutUint(u, n) = p
    BY DEF PutUint
  <1>4. \A i \in 1 .. n : p[i] = (u \div Values[i - 1]) % Base
    OBVIOUS
  <1> HIDE DEF B, p
  <1>5. p \in Seq(B) /\ Len(p) = n
    BY <1>2
  <1> QED BY <1>3, <1>4, <1>5 DEF B

\* The sums of bytes are natural numbers, each the one before and its byte.
LEMMA SumOfIs ==
    ASSUME NEW bytes \in Seq(Nat), Len(bytes) <= 8
    PROVE  /\ SumOf(bytes)[0] = 0
           /\ \A i \in 1 .. Len(bytes) :
                 SumOf(bytes)[i] = SumOf(bytes)[i - 1] + bytes[i] * Values[i - 1]
  <1> DEFINE n == Len(bytes)
             g == [ik \in Nat \X Nat |->
                     IF ik[1] \in 1 .. n THEN ik[2] + bytes[ik[1]] * Values[ik[1] - 1] ELSE ik[2]]
  <1>1. n \in Nat /\ n <= 8 /\ \A i \in 1 .. n : bytes[i] \in Nat
    OBVIOUS
  <1> HIDE DEF n
  <1>2. \A i \in 1 .. n : bytes[i] * Values[i - 1] \in Nat
    <2> SUFFICES ASSUME NEW i \in 1 .. n PROVE bytes[i] * Values[i - 1] \in Nat
      OBVIOUS
    <2>1. bytes[i] \in Nat /\ Values[i - 1] \in Nat
      <3>1. i - 1 \in 0 .. 8
        BY <1>1
      <3> QED BY <1>1, <3>1, ValuesIs
    <2>2. \A a, b \in Nat : a * b \in Nat
      OBVIOUS
    <2> QED BY <2>1, <2>2
  <1>3. g \in [Nat \X Nat -> Nat]
    BY <1>2
  <1>4. PICK f \in [0 .. n -> Nat] : Iterates(f, 0, g, n)
    <2> HIDE DEF g
    <2> QED BY <1>1, <1>3, RecursionExists
  <1>5. \A i \in 1 .. n : f[i] = f[i - 1] + bytes[i] * Values[i - 1]
    <2> SUFFICES ASSUME NEW i \in 1 .. n PROVE f[i] = f[i - 1] + bytes[i] * Values[i - 1]
      OBVIOUS
    <2>1. f[i] = g[<<i, f[i - 1]>>]
      BY <1>4 DEF Iterates
    <2>2. i \in Nat /\ f[i - 1] \in Nat
      BY <1>1
    <2> QED BY <2>1, <2>2
  <1>6. f = [i \in 0 .. n |-> IF i = 0 THEN 0 ELSE f[i - 1] + bytes[i] * Values[i - 1]]
    BY <1>1, <1>4, <1>5 DEF Iterates
  <1>7. SumOf(bytes) = CHOOSE s : s = [i \in 0 .. n |-> IF i = 0 THEN 0
                                                       ELSE s[i - 1] + bytes[i] * Values[i - 1]]
    BY DEF SumOf, n
  <1> DEFINE sum == SumOf(bytes)
  <1>8. sum = [i \in 0 .. n |-> IF i = 0 THEN 0 ELSE sum[i - 1] + bytes[i] * Values[i - 1]]
    BY <1>6, <1>7
  <1> HIDE DEF sum
  <1>9. sum[0] = 0 /\ \A i \in 1 .. n : sum[i] = sum[i - 1] + bytes[i] * Values[i - 1]
    BY <1>1, <1>8
  <1> QED BY <1>9 DEF sum, n

\* What LittleEndian.PutUint writes, LittleEndian.Uint reads.
LEMMA GetPut ==
    ASSUME NEW n \in 0 .. 8, NEW u \in 0 .. Values[n] - 1
    PROVE  GetUint(PutUint(u, n)) = u
  <1> DEFINE p == PutUint(u, n)
             sum == SumOf(p)
  <1>1. u \in Nat /\ n \in Nat /\ n <= 8
    BY ValuesIs
  <1>2. p \in Seq(Nat) /\ Len(p) = n /\ \A i \in 1 .. n : p[i] = (u \div Values[i - 1]) % Base
    <2>1. p \in Seq(0 .. Base - 1) /\ Len(p) = n
          /\ \A i \in 1 .. n : p[i] = (u \div Values[i - 1]) % Base
      BY <1>1, PutUintTyped
    <2> HIDE DEF p
    <2>2. \A i \in 1 .. n : p[i] \in Nat
      <3> DEFINE B == 0 .. Base - 1
      <3>1. p \in Seq(B) /\ \A x \in B : x \in Nat
        BY <2>1, BaseAssumption
      <3> HIDE DEF B
      <3> QED BY <2>1, <3>1
    <2>3. p = [i \in 1 .. n |-> p[i]]
      BY <2>1
    <2>4. p \in Seq(Nat)
      BY <1>1, <2>2, <2>3
    <2> QED BY <2>1, <2>4
  <1> HIDE DEF p
  <1>3. sum[0] = 0 /\ \A i \in 1 .. n : sum[i] = sum[i - 1] + p[i] * Values[i - 1]
    BY <1>1, <1>2, SumOfIs
  <1> HIDE DEF sum
  <1> DEFINE P == {i \in Nat : i <= n => sum[i] = u % Values[i]}
  <1>4. 0 \in P
    BY <1>1, <1>3, ValuesIs
  <1>5. ASSUME NEW i \in P PROVE i + 1 \in P
    <2> SUFFICES ASSUME i + 1 <= n PROVE sum[i + 1] = u % Values[i + 1]
      OBVIOUS
    <2>1. /\ i \in 0 .. 8 /\ i + 1 \in 1 .. 8 /\ i + 1 \in 1 .. n /\ (i + 1) - 1 = i
          /\ sum[i] = u % Values[i]
      BY <1>1
    <2>2. sum[i + 1] = sum[i] + p[i + 1] * Values[i] /\ p[i + 1] = (u \div Values[i]) % Base
      BY <1>2, <1>3, <2>1
    <2>3. Values[i + 1] = Base * Values[i] /\ Values[i] \in Nat \ {0} /\ Base \in Nat \ {0}
      BY <2>1, ValuesIs, BaseAssumption
    <2>4. u % (Base * Values[i]) = (u % Values[i]) + ((u \div Values[i]) % Base) * Values[i]
      BY <1>1, <2>3, NextDigit
    <2> QED BY <2>1, <2>2, <2>3, <2>4
  <1>6. P = Nat
    <2>1. P \in SUBSET Nat
      OBVIOUS
    <2> HIDE DEF P
    <2> QED BY <1>4, <1>5, <2>1, SetInduction
  <1>7. sum[n] = u % Values[n]
    BY <1>1, <1>6
  <1>8. u % Values[n] = u
    <2> DEFINE v == Values[n]
    <2>1. v \in Nat \ {0} /\ u \in 0 .. v - 1
      BY ValuesIs
    <2> HIDE DEF v
    <2>2. u % v = u
      BY <2>1
    <2> QED BY <2>2 DEF v
  <1> QED BY <1>2, <1>7, <1>8 DEF GetUint, sum, p

\* The conversions undo each other.
LEMMA SignedBack ==
    ASSUME NEW n \in 1 .. 8, NEW v, [n |-> n, v |-> v] \in Integral(n)
    PROVE  LET u == ToUnsigned(v, n) IN
           /\ u \in 0 .. Values[n] - 1
           /\ (IF n = 1 THEN u ELSE ToSigned(u, n)) = v
  <1> DEFINE V == Values[n]
             u == v % V
  <1>1. V \in Nat \ {0} /\ (n = 1 => V = Base)
    BY ValuesIs
  <1>2. IF n = 1 THEN v \in 0 .. Base - 1 ELSE v \in -(V \div 2) .. V \div 2 - 1
    BY DEF Integral
  <1>3. ToUnsigned(v, n) = u
    BY DEF ToUnsigned
  <1>4. ToSigned(u, n) = IF 2 * u >= V THEN u - V ELSE u
    BY DEF ToSigned
  <1> HIDE DEF V
  <1>5. CASE n = 1
    <2>1. v \in 0 .. V - 1
      BY <1>1, <1>2, <1>5
    <2>2. u = v
      BY <1>1, <2>1
    <2> QED BY <1>3, <1>5, <2>1, <2>2 DEF V
  <1>6. CASE n # 1
    <2>1. v \in Int /\ 2 * v < V /\ 2 * v >= -V
      BY <1>1, <1>2, <1>6
    <2>2. CASE v >= 0
      <3>1. u = v
        BY <1>1, <2>1, <2>2
      <3> HIDE DEF u
      <3> QED BY <1>1, <1>3, <1>4, <1>6, <2>1, <2>2, <3>1 DEF V
    <2>3. CASE v < 0
      <3>1. u = v + V
        <4> DEFINE q == -1  r == v + V
        <4>1. q \in Int /\ r \in 0 .. V - 1 /\ v = V * q + r
          BY <1>1, <2>1, <2>3
        <4> HIDE DEF q, r
        <4>2. u = r
          BY <1>1, <2>1, <4>1, DivModUnique
        <4> QED BY <4>2 DEF r
      <3> HIDE DEF u
      <3> QED BY <1>1, <1>3, <1>4, <1>6, <2>1, <2>3, <3>1 DEF V
    <2> QED BY <2>1, <2>2, <2>3
  <1> QED BY <1>5, <1>6

----
(***************************************************************************)
(* Strings in packets.                                                     *)
(***************************************************************************)

\* The code units of one code point, and those that WriteString writes.
RuneUnits(r) == IF r < Units THEN <<r>> ELSE EncodeRune(r)
Written == 1 .. Units - 1

\* There are code units.
LEMMA UnitsIsNat == Units \in Nat /\ Units > 1
  <1>1. \A b \in Nat : b > 1 => b * b \in Nat /\ b * b > 1
    OBVIOUS
  <1> QED BY <1>1, BaseAssumption DEF Units

\* A code point is one code unit that is no surrogate, or a pair that makes it.
LEMMA RuneUnitsIs ==
    ASSUME NEW r \in CodePoints
    PROVE  /\ r \in Nat
           /\ r < Units => /\ RuneUnits(r) = <<r>> /\ r \in Written
                           /\ ~IsHigh(r) /\ ~IsLow(r)
           /\ ~(r < Units) =>
                 \E h, l \in Written :
                    /\ RuneUnits(r) = <<h, l>> /\ IsHigh(h) /\ IsLow(l) /\ ~IsHigh(l)
                    /\ r = Units + (h - HighSurrogate) * SurrogateSize + (l - LowSurrogate)
  <1>1. Units \in Nat /\ HighSurrogate \in Nat \ {0} /\ SurrogateSize \in Nat \ {0}
        /\ LowSurrogate = HighSurrogate + SurrogateSize /\ LowSurrogate + SurrogateSize <= Units
    BY UnitsIsNat, SurrogateAssumption
  <1>2. r \in Nat
    <2>1. SurrogateSize * SurrogateSize \in Nat
      BY <1>1
    <2> QED BY <1>1, <2>1 DEF CodePoints
  <1>3. CASE r < Units
    <2>1. r \in 1 .. Units - 1 /\ r \notin HighSurrogate .. LowSurrogate + SurrogateSize - 1
      BY <1>1, <1>2, <1>3 DEF CodePoints
    <2>2. ~IsHigh(r) /\ ~IsLow(r)
      BY <1>1, <2>1 DEF IsHigh, IsLow
    <2> QED BY <1>2, <1>3, <2>1, <2>2 DEF RuneUnits, Written
  <1>4. CASE ~(r < Units)
    <2> DEFINE x == r - Units
               q == x \div SurrogateSize
               m == x % SurrogateSize
               h == HighSurrogate + q
               l == LowSurrogate + m
    <2>1. x \in Nat /\ x <= SurrogateSize * SurrogateSize - 1
      <3>1. SurrogateSize * SurrogateSize \in Nat
        BY <1>1
      <3>2. r \in Units .. Units + SurrogateSize * SurrogateSize - 1
        BY <1>1, <1>2, <1>4 DEF CodePoints
      <3> QED BY <1>1, <3>1, <3>2
    <2>2. RuneUnits(r) = <<h, l>>
      BY <1>4 DEF RuneUnits, EncodeRune
    <2> HIDE DEF x
    <2>3. q \in Int /\ m \in 0 .. SurrogateSize - 1 /\ x = SurrogateSize * q + m
      BY <1>1, <2>1, DivMod
    <2> HIDE DEF q, m
    <2>4. q \in 0 .. SurrogateSize - 1
      <3>1. ~(q <= -1)
        <4> SUFFICES ASSUME q <= -1 PROVE FALSE
          OBVIOUS
        <4>1. SurrogateSize * q <= -SurrogateSize
          BY <1>1, <2>3
        <4> QED BY <1>1, <2>1, <2>3, <4>1
      <3>2. ~(q >= SurrogateSize)
        <4> SUFFICES ASSUME q >= SurrogateSize PROVE FALSE
          OBVIOUS
        <4>1. SurrogateSize * q >= SurrogateSize * SurrogateSize
          BY <1>1, <2>3
        <4>2. SurrogateSize * SurrogateSize \in Int /\ SurrogateSize * q \in Int
          BY <1>1, <2>3
        <4> QED BY <1>1, <2>1, <2>3, <4>1, <4>2
      <3> QED BY <1>1, <2>3, <3>1, <3>2
    <2>5. /\ h \in HighSurrogate .. LowSurrogate - 1 /\ h \in 1 .. Units - 1
          /\ l \in LowSurrogate .. LowSurrogate + SurrogateSize - 1 /\ l \in 1 .. Units - 1
          /\ l \notin HighSurrogate .. LowSurrogate - 1
          /\ h - HighSurrogate = q /\ l - LowSurrogate = m
      BY <1>1, <2>3, <2>4
    <2> HIDE DEF h, l
    <2>6. r = Units + q * SurrogateSize + m
      <3>1. SurrogateSize * q = q * SurrogateSize /\ q * SurrogateSize \in Int
        BY <1>1, <2>3
      <3> QED BY <1>1, <1>2, <2>3, <3>1 DEF x
    <2> QED BY <1>2, <1>4, <2>2, <2>5, <2>6 DEF IsHigh, IsLow, Written
  <1> QED BY <1>3, <1>4

\* A code point is one or two code units and never ends in the first half of a pair.
LEMMA RuneUnitsTyped ==
    ASSUME NEW r \in CodePoints
    PROVE  /\ RuneUnits(r) \in Seq(Written) /\ Len(RuneUnits(r)) \in {1, 2}
           /\ ~IsHigh(RuneUnits(r)[Len(RuneUnits(r))])
  <1>1. CASE r < Units
    <2>1. RuneUnits(r) = <<r>> /\ r \in Written /\ ~IsHigh(r)
      BY <1>1, RuneUnitsIs
    <2> QED BY <2>1
  <1>2. CASE ~(r < Units)
    <2>1. PICK h \in Written, l \in Written : RuneUnits(r) = <<h, l>> /\ ~IsHigh(l)
      BY <1>2, RuneUnitsIs
    <2> QED BY <2>1
  <1> QED BY <1>1, <1>2

\* The code units, code point by code point.
LEMMA UnitsOfIs ==
    ASSUME NEW s \in Seq(CodePoints)
    PROVE  /\ UnitsOf(s)[0] = <<>>
           /\ \A i \in 1 .. Len(s) : UnitsOf(s)[i] = UnitsOf(s)[i - 1] \o RuneUnits(s[i])
           /\ \A i \in 0 .. Len(s) : UnitsOf(s)[i] \in Seq(Written)
  <1> DEFINE n == Len(s)
             S == Seq(Written)
             g == [iu \in Nat \X S |->
                     IF iu[1] \in 1 .. n THEN iu[2] \o RuneUnits(s[iu[1]]) ELSE iu[2]]
             Step(f, i) == f[i - 1] \o IF s[i] < Units THEN <<s[i]>> ELSE EncodeRune(s[i])
             U == UnitsOf(s)
  <1>1. n \in Nat /\ \A i \in 1 .. n : s[i] \in CodePoints
    OBVIOUS
  <1>2. U = CHOOSE f : f = [i \in 0 .. n |-> IF i = 0 THEN <<>> ELSE Step(f, i)]
    BY DEF UnitsOf
  <1> HIDE DEF n, U
  <1>3. ASSUME NEW u \in S, NEW i \in 1 .. n PROVE u \o RuneUnits(s[i]) \in S
    <2>1. RuneUnits(s[i]) \in S
      BY <1>1, RuneUnitsTyped
    <2> QED BY <2>1
  <1>4. g \in [Nat \X S -> S]
    <2> HIDE DEF S
    <2> QED BY <1>3
  <1>5. <<>> \in S
    OBVIOUS
  <1>6. PICK f \in [0 .. n -> S] : Iterates(f, <<>>, g, n)
    <2> HIDE DEF g, S
    <2> QED BY <1>1, <1>4, <1>5, RecursionExists
  <1>7. ASSUME NEW i \in 1 .. n PROVE f[i] = Step(f, i)
    <2> HIDE DEF S
    <2>1. f[i] = g[<<i, f[i - 1]>>] /\ i \in Nat /\ f[i - 1] \in S
      <3>1. i - 1 \in 0 .. n /\ i \in Nat
        BY <1>1
      <3>2. f[i] = g[<<i, f[i - 1]>>]
        BY <1>6 DEF Iterates
      <3> QED BY <3>1, <3>2
    <2> QED BY <2>1 DEF RuneUnits
  <1>8. f = [i \in 0 .. n |-> IF i = 0 THEN <<>> ELSE Step(f, i)]
    <2> HIDE DEF Step, S
    <2> QED BY <1>1, <1>6, <1>7 DEF Iterates
  <1>9. U = [i \in 0 .. n |-> IF i = 0 THEN <<>> ELSE Step(U, i)]
    <2> HIDE DEF Step
    <2> QED BY <1>2, <1>8
  <1>10. U[0] = <<>> /\ \A i \in 1 .. n : U[i] = U[i - 1] \o RuneUnits(s[i])
    <2>1. \A i \in 1 .. n : Step(U, i) = U[i - 1] \o RuneUnits(s[i])
      BY DEF RuneUnits
    <2> HIDE DEF Step
    <2>2. \A i \in 0 .. n : U[i] = IF i = 0 THEN <<>> ELSE Step(U, i)
      BY <1>9
    <2>3. 0 \in 0 .. n /\ \A i \in 1 .. n : i \in 0 .. n /\ i # 0
      BY <1>1
    <2> QED BY <2>1, <2>2, <2>3
  <1>11. \A i \in 0 .. n : U[i] \in S
    <2> HIDE DEF S
    <2> DEFINE P == {i \in Nat : i <= n => U[i] \in S}
    <2>1. 0 \in P
      BY <1>5, <1>10
    <2>2. ASSUME NEW i \in P PROVE i + 1 \in P
      <3> SUFFICES ASSUME i + 1 <= n PROVE U[i + 1] \in S
        OBVIOUS
      <3>1. i + 1 \in 1 .. n /\ (i + 1) - 1 = i /\ U[i] \in S
        BY <1>1
      <3> QED BY <1>3, <1>10, <3>1
    <2>3. P = Nat
      <3>1. P \in SUBSET Nat
        OBVIOUS
      <3> HIDE DEF P
      <3> QED BY <2>1, <2>2, <3>1, SetInduction
    <2> QED BY <1>1, <2>3
  <1> QED BY <1>10, <1>11 DEF n, U

\* The code point that unit i ends.
RuneAt(units, i) ==
    IF PairAt(units, i - 1)
    THEN Units + (units[i - 1] - HighSurrogate) * SurrogateSize + (units[i] - LowSurrogate)
    ELSE units[i]

\* The code points, code unit by code unit.
LEMMA DecodeOfIs ==
    ASSUME NEW units \in Seq(Nat)
    PROVE  /\ DecodeOf(units)[0] = <<>>
           /\ \A i \in 1 .. Len(units) :
                 DecodeOf(units)[i] = IF PairAt(units, i) THEN DecodeOf(units)[i - 1]
                                      ELSE Append(DecodeOf(units)[i - 1], RuneAt(units, i))
           /\ \A i \in 0 .. Len(units) : DecodeOf(units)[i] \in Seq(Int)
  <1> DEFINE n == Len(units)
             S == Seq(Int)
             g == [ir \in Nat \X S |->
                     IF ir[1] \in 1 .. n /\ ~PairAt(units, ir[1])
                     THEN Append(ir[2], RuneAt(units, ir[1])) ELSE ir[2]]
             Step(f, i) == IF PairAt(units, i) THEN f[i - 1]
                           ELSE Append(f[i - 1],
                                       IF PairAt(units, i - 1)
                                       THEN Units + (units[i - 1] - HighSurrogate) * SurrogateSize
                                                  + (units[i] - LowSurrogate)
                                       ELSE units[i])
             D == DecodeOf(units)
  <1>1. n \in Nat /\ \A i \in 1 .. n : units[i] \in Nat
    OBVIOUS
  <1>2. D = CHOOSE f : f = [i \in 0 .. n |-> IF i = 0 THEN <<>> ELSE Step(f, i)]
    BY DEF DecodeOf
  <1>3. \A i : PairAt(units, i) => i \in 1 .. n
    BY <1>1 DEF PairAt
  <1> HIDE DEF n, D
  <1>4. ASSUME NEW i \in 1 .. n PROVE RuneAt(units, i) \in Int
    <2>1. Units \in Int /\ HighSurrogate \in Int /\ LowSurrogate \in Int /\ SurrogateSize \in Int
      BY UnitsIsNat, SurrogateAssumption
    <2>2. units[i] \in Int /\ (PairAt(units, i - 1) => units[i - 1] \in Int)
      BY <1>1, <1>3
    <2>3. \A a, b, c, d, e, f \in Int : a + (b - c) * d + (e - f) \in Int
      OBVIOUS
    <2> QED BY <2>1, <2>2, <2>3 DEF RuneAt
  <1>5. ASSUME NEW r \in S, NEW i \in 1 .. n PROVE Append(r, RuneAt(units, i)) \in S
    BY <1>4
  <1>6. g \in [Nat \X S -> S]
    <2> HIDE DEF S
    <2> QED BY <1>5
  <1>7. <<>> \in S
    OBVIOUS
  <1>8. PICK f \in [0 .. n -> S] : Iterates(f, <<>>, g, n)
    <2> HIDE DEF g, S
    <2> QED BY <1>1, <1>6, <1>7, RecursionExists
  <1>9. ASSUME NEW i \in 1 .. n PROVE f[i] = Step(f, i)
    <2> HIDE DEF S
    <2>1. f[i] = g[<<i, f[i - 1]>>] /\ i \in Nat /\ f[i - 1] \in S
      <3>1. i - 1 \in 0 .. n /\ i \in Nat
        BY <1>1
      <3>2. f[i] = g[<<i, f[i - 1]>>]
        BY <1>8 DEF Iterates
      <3> QED BY <3>1, <3>2
    <2> QED BY <2>1 DEF RuneAt
  <1>10. f = [i \in 0 .. n |-> IF i = 0 THEN <<>> ELSE Step(f, i)]
    <2> HIDE DEF Step, S
    <2> QED BY <1>1, <1>8, <1>9 DEF Iterates
  <1>11. D = [i \in 0 .. n |-> IF i = 0 THEN <<>> ELSE Step(D, i)]
    <2> HIDE DEF Step
    <2> QED BY <1>2, <1>10
  <1>12. /\ D[0] = <<>>
         /\ \A i \in 1 .. n : D[i] = IF PairAt(units, i) THEN D[i - 1]
                                     ELSE Append(D[i - 1], RuneAt(units, i))
    <2>1. \A i \in 1 .. n : Step(D, i) = IF PairAt(units, i) THEN D[i - 1]
                                         ELSE Append(D[i - 1], RuneAt(units, i))
      BY DEF RuneAt
    <2> HIDE DEF Step
    <2>2. D[0] = <<>> /\ \A i \in 1 .. n : D[i] = Step(D, i)
      <3>1. \A i \in 0 .. n : D[i] = IF i = 0 THEN <<>> ELSE Step(D, i)
        BY <1>11
      <3>2. 0 \in 0 .. n /\ \A i \in 1 .. n : i \in 0 .. n /\ i # 0
        BY <1>1
      <3> QED BY <3>1, <3>2
    <2> QED BY <2>1, <2>2
  <1>13. \A i \in 0 .. n : D[i] \in S
    <2> HIDE DEF S
    <2> DEFINE P == {i \in Nat : i <= n => D[i] \in S}
    <2>1. 0 \in P
      BY <1>7, <1>12
    <2>2. ASSUME NEW i \in P PROVE i + 1 \in P
      <3> SUFFICES ASSUME i + 1 <= n PROVE D[i + 1] \in S
        OBVIOUS
      <3>1. i + 1 \in 1 .. n /\ (i + 1) - 1 = i /\ D[i] \in S
        BY <1>1
      <3> QED BY <1>5, <1>12, <3>1
    <2>3. P = Nat
      <3>1. P \in SUBSET Nat
        OBVIOUS
      <3> HIDE DEF P
      <3> QED BY <2>1, <2>2, <3>1, SetInduction
    <2> QED BY <1>1, <2>3
  <1> QED BY <1>12, <1>13 DEF n, D

----
\* Units that do not end in the first half of a pair are decoded alike, whatever
\* comes after them.
LEMMA DecodePrefix ==
    ASSUME NEW u \in Seq(Nat), NEW x \in Seq(Nat), u # <<>> => ~IsHigh(u[Len(u)])
    PROVE  DecodeOf(u \o x)[Len(u)] = Decode(u)
  <1> DEFINE m == Len(u)
             w == u \o x
             n == Len(w)
  <1>1. /\ m \in Nat /\ n \in Nat /\ m <= n /\ w \in Seq(Nat)
        /\ \A i \in 1 .. m : w[i] = u[i]
        /\ m # 0 => ~IsHigh(u[m])
    OBVIOUS
  <1>2. /\ DecodeOf(u)[0] = <<>>
        /\ \A i \in 1 .. m : DecodeOf(u)[i] = IF PairAt(u, i) THEN DecodeOf(u)[i - 1]
                                              ELSE Append(DecodeOf(u)[i - 1], RuneAt(u, i))
    BY DecodeOfIs
  <1>3. /\ DecodeOf(w)[0] = <<>>
        /\ \A i \in 1 .. n : DecodeOf(w)[i] = IF PairAt(w, i) THEN DecodeOf(w)[i - 1]
                                              ELSE Append(DecodeOf(w)[i - 1], RuneAt(w, i))
    <2> HIDE DEF w
    <2> QED BY <1>1, DecodeOfIs
  <1>4. ASSUME NEW i \in 0 .. m PROVE PairAt(w, i) <=> PairAt(u, i)
    <2> HIDE DEF w
    <2>1. PairAt(u, i) <=> i \in 1 .. m - 1 /\ IsHigh(u[i]) /\ IsLow(u[i + 1])
      BY DEF PairAt
    <2>2. PairAt(w, i) <=> i \in 1 .. n - 1 /\ IsHigh(w[i]) /\ IsLow(w[i + 1])
      BY DEF PairAt
    <2> HIDE DEF m, n
    <2>3. CASE i = 0
      BY <1>1, <2>1, <2>2, <2>3
    <2>4. CASE i = m /\ i # 0
      BY <1>1, <2>1, <2>2, <2>4
    <2>5. CASE i # m /\ i # 0
      <3>1. i \in 1 .. m - 1 /\ i \in 1 .. n - 1 /\ i \in 1 .. m /\ i + 1 \in 1 .. m
        BY <1>1, <2>5
      <3> QED BY <1>1, <2>1, <2>2, <3>1
    <2> QED BY <2>3, <2>4, <2>5
  <1>5. ASSUME NEW i \in 1 .. m PROVE RuneAt(w, i) = RuneAt(u, i)
    <2> HIDE DEF m, n, w
    <2>1. i \in 0 .. m /\ i - 1 \in 0 .. m
      BY <1>1
    <2>2. PairAt(w, i - 1) <=> PairAt(u, i - 1)
      BY <1>4, <2>1
    <2>3. PairAt(u, i - 1) => i - 1 \in 1 .. m
      BY <1>1 DEF PairAt, m
    <2> QED BY <1>1, <2>2, <2>3 DEF RuneAt
  <1> HIDE DEF m, n, w
  <1> DEFINE P == {i \in Nat : i <= m => DecodeOf(w)[i] = DecodeOf(u)[i]}
  <1>6. 0 \in P
    BY <1>2, <1>3
  <1>7. ASSUME NEW i \in P PROVE i + 1 \in P
    <2> SUFFICES ASSUME i + 1 <= m PROVE DecodeOf(w)[i + 1] = DecodeOf(u)[i + 1]
      OBVIOUS
    <2>1. i + 1 \in 1 .. m /\ i + 1 \in 1 .. n /\ i + 1 \in 0 .. m /\ (i + 1) - 1 = i
      BY <1>1
    <2>2. DecodeOf(w)[i] = DecodeOf(u)[i]
      BY <1>1
    <2>3. DecodeOf(w)[i + 1] = IF PairAt(w, i + 1) THEN DecodeOf(w)[i]
                               ELSE Append(DecodeOf(w)[i], RuneAt(w, i + 1))
      BY <1>3, <2>1
    <2>4. DecodeOf(u)[i + 1] = IF PairAt(u, i + 1) THEN DecodeOf(u)[i]
                               ELSE Append(DecodeOf(u)[i], RuneAt(u, i + 1))
      BY <1>2, <2>1
    <2>5. PairAt(w, i + 1) <=> PairAt(u, i + 1)
      BY <1>4, <2>1
    <2>6. RuneAt(w, i + 1) = RuneAt(u, i + 1)
      BY <1>5, <2>1
    <2> QED BY <2>2, <2>3, <2>4, <2>5, <2>6
  <1>8. P = Nat
    <2>1. P \in SUBSET Nat
      OBVIOUS
    <2> HIDE DEF P
    <2> QED BY <1>6, <1>7, <2>1, SetInduction
  <1>9. DecodeOf(w)[m] = DecodeOf(u)[m]
    <2>1. m \in P
      <3> HIDE DEF P
      <3> QED BY <1>1, <1>8
    <2>2. m <= m
      BY <1>1
    <2> QED BY <2>1, <2>2
  <1> QED BY <1>9 DEF Decode, m, w

\* One more code point.
LEMMA DecodeAppend ==
    ASSUME NEW u \in Seq(Nat), u # <<>> => ~IsHigh(u[Len(u)]), NEW r \in CodePoints
    PROVE  Decode(u \o RuneUnits(r)) = Append(Decode(u), r)
  <1> DEFINE m == Len(u)
  <1>1. m \in Nat /\ (m # 0 => ~IsHigh(u[m]))
    OBVIOUS
  <1>2. CASE r < Units
    <2> DEFINE w == u \o <<r>>
    <2>1. RuneUnits(r) = <<r>> /\ r \in Nat
      BY <1>2, RuneUnitsIs
    <2>2. /\ w \in Seq(Nat) /\ Len(w) = m + 1 /\ w[m + 1] = r
          /\ \A i \in 1 .. m : w[i] = u[i]
      BY <2>1
    <2>3. DecodeOf(w)[m] = Decode(u)
      <3>1. <<r>> \in Seq(Nat)
        BY <2>1
      <3> QED BY <3>1, DecodePrefix
    <2> HIDE DEF w, m
    <2>4. ~PairAt(w, m + 1) /\ ~PairAt(w, m)
      BY <1>1, <2>2 DEF PairAt
    <2>5. RuneAt(w, m + 1) = r
      <3>1. (m + 1) - 1 = m
        BY <1>1
      <3> QED BY <2>2, <2>4, <3>1 DEF RuneAt
    <2>6. DecodeOf(w)[m + 1] = Append(DecodeOf(w)[m], r)
      <3>1. m + 1 \in 1 .. Len(w) /\ (m + 1) - 1 = m
        BY <1>1, <2>2
      <3> QED BY <2>2, <2>4, <2>5, <3>1, DecodeOfIs
    <2> QED BY <2>1, <2>2, <2>3, <2>6 DEF Decode, w
  <1>3. CASE ~(r < Units)
    <2>1. PICK h \in Written, l \in Written :
             /\ RuneUnits(r) = <<h, l>> /\ IsHigh(h) /\ IsLow(l)
             /\ r = Units + (h - HighSurrogate) * SurrogateSize + (l - LowSurrogate)
      BY <1>3, RuneUnitsIs
    <2> DEFINE w == u \o <<h, l>>
    <2>2. h \in Nat /\ l \in Nat
      BY UnitsIsNat DEF Written
    <2>3. /\ w \in Seq(Nat) /\ Len(w) = m + 2 /\ w[m + 1] = h /\ w[m + 2] = l
          /\ \A i \in 1 .. m : w[i] = u[i]
      BY <2>2
    <2>4. DecodeOf(w)[m] = Decode(u)
      <3>1. <<h, l>> \in Seq(Nat)
        BY <2>2
      <3> QED BY <3>1, DecodePrefix
    <2> HIDE DEF w, m
    <2>5. PairAt(w, m + 1) /\ ~PairAt(w, m + 2)
      BY <1>1, <2>1, <2>3 DEF PairAt
    <2>6. RuneAt(w, m + 2) = r
      <3>1. (m + 2) - 1 = m + 1
        BY <1>1
      <3> QED BY <2>1, <2>3, <2>5, <3>1 DEF RuneAt
    <2>7. DecodeOf(w)[m + 1] = DecodeOf(w)[m]
      <3>1. m + 1 \in 1 .. Len(w) /\ (m + 1) - 1 = m
        BY <1>1, <2>3
      <3> QED BY <2>3, <2>5, <3>1, DecodeOfIs
    <2>8. DecodeOf(w)[m + 2] = Append(DecodeOf(w)[m + 1], r)
      <3>1. m + 2 \in 1 .. Len(w) /\ (m + 2) - 1 = m + 1
        BY <1>1, <2>3
      <3> QED BY <2>3, <2>5, <2>6, <3>1, DecodeOfIs
    <2> QED BY <2>1, <2>3, <2>4, <2>7, <2>8 DEF Decode, w
  <1> QED BY <1>2, <1>3

\* A function on 1 .. n is a sequence.
LEMMA FunctionSeq ==
    ASSUME NEW S, NEW n \in Nat, NEW f \in [1 .. n -> S]
    PROVE  f \in Seq(S) /\ Len(f) = n
  OBVIOUS

\* Code units are numbers.
LEMMA WrittenSeq ==
    ASSUME NEW u \in Seq(Written)
    PROVE  u \in Seq(Nat)
  <1>1. Written \subseteq Nat
    BY UnitsIsNat DEF Written
  <1>2. u \in [1 .. Len(u) -> Written] /\ Len(u) \in Nat
    OBVIOUS
  <1>3. u \in [1 .. Len(u) -> Nat]
    BY <1>1, <1>2
  <1> QED BY <1>2, <1>3, FunctionSeq

\* The last element of a concatenation.
LEMMA LastOf ==
    ASSUME NEW S, NEW u \in Seq(S), NEW x \in Seq(S), Len(x) \in {1, 2}
    PROVE  (u \o x)[Len(u \o x)] = x[Len(x)]
  <1> DEFINE k == Len(x)  m == Len(u)  n == m + k
  <1>1. m \in Nat /\ k \in Nat /\ k # 0 /\ Len(u \o x) = n
    <2>1. m \in Nat /\ k \in Nat /\ Len(u \o x) = n
      OBVIOUS
    <2>2. \A j \in {1, 2} : j # 0
      OBVIOUS
    <2> QED BY <2>1, <2>2
  <1>2. ASSUME NEW j \in 1 .. n, j > m PROVE (u \o x)[j] = x[j - m]
    BY <1>1, <1>2
  <1> HIDE DEF k, m
  <1>3. n \in 1 .. n /\ n > m /\ n - m = k
    BY <1>1
  <1>4. (u \o x)[n] = x[n - m]
    BY <1>2, <1>3
  <1> QED BY <1>1, <1>3, <1>4 DEF k

\* What WriteString encodes utf16.Decode decodes.
LEMMA DecodeCodeUnits ==
    ASSUME NEW s \in Seq(CodePoints)
    PROVE  CodeUnits(s) \in Seq(Written) /\ Decode(CodeUnits(s)) = s
  <1> DEFINE n == Len(s)
             U == UnitsOf(s)
             first(i) == [j \in 1 .. i |-> s[j]]
  <1>1. n \in Nat /\ (\A i \in 1 .. n : s[i] \in CodePoints) /\ s = first(n)
    OBVIOUS
  <1>2. /\ U[0] = <<>>
        /\ \A i \in 1 .. n : U[i] = U[i - 1] \o RuneUnits(s[i])
        /\ \A i \in 0 .. n : U[i] \in Seq(Written)
    BY UnitsOfIs
  <1> HIDE DEF n, U
  <1> DEFINE Good(i) == (U[i] # <<>> => ~IsHigh(U[i][Len(U[i])])) /\ Decode(U[i]) = first(i)
             P == {i \in Nat : i <= n => Good(i)}
  <1>4. 0 \in P
    <2>1. Decode(<<>>) = <<>>
      <3>1. <<>> \in Seq(Nat) /\ Len(<<>>) = 0
        OBVIOUS
      <3> QED BY <3>1, DecodeOfIs DEF Decode
    <2>2. first(0) = <<>>
      OBVIOUS
    <2> QED BY <1>2, <2>1, <2>2
  <1>5. ASSUME NEW i \in P PROVE i + 1 \in P
    <2> SUFFICES ASSUME i + 1 <= n PROVE Good(i + 1)
      OBVIOUS
    <2>1. i \in 0 .. n /\ i + 1 \in 1 .. n /\ (i + 1) - 1 = i /\ i \in Nat
      BY <1>1
    <2>2. Good(i)
      BY <2>1
    <2>3. U[i] \in Seq(Written) /\ U[i + 1] = U[i] \o RuneUnits(s[i + 1])
      BY <1>2, <2>1
    <2>4. s[i + 1] \in CodePoints
      BY <1>1, <2>1
    <2> DEFINE u == U[i]  r == s[i + 1]  x == RuneUnits(r)
    <2> HIDE DEF u, r
    <2>5. u \in Seq(Written) /\ u \in Seq(Nat) /\ r \in CodePoints
      BY <2>3, <2>4, WrittenSeq DEF u, r
    <2>6. Decode(u \o x) = Append(Decode(u), r)
      BY <2>2, <2>5, DecodeAppend DEF u
    <2>7. Append(first(i), r) = first(i + 1)
      <3> HIDE DEF Good
      <3> QED BY <2>1 DEF r
    <2>8. ~IsHigh((u \o x)[Len(u \o x)])
      <3>1. x \in Seq(Written) /\ Len(x) \in {1, 2} /\ ~IsHigh(x[Len(x)])
        BY <2>5, RuneUnitsTyped
      <3> HIDE DEF x
      <3>2. (u \o x)[Len(u \o x)] = x[Len(x)]
        BY <2>5, <3>1, LastOf
      <3> QED BY <3>1, <3>2
    <2> HIDE DEF first
    <2> QED BY <2>2, <2>3, <2>6, <2>7, <2>8 DEF u, r
  <1>6. P = Nat
    <2>1. P \in SUBSET Nat
      OBVIOUS
    <2> HIDE DEF P
    <2> QED BY <1>4, <1>5, <2>1, SetInduction
  <1>7. Good(n)
    <2> HIDE DEF Good
    <2> QED BY <1>1, <1>6
  <1>8. CodeUnits(s) = U[n]
    BY DEF CodeUnits, U, n
  <1>9. U[n] \in Seq(Written)
    BY <1>1, <1>2
  <1> HIDE DEF first
  <1> QED BY <1>1, <1>7, <1>8, <1>9

----
(***************************************************************************)
(* Fields in packets: what WriteField appends ReadField reads, at any offset. *)
(***************************************************************************)
\* The bytes that WriteString and WriteField append.
StringBytes(s) == UnitBytes(CodeUnits(s)) \o <<0, 0>>
FieldBytes(f) == IF f.n = 0 THEN StringBytes(f.v) ELSE PutUint(ToUnsigned(f.v, f.n), f.n)

\* The bytes of data after position pos are those of x, as far as data goes; and
\* data goes far enough.
Agree(data, pos, x) == \A i \in 1 .. Len(x) : pos + i <= Len(data) => data[pos + i] = x[i]
At(data, pos, x) == Agree(data, pos, x) /\ pos + Len(x) <= Len(data)

\* The two bytes of a code unit.
LEMMA PutTwo ==
    ASSUME NEW u \in Nat, NEW p, p = PutUint(u, 2)
    PROVE  /\ p \in Seq(0 .. Base - 1) /\ Len(p) = 2 /\ p[1] \in Nat /\ p[2] \in Nat
           /\ \A i \in 1 .. 2 : p[i] = (u \div Values[i - 1]) % Base
  <1>1. ASSUME NEW n \in 0 .. 8, n = 2
        PROVE  /\ p \in Seq(0 .. Base - 1) /\ Len(p) = 2
               /\ \A i \in 1 .. 2 : p[i] = (u \div Values[i - 1]) % Base
    BY <1>1, PutUintTyped
  <1>2. p \in Seq(0 .. Base - 1) /\ Len(p) = 2
    BY <1>1
  <1>3. p[1] \in Nat /\ p[2] \in Nat
    <2> DEFINE B == 0 .. Base - 1
    <2>1. p \in Seq(B) /\ Len(p) = 2 /\ B \subseteq Nat
      BY <1>2, BaseAssumption
    <2> HIDE DEF B
    <2>2. p[1] \in B /\ p[2] \in B
      BY <2>1
    <2> QED BY <2>1, <2>2
  <1> QED BY <1>1, <1>2, <1>3

\* No code unit that WriteString writes has two zero bytes.
LEMMA UnitNotZero ==
    ASSUME NEW u \in Written
    PROVE  ~(PutUint(u, 2)[1] = 0 /\ PutUint(u, 2)[2] = 0)
  <1> DEFINE p == PutUint(u, 2)  z == PutUint(0, 2)
  <1>1. u \in 0 .. Values[2] - 1 /\ u \in Nat /\ u # 0 /\ 0 \in 0 .. Values[2] - 1
    BY ValuesIs, UnitsIsNat DEF Written
  <1>2. p \in Seq(0 .. Base - 1) /\ Len(p) = 2 /\ z \in Seq(0 .. Base - 1) /\ Len(z) = 2
    BY <1>1, PutTwo
  <1>3. z[1] = 0 /\ z[2] = 0
    <2>1. ASSUME NEW i \in 1 .. 2 PROVE z[i] = 0
      <3>1. Values[i - 1] \in Nat \ {0}
        <4>1. i - 1 \in 0 .. 8
          OBVIOUS
        <4> QED BY <4>1, ValuesIs
      <3>2. z[i] = (0 \div Values[i - 1]) % Base
        BY PutTwo
      <3>3. \A v \in Nat \ {0} : 0 \div v = 0
        OBVIOUS
      <3>4. 0 % Base = 0
        BY BaseAssumption
      <3> QED BY <3>1, <3>2, <3>3, <3>4
    <2> QED BY <2>1
  <1>4. GetUint(p) = u /\ GetUint(z) = 0
    BY <1>1, GetPut
  <1> HIDE DEF p, z
  <1>5. p[1] = 0 /\ p[2] = 0 => p = z
    <2> SUFFICES ASSUME p[1] = 0, p[2] = 0 PROVE p = z
      OBVIOUS
    <2>1. \A i \in 1 .. 2 : p[i] = z[i]
      BY <1>3
    <2> QED BY <1>2, <2>1
  <1> QED BY <1>1, <1>4, <1>5 DEF p

\* The bytes of a sequence of code units, unit by unit.
LEMMA UnitBytesIs ==
    ASSUME NEW u \in Seq(Written)
    PROVE  /\ UnitBytes(u) \in Seq(Nat) /\ Len(UnitBytes(u)) = 2 * Len(u)
           /\ \A k \in 1 .. Len(u) : /\ UnitBytes(u)[2 * k - 1] = PutUint(u[k], 2)[1]
                                     /\ UnitBytes(u)[2 * k] = PutUint(u[k], 2)[2]
  <1> DEFINE m == Len(u)  n == 2 * m
             byte(j) == PutUint(u[(j + 1) \div 2], 2)[IF j % 2 = 1 THEN 1 ELSE 2]
  <1>1. m \in Nat /\ n \in Nat /\ \A k \in 1 .. m : u[k] \in Written
    OBVIOUS
  <1> HIDE DEF m
  <1>2. \A k \in 1 .. m : PutUint(u[k], 2)[1] \in Nat /\ PutUint(u[k], 2)[2] \in Nat
    <2> SUFFICES ASSUME NEW k \in 1 .. m
                 PROVE  PutUint(u[k], 2)[1] \in Nat /\ PutUint(u[k], 2)[2] \in Nat
      OBVIOUS
    <2>1. u[k] \in Nat
      BY <1>1, UnitsIsNat DEF Written
    <2> QED BY <2>1, PutTwo
  <1>3. ASSUME NEW j \in 1 .. n PROVE byte(j) \in Nat
    <2>1. (j + 1) \div 2 \in 1 .. m
      BY <1>1
    <2> QED BY <1>2, <2>1
  <1>4. UnitBytes(u) = [j \in 1 .. n |-> byte(j)]
    BY DEF UnitBytes, m
  <1> HIDE DEF n
  <1>5. UnitBytes(u) \in [1 .. n -> Nat]
    <2> HIDE DEF byte
    <2> QED BY <1>3, <1>4
  <1>6. UnitBytes(u) \in Seq(Nat) /\ Len(UnitBytes(u)) = n
    BY <1>1, <1>5, FunctionSeq
  <1>7. ASSUME NEW k \in 1 .. m
        PROVE  /\ UnitBytes(u)[2 * k - 1] = PutUint(u[k], 2)[1]
               /\ UnitBytes(u)[2 * k] = PutUint(u[k], 2)[2]
    <2>1. /\ 2 * k - 1 \in 1 .. n /\ 2 * k \in 1 .. n
          /\ ((2 * k - 1) + 1) \div 2 = k /\ (2 * k + 1) \div 2 = k
          /\ (2 * k - 1) % 2 = 1 /\ (2 * k) % 2 # 1
      BY <1>1 DEF n
    <2>2. UnitBytes(u)[2 * k - 1] = byte(2 * k - 1) /\ UnitBytes(u)[2 * k] = byte(2 * k)
      <3> HIDE DEF byte
      <3> QED BY <1>4, <2>1
    <2> QED BY <2>1, <2>2
  <1> QED BY <1>6, <1>7 DEF m, n

\* The bytes of a string: its code units and two zeros.
LEMMA StringBytesIs ==
    ASSUME NEW s \in Seq(CodePoints)
    PROVE  /\ CodeUnits(s) \in Seq(Written) /\ Len(CodeUnits(s)) \in Nat
           /\ StringBytes(s) \in Seq(Nat)
           /\ Len(StringBytes(s)) = 2 * Len(CodeUnits(s)) + 2
           /\ StringBytes(s)[2 * Len(CodeUnits(s)) + 1] = 0
           /\ StringBytes(s)[2 * Len(CodeUnits(s)) + 2] = 0
           /\ \A k \in 1 .. Len(CodeUnits(s)) :
                 /\ StringBytes(s)[2 * k - 1] = PutUint(CodeUnits(s)[k], 2)[1]
                 /\ StringBytes(s)[2 * k] = PutUint(CodeUnits(s)[k], 2)[2]
  <1> DEFINE u == CodeUnits(s)  m == Len(u)  b == UnitBytes(u)  t == b \o <<0, 0>>
  <1>1. u \in Seq(Written) /\ m \in Nat
    BY DecodeCodeUnits
  <1>2. b \in Seq(Nat) /\ Len(b) = 2 * m
    BY <1>1, UnitBytesIs
  <1>3. \A k \in 1 .. m : b[2 * k - 1] = PutUint(u[k], 2)[1] /\ b[2 * k] = PutUint(u[k], 2)[2]
    BY <1>1, UnitBytesIs
  <1>4. StringBytes(s) = t
    BY DEF StringBytes
  <1> HIDE DEF b, m
  <1>5. /\ t \in Seq(Nat) /\ Len(t) = 2 * m + 2 /\ t[2 * m + 1] = 0 /\ t[2 * m + 2] = 0
        /\ \A i \in 1 .. 2 * m : t[i] = b[i]
    <2> DEFINE k == 2 * m
    <2>1. k \in Nat /\ Len(b) = k
      BY <1>1, <1>2
    <2> HIDE DEF k
    <2>2. <<0, 0>> \in Seq(Nat) /\ Len(<<0, 0>>) = 2
      OBVIOUS
    <2>3. t \in Seq(Nat) /\ Len(t) = k + 2
      BY <1>2, <2>1, <2>2
    <2>4. \A i \in 1 .. k : t[i] = b[i]
      BY <1>2, <2>1
    <2>5. t[k + 1] = 0 /\ t[k + 2] = 0
      BY <1>2, <2>1
    <2> QED BY <2>3, <2>4, <2>5 DEF k
  <1> HIDE DEF t
  <1>6. ASSUME NEW k \in 1 .. m PROVE /\ t[2 * k - 1] = PutUint(u[k], 2)[1]
                                      /\ t[2 * k] = PutUint(u[k], 2)[2]
    <2>1. 2 * k - 1 \in 1 .. 2 * m /\ 2 * k \in 1 .. 2 * m
      BY <1>1
    <2> QED BY <1>3, <1>5, <2>1
  <1> QED BY <1>1, <1>4, <1>5, <1>6 DEF m

----
\* The first zero code unit at an even offset is the one that ends the string,
\* in a buffer that is cut off too.
LEMMA NoEarlierTerminator ==
    ASSUME NEW data \in Seq(Nat), NEW pos \in Nat, NEW s \in Seq(CodePoints),
           NEW m, m = Len(CodeUnits(s)), Agree(data, pos, StringBytes(s)),
           NEW i \in Terminators(data, pos)
    PROVE  2 * m <= i
  <1> DEFINE u == CodeUnits(s)  b == StringBytes(s)  n == Len(data)
  <1>1. /\ u \in Seq(Written) /\ m \in Nat /\ Len(b) = 2 * m + 2
        /\ \A k \in 1 .. m : b[2 * k - 1] = PutUint(u[k], 2)[1] /\ b[2 * k] = PutUint(u[k], 2)[2]
    BY StringBytesIs
  <1>2. /\ i \in Nat /\ i \in 0 .. n - pos - 2 /\ i % 2 = 0 /\ n \in Nat
        /\ data[pos + i + 1] = 0 /\ data[pos + i + 2] = 0
    BY DEF Terminators
  <1>3. \A j \in 1 .. 2 * m + 2 : pos + j <= n => data[pos + j] = b[j]
    BY <1>1 DEF Agree
  <1>4. \A k \in 1 .. m : u[k] \in Written
    BY <1>1
  <1> HIDE DEF u, b, n
  <1> SUFFICES ASSUME i < 2 * m PROVE FALSE
    <2>1. m \in Nat /\ i \in Nat
      BY <1>1, <1>2
    <2> QED BY <2>1
  <1> DEFINE k == i \div 2 + 1
  <1>5. k \in 1 .. m /\ i = 2 * k - 2
    BY <1>1, <1>2
  <1> HIDE DEF k
  <1>6. /\ 2 * k - 1 \in 1 .. 2 * m + 2 /\ 2 * k \in 1 .. 2 * m + 2
        /\ pos + (2 * k - 1) <= n /\ pos + 2 * k <= n
        /\ pos + i + 1 = pos + (2 * k - 1) /\ pos + i + 2 = pos + 2 * k
    <2>1. k \in Nat /\ i \in Nat /\ m \in Nat /\ i <= n - pos - 2 /\ 1 <= k /\ k <= m
      BY <1>1, <1>2, <1>5
    <2>2. n \in Nat /\ i = 2 * k - 2
      BY <1>2, <1>5
    <2> QED BY <2>1, <2>2
  <1>7. b[2 * k - 1] = 0 /\ b[2 * k] = 0
    BY <1>2, <1>3, <1>6
  <1>8. PutUint(u[k], 2)[1] = 0 /\ PutUint(u[k], 2)[2] = 0
    BY <1>1, <1>5, <1>7
  <1> QED BY <1>4, <1>5, <1>8, UnitNotZero

\* The least element is the minimum.
LEMMA MinIs ==
    ASSUME NEW T \in SUBSET Nat, NEW m \in T, \A y \in T : m <= y
    PROVE  Min(T) = m
  <1>1. Min(T) \in T /\ \A y \in T : Min(T) <= y
    BY DEF Min
  <1>2. Min(T) \in Nat /\ m \in Nat /\ Min(T) <= m /\ m <= Min(T)
    BY <1>1
  <1> QED BY <1>2

\* A piece of a buffer.
LEMMA PieceIs ==
    ASSUME NEW data \in Seq(Nat), NEW p \in Seq(Nat), NEW pos \in Nat, pos + Len(p) <= Len(data),
           \A j \in 1 .. Len(p) : data[pos + j] = p[j]
    PROVE  SubSeq(data, pos + 1, pos + Len(p)) = p
  <1> DEFINE n == Len(p)  q == SubSeq(data, pos + 1, pos + n)
  <1>1. n \in Nat /\ Len(data) \in Nat
    OBVIOUS
  <1>2. q = [j \in 1 .. n |-> data[pos + j]]
    <2> HIDE DEF n
    <2>1. q = [j \in 1 .. (pos + n) - (pos + 1) + 1 |-> data[(pos + 1) + j - 1]]
      BY <1>1
    <2>2. (pos + n) - (pos + 1) + 1 = n /\ \A j \in 1 .. n : (pos + 1) + j - 1 = pos + j
      BY <1>1
    <2> QED BY <2>1, <2>2
  <1>3. p = [j \in 1 .. n |-> p[j]]
    OBVIOUS
  <1> QED BY <1>2, <1>3

\* ReadString reads what WriteString wrote, and SkipString ends where it does.
LEMMA ReadStringAt ==
    ASSUME NEW data \in Seq(Nat), NEW pos \in Nat, NEW s \in Seq(CodePoints),
           At(data, pos, StringBytes(s))
    PROVE  /\ ReadString(data, pos) =
                [ok |-> TRUE, pos |-> pos + Len(StringBytes(s)), val |-> s]
           /\ SkipString(data, pos).pos = pos + Len(StringBytes(s))
  <1> DEFINE u == CodeUnits(s)  m == Len(u)  b == StringBytes(s)  n == Len(data)
             T == Terminators(data, pos)
             unit(i) == GetUint(SubSeq(data, pos + 2 * i - 1, pos + 2 * i))
  <1>1. /\ u \in Seq(Written) /\ m \in Nat /\ Len(b) = 2 * m + 2
        /\ b[2 * m + 1] = 0 /\ b[2 * m + 2] = 0
        /\ \A k \in 1 .. m : b[2 * k - 1] = PutUint(u[k], 2)[1] /\ b[2 * k] = PutUint(u[k], 2)[2]
    BY StringBytesIs
  <1>2. n \in Nat /\ pos + 2 * m + 2 <= n
    BY <1>1 DEF At
  <1>3. ASSUME NEW j \in 1 .. 2 * m + 2 PROVE data[pos + j] = b[j]
    <2>1. j \in 1 .. Len(b) /\ pos + j <= Len(data)
      <3> HIDE DEF m, b
      <3> QED BY <1>1, <1>2
    <2> QED BY <2>1 DEF At, Agree
  <1>4. \A k \in 1 .. m : u[k] \in Written
    BY <1>1
  <1>5. T \in SUBSET Nat /\ \A i \in T : 2 * m <= i
    <2>1. T \in SUBSET Nat
      BY DEF Terminators
    <2>2. Agree(data, pos, b)
      BY DEF At
    <2> HIDE DEF T, b
    <2>3. ASSUME NEW i \in T PROVE 2 * m <= i
      BY <2>2, NoEarlierTerminator DEF T, b
    <2> QED BY <2>1, <2>3
  <1>6. Decode(u) = s
    BY DecodeCodeUnits
  <1> HIDE DEF m, b
  <1>7. 2 * m \in T
    <2>1. 2 * m \in 0 .. n - pos - 2 /\ (2 * m) % 2 = 0
      BY <1>1, <1>2
    <2>2. 2 * m + 1 \in 1 .. 2 * m + 2 /\ 2 * m + 2 \in 1 .. 2 * m + 2
          /\ pos + 2 * m + 1 = pos + (2 * m + 1) /\ pos + 2 * m + 2 = pos + (2 * m + 2)
      BY <1>1
    <2>3. data[pos + 2 * m + 1] = 0 /\ data[pos + 2 * m + 2] = 0
      BY <1>1, <1>3, <2>2
    <2> QED BY <2>1, <2>3 DEF Terminators
  <1>8. Min(T) = 2 * m /\ T # {}
    <2> HIDE DEF T
    <2> QED BY <1>5, <1>7, MinIs
  <1>9. ASSUME NEW i \in 1 .. m PROVE unit(i) = u[i]
    <2> DEFINE p == PutUint(u[i], 2)  start == pos + (2 * i - 2)
    <2>1. u[i] \in Nat /\ u[i] \in 0 .. Values[2] - 1
      <3>1. u[i] \in Written
        BY <1>4
      <3>2. Written \subseteq Nat /\ Written \subseteq 0 .. Values[2] - 1
        <4>1. Values[2] = Units /\ Units \in Nat
          BY UnitsIsNat, ValuesIs
        <4> QED BY <4>1 DEF Written
      <3> QED BY <3>1, <3>2
    <2>2. p \in Seq(Nat) /\ Len(p) = 2
      <3>1. p \in Seq(0 .. Base - 1) /\ Len(p) = 2 /\ p[1] \in Nat /\ p[2] \in Nat
        BY <2>1, PutTwo
      <3> HIDE DEF p
      <3>2. p = [j \in 1 .. 2 |-> p[j]]
        BY <3>1
      <3>3. p \in [1 .. 2 -> Nat]
        BY <3>1, <3>2
      <3> QED BY <3>3, FunctionSeq
    <2>3. GetUint(p) = u[i]
      BY <2>1, GetPut
    <2>4. /\ start \in Nat /\ start + 2 <= n
          /\ start + 1 = pos + 2 * i - 1 /\ start + 2 = pos + 2 * i
          /\ pos + (2 * i - 1) = start + 1 /\ pos + 2 * i = start + 2
          /\ 2 * i - 1 \in 1 .. 2 * m + 2 /\ 2 * i \in 1 .. 2 * m + 2
      BY <1>1, <1>2
    <2>5. data[start + 1] = p[1] /\ data[start + 2] = p[2]
      <3>1. data[pos + (2 * i - 1)] = b[2 * i - 1] /\ data[pos + 2 * i] = b[2 * i]
        BY <1>3, <2>4
      <3>2. b[2 * i - 1] = p[1] /\ b[2 * i] = p[2]
        BY <1>1
      <3> HIDE DEF start, p
      <3> QED BY <2>4, <3>1, <3>2
    <2> HIDE DEF p, start
    <2>6. \A j \in 1 .. 2 : data[start + j] = p[j]
      BY <2>5
    <2>7. SubSeq(data, start + 1, start + 2) = p
      BY <2>2, <2>4, <2>6, PieceIs DEF n
    <2> QED BY <2>3, <2>4, <2>7
  <1>10. [i \in 1 .. m |-> unit(i)] = u
    <2>1. u = [i \in 1 .. m |-> u[i]]
      BY <1>1 DEF m
    <2> HIDE DEF u, unit
    <2> QED BY <1>9, <2>1
  <1>11. (2 * m) \div 2 = m /\ pos + 2 * m + 2 = pos + Len(b)
    BY <1>1
  <1>12. ReadString(data, pos) =
           [ok |-> TRUE, pos |-> pos + 2 * m + 2, val |-> Decode([i \in 1 .. m |-> unit(i)])]
    <2>1. ReadString(data, pos) =
            [ok |-> TRUE, pos |-> pos + Min(T) + 2,
             val |-> Decode([i \in 1 .. Min(T) \div 2 |-> unit(i)])]
      BY <1>8 DEF ReadString
    <2> HIDE DEF T, unit
    <2> QED BY <1>8, <1>11, <2>1
  <1>13. SkipString(data, pos).pos = pos + 2 * m + 2
    <2>1. SkipString(data, pos) = [ok |-> TRUE, pos |-> pos + Min(T) + 2]
      BY <1>8 DEF SkipString
    <2> HIDE DEF T
    <2> QED BY <1>8, <2>1
  <1> HIDE DEF unit, u
  <1> QED BY <1>6, <1>10, <1>11, <1>12, <1>13 DEF b

\* A string with its end cut off is refused.
LEMMA ReadStringCut ==
    ASSUME NEW data \in Seq(Nat), NEW pos \in Nat, NEW s \in Seq(CodePoints),
           Agree(data, pos, StringBytes(s)), Len(data) < pos + Len(StringBytes(s))
    PROVE  ~ReadString(data, pos).ok
  <1> DEFINE m == Len(CodeUnits(s))
  <1>1. m \in Nat /\ Len(StringBytes(s)) = 2 * m + 2 /\ Len(data) \in Nat
    BY StringBytesIs
  <1>2. ASSUME NEW i \in Terminators(data, pos) PROVE FALSE
    <2>1. 2 * m <= i
      BY NoEarlierTerminator
    <2>2. i \in 0 .. Len(data) - pos - 2
      BY DEF Terminators
    <2> HIDE DEF m
    <2> QED BY <1>1, <2>1, <2>2
  <1>3. ReadString(data, pos) = OutOfBounds
    BY <1>2 DEF ReadString
  <1> QED BY <1>3 DEF OutOfBounds

----
\* Concatenation is associative.
LEMMA BytesAssociative ==
    ASSUME NEW a \in Seq(Nat), NEW b \in Seq(Nat), NEW c \in Seq(Nat)
    PROVE  (a \o b) \o c = a \o (b \o c)
  BY ConcatAssociative, SMTT(30)

\* Concatenations of bytes, position by position.
LEMMA Concatenations ==
    ASSUME NEW a \in Seq(Nat), NEW b \in Seq(Nat)
    PROVE  /\ a \o b \in Seq(Nat) /\ Len(a \o b) = Len(a) + Len(b)
           /\ \A i \in 1 .. Len(a) : (a \o b)[i] = a[i]
           /\ \A j \in 1 .. Len(a) + Len(b) : j > Len(a) => (a \o b)[j] = b[j - Len(a)]
  <1>1. a \o b \in Seq(Nat) /\ Len(a \o b) = Len(a) + Len(b)
    OBVIOUS
  <1>2. ASSUME NEW i \in 1 .. Len(a) PROVE (a \o b)[i] = a[i]
    OBVIOUS
  <1>3. ASSUME NEW j \in 1 .. Len(a) + Len(b), j > Len(a) PROVE (a \o b)[j] = b[j - Len(a)]
    BY <1>3
  <1> QED BY <1>1, <1>2, <1>3

\* An integer is read as it was written; one with its end cut off is refused.
LEMMA ReadIntAt ==
    ASSUME NEW data \in Seq(Nat), NEW pos \in Nat, NEW n \in 1 .. 8,
           NEW v, [n |-> n, v |-> v] \in Integral(n)
    PROVE  /\ PutUint(ToUnsigned(v, n), n) \in Seq(Nat)
           /\ Len(PutUint(ToUnsigned(v, n), n)) = n
           /\ At(data, pos, PutUint(ToUnsigned(v, n), n)) =>
                 ReadInt(data, pos, n) = [ok |-> TRUE, pos |-> pos + n, val |-> v]
           /\ Len(data) < pos + n => ~ReadInt(data, pos, n).ok
  <1> DEFINE u == ToUnsigned(v, n)  p == PutUint(u, n)
  <1>1. u \in 0 .. Values[n] - 1 /\ (IF n = 1 THEN u ELSE ToSigned(u, n)) = v
    BY SignedBack
  <1>2. u \in Nat /\ n \in 0 .. 8 /\ n \in Nat
    BY <1>1
  <1>3. p \in Seq(0 .. Base - 1) /\ Len(p) = n
    BY <1>2, PutUintTyped
  <1>4. GetUint(p) = u
    BY <1>1, <1>2, GetPut
  <1> HIDE DEF u, p
  <1>5. p \in Seq(Nat)
    <2> DEFINE B == 0 .. Base - 1
    <2>1. p \in Seq(B) /\ B \subseteq Nat
      BY <1>3, BaseAssumption
    <2> HIDE DEF B
    <2>2. p \in [1 .. n -> B]
      BY <1>2, <1>3, <2>1
    <2>3. p \in [1 .. n -> Nat]
      BY <2>1, <2>2
    <2> QED BY <1>2, <2>3, FunctionSeq
  <1>6. ASSUME At(data, pos, p)
        PROVE  ReadInt(data, pos, n) = [ok |-> TRUE, pos |-> pos + n, val |-> v]
    <2>1. pos + n <= Len(data) /\ Len(data) \in Nat
      BY <1>3, <1>6 DEF At
    <2>2. ASSUME NEW j \in 1 .. n PROVE data[pos + j] = p[j]
      <3>1. pos + j <= Len(data)
        BY <1>2, <2>1
      <3> QED BY <1>3, <1>6, <3>1 DEF At, Agree
    <2>3. SubSeq(data, pos + 1, pos + n) = p
      BY <1>3, <1>5, <2>1, <2>2, PieceIs
    <2>4. ~(pos + n > Len(data))
      BY <1>2, <2>1
    <2> QED BY <1>1, <1>4, <2>3, <2>4 DEF ReadInt
  <1>7. ASSUME Len(data) < pos + n PROVE ~ReadInt(data, pos, n).ok
    <2>1. pos + n > Len(data)
      BY <1>2, <1>7
    <2> QED BY <2>1 DEF ReadInt, OutOfBounds
  <1> QED BY <1>3, <1>5, <1>6, <1>7 DEF p, u

\* A field is a string of code points or an integer of 1 to 8 bytes.
LEMMA FieldIs ==
    ASSUME NEW f \in Fields
    PROVE  \/ f.n = 0 /\ f.v \in Seq(CodePoints)
           \/ f.n # 0 /\ f.n \in 1 .. 8 /\ [n |-> f.n, v |-> f.v] \in Integral(f.n)
  <1>1. CASE f \in Strings
    <2>1. f.n = 0 /\ f.v \in BoundedSeq(Alphabet, MaxString)
      BY <1>1 DEF Strings
    <2>2. PICK m \in 0 .. MaxString : f.v \in [1 .. m -> Alphabet]
      BY <2>1 DEF BoundedSeq, SeqOf
    <2>3. m \in Nat /\ f.v \in [1 .. m -> CodePoints]
      BY <2>2, AlphabetAssumption
    <2> QED BY <2>1, <2>3, FunctionSeq
  <1>2. CASE \E n \in IntSizes : f \in Integral(n)
    <2>1. PICK n \in IntSizes : f \in Integral(n)
      BY <1>2
    <2>2. n \in 1 .. 8 /\ n # 0
      BY IntSizesAssumption
    <2>3. f.n = n /\ f = [n |-> f.n, v |-> f.v]
      BY <2>1 DEF Integral
    <2> QED BY <2>1, <2>2, <2>3
  <1> QED BY <1>1, <1>2 DEF Fields

\* WriteField appends the bytes of the field.
LEMMA FieldBytesIs ==
    ASSUME NEW f \in Fields, NEW data \in Seq(Nat)
    PROVE  FieldBytes(f) \in Seq(Nat) /\ WriteField(data, f) = data \o FieldBytes(f)
  <1>1. CASE f.n = 0 /\ f.v \in Seq(CodePoints)
    <2> DEFINE x == UnitBytes(CodeUnits(f.v))  z == <<0, 0>>
    <2>1. x \in Seq(Nat)
      BY <1>1, DecodeCodeUnits, UnitBytesIs
    <2>2. z \in Seq(Nat)
      OBVIOUS
    <2>3. FieldBytes(f) = x \o z
      BY <1>1 DEF FieldBytes, StringBytes
    <2>4. WriteField(data, f) = (data \o x) \o z
      BY <1>1 DEF WriteField, WriteString
    <2> HIDE DEF x, z
    <2>5. (data \o x) \o z = data \o (x \o z)
      BY <2>1, <2>2, BytesAssociative
    <2> QED BY <2>1, <2>2, <2>3, <2>4, <2>5
  <1>2. CASE f.n # 0 /\ f.n \in 1 .. 8 /\ [n |-> f.n, v |-> f.v] \in Integral(f.n)
    <2>1. PutUint(ToUnsigned(f.v, f.n), f.n) \in Seq(Nat)
      BY <1>2, ReadIntAt
    <2> QED BY <1>2, <2>1 DEF FieldBytes, WriteField, WriteInt
  <1> QED BY <1>1, <1>2, FieldIs

\* Any field.
LEMMA ReadFieldAt ==
    ASSUME NEW f \in Fields, NEW data \in Seq(Nat), NEW pos \in Nat
    PROVE  /\ At(data, pos, FieldBytes(f)) =>
                 /\ ReadField(data, pos, f) =
                      [ok |-> TRUE, pos |-> pos + Len(FieldBytes(f)), val |-> f.v]
                 /\ f.n = 0 => SkipString(data, pos).pos = ReadString(data, pos).pos
           /\ Agree(data, pos, FieldBytes(f)) /\ Len(data) < pos + Len(FieldBytes(f)) =>
                 ~ReadField(data, pos, f).ok
  <1>1. CASE f.n = 0 /\ f.v \in Seq(CodePoints)
    <2>1. FieldBytes(f) = StringBytes(f.v) /\ ReadField(data, pos, f) = ReadString(data, pos)
      BY <1>1 DEF FieldBytes, ReadField
    <2>2. ASSUME At(data, pos, StringBytes(f.v))
          PROVE  /\ ReadString(data, pos) =
                      [ok |-> TRUE, pos |-> pos + Len(StringBytes(f.v)), val |-> f.v]
                 /\ SkipString(data, pos).pos = pos + Len(StringBytes(f.v))
      BY <1>1, <2>2, ReadStringAt
    <2>3. ASSUME Agree(data, pos, StringBytes(f.v)), Len(data) < pos + Len(StringBytes(f.v))
          PROVE  ~ReadString(data, pos).ok
      BY <1>1, <2>3, ReadStringCut
    <2> QED BY <2>1, <2>2, <2>3
  <1>2. CASE f.n # 0 /\ f.n \in 1 .. 8 /\ [n |-> f.n, v |-> f.v] \in Integral(f.n)
    <2> DEFINE n == f.n  v == f.v  p == PutUint(ToUnsigned(v, n), n)
    <2>1. FieldBytes(f) = p /\ ReadField(data, pos, f) = ReadInt(data, pos, n)
      BY <1>2 DEF FieldBytes, ReadField
    <2>2. /\ Len(p) = n
          /\ At(data, pos, p) => ReadInt(data, pos, n) = [ok |-> TRUE, pos |-> pos + n, val |-> v]
          /\ Len(data) < pos + n => ~ReadInt(data, pos, n).ok
      <3>1. n \in 1 .. 8 /\ [n |-> n, v |-> v] \in Integral(n)
        BY <1>2
      <3> HIDE DEF n, v
      <3>2. Len(p) = n
        BY <3>1, ReadIntAt
      <3>3. At(data, pos, p) => ReadInt(data, pos, n) = [ok |-> TRUE, pos |-> pos + n, val |-> v]
        BY <3>1, ReadIntAt
      <3>4. Len(data) < pos + n => ~ReadInt(data, pos, n).ok
        BY <3>1, ReadIntAt
      <3> QED BY <3>2, <3>3, <3>4
    <2> HIDE DEF p
    <2> QED BY <1>2, <2>1, <2>2
  <1> QED BY <1>1, <1>2, FieldIs

\* Two fields: read back to the last byte, refused when any byte is missing.
LEMMA ReadTwoBack ==
    ASSUME NEW f \in Fields, NEW g \in Fields,
           NEW bytes, bytes = WriteField(WriteField(<<>>, f), g)
    PROVE  /\ ReadTwo(bytes, f, g) = [ok |-> TRUE, pos |-> Len(bytes), val |-> <<f.v, g.v>>]
           /\ f.n = 0 => SkipString(bytes, 0).pos = ReadString(bytes, 0).pos
           /\ \A cut \in 0 .. Len(bytes) - 1 : ~ReadTwo(SubSeq(bytes, 1, cut), f, g).ok
  <1> DEFINE x == FieldBytes(f)  y == FieldBytes(g)  m == Len(x)  k == Len(y)
  <1>1. x \in Seq(Nat) /\ y \in Seq(Nat) /\ bytes = x \o y
    <2>1. <<>> \in Seq(Nat)
      OBVIOUS
    <2>2. x \in Seq(Nat) /\ WriteField(<<>>, f) = <<>> \o x
      BY <2>1, FieldBytesIs
    <2>3. <<>> \o x = x
      BY <2>2, ConcatEmptySeq
    <2>4. y \in Seq(Nat) /\ WriteField(x, g) = x \o y
      BY <2>2, FieldBytesIs
    <2> HIDE DEF x, y
    <2> QED BY <2>2, <2>3, <2>4
  <1> HIDE DEF x, y
  <1>2. /\ m \in Nat /\ k \in Nat /\ bytes \in Seq(Nat) /\ Len(bytes) = m + k
        /\ \A i \in 1 .. m : bytes[i] = x[i]
        /\ \A i \in 1 .. k : bytes[m + i] = y[i]
    <2>1. m \in Nat /\ k \in Nat /\ bytes \in Seq(Nat) /\ Len(bytes) = m + k
      <3>1. m \in Nat /\ k \in Nat
        BY <1>1
      <3>2. bytes \in Seq(Nat) /\ Len(bytes) = m + k
        BY <1>1, Concatenations
      <3> QED BY <3>1, <3>2
    <2>2. ASSUME NEW i \in 1 .. m PROVE bytes[i] = x[i]
      BY <1>1, Concatenations
    <2>3. ASSUME NEW j \in 1 .. m + k, j > m PROVE bytes[j] = y[j - m]
      BY <1>1, <2>3, Concatenations
    <2> HIDE DEF m, k
    <2>4. ASSUME NEW i \in 1 .. k PROVE bytes[m + i] = y[i]
      <3>1. m + i \in 1 .. m + k /\ m + i > m /\ (m + i) - m = i
        BY <2>1
      <3> QED BY <2>3, <3>1
    <2> QED BY <2>1, <2>2, <2>4
  <1> HIDE DEF m, k
  <1>3. At(bytes, 0, x) /\ At(bytes, m, y)
    BY <1>2 DEF At, Agree, m, k
  <1>4. ReadField(bytes, 0, f) = [ok |-> TRUE, pos |-> m, val |-> f.v]
        /\ (f.n = 0 => SkipString(bytes, 0).pos = ReadString(bytes, 0).pos)
    <2>1. 0 \in Nat /\ 0 + m = m
      BY <1>2
    <2> QED BY <1>2, <1>3, <2>1, ReadFieldAt DEF x, m
  <1>5. ReadField(bytes, m, g) = [ok |-> TRUE, pos |-> m + k, val |-> g.v]
    BY <1>2, <1>3, ReadFieldAt DEF y, k
  <1>6. ReadTwo(bytes, f, g) = [ok |-> TRUE, pos |-> Len(bytes), val |-> <<f.v, g.v>>]
    <2> DEFINE first == ReadField(bytes, 0, f)  second == ReadField(bytes, first.pos, g)
    <2>1. first.ok /\ first.pos = m /\ first.val = f.v
      BY <1>4
    <2> HIDE DEF first
    <2>2. second.ok /\ second.pos = m + k /\ second.val = g.v
      BY <1>5, <2>1
    <2> HIDE DEF second
    <2>3. ReadTwo(bytes, f, g) =
            [ok |-> TRUE, pos |-> second.pos, val |-> <<first.val, second.val>>]
      BY <2>1, <2>2 DEF ReadTwo, first, second
    <2> QED BY <1>2, <2>1, <2>2, <2>3
  <1>7. ASSUME NEW cut \in 0 .. Len(bytes) - 1 PROVE ~ReadTwo(SubSeq(bytes, 1, cut), f, g).ok
    <2> DEFINE c == SubSeq(bytes, 1, cut)
    <2>1. cut \in Nat /\ cut < m + k
      BY <1>2
    <2>2. c \in Seq(Nat) /\ Len(c) = cut /\ \A i \in 1 .. cut : c[i] = bytes[i]
      BY <1>2, <2>1
    <2> HIDE DEF c
    <2>3. Agree(c, 0, x) /\ Agree(c, m, y)
      <3>1. ASSUME NEW i \in 1 .. m, 0 + i <= cut PROVE c[0 + i] = x[i]
        <4>1. 0 + i = i /\ i \in 1 .. cut
          BY <1>2, <2>1, <3>1
        <4> QED BY <1>2, <2>2, <4>1
      <3>2. ASSUME NEW i \in 1 .. k, m + i <= cut PROVE c[m + i] = y[i]
        <4>1. m + i \in 1 .. cut
          BY <1>2, <2>1, <3>2
        <4> QED BY <1>2, <2>2, <4>1
      <3> QED BY <2>2, <3>1, <3>2 DEF Agree, m, k
    <2>4. CASE cut < m
      <3>1. Len(c) < 0 + m /\ 0 \in Nat
        BY <1>2, <2>1, <2>2, <2>4
      <3>2. ~ReadField(c, 0, f).ok
        BY <2>2, <2>3, <3>1, ReadFieldAt DEF x, m
      <3> QED BY <3>2 DEF ReadTwo, OutOfBounds, c
    <2>5. CASE ~(cut < m)
      <3>1. At(c, 0, x) /\ 0 \in Nat /\ 0 + m = m
        BY <1>2, <2>1, <2>2, <2>3, <2>5 DEF At, m
      <3>2. ReadField(c, 0, f) = [ok |-> TRUE, pos |-> m, val |-> f.v]
        BY <2>2, <3>1, ReadFieldAt DEF x, m
      <3>3. ~ReadField(c, m, g).ok
        <4>1. Len(c) < m + k
          BY <2>1, <2>2
        <4> QED BY <1>2, <2>2, <2>3, <4>1, ReadFieldAt DEF y, k
      <3> QED BY <3>2, <3>3 DEF ReadTwo, OutOfBounds, c
    <2> QED BY <2>4, <2>5
  <1> QED BY <1>4, <1>6, <1>7

----
(***************************************************************************)
(* RSA by the Chinese remainder theorem.                                   *)
(***************************************************************************)
\* The powers modulo m are residues, each the one before times b.
LEMMA PowersAre ==
    ASSUME NEW b \in Nat, NEW e \in Nat, NEW m \in Nat \ {0}
    PROVE  /\ Powers(b, e, m)[0] = 1 % m
           /\ \A i \in 1 .. e : Powers(b, e, m)[i] = (Powers(b, e, m)[i - 1] * b) % m
           /\ \A i \in 0 .. e : Powers(b, e, m)[i] \in 0 .. m - 1
  <1> DEFINE S == 0 .. m - 1
             g == [ik \in Nat \X S |-> (ik[2] * b) % m]
  <1>1. 1 % m \in S /\ \A a \in S : (a * b) % m \in S
    <2>1. \A x \in Nat : x % m \in S
      OBVIOUS
    <2>2. \A a \in S : a * b \in Nat
      <3>1. \A x, y \in Nat : x * y \in Nat
        OBVIOUS
      <3> QED BY <3>1
    <2> QED BY <2>1, <2>2
  <1> HIDE DEF S
  <1>2. g \in [Nat \X S -> S]
    BY <1>1
  <1>3. PICK f \in [0 .. e -> S] : Iterates(f, 1 % m, g, e)
    <2> HIDE DEF g
    <2> QED BY <1>1, <1>2, RecursionExists
  <1>4. \A i \in 1 .. e : f[i] = (f[i - 1] * b) % m
    <2> SUFFICES ASSUME NEW i \in 1 .. e PROVE f[i] = (f[i - 1] * b) % m
      OBVIOUS
    <2>1. f[i] = g[<<i, f[i - 1]>>]
      <3> HIDE DEF g
      <3> QED BY <1>3 DEF Iterates
    <2>2. i \in Nat /\ f[i - 1] \in S
      BY <1>3
    <2> QED BY <2>1, <2>2
  <1>5. f[0] = 1 % m
    BY <1>3 DEF Iterates
  <1>6. f = [i \in 0 .. e |-> IF i = 0 THEN 1 % m ELSE (f[i - 1] * b) % m]
    BY <1>3, <1>4, <1>5
  <1> DEFINE power == Powers(b, e, m)
  <1>7. power = CHOOSE s : s = [i \in 0 .. e |-> IF i = 0 THEN 1 % m ELSE (s[i - 1] * b) % m]
    BY DEF Powers
  <1>8. power = [i \in 0 .. e |-> IF i = 0 THEN 1 % m ELSE (power[i - 1] * b) % m]
    BY <1>6, <1>7
  <1> HIDE DEF power
  <1>9. power[0] = 1 % m /\ \A i \in 1 .. e : power[i] = (power[i - 1] * b) % m
    BY <1>8
  <1> DEFINE P == {i \in Nat : i <= e => power[i] \in S}
  <1>10. 0 \in P
    BY <1>1, <1>9
  <1>11. ASSUME NEW i \in P PROVE i + 1 \in P
    <2> SUFFICES ASSUME i + 1 <= e PROVE power[i + 1] \in S
      OBVIOUS
    <2>1. power[i] \in S
      OBVIOUS
    <2>2. i + 1 \in 1 .. e /\ (i + 1) - 1 = i
      OBVIOUS
    <2>3. power[i + 1] = (power[i] * b) % m
      BY <1>9, <2>2
    <2> QED BY <1>1, <2>1, <2>3
  <1>12. P = Nat
    <2>1. P \in SUBSET Nat
      OBVIOUS
    <2> HIDE DEF P
    <2> QED BY <1>10, <1>11, <2>1, SetInduction
  <1>13. \A i \in 0 .. e : power[i] \in S
    <2> SUFFICES ASSUME NEW i \in 0 .. e PROVE power[i] \in S
      OBVIOUS
    <2>1. i \in P /\ i <= e
      <3> HIDE DEF P
      <3> QED BY <1>12
    <2> QED BY <2>1
  <1> QED BY <1>9, <1>13 DEF power, S

\* Equal residues.
Congruent(x, y, n) == \E t \in Int : x = y + n * t

\* A residue is congruent to one number below the modulus.
LEMMA ResidueIs ==
    ASSUME NEW n \in Nat \ {0}, NEW x \in Int, NEW y \in 0 .. n - 1, Congruent(x, y, n)
    PROVE  x % n = y
  <1>1. PICK t \in Int : x = y + n * t
    BY DEF Congruent
  <1>2. x = n * t + y
    BY <1>1
  <1> QED BY <1>2, DivModUnique

\* A number is congruent to its residue.
LEMMA ResidueCongruent ==
    ASSUME NEW n \in Nat \ {0}, NEW x \in Int
    PROVE  x % n \in 0 .. n - 1 /\ x \div n \in Int /\ Congruent(x, x % n, n)
  <1> DEFINE q == x \div n  r == x % n
  <1>1. q \in Int /\ r \in 0 .. n - 1 /\ x = n * q + r
    BY DivMod
  <1> HIDE DEF q, r
  <1>2. x = r + n * q
    BY <1>1
  <1>3. Congruent(x, r, n)
    BY <1>1, <1>2 DEF Congruent
  <1> QED BY <1>1, <1>3 DEF q, r

\* Congruence modulo a multiple of n is congruence modulo n.
LEMMA CongruentDown ==
    ASSUME NEW n \in Int, NEW k \in Int, NEW x \in Int, NEW y \in Int, Congruent(x, y, n * k)
    PROVE  Congruent(x, y, n)
  <1>1. PICK t \in Int : x = y + (n * k) * t
    BY DEF Congruent
  <1>2. x = y + n * (k * t) /\ k * t \in Int
    BY <1>1
  <1> QED BY <1>2 DEF Congruent

\* Congruence is transitive,
LEMMA CongruentTrans ==
    ASSUME NEW n \in Int, NEW x \in Int, NEW y \in Int, NEW z \in Int,
           Congruent(x, y, n), Congruent(y, z, n)
    PROVE  Congruent(x, z, n)
  <1>1. PICK s \in Int : x = y + n * s
    BY DEF Congruent
  <1>2. PICK t \in Int : y = z + n * t
    BY DEF Congruent
  <1>3. x = z + n * (s + t) /\ s + t \in Int
    BY <1>1, <1>2
  <1> QED BY <1>3 DEF Congruent

\* symmetric,
LEMMA CongruentSym ==
    ASSUME NEW n \in Int, NEW x \in Int, NEW y \in Int, Congruent(x, y, n)
    PROVE  Congruent(y, x, n)
  <1>1. PICK s \in Int : x = y + n * s
    BY DEF Congruent
  <1>2. y = x + n * (-s) /\ -s \in Int
    BY <1>1
  <1> QED BY <1>2 DEF Congruent

\* and kept by products.
LEMMA CongruentProduct ==
    ASSUME NEW n \in Int, NEW x \in Int, NEW y \in Int, NEW u \in Int, NEW v \in Int,
           Congruent(x, y, n), Congruent(u, v, n)
    PROVE  Congruent(x * u, y * v, n)
  <1>1. PICK s \in Int : x = y + n * s
    BY DEF Congruent
  <1>2. PICK t \in Int : u = v + n * t
    BY DEF Congruent
  <1> DEFINE r == y * t + s * v + n * (s * t)
  <1>3. r \in Int
    OBVIOUS
  <1>4. x * u = y * v + n * r
    BY <1>1, <1>2
  <1> HIDE DEF r
  <1> QED BY <1>3, <1>4 DEF Congruent

----
\* A power modulo a multiple of n, reduced modulo n, is the power modulo n of
\* the reduced base.
LEMMA PowModReduced ==
    ASSUME NEW c \in Nat, NEW e \in Nat, NEW n \in Nat \ {0}, NEW k \in Nat \ {0}
    PROVE  PowMod(c % (n * k), e, n * k) % n = PowMod(c % n, e, n)
  <1> DEFINE m == n * k
  <1>0. m \in Nat \ {0} /\ m = n * k
    <2>1. \A x, y \in Nat \ {0} : x * y \in Nat \ {0}
      OBVIOUS
    <2> QED BY <2>1
  <1> HIDE DEF m
  <1> DEFINE b == c % m  a == c % n
             x == Powers(b, e, m)  y == Powers(a, e, n)
  <1>1. b \in 0 .. m - 1 /\ a \in 0 .. n - 1 /\ Congruent(c, b, m) /\ Congruent(c, a, n)
    BY <1>0, ResidueCongruent
  <1>2. b \in Nat /\ a \in Nat
    BY <1>1
  <1> HIDE DEF a, b
  <1>3. ASSUME NEW u \in Int, NEW v \in Int, Congruent(u, v, m) PROVE Congruent(u, v, n)
    BY <1>0, <1>3, CongruentDown
  <1>4. Congruent(b, a, n)
    <2>1. Congruent(c, b, n)
      BY <1>1, <1>2, <1>3
    <2>2. Congruent(b, c, n)
      BY <1>2, <2>1, CongruentSym
    <2> QED BY <1>1, <1>2, <2>2, CongruentTrans
  <1>5. /\ x[0] = 1 % m /\ \A i \in 1 .. e : x[i] = (x[i - 1] * b) % m
        /\ \A i \in 0 .. e : x[i] \in 0 .. m - 1
    BY <1>0, <1>2, PowersAre
  <1>6. /\ y[0] = 1 % n /\ \A i \in 1 .. e : y[i] = (y[i - 1] * a) % n
        /\ \A i \in 0 .. e : y[i] \in 0 .. n - 1
    BY <1>2, PowersAre
  <1>7. PowMod(b, e, m) = x[e] /\ PowMod(a, e, n) = y[e]
    BY DEF PowMod
  <1> HIDE DEF x, y
  \* The residues modulo m and modulo n of congruent numbers are congruent.
  <1>8. ASSUME NEW u \in Int, NEW v \in Int, Congruent(u, v, n)
        PROVE  Congruent(u % m, v % n, n)
    <2>1. u % m \in Int /\ v % n \in Int /\ Congruent(u, u % m, m) /\ Congruent(v, v % n, n)
      <3>1. u % m \in 0 .. m - 1 /\ v % n \in 0 .. n - 1
        BY <1>0, ResidueCongruent
      <3>2. Congruent(u, u % m, m) /\ Congruent(v, v % n, n)
        BY <1>0, ResidueCongruent
      <3> QED BY <3>1, <3>2
    <2>2. Congruent(u, u % m, n)
      BY <1>3, <2>1
    <2> DEFINE ru == u % m  rv == v % n
    <2>3. ru \in Int /\ rv \in Int /\ Congruent(u, ru, n) /\ Congruent(v, rv, n)
      BY <2>1, <2>2
    <2> HIDE DEF ru, rv
    <2>4. Congruent(ru, u, n) /\ Congruent(u, rv, n)
      BY <1>8, <2>3, CongruentSym, CongruentTrans
    <2>5. Congruent(ru, rv, n)
      BY <2>3, <2>4, CongruentTrans
    <2> QED BY <2>5 DEF ru, rv
  <1> DEFINE P == {i \in Nat : i <= e => Congruent(x[i], y[i], n)}
  <1>9. 0 \in P
    <2>1. Congruent(1, 1, n)
      <3>1. 1 = 1 + n * 0
        OBVIOUS
      <3> QED BY <3>1 DEF Congruent
    <2> QED BY <1>5, <1>6, <1>8, <2>1
  <1>10. ASSUME NEW i \in P PROVE i + 1 \in P
    <2> SUFFICES ASSUME i + 1 <= e PROVE Congruent(x[i + 1], y[i + 1], n)
      OBVIOUS
    <2>1. Congruent(x[i], y[i], n)
      OBVIOUS
    <2>2. i + 1 \in 1 .. e /\ (i + 1) - 1 = i /\ i \in 0 .. e
      OBVIOUS
    <2>3. x[i + 1] = (x[i] * b) % m /\ y[i + 1] = (y[i] * a) % n
      BY <1>5, <1>6, <2>2
    <2>4. x[i] \in Int /\ y[i] \in Int
      BY <1>5, <1>6, <2>2
    <2>5. Congruent(x[i] * b, y[i] * a, n)
      <3> DEFINE u == x[i]  v == y[i]
      <3>1. u \in Int /\ v \in Int /\ a \in Int /\ b \in Int /\ n \in Int
        BY <1>2, <2>4
      <3>2. Congruent(u, v, n)
        BY <2>1
      <3> HIDE DEF u, v
      <3>3. Congruent(u * b, v * a, n)
        BY <1>4, <3>1, <3>2, CongruentProduct
      <3> QED BY <3>3 DEF u, v
    <2>6. x[i] * b \in Int /\ y[i] * a \in Int
      BY <1>2, <2>4
    <2>7. Congruent((x[i] * b) % m, (y[i] * a) % n, n)
      BY <1>8, <2>5, <2>6
    <2> QED BY <2>3, <2>7
  <1>11. P = Nat
    <2>1. P \in SUBSET Nat
      OBVIOUS
    <2> HIDE DEF P
    <2> QED BY <1>9, <1>10, <2>1, SetInduction
  <1>12. Congruent(x[e], y[e], n) /\ x[e] \in Int /\ y[e] \in 0 .. n - 1
    <2>1. e \in P /\ e <= e
      <3> HIDE DEF P
      <3> QED BY <1>11
    <2> QED BY <1>5, <1>6, <2>1
  <1>13. x[e] % n = y[e]
    BY <1>12, ResidueIs
  <1>14. PowMod(b, e, m) % n = PowMod(a, e, n)
    BY <1>7, <1>13
  <1> QED BY <1>14 DEF a, b, m

\* Two ways to write the same number.
LEMMA SumsDiffer ==
    ASSUME NEW a \in Int, NEW b \in Int, NEW c \in Int, NEW d \in Int, NEW e \in Int,
           a + b = c + d
    PROVE  b - d + e = c - a + e
  OBVIOUS

\* The two residues of w determine it: Garner's recombination.
LEMMA Recombined ==
    ASSUME NEW p \in Nat \ {0}, NEW q \in Nat \ {0}, NEW w \in 0 .. p * q - 1,
           NEW qinv \in Int, (q * qinv) % p = 1,
           NEW m1, m1 = w % p, NEW m2, m2 = w % q,
           NEW diff \in Int, diff = m1 - m2 \/ diff = m1 - m2 + p
    PROVE  ((diff * qinv) % p) * q + m2 = w
  <1> DEFINE a == w \div p  h == w \div q  x == q * qinv  s == x \div p
  <1>0. w \in Int /\ x \in Int
    OBVIOUS
  <1>1. a \in Int /\ m1 \in Int /\ w = p * a + m1
    BY <1>0, DivMod
  <1>2. h \in Int /\ m2 \in Int /\ m2 \in 0 .. q - 1 /\ w = q * h + m2
    BY <1>0, DivMod
  <1>3. s \in Int /\ x = p * s + 1
    <2> HIDE DEF x
    <2>1. x % p = 1
      BY DEF x
    <2> DEFINE r == x % p
    <2>2. s \in Int /\ x = p * s + r
      BY <1>0, DivMod
    <2> QED BY <2>1, <2>2
  <1>4. h \in 0 .. p - 1
    <2> HIDE DEF h
    <2>1. w >= 0 /\ w < p * q
      OBVIOUS
    <2>2. h >= 0
      <3>1. ASSUME h <= -1 PROVE FALSE
        <4>1. q * h <= q * (-1)
          BY <1>2, <3>1
        <4> QED BY <1>2, <2>1, <4>1
      <3> QED BY <1>2, <3>1
    <2>3. h < p
      <3>1. ASSUME h >= p PROVE FALSE
        <4>1. q * h >= q * p
          BY <1>2, <3>1
        <4> QED BY <1>2, <2>1, <4>1
      <3> QED BY <1>2, <3>1
    <2> QED BY <1>2, <2>2, <2>3
  <1>5. PICK e \in Int : diff = m1 - m2 + p * e
    <2>1. diff = m1 - m2 + p * 0 \/ diff = m1 - m2 + p * 1
      BY <1>1, <1>2
    <2>2. 0 \in Int /\ 1 \in Int
      OBVIOUS
    <2> QED BY <2>1, <2>2
  <1> DEFINE t == h * s + (e - a) * qinv
  <1> HIDE DEF a, h, s
  <1>6. t \in Int
    BY <1>1, <1>2, <1>3
  <1>7. diff * qinv = p * t + h
    <2>1. diff = q * h - p * a + p * e
      <3> DEFINE pa == p * a  qh == q * h  pe == p * e
      <3>1. pa \in Int /\ qh \in Int /\ pe \in Int
        BY <1>1, <1>2
      <3>2. w = pa + m1 /\ w = qh + m2 /\ diff = m1 - m2 + pe
        BY <1>1, <1>2, <1>5
      <3> HIDE DEF pa, qh, pe
      <3>3. diff = qh - pa + pe
        <4>1. m1 \in Int /\ m2 \in Int /\ pa + m1 = qh + m2
          BY <1>1, <1>2, <3>2, Zenon
        <4>2. m1 - m2 + pe = qh - pa + pe
          BY <3>1, <4>1, SumsDiffer
        <4> QED BY <3>2, <4>2, Zenon
      <3> QED BY <3>3 DEF pa, qh, pe
    <2>2. q * qinv = p * s + 1
      BY <1>3
    <2>3. diff * qinv = h * (q * qinv) + p * ((e - a) * qinv)
      BY <1>1, <1>2, <2>1
    <2>4. h * (q * qinv) = p * (h * s) + h
      BY <1>2, <1>3, <2>2
    <2> DEFINE j == h * s  k == (e - a) * qinv
    <2>5. j \in Int /\ k \in Int /\ t = j + k
      BY <1>1, <1>2, <1>3
    <2>6. diff * qinv = (p * j + h) + p * k
      BY <2>3, <2>4
    <2> HIDE DEF j, k, t
    <2>7. p * t = p * j + p * k
      BY <2>5
    <2> QED BY <1>2, <2>5, <2>6, <2>7
  <1> HIDE DEF t
  <1>8. (diff * qinv) % p = h
    <2>1. diff * qinv \in Int
      OBVIOUS
    <2> DEFINE z == diff * qinv
    <2>2. z \in Int /\ z = p * t + h
      BY <1>7, <2>1
    <2> HIDE DEF z
    <2>3. z % p = h
      BY <1>4, <1>6, <2>2, DivModUnique
    <2> QED BY <2>3 DEF z
  <1> QED BY <1>2, <1>8

----
\* RSADecrypt computes the power modulo the product of the primes.
LEMMA DecryptIs ==
    ASSUME NEW p, NEW q, NEW d, NEW c \in Nat, IsRSAKey(p, q, d)
    PROVE  RSADecrypt(c, p, q, d) = PowMod(c % (p * q), d, p * q)
  <1> DEFINE m == p * q  w == PowMod(c % m, d, m)
             m1 == PowMod(c % p, d % (p - 1), p)
             m2 == PowMod(c % q, d % (q - 1), q)
             qinv == ModInverse(q, p)
             diff == IF m1 - m2 < 0 THEN m1 - m2 + p ELSE m1 - m2
  <1>1. /\ p \in Nat /\ q \in Nat /\ d \in Nat /\ p > 2 /\ q > 2
        /\ \E x \in 0 .. p - 1 : (q * x) % p = 1
        /\ \A b \in 0 .. p - 1 : PowMod(b, d % (p - 1), p) = PowMod(b, d, p)
        /\ \A b \in 0 .. q - 1 : PowMod(b, d % (q - 1), q) = PowMod(b, d, q)
    BY DEF IsRSAKey
  <1>2. p \in Nat \ {0} /\ q \in Nat \ {0} /\ m \in Nat \ {0} /\ m = p * q /\ m = q * p
    <2>1. p \in Nat \ {0} /\ q \in Nat \ {0} /\ p \in Int /\ q \in Int
      BY <1>1
    <2>2. \A x, y \in Nat \ {0} : x * y \in Nat \ {0} /\ x * y = y * x
      OBVIOUS
    <2> QED BY <2>1, <2>2
  <1>3. qinv \in Int /\ (q * qinv) % p = 1
    <2>1. qinv \in 0 .. p - 1 /\ (q * qinv) % p = 1
      BY <1>1 DEF ModInverse
    <2> QED BY <2>1
  <1>4. w \in 0 .. m - 1
    <2>1. c % m \in Nat
      <3> HIDE DEF m
      <3> QED BY <1>2
    <2> DEFINE b == c % m
    <2> HIDE DEF b, m
    <2>2. b \in Nat
      BY <2>1 DEF b
    <2>3. Powers(b, d, m)[d] \in 0 .. m - 1
      <3>1. d \in 0 .. d
        BY <1>1
      <3> QED BY <1>1, <1>2, <2>2, <3>1, PowersAre
    <2> QED BY <2>3 DEF PowMod, b
  <1>5. w % p = m1
    <2>1. PowMod(c % (p * q), d, p * q) % p = PowMod(c % p, d, p)
      BY <1>1, <1>2, PowModReduced, Zenon
    <2>2. w % p = PowMod(c % p, d, p)
      BY <1>2, <2>1, Zenon
    <2>3. c % p \in 0 .. p - 1
      BY <1>2
    <2> QED BY <1>1, <2>2, <2>3
  <1>6. w % q = m2
    <2>1. PowMod(c % (q * p), d, q * p) % q = PowMod(c % q, d, q)
      BY <1>1, <1>2, PowModReduced, Zenon
    <2>2. w % q = PowMod(c % q, d, q)
      BY <1>2, <2>1, Zenon
    <2>3. c % q \in 0 .. q - 1
      BY <1>2
    <2> QED BY <1>1, <2>2, <2>3
  <1> HIDE DEF w, m1, m2, qinv
  <1>7. m1 \in Int /\ m2 \in Int
    <2>1. w \in Int
      BY <1>2, <1>4
    <2>2. w % p \in Int /\ w % q \in Int
      BY <1>2, <2>1
    <2> QED BY <1>5, <1>6, <2>2
  <1>8. diff \in Int /\ (diff = m1 - m2 \/ diff = m1 - m2 + p)
    BY <1>2, <1>7
  <1> HIDE DEF diff
  <1>9. ((diff * qinv) % p) * q + m2 = w
    BY <1>2, <1>3, <1>4, <1>5, <1>6, <1>8, Recombined
  <1> QED BY <1>9 DEF RSADecrypt, w, m1, m2, qinv, diff

----
(***************************************************************************)
(* The theorems.  Each step calls one algorithm, so the invariants need no *)
(* strengthening but CipherUndone, whose tables are filled over many steps. *)
(***************************************************************************)
\* The connections of WirePackets behave as those of Wire: a call of an
\* algorithm is a stuttering step of it.
THEOREM PacketsRefineWire == PacketsSpec => Spec
  <1>1. PacketsInit => Init
    BY DEF PacketsInit
  <1>2. [PacketsNext]_packetVars => [Next]_vars
    BY DEF PacketsNext, packetVars, WireStep, Trial, FillTables, EncryptPayload
  <1> QED BY <1>1, <1>2, PTL DEF PacketsSpec, Spec

\* Encrypt and EncryptStatic pad to whole blocks and keep the last two words of
\* a first packet free, for a payload of any length.
THEOREM PaddingSparesHolds == PacketsSpec => []PaddingSpares
  <1>1. PacketsInit => PaddingSpares
    BY DEF PacketsInit, PaddingSpares, Tried
  <1>2. PaddingSpares /\ [PacketsNext]_packetVars => PaddingSpares'
    <2> SUFFICES ASSUME PaddingSpares, [PacketsNext]_packetVars PROVE PaddingSpares'
      OBVIOUS
    <2>1. CASE UNCHANGED trial
      BY <2>1 DEF PaddingSpares, Tried
    <2>2. ASSUME NEW op, NEW in, NEW result, Call(op, in, result), op # "pad" PROVE PaddingSpares'
      BY <2>2, CallSets DEF PaddingSpares
    <2>3. CASE PadPacket
      <3>1. PICK len \in 1 .. MaxPayload, reserve \in {12, 16} :
               Call("pad", <<len, reserve>>, PaddedSize(len, reserve))
        BY <2>3 DEF PadPacket
      <3>2. trial'.in = <<len, reserve>> /\ trial'.out = PaddedSize(len, reserve)
        BY <3>1, CallSets
      <3>3. len \in Nat /\ len >= 1
        BY PayloadAssumption
      <3>4. /\ PaddedSize(len, reserve) % 8 = 0
            /\ PaddedSize(len, reserve) >= len + reserve
            /\ reserve = 16 => PaddedSize(len, reserve) - 8 >= len
        BY <3>3 DEF PaddedSize
      <3> QED BY <3>2, <3>4 DEF PaddingSpares
    <2>4. CASE WritePacket \/ NewBlowfishCipher \/ XorFirstPacket \/ DecryptCredentials
               \/ DecodeUsername \/ ScrambleModulus \/ FillTables \/ EncryptPayload
      BY <2>2, <2>4 DEF WritePacket, NewBlowfishCipher, XorFirstPacket, DecryptCredentials,
         DecodeUsername, ScrambleModulus, FillTables, EncryptPayload
    <2> QED BY <2>1, <2>3, <2>4, TrialSteps DEF packetVars
  <1> QED BY <1>1, <1>2, PTL DEF PacketsSpec

\* The client can undo the XOR pass of any first packet, with any key.
THEOREM FirstPacketUndoneHolds == PacketsSpec => []FirstPacketUndone
  <1>1. PacketsInit => FirstPacketUndone
    BY DEF PacketsInit, FirstPacketUndone, Tried
  <1>2. FirstPacketUndone /\ [PacketsNext]_packetVars => FirstPacketUndone'
    <2> SUFFICES ASSUME FirstPacketUndone, [PacketsNext]_packetVars PROVE FirstPacketUndone'
      OBVIOUS
    <2>1. CASE UNCHANGED trial
      BY <2>1 DEF FirstPacketUndone, Tried
    <2>2. ASSUME NEW op, NEW in, NEW result, Call(op, in, result), op # "xor"
          PROVE  FirstPacketUndone'
      BY <2>2, CallSets DEF FirstPacketUndone
    <2>3. CASE XorFirstPacket
      <3>1. PICK raw \in FirstPackets, key \in Words : Call("xor", raw, EncXorPass(raw, key))
        BY <2>3 DEF XorFirstPacket
      <3>2. trial'.in = raw /\ trial'.out = EncXorPass(raw, key)
        BY <3>1, CallSets
      <3>3. \A i \in 1 .. Len(raw) - 2 : DecXorPass(EncXorPass(raw, key))[i] = raw[i]
        BY FirstPacketsAssumption, XorPassUndone
      <3> QED BY <3>2, <3>3 DEF FirstPacketUndone
    <2>4. CASE WritePacket \/ NewBlowfishCipher \/ PadPacket \/ DecryptCredentials
               \/ DecodeUsername \/ ScrambleModulus \/ FillTables \/ EncryptPayload
      BY <2>2, <2>4 DEF WritePacket, NewBlowfishCipher, PadPacket, DecryptCredentials,
         DecodeUsername, ScrambleModulus, FillTables, EncryptPayload
    <2> QED BY <2>1, <2>3, <2>4, TrialSteps DEF packetVars
  <1> QED BY <1>1, <1>2, PTL DEF PacketsSpec

\* The client gets the modulus back.
THEOREM ModulusRecoveredHolds == PacketsSpec => []ModulusRecovered
  <1>1. PacketsInit => ModulusRecovered
    BY DEF PacketsInit, ModulusRecovered, Tried
  <1>2. ModulusRecovered /\ [PacketsNext]_packetVars => ModulusRecovered'
    <2> SUFFICES ASSUME ModulusRecovered, [PacketsNext]_packetVars PROVE ModulusRecovered'
      OBVIOUS
    <2>1. CASE UNCHANGED trial
      BY <2>1 DEF ModulusRecovered, Tried
    <2>2. ASSUME NEW op, NEW in, NEW result, Call(op, in, result), op # "scramble"
          PROVE  ModulusRecovered'
      BY <2>2, CallSets DEF ModulusRecovered
    <2>3. CASE ScrambleModulus
      <3>1. Plain \in Moduli
        BY DEF Plain, Moduli, Positions
      <3>2. trial'.in = Plain /\ trial'.out = Scramble(Plain)
        BY <2>3, CallSets DEF ScrambleModulus
      <3>3. Unscramble(Scramble(Plain)) = Plain
        BY <3>1, ScrambleUndone
      <3> QED BY <3>2, <3>3 DEF ModulusRecovered
    <2>4. CASE WritePacket \/ NewBlowfishCipher \/ PadPacket \/ XorFirstPacket
               \/ DecryptCredentials \/ DecodeUsername \/ FillTables \/ EncryptPayload
      BY <2>2, <2>4 DEF WritePacket, NewBlowfishCipher, PadPacket, XorFirstPacket,
         DecryptCredentials, DecodeUsername, FillTables, EncryptPayload
    <2> QED BY <2>1, <2>3, <2>4, TrialSteps DEF packetVars
  <1> QED BY <1>1, <1>2, PTL DEF PacketsSpec

\* A user name that fits the two fields is decoded to its lower case, and one
\* with blanks never keeps them at its ends: for any name and field sizes.
THEOREM NameDecodedHolds == PacketsSpec => []NameDecoded
  <1>1. PacketsInit => NameDecoded
    BY DEF PacketsInit, NameDecoded, Tried
  <1>2. NameDecoded /\ [PacketsNext]_packetVars => NameDecoded'
    <2> SUFFICES ASSUME NameDecoded, [PacketsNext]_packetVars PROVE NameDecoded'
      OBVIOUS
    <2>1. CASE UNCHANGED trial
      BY <2>1 DEF NameDecoded, Tried
    <2>2. ASSUME NEW op, NEW in, NEW result, Call(op, in, result), op # "name" PROVE NameDecoded'
      BY <2>2, CallSets DEF NameDecoded
    <2>3. CASE DecodeUsername
      <3> DEFINE s1 == NameSize[1]  s2 == NameSize[2]
      <3>1. PICK name \in BoundedSeq(NameChars, s1 + s2) :
               Call("name", name, DecodeName(FieldOf(name, s1), SecondField(name, s1, s2)))
        BY <2>3 DEF DecodeUsername, Rest, SecondField
      <3> DEFINE decoded == DecodeName(FieldOf(name, s1), SecondField(name, s1, s2))
                 n == Len(name)
      <3>2. trial'.in = name /\ trial'.out = decoded
        BY <3>1, CallSets
      <3>3. s1 \in Nat /\ s2 \in Nat
        BY NameAssumption
      <3>4. name \in Seq(Nat) /\ Len(name) <= s1 + s2
        <4> HIDE DEF s1, s2
        <4>1. PICK m \in 0 .. s1 + s2 : name \in [1 .. m -> NameChars]
          BY DEF BoundedSeq, SeqOf
        <4>2. name \in [1 .. m -> Nat]
          BY <4>1, NameAssumption
        <4> QED BY <3>3, <4>1, <4>2
      <3>5. /\ (\A i \in 1 .. n : name[i] \notin Blanks) => decoded = ToLower(name)
            /\ decoded = <<>> <=> \A i \in 1 .. n : name[i] \in Blanks
            /\ decoded # <<>> => decoded[1] \notin Blanks /\ decoded[Len(decoded)] \notin Blanks
        <4> HIDE DEF s1, s2
        <4> QED BY <3>3, <3>4, DecodeNameIs
      <3>6. /\ DOMAIN name = 1 .. n /\ Head(decoded) = decoded[1]
            /\ Last(decoded) = decoded[Len(decoded)]
        BY <3>4 DEF Last
      <3> HIDE DEF s1, s2, decoded, n
      <3> QED BY <3>2, <3>5, <3>6 DEF NameDecoded
    <2>4. CASE WritePacket \/ NewBlowfishCipher \/ PadPacket \/ XorFirstPacket
               \/ DecryptCredentials \/ ScrambleModulus \/ FillTables \/ EncryptPayload
      BY <2>2, <2>4 DEF WritePacket, NewBlowfishCipher, PadPacket, XorFirstPacket,
         DecryptCredentials, ScrambleModulus, FillTables, EncryptPayload
    <2> QED BY <2>1, <2>3, <2>4, TrialSteps DEF packetVars
  <1> QED BY <1>1, <1>2, PTL DEF PacketsSpec

\* What Encrypt ciphers with the tables of a key DecryptRange restores: for any
\* key, tables and words.  TablesTyped says that setKey keeps tables of words.
THEOREM CipherUndoneHolds == PacketsSpec => []CipherUndone
  <1> DEFINE Inv == TablesTyped /\ CipherUndone
  <1>1. PacketsInit => Inv
    BY DEF PacketsInit, TablesTyped, CipherUndone, Tried
  <1>2. Inv /\ [PacketsNext]_packetVars => Inv'
    <2> SUFFICES ASSUME Inv, [PacketsNext]_packetVars PROVE Inv'
      OBVIOUS
    <2>1. CASE UNCHANGED trial
      BY <2>1 DEF TablesTyped, CipherUndone, Tried
    <2>2. ASSUME NEW op, NEW in, NEW result, Call(op, in, result),
                 op # "setKey", op # "cipher"
          PROVE  Inv'
      BY <2>2, CallSets DEF TablesTyped, CipherUndone
    <2>3. CASE NewBlowfishCipher
      <3>1. PICK key \in KeyDigits :
               Call("setKey", Slots(key), [lr |-> <<0, 0>>, c |-> KeyedTables(key)])
        BY <2>3 DEF NewBlowfishCipher
      <3>2. /\ trial'.in = Slots(key) /\ trial'.out = [lr |-> <<0, 0>>, c |-> KeyedTables(key)]
            /\ ~Tried("cipher")'
        BY <3>1, CallSets
      <3>3. KeyedTables(key) \in Ciphers /\ Slots(key) \in Seq(SlotSet)
        BY KeysAssumption, KeyedTablesTyped, SlotsTyped
      <3>4. 0 \in Words
        BY WordIsPositive DEF Words
      <3> QED BY <3>2, <3>3, <3>4 DEF TablesTyped, CipherUndone, SlotSet
    <2>4. CASE FillTables
      <3>1. /\ Tried("setKey") /\ trial.in # <<>>
            /\ Call("setKey", Tail(trial.in), FillPair(trial.out, Head(trial.in)))
        BY <2>4 DEF FillTables
      <3>2. /\ trial'.in = Tail(trial.in) /\ trial'.out = FillPair(trial.out, Head(trial.in))
            /\ ~Tried("cipher")'
        BY <3>1, CallSets
      <3>3. trial.in \in Seq(SlotSet) /\ trial.out \in [lr : HalfPairs, c : Ciphers]
        BY <3>1 DEF TablesTyped, SlotSet, HalfPairs
      <3>4. Tail(trial.in) \in Seq(SlotSet) /\ Head(trial.in) \in SlotSet
        BY <3>1, <3>3
      <3>5. FillPair(trial.out, Head(trial.in)) \in [lr : HalfPairs, c : Ciphers]
        BY <3>3, <3>4, FillPairTyped
      <3> QED BY <3>2, <3>4, <3>5 DEF TablesTyped, CipherUndone, SlotSet, HalfPairs
    <2>5. CASE EncryptPayload
      <3> DEFINE c == trial.out.c
      <3>1. PICK x \in Words, y \in Words :
               Call("cipher", <<c, x, y>>, CipherRange(c, <<x, y, y, x>>))
        BY <2>5 DEF EncryptPayload
      <3>2. c \in Ciphers
        BY <2>5 DEF EncryptPayload, TablesTyped
      <3> HIDE DEF c
      <3>3. /\ trial'.in = <<c, x, y>> /\ trial'.out = CipherRange(c, <<x, y, y, x>>)
            /\ ~Tried("setKey")'
        BY <3>1, CallSets
      <3>4. DecipherRange(c, CipherRange(c, <<x, y, y, x>>)) = <<x, y, y, x>>
        <4>1. <<x, y, y, x>> \in Seq(Words) /\ Len(<<x, y, y, x>>) % 2 = 0
          OBVIOUS
        <4> QED BY <3>2, <4>1, RangeUndone
      <3> QED BY <3>3, <3>4 DEF TablesTyped, CipherUndone
    <2>6. CASE WritePacket \/ PadPacket \/ XorFirstPacket \/ DecryptCredentials
               \/ DecodeUsername \/ ScrambleModulus
      <3> HIDE DEF Inv
      <3> QED BY <2>2, <2>6 DEF WritePacket, PadPacket, XorFirstPacket, DecryptCredentials,
                 DecodeUsername, ScrambleModulus
    <2> HIDE DEF Inv
    <2> QED BY <2>1, <2>3, <2>4, <2>5, <2>6, TrialSteps DEF packetVars
  <1>3. Inv => CipherUndone
    OBVIOUS
  <1> HIDE DEF Inv
  <1> QED BY <1>1, <1>2, <1>3, PTL DEF PacketsSpec

\* RSADecrypt computes c^d mod N, for any key and also for a number that is not
\* below N: adding p once to the difference of the residues is enough.
THEOREM CredentialsDecryptHolds == PacketsSpec => []CredentialsDecrypt
  <1>1. PacketsInit => CredentialsDecrypt
    BY DEF PacketsInit, CredentialsDecrypt, Tried
  <1>2. CredentialsDecrypt /\ [PacketsNext]_packetVars => CredentialsDecrypt'
    <2> SUFFICES ASSUME CredentialsDecrypt, [PacketsNext]_packetVars PROVE CredentialsDecrypt'
      OBVIOUS
    <2>1. CASE UNCHANGED trial
      BY <2>1 DEF CredentialsDecrypt, Tried
    <2>2. ASSUME NEW op, NEW in, NEW result, Call(op, in, result), op # "decrypt"
          PROVE  CredentialsDecrypt'
      BY <2>2, CallSets DEF CredentialsDecrypt
    <2>3. CASE DecryptCredentials
      <3>0. PICK k \in RSAKeys : \E cipher \in 0 .. 2 * k[1] * k[2] :
               Call("decrypt", <<k, cipher>>, RSADecrypt(cipher, k[1], k[2], k[3]))
        BY <2>3 DEF DecryptCredentials
      <3>1. PICK cipher \in 0 .. 2 * k[1] * k[2] :
               Call("decrypt", <<k, cipher>>, RSADecrypt(cipher, k[1], k[2], k[3]))
        BY <3>0
      <3>2. /\ trial'.in = <<k, cipher>>
            /\ trial'.out = RSADecrypt(cipher, k[1], k[2], k[3])
        BY <3>1, CallSets
      <3>3. IsRSAKey(k[1], k[2], k[3]) /\ cipher \in Nat
        <4>1. IsRSAKey(k[1], k[2], k[3])
          BY RSAKeysAssumption
        <4> QED BY <4>1
      <3>4. RSADecrypt(cipher, k[1], k[2], k[3]) = PowMod(cipher % (k[1] * k[2]), k[3], k[1] * k[2])
        BY <3>3, DecryptIs
      <3> QED BY <3>2, <3>4 DEF CredentialsDecrypt
    <2>4. CASE WritePacket \/ NewBlowfishCipher \/ PadPacket \/ XorFirstPacket
               \/ DecodeUsername \/ ScrambleModulus \/ FillTables \/ EncryptPayload
      BY <2>2, <2>4 DEF WritePacket, NewBlowfishCipher, PadPacket, XorFirstPacket,
         DecodeUsername, ScrambleModulus, FillTables, EncryptPayload
    <2> QED BY <2>1, <2>3, <2>4, TrialSteps DEF packetVars
  <1> QED BY <1>1, <1>2, PTL DEF PacketsSpec

\* What PacketWriter writes PacketReader reads back, and a packet with its end
\* cut off is refused: for every string, every integer of 1 to 8 bytes and every
\* pair of them.
THEOREM PacketsReadBackHolds == PacketsSpec => []PacketsReadBack
  <1>1. PacketsInit => PacketsReadBack
    BY DEF PacketsInit, PacketsReadBack, Tried
  <1>2. PacketsReadBack /\ [PacketsNext]_packetVars => PacketsReadBack'
    <2> SUFFICES ASSUME PacketsReadBack, [PacketsNext]_packetVars PROVE PacketsReadBack'
      OBVIOUS
    <2>1. CASE UNCHANGED trial
      BY <2>1 DEF PacketsReadBack, Tried
    <2>2. ASSUME NEW op, NEW in, NEW result, Call(op, in, result), op # "write"
          PROVE  PacketsReadBack'
      BY <2>2, CallSets DEF PacketsReadBack
    <2>3. CASE WritePacket
      <3>1. PICK f \in Fields, g \in Fields :
               Call("write", <<f, g>>, WriteField(WriteField(<<>>, f), g))
        BY <2>3 DEF WritePacket
      <3> DEFINE bytes == WriteField(WriteField(<<>>, f), g)
      <3>2. trial'.in = <<f, g>> /\ trial'.out = bytes
        BY <3>1, CallSets
      <3>3. trial'.in[1] = f /\ trial'.in[2] = g
        BY <3>2
      <3>4. /\ ReadTwo(bytes, f, g) = [ok |-> TRUE, pos |-> Len(bytes), val |-> <<f.v, g.v>>]
            /\ f.n = 0 => SkipString(bytes, 0).pos = ReadString(bytes, 0).pos
            /\ \A cut \in 0 .. Len(bytes) - 1 : ~ReadTwo(SubSeq(bytes, 1, cut), f, g).ok
        BY ReadTwoBack
      <3> HIDE DEF bytes
      <3> QED BY <3>2, <3>3, <3>4 DEF PacketsReadBack
    <2>4. CASE NewBlowfishCipher \/ PadPacket \/ XorFirstPacket \/ DecryptCredentials
               \/ DecodeUsername \/ ScrambleModulus \/ FillTables \/ EncryptPayload
      BY <2>2, <2>4 DEF NewBlowfishCipher, PadPacket, XorFirstPacket, DecryptCredentials,
         DecodeUsername, ScrambleModulus, FillTables, EncryptPayload
    <2> QED BY <2>1, <2>3, <2>4, TrialSteps DEF packetVars
  <1> QED BY <1>1, <1>2, PTL DEF PacketsSpec
====
