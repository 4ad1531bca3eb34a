---- MODULE Wire ----
(***************************************************************************)
(* The bytes between a client and the login server: OnOpen and the packet  *)
(* loop of OnTraffic (src/internal/listener/client_listener.go), SendAsync *)
(* and SendAndCloseAsync (src/internal/client/client.go), the flag of      *)
(* Crypt that singles out a connection's first packet                      *)
(* (src/internal/crypto/crypt.go) and the pool of packet writers           *)
(* (src/pkg/network/packet_writer.go) that all connections share.          *)
(*                                                                         *)
(* Packets are sent by the connection's event loop, one at a time, and by  *)
(* the login goroutines, at any time.  A packet from the client is a       *)
(* header and a body, two pieces; a chunk is any run of pieces that        *)
(* arrives at once.  A packet to the client is the connection and the kind *)
(* it was built for; its padding, which Extend does not clear, is not part *)
(* of it.  A header's size is taken to be at least that of the header.     *)
(***************************************************************************)
EXTENDS Integers, Sequences, FiniteSets, SequencesExt

CONSTANTS
    Conns,       \* client connections, and the event loop that serves each
    Workers,     \* login goroutines that may exist at once
    Writers,     \* packet writers, pooled or not made yet
    MaxPackets,  \* MaxPackets[c]: packets from client c (a bound of the model)
    NoWriter,    \* no packet writer
    NoSend,      \* the event loop or goroutine is not sending
    NoConn       \* the goroutine does not exist

ASSUME MaxPacketsAssumption == MaxPackets \in [Conns -> Nat]
ASSUME NoWriterAssumption == NoWriter \notin Writers
ASSUME NoConnAssumption == NoConn \notin Conns
ASSUME SendersAssumption == Conns \cap Workers = {}

Senders == Conns \cup Workers
Requests == {"AuthGG", "Login"}
Replies == {"Init", "GGAuth", "LoginOK", "LoginFail"}

\* What a writer's buffer holds.
Contents == [conn : Conns \cup {NoConn}, kind : Replies]

\* One call of SendAsync or SendAndCloseAsync.
Sends == [conn : Conns, kind : Replies, writer : Writers,
          step : {"reserve", "xor", "set", "write"}, reserve : {12, 16}, xored : BOOLEAN]

ASSUME NoSendAssumption == NoSend \notin Sends

\* A packet handed to gnet: its bytes, and what they were meant to be.
Packets == [bytes : Contents, kind : Replies, reserve : {12, 16}, xored : BOOLEAN]

VARIABLES
    conn,        \* conn[c]: the life of the connection
    initWriter,  \* initWriter[c]: whose bytes OnOpen returned, until gnet wrote them
    state,       \* Client.State
    updatedKey,  \* Crypt.updatedKey
    stream,      \* stream[c]: the packets the client sent
    got,         \* got[c]: the pieces of them that have arrived
    inbuf,       \* inbuf[c]: the packets of the chunk OnTraffic is going through
    job,         \* job[g]: the connection whose login goroutine g processes
    pool,        \* packetWriterPool, with the writers New would make
    buf,         \* buf[w]: PacketWriter.buf
    send,        \* send[a]: the send that event loop or goroutine a is in
    out,         \* out[c]: the packets handed to gnet, in order
    handled,     \* history: the packets handled, in order
    torn,        \* history: the connections a chunk of which cut a packet
    reused       \* history: the connections whose Init bytes were built over

inVars == <<stream, got, inbuf, handled, torn>>
outVars == <<initWriter, updatedKey, pool, buf, send, out, reused>>
vars == <<conn, state, job, inVars, outVars>>

TypeOK ==
    /\ conn \in [Conns -> {"new", "opened", "open", "closed"}]
    /\ initWriter \in [Conns -> Writers \cup {NoWriter}]
    /\ state \in [Conns -> {"Connected", "AuthedGG", "AuthedLogin"}]
    /\ updatedKey \in [Conns -> BOOLEAN]
    /\ stream \in [Conns -> Seq(Requests)]
    /\ got \in [Conns -> Nat]
    /\ inbuf \in [Conns -> Seq(Requests)]
    /\ job \in [Workers -> Conns \cup {NoConn}]
    /\ pool \subseteq Writers
    /\ buf \in [Writers -> Contents]
    /\ send \in [Senders -> Sends \cup {NoSend}]
    /\ out \in [Conns -> Seq(Packets)]
    /\ handled \in [Conns -> Seq(Requests)]
    /\ torn \subseteq Conns
    /\ reused \subseteq Conns

Init ==
    /\ conn = [c \in Conns |-> "new"]
    /\ initWriter = [c \in Conns |-> NoWriter]
    /\ state = [c \in Conns |-> "Connected"]
    /\ updatedKey = [c \in Conns |-> FALSE]
    /\ stream = [c \in Conns |-> <<>>]
    /\ got = [c \in Conns |-> 0]
    /\ inbuf = [c \in Conns |-> <<>>]
    /\ job = [g \in Workers |-> NoConn]
    /\ pool = Writers
    /\ buf = [w \in Writers |-> [conn |-> NoConn, kind |-> "Init"]]
    /\ send = [a \in Senders |-> NoSend]
    /\ out = [c \in Conns |-> <<>>]
    /\ handled = [c \in Conns |-> <<>>]
    /\ torn = {}
    /\ reused = {}
----
(***************************************************************************)
(* Sending.                                                                *)
(***************************************************************************)

\* A packet of kind k for c is built in writer w: what gnet still holds of
\* the writer's buffer is built over.
Build(w, c, k) ==
    /\ buf' = [buf EXCEPT ![w] = [conn |-> c, kind |-> k]]
    /\ reused' = reused \cup {d \in Conns : initWriter[d] = w}

\* OnOpen: the Init packet is built, encrypted with the static key and
\* returned, and the writer goes back to the pool with the same buffer.
OnOpen(c) ==
    /\ conn[c] = "new"
    /\ conn' = [conn EXCEPT ![c] = "opened"]
    /\ \E w \in pool :
          /\ Build(w, c, "Init")
          /\ initWriter' = [initWriter EXCEPT ![c] = w]
    /\ UNCHANGED <<state, job, inVars, updatedKey, pool, send, out>>

\* gnet writes the bytes that OnOpen returned.
WriteInit(c) ==
    /\ conn[c] = "opened"
    /\ conn' = [conn EXCEPT ![c] = "open"]
    /\ out' = [out EXCEPT ![c] =
                 <<[bytes |-> buf[initWriter[c]], kind |-> "Init",
                    reserve |-> 16, xored |-> TRUE]>>]
    /\ initWriter' = [initWriter EXCEPT ![c] = NoWriter]
    /\ UNCHANGED <<state, job, inVars, updatedKey, pool, buf, send, reused>>

\* SendAsync, or SendAndCloseAsync, up to Encrypt.
Send(a, c, k) ==
    /\ send[a] = NoSend
    /\ \E w \in pool :
          /\ pool' = pool \ {w}
          /\ Build(w, c, k)
          /\ send' = [send EXCEPT ![a] =
                        [conn |-> c, kind |-> k, writer |-> w,
                         step |-> "reserve", reserve |-> 12, xored |-> FALSE]]
    /\ UNCHANGED <<initWriter, updatedKey, out>>

\* The broken form: later packets have room for a checksum only.
EncryptReserveLess(a) ==
    /\ send[a] # NoSend /\ send[a].step = "reserve"
    /\ send' = [send EXCEPT ![a].step = "xor",
                            ![a].reserve = IF updatedKey[send[a].conn] THEN 4 ELSE 16]
    /\ UNCHANGED <<conn, state, job, inVars, initWriter, updatedKey, pool, buf, out, reused>>

\* Encrypt reads updatedKey to reserve room in the packet.
EncryptReserve(a) ==
    /\ send[a] # NoSend /\ send[a].step = "reserve"
    /\ send' = [send EXCEPT ![a].step = "xor",
                            ![a].reserve = IF updatedKey[send[a].conn] THEN 12 ELSE 16]
    /\ UNCHANGED <<conn, state, job, inVars, initWriter, updatedKey, pool, buf, out, reused>>

\* The broken form: the writer goes back to the pool before its bytes are copied.
EncryptXorAndPut(a) ==
    /\ send[a] # NoSend /\ send[a].step = "xor"
    /\ LET first == ~updatedKey[send[a].conn]
       IN  send' = [send EXCEPT ![a].step = IF first THEN "set" ELSE "write",
                                ![a].xored = first]
    /\ pool' = pool \cup {send[a].writer}
    /\ UNCHANGED <<conn, state, job, inVars, initWriter, updatedKey, buf, out, reused>>

\* Encrypt reads it again: the packet that finds it unset is XORed.
EncryptXor(a) ==
    /\ send[a] # NoSend /\ send[a].step = "xor"
    /\ LET first == ~updatedKey[send[a].conn]
       IN  send' = [send EXCEPT ![a].step = IF first THEN "set" ELSE "write",
                                ![a].xored = first]
    /\ UNCHANGED <<conn, state, job, inVars, initWriter, updatedKey, pool, buf, out, reused>>

\* The packet that found it unset sets it.
EncryptSet(a) ==
    /\ send[a] # NoSend /\ send[a].step = "set"
    /\ updatedKey' = [updatedKey EXCEPT ![send[a].conn] = TRUE]
    /\ send' = [send EXCEPT ![a].step = "write"]
    /\ UNCHANGED <<conn, state, job, inVars, initWriter, pool, buf, out, reused>>

\* The bytes are copied and queued on the event loop, unless the connection is
\* closed, and the writer goes back.  The close that SendAndCloseAsync asks for
\* comes when gnet has written them: it is an OnClose step.
AsyncWrite(a) ==
    /\ send[a] # NoSend /\ send[a].step = "write"
    /\ LET s == send[a] IN
       /\ pool' = pool \cup {s.writer}
       /\ out' = [out EXCEPT ![s.conn] =
                    IF conn[s.conn] = "open"
                    THEN Append(@, [bytes |-> buf[s.writer], kind |-> s.kind,
                                    reserve |-> s.reserve, xored |-> s.xored])
                    ELSE @]
    /\ send' = [send EXCEPT ![a] = NoSend]
    /\ UNCHANGED <<conn, state, job, inVars, initWriter, updatedKey, buf, reused>>
----
(***************************************************************************)
(* Receiving.                                                              *)
(***************************************************************************)
ClientSends(c, k) ==
    /\ conn[c] = "open"
    /\ Len(stream[c]) < MaxPackets[c]
    /\ stream' = [stream EXCEPT ![c] = Append(@, k)]
    /\ UNCHANGED <<conn, state, job, got, inbuf, handled, torn, outVars>>

\* The event loop of c is between two callbacks.
Idle(c) == conn[c] = "open" /\ send[c] = NoSend /\ inbuf[c] = <<>>

\* OnTraffic takes the n pieces that have arrived, all of them at once, and
\* goes through the whole packets; a packet whose second piece is missing is
\* gone with them.
OnTraffic(c, n) ==
    /\ Idle(c)
    /\ got[c] % 2 = 0
    /\ got' = [got EXCEPT ![c] = @ + n]
    /\ inbuf' = [inbuf EXCEPT ![c] =
                   SubSeq(stream[c], got[c] \div 2 + 1, (got[c] + n) \div 2)]
    /\ torn' = IF n % 2 = 1 THEN torn \cup {c} ELSE torn
    /\ UNCHANGED <<conn, state, job, stream, handled, outVars>>

\* The chunk starts inside a packet, whose body is taken for a header: the
\* size is refused or does not decrypt, or is more than has arrived, or makes
\* a packet that a handler accepts.
OnTrafficAstray(c, n) ==
    /\ Idle(c)
    /\ got[c] % 2 = 1
    /\ got' = [got EXCEPT ![c] = @ + n]
    /\ \/ conn' = [conn EXCEPT ![c] = "closed"] /\ UNCHANGED inbuf
       \/ UNCHANGED <<conn, inbuf>>
       \/ \E k \in Requests :
             inbuf' = [inbuf EXCEPT ![c] = <<k>>] /\ UNCHANGED conn
    /\ UNCHANGED <<state, job, stream, handled, torn, outVars>>

\* The broken form: buf is not advanced past the packet.
NextPacketStays(c, k) ==
    /\ conn[c] = "open" /\ send[c] = NoSend
    /\ inbuf[c] # <<>> /\ Head(inbuf[c]) = k
    /\ handled' = [handled EXCEPT ![c] = Append(@, k)]
    /\ Len(handled[c]) < MaxPackets[c]
    /\ UNCHANGED <<stream, got, inbuf, torn>>

\* The packet loop hands the next packet, of kind k, to its handler.
NextPacket(c, k) ==
    /\ conn[c] = "open" /\ send[c] = NoSend
    /\ inbuf[c] # <<>> /\ Head(inbuf[c]) = k
    /\ inbuf' = [inbuf EXCEPT ![c] = Tail(@)]
    /\ handled' = [handled EXCEPT ![c] = Append(@, k)]
    /\ UNCHANGED <<stream, got, torn>>

AuthGG(c) ==
    /\ NextPacket(c, "AuthGG")
    /\ \/ /\ state' = [state EXCEPT ![c] = "AuthedGG"]
          /\ Send(c, c, "GGAuth")
       \/ Send(c, c, "LoginFail") /\ UNCHANGED state
    /\ UNCHANGED <<conn, job>>

\* The broken form: the login starts before GameGuard has answered.
HandleLoginUnchecked(c) ==
    /\ NextPacket(c, "Login")
    /\ \E g \in Workers :
          /\ job[g] = NoConn
          /\ job' = [job EXCEPT ![g] = c]
    /\ UNCHANGED <<conn, state, outVars>>

\* HandleLogin leaves the login to a goroutine.
HandleLogin(c) ==
    /\ NextPacket(c, "Login")
    /\ state[c] = "AuthedGG"
    /\ \E g \in Workers :
          /\ job[g] = NoConn
          /\ job' = [job EXCEPT ![g] = c]
    /\ UNCHANGED <<conn, state, outVars>>

HandleLoginRefused(c) ==
    /\ NextPacket(c, "Login")
    /\ state[c] # "AuthedGG"
    /\ Send(c, c, "LoginFail")
    /\ UNCHANGED <<conn, state, job>>

\* The end of processLogin: it answers, having published the state if the
\* login succeeded.
ProcessLogin(g) ==
    /\ job[g] # NoConn
    /\ \/ /\ Send(g, job[g], "LoginOK")
          /\ state' = [state EXCEPT ![job[g]] = "AuthedLogin"]
       \/ Send(g, job[g], "LoginFail") /\ UNCHANGED state
    /\ job' = [job EXCEPT ![g] = NoConn]
    /\ UNCHANGED <<conn, inVars>>

\* The peer goes, a handler fails, a queued close is run, the timeout strikes
\* or another login kicks the client.
OnClose(c) ==
    /\ conn[c] = "open" /\ send[c] = NoSend
    /\ conn' = [conn EXCEPT ![c] = "closed"]
    /\ UNCHANGED <<state, job, inVars, outVars>>

Next ==
    \/ \E c \in Conns :
          \/ OnOpen(c)
          \/ WriteInit(c)
          \/ \E k \in Requests : ClientSends(c, k)
          \/ \E n \in 1 .. 2 * Len(stream[c]) - got[c] :
                OnTraffic(c, n) \/ OnTrafficAstray(c, n)
          \/ AuthGG(c)
          \/ HandleLogin(c)
          \/ HandleLoginRefused(c)
          \/ OnClose(c)
    \/ \E g \in Workers : ProcessLogin(g)
    \/ \E a \in Senders :
          EncryptReserve(a) \/ EncryptXor(a) \/ EncryptSet(a) \/ AsyncWrite(a)

Spec == Init /\ [][Next]_vars
----
(***************************************************************************)
(* Properties.                                                             *)
(***************************************************************************)

\* Of the packets encrypted with the connection's key exactly the first is
\* XORed and has room for it, although updatedKey is read twice and without a
\* lock by the event loop and the login goroutines.
XorOnce ==
    \A c \in Conns : \A i \in 2 .. Len(out[c]) :
       /\ out[c][i].xored <=> i = 2
       /\ out[c][i].reserve = IF i = 2 THEN 16 ELSE 12

\* Every packet handed to gnet holds what was built for that connection and
\* that purpose, although the writers are shared by all.  The exception is an
\* Init packet whose writer was taken again before gnet had written it.
SentIsOwn ==
    \A c \in Conns : \A i \in 1 .. Len(out[c]) :
       \/ out[c][i].bytes = [conn |-> c, kind |-> out[c][i].kind]
       \/ i = 1 /\ c \in reused

\* As long as no chunk has cut a packet in two, the packets that have arrived
\* on an open connection are handled, or are about to be, once each and in
\* order, however they were grouped into chunks.
HandledInOrder ==
    \A c \in Conns \ torn :
       /\ IsPrefix(handled[c], stream[c])
       /\ conn[c] = "open" => handled[c] \o inbuf[c] = SubSeq(stream[c], 1, got[c] \div 2)

----
(***************************************************************************)
(* What makes the properties inductive.                                    *)
(***************************************************************************)

\* No login goroutine sends to c or is about to.
Alone(c) == \A g \in Workers : job[g] # c /\ (send[g] # NoSend => send[g].conn # c)

\* The first packet with the connection's key is yet to be handed to gnet.
Fresh(c) == ~updatedKey[c] \/ (send[c] # NoSend /\ send[c].xored)

\* How many packets of c gnet has been handed.
Handed(c) == Len(out[c])

\* Until the first packet is out only the event loop sends, and no login can
\* start: AuthGG, which lets one start, is still sending its answer.
FirstPacketAlone(c) ==
    /\ Fresh(c) => /\ Alone(c)
                   /\ Handed(c) <= 1
                   /\ state[c] = "AuthedGG" => send[c] # NoSend
    /\ ~Fresh(c) /\ conn[c] = "open" => Handed(c) >= 2
    /\ conn[c] \in {"new", "opened"} => Handed(c) = 0 /\ send[c] = NoSend /\ ~updatedKey[c]
    /\ conn[c] \in {"open", "closed"} => Handed(c) >= 1

\* Both readings of updatedKey in one Encrypt agree.
ReadingsAgree(a) ==
    send[a] # NoSend =>
       LET s == send[a]  key == updatedKey[s.conn] IN
       /\ a \in Conns => s.conn = a /\ conn[a] = "open"
       /\ s.xored => a \in Conns /\ s.step \in {"set", "write"}
       /\ s.step = "xor" => s.reserve = IF key THEN 12 ELSE 16
       /\ s.step = "set" => ~key /\ s.xored /\ s.reserve = 16
       /\ s.step = "write" => key /\ s.reserve = IF s.xored THEN 16 ELSE 12

FirstPacketsInv == (\A c \in Conns : FirstPacketAlone(c)) /\ (\A a \in Senders : ReadingsAgree(a))

\* A writer in use is out of the pool, with one sender, and holds its packet.
WriterOwned(a) ==
    send[a] # NoSend =>
       /\ send[a].writer \notin pool
       /\ buf[send[a].writer] = [conn |-> send[a].conn, kind |-> send[a].kind]
       /\ \A b \in Senders \ {a} : send[b] # NoSend => send[b].writer # send[a].writer

\* The bytes that OnOpen returned are still there, or were built over.
InitOwned(c) ==
    IF conn[c] = "opened"
    THEN /\ initWriter[c] \in Writers
         /\ buf[initWriter[c]] = [conn |-> c, kind |-> "Init"] \/ c \in reused
    ELSE initWriter[c] = NoWriter

WritersOwned == (\A a \in Senders : WriterOwned(a)) /\ (\A c \in Conns : InitOwned(c))

\* Of the packets s, g pieces of which have arrived, h and then b are the first.
FirstOf(h, b, s, g) ==
    /\ g = 2 * (Len(h) + Len(b))
    /\ Len(h) + Len(b) <= Len(s)
    /\ \A i \in 1 .. Len(h) : h[i] = s[i]
    /\ \A i \in 1 .. Len(b) : b[i] = s[Len(h) + i]

\* Whole packets have arrived; those handled, then those of the chunk, are the
\* first of the stream.
OrderInv == \A c \in Conns \ torn : FirstOf(handled[c], inbuf[c], stream[c], got[c])
====
