------------------------------ MODULE Transport ------------------------------
(***************************************************************************)
(* How messages get from the clients to an agent whose transport is a      *)
(* stream of octets: one serial line, several of them, or TCP connections. *)
(* Octets arrive a few at a time.  A serial line loses some of them, and   *)
(* takes a part of a write only; a TCP connection ends in the middle of a  *)
(* message, and its place is given to the next client.                     *)
(*                                                                         *)
(* The clients write with the agent's own write_framed_msg and the framing *)
(* of its send_message, so that what is read here is also what a client    *)
(* would read of the agent.  The agents for datagrams have nothing to put  *)
(* together: what they pass on is what Processor starts from.              *)
(***************************************************************************)
LOCAL INSTANCE Integers
LOCAL INSTANCE Sequences
LOCAL INSTANCE SequencesExt
LOCAL INSTANCE FiniteSetsExt

Serial == INSTANCE StreamFraming
TCP == INSTANCE TCPServerBase

CONSTANTS
  Peers,            \* the clients, numbers that are their addresses on a serial line
  Receivers,        \* the addresses to which each of them writes
  Payloads,         \* the messages, all different, in the order in which they are written
  Arrivals,         \* how many octets arrive at a time
  ShortWrites,      \* which buffer of a frame the line takes how many octets of: <<0, 0>> for all
  Losses,           \* how many octets may get lost at a time
  MaxFaults,        \* how many losses, short writes and disconnections there are
  TCP_MAX_CONNECTIONS

VARIABLES
  medium,       \* datagram, serial, multiserial or tcp
  written,      \* ghost: the messages written so far: [peer, to, buf]
  hurt,         \* ghost: the numbers of those some octets of which are lost
  faults,       \* how many losses, short writes and disconnections there were
  line,         \* the octets that have not been read: each with the number of its message
  framing_io,   \* FramingIO of each port
  backlog,      \* the clients that wait for accept
  ended,        \* the clients that have closed their connection
  connections_, \* each with its endpoint, if it is active, and its input buffer
  free_connections_,
  messages_queue_,
  received      \* what recv_message has returned: [source, buf]

serial_vars == <<framing_io>>
tcp_vars == <<backlog, ended, connections_, free_connections_, messages_queue_>>
transport_vars == <<medium, written, hurt, faults, line, serial_vars, tcp_vars, received>>

\* The address of the agent.
addr == 0

\* All clients share a serial line; with several lines, or on TCP, each has its own.
PortOf(peer) == IF medium = "serial" THEN Min(Peers) ELSE peer
Ports == {PortOf(peer) : peer \in Peers}

Ids == 1 .. TCP_MAX_CONNECTIONS
Inactive == 0

TransportInit ==
  /\ medium \in {"datagram", "serial", "multiserial", "tcp"}
  /\ written = <<>> /\ hurt = {} /\ faults = 0
  /\ line = [p \in Peers |-> <<>>]
  /\ framing_io = [p \in Peers |-> Serial!FramingIO(addr)]
  /\ backlog = <<>> /\ ended = {}
  /\ connections_ = [i \in Ids |-> [endpoint |-> Inactive, input_buffer |-> TCP!init_input_buffer]]
  /\ free_connections_ = [i \in Ids |-> i]
  /\ messages_queue_ = <<>>
  /\ received = <<>>

-----------------------------------------------------------------------------
(* The clients, and what happens to octets on their way.                   *)

\* Each client has a connection, waits for one, or has none.
Connected(peer) ==
  \/ peer \in Range(backlog)
  \/ \E i \in Ids : connections_[i].endpoint = peer

Octets(tagged) == [i \in DOMAIN tagged |-> tagged[i].octet]

\* A serial line has all its octets before any of them is read: that they arrive a few at a time
\* comes to the same as that they are written, or lost, in between.
Unread == framing_io = [p \in Peers |-> Serial!FramingIO(addr)] /\ received = <<>>

\* The next message, to the agent or to somebody else on the line.
Write(peer, to, short) ==
  LET n == Len(written) + 1
      w == IF medium = "tcp" THEN [octets |-> TCP!send_message(Payloads[n]), rv |-> TRUE]
           ELSE Serial!write_framed_msg(Payloads[n], peer, to, short)
  IN  /\ medium # "datagram" /\ n \in DOMAIN Payloads
      /\ medium # "tcp" => Unread /\ (w.rv \/ faults < MaxFaults)
      /\ medium = "tcp" => Connected(peer) /\ peer \notin ended /\ to = addr /\ short = <<0, 0>>
      /\ written' = Append(written, [peer |-> peer, to |-> to, buf |-> Payloads[n]])
      /\ hurt' = IF w.rv THEN hurt ELSE hurt \cup {n}
      /\ faults' = IF w.rv THEN faults ELSE faults + 1
      /\ line' = [line EXCEPT ![PortOf(peer)] =
                    @ \o [i \in DOMAIN w.octets |-> [octet |-> w.octets[i], of |-> n]]]
      /\ UNCHANGED <<medium, serial_vars, tcp_vars, received>>

\* The octets from the first to the last of a line are gone.
Gone(port, first, last) ==
  /\ faults' = faults + 1
  /\ hurt' = hurt \cup {line[port][i].of : i \in first .. last}
  /\ line' = [line EXCEPT ![port] = SubSeq(@, 1, first - 1) \o SubSeq(@, last + 1, Len(@))]

Lose(port, first, size) ==
  /\ medium \in {"serial", "multiserial"} /\ port \in Ports
  /\ Unread /\ faults < MaxFaults
  /\ first + size - 1 \in DOMAIN line[port]
  /\ Gone(port, first, first + size - 1)
  /\ UNCHANGED <<medium, written, serial_vars, tcp_vars, received>>

Connect(peer) ==
  /\ medium = "tcp" /\ ~ Connected(peer)
  /\ backlog' = Append(backlog, peer)
  /\ UNCHANGED <<medium, written, hurt, faults, line, serial_vars, ended, connections_, free_connections_,
                 messages_queue_, received>>

\* A client goes.  What has not arrived by then, from some octet on, does not.
Disconnect(peer, first) ==
  /\ medium = "tcp" /\ Connected(peer) /\ peer \notin ended
  /\ faults < MaxFaults
  /\ Gone(peer, first, Len(line[peer]))
  /\ ended' = ended \cup {peer}
  /\ UNCHANGED <<medium, written, serial_vars, backlog, connections_, free_connections_, messages_queue_,
                 received>>

-----------------------------------------------------------------------------
(* recv_message of the agents, when n octets have arrived on each port.    *)

Arrived(port, n) == Octets(SubSeq(line[port], 1, Min({n, Len(line[port])})))

\* What stays on a line of whose first octets the last ones are left.
Left(port, n, rest) == SubSeq(line[port], Min({n, Len(line[port])}) - Len(rest) + 1, Len(line[port]))

\* SerialAgent::recv_message reads its line, MultiSerialAgent::recv_message those on which select
\* has seen octets arrive.
recv_framed_messages(ports, n) ==
  LET r == [p \in ports |-> Serial!recv_message(framing_io[p], Arrived(p, n))]
      from(p) == [i \in DOMAIN r[p].message |->
                    [source |-> r[p].message[i].remote_addr, buf |-> r[p].message[i].buf]]
  IN  /\ framing_io' = [p \in Peers |-> IF p \in ports THEN r[p].io ELSE framing_io[p]]
      /\ line' = [p \in Peers |-> IF p \in ports THEN Left(p, n, r[p].arrived) ELSE line[p]]
      /\ received' = received \o FlattenSeq([p \in Peers |-> IF p \in ports THEN from(p) ELSE <<>>])
      /\ UNCHANGED <<medium, written, hurt, faults, tcp_vars>>

SerialAgent_recv_message == medium = "serial" /\ \E n \in Arrivals : recv_framed_messages(Ports, n)

MultiSerialAgent_recv_message ==
  /\ medium = "multiserial"
  /\ \E n \in Arrivals : recv_framed_messages({p \in Ports : line[p] # <<>>}, n)

\* TCPv4Agent::listener_loop: the first free connection for the first client that waits.
open_connection ==
  /\ medium = "tcp" /\ backlog # <<>> /\ free_connections_ # <<>>
  /\ connections_' = [connections_ EXCEPT ![Head(free_connections_)] =
                        [endpoint |-> Head(backlog), input_buffer |-> TCP!init_input_buffer]]
  /\ free_connections_' = Tail(free_connections_)
  /\ backlog' = Tail(backlog)
  /\ UNCHANGED <<medium, written, hurt, faults, line, serial_vars, ended, messages_queue_, received>>

\* TCPv4Agent::recv_message: the message at the head of the queue, if need be once every connection
\* with octets to read, or at its end, has been read.  One that has ended is closed.
TCPv4Agent_recv_message ==
  \E n \in Arrivals :
    LET Of(i) == connections_[i].endpoint
        ready == IF messages_queue_ # <<>> THEN {}
                 ELSE {i \in Ids : Of(i) # Inactive /\ (line[Of(i)] # <<>> \/ Of(i) \in ended)}
        r == [i \in ready |-> TCP!read_data(connections_[i].input_buffer, Arrived(Of(i), n))]
        rest == [i \in ready |-> Left(Of(i), n, r[i].arrived)]
        closed == {i \in ready : rest[i] = <<>> /\ r[i].transport_rc = "timeout_error" /\ Of(i) \in ended}
        from(i) == [k \in DOMAIN r[i].message |-> [source |-> Of(i), buf |-> r[i].message[k]]]
        queue == messages_queue_ \o FlattenSeq([i \in Ids |-> IF i \in ready THEN from(i) ELSE <<>>])
    IN  /\ medium = "tcp"
        /\ line' = [p \in Peers |->
                      IF \E i \in ready : Of(i) = p THEN rest[CHOOSE i \in ready : Of(i) = p] ELSE line[p]]
        /\ connections_' = [i \in Ids |->
                              IF i \notin ready THEN connections_[i]
                              ELSE [endpoint |-> IF i \in closed THEN Inactive ELSE Of(i),
                                    input_buffer |-> r[i].input_buffer]]
        /\ free_connections_' = free_connections_ \o SetToSortSeq(closed, <)
        /\ ended' = ended \ {Of(i) : i \in closed}
        /\ received' = received \o SubSeq(queue, 1, Min({1, Len(queue)}))
        /\ messages_queue_' = SubSeq(queue, 2, Len(queue))
        /\ UNCHANGED <<medium, written, hurt, faults, serial_vars, backlog>>

TransportNext ==
  \/ \E peer \in Peers, short \in ShortWrites : \E to \in Receivers[peer] : Write(peer, to, short)
  \/ \E port \in Peers, size \in Losses : \E first \in DOMAIN line[port] : Lose(port, first, size)
  \/ \E peer \in Peers : Connect(peer)
  \/ \E peer \in Peers : \E first \in 1 .. Len(line[peer]) + 1 : Disconnect(peer, first)
  \/ SerialAgent_recv_message
  \/ MultiSerialAgent_recv_message
  \/ open_connection
  \/ TCPv4Agent_recv_message

-----------------------------------------------------------------------------
(* Property.                                                               *)

\* The numbers of the messages that have come, in their order.
NumberOf(buf) == CHOOSE i \in DOMAIN written : written[i].buf = buf
Came == [j \in DOMAIN received |-> NumberOf(received[j].buf)]
SamePort(i, j) == PortOf(written[i].peer) = PortOf(written[j].peer)

\* Everything that came on a port has been read and passed on.
Quiet(port) ==
  /\ line[port] = <<>> /\ messages_queue_ = <<>>
  /\ Serial!recv_message(framing_io[port], <<>>).message = <<>>

\* The messages the agent reads are ones that were written, octet for octet, each at most once and in
\* the order in which they went onto their line or connection, however the octets arrive and
\* whichever are lost.  They were written to the agent and by the client it takes them to be from,
\* unless octets of the message itself were lost: the CRC leaves the addresses out.  A message that
\* was not hurt is missing only on a serial line, in a row of missing ones that starts with one that
\* was hurt.
CarriedAsWritten ==
  /\ \A j \in DOMAIN received :
       /\ \E i \in DOMAIN written : written[i].buf = received[j].buf
       /\ Came[j] \in hurt \/ (written[Came[j]].peer = received[j].source /\ written[Came[j]].to = addr)
  /\ \A j, k \in DOMAIN received : j < k /\ SamePort(Came[j], Came[k]) => Came[j] < Came[k]
  /\ \A i \in DOMAIN written \ (hurt \cup Range(Came)) :
       written[i].to = addr /\ Quiet(PortOf(written[i].peer)) =>
         /\ medium # "tcp"
         /\ \E h \in hurt : h < i /\ SamePort(h, i) /\ \A k \in h .. i : SamePort(k, i) => k \notin Range(Came)
=============================================================================
