---------------------------- MODULE StreamFraming ----------------------------
(***************************************************************************)
(* FramingIO: messages on a line of octets, as the serial agents and the   *)
(* custom agent exchange them.  A frame is a flag, the addresses of the    *)
(* sender and the receiver, the length, the payload and its CRC; after the *)
(* flag, an octet equal to a flag is escaped.                              *)
(*                                                                         *)
(* The circular buffer of the reader is the sequence of the octets in it.  *)
(* A CRC is its two octets, the most significant first.                    *)
(***************************************************************************)
LOCAL INSTANCE Integers
LOCAL INSTANCE Sequences
LOCAL INSTANCE SequencesExt
LOCAL INSTANCE FiniteSetsExt

framing_begin_flag == 126
framing_esc_flag == 125
framing_xor_flag == 32

\* sizeof(read_buffer_); one place of a circular buffer stays empty.
read_buffer_size == 42

write_buffer_size == 42

SERVER_BUFFER_SIZE == 65535

RECURSIVE Xor(_, _)
Xor(a, b) == IF a + b = 0 THEN 0 ELSE 2 * Xor(a \div 2, b \div 2) + ((a + b) % 2)

\* Tables are sequences, whose first element is that of octet 0.
XorTable == <<>> \o [a \in 1 .. 256 |-> <<>> \o [b \in 1 .. 256 |-> Xor(a - 1, b - 1)]]
XorOf(a, b) == XorTable[a + 1][b + 1]

RECURSIVE Shifted(_, _)
Shifted(crc, n) ==
  IF n = 0 THEN crc ELSE Shifted(IF crc % 2 = 1 THEN Xor(crc \div 2, 40961) ELSE crc \div 2, n - 1)

\* The table of CRC-16/ARC, whose polynomial is 0xA001: eight shifts of every octet.
crc16_table == <<>> \o [o \in 1 .. 256 |-> <<Shifted(o - 1, 8) \div 256, Shifted(o - 1, 8) % 256>>]

update_crc(crc, data) ==
  LET t == crc16_table[XorOf(crc[2], data) + 1] IN <<t[1], XorOf(crc[1], t[2])>>

RECURSIVE CRC(_)

\* The CRC so far, updated with the octets that are left.
CRC(s) ==
  IF s.buf = <<>> THEN s.crc ELSE CRC([crc |-> update_crc(s.crc, Head(s.buf)), buf |-> Tail(s.buf)])

-----------------------------------------------------------------------------
(* Writing.                                                                *)

\* Mutant: a flag in a frame is not escaped.
Bug_NoEscape(octet) == <<octet>>

add_next_octet(octet) ==
  IF octet \in {framing_begin_flag, framing_esc_flag}
  THEN <<framing_esc_flag, XorOf(octet, framing_xor_flag)>> ELSE <<octet>>

RECURSIVE Buffered(_)

\* The octets as they go through the write buffer, which is emptied when the next does not fit.
Buffered(s) ==
  LET next == add_next_octet(Head(s.octets))
      fits == Len(s.buffer) + Len(next) =< write_buffer_size
  IN  IF s.octets = <<>> THEN Append(s.before, s.buffer)
      ELSE Buffered([before |-> IF fits THEN s.before ELSE Append(s.before, s.buffer),
                     buffer |-> IF fits THEN s.buffer \o next ELSE next,
                     octets |-> Tail(s.octets)])

\* The contents of the write buffer, one after the other, that make a frame.
Frame(buf, local_addr, remote_addr) ==
  LET crc == CRC([crc |-> <<0, 0>>, buf |-> buf])
      header == <<local_addr, remote_addr, Len(buf) % 256, Len(buf) \div 256>>
  IN  Buffered([before |-> <<>>, buffer |-> <<framing_begin_flag>>,
                octets |-> header \o buf \o <<crc[2], crc[1]>>])

\* The line takes n octets of a full buffer.  After a part of it transport_write starts again at
\* its beginning, and then finds that it has written too much.
transport_write(buffer, n) ==
  [octets |-> IF n \in 1 .. Len(buffer) - 1 THEN SubSeq(buffer, 1, n) \o buffer ELSE SubSeq(buffer, 1, n),
   rv |-> n = Len(buffer)]

\* The octets on the line, and whether all of them went, when the line takes every buffer at once
\* or, of the buffer short[1], only short[2] octets: nothing is written after that one.
write_framed_msg(buf, local_addr, remote_addr, short) ==
  LET buffers == Frame(buf, local_addr, remote_addr)
      k == short[1]
  IN  IF k \notin DOMAIN buffers THEN [octets |-> FlattenSeq(buffers), rv |-> TRUE]
      ELSE LET w == transport_write(buffers[k], Min({short[2], Len(buffers[k])}))
           IN  IF w.rv THEN [octets |-> FlattenSeq(buffers), rv |-> TRUE]
               ELSE [octets |-> FlattenSeq(SubSeq(buffers, 1, k - 1)) \o w.octets, rv |-> FALSE]

-----------------------------------------------------------------------------
(* Reading.                                                                *)

\* The reader before a frame.  What it keeps of a frame is written before it is read again.
FramingIO(local_addr) ==
  [state |-> "UNINITIALIZED", local_addr |-> local_addr, remote_addr |-> 0, read_buffer |-> <<>>,
   msg_len |-> 0, buf |-> <<>>, msg_crc |-> 0, cmp_crc |-> <<0, 0>>]

In(state, io) == [FramingIO(io.local_addr) EXCEPT !.state = state, !.read_buffer = io.read_buffer]

\* An octet of the frame, if there is one: not a flag, and not half an escaped octet.
get_next_octet(buffer) ==
  LET Octet(rv, octet, n) == [rv |-> rv, octet |-> octet, rest |-> SubSeq(buffer, n + 1, Len(buffer))]
  IN  CASE buffer = <<>> \/ buffer = <<framing_esc_flag>> -> Octet(FALSE, 0, 0)
        [] buffer # <<>> /\ Head(buffer) # framing_esc_flag ->
             Octet(Head(buffer) # framing_begin_flag, Head(buffer), 1)
        [] OTHER ->
             IF buffer[2] = framing_begin_flag THEN Octet(FALSE, framing_begin_flag, 2)
             ELSE Octet(TRUE, XorOf(buffer[2], framing_xor_flag), 2)

\* As many octets as have arrived, as are asked for, and as the buffer has room for.
transport_read(io, arrived, max_size) ==
  LET n == Min({Len(arrived), max_size, read_buffer_size - 1 - Len(io.read_buffer)})
  IN  [n |-> n, io |-> [io EXCEPT !.read_buffer = @ \o SubSeq(arrived, 1, n)],
       arrived |-> SubSeq(arrived, n + 1, Len(arrived))]

\* The end of a turn of the state machine: it goes on, or read_framed_msg returns.
Continues(io, arrived) == [io |-> io, arrived |-> arrived, exit |-> FALSE, message |-> <<>>]
Exits(io, arrived, message) == [io |-> io, arrived |-> arrived, exit |-> TRUE, message |-> message]

\* Up to the first flag in the buffer, or all of it.
reading_uninitialized(io, arrived) ==
  LET flags == {i \in DOMAIN io.read_buffer : io.read_buffer[i] = framing_begin_flag}
  IN  IF flags = {} THEN Exits([io EXCEPT !.read_buffer = <<>>], arrived, <<>>)
      ELSE Continues(In("SRC_ADDR", [io EXCEPT !.read_buffer = SubSeq(@, Min(flags) + 1, Len(@))]), arrived)

\* How many octets the states that wait for a single one ask for: the rest of the header, or of
\* the CRC.
Wanted == [SRC_ADDR |-> 4, DST_ADDR |-> 3, LEN_LSB |-> 2, LEN_MSB |-> 1, CRC_LSB |-> 2, CRC_MSB |-> 1]

\* What is returned of a frame.  An empty payload is no message: a length of zero says there is none.
Message(io) == IF io.buf = <<>> THEN <<>> ELSE <<[remote_addr |-> io.remote_addr, buf |-> io.buf]>>

reading_len_msb(io, arrived, len) ==
  IF SERVER_BUFFER_SIZE < len THEN Exits(In("UNINITIALIZED", io), arrived, <<>>)
  ELSE Continues([io EXCEPT !.state = "PAYLOAD", !.msg_len = len], arrived)

\* Mutant: the CRC is not compared.
Bug_NoCRC(io, arrived, octet) == Exits(In("UNINITIALIZED", io), arrived, Message(io))

reading_crc_msb(io, arrived, octet) ==
  Exits(In("UNINITIALIZED", io), arrived, IF io.cmp_crc = <<octet, io.msg_crc>> THEN Message(io) ELSE <<>>)

\* The octet there was.
reading_octet(io, arrived, octet) ==
  CASE io.state = "SRC_ADDR" -> Continues([io EXCEPT !.state = "DST_ADDR", !.remote_addr = octet], arrived)
    [] io.state = "DST_ADDR" ->
         Continues(IF octet = io.local_addr THEN [io EXCEPT !.state = "LEN_LSB"] ELSE In("UNINITIALIZED", io),
                   arrived)
    [] io.state = "LEN_LSB" -> Continues([io EXCEPT !.state = "LEN_MSB", !.msg_len = octet], arrived)
    [] io.state = "LEN_MSB" -> reading_len_msb(io, arrived, io.msg_len + 256 * octet)
    [] io.state = "CRC_LSB" -> Continues([io EXCEPT !.state = "CRC_MSB", !.msg_crc = octet], arrived)
    [] io.state = "CRC_MSB" -> reading_crc_msb(io, arrived, octet)

\* There was none.  A flag starts a frame only if nothing else has arrived: otherwise it is skipped.
reading_no_octet(octet, r) ==
  IF r.n > 0 THEN Continues(r.io, r.arrived)
  ELSE IF octet = framing_begin_flag THEN Continues(In("SRC_ADDR", r.io), r.arrived)
  ELSE Exits(r.io, r.arrived, <<>>)

reading_single(io, arrived, next) ==
  LET after == [io EXCEPT !.read_buffer = next.rest]
  IN  IF next.rv THEN reading_octet(after, arrived, next.octet)
      ELSE reading_no_octet(next.octet, transport_read(after, arrived, Wanted[io.state]))

RECURSIVE Payload_read(_)

\* The octets of the payload that are in the buffer, p.next to begin with.
Payload_read(p) ==
  IF Len(p.io.buf) = p.io.msg_len \/ ~ p.next.rv THEN p
  ELSE LET rest == get_next_octet(p.next.rest)
       IN  Payload_read([io |-> [p.io EXCEPT !.buf = Append(@, p.next.octet),
                                             !.cmp_crc = update_crc(@, p.next.octet),
                                             !.read_buffer = p.next.rest],
                         next |-> rest])

reading_payload(p, arrived) ==
  LET after == [p.io EXCEPT !.read_buffer = p.next.rest]
  IN  IF Len(p.io.buf) = p.io.msg_len THEN Continues([p.io EXCEPT !.state = "CRC_LSB"], arrived)
      ELSE IF p.next.octet = framing_begin_flag THEN Continues(In("SRC_ADDR", after), arrived)
      ELSE reading_no_octet(0, transport_read(after, arrived, (p.io.msg_len - Len(p.io.buf)) + 2))

Turn(io, arrived) ==
  CASE io.state = "UNINITIALIZED" -> reading_uninitialized(io, arrived)
    [] io.state = "PAYLOAD" -> reading_payload(Payload_read([io |-> io, next |-> get_next_octet(io.read_buffer)]), arrived)
    [] OTHER -> reading_single(io, arrived, get_next_octet(io.read_buffer))

RECURSIVE Turns(_)
Turns(t) == IF t.exit THEN t ELSE Turns(Turn(t.io, t.arrived))

\* One call, while the given octets have arrived: a message, or none yet.
read_framed_msg(io, arrived) ==
  LET r == transport_read(io, arrived, IF io.read_buffer = <<>> THEN 5 ELSE 0)
  IN  IF r.io.read_buffer = <<>> THEN Exits(io, arrived, <<>>) ELSE Turns(Continues(r.io, r.arrived))

RECURSIVE Calls(_, _, _)
Calls(io, arrived, r) ==
  IF r.message # <<>> \/ (r.io = io /\ r.arrived = arrived) THEN r
  ELSE Calls(r.io, r.arrived, read_framed_msg(r.io, r.arrived))

\* SerialAgent::recv_message: one call after the other until there is a message or no octet left.
recv_message(io, arrived) == Calls(io, arrived, read_framed_msg(io, arrived))
=============================================================================
