---------------------------- MODULE TCPServerBase ----------------------------
(***************************************************************************)
(* Messages on a TCP connection: two octets of length, the least           *)
(* significant first, before each.  The input buffer of a connection keeps *)
(* what has come of a message from one call of read_data to the next.      *)
(***************************************************************************)
LOCAL INSTANCE Integers
LOCAL INSTANCE Sequences
LOCAL INSTANCE FiniteSetsExt

init_input_buffer == [state |-> "BUFFER_EMPTY", msg_size |-> 0, buffer |-> <<>>]

\* recv_data: as many octets as have arrived and are asked for.
recv_data(arrived, len) == SubSeq(arrived, 1, Min({Len(arrived), len}))

Returns(b, arrived, message, transport_rc) ==
  [input_buffer |-> b, arrived |-> arrived, message |-> message, transport_rc |-> transport_rc]

\* A size of zero announces nothing: the next one is read.
SizeRead(b, size) ==
  [b EXCEPT !.msg_size = size, !.state = IF size # 0 THEN "SIZE_READ" ELSE "BUFFER_EMPTY"]

\* Mutant: the rest of a message is read over its beginning.
Bug_FromStart(b, got) ==
  [b EXCEPT !.buffer = got,
            !.state = IF Len(b.buffer) + Len(got) = b.msg_size THEN "MESSAGE_AVAILABLE" ELSE "MESSAGE_INCOMPLETE"]

\* The octets of a message after those that are there.
MessageRead(b, got) ==
  LET buffer == b.buffer \o got
  IN  [b EXCEPT !.buffer = buffer,
                !.state = IF Len(buffer) = b.msg_size THEN "MESSAGE_AVAILABLE" ELSE "MESSAGE_INCOMPLETE"]

RECURSIVE read_data(_, _)

\* One call, while the given octets have arrived.  Without any it times out.
read_data(b, arrived) ==
  LET wanted == CASE b.state = "BUFFER_EMPTY" -> 2
                  [] b.state = "SIZE_INCOMPLETE" -> 1
                  [] OTHER -> b.msg_size - Len(b.buffer)
      got == recv_data(arrived, wanted)
      rest == SubSeq(arrived, Len(got) + 1, Len(arrived))
      after == CASE b.state = "BUFFER_EMPTY" ->
                      IF Len(got) = 2 THEN SizeRead(b, got[1] + 256 * got[2])
                      ELSE [b EXCEPT !.msg_size = got[1], !.state = "SIZE_INCOMPLETE"]
                 [] b.state = "SIZE_INCOMPLETE" -> SizeRead(b, b.msg_size + 256 * got[1])
                 [] OTHER -> MessageRead(b, got)
  IN  IF b.state = "MESSAGE_AVAILABLE" THEN Returns(init_input_buffer, arrived, <<b.buffer>>, "ok")
      ELSE IF arrived = <<>> THEN Returns(b, arrived, <<>>, "timeout_error")
      ELSE IF after.state = "MESSAGE_INCOMPLETE" THEN Returns(after, rest, <<>>, "ok")
      ELSE read_data(after, rest)

\* TCPv4Agent::send_message, when the connection takes all octets.
send_message(buf) == <<Len(buf) % 256, Len(buf) \div 256>> \o buf
=============================================================================
