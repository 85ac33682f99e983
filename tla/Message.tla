------------------------------- MODULE Message -------------------------------
(***************************************************************************)
(* Messages: a header, then submessages, each at a multiple of four octets *)
(* and with a header of its own.  OutputMessage writes them into a buffer  *)
(* whose size was computed before, InputMessage reads them; the output     *)
(* streams decide into which messages a submessage goes.                   *)
(***************************************************************************)
EXTENDS XRCETypes, Fragmentation, Integers, Sequences

LOCAL INSTANCE SequencesExt
LOCAL INSTANCE FiniteSetsExt

\* The flags of a submessage header: its endianness, and the last fragment.
FLAG_LITTLE_ENDIANNESS == 1
FLAG_LAST_FRAGMENT == 2

-----------------------------------------------------------------------------
(* The headers.  Their numbers are little endian in every message.         *)

HasClientKey(h) == h.session_id < 128

MessageHeader(h) ==
  <<h.session_id, h.stream_id>> \o Reverse(h.sequence_nr)
    \o IF HasClientKey(h) THEN h.client_key ELSE <<>>

MessageHeader_size(h) == IF HasClientKey(h) THEN 8 ELSE 4

\* A header read from the first octets; a key that is not there stays what it was.
ReadMessageHeader(buf) ==
  [session_id |-> buf[1], stream_id |-> buf[2], sequence_nr |-> Reverse(SubSeq(buf, 3, 4)),
   client_key |-> IF buf[1] < 128 THEN SubSeq(buf, 5, 8) ELSE Default(ClientKey)]

SubmessageHeader(id, flags, length) == <<id, flags, length % 256, (length \div 256) % 256>>

SubmessageHeader_size == 4

-----------------------------------------------------------------------------
(* OutputMessage.                                                          *)

\* The octets that fit are written; a NotEnoughMemoryException is logged.
Written(m, octets) ==
  [m EXCEPT !.buf = SubSeq(octets, 1, Min({m.len, Len(octets)})), !.ok = @ /\ Len(octets) =< m.len]

OutputMessage(header, len) == Written([len |-> len, buf |-> <<>>, ok |-> TRUE], MessageHeader(header))

append_subheader(m, id, flags, length) ==
  Written(m, m.buf \o Padding(Len(m.buf), 4) \o SubmessageHeader(id, flags, length))

append_submessage(m, id, T, v) ==
  LET with == append_subheader(m, id, FLAG_LITTLE_ENDIANNESS, getCdrSerializedSize(T, v))
  IN  IF with.ok
      THEN Written(with, with.buf \o Serialized(T, v, Len(with.buf), LITTLE_ENDIANNESS))
      ELSE with

append_fragment(m, flags, octets) ==
  LET with == append_subheader(m, FRAGMENT, flags, Len(octets))
  IN  IF with.ok THEN Written(with, with.buf \o octets) ELSE with

\* A message of one submessage, as large as the handlers of the processor make it.
MessageOf(header, id, T, v) ==
  append_submessage(
    OutputMessage(header, MessageHeader_size(header) + SubmessageHeader_size + getCdrSerializedSize(T, v)),
    id, T, v)

-----------------------------------------------------------------------------
(* The output streams: the messages that carry a submessage.               *)

is_none_stream(s) == s = STREAMID_NONE
is_reliable_stream(s) == STREAMID_BUILTIN_RELIABLE =< s

HeaderOf(session, stream) ==
  [session_id |-> session.session_id, stream_id |-> stream, sequence_nr |-> <<0, 0>>,
   client_key |-> session.client_key]

\* No number and no memory: a submessage that does not fit is dropped.
NoneOutputStream_push(session, id, T, v) ==
  SelectSeq(<<append_submessage(OutputMessage(HeaderOf(session, STREAMID_NONE), session.mtu), id, T, v)>>,
            LAMBDA m : m.ok)

BestEffortOutputStream_push(session, stream, id, T, v) ==
  IF session.mtu < getCdrSerializedSize(T, v) THEN <<>>
  ELSE SelectSeq(<<append_submessage(OutputMessage(HeaderOf(session, stream), session.mtu), id, T, v)>>,
                 LAMBDA m : m.ok)

\* The submessage in one message of its size, or serialised apart and cut.
ReliableOutputStream_push(session, stream, id, T, v) ==
  LET header == HeaderOf(session, stream)
      size == SubmessageHeader_size + getCdrSerializedSize(T, v)
      apart == SubmessageHeader(id, FLAG_LITTLE_ENDIANNESS, getCdrSerializedSize(T, v))
      submessage == apart \o Serialized(T, v, Len(apart), LITTLE_ENDIANNESS)
      max == session.mtu - MessageHeader_size(header) - SubmessageHeader_size
      sizes == FragmentSizes(size, max)
      Fragment(i) == SubSeq(submessage, (i - 1) * max + 1, (i - 1) * max + sizes[i])
      Flags(i) == FLAG_LITTLE_ENDIANNESS + IF i = Len(sizes) THEN FLAG_LAST_FRAGMENT ELSE 0
  IN  IF MessageHeader_size(header) + size =< session.mtu
      THEN <<MessageOf(header, id, T, v)>>
      ELSE [i \in DOMAIN sizes |->
              append_fragment(
                OutputMessage(header, MessageHeader_size(header) + SubmessageHeader_size + sizes[i]),
                Flags(i), Fragment(i))]

push_output_submessage(session, stream, id, T, v) ==
  CASE is_none_stream(stream) -> NoneOutputStream_push(session, id, T, v)
    [] is_reliable_stream(stream) -> ReliableOutputStream_push(session, stream, id, T, v)
    [] OTHER -> BestEffortOutputStream_push(session, stream, id, T, v)

-----------------------------------------------------------------------------
(* InputMessage.                                                           *)

\* An invalid subheader: before the first submessage.
InputMessage(buf) ==
  [buf |-> buf, header |-> ReadMessageHeader(buf), pos |-> MessageHeader_size(ReadMessageHeader(buf)),
   endianness |-> LITTLE_ENDIANNESS, id |-> -1, flags |-> 0, length |-> 0]

\* Where the next submessage header starts: the lengths of the headers are not used.
NextSubmessage(m) ==
  IF m.pos + Alignment(m.pos, 4) =< Len(m.buf) THEN m.pos + Alignment(m.pos, 4) ELSE m.pos

HasNextSubmessage(m) == NextSubmessage(m) + SubmessageHeader_size =< Len(m.buf)

\* Bug: the endianness is taken from the first submessage only.
Bug_OneEndianness(m) ==
  LET at == NextSubmessage(m)
  IN  [m EXCEPT !.pos = at + SubmessageHeader_size,
                !.endianness = IF m.id = -1 THEN m.buf[at + 2] % 2 ELSE @,
                !.id = m.buf[at + 1], !.flags = m.buf[at + 2],
                !.length = m.buf[at + 3] + 256 * m.buf[at + 4]]

prepare_next_submessage(m) ==
  LET at == NextSubmessage(m)
  IN  [m EXCEPT !.pos = at + SubmessageHeader_size, !.endianness = m.buf[at + 2] % 2,
                !.id = m.buf[at + 1], !.flags = m.buf[at + 2],
                !.length = m.buf[at + 3] + 256 * m.buf[at + 4]]

get_payload(m, T, data) == Deserialized(T, m.buf, m.pos, m.endianness, data)

get_raw_payload(m) == Take(m.buf, m.pos, m.length)
get_raw_header(m) == SubSeq(m.buf, 1, MessageHeader_size(m.header))
=============================================================================
