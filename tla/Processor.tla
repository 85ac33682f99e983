------------------------------ MODULE Processor ------------------------------
(***************************************************************************)
(* What the processor reads and writes, octet by octet.  Clients put       *)
(* submessages into messages, in either endianness, cut in fragments or    *)
(* not; the processor reads them with InputMessage, one after the other,   *)
(* and answers through the output streams or with a message of its own.    *)
(* In which order the streams deliver messages is the business of          *)
(* ReliableStream, what the objects do that of ObjectTree, and who is a    *)
(* client that of Clients: only the outcomes of those calls appear here.   *)
(***************************************************************************)
EXTENDS Message

LOCAL INSTANCE SequencesExt
LOCAL INSTANCE FiniteSetsExt

CONSTANTS
  Openings,   \* the representations with which clients open sessions
  Messages,   \* what they send in each session: [stream, content, es, cut]
  Pings,      \* the GET_INFO payloads they send outside of sessions
  Samples,    \* what readers deliver: [stream, request, data]
  Requests,   \* what repliers take: [stream, request, identity, data]
  Times,      \* what the clock shows
  Numbers,    \* sequence numbers
  Addresses   \* what the discovery server announces

VARIABLES
  clients,      \* Root::clients_: the session of each client key
  inbox,        \* the packets the streams have still to deliver
  reading,      \* the messages being processed: one made of fragments above its last fragment
  client,       \* the client process_input_packet has found
  fragment_msg, \* ReliableInputStream::fragment_msg_
  written,      \* ghost: the submessages of the packets, as the client wrote them
  handled,      \* ghost: those handled, as the handlers got them
  refused,      \* ghost: a handler has ended the message on purpose
  output        \* what was sent: each submessage with the messages that carry it

vars == <<clients, inbox, reading, client, fragment_msg, written, handled, refused, output>>

Init ==
  /\ clients = <<>>
  /\ inbox = <<>>
  /\ reading = <<>>
  /\ client = <<>>
  /\ fragment_msg = <<>>
  /\ written = <<>>
  /\ handled = <<>>
  /\ refused = FALSE
  /\ output = <<>>

-----------------------------------------------------------------------------
(* The payloads of submessages, and the objects in them.                   *)

FORMAT_DATA_FLAG == 0

WrittenData ==
  FORMAT_DATA_FLAG :> WRITE_DATA_Payload_Data @@ 2 :> WRITE_DATA_Payload_Sample @@
  8 :> WRITE_DATA_Payload_DataSeq @@ 10 :> WRITE_DATA_Payload_SampleSeq @@
  14 :> WRITE_DATA_Payload_PackedSamples

Payload(id, format) ==
  CASE id = CREATE_CLIENT -> CREATE_CLIENT_Payload
    [] id = CREATE -> CREATE_Payload
    [] id = GET_INFO -> GET_INFO_Payload
    [] id = DELETE_ID -> DELETE_Payload
    [] id = STATUS_AGENT -> STATUS_AGENT_Payload
    [] id = STATUS -> STATUS_Payload
    [] id = INFO -> INFO_Payload
    [] id = WRITE_DATA -> WrittenData[format]
    [] id = READ_DATA -> READ_DATA_Payload
    [] id = DATA -> DATA_Payload_Data
    [] id = ACKNACK -> ACKNACK_Payload
    [] id = HEARTBEAT -> HEARTBEAT_Payload
    [] id = RESET -> InOrder(<<>>, <<>>)
    [] id = TIMESTAMP -> TIMESTAMP_Payload
    [] id = TIMESTAMP_REPLY -> TIMESTAMP_REPLY_Payload

\* What the octets of a binary representation hold, for each kind of object.
BinaryOf ==
  OBJK_PARTICIPANT :> OBJK_DomainParticipant_Binary @@ OBJK_TOPIC :> OBJK_Topic_Binary @@
  OBJK_PUBLISHER :> OBJK_Publisher_Binary @@ OBJK_SUBSCRIBER :> OBJK_Subscriber_Binary @@
  OBJK_DATAWRITER :> OBJK_DataWriter_Binary @@ OBJK_DATAREADER :> OBJK_DataReader_Binary @@
  OBJK_REQUESTER :> OBJK_Requester_Binary @@ OBJK_REPLIER :> OBJK_Replier_Binary

IsBinary(variant) ==
  /\ variant.d \in DOMAIN BinaryOf
  /\ variant.value.representation.d = REPRESENTATION_IN_BINARY

\* What create of the object's class reads: from position 0, in the endianness of the submessage.
ObjectIn(variant, e) ==
  LET r == Deserialized(BinaryOf[variant.d], variant.value.representation.value, 0, e, 0)
  IN  IF IsBinary(variant) /\ r.ok THEN <<r.value>> ELSE <<>>

-----------------------------------------------------------------------------
(* The clients.  A submessage is [id, format, v, object]: object is what a *)
(* binary representation in v stands for, if it has one.                   *)

\* The payload, an object in it put into octets in the endianness of the submessage.
Encoded(s, e) ==
  IF s.object = <<>> THEN s.v
  ELSE [s.v EXCEPT !.object_representation.value.representation.value =
          Serialized(BinaryOf[s.v.object_representation.d], s.object[1], 0, e)]

RECURSIVE WithSubmessages(_, _, _)

\* A message with the submessages appended, each in its endianness.
WithSubmessages(buf, content, es) ==
  IF content = <<>> THEN buf
  ELSE LET s == content[1]
           at == buf \o Padding(Len(buf), 4)
           octets == Serialized(Payload(s.id, s.format), Encoded(s, es[1]),
                                Len(at) + SubmessageHeader_size, es[1])
       IN  WithSubmessages(at \o SubmessageHeader(s.id, s.format + es[1], Len(octets)) \o octets,
                           Tail(content), Tail(es))

\* The octets after the header of a message, cut in fragments.
Fragments(header, octets, sizes, cut) ==
  [i \in DOMAIN sizes |->
     MessageHeader(header)
       \o SubmessageHeader(FRAGMENT,
                           LITTLE_ENDIANNESS + IF i = Len(sizes) THEN FLAG_LAST_FRAGMENT ELSE 0, sizes[i])
       \o SubSeq(octets, (i - 1) * cut + 1, (i - 1) * cut + sizes[i])]

\* The packets that carry a message, from one endpoint: itself, or fragments.
Packets(source, header, whole, cut) ==
  LET n == MessageHeader_size(header)
      fragments == Fragments(header, SubSeq(whole, n + 1, Len(whole)),
                             FragmentSizes(Len(whole) - n, cut), cut)
      From(buf) == [source |-> source, buf |-> buf]
  IN  IF cut = 0 THEN <<From(whole)>> ELSE [i \in DOMAIN fragments |-> From(fragments[i])]

\* What a handler gets of a submessage.
Got(id, v, object) == [id |-> id, v |-> v, object |-> object]

Idle == inbox = <<>> /\ reading = <<>> /\ written = <<>> /\ output = <<>>

Send(source, header, m) ==
  /\ inbox' = Packets(source, header, WithSubmessages(MessageHeader(header), m.content, m.es), m.cut)
  /\ written' = [i \in DOMAIN m.content |->
                   Got(m.content[i].id, Encoded(m.content[i], m.es[i]), m.content[i].object)]
  /\ UNCHANGED <<clients, reading, client, fragment_msg, handled, refused, output>>

\* In the session a client has, or has had, with the agent.
SendInSession ==
  Idle /\ \E o \in Openings : \E m \in Messages[o.session_id] :
    /\ o.client_key \in DOMAIN clients => o.session_id = clients[o.client_key].session_id
    /\ Send(o.client_key, HeaderOf(o, m.stream), m)

\* To open a session, or to find an agent.
SendOutOfSession ==
  Idle /\ \E o \in Openings, e \in Endianness :
    LET session == IF HasClientKey(o) THEN SESSIONID_NONE_WITH_CLIENT_KEY
                   ELSE SESSIONID_NONE_WITHOUT_CLIENT_KEY
        header == HeaderOf([o EXCEPT !.session_id = session], STREAMID_NONE)
        One(id, v) == [content |-> <<[id |-> id, format |-> 0, v |-> v, object |-> <<>>]>>,
                       es |-> <<e>>, cut |-> 0]
    IN  \E m \in {One(CREATE_CLIENT, [client_representation |-> o])} \cup {One(GET_INFO, v) : v \in Pings} :
          Send(o.client_key, header, m)

\* The clients take what was sent to them.
ClientsRead ==
  /\ inbox = <<>> /\ reading = <<>> /\ ~ Idle
  /\ written' = <<>> /\ handled' = <<>> /\ refused' = FALSE /\ output' = <<>>
  /\ client' = <<>>
  /\ UNCHANGED <<clients, inbox, reading, fragment_msg>>

-----------------------------------------------------------------------------
(* What the handlers send: through a stream of the session, or in a        *)
(* message they make themselves.                                           *)

NoLimit == 65535

Through(session, stream, id, v) ==
  [header |-> HeaderOf(session, stream), limit |-> session.mtu, id |-> id, v |-> v,
   messages |-> push_output_submessage(session, stream, id, Payload(id, 0), v)]

InBuffer(header, len, id, v) ==
  [header |-> header, limit |-> NoLimit, id |-> id, v |-> v,
   messages |-> <<append_submessage(OutputMessage(header, len), id, Payload(id, 0), v)>>]

Directly(header, id, v) ==
  InBuffer(header,
           MessageHeader_size(header) + SubmessageHeader_size + getCdrSerializedSize(Payload(id, 0), v),
           id, v)

Result(status) == [status |-> status, implementation_status |-> 0]

StatusOf(request, status) ==
  [related_request |-> [request_id |-> request.request_id, object_id |-> request.object_id],
   result |-> Result(status)]

AcknackOf(first, stream) ==
  [first_unacked_seq_num |-> first, nack_bitmap |-> <<0, 0>>, stream_id |-> stream]

\* What an agent says of itself: Root::create_client, Root::get_info.
AgentRepresentation ==
  [xrce_cookie |-> XRCE_COOKIE, xrce_version |-> <<1, 0>>, xrce_vendor_id |-> <<1, 15>>, properties |-> <<>>]

get_info(addresses) ==
  [config |-> <<[d |-> OBJK_AGENT, value |-> AgentRepresentation]>>,
   activity |-> <<[d |-> OBJK_AGENT, value |-> [availability |-> <<0, 1>>, address_seq |-> addresses]]>>]

InfoOf(request, known, addresses) ==
  [related_request |-> [request_id |-> request.request_id, object_id |-> request.object_id],
   result |-> [status |-> STATUS_OK, implementation_status |-> known],
   object_info |-> get_info(addresses)]

KindOf(request) == request.object_id[2] % 16

\* The builtin stream of the kind of stream a request came on.
StreamKind(header) ==
  IF is_reliable_stream(header.stream_id) THEN STREAMID_BUILTIN_RELIABLE ELSE STREAMID_BUILTIN_BEST_EFFORTS

-----------------------------------------------------------------------------
(* process_input_packet.                                                   *)

Packet == Head(inbox)
PacketMessage == InputMessage(Packet.buf)
OutOfSession(header) ==
  header.session_id \in {SESSIONID_NONE_WITH_CLIENT_KEY, SESSIONID_NONE_WITHOUT_CLIENT_KEY}

\* The first submessage of a packet that is not of a known client.
First == prepare_next_submessage(PacketMessage)

NextPacket == reading = <<>> /\ inbox # <<>>

\* Its key from the header or, if there is none, from the endpoint.
KeyOf(packet) ==
  IF HasClientKey(PacketMessage.header) THEN PacketMessage.header.client_key ELSE packet.source

FromClient == ~ OutOfSession(PacketMessage.header) /\ KeyOf(Packet) \in DOMAIN clients

\* A packet of a client: its submessages come one by one.
process_input_packet ==
  /\ NextPacket /\ FromClient
  /\ client' = [client_key |-> KeyOf(Packet)] @@ clients[KeyOf(Packet)]
  /\ reading' = <<PacketMessage>>
  /\ inbox' = Tail(inbox)
  /\ UNCHANGED <<clients, fragment_msg, written, handled, refused, output>>

\* The end of a message.  After the one of the packet a reliable stream is acknowledged.
process_input_message_end ==
  \E first \in Numbers :
    LET m == Last(reading)
        header == [m.header EXCEPT !.stream_id = STREAMID_NONE, !.sequence_nr = <<0, 0>>]
        acknack == AcknackOf(first, m.header.stream_id)
    IN  /\ reading # <<>> /\ ~ HasNextSubmessage(m)
        /\ reading' = Front(reading)
        /\ output' = IF Len(reading) = 1 /\ is_reliable_stream(m.header.stream_id)
                     THEN Append(output, Directly(header, ACKNACK, acknack)) ELSE output
        /\ UNCHANGED <<clients, inbox, client, fragment_msg, written, handled, refused>>

\* The packet of no client is done with its first submessage.
Done == inbox' = Tail(inbox) /\ UNCHANGED <<reading, client, fragment_msg, written>>

\* DELETE_ID of a client that is gone already.
process_delete_unknown ==
  LET r == get_payload(First, DELETE_Payload, 0)
  IN  /\ NextPacket /\ ~ FromClient /\ ~ OutOfSession(PacketMessage.header)
      /\ First.id = DELETE_ID
      /\ Done
      /\ handled' = IF r.ok THEN Append(handled, Got(DELETE_ID, r.value, <<>>)) ELSE handled
      /\ output' = IF r.ok /\ KindOf(r.value) = OBJK_CLIENT
                   THEN Append(output, Directly(First.header, STATUS, StatusOf(r.value, STATUS_OK)))
                   ELSE output
      /\ refused' = HasNextSubmessage([First EXCEPT !.pos = r.pos])
      /\ UNCHANGED clients

\* A ping, of anybody.
process_get_info_packet ==
  LET r == get_payload(First, GET_INFO_Payload, 0)
      known == IF Packet.source \in DOMAIN clients THEN 1 ELSE 0
  IN  /\ NextPacket /\ ~ FromClient
      /\ First.id = GET_INFO
      /\ Done
      /\ handled' = Append(handled, Got(GET_INFO, r.value, <<>>))
      /\ output' = Append(output, Directly(First.header, INFO, InfoOf(r.value, known, <<>>)))
      /\ refused' = HasNextSubmessage([First EXCEPT !.pos = r.pos])
      /\ UNCHANGED clients

\* The same at the port of the discovery server, with the addresses of the agent.
process_discovery_packet ==
  \E addresses \in Addresses :
    LET r == get_payload(First, GET_INFO_Payload, 0)
    IN  /\ NextPacket /\ OutOfSession(PacketMessage.header)
        /\ First.id = GET_INFO
        /\ Done
        /\ handled' = Append(handled, Got(GET_INFO, r.value, <<>>))
        /\ output' = Append(output, Directly(First.header, INFO, InfoOf(r.value, 0, addresses)))
        /\ UNCHANGED <<clients, refused>>

\* Other submessages of clients that are not known.
ignore_packet ==
  /\ NextPacket /\ ~ FromClient
  /\ First.id # GET_INFO
  /\ First.id # IF OutOfSession(PacketMessage.header) THEN CREATE_CLIENT ELSE DELETE_ID
  /\ Done
  /\ refused' = TRUE
  /\ UNCHANGED <<clients, handled, output>>

\* A session with the mtu the client announces; one that is there with this number is kept.
process_create_client_submessage ==
  \E status \in {STATUS_OK, STATUS_ERR_RESOURCES} :
    LET r == get_payload(First, CREATE_CLIENT_Payload, 0)
        representation == r.value.client_representation
        key == representation.client_key
        session == [session_id |-> representation.session_id, mtu |-> AsNumber(representation.mtu)]
        kept == key \in DOMAIN clients /\ clients[key].session_id = session.session_id
    IN  /\ NextPacket /\ OutOfSession(PacketMessage.header)
        /\ First.id = CREATE_CLIENT
        /\ Done
        /\ handled' = Append(handled, Got(CREATE_CLIENT, r.value, <<>>))
        /\ clients' = IF status = STATUS_OK /\ ~ kept THEN (key :> session) @@ clients ELSE clients
        /\ output' = Append(output, Directly([First.header EXCEPT !.session_id = session.session_id],
                                             STATUS_AGENT,
                                             [result |-> Result(status), agent_info |-> AgentRepresentation]))
        /\ UNCHANGED refused

-----------------------------------------------------------------------------
(* process_submessage: the submessages of a packet of a client.            *)

Sub == prepare_next_submessage(Last(reading))

IsNext(id) == reading # <<>> /\ HasNextSubmessage(Last(reading)) /\ Sub.id = id

\* The handler has read up to pos; after false nothing more of the message is processed.
Went(pos, rv) ==
  reading' = [reading EXCEPT ![Len(reading)] = [Sub EXCEPT !.pos = IF rv THEN pos ELSE Len(Sub.buf)]]

\* A handler that got the payload, and one that did not.
Took(id, r, object) ==
  handled' = IF r.ok THEN Append(handled, Got(id, r.value, object)) ELSE handled

Sent(r, o) == output' = IF r.ok THEN output \o o ELSE output

Kept == UNCHANGED <<inbox, client, written>>

\* Not outside of sessions: the payload is not even read.
process_create_client_in_session ==
  /\ IsNext(CREATE_CLIENT)
  /\ Went(Sub.pos, FALSE)
  /\ refused' = TRUE
  /\ UNCHANGED <<clients, fragment_msg, handled, output>> /\ Kept

process_create_submessage ==
  \E status \in {STATUS_OK, STATUS_ERR_DDS_ERROR} :
    LET r == get_payload(Sub, CREATE_Payload, 0)
    IN  /\ IsNext(CREATE)
        /\ Went(r.pos, TRUE)
        /\ Took(CREATE, r, ObjectIn(r.value.object_representation, Sub.flags % 2))
        /\ Sent(r, <<Through(client, StreamKind(Sub.header), STATUS, StatusOf(r.value, status))>>)
        /\ UNCHANGED <<clients, fragment_msg, refused>> /\ Kept

\* Of the client itself, answered outside of its streams, or of an object.
process_delete_submessage ==
  \E status \in {STATUS_OK, STATUS_ERR_UNKNOWN_REFERENCE} :
    LET r == get_payload(Sub, DELETE_Payload, 0)
        ofClient == (KindOf(r.value) = OBJK_CLIENT)
        stream == IF ofClient THEN STREAMID_NONE ELSE StreamKind(Sub.header)
        found == client.client_key \in DOMAIN clients
    IN  /\ IsNext(DELETE_ID)
        /\ ofClient => found = (status = STATUS_OK)
        /\ Went(r.pos, r.ok)
        /\ Took(DELETE_ID, r, <<>>)
        /\ clients' = IF r.ok /\ ofClient
                      THEN [k \in DOMAIN clients \ {client.client_key} |-> clients[k]] ELSE clients
        /\ Sent(r, <<Through(client, stream, STATUS, StatusOf(r.value, status))>>)
        /\ UNCHANGED <<fragment_msg, refused>> /\ Kept

\* Plain data only: as much as the submessage has after the request.  Data that could not be
\* written ends the message.
process_write_data_submessage ==
  \E sample_written \in BOOLEAN :
    LET plain == (Sub.flags \div 2) % 8 = FORMAT_DATA_FLAG
        request == getCdrSerializedSize(BaseObjectRequest, Default(BaseObjectRequest))
        r == get_payload(Sub, WRITE_DATA_Payload_Data, Sub.length - request)
    IN  /\ IsNext(WRITE_DATA)
        /\ sample_written => plain /\ KindOf(r.value) \in {OBJK_DATAWRITER, OBJK_REQUESTER, OBJK_REPLIER}
        /\ Went(r.pos, plain /\ r.ok /\ sample_written)
        /\ IF plain THEN Took(WRITE_DATA, r, <<>>) ELSE UNCHANGED handled
        /\ refused' = (refused \/ ~ sample_written)
        /\ UNCHANGED <<clients, fragment_msg, output>> /\ Kept

\* Answered only if nothing will be read.
process_read_data_submessage ==
  \E status \in {STATUS_OK, STATUS_ERR_UNKNOWN_REFERENCE, STATUS_ERR_RESOURCES} :
    LET r == get_payload(Sub, READ_DATA_Payload, 0)
    IN  /\ IsNext(READ_DATA)
        /\ KindOf(r.value) \in {OBJK_DATAREADER, OBJK_REQUESTER, OBJK_REPLIER}
             \/ status = STATUS_ERR_UNKNOWN_REFERENCE
        /\ Went(r.pos, r.ok)
        /\ Took(READ_DATA, r, <<>>)
        /\ Sent(r, IF status = STATUS_OK THEN <<>>
                   ELSE <<Through(client, STREAMID_BUILTIN_RELIABLE, STATUS, StatusOf(r.value, status))>>)
        /\ UNCHANGED <<clients, fragment_msg, refused>> /\ Kept

\* The messages sent again are the ones the stream holds.
process_acknack_submessage ==
  LET r == get_payload(Sub, ACKNACK_Payload, 0)
  IN  /\ IsNext(ACKNACK)
      /\ Went(r.pos, r.ok)
      /\ Took(ACKNACK, r, <<>>)
      /\ UNCHANGED <<clients, fragment_msg, refused, output>> /\ Kept

process_heartbeat_submessage ==
  \E first \in Numbers :
    LET r == get_payload(Sub, HEARTBEAT_Payload, 0)
        acknack == AcknackOf(first, r.value.stream_id)
    IN  /\ IsNext(HEARTBEAT)
        /\ Went(r.pos, r.ok)
        /\ Took(HEARTBEAT, r, <<>>)
        /\ Sent(r, <<Through(client, STREAMID_NONE, ACKNACK, acknack)>>)
        /\ UNCHANGED <<clients, fragment_msg, refused>> /\ Kept

\* The streams start anew: Session::reset.  Fragments that have come stay.
process_reset_submessage ==
  /\ IsNext(RESET)
  /\ Went(Sub.pos, TRUE)
  /\ handled' = Append(handled, Got(RESET, <<>>, <<>>))
  /\ UNCHANGED <<clients, fragment_msg, refused, output>> /\ Kept

\* The octets of the fragment after those that have come; the header of the first comes first.
push_fragment(msg, m) == (IF msg = <<>> THEN get_raw_header(m) ELSE msg) \o get_raw_payload(m).value

\* The last fragment makes a message, which is processed before what follows the fragment.
process_fragment_submessage ==
  LET msg == push_fragment(fragment_msg, Sub)
      last == (Sub.flags \div FLAG_LAST_FRAGMENT) % 2 = 1
      outer == [Sub EXCEPT !.pos = get_raw_payload(Sub).pos]
  IN  /\ IsNext(FRAGMENT)
      /\ fragment_msg' = IF last THEN <<>> ELSE msg
      /\ reading' = Front(reading) \o <<outer>> \o IF last THEN <<InputMessage(msg)>> ELSE <<>>
      /\ UNCHANGED <<clients, handled, refused, output>> /\ Kept

process_timestamp_submessage ==
  \E received, sent \in Times :
    LET r == get_payload(Sub, TIMESTAMP_Payload, 0)
        reply == [transmit_timestamp |-> sent, receive_timestamp |-> received,
                  originate_timestamp |-> r.value.transmit_timestamp]
    IN  /\ IsNext(TIMESTAMP)
        /\ Went(r.pos, r.ok)
        /\ Took(TIMESTAMP, r, <<>>)
        /\ Sent(r, <<Through(client, STREAMID_NONE, TIMESTAMP_REPLY, reply)>>)
        /\ UNCHANGED <<clients, fragment_msg, refused>> /\ Kept

\* A ping in a session: answered in a message of its own, whatever the payload.
process_get_info_submessage ==
  LET r == get_payload(Sub, GET_INFO_Payload, 0)
      info == Directly(HeaderOf(client, STREAMID_NONE), INFO, InfoOf(r.value, 1, <<>>))
  IN  /\ IsNext(GET_INFO)
      /\ Went(r.pos, info.messages[1].ok)
      /\ Took(GET_INFO, r, <<>>)
      /\ output' = Append(output, info)
      /\ UNCHANGED <<clients, fragment_msg, refused>> /\ Kept

\* What agents send, and what they do not know, ends the message.
ignore_submessage ==
  /\ reading # <<>> /\ HasNextSubmessage(Last(reading))
  /\ Sub.id \notin {CREATE_CLIENT, CREATE, GET_INFO, DELETE_ID, WRITE_DATA, READ_DATA, ACKNACK, HEARTBEAT,
                    RESET, FRAGMENT, TIMESTAMP}
  /\ Went(Sub.pos, FALSE)
  /\ refused' = TRUE
  /\ UNCHANGED <<clients, fragment_msg, handled, output>> /\ Kept

-----------------------------------------------------------------------------
(* The other threads.  They change nothing here but what they send.        *)

SessionOf(key) == [client_key |-> key] @@ clients[key]

\* Data of a reader, on the stream the client has asked for.
read_data_callback ==
  Idle /\ \E key \in DOMAIN clients, s \in Samples :
    /\ output' = <<Through(SessionOf(key), s.stream, DATA,
                           s.request @@ [data |-> [serialized_data |-> s.data]])>>
    /\ UNCHANGED <<clients, inbox, reading, client, fragment_msg, written, handled, refused>>

\* FastDDSReplier::read: the identity of a request before it, in a buffer for both.
FastDDSReplier_read(identity, temp_data) ==
  LET size == getCdrSerializedSize(SampleIdentity, identity) + Len(temp_data)
      octets == Serialized(SampleIdentity, identity, 0, LITTLE_ENDIANNESS) \o temp_data
  IN  [rv |-> Len(octets) =< size,
       data |-> [i \in 1 .. size |-> IF i =< Len(octets) THEN octets[i] ELSE 0]]

\* FastDDSReplier::write: what the client puts before a reply says which request it answers.
FastDDSReplier_write(data) ==
  LET r == Deserialized(SampleIdentity, data, 0, LITTLE_ENDIANNESS, 0)
  IN  [related |-> r.value, output_data |-> SubSeq(data, r.pos + 1, Len(data))]

\* A request a replier takes, sent as the data of a reader is.
read_request ==
  Idle /\ \E key \in DOMAIN clients, q \in Requests :
    LET got == FastDDSReplier_read(q.identity, q.data)
        sent == Through(SessionOf(key), q.stream, DATA,
                        q.request @@ [data |-> [serialized_data |-> got.data]])
    IN  /\ output' = <<[messages |-> IF got.rv THEN sent.messages ELSE <<>>, asked |-> q] @@ sent>>
        /\ UNCHANGED <<clients, inbox, reading, client, fragment_msg, written, handled, refused>>

\* One header serves all clients in turn.  The size of a heartbeat is computed from the header
\* before the first, the size of a ping from what the client before has left in it.
check_heartbeats ==
  Idle /\ clients # <<>> /\
  \E first, last \in Numbers, alive \in [DOMAIN clients -> BOOLEAN], turns \in SetToSeqs(DOMAIN clients) :
    LET Header(i) == HeaderOf(SessionOf(turns[i]), STREAMID_NONE)
        Left(i) == IF i = 1 THEN [session_id |-> 0] ELSE Header(i - 1)
        Size(header, id, v) ==
          MessageHeader_size(header) + SubmessageHeader_size + getCdrSerializedSize(Payload(id, 0), v)
        heartbeat == [first_unacked_seq_nr |-> first, last_unacked_seq_nr |-> last,
                      stream_id |-> STREAMID_BUILTIN_RELIABLE]
        ping == [request_id |-> <<0, 0>>, object_id |-> OBJECTID_CLIENT, info_mask |-> <<0, 0, 0, 0>>]
    IN  /\ output' = [i \in DOMAIN turns |->
                        IF alive[turns[i]]
                        THEN InBuffer(Header(i), Size(Left(1), HEARTBEAT, heartbeat), HEARTBEAT, heartbeat)
                        ELSE InBuffer(Header(i), Size(Left(i), GET_INFO, ping), GET_INFO, ping)]
        /\ UNCHANGED <<clients, inbox, reading, client, fragment_msg, written, handled, refused>>

-----------------------------------------------------------------------------

process_submessage ==
  \/ process_create_client_in_session
  \/ process_create_submessage
  \/ process_get_info_submessage
  \/ process_delete_submessage
  \/ process_write_data_submessage
  \/ process_read_data_submessage
  \/ process_acknack_submessage
  \/ process_heartbeat_submessage
  \/ process_reset_submessage
  \/ process_fragment_submessage
  \/ process_timestamp_submessage
  \/ ignore_submessage

Next ==
  \/ SendInSession
  \/ SendOutOfSession
  \/ ClientsRead
  \/ process_input_packet
  \/ process_delete_unknown
  \/ process_get_info_packet
  \/ process_discovery_packet
  \/ ignore_packet
  \/ process_create_client_submessage
  \/ process_submessage
  \/ process_input_message_end
  \/ read_data_callback
  \/ read_request
  \/ check_heartbeats

Spec == Init /\ [][Next]_vars

-----------------------------------------------------------------------------
(* Properties.                                                             *)

\* The handlers get the submessages of a message in the order and with the values, down to
\* the names and the QoS of an object in binary, that the client has put into it, in whatever
\* endianness and however cut; and they get all of them unless one of them ends the message.
\* Nothing tells them where a submessage ends: each begins where the last was read up to.
ReadAsWritten ==
  /\ IsPrefix(handled, written)
  /\ inbox = <<>> /\ reading = <<>> => handled = written \/ refused

\* What a client makes of the messages that carry one submessage.
ClientGets(o) ==
  LET n == MessageHeader_size(o.header)
      After(m, k) == SubSeq(m.buf, k + 1, Len(m.buf))
      IsFragment(m) == m.buf[n + 1] = FRAGMENT
      cut == Len(o.messages) > 1 \/ IsFragment(o.messages[1])
      octets == IF cut THEN FlattenSeq([i \in DOMAIN o.messages |-> After(o.messages[i], n + 4)])
                ELSE After(o.messages[1], n)
      read == Deserialized(Payload(o.id, 0), octets, 4, octets[2] % 2, Len(octets) - 8)
  IN  /\ \A m \in Range(o.messages) : m.ok /\ Len(m.buf) =< o.limit
      /\ \A m \in Range(o.messages) : SubSeq(m.buf, 1, n) = MessageHeader(o.header)
      /\ cut => \A i \in DOMAIN o.messages :
                  SubSeq(o.messages[i].buf, n + 1, n + 4)
                    = SubmessageHeader(FRAGMENT, IF i = Len(o.messages) THEN 3 ELSE 1,
                                       Len(o.messages[i].buf) - n - 4)
      /\ octets[1] = o.id /\ octets[3] + 256 * octets[4] = Len(octets) - 4
      /\ read = Read(o.v, Len(octets))

\* What a submessage takes in a message.
TooLarge(o) ==
  o.limit < MessageHeader_size(o.header) + 4 + Len(Serialized(Payload(o.id, 0), o.v, 0, LITTLE_ENDIANNESS))

\* A client that begins its reply as the request began answers that request.
RequestIsNamed(o) ==
  "asked" \in DOMAIN o =>
    FastDDSReplier_write(o.v.data.serialized_data)
      = [related |-> o.asked.identity, output_data |-> o.asked.data]

\* What the processor sends arrives as it was meant, with a length that is right, in messages
\* of at most the mtu of the client: the buffers, whose sizes getCdrSerializedSize gives, hold
\* all of it, and a request comes with the identity that its reply has to name.  Only what a
\* stream without fragments cannot carry is lost, and a ping that check_heartbeats sends to a
\* client with a key in its header after one without.
SentAsMeant ==
  \A o \in Range(output) :
    \/ o.messages # <<>> /\ ClientGets(o) /\ RequestIsNamed(o)
    \/ o.messages = <<>> /\ TooLarge(o) /\ ~ is_reliable_stream(o.header.stream_id)
    \/ /\ o.id = GET_INFO /\ HasClientKey(o.header)
       /\ \E k \in DOMAIN clients : ~ HasClientKey(clients[k])
=============================================================================
