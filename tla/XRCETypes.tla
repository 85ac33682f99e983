------------------------------ MODULE XRCETypes ------------------------------
(***************************************************************************)
(* The types of the XRCE protocol.  For every class, X_members gives the   *)
(* types of its members, and X how serialize and deserialize visit them    *)
(* and what getCdrSerializedSize counts, where that is something else: the *)
(* sizes of most binary representations leave out the flags of optional    *)
(* members, and count them whether they are there or not.                  *)
(***************************************************************************)
EXTENDS Cdr, XRCEConstants, TLC

(* Names of types.                                                         *)

ClientKey == Array(4)
ObjectId == Array(2)
XrceCookie == Array(4)
XrceVersion == Array(2)
XrceVendorId == Array(2)
RequestId == Array(2)
GuidPrefix_t == Array(12)

-----------------------------------------------------------------------------
(* Times and addresses.                                                    *)

Time_t_members == [seconds |-> UInt(4), nanoseconds |-> UInt(4)]
Time_t == InOrder(Time_t_members, <<"seconds", "nanoseconds">>)

TransportAddressSmall_members == [address |-> Array(2), port |-> Octet]
TransportAddressSmall == InOrder(TransportAddressSmall_members, <<"address", "port">>)

TransportAddressMedium_members == [address |-> Array(4), port |-> UInt(2)]
TransportAddressMedium == InOrder(TransportAddressMedium_members, <<"address", "port">>)

TransportAddressLarge_members == [address |-> Array(16), port |-> UInt(4)]
TransportAddressLarge == InOrder(TransportAddressLarge_members, <<"address", "port">>)

TransportAddressString_members == [value |-> String]
TransportAddressString == InOrder(TransportAddressString_members, <<"value">>)

TransportAddress_members ==
  ADDRESS_FORMAT_SMALL :> TransportAddressSmall @@
  ADDRESS_FORMAT_MEDIUM :> TransportAddressMedium @@
  ADDRESS_FORMAT_LARGE :> TransportAddressLarge @@ ADDRESS_FORMAT_STRING :> TransportAddressString
TransportAddress == Union(TransportAddress_members)

-----------------------------------------------------------------------------
(* The client and the agent.                                               *)

Property_members == [name |-> String, value |-> String]
Property == InOrder(Property_members, <<"name", "value">>)

CLIENT_Representation_members ==
  [xrce_cookie |-> XrceCookie, xrce_version |-> XrceVersion, xrce_vendor_id |-> XrceVendorId,
  client_key |-> ClientKey, session_id |-> Octet, properties |-> Optional(Vector(Property)),
  mtu |-> UInt(2)]
CLIENT_Representation == Class(CLIENT_Representation_members,
  <<"xrce_cookie", "xrce_version", "xrce_vendor_id", "client_key", "session_id",
    "properties", "mtu">>,
  <<<<"xrce_cookie", XrceCookie>>, <<"xrce_version", XrceVersion>>,
  <<"xrce_vendor_id", XrceVendorId>>, <<"client_key", ClientKey>>, <<"session_id", Octet>>,
  <<"properties", Optional(Elements(Property))>>, <<"mtu", Array(2)>>>>)

AGENT_Representation_members ==
  [xrce_cookie |-> XrceCookie, xrce_version |-> XrceVersion, xrce_vendor_id |-> XrceVendorId,
  properties |-> Optional(Vector(Property))]
AGENT_Representation == Class(AGENT_Representation_members,
  <<"xrce_cookie", "xrce_version", "xrce_vendor_id", "properties">>,
  <<<<"xrce_cookie", XrceCookie>>, <<"xrce_version", XrceVersion>>,
  <<"xrce_vendor_id", XrceVendorId>>, <<"properties", Optional(Elements(Property))>>>>)

-----------------------------------------------------------------------------
(* Representations of objects: a name, a text or octets.                   *)

OBJK_Representation3Formats_members ==
  REPRESENTATION_BY_REFERENCE :> String @@ REPRESENTATION_AS_XML_STRING :> String @@
  REPRESENTATION_IN_BINARY :> Vector(Octet)
OBJK_Representation3Formats == Union(OBJK_Representation3Formats_members)

OBJK_RepresentationRefAndXMLFormats_members ==
  REPRESENTATION_BY_REFERENCE :> String @@ REPRESENTATION_AS_XML_STRING :> String
OBJK_RepresentationRefAndXMLFormats == Union(OBJK_RepresentationRefAndXMLFormats_members)

OBJK_RepresentationBinAndXMLFormats_members ==
  REPRESENTATION_IN_BINARY :> Vector(Octet) @@ REPRESENTATION_AS_XML_STRING :> String
OBJK_RepresentationBinAndXMLFormats == Union(OBJK_RepresentationBinAndXMLFormats_members)

OBJK_RepresentationRefAndXML_Base_members ==
  [representation |-> OBJK_RepresentationRefAndXMLFormats]
OBJK_RepresentationRefAndXML_Base == InOrder(OBJK_RepresentationRefAndXML_Base_members,
  <<"representation">>)

OBJK_RepresentationBinAndXML_Base_members ==
  [representation |-> OBJK_RepresentationBinAndXMLFormats, endianness |-> Octet]
OBJK_RepresentationBinAndXML_Base == InOrder(OBJK_RepresentationBinAndXML_Base_members,
  <<"representation">>)

OBJK_Representation3_Base_members ==
  [representation |-> OBJK_Representation3Formats, endianness |-> Octet]
OBJK_Representation3_Base == InOrder(OBJK_Representation3_Base_members, <<"representation">>)

-----------------------------------------------------------------------------
(* The objects a client creates.                                           *)

OBJK_QOSPROFILE_Representation_members == OBJK_RepresentationRefAndXML_Base.members
OBJK_QOSPROFILE_Representation ==
  Derived(OBJK_RepresentationRefAndXML_Base, OBJK_QOSPROFILE_Representation_members, <<>>)

OBJK_TYPE_Representation_members == OBJK_RepresentationRefAndXML_Base.members
OBJK_TYPE_Representation ==
  Derived(OBJK_RepresentationRefAndXML_Base, OBJK_TYPE_Representation_members, <<>>)

OBJK_APPLICATION_Representation_members == OBJK_RepresentationRefAndXML_Base.members
OBJK_APPLICATION_Representation ==
  Derived(OBJK_RepresentationRefAndXML_Base, OBJK_APPLICATION_Representation_members, <<>>)

OBJK_PARTICIPANT_Representation_members == OBJK_Representation3_Base.members @@
  [domain_id |-> UInt(2)]
OBJK_PARTICIPANT_Representation ==
  Derived(OBJK_Representation3_Base, OBJK_PARTICIPANT_Representation_members, <<"domain_id">>)

OBJK_TOPIC_Representation_members == OBJK_Representation3_Base.members @@
  [participant_id |-> ObjectId]
OBJK_TOPIC_Representation ==
  Derived(OBJK_Representation3_Base, OBJK_TOPIC_Representation_members, <<"participant_id">>)

OBJK_PUBLISHER_Representation_members == OBJK_RepresentationBinAndXML_Base.members @@
  [participant_id |-> ObjectId]
OBJK_PUBLISHER_Representation ==
  Derived(OBJK_RepresentationBinAndXML_Base, OBJK_PUBLISHER_Representation_members, <<"participant_id">>)

OBJK_SUBSCRIBER_Representation_members == OBJK_RepresentationBinAndXML_Base.members @@
  [participant_id |-> ObjectId]
OBJK_SUBSCRIBER_Representation ==
  Derived(OBJK_RepresentationBinAndXML_Base, OBJK_SUBSCRIBER_Representation_members, <<"participant_id">>)

DATAWRITER_Representation_members == OBJK_Representation3_Base.members @@
  [publisher_id |-> ObjectId]
DATAWRITER_Representation ==
  Derived(OBJK_Representation3_Base, DATAWRITER_Representation_members, <<"publisher_id">>)

DATAREADER_Representation_members == OBJK_Representation3_Base.members @@
  [subscriber_id |-> ObjectId]
DATAREADER_Representation ==
  Derived(OBJK_Representation3_Base, DATAREADER_Representation_members, <<"subscriber_id">>)

REQUESTER_Representation_members == OBJK_Representation3_Base.members @@
  [participant_id |-> ObjectId]
REQUESTER_Representation ==
  Derived(OBJK_Representation3_Base, REQUESTER_Representation_members, <<"participant_id">>)

REPLIER_Representation_members == OBJK_Representation3_Base.members @@ [participant_id |-> ObjectId]
REPLIER_Representation ==
  Derived(OBJK_Representation3_Base, REPLIER_Representation_members, <<"participant_id">>)

-----------------------------------------------------------------------------
(* What the octets of a binary representation hold.                        *)

OBJK_DomainParticipant_Binary_members ==
  [domain_id |-> UInt(4), domain_reference |-> Optional(String), qos_profile |-> Optional(String)]
OBJK_DomainParticipant_Binary == Class(OBJK_DomainParticipant_Binary_members,
  <<"domain_reference", "qos_profile">>,
  <<<<"domain_reference", Held(String)>>, <<"qos_profile", Held(String)>>>>)

OBJK_Topic_Binary_members ==
  [topic_name |-> String, type_name |-> Optional(String), type_identifier |-> Optional(String)]
OBJK_Topic_Binary == Class(OBJK_Topic_Binary_members,
  <<"topic_name", "type_identifier", "type_name">>,
  <<<<"topic_name", String>>, <<"type_name", Held(String)>>, <<"type_identifier", Held(String)>>>>)

OBJK_PUBLISHER_QosBinary_members == [partitions |-> Vector(String), group_data |-> Vector(String)]
OBJK_PUBLISHER_QosBinary == InOrder(OBJK_PUBLISHER_QosBinary_members,
  <<"partitions", "group_data">>)

OBJK_Publisher_Binary_members ==
  [publisher_name |-> Optional(String), qos |-> Optional(OBJK_PUBLISHER_QosBinary)]
OBJK_Publisher_Binary == Class(OBJK_Publisher_Binary_members,
  <<"publisher_name", "qos">>,
  <<<<"publisher_name", Held(String)>>, <<"qos", Held(OBJK_PUBLISHER_QosBinary)>>>>)

OBJK_SUBSCRIBER_QosBinary_members == [partitions |-> Vector(String), group_data |-> Vector(Octet)]
OBJK_SUBSCRIBER_QosBinary == InOrder(OBJK_SUBSCRIBER_QosBinary_members,
  <<"partitions", "group_data">>)

OBJK_Subscriber_Binary_members ==
  [subscriber_name |-> Optional(String), qos |-> Optional(OBJK_SUBSCRIBER_QosBinary)]
OBJK_Subscriber_Binary == Class(OBJK_Subscriber_Binary_members,
  <<"subscriber_name", "qos">>,
  <<<<"subscriber_name", Held(String)>>, <<"qos", Apart(Held(OBJK_SUBSCRIBER_QosBinary))>>>>)

OBJK_Endpoint_QosBinary_members ==
  [qos_flags |-> UInt(2), history_depth |-> Optional(UInt(2)), deadline_msec |-> Optional(UInt(4)),
  lifespan_msec |-> Optional(UInt(4)), user_data |-> Optional(Vector(Octet))]
OBJK_Endpoint_QosBinary == Class(OBJK_Endpoint_QosBinary_members,
  <<"qos_flags", "history_depth", "deadline_msec", "lifespan_msec", "user_data">>,
  <<<<"qos_flags", UInt(2)>>, <<"history_depth", Held(UInt(2))>>, <<"deadline_msec", Held(UInt(4))>>,
  <<"lifespan_msec", Held(UInt(4))>>, <<"user_data", Held(Vector(Octet))>>>>)

OBJK_DataReader_Binary_Qos_members ==
  [base |-> OBJK_Endpoint_QosBinary, timebasedfilter_msec |-> Optional(UInt(4)),
  contentbased_filter |-> Optional(String)]
OBJK_DataReader_Binary_Qos == Class(OBJK_DataReader_Binary_Qos_members,
  <<"base", "timebasedfilter_msec", "contentbased_filter">>,
  <<<<"timebasedfilter_msec", Held(UInt(4))>>, <<"contentbased_filter", Held(String)>>>>)

OBJK_DataReader_Binary_members ==
  [topic_id |-> ObjectId, qos |-> Optional(OBJK_DataReader_Binary_Qos)]
OBJK_DataReader_Binary == Class(OBJK_DataReader_Binary_members,
  <<"topic_id", "qos">>,
  <<<<"topic_id", String>>, <<"qos", Held(OBJK_DataReader_Binary_Qos)>>>>)

OBJK_DataWriter_Binary_Qos_members ==
  [base |-> OBJK_Endpoint_QosBinary, ownership_strength |-> Optional(UInt(4))]
OBJK_DataWriter_Binary_Qos == Class(OBJK_DataWriter_Binary_Qos_members,
  <<"base", "ownership_strength">>,
  <<<<"ownership_strength", Held(UInt(4))>>>>)

OBJK_DataWriter_Binary_members ==
  [topic_id |-> ObjectId, qos |-> Optional(OBJK_DataWriter_Binary_Qos)]
OBJK_DataWriter_Binary == Class(OBJK_DataWriter_Binary_members,
  <<"topic_id", "qos">>,
  <<<<"topic_id", String>>>>)

-----------------------------------------------------------------------------
(* Objects, activity and results.                                          *)

ObjectVariant_members ==
  OBJK_AGENT :> AGENT_Representation @@ OBJK_CLIENT :> CLIENT_Representation @@
  OBJK_APPLICATION :> OBJK_APPLICATION_Representation @@
  OBJK_PARTICIPANT :> OBJK_PARTICIPANT_Representation @@
  OBJK_QOSPROFILE :> OBJK_QOSPROFILE_Representation @@ OBJK_TYPE :> OBJK_TYPE_Representation @@
  OBJK_TOPIC :> OBJK_TOPIC_Representation @@ OBJK_PUBLISHER :> OBJK_PUBLISHER_Representation @@
  OBJK_SUBSCRIBER :> OBJK_SUBSCRIBER_Representation @@
  OBJK_DATAWRITER :> DATAWRITER_Representation @@ OBJK_DATAREADER :> DATAREADER_Representation @@
  OBJK_REQUESTER :> REQUESTER_Representation @@ OBJK_REPLIER :> REPLIER_Representation
ObjectVariant == Union(ObjectVariant_members)

ResultStatus_members == [status |-> Octet, implementation_status |-> Octet]
ResultStatus == InOrder(ResultStatus_members, <<"status", "implementation_status">>)

AGENT_ActivityInfo_members == [availability |-> UInt(2), address_seq |-> Vector(TransportAddress)]
\* Bug: the size leaves out the number of addresses.
Bug_AddressesOnly ==
  Class(AGENT_ActivityInfo_members, <<"availability", "address_seq">>,
        <<<<"availability", UInt(2)>>, <<"address_seq", Elements(TransportAddress)>>>>)

AGENT_ActivityInfo == InOrder(AGENT_ActivityInfo_members, <<"availability", "address_seq">>)

DATAREADER_ActivityInfo_members == [highest_acked_num |-> UInt(2)]
DATAREADER_ActivityInfo == InOrder(DATAREADER_ActivityInfo_members, <<"highest_acked_num">>)

DATAWRITER_ActivityInfo_members == [stream_seq_num |-> UInt(2), sample_seq_num |-> UInt(8)]
DATAWRITER_ActivityInfo == InOrder(DATAWRITER_ActivityInfo_members,
  <<"stream_seq_num", "sample_seq_num">>)

ActivityInfoVariant_members ==
  OBJK_AGENT :> AGENT_ActivityInfo @@ OBJK_DATAWRITER :> DATAWRITER_ActivityInfo @@
  OBJK_DATAREADER :> DATAREADER_ActivityInfo
ActivityInfoVariant == Union(ActivityInfoVariant_members)

ObjectInfo_members ==
  [config |-> Optional(ObjectVariant), activity |-> Optional(ActivityInfoVariant)]
ObjectInfo == InOrder(ObjectInfo_members, <<"config", "activity">>)

-----------------------------------------------------------------------------
(* Requests and replies.                                                   *)

BaseObjectRequest_members == [request_id |-> RequestId, object_id |-> ObjectId]
BaseObjectRequest == InOrder(BaseObjectRequest_members, <<"request_id", "object_id">>)

BaseObjectReply_members == [related_request |-> BaseObjectRequest, result |-> ResultStatus]
BaseObjectReply == InOrder(BaseObjectReply_members, <<"related_request", "result">>)

DataDeliveryControl_members ==
  [max_samples |-> UInt(2), max_elapsed_time |-> UInt(2), max_bytes_per_second |-> UInt(2),
  min_pace_period |-> UInt(2)]
DataDeliveryControl == InOrder(DataDeliveryControl_members,
  <<"max_samples", "max_elapsed_time", "max_bytes_per_second", "min_pace_period">>)

ReadSpecification_members ==
  [preferred_stream_id |-> Octet, data_format |-> Octet,
  content_filter_expression |-> Optional(String),
  delivery_control |-> Optional(DataDeliveryControl)]
ReadSpecification == InOrder(ReadSpecification_members,
  <<"preferred_stream_id", "data_format", "content_filter_expression", "delivery_control">>)

-----------------------------------------------------------------------------
(* Samples.                                                                *)

SampleInfo_members ==
  [state |-> Octet, sequence_number |-> UInt(4), session_time_offset |-> UInt(4)]
SampleInfo == InOrder(SampleInfo_members, <<"state", "sequence_number", "session_time_offset">>)

SampleInfoDelta_members ==
  [state |-> Octet, seq_number_delta |-> Octet, timestamp_delta |-> UInt(2)]
SampleInfoDelta == InOrder(SampleInfoDelta_members,
  <<"state", "seq_number_delta", "timestamp_delta">>)

SampleData_members == [serialized_data |-> Sized]
SampleData == InOrder(SampleData_members, <<"serialized_data">>)

Sample_members == [info |-> SampleInfo, data |-> SampleData]
Sample == InOrder(Sample_members, <<"info", "data">>)

SampleDelta_members == [info_delta |-> SampleInfoDelta, data |-> SampleData]
SampleDelta == InOrder(SampleDelta_members, <<"info_delta", "data">>)

PackedSamples_members == [info_base |-> SampleInfo, sample_delta_seq |-> Vector(SampleDelta)]
PackedSamples == InOrder(PackedSamples_members, <<"info_base", "sample_delta_seq">>)

-----------------------------------------------------------------------------
(* Payloads.                                                               *)

CREATE_CLIENT_Payload_members == [client_representation |-> CLIENT_Representation]
CREATE_CLIENT_Payload == InOrder(CREATE_CLIENT_Payload_members, <<"client_representation">>)

CREATE_Payload_members == BaseObjectRequest.members @@ [object_representation |-> ObjectVariant]
CREATE_Payload == Derived(BaseObjectRequest, CREATE_Payload_members, <<"object_representation">>)

GET_INFO_Payload_members == BaseObjectRequest.members @@ [info_mask |-> UInt(4)]
GET_INFO_Payload == Derived(BaseObjectRequest, GET_INFO_Payload_members, <<"info_mask">>)

DELETE_Payload_members == BaseObjectRequest.members
DELETE_Payload == Derived(BaseObjectRequest, DELETE_Payload_members, <<>>)

STATUS_AGENT_Payload_members == [result |-> ResultStatus, agent_info |-> AGENT_Representation]
STATUS_AGENT_Payload == InOrder(STATUS_AGENT_Payload_members, <<"result", "agent_info">>)

STATUS_Payload_members == BaseObjectReply.members
STATUS_Payload == Derived(BaseObjectReply, STATUS_Payload_members, <<>>)

INFO_Payload_members == BaseObjectReply.members @@ [object_info |-> ObjectInfo]
INFO_Payload == Derived(BaseObjectReply, INFO_Payload_members, <<"object_info">>)

READ_DATA_Payload_members == BaseObjectRequest.members @@ [read_specification |-> ReadSpecification]
READ_DATA_Payload == Derived(BaseObjectRequest, READ_DATA_Payload_members, <<"read_specification">>)

WRITE_DATA_Payload_Data_members == BaseObjectRequest.members @@ [data |-> SampleData]
WRITE_DATA_Payload_Data == Derived(BaseObjectRequest, WRITE_DATA_Payload_Data_members, <<"data">>)

WRITE_DATA_Payload_Sample_members == BaseObjectRequest.members @@ [sample |-> Sample]
WRITE_DATA_Payload_Sample ==
  Derived(BaseObjectRequest, WRITE_DATA_Payload_Sample_members, <<"sample">>)

WRITE_DATA_Payload_DataSeq_members == BaseObjectRequest.members @@ [data_seq |-> Vector(SampleData)]
WRITE_DATA_Payload_DataSeq ==
  Derived(BaseObjectRequest, WRITE_DATA_Payload_DataSeq_members, <<"data_seq">>)

WRITE_DATA_Payload_SampleSeq_members == BaseObjectRequest.members @@ [sample_seq |-> Vector(Sample)]
WRITE_DATA_Payload_SampleSeq ==
  Derived(BaseObjectRequest, WRITE_DATA_Payload_SampleSeq_members, <<"sample_seq">>)

WRITE_DATA_Payload_PackedSamples_members == BaseObjectRequest.members @@
  [packed_samples |-> PackedSamples]
WRITE_DATA_Payload_PackedSamples ==
  Derived(BaseObjectRequest, WRITE_DATA_Payload_PackedSamples_members, <<"packed_samples">>)

DATA_Payload_Data_members == BaseObjectRequest.members @@ [data |-> SampleData]
DATA_Payload_Data == Derived(BaseObjectRequest, DATA_Payload_Data_members, <<"data">>)

ACKNACK_Payload_members ==
  [first_unacked_seq_num |-> UInt(2), nack_bitmap |-> Array(2), stream_id |-> Octet]
ACKNACK_Payload == InOrder(ACKNACK_Payload_members,
  <<"first_unacked_seq_num", "nack_bitmap", "stream_id">>)

HEARTBEAT_Payload_members ==
  [first_unacked_seq_nr |-> UInt(2), last_unacked_seq_nr |-> UInt(2), stream_id |-> Octet]
HEARTBEAT_Payload == InOrder(HEARTBEAT_Payload_members,
  <<"first_unacked_seq_nr", "last_unacked_seq_nr", "stream_id">>)

TIMESTAMP_Payload_members == [transmit_timestamp |-> Time_t]
TIMESTAMP_Payload == InOrder(TIMESTAMP_Payload_members, <<"transmit_timestamp">>)

TIMESTAMP_REPLY_Payload_members ==
  [transmit_timestamp |-> Time_t, receive_timestamp |-> Time_t, originate_timestamp |-> Time_t]
TIMESTAMP_REPLY_Payload == InOrder(TIMESTAMP_REPLY_Payload_members,
  <<"transmit_timestamp", "receive_timestamp", "originate_timestamp">>)

-----------------------------------------------------------------------------
(* Requests and replies over DDS.                                          *)

OBJK_Requester_Binary_members ==
  [service_name |-> String, request_type |-> String, reply_type |-> String,
  reply_topic_name |-> Optional(String), request_topic_name |-> Optional(String)]
OBJK_Requester_Binary == Class(OBJK_Requester_Binary_members,
  <<"service_name", "request_type", "reply_type", "request_topic_name", "reply_topic_name">>,
  <<<<"service_name", String>>, <<"request_type", String>>, <<"reply_type", String>>,
  <<"reply_topic_name", Held(String)>>, <<"request_topic_name", Held(String)>>>>)

OBJK_Replier_Binary_members ==
  [service_name |-> String, request_type |-> String, reply_type |-> String,
  reply_topic_name |-> Optional(String), request_topic_name |-> Optional(String)]
OBJK_Replier_Binary == Class(OBJK_Replier_Binary_members,
  <<"service_name", "request_type", "reply_type", "request_topic_name", "reply_topic_name">>,
  <<<<"service_name", String>>, <<"request_type", String>>, <<"reply_type", String>>,
  <<"reply_topic_name", Held(String)>>, <<"request_topic_name", Held(String)>>>>)

EntityId_t_members == [entityKey |-> Array(3), entityKind |-> Octet]
EntityId_t == Class(EntityId_t_members,
  <<"entityKey", "entityKind">>,
  <<<<"entityKey", Array(2)>>, <<"entityKind", Octet>>>>)

GUID_t_members == [guidPrefix |-> GuidPrefix_t, entityId |-> EntityId_t]
GUID_t == InOrder(GUID_t_members, <<"guidPrefix", "entityId">>)

SequenceNumber_t_members == [high |-> UInt(4), low |-> UInt(4)]
SequenceNumber_t == InOrder(SequenceNumber_t_members, <<"high", "low">>)

SampleIdentity_members == [writer_guid |-> GUID_t, sequence_number |-> SequenceNumber_t]
SampleIdentity == InOrder(SampleIdentity_members, <<"writer_guid", "sequence_number">>)
=============================================================================
