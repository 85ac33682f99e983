--------------------------- MODULE XRCEConstants ----------------------------
(***************************************************************************)
(* The constants of the XRCE protocol: kinds of objects, fixed ids,        *)
(* formats, statuses and submessages (types/XRCETypes.hpp).                *)
(***************************************************************************)

OBJK_PARTICIPANT == 1
OBJK_TOPIC == 2
OBJK_PUBLISHER == 3
OBJK_SUBSCRIBER == 4
OBJK_DATAWRITER == 5
OBJK_DATAREADER == 6
OBJK_REQUESTER == 7
OBJK_REPLIER == 8
OBJK_TYPE == 10
OBJK_QOSPROFILE == 11
OBJK_APPLICATION == 12
OBJK_AGENT == 13
OBJK_CLIENT == 14

OBJECTID_CLIENT == <<255, 254>>
XRCE_COOKIE == <<88, 82, 67, 69>>
SESSIONID_NONE_WITH_CLIENT_KEY == 0
SESSIONID_NONE_WITHOUT_CLIENT_KEY == 128
STREAMID_NONE == 0
STREAMID_BUILTIN_BEST_EFFORTS == 1
STREAMID_BUILTIN_RELIABLE == 128

ADDRESS_FORMAT_SMALL == 0
ADDRESS_FORMAT_MEDIUM == 1
ADDRESS_FORMAT_LARGE == 2
ADDRESS_FORMAT_STRING == 3
REPRESENTATION_BY_REFERENCE == 1
REPRESENTATION_AS_XML_STRING == 2
REPRESENTATION_IN_BINARY == 3

STATUS_OK == 0
STATUS_ERR_DDS_ERROR == 128
STATUS_ERR_UNKNOWN_REFERENCE == 132
STATUS_ERR_RESOURCES == 135

CREATE_CLIENT == 0
CREATE == 1
GET_INFO == 2
DELETE_ID == 3
STATUS_AGENT == 4
STATUS == 5
INFO == 6
WRITE_DATA == 7
READ_DATA == 8
DATA == 9
ACKNACK == 10
HEARTBEAT == 11
RESET == 12
FRAGMENT == 13
TIMESTAMP == 14
TIMESTAMP_REPLY == 15
=============================================================================
