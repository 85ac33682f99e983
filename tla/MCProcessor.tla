---------------------------- MODULE MCProcessor ----------------------------
(***************************************************************************)
(* Values of the types for Processor: every branch of a union, optional    *)
(* members there and not there, strings and data of lengths that do and    *)
(* do not end at a multiple of four.  Their octets tell members apart.     *)
(***************************************************************************)
EXTENDS Processor

LOCAL INSTANCE SequencesExt
LOCAL INSTANCE FiniteSetsExt

Octets(n, k) == [i \in 1 .. n |-> k + i]

RECURSIVE Values(_, _), Products(_, _, _)

\* Values of type T, their octets from k on.
Values(T, k) ==
  CASE T.kind = "octet" -> {k}
    [] T.kind \in {"uint", "array"} -> {Octets(T.n, k)}
    [] T.kind = "string" -> {Octets(2, k), Octets(3, k)}
    [] T.kind = "sized" -> {<<>>, Octets(5, k)}
    [] T.kind = "vector" -> {<<>>} \cup {<<v, w>> : v \in Values(T.of, k), w \in Values(T.of, k + 1)}
    [] T.kind = "optional" -> {<<>>} \cup {<<v>> : v \in Values(T.of, k)}
    [] T.kind = "class" ->
         Products(T, T.wire, [m \in DOMAIN T.members |-> Default(T.members[m])])
    [] T.kind = "union" ->
         UNION {{[d |-> d, value |-> v] : v \in Values(T.branches[d], k)} : d \in DOMAIN T.branches}

\* Values of a class: all combinations of those of the members in names.
Products(T, names, v) ==
  IF names = <<>> THEN {v}
  ELSE UNION {Products(T, Tail(names), [v EXCEPT ![names[1]] = x]) :
                x \in Values(T.members[names[1]], 16 * Len(names))}

-----------------------------------------------------------------------------

\* One client with a key in its headers and a small mtu, one without; the first may come back
\* without one and with a larger mtu.
MCOpenings ==
  LET Opening(key, session, mtu, properties) ==
        [xrce_cookie |-> XRCE_COOKIE, xrce_version |-> <<1, 0>>, xrce_vendor_id |-> <<1, 15>>,
         client_key |-> key, session_id |-> session, properties |-> properties, mtu |-> <<0, mtu>>]
      property == CHOOSE v \in Values(Vector(Property), 32) : v # <<>>
  IN  {Opening(<<1, 2, 3, 4>>, 1, 16, <<property>>), Opening(<<1, 2, 3, 4>>, 129, 64, <<>>),
       Opening(<<5, 6, 7, 8>>, 129, 16, <<<<>>>>)}

OfSubmessage(id, format, v) == [id |-> id, format |-> format, v |-> v, object |-> <<>>]

RequestOf(kind) == [request_id |-> <<17, 18>>, object_id |-> <<19, 32 + kind>>]

Variants == {v \in Values(ObjectVariant, 64) : ~ IsBinary(v)}

\* One representation of each kind, for the octets of all its objects.
BinaryVariants == {CHOOSE v \in Values(ObjectVariant, 64) : v.d = d /\ IsBinary(v) : d \in DOMAIN BinaryOf}

Creations ==
  {OfSubmessage(CREATE, 0, RequestOf(v.d) @@ [object_representation |-> v]) : v \in Variants}
    \cup UNION {{[OfSubmessage(CREATE, 0, RequestOf(v.d) @@ [object_representation |-> v])
                   EXCEPT !.object = <<o>>] : o \in Values(BinaryOf[v.d], 96)} : v \in BinaryVariants}

Writes ==
  UNION {{OfSubmessage(WRITE_DATA, format, RequestOf(OBJK_DATAWRITER) @@ v) :
            v \in Values(Payload(WRITE_DATA, format), 128)} : format \in DOMAIN WrittenData}

Others ==
  {OfSubmessage(DELETE_ID, 0, RequestOf(kind)) : kind \in {OBJK_CLIENT, OBJK_TOPIC}}
    \cup {OfSubmessage(READ_DATA, 0, RequestOf(kind) @@ v) :
            kind \in {OBJK_DATAREADER, OBJK_TOPIC}, v \in Values(READ_DATA_Payload, 128)}
    \cup UNION {{OfSubmessage(id, 0, v) : v \in Values(Payload(id, 0), 144)} :
                  id \in {GET_INFO, ACKNACK, HEARTBEAT, TIMESTAMP, STATUS}}
    \cup {OfSubmessage(RESET, 0, <<>>)}
    \cup {OfSubmessage(CREATE_CLIENT, 0, [client_representation |-> o]) :
            o \in {p \in MCOpenings : p.properties = <<>>}}

\* Submessages after one: one aligned to four octets, one to two, and one of octets.
Followers == {OfSubmessage(TIMESTAMP, 0, v) : v \in Values(TIMESTAMP_Payload, 160)}

\* A submessage in a message, before another one in the other endianness.
InMessage(contents, streams, cuts) ==
  {[stream |-> s, content |-> <<c, f>>, es |-> es, cut |-> cut] :
     s \in streams, c \in contents, f \in Followers, es \in {<<0, 1>>, <<1, 0>>}, cut \in cuts}

\* A few of them.
Some ==
  {CHOOSE c \in Creations : c.v.object_representation.d = d : d \in {OBJK_CLIENT, OBJK_TOPIC}}
    \cup {CHOOSE c \in Writes : c.v.data.serialized_data # <<>>} \cup Others

MCMessages ==
  1 :> (InMessage(Creations \cup Writes, {128}, {0}) \cup InMessage(Some, {0, 1}, {0})
          \cup InMessage(Some, {128}, {0, 7})) @@
  129 :> (InMessage(Some, {1}, {0}) \cup InMessage(Some, {128}, {0, 10}))

MCPings == Values(GET_INFO_Payload, 144)
MCSamples == {[stream |-> s, request |-> RequestOf(OBJK_DATAREADER), data |-> Octets(n, 40)] :
                s \in {0, 1, 128}, n \in {0, 3, 4, 5, 16}}
MCRequests == {[stream |-> s, request |-> RequestOf(OBJK_REPLIER), identity |-> v, data |-> Octets(n, 40)] :
                 s \in {1, 128}, v \in Values(SampleIdentity, 0), n \in {0, 3, 4}}
MCTimes == Values(Time_t, 176)
MCNumbers == {<<1, 2>>}
MCAddresses == Values(Vector(TransportAddress), 48)
=============================================================================
