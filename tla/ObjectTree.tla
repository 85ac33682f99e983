----------------------------- MODULE ObjectTree -----------------------------
(***************************************************************************)
(* The XRCE objects of the clients and the CED entities behind them:       *)
(* ProxyClient::objects_, the maps of each client's CedMiddleware, and the *)
(* topics that all clients of the agent share (CedTopicManager).           *)
(*                                                                         *)
(* The processing thread runs CREATE and DELETE; the heartbeat thread      *)
(* releases the clients it removes.  A step of the model is what runs      *)
(* between two acquisitions of CedTopicManager::mtx_.  CED objects are     *)
(* held by shared_ptr: one is destroyed in the step that drops its last    *)
(* holder, and its destructor is part of that step, except for             *)
(* unregister_topic, which has to take the manager's mutex.                *)
(*                                                                         *)
(* A reference or an XML text stands for the topic name that is left of it *)
(* when the suffix has been cut off; CED reads nothing else from it.       *)
(***************************************************************************)
EXTENDS Naturals, FiniteSets, Functions

CONSTANTS
    Clients,
    Names,          \* topic names
    Domains,        \* DDS domains
    Creations,      \* Creations[c]: the CREATE submessages client c sends
    MaxParticipants, \* bound on the CedParticipant objects of each client
    None,           \* no object, no client, no request
    Dangling        \* a reference to an erased map entry

Kinds == {"participant", "topic", "publisher", "subscriber",
          "datawriter", "datareader", "requester", "replier"}

\* An object id, as the object_id of a message: the kind and a number.
Id(kinds) == kinds \X Nat

\* A CREATE names the object, its parent, and a domain, a topic name or, in a
\* binary representation, an id where a topic object is meant.  The kinds of the
\* object and of its parent are not the client's: the agent puts them in the ids.
CREATE ==
    [id : Id({"participant"}), parent : {None}, arg : Domains]
        \cup [id : Id({"topic"}), parent : Id({"participant"}), arg : Names]
        \cup [id : Id({"publisher", "subscriber"}), parent : Id({"participant"}), arg : {None}]
        \cup [id : Id({"datawriter"}), parent : Id({"publisher"}), arg : Names \cup Id(Kinds)]
        \cup [id : Id({"datareader"}), parent : Id({"subscriber"}), arg : Names \cup Id(Kinds)]
        \cup [id : Id({"requester", "replier"}), parent : Id({"participant"}), arg : Names]

\* The addresses of CedParticipant and CedTopic objects.  An address names what is at it.
ParticipantsAt == Clients \X Nat
TopicsAt == (ParticipantsAt \X Names) \X Nat

ASSUME CreationsAssumption == \A c \in Clients : Creations[c] \subseteq CREATE
ASSUME ParticipantsAssumption == MaxParticipants \in [Clients -> Nat]
ASSUME NoneAssumption == None \notin ParticipantsAt /\ None \notin TopicsAt

VARIABLES
    objects,         \* objects_ of each client
    entities,        \* the maps of each client's CedMiddleware, by raw id
    participants,    \* CedParticipant objects: domain_id_ and topic_register_
    topics,          \* CedTopic objects: participant_ and global_topic_
    globals,         \* CedGlobalTopic objects: domain_id_ and name_
    registry,        \* CedTopicManager::topics_
    request,         \* the creation the processing thread is about to do
    releasing,       \* the client whose objects_ the heartbeat thread clears
    unregistering,   \* global topics whose destructor waits for the manager
    fault            \* the program has run into undefined behaviour

vars == <<objects, entities, participants, topics, globals, registry,
          request, releasing, unregistering, fault>>
ced == <<participants, topics, globals, registry>>

Threads == {"processing", "heartbeat"}
Kind(id) == id[1]
Ids(c) == {q.id : q \in Creations[c]}

\* A CED entity names the participant and the topic it refers to.  The
\* participant of a subscriber is a reference into participants_, which does
\* not keep it alive: Dangling once that entry is erased.
Entity(p, t) == [participant |-> p, topic |-> t]

TopicName(t) == globals[topics[t].global].name

\* The topic name a representation of a writer or a reader refers to.
NameOf(c, arg) ==
    IF arg \in Names THEN arg
    ELSE IF arg \in DOMAIN entities[c] /\ Kind(arg) = "topic" THEN TopicName(entities[c][arg].topic)
    ELSE None

matched_participant(c, id, domain) == participants[entities[c][id].participant].domain = domain
matched_topic(c, id, name) == TopicName(entities[c][id].topic) = name

\* Whether an object is the one a representation describes.  The parent is not
\* compared, and publishers and subscribers match whatever is asked.
matched(c, q) ==
    CASE Kind(q.id) = "participant" -> matched_participant(c, q.id, q.arg)
      [] Kind(q.id) = "topic" -> matched_topic(c, q.id, q.arg)
      [] Kind(q.id) \in {"datawriter", "datareader"} -> matched_topic(c, q.id, NameOf(c, q.arg))
      [] OTHER -> TRUE

Init ==
    /\ objects = [c \in Clients |-> {}]
    /\ entities = [c \in Clients |-> [i \in {} |-> None]]
    /\ participants = [p \in {} |-> None]
    /\ topics = [t \in {} |-> None]
    /\ globals = [g \in {} |-> None]
    /\ registry = [k \in {} |-> None]
    /\ request = None
    /\ releasing = None
    /\ unregistering = [h \in Threads |-> {}]
    /\ fault = FALSE

-----------------------------------------------------------------------------
(* Destruction.                                                            *)

\* The CED objects that the entities e keep alive.
Holders(e) ==
    LET counted(c) == {i \in DOMAIN e[c] : Kind(i) # "subscriber"}
    IN  UNION {{e[c][i] : i \in counted(c)} : c \in Clients}
LiveTopics(e) == {x.topic : x \in Holders(e)} \ {None}
LiveParticipants(e) ==
    ({x.participant : x \in Holders(e)} \ {None}) \cup {topics[t].participant : t \in LiveTopics(e)}
LiveGlobals(e) == {topics[t].global : t \in LiveTopics(e)}

\* Mutant: the destructor of an object leaves its entity behind.
Bug_NoDelete(c, id) == entities

\* erase of a map entry: the references into participants_ go with the entry.
Without(c, id) ==
    [entities EXCEPT ![c] =
        [i \in DOMAIN @ \ {id} |->
            IF /\ Kind(id) = "participant" /\ Kind(i) = "subscriber"
               /\ @[i].participant = @[id].participant
            THEN Entity(Dangling, None) ELSE @[i]]]

\* Mutant: ~CedTopic forgets the register.
Bug_KeepName(p, dead) == participants[p].register

\* ~CedTopic takes the topic's name out of its participant's register.
unregistered(p, dead) ==
    LET names == {TopicName(t) : t \in {u \in dead : topics[u].participant = p}}
    IN  Restrict(participants[p].register, DOMAIN participants[p].register \ names)

\* objects_.erase(id): the object's destructor deletes its entity, and
\* whatever nobody holds any more is destroyed; ~CedGlobalTopic is left waiting.
Erase(h, c, id) ==
    LET e == Without(c, id)
        deadTopics == DOMAIN topics \ LiveTopics(e)
        deadGlobals == DOMAIN globals \ LiveGlobals(e)
    IN  /\ objects' = [objects EXCEPT ![c] = @ \ {id}]
        /\ entities' = e
        /\ topics' = Restrict(topics, LiveTopics(e))
        /\ globals' = Restrict(globals, LiveGlobals(e))
        /\ participants' = [p \in LiveParticipants(e) |->
               [participants[p] EXCEPT !.register = unregistered(p, deadTopics)]]
        /\ unregistering' = [unregistering EXCEPT ![h] =
               {<<globals[g].domain, globals[g].name>> : g \in deadGlobals}]
        /\ UNCHANGED registry

\* Mutant: the entry of a destroyed topic stays.
Bug_KeepEntry(h) ==
    /\ ~fault
    /\ \E k \in unregistering[h] : unregistering' = [unregistering EXCEPT ![h] = @ \ {k}]
    /\ UNCHANGED <<objects, entities, ced, request, releasing, fault>>

\* CedTopicManager::unregister_topic, in the destructor that waited for it.
unregister_topic(h) ==
    /\ ~fault
    /\ \E k \in unregistering[h] :
         /\ unregistering' = [unregistering EXCEPT ![h] = @ \ {k}]
         /\ registry' = IF k \in DOMAIN registry /\ registry[k] \notin DOMAIN globals
                        THEN Restrict(registry, DOMAIN registry \ {k})
                        ELSE registry
    /\ UNCHANGED <<objects, entities, participants, topics, globals,
                   request, releasing, fault>>

-----------------------------------------------------------------------------
(* Creation.                                                               *)

\* A new object of the given owner; the allocator may use an address again.
Fresh(owner, used) ==
    <<owner, CHOOSE n \in 1..(Cardinality(used) + 1) : <<owner, n>> \notin used>>

\* emplace of a key that is not there, or of what is there already.
Put(map, key, value) ==
    [k \in DOMAIN map \cup {key} |-> IF k = key THEN value ELSE map[k]]
With(c, id, e) == [entities EXCEPT ![c] = Put(@, id, e)]

\* The end of a creation: the entity and then the object enter their maps.
Created(c, id, e) ==
    /\ entities' = With(c, id, e)
    /\ objects' = [objects EXCEPT ![c] = @ \cup {id}]
    /\ UNCHANGED fault

\* ERR_UNKNOWN_REFERENCE or ERR_DDS_ERROR is answered, nothing changes.
NotCreated == UNCHANGED <<objects, entities, ced, fault>>

Fault ==
    /\ fault' = TRUE
    /\ UNCHANGED <<objects, entities, ced>>

\* Mutant: a registered topic is not looked up, and emplace keeps the old entry.
Bug_OwnTopic(c, id, p, name) ==
    LET key == <<participants[p].domain, name>>
        g == Fresh(key, DOMAIN globals \cup Range(registry))
        t == Fresh(<<p, name>>, DOMAIN topics)
    IN  /\ registry' = IF key \in DOMAIN registry THEN registry ELSE Put(registry, key, g)
        /\ globals' = Put(globals, g, [domain |-> participants[p].domain, name |-> name])
        /\ topics' = Put(topics, t, [participant |-> p, global |-> g])
        /\ participants' = [participants EXCEPT ![p].register = Put(@, name, t)]
        /\ Created(c, id, Entity(None, t))

\* CedTopicManager::register_topic and the new CedTopic of participant p.  An
\* entry whose topic has expired gives a null pointer, which is dereferenced.
NewTopic(c, id, p, name) ==
    LET key == <<participants[p].domain, name>>
        expired == key \in DOMAIN registry /\ registry[key] \notin DOMAIN globals
        g == IF key \in DOMAIN registry THEN registry[key]
             ELSE Fresh(key, DOMAIN globals \cup Range(registry))
        t == Fresh(<<p, name>>, DOMAIN topics)
    IN  IF expired THEN Fault
        ELSE /\ registry' = Put(registry, key, g)
             /\ globals' = Put(globals, g, [domain |-> participants[p].domain, name |-> name])
             /\ topics' = Put(topics, t, [participant |-> p, global |-> g])
             /\ participants' = [participants EXCEPT ![p].register = Put(@, name, t)]
             /\ Created(c, id, Entity(None, t))

create_participant(c, id, domain) ==
    LET p == Fresh(c, DOMAIN participants)
    IN  /\ Cardinality({q \in DOMAIN participants : q[1] = c}) < MaxParticipants[c]
        /\ participants' = Put(participants, p, [domain |-> domain, register |-> [n \in {} |-> None]])
        /\ Created(c, id, Entity(p, None))
        /\ UNCHANGED <<topics, globals, registry>>

\* Mutant: any topic of the participant will do.
Bug_AnyTopic(c, q) ==
    LET p == entities[c][q.parent].participant
        register == participants[p].register
    IN  IF register # [n \in {} |-> None]
        THEN /\ \E n \in DOMAIN register : Created(c, q.id, Entity(None, register[n]))
             /\ UNCHANGED ced
        ELSE NewTopic(c, q.id, p, q.arg)

create_topic(c, q) ==
    LET p == entities[c][q.parent].participant
        register == participants[p].register
    IN  IF q.arg \in DOMAIN register
        THEN Created(c, q.id, Entity(None, register[q.arg])) /\ UNCHANGED ced
        ELSE NewTopic(c, q.id, p, q.arg)

create_group(c, q) ==
    /\ Created(c, q.id, Entity(entities[c][q.parent].participant, None))
    /\ UNCHANGED ced

\* Mutant: the topic is looked up in any participant of the client.
Bug_AnyParticipant(c, id, p, name) ==
    \E o \in {o \in DOMAIN participants : o[1] = c /\ name \in DOMAIN participants[o].register} :
        Created(c, id, Entity(p, participants[o].register[name])) /\ UNCHANGED ced

\* The topic is looked up by name in the register of the parent's participant.
create_endpoint(c, id, p, name) ==
    IF name \in DOMAIN participants[p].register
    THEN /\ Created(c, id, Entity(IF Kind(id) = "datawriter" THEN p ELSE None,
                                  participants[p].register[name]))
         /\ UNCHANGED ced
    ELSE NotCreated

\* A reader whose subscriber refers to an erased participant: the reference
\* is read all the same, and finds nothing, another participant, or garbage.
create_astray(c, id, name) ==
    \/ Fault
    \/ NotCreated
    \/ \E p \in DOMAIN participants : create_endpoint(c, id, p, name)

\* The parent is an object of the client.
KnownParent(c, q) == Kind(q.id) = "participant" \/ q.parent \in objects[c]

\* The middleware has the parent, and does not have the id yet.
CanEnter(c, q) ==
    /\ Kind(q.id) = "participant" \/ q.parent \in DOMAIN entities[c]
    /\ q.id \notin DOMAIN entities[c]

\* What CED does not make.
Unsupported == {"requester", "replier"}

\* create_object(object_id, representation, result): one creation.
create(c, q) ==
    LET kind == Kind(q.id)
        p == entities[c][q.parent].participant
        name == NameOf(c, q.arg)
    IN  IF ~KnownParent(c, q) \/ ~CanEnter(c, q) \/ kind \in Unsupported
        THEN NotCreated
        ELSE CASE kind = "participant" -> create_participant(c, q.id, q.arg)
               [] kind = "topic" -> create_topic(c, q)
               [] kind \in {"publisher", "subscriber"} -> create_group(c, q)
               [] OTHER -> IF p = Dangling THEN create_astray(c, q.id, name)
                           ELSE create_endpoint(c, q.id, p, name)

-----------------------------------------------------------------------------
(* The processing thread.                                                  *)

Runs(h) == unregistering[h] = {} /\ ~fault
Ready == Runs("processing") /\ request = None

\* ProxyClient::create_object(creation_mode, objectid_prefix, representation).
CreateObject(c, q, reuse, replace) ==
    /\ Ready
    /\ releasing # c
    /\ LET exists == q.id \in objects[c]
           same == reuse /\ matched(c, q)
       IN  \/ /\ ~exists
              /\ create(c, q)
              /\ UNCHANGED <<unregistering, request>>
           \/ /\ exists /\ (same \/ ~replace)
              /\ UNCHANGED <<objects, entities, ced, unregistering, request, fault>>
           \/ /\ exists /\ ~same /\ replace
              /\ Erase("processing", c, q.id)
              /\ request' = [client |-> c, creation |-> q]
              /\ UNCHANGED fault
    /\ UNCHANGED releasing

\* The rest of a replacement, once the old object is gone.
Recreate ==
    /\ Runs("processing")
    /\ request # None
    /\ releasing # request.client
    /\ create(request.client, request.creation)
    /\ request' = None
    /\ UNCHANGED <<releasing, unregistering>>

\* ProxyClient::delete_object.
DeleteObject(c, id) ==
    /\ Ready
    /\ releasing # c
    /\ \/ id \in objects[c] /\ Erase("processing", c, id)
       \/ /\ id \notin objects[c]
          /\ UNCHANGED <<objects, entities, ced, unregistering>>
    /\ UNCHANGED <<request, releasing, fault>>

-----------------------------------------------------------------------------
(* Release of a client by the heartbeat thread, in Root::delete_client.    *)
(* For the DELETE of a client the processing thread clears objects_ in the *)
(* same way, which is a sequence of its DeleteObject steps.                *)

\* ProxyClient::release starts to clear objects_.
release(c) ==
    /\ Runs("heartbeat")
    /\ releasing = None
    /\ objects[c] # {}
    /\ releasing' = c
    /\ UNCHANGED <<objects, entities, ced, request, unregistering, fault>>

\* clear destroys the objects one after the other, in the order of a hash.
ReleaseObject ==
    /\ Runs("heartbeat")
    /\ releasing # None
    /\ \/ \E id \in objects[releasing] :
              Erase("heartbeat", releasing, id) /\ UNCHANGED releasing
       \/ /\ objects[releasing] = {}
          /\ releasing' = None
          /\ UNCHANGED <<objects, entities, ced, unregistering>>
    /\ UNCHANGED <<request, fault>>

\* release does not lock: the processing thread uses the map being cleared.
Race(c) ==
    /\ Runs("processing")
    /\ releasing = c
    /\ request # None => request.client = c
    /\ fault' = TRUE
    /\ UNCHANGED <<objects, entities, ced, request, releasing, unregistering>>

Next ==
    \/ \E c \in Clients, reuse, replace \in BOOLEAN :
          \E q \in Creations[c] : CreateObject(c, q, reuse, replace)
    \/ \E c \in Clients : \E id \in Ids(c) : DeleteObject(c, id)
    \/ Recreate
    \/ \E h \in Threads : unregister_topic(h)
    \/ \E c \in Clients : release(c) \/ Race(c)
    \/ ReleaseObject

Spec == Init /\ [][Next]_vars

-----------------------------------------------------------------------------
\* Every object of a client has its entity in the middleware, and every
\* entity its object: neither a failed creation nor a replacement leaves one
\* without the other.
EntitiesMatchObjects == \A c \in Clients : objects[c] = DOMAIN entities[c]

\* Two CED topics of the same domain and name write into the same global
\* topic, whoever created them and in whatever order topics came and went: a
\* sample written by one client reaches the readers of every other.
OneGlobalTopic ==
    \A s, t \in DOMAIN topics :
        LET gs == globals[topics[s].global]
            gt == globals[topics[t].global]
        IN  gs = gt => topics[s].global = topics[t].global

\* The participant of a live topic has it in its register under its name, and
\* has nothing else there: a writer created under this participant finds it.
RegisterIsExact ==
    \A p \in DOMAIN participants :
        participants[p].register =
            [n \in {TopicName(t) : t \in {u \in DOMAIN topics : topics[u].participant = p}} |->
                CHOOSE t \in DOMAIN topics : topics[t].participant = p /\ TopicName(t) = n]

\* The manager knows every global topic that is alive; an entry of a dead one
\* is about to be erased by the destructor that waits for the manager.
RegistryIsExact ==
    /\ \A g \in DOMAIN globals :
           LET k == <<globals[g].domain, globals[g].name>>
           IN  k \in DOMAIN registry /\ registry[k] = g
    /\ \A k \in DOMAIN registry :
           \/ registry[k] \in DOMAIN globals
           \/ \E h \in Threads : k \in unregistering[h]

\* A writer writes to a topic of its publisher's own participant, also after
\* participant, publisher and topic have been replaced behind its back.
WritersStayHome ==
    \A c \in Clients : \A i \in DOMAIN entities[c] :
        Kind(i) = "datawriter" =>
            topics[entities[c][i].topic].participant = entities[c][i].participant

\* A replacement leaves the object that was asked for, or none: never the old
\* one, and never one that another representation describes.
ReplacedAsAsked ==
    [][\A r \in {request} \ {None} :
         /\ request' = None
         /\ r.creation.id \in objects'[r.client]
         => matched(r.client, r.creation)']_vars
=============================================================================
