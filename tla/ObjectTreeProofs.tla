-------------------------- MODULE ObjectTreeProofs --------------------------
(***************************************************************************)
(* Proofs about the objects of the clients and the CED entities behind     *)
(* them, for any clients, topic names, domains and creations.              *)
(***************************************************************************)
EXTENDS ObjectTree, TLAPS

\* The threads.  While a replacement is between its two halves, the object is gone.
ThreadsInv ==
  /\ objects \in [Clients -> SUBSET Id(Kinds)]
  /\ DOMAIN unregistering = Threads
  /\ releasing \in Clients \cup {None}
  /\ request # None =>
       /\ request.client \in Clients /\ request.creation \in Creations[request.client]
       /\ request.creation.id \notin objects[request.client]

\* What an entity is and refers to.  A subscriber refers to an entry of participants_.
EntityInv(c, i) ==
  LET e == entities[c][i]
  IN  /\ i \in Id(Kinds \ Unsupported)
      /\ e = Entity(e.participant, e.topic)
      /\ Kind(i) \in {"participant", "publisher"} =>
           e.participant \in DOMAIN participants /\ e.topic = None
      /\ Kind(i) = "subscriber" =>
           /\ e.topic = None
           /\ \/ e.participant = Dangling
              \/ \E j \in DOMAIN entities[c] :
                   Kind(j) = "participant" /\ entities[c][j].participant = e.participant
      /\ Kind(i) \in {"topic", "datareader"} => e.participant = None /\ e.topic \in DOMAIN topics
      /\ Kind(i) = "datawriter" =>
           e.topic \in DOMAIN topics /\ e.participant = topics[e.topic].participant

EntitiesInv ==
  /\ DOMAIN entities = Clients
  /\ \A c \in Clients : objects[c] = DOMAIN entities[c]
  /\ \A c \in Clients : \A i \in DOMAIN entities[c] : EntityInv(c, i)

\* A CedParticipant, and what its register says of the topics.
ParticipantInv(p) ==
  LET register == participants[p].register
  IN  /\ p \in ParticipantsAt
      /\ participants[p] = [domain |-> participants[p].domain, register |-> register]
      /\ participants[p].domain \in Domains
      /\ register = [n \in DOMAIN register |-> register[n]]
      /\ \A n \in DOMAIN register : register[n] \in DOMAIN topics /\ register[n][1] = <<p, n>>

\* A CedTopic: its participant has it in its register, and its global topic is of that domain.
TopicInv(t) ==
  LET p == t[1][1]
      n == t[1][2]
  IN  /\ t \in TopicsAt
      /\ topics[t] = [participant |-> p, global |-> topics[t].global]
      /\ p \in DOMAIN participants
      /\ n \in DOMAIN participants[p].register /\ participants[p].register[n] = t
      /\ topics[t].global \in DOMAIN globals
      /\ topics[t].global[1] = <<participants[p].domain, n>>

\* A CedGlobalTopic: the manager knows it.
GlobalInv(g) ==
  /\ g[1] = <<g[1][1], g[1][2]>>
  /\ globals[g] = [domain |-> g[1][1], name |-> g[1][2]]
  /\ g[1] \in DOMAIN registry /\ registry[g[1]] = g

\* An entry of the manager: of a topic of that key, which is alive or about to be erased.
EntryInv(k) ==
  /\ registry[k][1] = k
  /\ registry[k] \in DOMAIN globals \/ \E h \in Threads : k \in unregistering[h]

CedInv ==
  /\ \A p \in DOMAIN participants : ParticipantInv(p)
  /\ \A t \in DOMAIN topics : TopicInv(t)
  /\ \A g \in DOMAIN globals : GlobalInv(g)
  /\ \A k \in DOMAIN registry : EntryInv(k)

TreeInv == ThreadsInv /\ EntitiesInv /\ CedInv

\* Where the next objects are put.
FreshInv ==
  /\ \A c \in Clients : Fresh(c, DOMAIN participants) \in ({c} \X Nat) \ DOMAIN participants
  /\ \A p \in ParticipantsAt, n \in Names : Fresh(<<p, n>>, DOMAIN topics) \in {<<p, n>>} \X Nat

-----------------------------------------------------------------------------
(* Creation. *)

\* A map after emplace.
LEMMA PutFacts ==
  ASSUME NEW map, NEW key, NEW value
  PROVE  /\ DOMAIN Put(map, key, value) = DOMAIN map \cup {key}
         /\ Put(map, key, value)[key] = value
         /\ \A k \in DOMAIN map : k # key => Put(map, key, value)[k] = map[k]
         /\ Put(map, key, value) = [k \in DOMAIN Put(map, key, value) |-> Put(map, key, value)[k]]
BY DEF Put

\* What the invariant says of one entity, participant, topic, global topic or entry.
LEMMA TreeFacts ==
  ASSUME TreeInv
  PROVE  /\ \A c \in Clients : \A i \in DOMAIN entities[c] : EntityInv(c, i)
         /\ \A p \in DOMAIN participants : ParticipantInv(p)
         /\ \A t \in DOMAIN topics : TopicInv(t)
         /\ \A g \in DOMAIN globals : GlobalInv(g)
         /\ \A k \in DOMAIN registry : EntryInv(k)
         /\ DOMAIN entities = Clients /\ DOMAIN objects = Clients
         /\ \A c \in Clients : objects[c] = DOMAIN entities[c]
BY DEF TreeInv, EntitiesInv, CedInv, ThreadsInv

\* The end of a creation, when the new entity is right: the others stay right.
LEMMA CreatedEntities ==
  ASSUME TreeInv, NEW c \in Clients, NEW id, NEW e, id \notin DOMAIN entities[c], Created(c, id, e),
         EntityInv(c, id)',
         DOMAIN participants \subseteq DOMAIN participants', DOMAIN topics \subseteq DOMAIN topics',
         \A t \in DOMAIN topics : topics'[t].participant = topics[t].participant
  PROVE  /\ EntitiesInv'
         /\ objects' \in [Clients -> SUBSET Id(Kinds)]
<1>1. /\ DOMAIN entities' = Clients /\ DOMAIN objects' = Clients
      /\ objects'[c] = objects[c] \cup {id} /\ entities'[c] = Put(entities[c], id, e)
      /\ \A d \in Clients \ {c} : objects'[d] = objects[d] /\ entities'[d] = entities[d]
  <2>1. /\ entities' = [entities EXCEPT ![c] = Put(entities[c], id, e)]
        /\ objects' = [objects EXCEPT ![c] = objects[c] \cup {id}]
    BY DEF Created, With
  <2>2. DOMAIN entities = Clients /\ DOMAIN objects = Clients
    BY TreeFacts
  <2> QED
    BY <2>1, <2>2
<1>2. /\ DOMAIN entities'[c] = DOMAIN entities[c] \cup {id}
      /\ \A i \in DOMAIN entities[c] : entities'[c][i] = entities[c][i]
  BY <1>1 DEF Put
<1>3. \A d \in Clients : objects'[d] = DOMAIN entities'[d]
  BY <1>1, <1>2, TreeFacts, Zenon
<1>4. ASSUME NEW d \in Clients, NEW i \in DOMAIN entities'[d]
      PROVE  EntityInv(d, i)'
  <2>1. CASE d = c /\ i = id
    BY <2>1
  <2>2. CASE ~ (d = c /\ i = id)
    <3>1. /\ i \in DOMAIN entities[d] /\ entities'[d][i] = entities[d][i]
          /\ \A j \in DOMAIN entities[d] : j \in DOMAIN entities'[d] /\ entities'[d][j] = entities[d][j]
      BY <1>1, <1>2, <2>2
    <3>2. EntityInv(d, i)
      BY <3>1, TreeFacts, Zenon
    <3>3. CASE Kind(i) = "subscriber"
      BY <3>1, <3>2, <3>3, Zenon DEF EntityInv
    <3>4. CASE Kind(i) # "subscriber"
      BY <3>1, <3>2, <3>4, Zenon DEF EntityInv
    <3> QED
      BY <3>3, <3>4, Zenon
  <2> QED
    BY <2>1, <2>2, Zenon
<1>5. objects' \in [Clients -> SUBSET Id(Kinds)]
  <2>1. id \in Id(Kinds)
    BY Zenon DEF EntityInv, Id
  <2>2. objects \in [Clients -> SUBSET Id(Kinds)]
    BY Zenon DEF TreeInv, ThreadsInv
  <2> QED
    BY <2>1, <2>2, Zenon DEF Created
<1> QED
  BY <1>1, <1>3, <1>4, <1>5, Zenon DEF EntitiesInv

\* What was created is in the middleware.
LEMMA CreatedThere ==
  ASSUME TreeInv, NEW c \in Clients, NEW id, NEW e, Created(c, id, e)
  PROVE  entities'[c][id] = e /\ id \in DOMAIN entities'[c]
<1>1. entities' = [entities EXCEPT ![c] = Put(entities[c], id, e)] /\ c \in DOMAIN entities
  BY TreeFacts DEF Created, With
<1>2. entities'[c] = Put(entities[c], id, e)
  BY <1>1
<1> QED
  BY <1>2, Zenon DEF Put

\* A step that leaves CED alone.
LEMMA SameCed ==
  ASSUME TreeInv, UNCHANGED <<ced, unregistering>>
  PROVE  CedInv'
<1>1. /\ participants' = participants /\ topics' = topics /\ globals' = globals /\ registry' = registry
      /\ unregistering' = unregistering
  BY Zenon DEF ced
<1>2. ASSUME NEW p \in DOMAIN participants PROVE ParticipantInv(p)'
  BY <1>1, TreeFacts, Zenon DEF ParticipantInv
<1>3. ASSUME NEW t \in DOMAIN topics PROVE TopicInv(t)'
  BY <1>1, TreeFacts, Zenon DEF TopicInv
<1>4. ASSUME NEW g \in DOMAIN globals PROVE GlobalInv(g)'
  BY <1>1, TreeFacts, Zenon DEF GlobalInv
<1>5. ASSUME NEW k \in DOMAIN registry PROVE EntryInv(k)'
  BY <1>1, TreeFacts, Zenon DEF EntryInv
<1> QED
  BY <1>1, <1>2, <1>3, <1>4, <1>5, Zenon DEF CedInv

\* create_participant makes a new CedParticipant with an empty register.
LEMMA ParticipantStep ==
  ASSUME TreeInv, FreshInv, NEW c \in Clients, NEW id \in Id({"participant"}), NEW domain \in Domains,
         id \notin DOMAIN entities[c], create_participant(c, id, domain), UNCHANGED unregistering
  PROVE  /\ EntitiesInv' /\ CedInv' /\ objects' \in [Clients -> SUBSET Id(Kinds)]
         /\ matched_participant(c, id, domain)'
<1> DEFINE p == Fresh(c, DOMAIN participants)
           new == [domain |-> domain, register |-> [n \in {} |-> None]]
<1>1. p \in ParticipantsAt /\ p \notin DOMAIN participants
  BY DEF FreshInv, ParticipantsAt
<1>2. /\ participants' = Put(participants, p, new) /\ Created(c, id, Entity(p, None))
      /\ UNCHANGED <<topics, globals, registry>>
  BY DEF create_participant
<1> HIDE DEF p
<1>3. /\ DOMAIN participants' = DOMAIN participants \cup {p} /\ participants'[p] = new
      /\ \A o \in DOMAIN participants : participants'[o] = participants[o]
  BY <1>1, <1>2 DEF Put
<1>4. entities'[c][id] = Entity(p, None)
  BY <1>2, CreatedThere, Zenon
<1>5. EntityInv(c, id)'
  BY <1>3, <1>4 DEF EntityInv, Entity, Id, Kind, Kinds, Unsupported
<1>6. EntitiesInv' /\ objects' \in [Clients -> SUBSET Id(Kinds)]
  BY <1>2, <1>3, <1>5, CreatedEntities
<1>7. ASSUME NEW o \in DOMAIN participants' PROVE ParticipantInv(o)'
  <2>1. CASE o = p
    BY <2>1, <1>1, <1>3 DEF ParticipantInv
  <2>2. CASE o # p
    BY <2>2, <1>2, <1>3, TreeFacts DEF ParticipantInv
  <2> QED
    BY <2>1, <2>2
<1>8. ASSUME NEW t \in DOMAIN topics' PROVE TopicInv(t)'
  <2>1. TopicInv(t)
    BY <1>2, TreeFacts, Zenon
  <2> QED
    BY <2>1, <1>2, <1>3, Zenon DEF TopicInv
<1>9. \A g \in DOMAIN globals' : GlobalInv(g)'
  BY <1>2, TreeFacts, Zenon DEF GlobalInv
<1>10. \A k \in DOMAIN registry' : EntryInv(k)'
  BY <1>2, TreeFacts DEF EntryInv
<1>11. matched_participant(c, id, domain)'
  BY <1>3, <1>4 DEF matched_participant, Entity
<1> QED
  BY <1>6, <1>7, <1>8, <1>9, <1>10, <1>11 DEF CedInv

\* The name of a topic is that of its place.
LEMMA NameFacts ==
  ASSUME TreeInv, NEW t \in DOMAIN topics
  PROVE  /\ TopicName(t) = t[1][2] /\ topics[t].participant = t[1][1] /\ t # None
         /\ t \in TopicsAt /\ t[1] = <<t[1][1], t[1][2]>> /\ t[1][2] \in Names
         /\ topics[t].participant \in DOMAIN participants /\ topics[t].participant # None
         /\ topics[t].global \in DOMAIN globals
<1>1. TopicInv(t) /\ GlobalInv(topics[t].global) /\ ParticipantInv(t[1][1])
  BY TreeFacts, Zenon DEF TopicInv
<1>2. t \in TopicsAt /\ t[1] = <<t[1][1], t[1][2]>> /\ t[1][2] \in Names /\ t # None
  BY <1>1, NoneAssumption DEF TopicInv, TopicsAt
<1>3. /\ topics[t].participant = t[1][1] /\ t[1][1] \in DOMAIN participants
      /\ topics[t].global \in DOMAIN globals /\ topics[t].global[1][2] = t[1][2]
  BY <1>1 DEF TopicInv
<1>4. TopicName(t) = t[1][2]
  BY <1>1, <1>3 DEF GlobalInv, TopicName
<1>5. t[1][1] # None
  BY <1>1, NoneAssumption, Zenon DEF ParticipantInv
<1> QED
  BY <1>2, <1>3, <1>4, <1>5, Zenon

\* register_topic and the new CedTopic: the participant's register and the manager know it.
LEMMA NewTopicStep ==
  ASSUME TreeInv, FreshInv, NEW c \in Clients, NEW id \in Id({"topic"}), NEW p \in DOMAIN participants,
         NEW name \in Names, name \notin DOMAIN participants[p].register,
         id \notin DOMAIN entities[c], NewTopic(c, id, p, name), UNCHANGED unregistering,
         ~ fault'
  PROVE  /\ EntitiesInv' /\ CedInv' /\ objects' \in [Clients -> SUBSET Id(Kinds)]
         /\ matched_topic(c, id, name)'
<1> DEFINE key == <<participants[p].domain, name>>
           g == IF key \in DOMAIN registry THEN registry[key]
                ELSE Fresh(key, DOMAIN globals \cup Range(registry))
           t == Fresh(<<p, name>>, DOMAIN topics)
           register == participants[p].register
<1>1. ~ (key \in DOMAIN registry /\ registry[key] \notin DOMAIN globals)
  BY Zenon DEF NewTopic, Fault
<1>2. /\ registry' = Put(registry, key, g)
      /\ globals' = Put(globals, g, [domain |-> participants[p].domain, name |-> name])
      /\ topics' = Put(topics, t, [participant |-> p, global |-> g])
      /\ participants' = [participants EXCEPT ![p].register = Put(register, name, t)]
      /\ Created(c, id, Entity(None, t))
  BY <1>1, Zenon DEF NewTopic
<1>3. g[1] = key /\ (key \in DOMAIN registry => g = registry[key] /\ g \in DOMAIN globals)
  BY <1>1, TreeFacts DEF EntryInv, Fresh
<1>4. t \in TopicsAt /\ t[1] = <<p, name>> /\ t \notin DOMAIN topics
  <2>1. p \in ParticipantsAt
    BY TreeFacts, Zenon DEF ParticipantInv
  <2>2. t \in {<<p, name>>} \X Nat
    BY <2>1 DEF FreshInv
  <2> HIDE DEF t
  <2>3. t \in TopicsAt /\ t[1] = <<p, name>>
    BY <2>1, <2>2 DEF TopicsAt
  <2>4. t \notin DOMAIN topics
    BY <2>3, TreeFacts DEF TopicInv
  <2> QED
    BY <2>3, <2>4
<1> HIDE DEF key, g, t
<1>5. /\ DOMAIN topics' = DOMAIN topics \cup {t} /\ topics'[t] = [participant |-> p, global |-> g]
      /\ \A s \in DOMAIN topics : topics'[s] = topics[s]
  BY <1>2, <1>4 DEF Put
<1>6. /\ DOMAIN globals' = DOMAIN globals \cup {g}
      /\ globals'[g] = [domain |-> participants[p].domain, name |-> name]
      /\ \A x \in DOMAIN globals : x # g => globals'[x] = globals[x]
  BY <1>2 DEF Put
<1>7. /\ DOMAIN registry' = DOMAIN registry \cup {key} /\ registry'[key] = g
      /\ \A k \in DOMAIN registry : k # key => registry'[k] = registry[k]
  BY <1>2 DEF Put
<1>8. /\ DOMAIN participants' = DOMAIN participants
      /\ participants'[p] = [domain |-> participants[p].domain, register |-> Put(register, name, t)]
      /\ \A o \in DOMAIN participants : o # p => participants'[o] = participants[o]
  <2>1. participants[p] = [domain |-> participants[p].domain, register |-> register]
    BY TreeFacts, Zenon DEF ParticipantInv
  <2>2. participants' = [participants EXCEPT ![p] = [participants[p] EXCEPT !.register = Put(register, name, t)]]
    BY <1>2
  <2> QED
    BY <2>1, <2>2
<1>9. /\ DOMAIN participants'[p].register = DOMAIN register \cup {name}
      /\ participants'[p].register[name] = t
      /\ \A n \in DOMAIN register : participants'[p].register[n] = register[n]
      /\ participants'[p].register = [n \in DOMAIN participants'[p].register |-> participants'[p].register[n]]
  BY <1>8 DEF Put
<1>10. entities'[c][id] = Entity(None, t)
  BY <1>2, CreatedThere
<1>11. EntityInv(c, id)'
  BY <1>5, <1>10 DEF EntityInv, Entity, Id, Kind, Kinds, Unsupported
<1>12. EntitiesInv' /\ objects' \in [Clients -> SUBSET Id(Kinds)]
  BY <1>2, <1>5, <1>8, <1>11, CreatedEntities
<1>13. ASSUME NEW o \in DOMAIN participants' PROVE ParticipantInv(o)'
  <2>1. ParticipantInv(o)
    BY <1>8, TreeFacts
  <2>2. CASE o = p
    BY <2>1, <2>2, <1>4, <1>5, <1>8, <1>9 DEF ParticipantInv
  <2>3. CASE o # p
    BY <2>1, <2>3, <1>5, <1>8, Zenon DEF ParticipantInv
  <2> QED
    BY <2>2, <2>3
<1>14. ASSUME NEW s \in DOMAIN topics' PROVE TopicInv(s)'
  <2>1. CASE s = t
    BY <2>1, <1>3, <1>4, <1>5, <1>6, <1>8, <1>9 DEF TopicInv, key
  <2>2. CASE s # t
    <3>1. s \in DOMAIN topics /\ topics'[s] = topics[s] /\ TopicInv(s)
      BY <2>2, <1>5, TreeFacts, Zenon
    <3>2. CASE s[1][1] = p
      <4>1. /\ s[1][2] \in DOMAIN participants'[p].register
            /\ participants'[p].register[s[1][2]] = s
        BY <3>1, <3>2, <1>9, Zenon DEF TopicInv
      <4> QED
        BY <3>1, <3>2, <4>1, <1>6, <1>8 DEF TopicInv
    <3>3. CASE s[1][1] # p
      BY <3>1, <3>3, <1>6, <1>8, Zenon DEF TopicInv
    <3> QED
      BY <3>2, <3>3
  <2> QED
    BY <2>1, <2>2
<1>15. ASSUME NEW x \in DOMAIN globals' PROVE GlobalInv(x)'
  <2>1. CASE x = g
    BY <2>1, <1>3, <1>6, <1>7 DEF GlobalInv, key
  <2>2. CASE x # g
    <3>1. GlobalInv(x) /\ globals'[x] = globals[x]
      BY <2>2, <1>6, TreeFacts
    <3>2. x[1] # key
      BY <3>1, <2>2, <1>3, Zenon DEF GlobalInv
    <3> QED
      BY <3>1, <3>2, <1>7, Zenon DEF GlobalInv
  <2> QED
    BY <2>1, <2>2
<1>16. ASSUME NEW k \in DOMAIN registry' PROVE EntryInv(k)'
  <2>1. CASE k = key
    BY <2>1, <1>3, <1>6, <1>7 DEF EntryInv
  <2>2. CASE k # key
    BY <2>2, <1>6, <1>7, TreeFacts DEF EntryInv
  <2> QED
    BY <2>1, <2>2
<1>17. matched_topic(c, id, name)'
  BY <1>5, <1>6, <1>10 DEF matched_topic, TopicName, Entity
<1> QED
  BY <1>12, <1>13, <1>14, <1>15, <1>16, <1>17 DEF CedInv

\* A publisher, a subscriber, or an object on a topic that exists: CED is left alone.
LEMMA GroupStep ==
  ASSUME TreeInv, NEW c \in Clients, NEW id, NEW e, id \notin DOMAIN entities[c], Created(c, id, e),
         UNCHANGED <<ced, unregistering>>, EntityInv(c, id)'
  PROVE  EntitiesInv' /\ CedInv' /\ objects' \in [Clients -> SUBSET Id(Kinds)]
<1>1. UNCHANGED <<participants, topics>>
  BY DEF ced
<1> QED
  BY <1>1, CreatedEntities, SameCed

\* Nothing was created.
LEMMA NotCreatedStep ==
  ASSUME TreeInv, UNCHANGED <<objects, entities, ced, unregistering>>
  PROVE  EntitiesInv' /\ CedInv' /\ objects' \in [Clients -> SUBSET Id(Kinds)]
<1>1. UNCHANGED <<participants, topics>>
  BY DEF ced
<1>2. EntitiesInv'
  BY <1>1 DEF TreeInv, EntitiesInv, EntityInv
<1> QED
  BY <1>2, SameCed DEF TreeInv, ThreadsInv

\* A topic that a register names is one of that participant and of that name.
LEMMA RegisterFacts ==
  ASSUME TreeInv, NEW p \in DOMAIN participants, NEW name \in DOMAIN participants[p].register
  PROVE  LET t == participants[p].register[name]
         IN  t \in DOMAIN topics /\ topics[t].participant = p /\ TopicName(t) = name
<1> DEFINE t == participants[p].register[name]
<1>1. t \in DOMAIN topics /\ t[1] = <<p, name>>
  BY TreeFacts, Zenon DEF ParticipantInv
<1> HIDE DEF t
<1>2. TopicName(t) = t[1][2] /\ topics[t].participant = t[1][1]
  BY <1>1, NameFacts
<1> QED
  BY <1>1, <1>2 DEF t

\* A writer or a reader on a topic of participant p.
LEMMA EndpointStep ==
  ASSUME TreeInv, NEW c \in Clients, NEW id \in Id({"datawriter", "datareader"}),
         NEW p \in DOMAIN participants, NEW name,
         id \notin DOMAIN entities[c], create_endpoint(c, id, p, name), UNCHANGED unregistering
  PROVE  /\ EntitiesInv' /\ CedInv' /\ objects' \in [Clients -> SUBSET Id(Kinds)]
         /\ id \in objects'[c] =>
              matched_topic(c, id, name)' /\ \A arg : NameOf(c, arg)' = NameOf(c, arg)
<1>1. CASE name \in DOMAIN participants[p].register
  <2> DEFINE t == participants[p].register[name]
             e == Entity(IF Kind(id) = "datawriter" THEN p ELSE None, t)
  <2>1. Created(c, id, e) /\ UNCHANGED ced
    BY <1>1 DEF create_endpoint
  <2>2. t \in DOMAIN topics /\ topics[t].participant = p /\ TopicName(t) = name
    BY <1>1, RegisterFacts
  <2>3. entities'[c][id] = e
    BY <2>1, CreatedThere
  <2>4. UNCHANGED <<participants, topics, globals>>
    BY <2>1 DEF ced
  <2>5. Kind(id) \in {"datawriter", "datareader"} /\ id \in Id(Kinds \ Unsupported)
    BY DEF Id, Kind, Kinds, Unsupported
  <2> HIDE DEF t
  <2>6. e.topic = t /\ e.participant = (IF Kind(id) = "datawriter" THEN p ELSE None)
        /\ e = Entity(e.participant, e.topic)
    BY DEF Entity
  <2> HIDE DEF e
  <2>7. EntityInv(c, id)'
    BY <2>2, <2>3, <2>4, <2>5, <2>6 DEF EntityInv
  <2>8. matched_topic(c, id, name)'
    BY <2>2, <2>3, <2>4, <2>6 DEF matched_topic, TopicName
  <2>9. ASSUME NEW arg PROVE NameOf(c, arg)' = NameOf(c, arg)
    <3>1. entities' = [entities EXCEPT ![c] = Put(entities[c], id, e)] /\ c \in DOMAIN entities
      BY <2>1, TreeFacts DEF Created, With
    <3>2. entities'[c] = Put(entities[c], id, e)
      BY <3>1
    <3>3. /\ DOMAIN entities'[c] = DOMAIN entities[c] \cup {id}
          /\ \A i \in DOMAIN entities[c] : entities'[c][i] = entities[c][i]
      BY <3>2, Zenon DEF Put
    <3>4. \A x : TopicName(x)' = TopicName(x)
      BY <2>4 DEF TopicName
    <3>5. Kind(arg) = "topic" => arg # id
      BY <2>5
    <3> QED
      BY <3>3, <3>4, <3>5, <2>4, Zenon DEF NameOf, TopicName
  <2> QED
    BY <2>1, <2>7, <2>8, <2>9, GroupStep
<1>2. CASE name \notin DOMAIN participants[p].register
  <2>1. UNCHANGED <<objects, entities, ced>>
    BY <1>2 DEF create_endpoint, NotCreated
  <2>2. id \notin objects'[c]
    BY <2>1, TreeFacts
  <2> QED
    BY <2>1, <2>2, NotCreatedStep
<1> QED
  BY <1>1, <1>2

\* What a CREATE may ask.
LEMMA CreateCases ==
  ASSUME NEW q \in CREATE
  PROVE  \/ q.id \in Id({"participant"}) /\ q.arg \in Domains /\ Kind(q.id) = "participant"
         \/ /\ q.id \in Id({"topic"}) /\ q.parent \in Id({"participant"}) /\ q.arg \in Names
            /\ Kind(q.id) = "topic"
         \/ /\ q.id \in Id({"publisher", "subscriber"}) /\ q.parent \in Id({"participant"})
            /\ Kind(q.id) \in {"publisher", "subscriber"}
         \/ /\ q.id \in Id({"datawriter"}) /\ q.parent \in Id({"publisher"}) /\ Kind(q.id) = "datawriter"
         \/ /\ q.id \in Id({"datareader"}) /\ q.parent \in Id({"subscriber"}) /\ Kind(q.id) = "datareader"
         \/ Kind(q.id) \in {"requester", "replier"}
BY DEF CREATE, Id, Kind

\* The participant that a parent refers to is one, unless it is a subscriber's and dangling.
LEMMA ParentFacts ==
  ASSUME TreeInv, NEW c \in Clients, NEW i \in DOMAIN entities[c],
         Kind(i) \in {"participant", "publisher", "subscriber"}
  PROVE  LET p == entities[c][i].participant
         IN  p \in DOMAIN participants \/ (p = Dangling /\ Kind(i) = "subscriber")
<1>1. EntityInv(c, i)
  BY TreeFacts, Zenon
<1>2. CASE Kind(i) \in {"participant", "publisher"}
  BY <1>1, <1>2, Zenon DEF EntityInv
<1>3. CASE Kind(i) = "subscriber" /\ entities[c][i].participant # Dangling
  <2>1. PICK j \in DOMAIN entities[c] :
          Kind(j) = "participant" /\ entities[c][j].participant = entities[c][i].participant
    BY <1>1, <1>3, Zenon DEF EntityInv
  <2>2. EntityInv(c, j)
    BY TreeFacts, Zenon
  <2> QED
    BY <2>1, <2>2, Zenon DEF EntityInv
<1> QED
  BY <1>2, <1>3, Zenon

\* create_object(object_id, representation, result): whatever it does keeps the tree in order, and
\* an object that is there afterwards is the one that was asked for.
LEMMA CreateStep ==
  ASSUME TreeInv, FreshInv, NEW c \in Clients, NEW q \in Creations[c], q.id \notin objects[c],
         create(c, q), ~ fault, UNCHANGED unregistering
  PROVE  /\ EntitiesInv' /\ CedInv' /\ objects' \in [Clients -> SUBSET Id(Kinds)]
         /\ q.id \in objects'[c] => matched(c, q)'
<1> DEFINE p == entities[c][q.parent].participant
           name == NameOf(c, q.arg)
           Good == /\ EntitiesInv' /\ CedInv' /\ objects' \in [Clients -> SUBSET Id(Kinds)]
                   /\ q.id \in objects'[c] => matched(c, q)'
<1>1. q.id \notin DOMAIN entities[c] /\ q \in CREATE
  BY TreeFacts, CreationsAssumption, Zenon
<1>2. CASE UNCHANGED <<objects, entities, ced>>
  <2>1. q.id \notin objects'[c]
    BY <1>2, Zenon
  <2> QED
    BY <1>2, <2>1, NotCreatedStep, Zenon
<1>3. CASE NotCreated \/ Fault
  BY <1>2, <1>3, Zenon DEF NotCreated, Fault
<1>4. CASE ~KnownParent(c, q) \/ ~CanEnter(c, q) \/ Kind(q.id) \in Unsupported
  BY <1>3, <1>4, Zenon DEF create
<1>5. ASSUME KnownParent(c, q), CanEnter(c, q), Kind(q.id) \notin Unsupported
      PROVE  Good
  <2>1. Kind(q.id) # "participant" => q.parent \in DOMAIN entities[c]
    BY <1>5, Zenon DEF CanEnter
  <2>2. CASE Kind(q.id) = "participant"
    <3>1. create_participant(c, q.id, q.arg)
      BY <1>5, <2>2, Zenon DEF create
    <3>2. q.id \in Id({"participant"}) /\ q.arg \in Domains
      BY <1>1, <2>2, CreateCases, Zenon
    <3>3. /\ EntitiesInv' /\ CedInv' /\ objects' \in [Clients -> SUBSET Id(Kinds)]
          /\ matched_participant(c, q.id, q.arg)'
      BY <3>1, <3>2, <1>1, ParticipantStep, Zenon
    <3> QED
      BY <3>3, <2>2, Zenon DEF matched
  <2>3. CASE Kind(q.id) = "topic"
    <3>1. create_topic(c, q)
      BY <1>5, <2>3, Zenon DEF create
    <3>2. q.id \in Id({"topic"}) /\ q.arg \in Names /\ Kind(q.parent) = "participant"
      BY <1>1, <2>3, CreateCases, Zenon DEF Id, Kind
    <3>3. p \in DOMAIN participants
      BY <2>1, <2>3, <3>2, ParentFacts, Zenon
    <3> HIDE DEF p
    <3>4. CASE q.arg \in DOMAIN participants[p].register
      <4> DEFINE t == participants[p].register[q.arg]
      <4>1. Created(c, q.id, Entity(None, t)) /\ UNCHANGED ced
        BY <3>1, <3>4, Zenon DEF create_topic, p
      <4>2. t \in DOMAIN topics /\ TopicName(t) = q.arg
        BY <3>3, <3>4, RegisterFacts, Zenon
      <4>3. entities'[c][q.id] = Entity(None, t)
        BY <4>1, CreatedThere, Zenon
      <4>4. UNCHANGED <<topics, globals>>
        BY <4>1, Zenon DEF ced
      <4> HIDE DEF t
      <4>5. EntityInv(c, q.id)'
        BY <4>2, <4>3, <4>4, <3>2 DEF EntityInv, Entity, Id, Kind, Kinds, Unsupported
      <4>6. matched_topic(c, q.id, q.arg)'
        BY <4>2, <4>3, <4>4 DEF matched_topic, TopicName, Entity
      <4>7. matched(c, q)'
        BY <4>6, <2>3, Zenon DEF matched
      <4> QED
        BY <4>1, <4>5, <4>7, <1>1, GroupStep, Zenon
    <3>5. CASE q.arg \notin DOMAIN participants[p].register
      <4>1. NewTopic(c, q.id, p, q.arg)
        BY <3>1, <3>5, Zenon DEF create_topic, p
      <4>2. CASE fault'
        <5>1. Fault
          BY <4>1, <4>2, Zenon DEF NewTopic, Created
        <5> QED
          BY <5>1, <1>3
      <4>3. CASE ~ fault'
        <5>1. /\ EntitiesInv' /\ CedInv' /\ objects' \in [Clients -> SUBSET Id(Kinds)]
              /\ matched_topic(c, q.id, q.arg)'
          BY <4>1, <4>3, <3>2, <3>3, <3>5, <1>1, NewTopicStep
        <5> QED
          BY <5>1, <2>3 DEF matched
      <4> QED
        BY <4>2, <4>3
    <3> QED
      BY <3>4, <3>5
  <2>4. CASE Kind(q.id) \in {"publisher", "subscriber"}
    <3>1. create_group(c, q)
      BY <1>5, <2>4, Zenon DEF create
    <3>2. q.id \in Id({"publisher", "subscriber"}) /\ Kind(q.parent) = "participant"
      BY <1>1, <2>4, CreateCases DEF Id, Kind
    <3>3. p \in DOMAIN participants
      BY <2>1, <2>4, <3>2, ParentFacts
    <3>4. Created(c, q.id, Entity(p, None)) /\ UNCHANGED ced
      BY <3>1 DEF create_group
    <3>5. q.parent \in DOMAIN entities[c] /\ p = entities[c][q.parent].participant
      BY <2>1, <2>4
    <3> HIDE DEF p
    <3>6. entities'[c][q.id] = Entity(p, None)
      BY <3>4, CreatedThere
    <3>7. q.parent \in DOMAIN entities'[c] /\ entities'[c][q.parent].participant = p
      <4>1. entities' = [entities EXCEPT ![c] = Put(entities[c], q.id, Entity(p, None))] /\ c \in DOMAIN entities
        BY <3>4, TreeFacts DEF Created, With
      <4>2. entities'[c] = Put(entities[c], q.id, Entity(p, None))
        BY <4>1
      <4> QED
        BY <4>2, <3>5, <1>1, Zenon DEF Put
    <3>8. UNCHANGED participants
      BY <3>4 DEF ced
    <3>9. EntityInv(c, q.id)'
      BY <3>2, <3>3, <3>6, <3>7, <3>8 DEF EntityInv, Entity, Id, Kind, Kinds, Unsupported
    <3>10. matched(c, q)'
      BY <2>4 DEF matched
    <3> QED
      BY <3>4, <3>9, <3>10, <1>1, GroupStep
  <2>5. CASE Kind(q.id) \in {"datawriter", "datareader"}
    <3>1. IF p = Dangling THEN create_astray(c, q.id, name) ELSE create_endpoint(c, q.id, p, name)
      BY <1>5, <2>5, Zenon DEF create
    <3>2. /\ q.id \in Id({"datawriter", "datareader"})
          /\ Kind(q.parent) \in {"publisher", "subscriber"}
      BY <1>1, <2>5, CreateCases DEF Id, Kind
    <3>3. p \in DOMAIN participants \/ p = Dangling
      BY <2>1, <2>5, <3>2, ParentFacts
    <3>4. ASSUME NEW o \in DOMAIN participants, create_endpoint(c, q.id, o, name)
          PROVE  Good
      <4>1. PICK n : n = name
        OBVIOUS
      <4> HIDE DEF name
      <4>2. create_endpoint(c, q.id, o, n)
        BY <3>4, <4>1
      <4>3. /\ EntitiesInv' /\ CedInv' /\ objects' \in [Clients -> SUBSET Id(Kinds)]
            /\ q.id \in objects'[c] => matched_topic(c, q.id, n)'
                                       /\ \A arg : NameOf(c, arg)' = NameOf(c, arg)
        BY <3>2, <4>2, <1>1, EndpointStep
      <4>4. ASSUME q.id \in objects'[c] PROVE matched(c, q)'
        <5>1. TopicName(entities[c][q.id].topic)' = n
          BY <4>3, <4>4 DEF matched_topic
        <5>2. NameOf(c, q.arg)' = n
          BY <4>1, <4>3, <4>4 DEF name
        <5> QED
          BY <5>1, <5>2, <2>5 DEF matched, matched_topic
      <4> QED
        BY <4>3, <4>4
    <3>5. CASE p = Dangling
      BY <3>1, <3>4, <3>5, <1>3 DEF create_astray
    <3>6. CASE p # Dangling
      BY <3>1, <3>3, <3>4, <3>6
    <3> QED
      BY <3>5, <3>6
  <2> QED
    BY <2>2, <2>3, <2>4, <2>5, <1>1, <1>5, CreateCases DEF Unsupported
<1> QED
  BY <1>4, <1>5

-----------------------------------------------------------------------------
(* Destruction. *)

\* What is left of the entities, e, when c's object id goes.
Remaining(e, c, id) ==
  /\ DOMAIN e = Clients /\ DOMAIN e[c] = DOMAIN entities[c] \ {id}
  /\ \A d \in Clients : d # c => e[d] = entities[d]
  /\ \A d \in Clients : \A i \in DOMAIN e[d] :
       /\ i \in DOMAIN entities[d]
       /\ Kind(i) # "subscriber" => e[d][i] = entities[d][i]
       /\ Kind(i) = "subscriber" =>
            \/ e[d][i] = Entity(Dangling, None)
            \/ /\ e[d][i] = entities[d][i]
               /\ \E j \in DOMAIN e[d] : /\ Kind(j) = "participant"
                                         /\ e[d][j].participant = e[d][i].participant

\* What the entities are once one of them is gone: a subscriber that is not dangling still has the
\* entry of participants_ that it refers to.
LEMMA WithoutFacts ==
  ASSUME TreeInv, NEW c \in Clients, NEW id, NEW e, e = Without(c, id)
  PROVE  Remaining(e, c, id)
<1> DEFINE Astray(i) == /\ Kind(id) = "participant" /\ Kind(i) = "subscriber"
                        /\ entities[c][i].participant = entities[c][id].participant
           rest == [i \in DOMAIN entities[c] \ {id} |->
                      IF Astray(i) THEN Entity(Dangling, None) ELSE entities[c][i]]
<1>1. e = [entities EXCEPT ![c] = rest]
  BY DEF Without
<1>2. DOMAIN entities = Clients
  BY TreeFacts
<1>3. /\ DOMAIN e = Clients /\ DOMAIN e[c] = DOMAIN entities[c] \ {id}
      /\ \A d \in Clients : d # c => e[d] = entities[d]
      /\ \A i \in DOMAIN e[c] : e[c][i] = IF Astray(i) THEN Entity(Dangling, None) ELSE entities[c][i]
  BY <1>1, <1>2
<1>4. ASSUME NEW d \in Clients, NEW i \in DOMAIN e[d]
      PROVE  /\ i \in DOMAIN entities[d]
             /\ Kind(i) # "subscriber" => e[d][i] = entities[d][i]
             /\ Kind(i) = "subscriber" =>
                  \/ e[d][i] = Entity(Dangling, None)
                  \/ /\ e[d][i] = entities[d][i]
                     /\ \E j \in DOMAIN e[d] : /\ Kind(j) = "participant"
                                               /\ e[d][j].participant = e[d][i].participant
  <2>1. i \in DOMAIN entities[d]
    BY <1>3
  <2>2. EntityInv(d, i)
    BY <2>1, TreeFacts
  <2>3. Kind(i) # "subscriber" => e[d][i] = entities[d][i]
    BY <1>3
  <2>4. ASSUME Kind(i) = "subscriber"
        PROVE  \/ e[d][i] = Entity(Dangling, None)
               \/ /\ e[d][i] = entities[d][i]
                  /\ \E j \in DOMAIN e[d] : /\ Kind(j) = "participant"
                                            /\ e[d][j].participant = e[d][i].participant
    <3>1. CASE d = c /\ Astray(i)
      BY <3>1, <1>3
    <3>2. CASE ~ (d = c /\ Astray(i))
      <4>1. e[d][i] = entities[d][i]
        BY <3>2, <1>3, Zenon
      <4>2. CASE entities[d][i].participant = Dangling
        <5>1. entities[d][i] = Entity(Dangling, None)
          BY <4>2, <2>2, <2>4, Zenon DEF EntityInv
        <5> QED
          BY <4>1, <5>1
      <4>3. CASE entities[d][i].participant # Dangling
        <5>1. PICK j \in DOMAIN entities[d] :
                Kind(j) = "participant" /\ entities[d][j].participant = entities[d][i].participant
          BY <4>3, <2>2, <2>4 DEF EntityInv
        <5>2. j \in DOMAIN e[d] /\ e[d][j] = entities[d][j]
          BY <5>1, <3>2, <2>4, <1>3, Zenon
        <5> QED
          BY <5>1, <5>2, <4>1, Zenon
      <4> QED
        BY <4>2, <4>3
    <3> QED
      BY <3>1, <3>2, Zenon
  <2> QED
    BY <2>1, <2>3, <2>4, Zenon
<1> QED
  BY <1>3, <1>4, Zenon DEF Remaining

\* What is still held after an erase is there, and every entity that is left holds what it needs.
LEMMA LiveFacts ==
  ASSUME TreeInv, NEW c \in Clients, NEW id
  PROVE  LET e == Without(c, id)
         IN  /\ LiveTopics(e) \subseteq DOMAIN topics
             /\ LiveGlobals(e) \subseteq DOMAIN globals
             /\ LiveParticipants(e) \subseteq DOMAIN participants
             /\ \A t \in LiveTopics(e) : /\ topics[t].participant \in LiveParticipants(e)
                                         /\ topics[t].global \in LiveGlobals(e)
             /\ \A d \in Clients : \A i \in DOMAIN e[d] :
                  /\ Kind(i) \in {"topic", "datareader", "datawriter"} => e[d][i].topic \in LiveTopics(e)
                  /\ Kind(i) \in {"participant", "publisher", "datawriter"} =>
                       e[d][i].participant \in LiveParticipants(e)
<1>1. PICK e : e = Without(c, id)
  OBVIOUS
<1>2. /\ DOMAIN e = Clients
      /\ \A d \in Clients : \A i \in DOMAIN e[d] :
           i \in DOMAIN entities[d] /\ (Kind(i) # "subscriber" => e[d][i] = entities[d][i])
  <2>1. Remaining(e, c, id)
    BY <1>1, WithoutFacts, Zenon
  <2> QED
    BY <2>1, Zenon DEF Remaining
<1>3. \A x : x \in Holders(e) <=>
        \E d \in Clients : \E i \in DOMAIN e[d] : Kind(i) # "subscriber" /\ x = e[d][i]
  BY DEF Holders
<1>4. ASSUME NEW x \in Holders(e)
      PROVE  /\ x.topic = None \/ x.topic \in DOMAIN topics
             /\ x.participant = None \/ x.participant \in DOMAIN participants
  <2>1. PICK d \in Clients : \E i \in DOMAIN e[d] : Kind(i) # "subscriber" /\ x = e[d][i]
    BY <1>3
  <2>2. PICK i \in DOMAIN e[d] : Kind(i) # "subscriber" /\ x = e[d][i]
    BY <2>1
  <2>3. x = entities[d][i] /\ EntityInv(d, i)
    BY <2>2, <1>2, TreeFacts
  <2>4. Kind(i) \in {"participant", "publisher", "topic", "datareader", "datawriter"}
    BY <2>2, <2>3, Zenon DEF EntityInv, Id, Kind, Kinds, Unsupported
  <2>5. CASE Kind(i) = "datawriter"
    BY <2>3, <2>5, NameFacts, Zenon DEF EntityInv
  <2>6. CASE Kind(i) # "datawriter"
    BY <2>3, <2>4, <2>6, Zenon DEF EntityInv
  <2> QED
    BY <2>5, <2>6
<1>5. LiveTopics(e) \subseteq DOMAIN topics
  BY <1>4 DEF LiveTopics
<1>6. LiveGlobals(e) \subseteq DOMAIN globals
  BY <1>5, NameFacts DEF LiveGlobals
<1>7. LiveParticipants(e) \subseteq DOMAIN participants
  BY <1>4, <1>5, NameFacts DEF LiveParticipants
<1>8. \A t \in LiveTopics(e) : /\ topics[t].participant \in LiveParticipants(e)
                               /\ topics[t].global \in LiveGlobals(e)
  BY DEF LiveParticipants, LiveGlobals
<1>9. ASSUME NEW d \in Clients, NEW i \in DOMAIN e[d]
      PROVE  /\ Kind(i) \in {"topic", "datareader", "datawriter"} => e[d][i].topic \in LiveTopics(e)
             /\ Kind(i) \in {"participant", "publisher", "datawriter"} =>
                  e[d][i].participant \in LiveParticipants(e)
  <2>1. EntityInv(d, i) /\ (Kind(i) # "subscriber" => e[d][i] = entities[d][i])
    BY <1>2, TreeFacts
  <2>2. Kind(i) # "subscriber" => e[d][i] \in Holders(e)
    BY <1>3
  <2>3. ASSUME Kind(i) \in {"topic", "datareader", "datawriter"} PROVE e[d][i].topic \in LiveTopics(e)
    <3>1. e[d][i].topic \in DOMAIN topics
      BY <2>1, <2>3, Zenon DEF EntityInv
    <3>2. e[d][i].topic # None
      BY <3>1, NameFacts
    <3> QED
      BY <2>2, <2>3, <3>2 DEF LiveTopics
  <2>4. ASSUME Kind(i) \in {"participant", "publisher", "datawriter"}
        PROVE  e[d][i].participant \in LiveParticipants(e)
    <3>1. e[d][i].participant \in DOMAIN participants
      <4>1. e[d][i] = entities[d][i]
        BY <2>1, <2>4, Zenon
      <4>2. CASE Kind(i) = "datawriter"
        BY <2>1, <4>1, <4>2, NameFacts, Zenon DEF EntityInv
      <4>3. CASE Kind(i) \in {"participant", "publisher"}
        BY <2>1, <4>1, <4>3, Zenon DEF EntityInv
      <4> QED
        BY <2>4, <4>2, <4>3, Zenon
    <3>2. e[d][i].participant # None
      BY <3>1, TreeFacts, NoneAssumption, Zenon DEF ParticipantInv
    <3> QED
      BY <2>2, <2>4, <3>2, Zenon DEF LiveParticipants
  <2> QED
    BY <2>3, <2>4
<1> QED
  BY <1>1, <1>5, <1>6, <1>7, <1>8, <1>9

\* ~CedTopic takes exactly the names of the topics that died out of a register.
LEMMA UnregisteredFacts ==
  ASSUME TreeInv, NEW live \in SUBSET DOMAIN topics, NEW p \in DOMAIN participants
  PROVE  LET register == participants[p].register
             left == unregistered(p, DOMAIN topics \ live)
         IN  /\ DOMAIN left = {n \in DOMAIN register : register[n] \in live}
             /\ \A n \in DOMAIN left : left[n] = register[n]
             /\ left = [n \in DOMAIN left |-> left[n]]
<1> DEFINE register == participants[p].register
           dead == {u \in DOMAIN topics \ live : topics[u].participant = p}
           names == {TopicName(t) : t \in dead}
           left == unregistered(p, DOMAIN topics \ live)
<1>1. left = [n \in DOMAIN register \ names |-> register[n]]
  BY DEF unregistered, Restrict
<1>2. ASSUME NEW n \in DOMAIN register
      PROVE  n \in names <=> register[n] \notin live
  <2>1. /\ register[n] \in DOMAIN topics /\ topics[register[n]].participant = p
        /\ TopicName(register[n]) = n
    BY <1>2, RegisterFacts
  <2>2. register[n] \notin live => n \in names
    BY <2>1
  <2>3. ASSUME n \in names PROVE register[n] \notin live
    <3>1. PICK u \in DOMAIN topics \ live : topics[u].participant = p /\ TopicName(u) = n
      BY <2>3
    <3>2. u[1][1] = p /\ u[1][2] = n
      BY <3>1, NameFacts
    <3>3. register[n] = u
      BY <3>1, <3>2, TreeFacts, Zenon DEF TopicInv
    <3> QED
      BY <3>1, <3>3, Zenon
  <2> QED
    BY <2>2, <2>3
<1> HIDE DEF register, names, left
<1>3. DOMAIN left = {n \in DOMAIN register : register[n] \in live}
  BY <1>1, <1>2, Zenon
<1>4. (\A n \in DOMAIN left : left[n] = register[n]) /\ left = [n \in DOMAIN left |-> left[n]]
  BY <1>1, Zenon
<1> QED
  BY <1>3, <1>4, Zenon DEF register, left

\* objects_.erase: what is left refers only to what is left, and the keys of the global topics that
\* died wait for the manager.
LEMMA EraseStep ==
  ASSUME TreeInv, NEW h \in Threads, unregistering[h] = {}, NEW c \in Clients, NEW id, Erase(h, c, id)
  PROVE  /\ EntitiesInv' /\ CedInv' /\ objects' \in [Clients -> SUBSET Id(Kinds)]
         /\ DOMAIN unregistering' = Threads
         /\ \A d \in Clients : objects'[d] \subseteq objects[d]
         /\ id \notin objects'[c]
<1>1. PICK e : e = Without(c, id)
  BY Zenon
<1>2. PICK LT : LT = LiveTopics(e)
  BY Zenon
<1>3. PICK LG : LG = LiveGlobals(e)
  BY Zenon
<1>4. PICK LP : LP = LiveParticipants(e)
  BY Zenon
<1>5. /\ objects' = [objects EXCEPT ![c] = objects[c] \ {id}]
      /\ entities' = e
      /\ topics' = [t \in LT |-> topics[t]]
      /\ globals' = [g \in LG |-> globals[g]]
      /\ participants' = [p \in LP |->
             [participants[p] EXCEPT !.register = unregistered(p, DOMAIN topics \ LT)]]
      /\ unregistering' = [unregistering EXCEPT ![h] =
             {<<globals[g].domain, globals[g].name>> : g \in DOMAIN globals \ LG}]
      /\ registry' = registry
  BY <1>1, <1>2, <1>3, <1>4, Zenon DEF Erase, Restrict
<1>6. /\ LT \subseteq DOMAIN topics /\ LG \subseteq DOMAIN globals /\ LP \subseteq DOMAIN participants
      /\ \A t \in LT : topics[t].participant \in LP /\ topics[t].global \in LG
      /\ \A d \in Clients : \A i \in DOMAIN e[d] :
           /\ Kind(i) \in {"topic", "datareader", "datawriter"} => e[d][i].topic \in LT
           /\ Kind(i) \in {"participant", "publisher", "datawriter"} => e[d][i].participant \in LP
  BY <1>1, <1>2, <1>3, <1>4, LiveFacts, Zenon
<1>7. ASSUME NEW p \in LP
      PROVE  LET register == participants[p].register
                 left == participants'[p].register
             IN  /\ participants'[p] = [domain |-> participants[p].domain, register |-> left]
                 /\ DOMAIN left = {n \in DOMAIN register : register[n] \in LT}
                 /\ \A n \in DOMAIN left : left[n] = register[n]
                 /\ left = [n \in DOMAIN left |-> left[n]]
  <2>1. PICK left : left = unregistered(p, DOMAIN topics \ LT)
    BY Zenon
  <2>2. participants[p] = [domain |-> participants[p].domain, register |-> participants[p].register]
    BY <1>6, TreeFacts, Zenon DEF ParticipantInv
  <2>3. participants'[p] = [participants[p] EXCEPT !.register = left]
    BY <1>5, <2>1, Zenon
  <2>4. participants'[p] = [domain |-> participants[p].domain, register |-> left]
    BY <2>2, <2>3, Zenon
  <2>5. /\ DOMAIN left = {n \in DOMAIN participants[p].register : participants[p].register[n] \in LT}
        /\ \A n \in DOMAIN left : left[n] = participants[p].register[n]
        /\ left = [n \in DOMAIN left |-> left[n]]
    <3>1. LT \in SUBSET DOMAIN topics /\ p \in DOMAIN participants
      BY <1>6, Zenon
    <3>2. LET register == participants[p].register
              rest == unregistered(p, DOMAIN topics \ LT)
          IN  /\ DOMAIN rest = {n \in DOMAIN register : register[n] \in LT}
              /\ \A n \in DOMAIN rest : rest[n] = register[n]
              /\ rest = [n \in DOMAIN rest |-> rest[n]]
      BY <3>1, UnregisteredFacts, Zenon
    <3> QED
      BY <2>1, <3>2, Zenon
  <2> QED
    BY <2>4, <2>5
<1>8. DOMAIN topics' = LT /\ DOMAIN globals' = LG /\ DOMAIN participants' = LP
  BY <1>5, Zenon
<1>9. /\ \A t \in LT : topics'[t] = topics[t]
      /\ \A g \in LG : globals'[g] = globals[g]
  BY <1>5, Zenon
<1>10. EntitiesInv'
  <2>0. Remaining(e, c, id)
    BY <1>1, WithoutFacts, Zenon
  <2>1. /\ DOMAIN e = Clients /\ DOMAIN e[c] = DOMAIN entities[c] \ {id}
        /\ \A d \in Clients : d # c => e[d] = entities[d]
    BY <2>0, Zenon DEF Remaining
  <2>2. \A d \in Clients : objects'[d] = DOMAIN entities'[d]
    BY <1>5, <2>1, TreeFacts, Zenon
  <2>3. ASSUME NEW d \in Clients, NEW i \in DOMAIN e[d]
        PROVE  EntityInv(d, i)'
    <3>1. i \in DOMAIN entities[d] /\ EntityInv(d, i)
      BY <2>0, TreeFacts, Zenon DEF Remaining
    <3>2. CASE Kind(i) # "subscriber"
      <4>1. e[d][i] = entities[d][i]
        BY <3>2, <2>0, Zenon DEF Remaining
      <4>2. CASE Kind(i) = "datawriter"
        <5>1. entities[d][i].topic \in LT /\ topics'[entities[d][i].topic] = topics[entities[d][i].topic]
          BY <4>1, <4>2, <1>6, <1>9, Zenon
        <5> QED
          BY <3>1, <4>1, <4>2, <5>1, <1>5, <1>8, Zenon DEF EntityInv
      <4>3. CASE Kind(i) # "datawriter"
        BY <3>1, <3>2, <4>1, <4>3, <1>5, <1>6, <1>8, Zenon DEF EntityInv
      <4> QED
        BY <4>2, <4>3, Zenon
    <3>3. CASE Kind(i) = "subscriber"
      <4>1. \/ e[d][i] = Entity(Dangling, None)
            \/ /\ e[d][i] = entities[d][i]
               /\ \E j \in DOMAIN e[d] : Kind(j) = "participant" /\ e[d][j].participant = e[d][i].participant
        BY <3>3, <2>0, Zenon DEF Remaining
      <4>2. e[d][i] = Entity(e[d][i].participant, e[d][i].topic) /\ e[d][i].topic = None
        <5>1. CASE e[d][i] = Entity(Dangling, None)
          BY <5>1 DEF Entity
        <5>2. CASE e[d][i] = entities[d][i]
          BY <5>2, <3>1, <3>3, Zenon DEF EntityInv
        <5> QED
          BY <4>1, <5>1, <5>2, Zenon
      <4>3. \/ e[d][i].participant = Dangling
            \/ \E j \in DOMAIN e[d] : Kind(j) = "participant" /\ e[d][j].participant = e[d][i].participant
        <5>1. Entity(Dangling, None).participant = Dangling
          BY Zenon DEF Entity
        <5> QED
          BY <4>1, <5>1, Zenon
      <4>4. i \in Id(Kinds \ Unsupported)
        BY <3>1, Zenon DEF EntityInv
      <4> QED
        BY <3>3, <4>2, <4>3, <4>4, <1>5, Zenon DEF EntityInv
    <3> QED
      BY <3>2, <3>3, Zenon
  <2> QED
    BY <2>1, <2>2, <2>3, <1>5, Zenon DEF EntitiesInv
<1>11. ASSUME NEW p \in LP PROVE ParticipantInv(p)'
  <2>1. ParticipantInv(p)
    BY <1>6, TreeFacts, Zenon
  <2> QED
    <3> DEFINE left == participants'[p].register
    <3>1. /\ participants'[p] = [domain |-> participants[p].domain, register |-> left]
          /\ DOMAIN left = {n \in DOMAIN participants[p].register : participants[p].register[n] \in LT}
          /\ \A n \in DOMAIN left : left[n] = participants[p].register[n]
          /\ left = [n \in DOMAIN left |-> left[n]]
      BY <1>7, Zenon
    <3> HIDE DEF left
    <3>2. participants'[p].domain = participants[p].domain
      BY <3>1
    <3>3. p \in ParticipantsAt /\ participants[p].domain \in Domains
          /\ \A n \in DOMAIN participants[p].register : participants[p].register[n][1] = <<p, n>>
      BY <2>1, Zenon DEF ParticipantInv
    <3>4. \A n \in DOMAIN left : left[n] \in DOMAIN topics' /\ left[n][1] = <<p, n>>
      BY <3>1, <3>3, <1>8, Zenon
    <3> QED
      BY <3>1, <3>2, <3>3, <3>4, Zenon DEF ParticipantInv, left
<1>12. ASSUME NEW t \in LT PROVE TopicInv(t)'
  <2>1. TopicInv(t) /\ topics[t].participant \in LP /\ topics[t].global \in LG
    BY <1>6, TreeFacts, Zenon
  <2> DEFINE p == t[1][1]
             n == t[1][2]
  <2>2. p \in LP /\ n \in DOMAIN participants[p].register /\ participants[p].register[n] = t
    <3>1. topics[t].participant = p
      BY <1>6, NameFacts, Zenon
    <3> QED
      BY <2>1, <3>1, Zenon DEF TopicInv
  <2>3. /\ n \in DOMAIN participants'[p].register /\ participants'[p].register[n] = t
        /\ participants'[p].domain = participants[p].domain
    <3> HIDE DEF p, n
    <3>1. /\ participants'[p] = [domain |-> participants[p].domain, register |-> participants'[p].register]
          /\ DOMAIN participants'[p].register =
               {m \in DOMAIN participants[p].register : participants[p].register[m] \in LT}
          /\ \A m \in DOMAIN participants'[p].register :
               participants'[p].register[m] = participants[p].register[m]
      BY <2>2, <1>7, Zenon
    <3>2. participants'[p].domain = participants[p].domain
      BY <3>1
    <3> QED
      BY <2>2, <3>1, <3>2, Zenon
  <2> QED
    BY <2>1, <2>2, <2>3, <1>8, <1>9, Zenon DEF TopicInv
<1>13. ASSUME NEW g \in LG PROVE GlobalInv(g)'
  BY <1>5, <1>6, <1>9, TreeFacts, Zenon DEF GlobalInv
<1>14. DOMAIN unregistering' = Threads
  BY <1>5, Zenon DEF TreeInv, ThreadsInv
<1>15. ASSUME NEW k \in DOMAIN registry' PROVE EntryInv(k)'
  <2>1. EntryInv(k) /\ registry'[k] = registry[k]
    BY <1>5, TreeFacts, Zenon
  <2>2. CASE registry[k] \in DOMAIN globals /\ registry[k] \notin LG
    <3>1. k = <<globals[registry[k]].domain, globals[registry[k]].name>>
      <4>1. PICK g \in DOMAIN globals : g = registry[k]
        BY <2>2, Zenon
      <4>2. GlobalInv(g) /\ g[1] = k
        BY <2>1, <4>1, TreeFacts, Zenon DEF EntryInv
      <4>3. globals[g].domain = g[1][1] /\ globals[g].name = g[1][2] /\ g[1] = <<g[1][1], g[1][2]>>
        BY <4>2 DEF GlobalInv
      <4> QED
        BY <4>1, <4>2, <4>3, Zenon
    <3>2. k \in unregistering'[h]
      BY <3>1, <2>2, <1>5, Zenon DEF TreeInv, ThreadsInv
    <3> QED
      BY <2>1, <3>2, Zenon DEF EntryInv
  <2>3. CASE registry[k] \in LG
    BY <2>1, <2>3, <1>8, Zenon DEF EntryInv
  <2>4. CASE registry[k] \notin DOMAIN globals
    <3>1. PICK o \in Threads : k \in unregistering[o]
      BY <2>1, <2>4, Zenon DEF EntryInv
    <3>2. unregistering'[o] = unregistering[o]
      BY <3>1, <1>5, Zenon DEF TreeInv, ThreadsInv
    <3> QED
      BY <2>1, <3>1, <3>2, Zenon DEF EntryInv
  <2> QED
    BY <2>2, <2>3, <2>4, Zenon
<1>16. /\ objects' \in [Clients -> SUBSET Id(Kinds)] /\ id \notin objects'[c]
       /\ \A d \in Clients : objects'[d] \subseteq objects[d]
  BY <1>5, Zenon DEF TreeInv, ThreadsInv
<1> QED
  BY <1>8, <1>10, <1>11, <1>12, <1>13, <1>14, <1>15, <1>16, Zenon DEF CedInv

\* unregister_topic erases an entry only if its topic is dead.
LEMMA UnregisterStep ==
  ASSUME TreeInv, NEW h \in Threads, unregister_topic(h)
  PROVE  TreeInv'
<1>1. PICK key \in unregistering[h] :
        /\ unregistering' = [unregistering EXCEPT ![h] = unregistering[h] \ {key}]
        /\ registry' = IF key \in DOMAIN registry /\ registry[key] \notin DOMAIN globals
                       THEN [k \in DOMAIN registry \ {key} |-> registry[k]]
                       ELSE registry
  BY Zenon DEF unregister_topic, Restrict
<1>2. UNCHANGED <<objects, entities, participants, topics, globals, request, releasing>>
  BY Zenon DEF unregister_topic
<1>3. /\ DOMAIN unregistering' = Threads
      /\ \A o \in Threads : \A k \in unregistering[o] : k # key => k \in unregistering'[o]
  BY <1>1, Zenon DEF TreeInv, ThreadsInv
<1>4. /\ DOMAIN registry' \subseteq DOMAIN registry
      /\ \A k \in DOMAIN registry' : registry'[k] = registry[k]
      /\ \A k \in DOMAIN registry : registry[k] \in DOMAIN globals \/ k # key => k \in DOMAIN registry'
      /\ key \in DOMAIN registry' => registry[key] \in DOMAIN globals
  BY <1>1
<1>5. ASSUME NEW g \in DOMAIN globals PROVE GlobalInv(g)'
  <2>1. GlobalInv(g)
    BY TreeFacts, Zenon
  <2>2. g[1] \in DOMAIN registry' /\ registry'[g[1]] = g
    BY <2>1, <1>4, Zenon DEF GlobalInv
  <2> QED
    BY <2>1, <2>2, <1>2, Zenon DEF GlobalInv
<1>6. ASSUME NEW k \in DOMAIN registry' PROVE EntryInv(k)'
  <2>1. EntryInv(k) /\ registry'[k] = registry[k]
    BY <1>4, TreeFacts, Zenon
  <2>2. CASE registry[k] \in DOMAIN globals
    BY <2>1, <2>2, <1>2, Zenon DEF EntryInv
  <2>3. CASE registry[k] \notin DOMAIN globals
    <3>1. PICK o \in Threads : k \in unregistering[o]
      BY <2>1, <2>3, Zenon DEF EntryInv
    <3>2. k # key
      BY <2>3, <1>4, Zenon
    <3>3. k \in unregistering'[o]
      BY <3>1, <3>2, <1>3, Zenon
    <3> QED
      BY <2>1, <3>3, Zenon DEF EntryInv
  <2> QED
    BY <2>2, <2>3, Zenon
<1>7. CedInv'
  <2>1. ASSUME NEW p \in DOMAIN participants PROVE ParticipantInv(p)'
    <3>1. ParticipantInv(p)
      BY TreeFacts, Zenon
    <3> QED
      BY <3>1, <1>2, Zenon DEF ParticipantInv
  <2>2. ASSUME NEW t \in DOMAIN topics PROVE TopicInv(t)'
    <3>1. TopicInv(t)
      BY TreeFacts, Zenon
    <3> QED
      BY <3>1, <1>2, Zenon DEF TopicInv
  <2>3. participants' = participants /\ topics' = topics /\ globals' = globals
    BY <1>2, Zenon
  <2> QED
    BY <2>1, <2>2, <2>3, <1>5, <1>6, Zenon DEF CedInv
<1>8. EntitiesInv'
  <2>1. ASSUME NEW c \in Clients, NEW i \in DOMAIN entities[c] PROVE EntityInv(c, i)'
    <3>1. EntityInv(c, i)
      BY TreeFacts, Zenon
    <3> QED
      BY <3>1, <1>2, Zenon DEF EntityInv
  <2> QED
    BY <1>2, <2>1, TreeFacts, Zenon DEF EntitiesInv
<1>9. ThreadsInv'
  BY <1>2, <1>3, Zenon DEF TreeInv, ThreadsInv
<1> QED
  BY <1>7, <1>8, <1>9, Zenon DEF TreeInv

\* Nothing that CED or the objects are made of changes.
LEMMA SameTree ==
  ASSUME TreeInv, UNCHANGED <<objects, entities, ced, unregistering>>, releasing' \in Clients \cup {None},
         request' = request \/ request' = None
  PROVE  TreeInv'
<1>1. EntitiesInv' /\ CedInv'
  BY NotCreatedStep
<1>2. ThreadsInv'
  BY DEF TreeInv, ThreadsInv
<1> QED
  BY <1>1, <1>2 DEF TreeInv

-----------------------------------------------------------------------------
(* The threads. *)

\* There is nothing at the start.
LEMMA InitTree == Init => TreeInv
<1> SUFFICES ASSUME Init PROVE TreeInv
  OBVIOUS
<1>1. ThreadsInv
  BY DEF Init, ThreadsInv
<1>2. EntitiesInv
  BY DEF Init, EntitiesInv
<1>3. CedInv
  BY DEF Init, CedInv
<1> QED
  BY <1>1, <1>2, <1>3 DEF TreeInv

\* CREATE, with or without a replacement.
LEMMA CreateObjectStep ==
  ASSUME TreeInv, FreshInv, NEW c \in Clients, NEW q \in Creations[c], NEW reuse, NEW replace,
         CreateObject(c, q, reuse, replace)
  PROVE  TreeInv'
<1>1. /\ unregistering["processing"] = {} /\ ~ fault /\ request = None /\ releasing' = releasing
      /\ DOMAIN unregistering = Threads /\ "processing" \in Threads /\ releasing \in Clients \cup {None}
  BY DEF CreateObject, Ready, Runs, TreeInv, ThreadsInv, Threads
<1>2. CASE q.id \notin objects[c] /\ create(c, q) /\ UNCHANGED <<unregistering, request>>
  <2>1. EntitiesInv' /\ CedInv' /\ objects' \in [Clients -> SUBSET Id(Kinds)]
    BY <1>1, <1>2, CreateStep
  <2> QED
    BY <1>1, <1>2, <2>1 DEF TreeInv, ThreadsInv
<1>3. CASE UNCHANGED <<objects, entities, ced, unregistering, request, fault>>
  BY <1>1, <1>3, SameTree
<1>4. CASE Erase("processing", c, q.id) /\ request' = [client |-> c, creation |-> q]
  <2>1. /\ EntitiesInv' /\ CedInv' /\ objects' \in [Clients -> SUBSET Id(Kinds)]
        /\ DOMAIN unregistering' = Threads /\ q.id \notin objects'[c]
    BY <1>1, <1>4, EraseStep
  <2> QED
    BY <1>1, <1>4, <2>1, Zenon DEF TreeInv, ThreadsInv
<1> QED
  BY <1>2, <1>3, <1>4, Zenon DEF CreateObject

\* The second half of a replacement.
LEMMA RecreateStep ==
  ASSUME TreeInv, FreshInv, Recreate
  PROVE  /\ TreeInv' /\ request' = None
         /\ \E c \in Clients : \E q \in Creations[c] :
              /\ request.client = c /\ request.creation = q
              /\ q.id \in objects'[c] => matched(c, q)'
<1>1. PICK c \in Clients : c = request.client
  BY Zenon DEF Recreate, TreeInv, ThreadsInv
<1>2. PICK q \in Creations[c] : q = request.creation
  BY <1>1, Zenon DEF Recreate, TreeInv, ThreadsInv
<1>3. q.id \notin objects[c] /\ create(c, q) /\ ~ fault /\ request' = None /\ UNCHANGED <<releasing, unregistering>>
  BY <1>1, <1>2, Zenon DEF Recreate, Runs, TreeInv, ThreadsInv
<1>4. /\ EntitiesInv' /\ CedInv' /\ objects' \in [Clients -> SUBSET Id(Kinds)]
      /\ q.id \in objects'[c] => matched(c, q)'
  BY <1>3, CreateStep, Zenon
<1>5. ThreadsInv'
  BY <1>3, <1>4, Zenon DEF TreeInv, ThreadsInv
<1> QED
  BY <1>1, <1>2, <1>3, <1>4, <1>5, Zenon DEF TreeInv

\* An object is deleted, by its client or with it.
LEMMA DeletedStep ==
  ASSUME TreeInv, NEW h \in Threads, unregistering[h] = {}, NEW c \in Clients, NEW id, Erase(h, c, id),
         UNCHANGED <<request, releasing>>
  PROVE  TreeInv'
<1>1. /\ EntitiesInv' /\ CedInv' /\ objects' \in [Clients -> SUBSET Id(Kinds)]
      /\ DOMAIN unregistering' = Threads
      /\ \A d \in Clients : objects'[d] \subseteq objects[d]
  BY EraseStep, Zenon
<1>2. ThreadsInv'
  BY <1>1, Zenon DEF TreeInv, ThreadsInv
<1> QED
  BY <1>1, <1>2 DEF TreeInv

\* Every step of either thread.
LEMMA NextTree ==
  ASSUME TreeInv, FreshInv, [Next]_vars
  PROVE  TreeInv'
<1>1. ASSUME NEW c \in Clients, NEW reuse \in BOOLEAN, NEW replace \in BOOLEAN, NEW q \in Creations[c],
             CreateObject(c, q, reuse, replace)
      PROVE  TreeInv'
  BY <1>1, CreateObjectStep
<1>2. releasing \in Clients \cup {None} /\ "processing" \in Threads /\ "heartbeat" \in Threads
  BY Zenon DEF TreeInv, ThreadsInv, Threads
<1>3. ASSUME NEW c \in Clients, NEW id \in Ids(c), DeleteObject(c, id)
      PROVE  TreeInv'
  <2>1. CASE Erase("processing", c, id)
    BY <1>2, <1>3, <2>1, DeletedStep DEF DeleteObject, Ready, Runs
  <2>2. CASE UNCHANGED <<objects, entities, ced, unregistering>>
    BY <1>2, <1>3, <2>2, SameTree, Zenon DEF DeleteObject
  <2> QED
    BY <1>3, <2>1, <2>2, Zenon DEF DeleteObject
<1>4. CASE Recreate
  BY <1>4, RecreateStep
<1>5. ASSUME NEW h \in Threads, unregister_topic(h)
      PROVE  TreeInv'
  BY <1>5, UnregisterStep, Zenon
<1>6. ASSUME NEW c \in Clients, release(c) \/ Race(c)
      PROVE  TreeInv'
  BY <1>2, <1>6, SameTree, Zenon DEF release, Race
<1>7. CASE ReleaseObject
  <2>1. PICK c \in Clients : c = releasing
    BY <1>2, <1>7, Zenon DEF ReleaseObject
  <2>2. ASSUME NEW id \in objects[releasing], Erase("heartbeat", releasing, id), UNCHANGED releasing
        PROVE  TreeInv'
    <3>1. Erase("heartbeat", c, id)
      BY <2>1, <2>2
    <3> QED
      BY <1>2, <1>7, <2>2, <3>1, DeletedStep DEF ReleaseObject, Runs
  <2>3. CASE releasing' = None /\ UNCHANGED <<objects, entities, ced, unregistering>>
    BY <1>7, <2>3, SameTree DEF ReleaseObject
  <2> QED
    BY <1>7, <2>2, <2>3, Zenon DEF ReleaseObject
<1>8. CASE UNCHANGED vars
  BY <1>2, <1>8, SameTree DEF vars, ced
<1> QED
  BY <1>1, <1>3, <1>4, <1>5, <1>6, <1>7, <1>8 DEF Next

-----------------------------------------------------------------------------
(* Addresses.  A step makes at most one participant and at most one topic, *)
(* so there are finitely many of each, and the next one finds a place.     *)

\* A step adds at most one participant and one topic.
OneMore ==
  /\ \E x : DOMAIN participants' \subseteq DOMAIN participants \cup {x}
  /\ \E x : DOMAIN topics' \subseteq DOMAIN topics \cup {x}

\* A creation makes one participant or one topic, if any.
LEMMA CreateAdds ==
  ASSUME NEW c, NEW q, create(c, q)
  PROVE  OneMore
<1>1. CASE UNCHANGED ced
  BY <1>1 DEF OneMore, ced
<1>2. CASE create_participant(c, q.id, q.arg)
  <2>1. PICK p : p = Fresh(c, DOMAIN participants)
    OBVIOUS
  <2>2. DOMAIN participants' = DOMAIN participants \cup {p} /\ topics' = topics
    BY <1>2, <2>1 DEF create_participant, Put
  <2> QED
    BY <2>2 DEF OneMore
<1>3. ASSUME NEW p, NewTopic(c, q.id, p, q.arg) PROVE OneMore
  <2>1. CASE Fault
    BY <1>1, <2>1 DEF Fault
  <2>2. CASE ~ Fault
    <3>1. PICK t, g : topics' = Put(topics, t, [participant |-> p, global |-> g])
      BY <1>3, <2>2, Zenon DEF NewTopic
    <3>2. PICK r : participants' = [participants EXCEPT ![p].register = r]
      BY <1>3, <2>2, Zenon DEF NewTopic
    <3>3. DOMAIN participants' = DOMAIN participants /\ DOMAIN topics' = DOMAIN topics \cup {t}
      BY <3>1, <3>2, PutFacts, Zenon
    <3> QED
      BY <3>3 DEF OneMore
  <2> QED
    BY <2>1, <2>2
<1>4. CASE create_topic(c, q)
  BY <1>1, <1>3, <1>4, Zenon DEF create_topic
<1>5. ASSUME NEW p, NEW name, create_endpoint(c, q.id, p, name) PROVE OneMore
  BY <1>1, <1>5 DEF create_endpoint, NotCreated
<1>6. ASSUME NEW name, create_astray(c, q.id, name) PROVE OneMore
  BY <1>1, <1>5, <1>6 DEF create_astray, NotCreated, Fault
<1>7. \/ UNCHANGED ced \/ create_participant(c, q.id, q.arg) \/ create_topic(c, q)
      \/ \E p, name : create_endpoint(c, q.id, p, name)
      \/ \E name : create_astray(c, q.id, name)
  BY Zenon DEF create, NotCreated, create_group
<1> QED
  BY <1>1, <1>2, <1>4, <1>5, <1>6, <1>7

\* A deletion makes nothing.
LEMMA EraseAdds ==
  ASSUME TreeInv, NEW h, NEW c \in Clients, NEW id, Erase(h, c, id)
  PROVE  OneMore
<1>1. /\ DOMAIN topics' = LiveTopics(Without(c, id))
      /\ DOMAIN participants' = LiveParticipants(Without(c, id))
  BY DEF Erase, Restrict
<1> QED
  BY <1>1, LiveFacts, Zenon DEF OneMore

\* No step makes more than one of each.
LEMMA NextAdds ==
  ASSUME TreeInv, [Next]_vars
  PROVE  OneMore
<1>1. CASE UNCHANGED ced
  BY <1>1 DEF OneMore, ced
<1>2. ASSUME NEW c \in Clients, NEW reuse, NEW replace, NEW q, CreateObject(c, q, reuse, replace)
      PROVE  OneMore
  BY <1>1, <1>2, CreateAdds, EraseAdds DEF CreateObject
<1>3. ASSUME NEW c \in Clients, NEW id, DeleteObject(c, id)
      PROVE  OneMore
  BY <1>1, <1>3, EraseAdds DEF DeleteObject
<1>4. CASE Recreate
  BY <1>4, CreateAdds DEF Recreate
<1>5. ASSUME NEW h \in Threads, unregister_topic(h)
      PROVE  OneMore
  BY <1>5 DEF unregister_topic, OneMore
<1>6. ASSUME NEW c \in Clients, release(c) \/ Race(c)
      PROVE  OneMore
  BY <1>1, <1>6 DEF release, Race
<1>7. CASE ReleaseObject
  <2>1. releasing \in Clients
    BY <1>7 DEF ReleaseObject, TreeInv, ThreadsInv
  <2> QED
    BY <1>1, <1>7, <2>1, EraseAdds DEF ReleaseObject
<1>8. CASE UNCHANGED vars
  BY <1>1, <1>8, Zenon DEF vars, ced
<1> QED
  BY <1>2, <1>3, <1>4, <1>5, <1>6, <1>7, <1>8 DEF Next

-----------------------------------------------------------------------------
(* What the manager and the registers say.                                 *)

\* The two maps of a client have the same ids.
LEMMA TreeMatches == TreeInv => EntitiesMatchObjects
BY DEF TreeInv, EntitiesInv, EntitiesMatchObjects

\* A topic's participant has it in its register under its name.
LEMMA TopicFacts ==
  ASSUME TreeInv, NEW t \in DOMAIN topics
  PROVE  LET p == topics[t].participant
             n == TopicName(t)
         IN  /\ t[1] = <<p, n>> /\ topics[t].global \in DOMAIN globals
             /\ n \in DOMAIN participants[p].register /\ participants[p].register[n] = t
<1>1. TopicInv(t)
  BY TreeFacts
<1> QED
  BY <1>1, NameFacts, Zenon DEF TopicInv

\* Global topics of one domain and name are registered under one key, hence the same.
LEMMA TreeShares == TreeInv => OneGlobalTopic
<1> SUFFICES ASSUME TreeInv, NEW s \in DOMAIN topics, NEW t \in DOMAIN topics,
                    globals[topics[s].global] = globals[topics[t].global]
             PROVE  topics[s].global = topics[t].global
  BY DEF OneGlobalTopic
<1>1. PICK g \in DOMAIN globals : g = topics[s].global
  BY TopicFacts
<1>2. PICK k \in DOMAIN globals : k = topics[t].global
  BY TopicFacts, Zenon
<1>3. GlobalInv(g) /\ GlobalInv(k)
  BY TreeFacts, Zenon
<1>4. globals[g].domain = globals[k].domain /\ globals[g].name = globals[k].name
  BY <1>1, <1>2
<1>5. g[1] = <<globals[g].domain, globals[g].name>> /\ k[1] = <<globals[k].domain, globals[k].name>>
  BY <1>3 DEF GlobalInv
<1>6. g[1] = k[1]
  BY <1>4, <1>5, Zenon
<1> QED
  BY <1>1, <1>2, <1>3, <1>6, Zenon DEF GlobalInv

\* A register and the topics of its participant determine each other.
LEMMA TreeRegisters == TreeInv => RegisterIsExact
<1> SUFFICES ASSUME TreeInv, NEW p \in DOMAIN participants
             PROVE  participants[p].register =
                      [n \in {TopicName(t) : t \in {u \in DOMAIN topics : topics[u].participant = p}} |->
                          CHOOSE t \in DOMAIN topics : topics[t].participant = p /\ TopicName(t) = n]
  BY DEF RegisterIsExact
<1>1. PICK register : register = participants[p].register
  OBVIOUS
<1>2. /\ register = [n \in DOMAIN register |-> register[n]]
      /\ \A n \in DOMAIN register : register[n] \in DOMAIN topics /\ register[n][1] = <<p, n>>
  BY <1>1, TreeFacts DEF ParticipantInv
<1>3. ASSUME NEW n \in DOMAIN register
      PROVE  /\ topics[register[n]].participant = p /\ TopicName(register[n]) = n
             /\ \A t \in DOMAIN topics : topics[t].participant = p /\ TopicName(t) = n => t = register[n]
  BY <1>1, <1>2, TopicFacts
<1>4. DOMAIN register = {TopicName(t) : t \in {u \in DOMAIN topics : topics[u].participant = p}}
  <2>1. ASSUME NEW t \in DOMAIN topics, topics[t].participant = p PROVE TopicName(t) \in DOMAIN register
    BY <1>1, <2>1, TopicFacts
  <2> QED
    BY <1>2, <1>3, <2>1
<1>5. ASSUME NEW n \in DOMAIN register
      PROVE  register[n] = CHOOSE t \in DOMAIN topics : topics[t].participant = p /\ TopicName(t) = n
  BY <1>2, <1>3
<1> QED
  BY <1>1, <1>2, <1>4, <1>5, Zenon

\* The manager's map, in terms of the keys of live topics.
LEMMA TreeRegistry == TreeInv => RegistryIsExact
<1> SUFFICES ASSUME TreeInv PROVE RegistryIsExact
  OBVIOUS
<1>1. ASSUME NEW g \in DOMAIN globals
      PROVE  LET k == <<globals[g].domain, globals[g].name>>
             IN  k \in DOMAIN registry /\ registry[k] = g
  BY TreeFacts DEF GlobalInv
<1>2. ASSUME NEW k \in DOMAIN registry
      PROVE  registry[k] \in DOMAIN globals \/ \E h \in Threads : k \in unregistering[h]
  BY TreeFacts DEF EntryInv
<1> QED
  BY <1>1, <1>2 DEF RegistryIsExact

\* What an entity of the kind of a writer refers to.
LEMMA TreeWriters == TreeInv => WritersStayHome
<1> SUFFICES ASSUME TreeInv, NEW c \in Clients, NEW i \in DOMAIN entities[c], Kind(i) = "datawriter"
             PROVE  topics[entities[c][i].topic].participant = entities[c][i].participant
  BY Zenon DEF WritersStayHome
<1>1. EntityInv(c, i)
  BY TreeFacts
<1> QED
  BY <1>1 DEF EntityInv

-----------------------------------------------------------------------------
(* The theorems. *)

FS == INSTANCE FiniteSetTheorems

\* The library's cardinality is that of FiniteSets.
LEMMA SameCardinality ==
  ASSUME NEW S
  PROVE  FS!Cardinality(S) = Cardinality(S)
BY Zenon DEF FS!Cardinality, Cardinality

\* Among one more numbers than there are addresses in use, one is free.
LEMMA FreshFacts ==
  ASSUME NEW owner, NEW used, FS!IsFiniteSet(used)
  PROVE  Fresh(owner, used) \in ({owner} \X Nat) \ used
<1>1. PICK k : k = Cardinality(used)
  OBVIOUS
<1>2. k \in Nat /\ FS!Cardinality(used) = k
  BY <1>1, FS!FS_CardinalityType, SameCardinality
<1>3. FS!IsFiniteSet(1..(k + 1)) /\ FS!Cardinality(1..(k + 1)) = k + 1
  <2>1. 1 \in Int /\ k + 1 \in Int /\ ~ (1 > k + 1) /\ (k + 1) - 1 + 1 = k + 1
    BY <1>2
  <2> QED
    BY <2>1, FS!FS_Interval
<1>4. \E n \in 1..(k + 1) : <<owner, n>> \notin used
  <2> SUFFICES ASSUME \A n \in 1..(k + 1) : <<owner, n>> \in used PROVE FALSE
    OBVIOUS
  <2>1. PICK f \in [1..(k + 1) -> used] : \A n \in 1..(k + 1) : f[n] = <<owner, n>>
    <3> WITNESS [n \in 1..(k + 1) |-> <<owner, n>>] \in [1..(k + 1) -> used]
    <3> QED
      OBVIOUS
  <2>2. FS!Cardinality(used) < FS!Cardinality(1..(k + 1))
    BY <1>2, <1>3
  <2>3. \E x, y \in 1..(k + 1) : x # y /\ f[x] = f[y]
    BY <1>3, <2>2, FS!FS_PigeonHole, Zenon
  <2> QED
    BY <2>1, <2>3
<1>5. PICK n \in 1..(k + 1) : <<owner, n>> \notin used /\ Fresh(owner, used) = <<owner, n>>
  BY <1>1, <1>4 DEF Fresh
<1> QED
  BY <1>2, <1>5

FiniteInv == FS!IsFiniteSet(DOMAIN participants) /\ FS!IsFiniteSet(DOMAIN topics)

\* While there are finitely many objects, the next one finds a place.
LEMMA FiniteIsFresh == FiniteInv => FreshInv
<1> SUFFICES ASSUME FiniteInv PROVE FreshInv
  OBVIOUS
<1>1. ASSUME NEW c \in Clients
      PROVE  Fresh(c, DOMAIN participants) \in ({c} \X Nat) \ DOMAIN participants
  BY FreshFacts DEF FiniteInv
<1>2. ASSUME NEW p \in ParticipantsAt, NEW n \in Names
      PROVE  Fresh(<<p, n>>, DOMAIN topics) \in {<<p, n>>} \X Nat
  <2>1. Fresh(<<p, n>>, DOMAIN topics) \in ({<<p, n>>} \X Nat) \ DOMAIN topics
    BY FreshFacts DEF FiniteInv
  <2> QED
    BY <2>1
<1> QED
  BY <1>1, <1>2 DEF FreshInv

\* A subset of a finite set and one more element is finite.
LEMMA FiniteGrows ==
  ASSUME NEW S, NEW T, NEW x, FS!IsFiniteSet(S), T \subseteq S \cup {x}
  PROVE  FS!IsFiniteSet(T)
<1>1. FS!IsFiniteSet(S \cup {x})
  BY FS!FS_AddElement
<1>2. T \in SUBSET (S \cup {x})
  OBVIOUS
<1> QED
  BY <1>1, <1>2, FS!FS_Subset

\* One more is still finitely many.
LEMMA FiniteStep ==
  ASSUME FiniteInv, OneMore
  PROVE  FiniteInv'
<1>1. PICK x : DOMAIN participants' \subseteq DOMAIN participants \cup {x}
  BY DEF OneMore
<1>2. PICK y : DOMAIN topics' \subseteq DOMAIN topics \cup {y}
  BY DEF OneMore
<1>3. FS!IsFiniteSet(DOMAIN participants')
  BY <1>1, FiniteGrows, Zenon DEF FiniteInv
<1>4. FS!IsFiniteSet(DOMAIN topics')
  BY <1>2, FiniteGrows, Zenon DEF FiniteInv
<1> QED
  BY <1>3, <1>4 DEF FiniteInv

\* Objects, entities, participants, topics, global topics and the manager stay
\* as TreeInv says, whatever the two threads do.
THEOREM TreeIsSound == Spec => [](TreeInv /\ FiniteInv)
<1>1. Init => TreeInv /\ FiniteInv
  <2> SUFFICES ASSUME Init PROVE TreeInv /\ FiniteInv
    OBVIOUS
  <2>1. DOMAIN participants = {} /\ DOMAIN topics = {}
    BY DEF Init
  <2> QED
    BY <2>1, InitTree, FS!FS_EmptySet DEF FiniteInv
<1>2. TreeInv /\ FiniteInv /\ [Next]_vars => (TreeInv /\ FiniteInv)'
  <2> SUFFICES ASSUME TreeInv, FiniteInv, [Next]_vars PROVE TreeInv' /\ FiniteInv'
    OBVIOUS
  <2>1. TreeInv'
    BY FiniteIsFresh, NextTree
  <2>2. OneMore
    BY NextAdds
  <2> QED
    BY <2>1, <2>2, FiniteStep
<1> QED
  BY <1>1, <1>2, PTL DEF Spec

\* Every object has its entity and every entity its object: ProxyClient::objects_
\* and the maps of CedMiddleware never come apart.
THEOREM ObjectsHaveEntities == Spec => []EntitiesMatchObjects
BY TreeIsSound, TreeMatches, PTL

\* Topics of one domain and one name share one CedGlobalTopic.
THEOREM GlobalTopicIsShared == Spec => []OneGlobalTopic
BY TreeIsSound, TreeShares, PTL

\* topic_register_ of a participant holds its live topics under their names, and
\* nothing else.
THEOREM RegisterExact == Spec => []RegisterIsExact
BY TreeIsSound, TreeRegisters, PTL

\* CedTopicManager::topics_ holds the live global topics, and dead ones only until
\* the destructor that waits for the mutex has erased them.
THEOREM RegistryExact == Spec => []RegistryIsExact
BY TreeIsSound, TreeRegistry, PTL

\* A writer's topic belongs to the participant of its publisher.
THEOREM WritersAtHome == Spec => []WritersStayHome
BY TreeIsSound, TreeWriters, PTL

\* The step that ends a replacement is Recreate, and it leaves what was asked for.
LEMMA ReplacementStep ==
  ASSUME TreeInv, FreshInv, [Next]_vars, request # None, request' = None
  PROVE  \E c \in Clients : \E q \in Creations[c] :
           /\ request.client = c /\ request.creation = q
           /\ q.id \in objects'[c] => matched(c, q)'
<1>1. Recreate
  <2>1. ~ UNCHANGED vars
    BY DEF vars
  <2>2. ~ Ready
    BY DEF Ready
  <2>3. \A h \in Threads : ~ unregister_topic(h)
    BY DEF unregister_topic
  <2>4. ~ ReleaseObject /\ \A c \in Clients : ~ release(c) /\ ~ Race(c)
    BY DEF release, Race, ReleaseObject
  <2>5. \A c \in Clients : \A q \in Creations[c] : \A reuse, replace \in BOOLEAN :
          ~ CreateObject(c, q, reuse, replace)
    BY <2>2, Zenon DEF CreateObject
  <2>6. \A c \in Clients : \A id \in Ids(c) : ~ DeleteObject(c, id)
    BY <2>2, Zenon DEF DeleteObject
  <2> QED
    BY <2>1, <2>3, <2>4, <2>5, <2>6, Zenon DEF Next
<1> QED
  BY <1>1, RecreateStep

\* A replaced object is the one the CREATE described, or is not there.
THEOREM Replacements == Spec => ReplacedAsAsked
<1>1. TreeInv /\ FiniteInv /\ [Next]_vars =>
        [\A r \in {request} \ {None} :
           /\ request' = None
           /\ r.creation.id \in objects'[r.client]
           => matched(r.client, r.creation)']_vars
  <2> SUFFICES ASSUME TreeInv, FiniteInv, [Next]_vars, NEW r, r = request, request # None, request' = None,
                      r.creation.id \in objects'[r.client]
               PROVE  matched(r.client, r.creation)'
    OBVIOUS
  <2>1. PICK c \in Clients : \E q \in Creations[c] :
           /\ request.client = c /\ request.creation = q
           /\ q.id \in objects'[c] => matched(c, q)'
    BY FiniteIsFresh, ReplacementStep
  <2>2. PICK q \in Creations[c] :
           /\ request.client = c /\ request.creation = q
           /\ q.id \in objects'[c] => matched(c, q)'
    BY <2>1
  <2>3. r.client = c /\ r.creation = q
    BY <2>2
  <2> QED
    BY <2>2, <2>3
<1> QED
  BY <1>1, TreeIsSound, PTL DEF Spec, ReplacedAsAsked
=============================================================================
