--------------------------- MODULE ClientsProofs ----------------------------
(***************************************************************************)
(* Proofs about the table of clients and the maps of sessions, for every   *)
(* set of keys, endpoints, session ids and proxy addresses.                *)
(***************************************************************************)
EXTENDS Clients, TLAPS

\* The local variables of a thread are set where they are used.
ProcLocals ==
  /\ proc.pc \notin {"idle"} => proc.source \in EndPoints
  /\ proc.pc \in {"create_find", "create_erase", "create_destroy"} => proc.old \in Keys
  /\ proc.pc \in {"create_find", "create_erase", "create_destroy", "create", "establish"} =>
       proc.key \in Keys /\ proc.session \in Sessions /\ proc.client = None
  /\ proc.pc \in {"heard", "delete_find", "delete_erase", "delete_destroy", "done"} =>
       proc.key \in Keys
  /\ proc.pc \in {"idle", "find"} => proc.client = None
  /\ hb.pc = "next" => hb.client = None
  /\ api.pc = "erase" => api.key \in Keys

SessionInv == SessionTypeOK /\ MapsAgree

\* The proxy of a key is that key's.
OwnKeys == \A k \in Keys : clients[k] # None => proxy[clients[k]].key = k

RootInv == RootTypeOK /\ IteratorValid /\ OwnKeys

IInv ==
  /\ SessionInv /\ RootInv
  /\ proc \in ProcType /\ hb \in HbType
  /\ api \in [pc : {"idle", "erase"}, key : Keys \cup {None}]
  /\ ProcLocals
  /\ ReferencedIsAlive

-----------------------------------------------------------------------------
(* The operations of SessionManager. *)

\* establish_session takes the client's old endpoint away before it enters the new one.
LEMMA EstablishInv ==
  ASSUME SessionInv, NEW e \in EndPoints, NEW k \in Keys, NEW s,
         establish_session(e, k, s)
  PROVE  SessionInv'
  BY SessionManagerAssumption
     DEF SessionInv, SessionTypeOK, MapsAgree, establish_session, Erased

\* destroy_session of an endpoint removes both directions.
LEMMA DestroyFromInv ==
  ASSUME SessionInv, NEW e \in EndPoints, destroy_session_from(e)
  PROVE  SessionInv'
  BY SessionManagerAssumption
     DEF SessionInv, SessionTypeOK, MapsAgree, destroy_session_from, Erased

\* destroy_session of a client removes both directions.
LEMMA DestroyOfInv ==
  ASSUME SessionInv, NEW k \in Keys, destroy_session_of(k)
  PROVE  SessionInv'
  BY SessionManagerAssumption
     DEF SessionInv, SessionTypeOK, MapsAgree, destroy_session_of, Erased

-----------------------------------------------------------------------------
(* The operations of Root. *)

\* Freeing keeps what the table or a thread refers to.
LEMMA KeptFacts ==
  ASSUME NEW heap \in [Proxies -> Proxy], NEW map \in [Keys -> Proxies \cup {None}], NEW held
  PROVE  /\ Kept(heap, map, held) \in [Proxies -> Proxy]
         /\ \A i \in Proxies : i \in held => Kept(heap, map, held)[i] = heap[i]
         /\ \A k \in Keys : map[k] # None => Kept(heap, map, held)[map[k]] = heap[map[k]]
<1>1. Blank \in Proxy
  BY RootAssumption DEF Blank, Proxy, States
<1>2. \A i \in Proxies : Kept(heap, map, held)[i] =
        IF i \in held \/ \E k \in Keys : map[k] = i THEN heap[i] ELSE Blank
  BY DEF Kept
<1>3. Kept(heap, map, held) \in [Proxies -> Proxy]
  <2>1. Kept(heap, map, held) = [i \in Proxies |-> Kept(heap, map, held)[i]]
    BY DEF Kept
  <2>2. \A i \in Proxies : Kept(heap, map, held)[i] \in Proxy
    BY <1>1, <1>2
  <2> QED
    BY <2>1, <2>2
<1>4. ASSUME NEW k \in Keys, map[k] # None
      PROVE  Kept(heap, map, held)[map[k]] = heap[map[k]]
  <2>1. map[k] \in Proxies /\ \E j \in Keys : map[j] = map[k]
    BY <1>4
  <2> QED
    BY <2>1, <1>2
<1>5. ASSUME NEW i \in Proxies, i \in held PROVE Kept(heap, map, held)[i] = heap[i]
  BY <1>2, <1>5
<1> QED
  BY <1>3, <1>4, <1>5

\* delete_client moves the iterator on, and frees nothing a thread holds.
LEMMA EraseInv ==
  ASSUME RootInv, NEW k \in Keys, NEW held, erase(k, held)
  PROVE  RootInv' /\ \A i \in Proxies : i \in held => proxy'[i] = proxy[i]
<1>0. proxy' = Kept(proxy, clients', held)
  BY DEF erase
<1>1. clients' = [clients EXCEPT ![k] = None]
  BY DEF erase
<1>2. clients' \in [Keys -> Proxies \cup {None}] /\ proxy \in [Proxies -> Proxy]
  BY <1>1 DEF RootInv, RootTypeOK
<1>3. /\ proxy' \in [Proxies -> Proxy]
      /\ \A i \in Proxies : i \in held => proxy'[i] = proxy[i]
      /\ \A j \in Keys : clients'[j] # None => proxy'[clients'[j]] = proxy[clients'[j]]
  BY <1>0, <1>2, KeptFacts
<1>4. current' \in Keys \cup {End}
  BY DEF erase, RootInv, RootTypeOK
<1>5. clients'[k] = None /\ \A j \in Keys \ {k} : clients'[j] = clients[j]
  BY <1>1 DEF RootInv, RootTypeOK
<1>6. IteratorValid'
  BY <1>5, SessionManagerAssumption, RootAssumption
     DEF erase, RootInv, RootTypeOK, IteratorValid, Present, Follows
<1>7. OwnKeys'
  BY <1>3, <1>5 DEF RootInv, OwnKeys
<1> QED
  BY <1>2, <1>3, <1>4, <1>6, <1>7 DEF RootInv, RootTypeOK

\* A new proxy is put where neither the table nor a thread has one.
LEMMA NewInv ==
  ASSUME RootInv, NEW k \in Keys, NEW s \in Sessions, NEW hard \in BOOLEAN, NEW held,
         New(k, s, hard, held), UNCHANGED current
  PROVE  RootInv' /\ \A i \in Proxies : i \in held => proxy'[i] = proxy[i]
<1> DEFINE free == {i \in Proxies : i \notin held /\ \A j \in Keys : clients[j] # i}
           a == CHOOSE x \in free : TRUE
           fresh(g) == [key |-> k, session |-> s, hard |-> hard,
                        state |-> "alive", tries |-> g, silent |-> FALSE]
<1>1. PICK g \in Garbage : proxy' = Kept([proxy EXCEPT ![a] = fresh(g)], clients', held)
  BY Zenon DEF New
<1>2. a \in free /\ clients' = [clients EXCEPT ![k] = a]
  BY DEF New
<1> DEFINE heap == [proxy EXCEPT ![a] = fresh(g)]
<1>3. fresh(g) \in Proxy /\ fresh(g).key = k
  BY RootAssumption DEF Proxy, States
<1>4. /\ heap \in [Proxies -> Proxy] /\ heap[a].key = k
      /\ \A i \in Proxies \ {a} : heap[i] = proxy[i]
  BY <1>2, <1>3 DEF RootInv, RootTypeOK
<1>5. /\ clients' \in [Keys -> Proxies \cup {None}] /\ clients'[k] = a
      /\ \A j \in Keys \ {k} : clients'[j] = clients[j]
  BY <1>2 DEF RootInv, RootTypeOK
<1>6. proxy' = Kept(heap, clients', held)
  BY <1>1
<1> HIDE DEF heap
<1>7. /\ proxy' \in [Proxies -> Proxy]
      /\ \A i \in Proxies : i \in held => proxy'[i] = heap[i]
      /\ \A j \in Keys : clients'[j] # None => proxy'[clients'[j]] = heap[clients'[j]]
  BY <1>4, <1>5, <1>6, KeptFacts
<1>8. \A i \in Proxies : i \in held => proxy'[i] = proxy[i]
  BY <1>2, <1>4, <1>7
<1>9. OwnKeys'
  BY <1>2, <1>4, <1>5, <1>7 DEF RootInv, RootTypeOK, OwnKeys
<1>10. IteratorValid'
  BY <1>2, <1>5, RootAssumption DEF RootInv, RootTypeOK, IteratorValid, Present
<1> QED
  BY <1>5, <1>7, <1>8, <1>9, <1>10 DEF RootInv, RootTypeOK

\* create_client, whether the key is new, replaced or there already.
LEMMA CreateInv ==
  ASSUME RootInv, NEW k \in Keys, NEW s \in Sessions, NEW hard \in BOOLEAN, NEW held,
         create_client(k, s, hard, held)
  PROVE  RootInv' /\ \A i \in Proxies : i \in held => proxy'[i] = proxy[i]
<1>1. CASE UNCHANGED <<clients, proxy>>
  BY <1>1 DEF create_client, RootInv, RootTypeOK, IteratorValid, Present, OwnKeys
<1>2. CASE New(k, s, hard, held) \/ New(k, s, FALSE, held)
  BY <1>2, NewInv, Zenon DEF create_client
<1> QED
  BY <1>1, <1>2, Zenon DEF create_client

\* A proxy changes in place, its key does not.
LEMMA UpdateInv ==
  ASSUME RootInv, NEW i \in Proxies, NEW p \in Proxy, p.key = proxy[i].key,
         proxy' = [proxy EXCEPT ![i] = p], UNCHANGED <<clients, current>>
  PROVE  RootInv' /\ \A j \in Proxies : proxy'[j].key = proxy[j].key
<1>1. proxy' \in [Proxies -> Proxy] /\ \A j \in Proxies : proxy'[j].key = proxy[j].key
  BY DEF RootInv, RootTypeOK
<1>2. OwnKeys'
  BY <1>1 DEF RootInv, RootTypeOK, OwnKeys
<1> QED
  BY <1>1, <1>2 DEF RootInv, RootTypeOK, IteratorValid, Present

\* What the threads change in a proxy.
Changed(q, state, silent, tries) ==
  [q EXCEPT !.state = state, !.silent = silent, !.tries = tries]

\* A proxy stays one, and keeps its key, when its state, time and tries are written.
LEMMA ProxyFields ==
  ASSUME NEW q \in Proxy, NEW state \in States, NEW tries \in 0 .. TriesMod - 1,
         NEW silent \in BOOLEAN
  PROVE  Changed(q, state, silent, tries) \in Proxy
         /\ Changed(q, state, silent, tries).key = q.key
  BY Zenon DEF Proxy, Changed

\* A reset counter is in range.
LEMMA SmallNumber == 0 \in 0 .. TriesMod - 1
  BY RootAssumption

\* A thread gives up its shared pointer.
LEMMA DropInv ==
  ASSUME RootInv, NEW held, proxy' = Kept(proxy, clients, held), UNCHANGED <<clients, current>>
  PROVE  RootInv' /\ \A i \in Proxies : i \in held => proxy'[i] = proxy[i]
<1>1. /\ proxy' \in [Proxies -> Proxy]
      /\ \A i \in Proxies : i \in held => proxy'[i] = proxy[i]
      /\ \A j \in Keys : clients[j] # None => proxy'[clients[j]] = proxy[clients[j]]
  BY KeptFacts DEF RootInv, RootTypeOK
<1> QED
  BY <1>1 DEF RootInv, RootTypeOK, IteratorValid, Present, OwnKeys

\* get_next_client leaves the iterator at a client or at the end.
LEMMA WalkInv ==
  ASSUME RootInv, get_next_client \/ rewind, UNCHANGED <<clients, proxy>>
  PROVE  RootInv'
  BY RootAssumption DEF RootInv, RootTypeOK, IteratorValid, Present, OwnKeys,
     get_next_client, rewind, Follows, Begins

-----------------------------------------------------------------------------
\* No client, no session, every thread at rest.
LEMMA InitInv == Init => IInv
<1> SUFFICES ASSUME Init PROVE IInv
  OBVIOUS
<1> USE DEF Init, SessionInit, RootInit
<1>1. SessionInv
  BY DEF SessionInv, SessionTypeOK, MapsAgree
<1>2. Blank \in Proxy
  BY RootAssumption DEF Blank, Proxy, States
<1>3. RootInv
  BY <1>2 DEF RootInv, RootTypeOK, IteratorValid, OwnKeys
<1>4. proc \in ProcType /\ hb \in HbType
  BY RootAssumption DEF ProcType, HbType, Idle, Resting, States
<1>5. ProcLocals /\ ReferencedIsAlive
  BY DEF ProcLocals, ReferencedIsAlive, Idle, Resting
<1> QED
  BY <1>1, <1>3, <1>4, <1>5 DEF IInv

\* What the handlers of the processing thread keep: the proxies the heartbeat
\* thread holds, and their own locals.
LEMMA ProcStep ==
  ASSUME IInv, UNCHANGED <<hb, api>>, SessionInv', RootInv', proc' \in ProcType,
         hb.client \in Proxies => proxy'[hb.client].key = proxy[hb.client].key,
         ProcLocals',
         proc'.pc \in {"heard", "delete_find", "delete_erase", "delete_destroy", "done"} =>
           proc'.client \in Proxies /\ proxy'[proc'.client].key = proc'.key
  PROVE  IInv'
  BY DEF IInv, ReferencedIsAlive, RootInv, OwnKeys

\* Steps of the processing thread that change neither table.
LEMMA LookStep ==
  ASSUME IInv,
         \/ \E e \in EndPoints, k \in Keys, s \in Sessions :
              \/ \E hard \in BOOLEAN : RecvCreate(e, k, s, hard)
              \/ \E delete \in BOOLEAN : RecvPacket(e, k, s, delete)
         \/ CreateFind \/ Refuse \/ Find \/ DeleteFind
  PROVE  IInv'
<1>1. UNCHANGED <<sessionVars, rootVars, hb, api>>
  BY Zenon DEF RecvCreate, RecvPacket, CreateFind, Refuse, Find, DeleteFind
<1>2. SessionInv' /\ RootInv'
  BY <1>1 DEF IInv, sessionVars, rootVars, SessionInv, SessionTypeOK, MapsAgree,
              RootInv, RootTypeOK, IteratorValid, Present, OwnKeys
<1>3. ASSUME NEW e \in EndPoints, NEW k \in Keys, NEW s \in Sessions, NEW hard \in BOOLEAN,
             RecvCreate(e, k, s, hard)
      PROVE  IInv'
  <2>1. get_client_key(e) \in Keys \cup {None}
    BY SMTT(60) DEF IInv, SessionInv, SessionTypeOK, get_client_key
  <2>2. \E old \in Keys \cup {None}, pc \in {"create", "create_find"} :
          /\ old = None => pc = "create"
          /\ proc' = [pc |-> pc, source |-> e, old |-> old, key |-> k, session |-> s,
                      hard |-> hard, delete |-> FALSE, client |-> None]
    BY <1>3, <2>1, Zenon DEF RecvCreate, Idle
  <2>3. proc' \in ProcType /\ ProcLocals' /\ proc'.pc \in {"create", "create_find"}
    BY <1>1, <2>2 DEF ProcType, ProcLocals, IInv
  <2> QED
    BY <1>1, <1>2, <2>3, ProcStep DEF rootVars
<1>4. ASSUME NEW e \in EndPoints, NEW k \in Keys, NEW s \in Sessions, NEW delete \in BOOLEAN,
             RecvPacket(e, k, s, delete)
      PROVE  IInv'
  <2>1. get_client_key(e) \in Keys \cup {None}
    BY DEF IInv, SessionInv, SessionTypeOK, get_client_key
  <2>2. \E key \in Keys \cup {None} :
          proc' = [pc |-> "find", source |-> e, old |-> None, key |-> key, session |-> None,
                   hard |-> FALSE, delete |-> delete, client |-> None]
    BY <1>4, <2>1, Zenon DEF RecvPacket, Idle
  <2>3. proc' \in ProcType /\ ProcLocals' /\ proc'.pc = "find"
    BY <1>1, <2>2 DEF ProcType, ProcLocals, IInv
  <2> QED
    BY <1>1, <1>2, <2>3, ProcStep, SMTT(60) DEF rootVars
<1>5. CASE CreateFind
  <2>1. proc' \in ProcType /\ ProcLocals' /\ proc'.pc \in {"create_destroy", "create_erase"}
    BY <1>1, <1>5 DEF CreateFind, ProcType, ProcLocals, IInv
  <2> QED
    BY <1>1, <1>2, <2>1, ProcStep DEF rootVars
<1>6. CASE Refuse
  <2>1. proc' \in ProcType /\ ProcLocals' /\ proc'.pc = "idle"
    BY <1>1, <1>6 DEF Refuse, Idle, ProcType, ProcLocals, IInv
  <2> QED
    BY <1>1, <1>2, <2>1, ProcStep DEF rootVars
<1>7. CASE Find
  <2>1. CASE proc' = Idle
    <3>1. proc' \in ProcType /\ ProcLocals' /\ proc'.pc = "idle"
      BY <1>1, <2>1, SMTT(60) DEF Idle, ProcType, ProcLocals, IInv
    <3> QED
      BY <1>1, <1>2, <3>1, ProcStep DEF rootVars
  <2>2. CASE proc' # Idle
    <3>1. /\ proc.key # None /\ clients[proc.key] # None
          /\ proc' = [proc EXCEPT !.pc = "heard", !.client = clients[proc.key]]
      BY <1>7, <2>2, Zenon DEF Find, get_client
    <3>2. proc.key \in Keys /\ clients[proc.key] \in Proxies
      BY <3>1 DEF IInv, ProcType, RootInv, RootTypeOK
    <3>3. proc' \in ProcType /\ ProcLocals'
      BY <1>1, <1>7, <3>1, <3>2, Zenon DEF ProcType, ProcLocals, IInv, Find
    <3>4. proc'.client \in Proxies /\ proxy[proc'.client].key = proc'.key
      BY <3>1, <3>2 DEF IInv, RootInv, OwnKeys, ProcType
    <3> QED
      BY <1>1, <1>2, <3>3, <3>4, ProcStep DEF rootVars
  <2> QED
    BY <2>1, <2>2
<1>8. CASE DeleteFind
  <2>1. proc' \in ProcType /\ ProcLocals' /\ proc'.client = proc.client /\ proc'.key = proc.key
    BY <1>1, <1>8 DEF DeleteFind, ProcType, ProcLocals, IInv
  <2>2. proc.client \in Proxies /\ proxy[proc.client].key = proc.key
    BY <1>8 DEF DeleteFind, IInv, ReferencedIsAlive
  <2> QED
    BY <1>1, <1>2, <2>1, <2>2, ProcStep DEF rootVars
<1> QED
  BY <1>3, <1>4, <1>5, <1>6, <1>7, <1>8

\* Steps of the processing thread that change a table.
LEMMA ChangeStep ==
  ASSUME IInv,
         CreateErase \/ CreateDestroy \/ Create \/ Establish \/ Heard \/ DeleteErase
           \/ DeleteDestroy \/ Done
  PROVE  IInv'
<1> USE DEF IInv
<1>0. /\ UNCHANGED <<hb, api>>
      /\ hb.client \in Held /\ proc.client \in Held
  BY DEF CreateErase, CreateDestroy, Create, Establish, Heard, DeleteErase, DeleteDestroy,
         Done, Held
<1>1. CASE CreateErase
  <2>1. RootInv' /\ \A i \in Proxies : i \in Held => proxy'[i] = proxy[i]
    BY <1>1, EraseInv DEF CreateErase, ProcLocals
  <2>2. SessionInv'
    BY <1>1 DEF CreateErase, sessionVars, SessionInv, SessionTypeOK, MapsAgree
  <2>3. proc' \in ProcType /\ ProcLocals' /\ proc'.pc = "create_destroy"
    BY <1>0, <1>1 DEF CreateErase, ProcType, ProcLocals
  <2> QED
    BY <1>0, <2>1, <2>2, <2>3, ProcStep
<1>2. CASE CreateDestroy
  <2>1. SessionInv'
    BY <1>2, DestroyFromInv DEF CreateDestroy, ProcLocals
  <2>2. RootInv' /\ UNCHANGED proxy
    BY <1>2 DEF CreateDestroy, rootVars, RootInv, RootTypeOK, IteratorValid, Present, OwnKeys
  <2>3. proc' \in ProcType /\ ProcLocals' /\ proc'.pc = "create"
    BY <1>0, <1>2, Zenon DEF CreateDestroy, ProcType, ProcLocals
  <2> QED
    BY <1>0, <2>1, <2>2, <2>3, ProcStep
<1>3. CASE Create
  <2>1. RootInv' /\ \A i \in Proxies : i \in Held => proxy'[i] = proxy[i]
    <3>1. proc.key \in Keys /\ proc.session \in Sessions /\ proc.hard \in BOOLEAN
      BY <1>3 DEF Create, ProcLocals, ProcType
    <3> QED
      BY <1>3, <3>1, CreateInv DEF Create
  <2>2. SessionInv'
    BY <1>3 DEF Create, sessionVars, SessionInv, SessionTypeOK, MapsAgree
  <2>3. proc' \in ProcType /\ ProcLocals' /\ proc'.pc = "establish"
    BY <1>0, <1>3 DEF Create, ProcType, ProcLocals
  <2> QED
    BY <1>0, <2>1, <2>2, <2>3, ProcStep
<1>4. CASE Establish
  <2>1. SessionInv'
    BY <1>4, EstablishInv DEF Establish, ProcLocals
  <2>2. RootInv' /\ UNCHANGED proxy
    BY <1>4 DEF Establish, rootVars, RootInv, RootTypeOK, IteratorValid, Present, OwnKeys
  <2>3. proc' \in ProcType /\ ProcLocals' /\ proc'.pc = "idle"
    BY <1>0, <1>4 DEF Establish, Idle, ProcType, ProcLocals
  <2> QED
    BY <1>0, <2>1, <2>2, <2>3, ProcStep
<1>5. CASE Heard
  <2>1. proc.client \in Proxies /\ proxy[proc.client].key = proc.key
    BY <1>5 DEF Heard, ReferencedIsAlive
  <2>2. PICK p \in Proxy : p.key = proxy[proc.client].key /\ proxy' = [proxy EXCEPT ![proc.client] = p]
    <3> DEFINE p == Changed(proxy[proc.client], "alive", FALSE, 0)
    <3>0. proxy[proc.client] \in Proxy
      BY <2>1 DEF RootInv, RootTypeOK
    <3>1. p \in Proxy /\ p.key = proxy[proc.client].key
      BY <3>0, SmallNumber, ProxyFields, Zenon DEF States
    <3>2. proxy' = [proxy EXCEPT ![proc.client] = p]
      BY <1>5, <2>1, Zenon DEF Heard, update_state, Changed, RootInv, RootTypeOK, Proxy
    <3> QED
      BY <3>1, <3>2, Zenon
  <2>3. RootInv' /\ \A j \in Proxies : proxy'[j].key = proxy[j].key
    BY <1>5, <2>1, <2>2, UpdateInv, Zenon DEF Heard
  <2>4. SessionInv'
    BY <1>5 DEF Heard, sessionVars, SessionInv, SessionTypeOK, MapsAgree
  <2>5. /\ proc' \in ProcType /\ ProcLocals'
        /\ proc'.client = proc.client /\ proc'.key = proc.key
    BY <1>0, <1>5 DEF Heard, ProcType, ProcLocals
  <2> QED
    BY <1>0, <2>1, <2>3, <2>4, <2>5, ProcStep
<1>6. CASE DeleteErase
  <2>1. RootInv' /\ \A i \in Proxies : i \in Held => proxy'[i] = proxy[i]
    BY <1>6, EraseInv DEF DeleteErase, ProcLocals
  <2>2. SessionInv'
    BY <1>6 DEF DeleteErase, sessionVars, SessionInv, SessionTypeOK, MapsAgree
  <2>3. /\ proc' \in ProcType /\ ProcLocals'
        /\ proc'.client = proc.client /\ proc'.key = proc.key
    BY <1>0, <1>6 DEF DeleteErase, ProcType, ProcLocals
  <2>4. proc.client \in Proxies /\ proxy[proc.client].key = proc.key
    BY <1>6 DEF DeleteErase, ReferencedIsAlive
  <2> QED
    BY <1>0, <2>1, <2>2, <2>3, <2>4, ProcStep
<1>7. CASE DeleteDestroy
  <2>1. SessionInv'
    BY <1>7, DestroyFromInv DEF DeleteDestroy, ProcLocals
  <2>2. RootInv' /\ UNCHANGED proxy
    BY <1>7 DEF DeleteDestroy, rootVars, RootInv, RootTypeOK, IteratorValid, Present, OwnKeys
  <2>3. /\ proc' \in ProcType /\ ProcLocals'
        /\ proc'.client = proc.client /\ proc'.key = proc.key
    BY <1>0, <1>7 DEF DeleteDestroy, ProcType, ProcLocals
  <2>4. proc.client \in Proxies /\ proxy[proc.client].key = proc.key
    BY <1>7 DEF DeleteDestroy, ReferencedIsAlive
  <2> QED
    BY <1>0, <2>1, <2>2, <2>3, <2>4, ProcStep
<1>8. CASE Done
  <2>1. RootInv' /\ \A i \in Proxies : i \in {hb.client} => proxy'[i] = proxy[i]
    BY <1>8, DropInv, SMTT(60) DEF Done
  <2>2. SessionInv'
    BY <1>8 DEF Done, sessionVars, SessionInv, SessionTypeOK, MapsAgree
  <2>3. proc' \in ProcType /\ ProcLocals' /\ proc'.pc = "idle"
    BY <1>0, <1>8, SMTT(60) DEF Done, Idle, ProcType, ProcLocals
  <2> QED
    BY <1>0, <2>1, <2>2, <2>3, ProcStep
<1> QED
  BY <1>1, <1>2, <1>3, <1>4, <1>5, <1>6, <1>7, <1>8

\* What the heartbeat thread keeps, likewise.
LEMMA HbStep ==
  ASSUME IInv, UNCHANGED <<proc, api>>, SessionInv', RootInv', hb' \in HbType,
         proc.client \in Proxies => proxy'[proc.client].key = proxy[proc.client].key,
         hb'.pc = "next" => hb'.client = None,
         hb'.pc # "next" => hb'.client \in Proxies /\ proxy'[hb'.client].key \in Keys
  PROVE  IInv'
  BY ZenonT(60) DEF IInv, ProcLocals, ReferencedIsAlive, RootInv, OwnKeys

\* The heartbeat thread ends its turn for a client.
LEMMA EndTurnStep ==
  ASSUME IInv, EndTurn, SessionInv', UNCHANGED <<clients, current, proc, api>>
  PROVE  IInv'
<1>1. RootInv' /\ \A i \in Proxies : i \in {proc.client} => proxy'[i] = proxy[i]
  BY DropInv DEF EndTurn, IInv
<1>2. hb' \in HbType /\ hb'.pc = "next" /\ hb'.client = None
  BY RootAssumption DEF EndTurn, Resting, HbType, States
<1> QED
  BY <1>1, <1>2, HbStep

\* The turn goes on with another pc, and the proxy keeps its key.
LEMMA TurnStep ==
  ASSUME IInv, SessionInv', RootInv', UNCHANGED <<proc, api>>, hb.pc # "next",
         hb' \in HbType, hb'.pc # "next", hb'.client = hb.client,
         \A i \in {proc.client, hb.client} :
           i \in Proxies => proxy'[i].key = proxy[i].key
  PROVE  IInv'
<1>1. hb.client \in Proxies /\ proxy[hb.client].key \in Keys
  BY SMTT(60) DEF IInv, ReferencedIsAlive
<1> QED
  BY <1>1, HbStep

\* Every step of the heartbeat thread.
LEMMA HeartbeatStep ==
  ASSUME IInv, HeartbeatRound
  PROVE  IInv'
<1> USE DEF IInv
<1>0. /\ UNCHANGED <<proc, api>>
      /\ UNCHANGED sessionVars => SessionInv'
      /\ UNCHANGED rootVars => RootInv' /\ UNCHANGED proxy
  BY DEF HeartbeatRound, NextClient, Rewind, GetState, Branch, ReadTries, WriteTries, TestTries,
         Mark, Probe, RemoveFind, RemoveErase, RemoveDestroy, sessionVars, rootVars, SessionInv,
         SessionTypeOK, MapsAgree, RootInv, RootTypeOK, IteratorValid, Present, OwnKeys
<1>a. hb.pc # "next" => hb.client \in Proxies /\ proxy[hb.client] \in Proxy
                         /\ proxy[hb.client].key \in Keys
  BY DEF ReferencedIsAlive, RootInv, RootTypeOK
<1>b. ASSUME hb.pc # "next", EndTurn, UNCHANGED <<sessionVars, clients, current>> PROVE IInv'
  BY <1>0, <1>b, EndTurnStep
<1>c. ASSUME NEW pc, hb' = [hb EXCEPT !.pc = pc], hb' \in HbType, pc # "next", hb.pc # "next",
             UNCHANGED <<sessionVars, rootVars>>
      PROVE  IInv'
  <2>1. hb'.pc # "next" /\ hb'.client = hb.client
    BY <1>c DEF HbType
  <2> QED
    BY <1>0, <1>c, <2>1, TurnStep
<1>1. CASE NextClient
  <2>1. RootInv'
    BY <1>1, WalkInv DEF NextClient
  <2>2. clients[current] \in Proxies /\ proxy[clients[current]].key \in Keys
    BY <1>1 DEF NextClient, get_next_client, RootInv, RootTypeOK, IteratorValid, Present, OwnKeys
  <2>3. hb' \in HbType /\ hb'.pc = "state" /\ hb'.client = clients[current] /\ UNCHANGED proxy
    BY <1>1, <2>2, Zenon DEF NextClient, HbType
  <2> QED
    BY <1>0, <1>1, <2>1, <2>2, <2>3, HbStep DEF NextClient
<1>2. CASE Rewind
  <2>1. RootInv'
    BY <1>2, WalkInv DEF Rewind
  <2> QED
    BY <1>0, <1>2, <2>1, HbStep DEF Rewind, ProcLocals
<1>3. CASE GetState
  <2>1. state_after_get(hb.client) \in States
    BY <1>3, <1>a DEF GetState, state_after_get, Proxy, States
  <2>2. PICK p \in Proxy : p.key = proxy[hb.client].key /\ proxy' = [proxy EXCEPT ![hb.client] = p]
    <3> DEFINE q == proxy[hb.client]
               p == Changed(q, state_after_get(hb.client), q.silent, q.tries)
    <3>0. q.silent \in BOOLEAN /\ q.tries \in 0 .. TriesMod - 1
      BY <1>3, <1>a DEF Proxy, GetState
    <3>1. p \in Proxy /\ p.key = q.key
      BY <1>3, <1>a, <2>1, <3>0, ProxyFields DEF GetState
    <3>2. proxy' = [proxy EXCEPT ![hb.client] = p]
      BY <1>3, <1>a, Zenon DEF GetState, get_state, Changed, Proxy, RootInv, RootTypeOK
    <3> QED
      BY <3>1, <3>2, Zenon
  <2>3. RootInv' /\ \A j \in Proxies : proxy'[j].key = proxy[j].key
    BY <1>3, <1>a, <2>2, UpdateInv, Zenon DEF GetState
  <2>4. hb' \in HbType /\ hb'.pc = "endpoint" /\ hb'.client = hb.client
    BY <1>3, <2>1, Zenon DEF GetState, HbType
  <2> QED
    BY <1>0, <1>3, <2>3, <2>4, TurnStep DEF GetState
<1>4. CASE Branch
  <2>1. CASE EndTurn
    BY <1>4, <1>b, <2>1 DEF Branch
  <2>2. CASE ~ EndTurn
    <3>1. PICK pc \in {"read", "remove_find"} : hb' = [hb EXCEPT !.pc = pc] /\ UNCHANGED proxy
      BY <1>4, <2>2 DEF Branch
    <3>2. hb' \in HbType
      BY <3>1 DEF HbType
    <3> QED
      BY <1>4, <1>c, <3>1, <3>2 DEF Branch, rootVars
  <2> QED
    BY <2>1, <2>2
<1>5. CASE ReadTries
  <2>1. proxy[hb.client].tries \in 0 .. TriesMod - 1
    BY <1>5, <1>a DEF ReadTries, Proxy
  <2>2. hb' \in HbType /\ hb'.pc = "write" /\ hb'.client = hb.client
    BY <1>5, <2>1, Zenon DEF ReadTries, HbType
  <2> QED
    BY <1>0, <1>5, <2>2, TurnStep DEF ReadTries
<1>6. CASE WriteTries
  <2>1. hb.tries \in 0 .. TriesMod - 1 /\ (hb.tries + 1) % TriesMod \in 0 .. TriesMod - 1
    <3>1. hb.tries \in 0 .. TriesMod - 1
      BY DEF HbType
    <3> QED
      BY <3>1, RootAssumption, SMTT(60)
  <2>2. PICK p \in Proxy : p.key = proxy[hb.client].key /\ proxy' = [proxy EXCEPT ![hb.client] = p]
    <3> DEFINE q == proxy[hb.client]
               n == (hb.tries + 1) % TriesMod
               p == Changed(q, q.state, q.silent, n)
    <3>0. q.silent \in BOOLEAN /\ q.state \in States
      BY <1>6, <1>a DEF Proxy, WriteTries
    <3>1. p \in Proxy /\ p.key = q.key
      BY <1>6, <1>a, <2>1, <3>0, ProxyFields DEF WriteTries
    <3>2. proxy' = [proxy EXCEPT ![hb.client] = p]
      BY <1>6, <1>a, Zenon DEF WriteTries, Proxy, Changed, RootInv, RootTypeOK
    <3> QED
      BY <3>1, <3>2, Zenon
  <2>3. RootInv' /\ \A j \in Proxies : proxy'[j].key = proxy[j].key
    BY <1>6, <1>a, <2>2, UpdateInv, Zenon DEF WriteTries
  <2>4. hb' \in HbType /\ hb'.pc = "test" /\ hb'.client = hb.client
    BY <1>6, SmallNumber, Zenon DEF WriteTries, HbType
  <2> QED
    BY <1>0, <1>6, <2>3, <2>4, TurnStep DEF WriteTries
<1>7. CASE TestTries
  <2>1. CASE EndTurn
    BY <1>7, <1>b, <2>1 DEF TestTries
  <2>2. CASE ~ EndTurn
    <3>1. hb' = [hb EXCEPT !.pc = "mark"] /\ UNCHANGED proxy
      BY <1>7, <2>2 DEF TestTries
    <3>2. hb' \in HbType
      BY <3>1 DEF HbType
    <3> QED
      BY <1>7, <1>c, <3>1, <3>2 DEF TestTries, rootVars
  <2> QED
    BY <2>1, <2>2
<1>8. CASE Mark
  <2>1. PICK p \in Proxy : p.key = proxy[hb.client].key /\ proxy' = [proxy EXCEPT ![hb.client] = p]
    <3> DEFINE q == proxy[hb.client]
               p == Changed(q, "to_remove", q.silent, q.tries)
    <3>0. q.silent \in BOOLEAN /\ q.tries \in 0 .. TriesMod - 1
      BY <1>8, <1>a DEF Proxy, Mark
    <3>1. p \in Proxy /\ p.key = q.key
      BY <1>8, <1>a, <3>0, ProxyFields DEF Mark, States
    <3>2. proxy' = [proxy EXCEPT ![hb.client] = p]
      BY <1>8, <1>a, Zenon DEF Mark, update_state, Changed, Proxy, RootInv, RootTypeOK
    <3> QED
      BY <3>1, <3>2, Zenon
  <2>2. RootInv' /\ \A j \in Proxies : proxy'[j].key = proxy[j].key
    BY <1>8, <1>a, <2>1, UpdateInv, Zenon DEF Mark
  <2>3. hb' \in HbType /\ hb'.pc = "probe" /\ hb'.client = hb.client
    BY <1>8 DEF Mark, HbType
  <2> QED
    BY <1>0, <1>8, <2>2, <2>3, TurnStep DEF Mark
<1>9. CASE Probe
  BY <1>9, <1>b DEF Probe
<1>10. CASE RemoveFind
  <2>1. CASE EndTurn
    BY <1>10, <1>b, <2>1 DEF RemoveFind
  <2>2. CASE ~ EndTurn
    <3>1. hb' = [hb EXCEPT !.pc = "remove_erase"] /\ UNCHANGED proxy
      BY <1>10, <2>2 DEF RemoveFind
    <3>2. hb' \in HbType
      BY <3>1 DEF HbType
    <3> QED
      BY <1>10, <1>c, <3>1, <3>2 DEF RemoveFind, rootVars
  <2> QED
    BY <2>1, <2>2
<1>11. CASE RemoveErase
  <2>1. RootInv' /\ \A i \in Proxies : i \in Held => proxy'[i] = proxy[i]
    BY <1>11, <1>a, EraseInv DEF RemoveErase
  <2>2. hb' \in HbType /\ hb'.pc = "remove_destroy" /\ hb'.client = hb.client
    BY <1>11 DEF RemoveErase, HbType
  <2> QED
    BY <1>0, <1>11, <2>1, <2>2, TurnStep DEF RemoveErase, Held
<1>12. CASE RemoveDestroy
  <2>1. SessionInv'
    BY <1>12, <1>a, DestroyOfInv DEF RemoveDestroy
  <2> QED
    BY <1>12, <2>1, EndTurnStep DEF RemoveDestroy
<1> QED
  BY <1>1, <1>2, <1>3, <1>4, <1>5, <1>6, <1>7, <1>8, <1>9, <1>10, <1>11, <1>12, SMTT(60)
     DEF HeartbeatRound

\* The caller of class Agent, and time.
LEMMA OtherStep ==
  ASSUME IInv,
         \/ \E k \in Keys, s \in Sessions : LocalCreate(k, s)
         \/ \E k \in Keys : LocalFind(k)
         \/ LocalErase
         \/ \E i \in Proxies : Silence(i)
  PROVE  IInv'
<1> USE DEF IInv
<1>0. /\ UNCHANGED <<sessionVars, proc, hb>> /\ SessionInv'
      /\ hb.client \in Held /\ proc.client \in Held
  BY Zenon DEF LocalCreate, LocalFind, LocalErase, Silence, sessionVars, SessionInv, SessionTypeOK,
         MapsAgree, Held
<1>1. ASSUME RootInv', api' \in [pc : {"idle", "erase"}, key : Keys \cup {None}],
             api'.pc = "erase" => api'.key \in Keys,
             \A i \in Proxies : i \in Held => proxy'[i].key = proxy[i].key
      PROVE  IInv'
  BY <1>0, <1>1, ZenonT(60) DEF ProcLocals, ReferencedIsAlive, RootInv, OwnKeys
<1>2. ASSUME NEW k \in Keys, NEW s \in Sessions, LocalCreate(k, s) PROVE IInv'
  <2>1. RootInv' /\ \A i \in Proxies : i \in Held => proxy'[i] = proxy[i]
    BY <1>2, CreateInv, Zenon DEF LocalCreate
  <2> QED
    BY <1>1, <1>2, <2>1 DEF LocalCreate, ProcLocals
<1>3. ASSUME NEW k \in Keys, LocalFind(k) PROVE IInv'
  <2>1. RootInv' /\ UNCHANGED proxy
    BY <1>3 DEF LocalFind, rootVars, RootInv, RootTypeOK, IteratorValid, Present, OwnKeys
  <2>2. api' \in [pc : {"idle", "erase"}, key : Keys \cup {None}] /\ api'.key \in Keys
    BY <1>3, SMTT(60) DEF LocalFind
  <2> QED
    BY <1>1, <2>1, <2>2
<1>4. CASE LocalErase
  <2>1. RootInv' /\ \A i \in Proxies : i \in Held => proxy'[i] = proxy[i]
    BY <1>4, EraseInv DEF LocalErase, ProcLocals
  <2>2. api' \in [pc : {"idle", "erase"}, key : Keys \cup {None}] /\ api'.pc = "idle"
    BY <1>4 DEF LocalErase
  <2> QED
    BY <1>1, <2>1, <2>2, Zenon
<1>5. ASSUME NEW i \in Proxies, Silence(i) PROVE IInv'
  <2>1. PICK p \in Proxy : p.key = proxy[i].key /\ proxy' = [proxy EXCEPT ![i] = p]
    <3> DEFINE q == proxy[i]
               p == Changed(q, q.state, TRUE, q.tries)
    <3>0. q \in Proxy /\ q.state \in States /\ q.tries \in 0 .. TriesMod - 1
      BY DEF Proxy, RootInv, RootTypeOK
    <3>1. p \in Proxy /\ p.key = q.key
      BY <3>0, ProxyFields, Zenon
    <3>2. [q EXCEPT !.silent = TRUE] = p
      BY <3>0, Zenon DEF Proxy, Changed
    <3>3. proxy' = [proxy EXCEPT ![i] = [q EXCEPT !.silent = TRUE]]
      BY <1>5 DEF Silence
    <3> QED
      BY <3>1, <3>2, <3>3, Zenon
  <2>2. RootInv' /\ \A j \in Proxies : proxy'[j].key = proxy[j].key
    BY <1>5, <2>1, UpdateInv, Zenon DEF Silence
  <2> QED
    BY <1>1, <1>5, <2>2 DEF Silence, ProcLocals
<1> QED
  BY <1>2, <1>3, <1>4, <1>5

\* Every step of every thread.
LEMMA NextInv == IInv /\ [Next]_vars => IInv'
<1> SUFFICES ASSUME IInv, [Next]_vars PROVE IInv'
  OBVIOUS
<1>1. CASE UNCHANGED vars
  <2>0. /\ UNCHANGED <<endpoint_to_client, client_to_endpoint>>
        /\ UNCHANGED <<clients, current, proxy>>
        /\ UNCHANGED <<proc, hb, api>>
    BY <1>1 DEF vars, sessionVars, rootVars
  <2>1. SessionInv'
    BY <2>0 DEF IInv, SessionInv, SessionTypeOK, MapsAgree
  <2>2. RootInv'
    BY <2>0 DEF IInv, RootInv, RootTypeOK, IteratorValid, Present, OwnKeys
  <2>3. /\ proc' \in ProcType /\ hb' \in HbType
        /\ api' \in [pc : {"idle", "erase"}, key : Keys \cup {None}]
    BY <2>0 DEF IInv
  <2>4. ProcLocals'
    BY <2>0 DEF IInv, ProcLocals
  <2>5. ReferencedIsAlive'
    BY <2>0 DEF IInv, ReferencedIsAlive
  <2> QED
    BY <2>1, <2>2, <2>3, <2>4, <2>5 DEF IInv
<1>2. CASE Next
  BY <1>2, LookStep, ChangeStep, HeartbeatStep, OtherStep DEF Next, Process
<1> QED
  BY <1>1, <1>2

\* The inductive invariant of the clients, their sessions and the three threads.
THEOREM Invariance == Spec => []IInv
  BY InitInv, NextInv, PTL DEF Spec

\* Every thread finds the maps, the iterator and the proxies well-formed.
THEOREM TypeCorrect == Spec => []TypeOK
<1>1. IInv => TypeOK
  BY DEF IInv, TypeOK, SessionInv, RootInv
<1> QED
  BY <1>1, Invariance, PTL

\* However the processing thread and the heartbeat thread interleave their calls
\* of establish_session and destroy_session, the two maps agree.
THEOREM SessionMapsAgree == Spec => []MapsAgree
<1>1. IInv => MapsAgree
  BY DEF IInv, SessionInv
<1> QED
  BY <1>1, Invariance, PTL

\* No create_client, delete_client or get_next_client of any thread leaves
\* current_client_ at an element that is gone.
THEOREM IteratorNeverDangles == Spec => []IteratorValid
<1>1. IInv => IteratorValid
  BY DEF IInv, RootInv
<1> QED
  BY <1>1, Invariance, PTL

\* The shared pointers of the handlers keep the proxies they use, and a proxy is
\* never found under another client's key.
THEOREM NoUseAfterFree == Spec => []ReferencedIsAlive
<1>1. IInv => ReferencedIsAlive
  BY DEF IInv
<1> QED
  BY <1>1, Invariance, PTL

-----------------------------------------------------------------------------
(* Where an endpoint leads, when clients are only created and deleted by   *)
(* packets and the key of a packet is the one of its endpoint.             *)

\* The conditions of RoutedToClients.
Unchecked == ~ HardLiveliness /\ ~ LocalCalls /\ \A s \in Sessions : ~ has_session_client_key(s)

\* The heartbeat thread removes nobody, and nobody calls class Agent.
Soft ==
  /\ api.pc = "idle" /\ hb.pc \in {"next", "state", "endpoint"}
  /\ ~ proc.hard /\ \A i \in Proxies : ~ proxy[i].hard

\* An endpoint leads to a client, but for the one whose session is about to go
\* after its client.  What the processing thread knows of its endpoint is still so.
Routes ==
  /\ \A e \in EndPoints : endpoint_to_client[e] # None =>
       \/ clients[endpoint_to_client[e]] # None
       \/ proc.pc \in {"create_destroy", "delete_destroy"} /\ e = proc.source
  /\ proc.pc \in {"create_find", "create_erase", "create_destroy"} =>
       endpoint_to_client[proc.source] = proc.old
  /\ proc.pc \in {"find", "heard", "delete_find", "delete_erase", "delete_destroy"} =>
       endpoint_to_client[proc.source] = proc.key
  /\ proc.pc = "establish" => clients[proc.key] # None

\* Freeing makes no proxy ask for the liveliness check.
LEMMA SoftKept ==
  ASSUME NEW heap, NEW map, NEW held, \A i \in Proxies : ~ heap[i].hard
  PROVE  \A i \in Proxies : ~ Kept(heap, map, held)[i].hard
BY DEF Kept, Blank

\* create_client without the liveliness check: the key has a client afterwards.
LEMMA SoftCreate ==
  ASSUME RootInv, \A i \in Proxies : ~ proxy[i].hard, NEW k \in Keys, NEW s, NEW held,
         create_client(k, s, FALSE, held)
  PROVE  /\ \A i \in Proxies : ~ proxy'[i].hard
         /\ clients'[k] # None /\ \A j \in Keys : j # k => clients'[j] = clients[j]
<1>1. CASE New(k, s, FALSE, held)
  <2>1. PICK i : i = CHOOSE a \in {b \in Proxies : b \notin held /\ \A j \in Keys : clients[j] # b} : TRUE
    OBVIOUS
  <2>2. i \in Proxies /\ clients' = [clients EXCEPT ![k] = i]
    BY <1>1, <2>1 DEF New
  <2>3. PICK fresh : ~ fresh.hard /\ proxy' = Kept([proxy EXCEPT ![i] = fresh], clients', held)
    <3>1. PICK garbage \in Garbage :
            proxy' = Kept([proxy EXCEPT ![i] = [key |-> k, session |-> s, hard |-> FALSE,
                             state |-> "alive", tries |-> garbage, silent |-> FALSE]],
                          clients', held)
      BY <1>1, <2>1, Zenon DEF New
    <3>2. ~ [key |-> k, session |-> s, hard |-> FALSE,
             state |-> "alive", tries |-> garbage, silent |-> FALSE].hard
      OBVIOUS
    <3> QED
      BY <3>1, <3>2, Zenon
  <2>4. \A j \in Proxies : ~ [proxy EXCEPT ![i] = fresh][j].hard
    BY <2>2, <2>3 DEF RootInv, RootTypeOK
  <2>5. \A j \in Proxies : ~ proxy'[j].hard
    BY <2>3, <2>4, SoftKept, Zenon
  <2> QED
    BY <2>2, <2>5, RootAssumption DEF RootInv, RootTypeOK
<1>2. CASE clients[k] # None /\ UNCHANGED <<clients, proxy>>
  BY <1>2
<1> QED
  BY <1>1, <1>2, Zenon DEF create_client

\* delete_client: the key has no client afterwards, and every other keeps its own.
LEMMA SoftErase ==
  ASSUME RootInv, \A i \in Proxies : ~ proxy[i].hard, NEW k \in Keys, NEW held, erase(k, held)
  PROVE  /\ \A i \in Proxies : ~ proxy'[i].hard
         /\ clients'[k] = None /\ \A j \in Keys : j # k => clients'[j] = clients[j]
<1>1. proxy' = Kept(proxy, clients', held) /\ clients' = [clients EXCEPT ![k] = None]
  BY DEF erase
<1>2. \A i \in Proxies : ~ proxy'[i].hard
  BY <1>1, SoftKept, Zenon
<1> QED
  BY <1>1, <1>2, Zenon DEF RootInv, RootTypeOK

\* What happens to the clients and the sessions between two steps of a handler.
LEMMA SoftStep ==
  ASSUME Unchecked, IInv, Soft, [Next]_vars
  PROVE  Soft'
<1> DEFINE Same == \A i \in Proxies : ~ proxy'[i].hard
<1>0. RootInv /\ SessionInv /\ proc \in ProcType /\ hb \in HbType
  BY DEF IInv
<1>1. ASSUME NEW e, NEW k, NEW s, NEW hard \in BOOLEAN, hard => HardLiveliness, RecvCreate(e, k, s, hard)
      PROVE  Soft'
  BY <1>1 DEF RecvCreate, Soft, Unchecked, rootVars, Idle
<1>2. ASSUME NEW e, NEW k, NEW s, NEW delete, RecvPacket(e, k, s, delete)
      PROVE  Soft'
  BY <1>2 DEF RecvPacket, Soft, rootVars, Idle
<1>3. CASE CreateFind \/ CreateDestroy \/ Refuse \/ Establish \/ Find \/ DeleteFind \/ DeleteDestroy
  <2>1. UNCHANGED <<rootVars, hb, api>>
    BY <1>3 DEF CreateFind, CreateDestroy, Refuse, Establish, Find, DeleteFind, DeleteDestroy
  <2>2. ~ Idle.hard
    BY DEF Idle
  <2>3. CASE CreateFind \/ CreateDestroy \/ DeleteFind \/ DeleteDestroy
    <3>1. proc'.hard = proc.hard
      BY <1>0, <2>3, Zenon DEF CreateFind, CreateDestroy, DeleteFind, DeleteDestroy, ProcType
    <3> QED
      BY <2>1, <3>1 DEF Soft, rootVars
  <2>4. CASE Refuse \/ Establish \/ Find
    <3>1. proc'.hard = proc.hard \/ proc' = Idle
      BY <1>0, <2>4, Zenon DEF Refuse, Establish, Find, ProcType
    <3> QED
      BY <2>1, <2>2, <3>1 DEF Soft, rootVars
  <2> QED
    BY <1>3, <2>3, <2>4
<1>4. CASE CreateErase \/ DeleteErase
  <2>1. PICK k \in Keys : erase(k, Held)
    BY <1>4 DEF CreateErase, DeleteErase, IInv, ProcLocals
  <2>2. Same
    BY <1>0, <2>1, SoftErase DEF Soft
  <2> QED
    BY <1>0, <1>4, <2>2 DEF CreateErase, DeleteErase, Soft, ProcType
<1>5. CASE Create
  <2>1. proc.key \in Keys /\ create_client(proc.key, proc.session, FALSE, Held)
    BY <1>0, <1>5, Zenon DEF Create, IInv, ProcLocals, Soft, ProcType
  <2>2. Same
    BY <1>0, <2>1, SoftCreate, Zenon DEF Soft
  <2> QED
    BY <1>0, <1>5, <2>2 DEF Create, Soft, ProcType
<1>6. ASSUME NEW i \in Proxies, NEW s, update_state(i, s) \/ get_state(i) \/ Silence(i)
      PROVE  Same
  <2>1. DOMAIN proxy = Proxies /\ "hard" \in DOMAIN proxy[i]
    BY <1>0 DEF RootInv, RootTypeOK, Proxy
  <2>2. proxy'[i].hard = proxy[i].hard /\ \A j \in Proxies : j # i => proxy'[j] = proxy[j]
    <3>1. CASE update_state(i, s)
      BY <2>1, <3>1 DEF update_state
    <3>2. CASE get_state(i)
      BY <2>1, <3>2 DEF get_state
    <3>3. CASE Silence(i)
      BY <2>1, <3>3 DEF Silence
    <3> QED
      BY <1>6, <3>1, <3>2, <3>3, Zenon
  <2> QED
    BY <1>0, <2>2, Zenon DEF Soft
<1>7. CASE Heard
  <2>1. Same
    BY <1>6, <1>7 DEF Heard, IInv, ReferencedIsAlive
  <2> QED
    BY <1>0, <1>7, <2>1 DEF Heard, Soft, ProcType
<1>8. CASE Done
  <2>1. Same
    BY <1>8, SoftKept DEF Done, Soft
  <2> QED
    BY <1>8, <2>1, Zenon DEF Done, Soft, Idle
<1>9. CASE HeartbeatRound
  <2>1. \/ NextClient \/ Rewind \/ GetState
        \/ Branch /\ EndTurn
    BY <1>0, <1>9 DEF HeartbeatRound, Soft, Branch, ReadTries, WriteTries, TestTries, Mark, Probe, RemoveFind,
       RemoveErase, RemoveDestroy, IInv, ReferencedIsAlive
  <2>2. CASE NextClient \/ Rewind
    BY <1>0, <2>2, Zenon DEF NextClient, Rewind, Soft, HbType
  <2>3. CASE GetState
    <3>1. Same
      BY <1>6, <2>3 DEF GetState, IInv, ReferencedIsAlive
    <3> QED
      BY <1>0, <2>3, <3>1 DEF GetState, Soft, HbType
  <2>4. CASE Branch /\ EndTurn
    <3>1. Same
      BY <2>4, SoftKept DEF EndTurn, Soft
    <3> QED
      BY <2>4, <3>1, Zenon DEF Branch, EndTurn, Resting, Soft
  <2> QED
    BY <2>1, <2>2, <2>3, <2>4
<1>10. ASSUME NEW i \in Proxies, Silence(i) PROVE Soft'
  <2>1. Same
    BY <1>6, <1>10
  <2> QED
    BY <1>10, <2>1 DEF Silence, Soft
<1>11. CASE UNCHANGED vars
  BY <1>11 DEF vars, rootVars, Soft
<1>12. ~ LocalCalls /\ api.pc # "erase"
  BY DEF Unchecked, Soft
<1> QED
  BY <1>1, <1>2, <1>3, <1>4, <1>5, <1>7, <1>8, <1>9, <1>10, <1>11, <1>12, Zenon
     DEF Next, Process, LocalCreate, LocalFind, LocalErase

\* A step that leaves the sessions and what is in clients_ alone.
LEMMA SameRoutes ==
  ASSUME IInv, Routes, UNCHANGED <<sessionVars, clients>>,
         \/ UNCHANGED proc
         \/ /\ proc.pc \notin {"create_destroy", "delete_destroy"}
            /\ proc'.pc \in {"idle", "create", "done"}
         \/ /\ proc.pc = "create_find" /\ proc'.pc = "create_erase"
            /\ proc'.source = proc.source /\ proc'.old = proc.old
         \/ /\ proc.pc \in {"find", "heard", "delete_find"}
            /\ proc'.pc \in {"heard", "delete_find", "delete_erase"}
            /\ proc'.source = proc.source /\ proc'.key = proc.key
  PROVE  Routes'
BY DEF Routes, sessionVars

\* Two endpoints do not lead to the same client.
LEMMA OneEndpoint ==
  ASSUME IInv, NEW d \in EndPoints, NEW e \in EndPoints, endpoint_to_client[d] # None,
         endpoint_to_client[d] = endpoint_to_client[e]
  PROVE  d = e
BY DEF IInv, SessionInv, MapsAgree

\* The client of the endpoint a packet came from is erased.
LEMMA EraseRoute ==
  ASSUME IInv, Soft, Routes, NEW k \in Keys, erase(k, Held), endpoint_to_client[proc.source] = k,
         proc.source \in EndPoints, UNCHANGED sessionVars,
         \A e \in EndPoints : endpoint_to_client[e] # None => clients[endpoint_to_client[e]] # None,
         proc'.pc \in {"create_destroy", "delete_destroy"}, proc'.source = proc.source,
         proc'.pc = "create_destroy" => proc'.old = k, proc'.pc = "delete_destroy" => proc'.key = k
  PROVE  Routes'
<1>1. clients'[k] = None /\ \A j \in Keys : j # k => clients'[j] = clients[j]
  BY SoftErase DEF IInv, Soft
<1>2. ASSUME NEW e \in EndPoints, endpoint_to_client[e] # None, e # proc.source
      PROVE  clients'[endpoint_to_client[e]] # None
  <2>1. endpoint_to_client[e] # k
    BY <1>2, OneEndpoint
  <2>2. endpoint_to_client[e] \in Keys
    BY <1>2 DEF IInv, SessionInv, SessionTypeOK
  <2> QED
    BY <1>1, <1>2, <2>1, <2>2
<1> QED
  BY <1>2 DEF Routes, sessionVars

\* The session of that endpoint goes after it.
LEMMA DestroyRoute ==
  ASSUME IInv, Routes, proc.pc \in {"create_destroy", "delete_destroy"}, destroy_session_from(proc.source),
         proc'.pc \in {"create", "done"}, UNCHANGED clients
  PROVE  Routes'
<1>1. proc.source \in EndPoints
  BY DEF IInv, ProcLocals
<1>2. /\ endpoint_to_client'[proc.source] = None
      /\ \A e \in EndPoints : e # proc.source => endpoint_to_client'[e] = endpoint_to_client[e]
  BY <1>1 DEF destroy_session_from, IInv, SessionInv, SessionTypeOK
<1> QED
  BY <1>2 DEF Routes

\* Every step keeps the endpoints leading to clients.
LEMMA RouteStep ==
  ASSUME Unchecked, IInv, Soft, Routes, [Next]_vars
  PROVE  Routes'
<1>0. proc \in ProcType /\ ProcLocals /\ SessionInv /\ RootInv
  BY DEF IInv
<1>1. ASSUME NEW e \in EndPoints, NEW k \in Keys, NEW s \in Sessions, NEW hard, RecvCreate(e, k, s, hard)
      PROVE  Routes'
  <2>1. UNCHANGED <<sessionVars, clients>> /\ proc.pc = "idle"
    BY <1>1 DEF RecvCreate, rootVars
  <2>2. CASE endpoint_to_client[e] \in {None, k}
    <3>1. proc'.pc = "create"
      BY <1>1, <2>2 DEF RecvCreate, get_client_key, Idle
    <3> QED
      BY <2>1, <3>1, SameRoutes
  <2>3. CASE endpoint_to_client[e] \notin {None, k}
    <3>1. proc'.pc = "create_find" /\ proc'.source = e /\ proc'.old = endpoint_to_client[e]
      BY <1>1, <2>3 DEF RecvCreate, get_client_key, Idle
    <3> QED
      BY <2>1, <3>1 DEF Routes, sessionVars
  <2> QED
    BY <2>2, <2>3
<1>2. ASSUME NEW e \in EndPoints, NEW k \in Keys, NEW s \in Sessions, NEW delete, RecvPacket(e, k, s, delete)
      PROVE  Routes'
  <2>1. UNCHANGED <<sessionVars, clients>> /\ proc.pc = "idle" /\ ~ has_session_client_key(s)
    BY <1>2 DEF RecvPacket, rootVars, Unchecked
  <2>2. proc'.pc = "find" /\ proc'.source = e /\ proc'.key = endpoint_to_client[e]
    BY <1>2, <2>1 DEF RecvPacket, get_client_key, Idle
  <2> QED
    BY <2>1, <2>2 DEF Routes, sessionVars
<1>3. CASE CreateFind
  <2>1. endpoint_to_client[proc.source] = proc.old /\ proc.old \in Keys /\ proc.source \in EndPoints
    BY <1>0, <1>3 DEF CreateFind, ProcLocals, Routes
  <2>2. clients[proc.old] # None
    BY <1>3, <2>1, SessionManagerAssumption DEF CreateFind, Routes
  <2>3. /\ proc.pc = "create_find" /\ proc'.pc = "create_erase" /\ UNCHANGED <<sessionVars, clients>>
        /\ proc'.source = proc.source /\ proc'.old = proc.old
    BY <1>0, <1>3, <2>2 DEF CreateFind, get_client, ProcType, rootVars
  <2> QED
    BY <2>3, SameRoutes
<1>4. CASE CreateErase
  <2>1. PICK k \in Keys : k = proc.old
    BY <1>0, <1>4 DEF CreateErase, ProcLocals
  <2>2. /\ erase(k, Held) /\ endpoint_to_client[proc.source] = k /\ proc.source \in EndPoints
        /\ \A e \in EndPoints : endpoint_to_client[e] # None => clients[endpoint_to_client[e]] # None
    BY <1>0, <1>4, <2>1 DEF CreateErase, ProcLocals, Routes
  <2>3. proc'.pc = "create_destroy" /\ proc'.source = proc.source /\ proc'.old = k /\ UNCHANGED sessionVars
    BY <1>0, <1>4, <2>1 DEF CreateErase, ProcType
  <2> QED
    BY <2>2, <2>3, EraseRoute
<1>5. CASE CreateDestroy \/ DeleteDestroy
  <2>1. /\ proc.pc \in {"create_destroy", "delete_destroy"} /\ destroy_session_from(proc.source)
        /\ proc'.pc \in {"create", "done"} /\ UNCHANGED clients
    BY <1>0, <1>5, Zenon DEF CreateDestroy, DeleteDestroy, rootVars, ProcType
  <2> QED
    BY <2>1, DestroyRoute
<1>6. CASE Create
  <2>1. PICK k \in Keys : k = proc.key
    BY <1>0, <1>6 DEF Create, ProcLocals
  <2>2. create_client(k, proc.session, FALSE, Held)
    BY <1>0, <1>6, <2>1, Zenon DEF Create, Soft, ProcType
  <2>3. clients'[k] # None /\ \A j \in Keys : j # k => clients'[j] = clients[j]
    BY <1>0, <2>2, SoftCreate, Zenon DEF Soft
  <2>4. \A e \in EndPoints : endpoint_to_client[e] # None => clients'[endpoint_to_client[e]] # None
    BY <1>0, <1>6, <2>3 DEF Create, Routes, SessionInv, SessionTypeOK
  <2>5. proc'.pc = "establish" /\ proc'.key = k /\ UNCHANGED sessionVars
    BY <1>0, <1>6, <2>1 DEF Create, ProcType
  <2> QED
    BY <2>3, <2>4, <2>5 DEF Routes, sessionVars
<1>7. CASE Establish
  <2>1. PICK k \in Keys : k = proc.key
    BY <1>0, <1>7 DEF Establish, ProcLocals
  <2>2. proc'.pc = "idle" /\ UNCHANGED clients /\ clients[k] # None
    BY <1>7, <2>1 DEF Establish, Idle, rootVars, Routes
  <2>3. \A e \in EndPoints : endpoint_to_client'[e] \in {None, k, endpoint_to_client[e]}
    <3>1. establish_session(proc.source, k, proc.session) /\ proc.source \in EndPoints
      BY <1>0, <1>7, <2>1 DEF Establish, ProcLocals
    <3> QED
      BY <1>0, <3>1 DEF establish_session, Erased, SessionInv, SessionTypeOK
  <2>4. \A e \in EndPoints : endpoint_to_client[e] # None => clients[endpoint_to_client[e]] # None
    BY <1>7 DEF Establish, Routes
  <2> QED
    BY <2>2, <2>3, <2>4 DEF Routes
<1>8. CASE Refuse \/ Done
  <2>1. UNCHANGED <<sessionVars, clients>> /\ proc.pc \in {"create", "done"} /\ proc'.pc = "idle"
    BY <1>8 DEF Refuse, Done, Idle, rootVars
  <2> QED
    BY <2>1, SameRoutes
<1>9. CASE Find
  <2>1. UNCHANGED <<sessionVars, clients>> /\ proc.pc = "find"
    BY <1>9 DEF Find, rootVars
  <2>2. proc'.pc = "idle" \/ (proc'.pc = "heard" /\ proc'.source = proc.source /\ proc'.key = proc.key)
    BY <1>0, <1>9 DEF Find, Idle, ProcType
  <2> QED
    BY <2>1, <2>2, SameRoutes
<1>10. CASE Heard \/ DeleteFind
  <2>1. UNCHANGED <<sessionVars, clients>> /\ proc.pc \in {"heard", "delete_find"}
    BY <1>10 DEF Heard, DeleteFind, rootVars
  <2>2. \/ proc'.pc = "done"
        \/ /\ proc'.pc \in {"delete_find", "delete_erase"}
           /\ proc'.source = proc.source /\ proc'.key = proc.key
    BY <1>0, <1>10 DEF Heard, DeleteFind, ProcType
  <2> QED
    BY <2>1, <2>2, SameRoutes
<1>11. CASE DeleteErase
  <2>1. PICK k \in Keys : k = proc.key
    BY <1>0, <1>11 DEF DeleteErase, ProcLocals
  <2>2. /\ erase(k, Held) /\ endpoint_to_client[proc.source] = k /\ proc.source \in EndPoints
        /\ \A e \in EndPoints : endpoint_to_client[e] # None => clients[endpoint_to_client[e]] # None
    BY <1>0, <1>11, <2>1 DEF DeleteErase, ProcLocals, Routes
  <2>3. proc'.pc = "delete_destroy" /\ proc'.source = proc.source /\ proc'.key = k /\ UNCHANGED sessionVars
    BY <1>0, <1>11, <2>1 DEF DeleteErase, ProcType
  <2> QED
    BY <2>2, <2>3, EraseRoute
<1>12. CASE HeartbeatRound \/ (\E i \in Proxies : Silence(i)) \/ UNCHANGED vars
  <2>1. UNCHANGED <<sessionVars, clients, proc>>
    BY <1>12 DEF HeartbeatRound, Silence, vars, rootVars, NextClient, Rewind, GetState, Branch, ReadTries,
       WriteTries, TestTries, Mark, Probe, RemoveFind, RemoveErase, RemoveDestroy, Soft
  <2> QED
    BY <2>1, SameRoutes
<1>13. ~ LocalCalls /\ api.pc # "erase"
  BY DEF Unchecked, Soft
<1> QED
  BY <1>1, <1>2, <1>3, <1>4, <1>5, <1>6, <1>7, <1>8, <1>9, <1>10, <1>11, <1>12, <1>13, Zenon
     DEF Next, Process, LocalCreate, LocalFind, LocalErase

\* When clients come and go only by packets without keys in their headers, an endpoint
\* that SessionManager knows leads to a client that Root knows, between any two packets.
THEOREM EndpointsLeadToClients == Unchecked => (Spec => []RoutedToClients)
<1> SUFFICES ASSUME Unchecked PROVE Spec => []RoutedToClients
  OBVIOUS
<1>1. Init => Soft /\ Routes
  <2> SUFFICES ASSUME Init PROVE Soft /\ Routes
    OBVIOUS
  <2>0. proc.pc = "idle" /\ ~ proc.hard /\ hb.pc = "next" /\ api.pc = "idle"
    BY DEF Init, Idle, Resting
  <2>1. Soft
    <3>1. \A i \in Proxies : proxy[i] = Blank
      BY Zenon DEF Init, RootInit
    <3>2. ~ Blank.hard
      BY DEF Blank
    <3> QED
      BY <2>0, <3>1, <3>2, Zenon DEF Soft
  <2>2. Routes
    <3>1. \A e \in EndPoints : endpoint_to_client[e] = None
      BY Zenon DEF Init, SessionInit
    <3> QED
      BY <2>0, <3>1 DEF Routes
  <2> QED
    BY <2>1, <2>2
<1>2. IInv /\ Soft /\ Routes /\ [Next]_vars => (Soft /\ Routes)'
  BY SoftStep, RouteStep
<1>3. Routes => RoutedToClients
  BY DEF Routes, RoutedToClients
<1> QED
  BY <1>1, <1>2, <1>3, Invariance, PTL DEF Spec

-----------------------------------------------------------------------------
(* The walk of the heartbeat thread over the clients. *)

\* Three operations of Root move the iterator.
LEMMA MovesOfWalk ==
  ASSUME IInv, [Next]_vars
  PROVE  \/ current' = current
         \/ NextClient
         \/ Rewind
         \/ \E j \in Keys : erase(j, Held)
<1>0. ProcLocals /\ ReferencedIsAlive
  BY DEF IInv
<1>1. CASE UNCHANGED vars
  BY <1>1 DEF vars, rootVars
<1>2. CASE CreateErase \/ DeleteErase \/ RemoveErase \/ LocalErase
  <2>1. CASE CreateErase
    BY <2>1, <1>0 DEF CreateErase, ProcLocals
  <2>2. CASE DeleteErase
    BY <2>2, <1>0 DEF DeleteErase, ProcLocals
  <2>3. CASE RemoveErase
    BY <2>3, <1>0 DEF RemoveErase, ReferencedIsAlive
  <2>4. CASE LocalErase
    BY <2>4, <1>0 DEF LocalErase, ProcLocals
  <2> QED
    BY <1>2, <2>1, <2>2, <2>3, <2>4
<1>3. CASE Process
  BY <1>2, <1>3, Zenon DEF Process, CreateFind, CreateDestroy, Create, create_client, Refuse, Establish, Find,
     Heard, DeleteFind, DeleteDestroy, Done, rootVars
<1>4. CASE HeartbeatRound
  BY <1>2, <1>4, Zenon DEF HeartbeatRound, GetState, Branch, ReadTries, WriteTries, TestTries, Mark, Probe,
     RemoveFind, RemoveDestroy, rootVars
<1>5. CASE \/ \E e \in EndPoints, k \in Keys, s \in Sessions :
                \/ \E hard \in BOOLEAN : (hard => HardLiveliness) /\ RecvCreate(e, k, s, hard)
                \/ \E delete \in BOOLEAN : RecvPacket(e, k, s, delete)
           \/ \E k \in Keys, s \in Sessions : LocalCreate(k, s)
           \/ \E k \in Keys : LocalFind(k)
           \/ \E i \in Proxies : Silence(i)
  BY <1>5, Zenon DEF RecvCreate, RecvPacket, LocalCreate, create_client, LocalFind, Silence, rootVars
<1> QED
  BY <1>1, <1>2, <1>3, <1>4, <1>5, Zenon DEF Next

\* From one key to the next: no client lies between, and the walk goes up.
LEMMA Following ==
  ASSUME NEW n, NEW j \in Keys, Follows(n, j), NEW k \in Present
  PROVE  /\ j < k => n # End /\ n =< k
         /\ k =< j => ~ (n # End /\ n =< k)
<1>1. j \in Nat /\ k \in Nat /\ k \in Keys /\ \A i \in Present : i \in Nat
  BY SessionManagerAssumption DEF Present
<1>2. n \in Present => n # End
  BY RootAssumption DEF Present
<1>3. CASE n \in Present /\ n > j /\ \A i \in Present : i > j => n =< i
  <2>1. n \in Nat /\ (k > j => n =< k)
    BY <1>1, <1>3, Zenon
  <2> QED
    BY <2>1, <1>1, <1>2, <1>3
<1>4. CASE n = End /\ \A i \in Present : i =< j
  <2>1. k =< j
    BY <1>4
  <2> QED
    BY <2>1, <1>1, <1>4
<1> QED
  BY <1>3, <1>4, Zenon DEF Follows

\* The heartbeat thread passes a client only when it takes it, whatever is created, replaced and
\* erased around the iterator, and begins each round before all clients.
THEOREM NobodyIsSkipped == Spec => WalkSkipsNobody
<1>1. ASSUME IInv, [Next]_vars, NEW k \in Keys, clients[k] # None, clients'[k] # None
      PROVE  /\ Ahead(k) /\ ~ Ahead(k)' => hb'.pc = "state" /\ hb'.client = clients[k]
             /\ ~ Ahead(k) /\ Ahead(k)' => current = End
             /\ current = End /\ current' # End => Ahead(k)'
  <2>1. k \in Present /\ RootTypeOK /\ hb \in HbType
    BY <1>1 DEF Present, IInv, RootInv
  <2>2. k \in Nat /\ current \in Keys \cup {End} /\ Keys \subseteq Nat
    BY <2>1, SessionManagerAssumption DEF RootTypeOK
  <2>3. CASE current' = current
    BY <2>3 DEF Ahead
  <2>4. CASE NextClient
    <3>1. current \in Keys /\ current # End /\ Follows(current', current)
      BY <2>2, <2>4, RootAssumption DEF NextClient, get_next_client
    <3>2. hb'.pc = "state" /\ hb'.client = clients[current]
      BY <2>1, <2>4 DEF NextClient, HbType
    <3>3. /\ current < k => current' # End /\ current' =< k
          /\ k =< current => ~ (current' # End /\ current' =< k)
      BY <3>1, <2>1, Following
    <3> QED
      BY <3>1, <3>2, <3>3, <2>2 DEF Ahead
  <2>5. CASE Rewind
    <3>1. current = End /\ Begins(current')
      BY <2>5 DEF Rewind, rewind
    <3>2. current' # End /\ current' =< k
      BY <3>1, <2>1, RootAssumption DEF Begins, Present
    <3> QED
      BY <3>1, <3>2 DEF Ahead
  <2>6. ASSUME NEW j \in Keys, erase(j, Held), current' # current
        PROVE  /\ Ahead(k) /\ ~ Ahead(k)' => hb'.pc = "state" /\ hb'.client = clients[k]
               /\ ~ Ahead(k) /\ Ahead(k)' => current = End
               /\ current = End /\ current' # End => Ahead(k)'
    <3>1. current = j /\ Follows(current', j) /\ j # End
      BY <2>6, RootAssumption DEF erase
    <3>2. k # j
      BY <1>1, <2>1, <2>6 DEF erase, RootTypeOK
    <3>3. /\ j < k => current' # End /\ current' =< k
          /\ k =< j => ~ (current' # End /\ current' =< k)
      BY <3>1, <2>1, Following
    <3> QED
      BY <3>1, <3>2, <3>3, <2>2 DEF Ahead
  <2> QED
    BY <1>1, <2>3, <2>4, <2>5, <2>6, MovesOfWalk
<1>2. IInv /\ [Next]_vars =>
        [\A k \in Keys :
           clients[k] # None /\ clients'[k] # None =>
             /\ Ahead(k) /\ ~ Ahead(k)' => hb'.pc = "state" /\ hb'.client = clients[k]
             /\ ~ Ahead(k) /\ Ahead(k)' => current = End
             /\ current = End /\ current' # End => Ahead(k)']_vars
  BY <1>1, Zenon
<1> QED
  BY <1>2, Invariance, PTL DEF Spec, WalkSkipsNobody
=============================================================================
